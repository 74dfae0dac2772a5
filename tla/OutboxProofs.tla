----------------------------- MODULE OutboxProofs ---------------------------
(***************************************************************************)
(* Theorems of the outbox, for every limit on messages, bytes and lease    *)
(* ids.  The inductive invariant says of the queues what they hold, of the *)
(* counters that they are exact and within the limits, of the lease that   *)
(* it is the latest and names the front of its queue, and of the history   *)
(* that what was accepted is what was delivered and what is queued.        *)
(*                                                                         *)
(* First, what the operators on the queues return.  Their definitions      *)
(* recurse over a queue, so the first section proves what induction needs, *)
(* from the least element of a set of naturals.                            *)
(***************************************************************************)
EXTENDS Outbox, TLAPS, WellFoundedInduction

-----------------------------------------------------------------------------
(* Induction *)

(* A non-empty set of naturals has a least element.                        *)
LEMMA LeastNat ==
    ASSUME NEW T, T \subseteq Nat, T # {}
    PROVE  \E x \in T : \A y \in T : x <= y
<1> DEFINE Below == OpToRel(<, Nat)
<1>1. IsWellFoundedOn(Below, Nat)
    BY NatLessThanWellFounded
<1>2. PICK x \in T : \A y \in T : ~ (<<y, x>> \in Below)
    BY <1>1, WFMin
<1>3. ASSUME NEW y \in T, y < x
      PROVE  FALSE
  <2>1. <<y, x>> \in Below
      BY <1>3 DEF OpToRel
  <2>  QED  BY <1>2, <2>1
<1>4. \A y \in T : x <= y
    BY <1>3
<1>  QED  BY <1>4

(* A set with zero and the successor of each of its members has every      *)
(* natural.                                                                *)
LEMMA NatSetInduction ==
    ASSUME NEW T, 0 \in T, \A n \in Nat : n \in T => n + 1 \in T
    PROVE  \A n \in Nat : n \in T
<1>  SUFFICES ASSUME NEW n \in Nat, n \notin T
              PROVE  FALSE
    OBVIOUS
<1>  DEFINE Out == {k \in Nat : k \notin T}
<1>1. PICK x \in Out : \A y \in Out : x <= y
  <2>1. Out \subseteq Nat /\ Out # {}
      OBVIOUS
  <2>  QED  BY <2>1, LeastNat
<1>2. x \in Nat /\ x \notin T /\ x # 0
    OBVIOUS
<1>3. x - 1 \in Nat /\ x - 1 \in T
    BY <1>1, <1>2
<1>  QED  BY <1>2, <1>3

(* A set with the empty sequence, and with every sequence one longer than  *)
(* one it has, has every sequence.                                         *)
LEMMA SeqSetInduction ==
    ASSUME NEW M, NEW T, << >> \in T,
           \A s \in Seq(M) : s \in T => \A m \in M : Append(s, m) \in T
    PROVE  \A s \in Seq(M) : s \in T
<1>  DEFINE L == {n \in Nat : \A s \in Seq(M) : Len(s) = n => s \in T}
<1>1. 0 \in L
    OBVIOUS
<1>2. ASSUME NEW n \in Nat, n \in L
      PROVE  n + 1 \in L
  <2>  SUFFICES ASSUME NEW s \in Seq(M), Len(s) = n + 1
                PROVE  s \in T
      OBVIOUS
  <2>  DEFINE front == SubSeq(s, 1, n)
  <2>1. /\ front \in Seq(M) /\ Len(front) = n
        /\ s[n + 1] \in M /\ s = Append(front, s[n + 1])
      OBVIOUS
  <2>  HIDE DEF front
  <2>  QED  BY <1>2, <2>1
<1>3. \A n \in Nat : n \in L
  <2>  HIDE DEF L
  <2>  QED  BY <1>1, <1>2, NatSetInduction
<1>  QED  BY <1>3

(* The results of applying the first n of N steps to v.                    *)
Iteration(g, N, v, step) ==
    g = [n \in 0 .. N |-> IF n = 0 THEN v ELSE step[n][g[n - 1]]]

(* Steps that stay within a set can be iterated.                           *)
LEMMA Iterates ==
    ASSUME NEW N \in Nat, NEW S, NEW v \in S, NEW step \in [1 .. N -> [S -> S]]
    PROVE  \E g \in [0 .. N -> S] : Iteration(g, N, v, step)
<1>  DEFINE Upto(k) == \E g \in [0 .. k -> S] : Iteration(g, k, v, step)
            T == {k \in Nat : k <= N => Upto(k)}
<1>1. 0 \in T
  <2>  DEFINE g == [n \in 0 .. 0 |-> v]
  <2>1. g \in [0 .. 0 -> S]
      OBVIOUS
  <2>2. Iteration(g, 0, v, step)
      BY DEF Iteration
  <2>3. Upto(0)
      BY <2>1, <2>2
  <2>  QED  BY <2>3
<1>2. ASSUME NEW k \in Nat, k \in T
      PROVE  k + 1 \in T
  <2>  SUFFICES ASSUME k + 1 <= N PROVE Upto(k + 1)
      OBVIOUS
  <2>1. PICK g \in [0 .. k -> S] : Iteration(g, k, v, step)
      BY <1>2
  <2>  DEFINE h == [n \in 0 .. k + 1 |->
                       IF n = k + 1 THEN step[k + 1][g[k]] ELSE g[n]]
  <2>2. step[k + 1] \in [S -> S] /\ g[k] \in S
      OBVIOUS
  <2>3. h \in [0 .. k + 1 -> S]
      BY <2>2
  <2>4. ASSUME NEW n \in 0 .. k + 1
        PROVE  h[n] = IF n = 0 THEN v ELSE step[n][h[n - 1]]
    <3>1. CASE n = k + 1
        BY <3>1
    <3>2. CASE n = 0
        BY <3>2, <2>1 DEF Iteration
    <3>3. CASE n \in 1 .. k
      <4>1. h[n] = g[n] /\ h[n - 1] = g[n - 1]
          BY <3>3
      <4>2. g[n] = step[n][g[n - 1]]
          BY <3>3, <2>1 DEF Iteration
      <4>  QED  BY <3>3, <4>1, <4>2
    <3>  QED  BY <3>1, <3>2, <3>3
  <2>5. Iteration(h, k + 1, v, step)
      BY <2>4 DEF Iteration
  <2>  QED  BY <2>3, <2>5
<1>3. \A k \in Nat : k \in T
  <2>  HIDE DEF T
  <2>  QED  BY <1>1, <1>2, NatSetInduction
<1>  QED  BY <1>3

(* One more step acts on what the steps before it made.                    *)
LEMMA IterationExtends ==
    ASSUME NEW N \in Nat, NEW v, NEW f, NEW g, NEW step, NEW next,
           Iteration(f, N, v, step),
           Iteration(g, N + 1, v, next),
           \A n \in 1 .. N : step[n] = next[n]
    PROVE  g[N + 1] = next[N + 1][f[N]]
<1>  DEFINE T == {n \in Nat : n <= N => f[n] = g[n]}
<1>1. 0 \in T
    BY DEF Iteration
<1>2. ASSUME NEW n \in Nat, n \in T
      PROVE  n + 1 \in T
  <2>  SUFFICES ASSUME n + 1 <= N PROVE f[n + 1] = g[n + 1]
      OBVIOUS
  <2>1. f[n + 1] = step[n + 1][f[n]]
      BY DEF Iteration
  <2>2. g[n + 1] = next[n + 1][g[n]]
      BY DEF Iteration
  <2>  QED  BY <1>2, <2>1, <2>2
<1>3. \A n \in Nat : n \in T
  <2>  HIDE DEF T
  <2>  QED  BY <1>1, <1>2, NatSetInduction
<1>4. f[N] = g[N]
    BY <1>3
<1>  QED  BY <1>4 DEF Iteration

-----------------------------------------------------------------------------
(* Lengths *)

Measured(M) == \A m \in M : m.bytes \in Nat

Adding(messages) ==
    [n \in 1 .. Len(messages) |-> [x \in Nat |-> x + messages[n].bytes]]

(* Bytes iterates the additions of the lengths.                            *)
LEMMA BytesIterates ==
    ASSUME NEW M, Measured(M), NEW s \in Seq(M)
    PROVE  \E g \in [0 .. Len(s) -> Nat] :
              Iteration(g, Len(s), 0, Adding(s)) /\ Bytes(s) = g[Len(s)]
<1>  DEFINE Summed(g) == g = [n \in 0 .. Len(s) |->
                                IF n = 0 THEN 0 ELSE g[n - 1] + s[n].bytes]
            sum == CHOOSE g : Summed(g)
<1>1. Adding(s) \in [1 .. Len(s) -> [Nat -> Nat]]
    BY DEF Adding, Measured
<1>2. PICK g \in [0 .. Len(s) -> Nat] : Iteration(g, Len(s), 0, Adding(s))
  <2>  DEFINE step == Adding(s)
  <2>1. Len(s) \in Nat /\ 0 \in Nat /\ step \in [1 .. Len(s) -> [Nat -> Nat]]
      BY <1>1
  <2>  HIDE DEF step
  <2>2. \E g \in [0 .. Len(s) -> Nat] : Iteration(g, Len(s), 0, step)
      BY <2>1, Iterates
  <2>  QED  BY <2>2 DEF step
<1>3. ASSUME NEW n \in 0 .. Len(s)
      PROVE  g[n] = IF n = 0 THEN 0 ELSE g[n - 1] + s[n].bytes
  <2>1. g[n] = IF n = 0 THEN 0 ELSE Adding(s)[n][g[n - 1]]
      BY <1>2 DEF Iteration
  <2>2. n # 0 => n \in 1 .. Len(s) /\ g[n - 1] \in Nat
      OBVIOUS
  <2>  QED  BY <2>1, <2>2 DEF Adding
<1>4. Summed(g)
    BY <1>3
<1>5. Summed(sum)
  <2>  HIDE DEF Summed
  <2>  QED  BY <1>4
<1>6. sum = g
  <2>  DEFINE T == {n \in Nat : n <= Len(s) => sum[n] = g[n]}
  <2>1. 0 \in T
    <3>1. 0 \in 0 .. Len(s)
        OBVIOUS
    <3>2. ASSUME NEW h, Summed(h)
          PROVE  h[0] = 0
        BY <3>1, <3>2
    <3>  HIDE DEF Summed, sum
    <3>  QED  BY <1>4, <1>5, <3>2
  <2>2. ASSUME NEW n \in Nat, n \in T
        PROVE  n + 1 \in T
    <3>  SUFFICES ASSUME n + 1 <= Len(s) PROVE sum[n + 1] = g[n + 1]
        OBVIOUS
    <3>1. g[n + 1] = g[n] + s[n + 1].bytes
        BY <1>4
    <3>2. sum[n + 1] = sum[n] + s[n + 1].bytes
      <4>  HIDE DEF sum
      <4>  QED  BY <1>5
    <3>  QED  BY <2>2, <3>1, <3>2
  <2>3. \A n \in Nat : n \in T
    <3>  HIDE DEF T
    <3>  QED  BY <2>1, <2>2, NatSetInduction
  <2>  QED  BY <1>4, <1>5, <2>3
<1>7. Bytes(s) = sum[Len(s)]
    BY DEF Bytes
<1>  QED  BY <1>2, <1>6, <1>7

LEMMA BytesEmpty == Bytes(<< >>) = 0
<1>  DEFINE M == {}
<1>1. PICK g \in [0 .. Len(<< >>) -> Nat] :
         Iteration(g, Len(<< >>), 0, Adding(<< >>)) /\ Bytes(<< >>) = g[Len(<< >>)]
  <2>1. Measured(M) /\ << >> \in Seq(M)
      BY DEF Measured
  <2>  HIDE DEF M
  <2>  QED  BY <2>1, BytesIterates
<1>  QED  BY <1>1 DEF Iteration

(* A message adds its length.                                              *)
LEMMA BytesAppend ==
    ASSUME NEW M, Measured(M), NEW s \in Seq(M), NEW m \in M
    PROVE  Bytes(Append(s, m)) = Bytes(s) + m.bytes
<1>  DEFINE t == Append(s, m)
<1>1. /\ t \in Seq(M) /\ Len(s) \in Nat /\ Len(t) = Len(s) + 1
      /\ t[Len(s) + 1] = m /\ \A n \in 1 .. Len(s) : t[n] = s[n]
    OBVIOUS
<1>  HIDE DEF t
<1>2. PICK f \in [0 .. Len(s) -> Nat] :
         Iteration(f, Len(s), 0, Adding(s)) /\ Bytes(s) = f[Len(s)]
    BY BytesIterates
<1>3. PICK g \in [0 .. Len(t) -> Nat] :
         Iteration(g, Len(t), 0, Adding(t)) /\ Bytes(t) = g[Len(t)]
    BY <1>1, BytesIterates
<1>4. \A n \in 1 .. Len(s) : Adding(s)[n] = Adding(t)[n]
    BY <1>1 DEF Adding
<1>5. g[Len(s) + 1] = Adding(t)[Len(s) + 1][f[Len(s)]]
    BY <1>1, <1>2, <1>3, <1>4, IterationExtends
<1>6. Adding(t)[Len(s) + 1][f[Len(s)]] = f[Len(s)] + m.bytes
  <2>1. Len(s) + 1 \in 1 .. Len(t) /\ f[Len(s)] \in Nat
      BY <1>1
  <2>  DEFINE i == Len(s) + 1
              b == f[Len(s)]
  <2>  HIDE DEF i, b
  <2>2. Adding(t)[i][b] = b + t[i].bytes
      BY <2>1, Zenon DEF Adding, i, b
  <2>  QED  BY <1>1, <2>2, Zenon DEF i, b
<1>  QED  BY <1>1, <1>2, <1>3, <1>5, <1>6 DEF t

LEMMA BytesType ==
    ASSUME NEW M, Measured(M), NEW s \in Seq(M)
    PROVE  Bytes(s) \in Nat
    BY BytesIterates

(* The lengths of two queues add up.                                       *)
LEMMA BytesConcat ==
    ASSUME NEW M, Measured(M), NEW s \in Seq(M), NEW t \in Seq(M)
    PROVE  Bytes(s \o t) = Bytes(s) + Bytes(t)
<1>  DEFINE T == {u \in Seq(M) : Bytes(s \o u) = Bytes(s) + Bytes(u)}
<1>1. << >> \in T
  <2>1. s \o << >> = s /\ Bytes(s) \in Nat
      BY BytesType
  <2>  QED  BY <2>1, BytesEmpty
<1>2. ASSUME NEW u \in Seq(M), u \in T, NEW m \in M
      PROVE  Append(u, m) \in T
  <2>1. s \o Append(u, m) = Append(s \o u, m)
      OBVIOUS
  <2>2. /\ s \o u \in Seq(M) /\ Append(u, m) \in Seq(M)
        /\ Bytes(s) \in Nat /\ Bytes(u) \in Nat /\ m.bytes \in Nat
      BY BytesType DEF Measured
  <2>3. Bytes(Append(s \o u, m)) = Bytes(s \o u) + m.bytes
      BY <2>2, BytesAppend
  <2>4. Bytes(Append(u, m)) = Bytes(u) + m.bytes
      BY BytesAppend
  <2>5. Bytes(s \o u) = Bytes(s) + Bytes(u)
      BY <1>2
  <2>6. Bytes(s \o u) + m.bytes = Bytes(s) + Bytes(Append(u, m))
      BY <2>2, <2>4, <2>5
  <2>7. Bytes(s \o Append(u, m)) = Bytes(s) + Bytes(Append(u, m))
      BY <2>1, <2>3, <2>6, Zenon
  <2>  QED  BY <2>2, <2>7, Zenon
<1>3. \A u \in Seq(M) : u \in T
  <2>  HIDE DEF T
  <2>  QED  BY <1>1, <1>2, SeqSetInduction
<1>  QED  BY <1>3

(* The length of a queue is its front's and the rest's.                    *)
LEMMA BytesFront ==
    ASSUME NEW M, Measured(M), NEW s \in Seq(M), s # << >>
    PROVE  Bytes(s) = Head(s).bytes + Bytes(Tail(s))
<1>1. /\ Head(s) \in M /\ Tail(s) \in Seq(M) /\ << >> \in Seq(M)
      /\ s = << Head(s) >> \o Tail(s)
      /\ << Head(s) >> = Append(<< >>, Head(s)) /\ << Head(s) >> \in Seq(M)
    OBVIOUS
<1>2. Bytes(s) = Bytes(<< Head(s) >>) + Bytes(Tail(s))
    BY <1>1, BytesConcat
<1>3. Bytes(<< Head(s) >>) = Bytes(<< >>) + Head(s).bytes
    BY <1>1, BytesAppend
<1>4. Head(s).bytes \in Nat
    BY <1>1 DEF Measured
<1>  QED  BY <1>2, <1>3, <1>4, BytesEmpty

(* A message before a queue, and a queue of one.                           *)
LEMMA BytesCons ==
    ASSUME NEW M, Measured(M), NEW s \in Seq(M), NEW m \in M
    PROVE  /\ Bytes(<< m >> \o s) = m.bytes + Bytes(s)
           /\ Bytes(<< m >>) = m.bytes
<1>1. /\ << m >> \o s \in Seq(M) /\ << m >> \o s # << >>
      /\ Head(<< m >> \o s) = m /\ Tail(<< m >> \o s) = s
      /\ << m >> = Append(<< >>, m) /\ << >> \in Seq(M)
    OBVIOUS
<1>2. Bytes(<< m >> \o s) = m.bytes + Bytes(s)
    BY <1>1, BytesFront
<1>3. Bytes(<< m >>) = 0 + m.bytes /\ m.bytes \in Nat
    BY <1>1, BytesAppend, BytesEmpty DEF Measured
<1>  QED  BY <1>2, <1>3

-----------------------------------------------------------------------------
(* Messages of a kind *)

Keeping(M, queue, kind) ==
    [n \in 1 .. Len(queue) |->
        [q \in Seq(M) |-> KeepIf(q, queue[n], kind)]]

LEMMA KeepIfType ==
    ASSUME NEW M, NEW q \in Seq(M), NEW m \in M, NEW kind
    PROVE  KeepIf(q, m, kind) \in Seq(M)
    BY DEF KeepIf

LEMMA KeepIfConcat ==
    ASSUME NEW M, NEW p \in Seq(M), NEW q \in Seq(M), NEW m \in M, NEW kind
    PROVE  KeepIf(p \o q, m, kind) = p \o KeepIf(q, m, kind)
<1>1. Append(p \o q, m) = p \o Append(q, m)
    OBVIOUS
<1>2. CASE m.kind = kind
    BY <1>1, <1>2, Zenon DEF KeepIf
<1>3. CASE m.kind # kind
    BY <1>3, Zenon DEF KeepIf
<1>  QED  BY <1>2, <1>3

(* OfKind iterates: keep the next message, or leave it.                    *)
LEMMA OfKindIterates ==
    ASSUME NEW M, NEW s \in Seq(M), NEW kind
    PROVE  \E g \in [0 .. Len(s) -> Seq(M)] :
              /\ Iteration(g, Len(s), << >>, Keeping(M, s, kind))
              /\ OfKind(s, kind) = g[Len(s)]
<1>  DEFINE Kept(g) == g = [n \in 0 .. Len(s) |->
                              IF n = 0 THEN << >>
                              ELSE KeepIf(g[n - 1], s[n], kind)]
            kept == CHOOSE g : Kept(g)
<1>1. Keeping(M, s, kind) \in [1 .. Len(s) -> [Seq(M) -> Seq(M)]]
    BY KeepIfType DEF Keeping
<1>2. PICK g \in [0 .. Len(s) -> Seq(M)] :
         Iteration(g, Len(s), << >>, Keeping(M, s, kind))
  <2>  DEFINE step == Keeping(M, s, kind)
              S == Seq(M)
              none == << >>
  <2>1. /\ Len(s) \in Nat /\ none \in S
        /\ step \in [1 .. Len(s) -> [S -> S]]
      BY <1>1
  <2>  HIDE DEF step, S, none
  <2>2. \E g \in [0 .. Len(s) -> S] : Iteration(g, Len(s), none, step)
      BY <2>1, Iterates
  <2>  QED  BY <2>2 DEF step, S, none
<1>3. ASSUME NEW n \in 0 .. Len(s)
      PROVE  g[n] = IF n = 0 THEN << >> ELSE KeepIf(g[n - 1], s[n], kind)
  <2>1. g[n] = IF n = 0 THEN << >> ELSE Keeping(M, s, kind)[n][g[n - 1]]
      BY <1>2 DEF Iteration
  <2>2. n # 0 => n \in 1 .. Len(s) /\ g[n - 1] \in Seq(M)
      OBVIOUS
  <2>  QED  BY <2>1, <2>2 DEF Keeping
<1>4. Kept(g)
    BY <1>3
<1>5. Kept(kept)
  <2>  HIDE DEF Kept
  <2>  QED  BY <1>4
<1>6. kept = g
  <2>  DEFINE T == {n \in Nat : n <= Len(s) => kept[n] = g[n]}
  <2>1. 0 \in T
    <3>1. g[0] = << >>
        BY <1>4
    <3>2. kept[0] = << >>
      <4>  HIDE DEF kept
      <4>  QED  BY <1>5
    <3>  QED  BY <3>1, <3>2
  <2>2. ASSUME NEW n \in Nat, n \in T
        PROVE  n + 1 \in T
    <3>  SUFFICES ASSUME n + 1 <= Len(s) PROVE kept[n + 1] = g[n + 1]
        OBVIOUS
    <3>1. g[n + 1] = KeepIf(g[n], s[n + 1], kind)
        BY <1>4
    <3>2. kept[n + 1] = KeepIf(kept[n], s[n + 1], kind)
      <4>  HIDE DEF kept
      <4>  QED  BY <1>5
    <3>  QED  BY <2>2, <3>1, <3>2
  <2>3. \A n \in Nat : n \in T
    <3>  HIDE DEF T
    <3>  QED  BY <2>1, <2>2, NatSetInduction
  <2>  QED  BY <1>4, <1>5, <2>3
<1>7. OfKind(s, kind) = kept[Len(s)]
    BY DEF OfKind
<1>  QED  BY <1>2, <1>6, <1>7

LEMMA OfKindEmpty == \A kind : OfKind(<< >>, kind) = << >>
<1>  TAKE kind
<1>1. << >> \in Seq({})
    OBVIOUS
<1>2. PICK g \in [0 .. Len(<< >>) -> Seq({})] :
         /\ Iteration(g, Len(<< >>), << >>, Keeping({}, << >>, kind))
         /\ OfKind(<< >>, kind) = g[Len(<< >>)]
    BY <1>1, OfKindIterates
<1>  QED  BY <1>2 DEF Iteration

LEMMA OfKindType ==
    ASSUME NEW M, NEW s \in Seq(M), NEW kind
    PROVE  OfKind(s, kind) \in Seq(M)
    BY OfKindIterates

(* A message is kept if it is of the kind.                                 *)
LEMMA OfKindAppend ==
    ASSUME NEW M, NEW s \in Seq(M), NEW m \in M, NEW kind
    PROVE  OfKind(Append(s, m), kind) = KeepIf(OfKind(s, kind), m, kind)
<1>  DEFINE t == Append(s, m)
<1>1. /\ t \in Seq(M) /\ Len(s) \in Nat /\ Len(t) = Len(s) + 1
      /\ t[Len(s) + 1] = m /\ \A n \in 1 .. Len(s) : t[n] = s[n]
    OBVIOUS
<1>  HIDE DEF t
<1>2. PICK f \in [0 .. Len(s) -> Seq(M)] :
         /\ Iteration(f, Len(s), << >>, Keeping(M, s, kind))
         /\ OfKind(s, kind) = f[Len(s)]
    BY OfKindIterates
<1>3. PICK g \in [0 .. Len(t) -> Seq(M)] :
         /\ Iteration(g, Len(t), << >>, Keeping(M, t, kind))
         /\ OfKind(t, kind) = g[Len(t)]
    BY <1>1, OfKindIterates
<1>4. \A n \in 1 .. Len(s) : Keeping(M, s, kind)[n] = Keeping(M, t, kind)[n]
    BY <1>1 DEF Keeping
<1>5. g[Len(s) + 1] = Keeping(M, t, kind)[Len(s) + 1][f[Len(s)]]
    BY <1>1, <1>2, <1>3, <1>4, IterationExtends
<1>6. Keeping(M, t, kind)[Len(s) + 1][f[Len(s)]] = KeepIf(f[Len(s)], m, kind)
    BY <1>1 DEF Keeping
<1>  QED  BY <1>1, <1>2, <1>3, <1>5, <1>6 DEF t

(* Concatenation keeps what each queue keeps.                              *)
LEMMA OfKindConcat ==
    ASSUME NEW M, NEW s \in Seq(M), NEW t \in Seq(M), NEW kind
    PROVE  OfKind(s \o t, kind) = OfKind(s, kind) \o OfKind(t, kind)
<1>  DEFINE T == {u \in Seq(M) :
                    OfKind(s \o u, kind) = OfKind(s, kind) \o OfKind(u, kind)}
<1>1. << >> \in T
  <2>1. s \o << >> = s /\ OfKind(s, kind) \o << >> = OfKind(s, kind)
      BY OfKindType
  <2>2. OfKind(s \o << >>, kind) = OfKind(s, kind) \o OfKind(<< >>, kind)
      BY <2>1, OfKindEmpty, Zenon
  <2>3. << >> \in Seq(M)
      OBVIOUS
  <2>  QED  BY <2>2, <2>3, Zenon
<1>2. ASSUME NEW u \in Seq(M), u \in T, NEW m \in M
      PROVE  Append(u, m) \in T
  <2>1. s \o Append(u, m) = Append(s \o u, m)
      OBVIOUS
  <2>2. /\ s \o u \in Seq(M) /\ Append(u, m) \in Seq(M)
        /\ OfKind(s, kind) \in Seq(M) /\ OfKind(u, kind) \in Seq(M)
      BY OfKindType
  <2>3. OfKind(Append(s \o u, m), kind) = KeepIf(OfKind(s \o u, kind), m, kind)
      BY <2>2, OfKindAppend
  <2>4. OfKind(Append(u, m), kind) = KeepIf(OfKind(u, kind), m, kind)
      BY OfKindAppend
  <2>5. OfKind(s \o u, kind) = OfKind(s, kind) \o OfKind(u, kind)
      BY <1>2
  <2>6. KeepIf(OfKind(s, kind) \o OfKind(u, kind), m, kind) =
           OfKind(s, kind) \o KeepIf(OfKind(u, kind), m, kind)
      BY <2>2, KeepIfConcat
  <2>7. OfKind(s \o Append(u, m), kind) =
           OfKind(s, kind) \o OfKind(Append(u, m), kind)
      BY <2>1, <2>3, <2>4, <2>5, <2>6, Zenon
  <2>  QED  BY <2>2, <2>7, Zenon
<1>3. \A u \in Seq(M) : u \in T
  <2>  HIDE DEF T
  <2>  QED  BY <1>1, <1>2, SeqSetInduction
<1>  QED  BY <1>3

(* What was kept came from the queue and is of the kind.                   *)
LEMMA OfKindOnly ==
    ASSUME NEW M, NEW s \in Seq(M), NEW kind
    PROVE  OfKind(s, kind) \in Seq({m \in M : m.kind = kind})
<1>  DEFINE K == {m \in M : m.kind = kind}
            T == {u \in Seq(M) : OfKind(u, kind) \in Seq(K)}
<1>1. << >> \in T
  <2>1. << >> \in Seq(M) /\ << >> \in Seq(K)
      OBVIOUS
  <2>  QED  BY <2>1, OfKindEmpty
<1>2. ASSUME NEW u \in Seq(M), u \in T, NEW m \in M
      PROVE  Append(u, m) \in T
  <2>1. OfKind(Append(u, m), kind) = KeepIf(OfKind(u, kind), m, kind)
      BY OfKindAppend
  <2>2. KeepIf(OfKind(u, kind), m, kind) \in Seq(K)
      BY <1>2 DEF KeepIf
  <2>3. Append(u, m) \in Seq(M)
      OBVIOUS
  <2>  QED  BY <2>1, <2>2, <2>3
<1>3. \A u \in Seq(M) : u \in T
  <2>  HIDE DEF T
  <2>  QED  BY <1>1, <1>2, SeqSetInduction
<1>  QED  BY <1>3

(* A queue of one kind is kept as it is.                                   *)
LEMMA OfKindSame ==
    ASSUME NEW kind, NEW M, \A m \in M : m.kind = kind, NEW s \in Seq(M)
    PROVE  OfKind(s, kind) = s
<1>  DEFINE T == {u \in Seq(M) : OfKind(u, kind) = u}
<1>1. << >> \in T
  <2>1. << >> \in Seq(M)
      OBVIOUS
  <2>  QED  BY <2>1, OfKindEmpty
<1>2. ASSUME NEW u \in Seq(M), u \in T, NEW m \in M
      PROVE  Append(u, m) \in T
  <2>1. OfKind(Append(u, m), kind) = KeepIf(OfKind(u, kind), m, kind)
      BY OfKindAppend
  <2>2. KeepIf(u, m, kind) = Append(u, m)
      BY DEF KeepIf
  <2>3. Append(u, m) \in Seq(M)
      OBVIOUS
  <2>  QED  BY <1>2, <2>1, <2>2, <2>3, Zenon
<1>3. \A u \in Seq(M) : u \in T
  <2>  HIDE DEF T
  <2>  QED  BY <1>1, <1>2, SeqSetInduction
<1>  QED  BY <1>3

(* Nothing is kept of a queue of other kinds.                              *)
LEMMA OfKindOther ==
    ASSUME NEW kind, NEW M, \A m \in M : m.kind # kind, NEW s \in Seq(M)
    PROVE  OfKind(s, kind) = << >>
<1>  DEFINE T == {u \in Seq(M) : OfKind(u, kind) = << >>}
<1>1. << >> \in T
  <2>1. << >> \in Seq(M)
      OBVIOUS
  <2>  QED  BY <2>1, OfKindEmpty
<1>2. ASSUME NEW u \in Seq(M), u \in T, NEW m \in M
      PROVE  Append(u, m) \in T
  <2>1. OfKind(Append(u, m), kind) = KeepIf(OfKind(u, kind), m, kind)
      BY OfKindAppend
  <2>2. KeepIf(OfKind(u, kind), m, kind) = OfKind(u, kind)
      BY DEF KeepIf
  <2>3. Append(u, m) \in Seq(M)
      OBVIOUS
  <2>  QED  BY <1>2, <2>1, <2>2, <2>3, Zenon
<1>3. \A u \in Seq(M) : u \in T
  <2>  HIDE DEF T
  <2>  QED  BY <1>1, <1>2, SeqSetInduction
<1>  QED  BY <1>3

(* Keeping twice is keeping once; of two kinds nothing is kept.            *)
LEMMA OfKindTwice ==
    ASSUME NEW M, NEW s \in Seq(M), NEW kind, NEW other, other # kind
    PROVE  /\ OfKind(OfKind(s, kind), kind) = OfKind(s, kind)
           /\ OfKind(OfKind(s, kind), other) = << >>
<1>  DEFINE K == {m \in M : m.kind = kind}
<1>1. \A m \in K : m.kind = kind /\ m.kind # other
    OBVIOUS
<1>2. OfKind(s, kind) \in Seq(K)
    BY OfKindOnly
<1>  HIDE DEF K
<1>  QED  BY <1>1, <1>2, OfKindSame, OfKindOther

(* The front of a queue is kept, before what is kept of the rest, or not.  *)
LEMMA OfKindFront ==
    ASSUME NEW M, NEW s \in Seq(M), s # << >>, NEW kind
    PROVE  OfKind(s, kind) =
              IF Head(s).kind = kind
                THEN << Head(s) >> \o OfKind(Tail(s), kind)
                ELSE OfKind(Tail(s), kind)
<1>1. /\ Head(s) \in M /\ Tail(s) \in Seq(M) /\ << >> \in Seq(M)
      /\ s = << Head(s) >> \o Tail(s)
      /\ << Head(s) >> = Append(<< >>, Head(s)) /\ << Head(s) >> \in Seq(M)
    OBVIOUS
<1>2. OfKind(s, kind) = OfKind(<< Head(s) >>, kind) \o OfKind(Tail(s), kind)
  <2>  DEFINE front == << Head(s) >>
              rest == Tail(s)
  <2>1. front \in Seq(M) /\ rest \in Seq(M) /\ s = front \o rest
      BY <1>1
  <2>  HIDE DEF front, rest
  <2>2. OfKind(front \o rest, kind) = OfKind(front, kind) \o OfKind(rest, kind)
      BY <2>1, OfKindConcat
  <2>  QED  BY <2>1, <2>2, Zenon DEF front, rest
<1>3. OfKind(<< Head(s) >>, kind) = KeepIf(<< >>, Head(s), kind)
  <2>1. OfKind(Append(<< >>, Head(s)), kind) = KeepIf(OfKind(<< >>, kind), Head(s), kind)
      BY <1>1, OfKindAppend
  <2>  QED  BY <1>1, <2>1, OfKindEmpty, Zenon
<1>4. KeepIf(<< >>, Head(s), kind) =
         IF Head(s).kind = kind THEN << Head(s) >> ELSE << >>
    BY <1>1, Zenon DEF KeepIf
<1>5. << >> \o OfKind(Tail(s), kind) = OfKind(Tail(s), kind)
    BY <1>1, OfKindType
<1>  QED  BY <1>2, <1>3, <1>4, <1>5, Zenon

(* Nothing is kept exactly if no message is of the kind.                   *)
LEMMA OfKindNone ==
    ASSUME NEW M, NEW s \in Seq(M), NEW kind
    PROVE  OfKind(s, kind) = << >> <=> \A i \in DOMAIN s : s[i].kind # kind
<1>1. ASSUME \A i \in DOMAIN s : s[i].kind # kind
      PROVE  OfKind(s, kind) = << >>
  <2>  DEFINE K == {m \in M : m.kind # kind}
  <2>1. s \in Seq(K) /\ \A m \in K : m.kind # kind
      BY <1>1
  <2>  HIDE DEF K
  <2>  QED  BY <2>1, OfKindOther
<1>2. ASSUME NEW i \in DOMAIN s, s[i].kind = kind
      PROVE  OfKind(s, kind) # << >>
  <2>  DEFINE Has(u) == \E j \in DOMAIN u : u[j].kind = kind
              T == {u \in Seq(M) : Has(u) => OfKind(u, kind) # << >>}
  <2>1. << >> \in T
      OBVIOUS
  <2>2. ASSUME NEW u \in Seq(M), u \in T, NEW m \in M
        PROVE  Append(u, m) \in T
    <3>1. OfKind(Append(u, m), kind) = KeepIf(OfKind(u, kind), m, kind)
        BY OfKindAppend
    <3>2. OfKind(u, kind) \in Seq(M) /\ Append(u, m) \in Seq(M)
        BY OfKindType
    <3>3. CASE m.kind = kind
      <4>1. KeepIf(OfKind(u, kind), m, kind) = Append(OfKind(u, kind), m)
          BY <3>3 DEF KeepIf
      <4>2. \A q \in Seq(M) : Append(q, m) # << >>
          OBVIOUS
      <4>  QED  BY <3>1, <3>2, <4>1, <4>2, Zenon
    <3>4. CASE m.kind # kind
      <4>1. KeepIf(OfKind(u, kind), m, kind) = OfKind(u, kind)
          BY <3>4 DEF KeepIf
      <4>2. Has(Append(u, m)) => Has(u)
          BY <3>4
      <4>3. Has(u) => OfKind(u, kind) # << >>
          BY <2>2
      <4>  HIDE DEF Has
      <4>  QED  BY <3>1, <3>2, <4>1, <4>2, <4>3, Zenon
    <3>  QED  BY <3>3, <3>4
  <2>3. \A u \in Seq(M) : u \in T
    <3>  HIDE DEF T
    <3>  QED  BY <2>1, <2>2, SeqSetInduction
  <2>4. Has(s)
      BY <1>2
  <2>  QED  BY <2>3, <2>4
<1>  QED  BY <1>1, <1>2

(* A queue of two kinds is as long as what is kept of each.                *)
LEMMA OfKindSplit ==
    ASSUME NEW M, Measured(M), NEW one, NEW two, one # two,
           \A m \in M : m.kind = one \/ m.kind = two,
           NEW s \in Seq(M)
    PROVE  /\ Len(s) = Len(OfKind(s, one)) + Len(OfKind(s, two))
           /\ Bytes(s) = Bytes(OfKind(s, one)) + Bytes(OfKind(s, two))
<1>  DEFINE Split(u) ==
              /\ Len(u) = Len(OfKind(u, one)) + Len(OfKind(u, two))
              /\ Bytes(u) = Bytes(OfKind(u, one)) + Bytes(OfKind(u, two))
            T == {u \in Seq(M) : Split(u)}
<1>1. << >> \in T
  <2>1. << >> \in Seq(M) /\ Len(<< >>) = 0
      OBVIOUS
  <2>2. 0 = 0 + 0
      OBVIOUS
  <2>3. Split(<< >>)
      BY <2>1, <2>2, OfKindEmpty, BytesEmpty
  <2>  QED  BY <2>1, <2>3
<1>2. ASSUME NEW u \in Seq(M), u \in T, NEW m \in M
      PROVE  Append(u, m) \in T
  <2>  DEFINE v == Append(u, m)
              p == OfKind(u, one)
              q == OfKind(u, two)
  <2>1. p \in Seq(M) /\ q \in Seq(M) /\ v \in Seq(M) /\ m.bytes \in Nat
      BY OfKindType DEF Measured
  <2>2. OfKind(v, one) = KeepIf(p, m, one) /\ OfKind(v, two) = KeepIf(q, m, two)
      BY OfKindAppend
  <2>3. Bytes(v) = Bytes(u) + m.bytes /\ Len(v) = Len(u) + 1
      BY BytesAppend
  <2>4. /\ Bytes(Append(p, m)) = Bytes(p) + m.bytes
        /\ Len(Append(p, m)) = Len(p) + 1
        /\ Bytes(Append(q, m)) = Bytes(q) + m.bytes
        /\ Len(Append(q, m)) = Len(q) + 1
      BY <2>1, BytesAppend
  <2>5. /\ Bytes(u) \in Nat /\ Bytes(p) \in Nat /\ Bytes(q) \in Nat
        /\ Len(u) \in Nat /\ Len(p) \in Nat /\ Len(q) \in Nat
      BY <2>1, BytesType
  <2>6. Len(u) = Len(p) + Len(q) /\ Bytes(u) = Bytes(p) + Bytes(q)
      BY <1>2
  <2>7. \/ /\ KeepIf(p, m, one) = Append(p, m)
           /\ KeepIf(q, m, two) = q
        \/ /\ KeepIf(p, m, one) = p
           /\ KeepIf(q, m, two) = Append(q, m)
      BY DEF KeepIf
  <2>  HIDE DEF v, p, q
  <2>8. Split(v)
    <3>1. CASE /\ KeepIf(p, m, one) = Append(p, m)
               /\ KeepIf(q, m, two) = q
        BY <2>1, <2>2, <2>3, <2>4, <2>5, <2>6, <3>1
    <3>2. CASE /\ KeepIf(p, m, one) = p
               /\ KeepIf(q, m, two) = Append(q, m)
        BY <2>1, <2>2, <2>3, <2>4, <2>5, <2>6, <3>2
    <3>  QED  BY <2>7, <3>1, <3>2
  <2>  QED  BY <2>1, <2>8 DEF v
<1>3. \A u \in Seq(M) : u \in T
  <2>  HIDE DEF T
  <2>  QED  BY <1>1, <1>2, SeqSetInduction
<1>  QED  BY <1>3

(* A queue in the order of its ids.                                        *)
Ascending(messages) ==
    \A i, j \in DOMAIN messages : i < j => messages[i].id < messages[j].id

(* What is kept of a queue in order is in order.                           *)
LEMMA OfKindAscending ==
    ASSUME NEW M, \A m \in M : m.id \in Nat, NEW s \in Seq(M), Ascending(s),
           NEW kind
    PROVE  Ascending(OfKind(s, kind))
<1>  DEFINE T == {u \in Seq(M) : Ascending(u) => Ascending(OfKind(u, kind))}
<1>1. << >> \in T
  <2>1. << >> \in Seq(M)
      OBVIOUS
  <2>  QED  BY <2>1, OfKindEmpty
<1>2. ASSUME NEW u \in Seq(M), u \in T, NEW m \in M
      PROVE  Append(u, m) \in T
  <2>  SUFFICES ASSUME Ascending(Append(u, m))
                PROVE  Ascending(OfKind(Append(u, m), kind))
      OBVIOUS
  <2>  DEFINE L == {x \in M : x.id < m.id}
              q == OfKind(u, kind)
  <2>1. u \in Seq(L) /\ Ascending(u)
    <3>  DEFINE v == Append(u, m)
    <3>1. /\ DOMAIN u = 1 .. Len(u) /\ DOMAIN v = 1 .. Len(u) + 1
          /\ Len(u) \in Nat /\ v[Len(u) + 1] = m
          /\ \A j \in 1 .. Len(u) : v[j] = u[j] /\ u[j] \in M
        OBVIOUS
    <3>  HIDE DEF v
    <3>2. \A i, j \in DOMAIN v : i < j => v[i].id < v[j].id
        BY DEF Ascending, v
    <3>3. ASSUME NEW j \in 1 .. Len(u)
          PROVE  u[j] \in L
      <4>1. j \in DOMAIN v /\ Len(u) + 1 \in DOMAIN v /\ j < Len(u) + 1
          BY <3>1
      <4>2. v[j].id < v[Len(u) + 1].id
          BY <3>2, <4>1
      <4>  QED  BY <3>1, <4>2
    <3>4. Ascending(u)
        BY <3>1, <3>2 DEF Ascending
    <3>  QED  BY <3>3, <3>4
  <2>2. q \in Seq(L)
    <3>  HIDE DEF L
    <3>  QED  BY <2>1, OfKindType
  <2>3. Ascending(q)
      BY <1>2, <2>1
  <2>4. OfKind(Append(u, m), kind) = KeepIf(q, m, kind)
      BY OfKindAppend
  <2>  HIDE DEF q
  <2>5. Ascending(Append(q, m))
      BY <2>2, <2>3 DEF Ascending
  <2>  QED  BY <2>3, <2>4, <2>5, Zenon DEF KeepIf
<1>3. \A u \in Seq(M) : u \in T
  <2>  HIDE DEF T
  <2>  QED  BY <1>1, <1>2, SeqSetInduction
<1>  QED  BY <1>3

-----------------------------------------------------------------------------
(* The inductive invariant *)

Waiting == {m \in Messages : m.kind # "ProtocolReply"}
Replies == {m \in Messages : m.kind = "ProtocolReply"}

Counters == [messages : Nat, bytes : Nat]

(* An outbox whose counters are naturals and whose queues hold their kinds.*)
Shapes ==
    [ordered                 : Seq(Waiting),
     protocol                : Seq(Replies),
     pending_bytes           : Nat,
     pending_awareness_bytes : Nat,
     pending_protocol_bytes  : Nat,
     next_lease_id           : SUBSET (1 .. MaxLeaseId),
     active_lease            : SUBSET [id : 1 .. MaxLeaseId, kind : Kinds],
     reserved                : Counters,
     reserved_non_document   : Counters]

Histories ==
    /\ installed \in 0 .. MaxInstalls
    /\ handed \in Seq(Messages)
    /\ accepted \in Seq(1 .. MaxInstalls)
    /\ delivered \in Seq(1 .. MaxInstalls)

(* At most one reservation, of a message or of one per reply.              *)
Reservations == [kind : Kinds, messages : {1, 2}, bytes : Sizes]

HeldOnce ==
    \/ held = {}
    \/ \E r \in Reservations :
          /\ held = {r}
          /\ r.messages \in Counts(r.kind)
          /\ installed + r.messages <= MaxInstalls

Exact(o) ==
    /\ o.pending_bytes = Bytes(Documents(o.ordered))
    /\ o.pending_awareness_bytes = Bytes(Broadcasts(o.ordered))
    /\ o.pending_protocol_bytes = Bytes(o.protocol)

(* The ledger is the reservation in progress.                              *)
NoCharge == [messages |-> 0, bytes |-> 0]

ChargeOf(r) == [messages |-> r.messages, bytes |-> r.bytes]

LedgerIsHeld ==
    /\ held = {} => /\ outbox.reserved = NoCharge
                    /\ outbox.reserved_non_document = NoCharge
    /\ \A r \in held :
          /\ outbox.reserved = ChargeOf(r)
          /\ outbox.reserved_non_document =
                IF r.kind = "DocumentUpdate" THEN NoCharge ELSE ChargeOf(r)

(* The limits, by the counters.                                            *)
Limited(o) ==
    /\ Pending(o) + o.reserved.messages <= MaxMessages
    /\ o.pending_bytes + o.pending_awareness_bytes + o.pending_protocol_bytes
         + o.reserved.bytes <= MaxBytes
    /\ NonDocument(o) + o.reserved_non_document.messages
         <= MaxNonDocumentMessages
    /\ o.pending_awareness_bytes + o.pending_protocol_bytes
         + o.reserved_non_document.bytes <= MaxNonDocumentBytes

(* Lease ids are the places in the history of messages handed out, and an  *)
(* active lease is the latest.                                             *)
LeasesAreHanded ==
    /\ Len(handed) <= MaxLeaseId
    /\ outbox.next_lease_id =
          IF Len(handed) < MaxLeaseId THEN {Len(handed) + 1} ELSE {}
    /\ \A lease \in outbox.active_lease :
          /\ Len(handed) > 0
          /\ lease = [id |-> Len(handed), kind |-> handed[Len(handed)].kind]

(* Ids ascend along the queue and are those of installed messages.         *)
IdsAscend ==
    /\ Ascending(outbox.ordered)
    /\ \A i \in DOMAIN outbox.ordered : outbox.ordered[i].id <= installed
    /\ \A i \in DOMAIN handed :
          IsAwareness(handed[i]) => handed[i].id <= installed

(* While a broadcast is being installed at most one waits.                 *)
BroadcastsBounded ==
    /\ PresenceBounded
    /\ (\E r \in held : r.kind = "AwarenessBroadcast")
         => Len(Broadcasts(outbox.ordered)) <= 1

IInv ==
    /\ outbox \in Shapes
    /\ Histories
    /\ HeldOnce
    /\ Exact(outbox)
    /\ LedgerIsHeld
    /\ Limited(outbox)
    /\ LeasesAreHanded
    /\ LeasedMessageIsFront
    /\ IdsAscend
    /\ NoUpdateLostOrRepeated
    /\ PresenceFollowsDocuments
    /\ BroadcastsBounded

-----------------------------------------------------------------------------
(* The operations on the queues *)

LEMMA MessageFacts ==
    /\ Measured(Messages) /\ Measured(Waiting) /\ Measured(Replies)
    /\ \A m \in Messages : m.id \in Nat /\ m.bytes \in Nat /\ m.kind \in Kinds
    /\ Waiting \subseteq Messages /\ Replies \subseteq Messages
    /\ \A m \in Waiting :
          m.kind = "DocumentUpdate" \/ m.kind = "AwarenessBroadcast"
<1>1. \A m \in Messages :
         m.id \in 1 .. MaxInstalls /\ m.bytes \in Sizes /\ m.kind \in Kinds
    BY DEF Messages
<1>2. ASSUME NEW m \in Messages
      PROVE  m.id \in Nat /\ m.bytes \in Nat /\ m.kind \in Kinds
  <2>1. m.id \in 1 .. MaxInstalls /\ m.bytes \in Sizes /\ m.kind \in Kinds
      BY <1>1
  <2>2. m.id \in Nat
      BY <2>1
  <2>3. m.bytes \in Nat
      BY <2>1, OutboxCallsAssumption
  <2>  QED  BY <2>1, <2>2, <2>3
<1>3. Waiting \subseteq Messages /\ Replies \subseteq Messages
    BY DEF Waiting, Replies
<1>4. \A m \in Waiting :
         m.kind = "DocumentUpdate" \/ m.kind = "AwarenessBroadcast"
    BY <1>1 DEF Waiting, Kinds
<1>  QED  BY <1>2, <1>3, <1>4 DEF Measured

LEMMA LimitFacts ==
    /\ MaxMessages \in Nat /\ MaxBytes \in Nat /\ MaxLeaseId \in Nat
    /\ MaxInstalls \in Nat /\ Sizes \subseteq Nat
    /\ DocumentByteReserve \in Nat /\ MaxNonDocumentMessages \in Nat
    /\ MaxNonDocumentBytes \in Nat
    /\ MaxNonDocumentBytes + DocumentByteReserve = MaxBytes
    /\ MaxMessages > 1 => MaxNonDocumentMessages = MaxMessages - 1
<1>1. DocumentByteReserve \in Nat /\ DocumentByteReserve <= MaxBytes
    BY OutboxBoundsAssumption DEF DocumentByteReserve
<1>  QED
    BY <1>1, OutboxBoundsAssumption, OutboxCallsAssumption
    DEF MaxNonDocumentMessages, MaxNonDocumentBytes

(* What the ordered queue holds of either kind, and together.              *)
LEMMA OrderedFacts ==
    ASSUME NEW s \in Seq(Waiting)
    PROVE  /\ Documents(s) \in Seq(Waiting) /\ Broadcasts(s) \in Seq(Waiting)
           /\ Len(s) = Len(Documents(s)) + Len(Broadcasts(s))
           /\ Len(Documents(s)) \in Nat /\ Len(Broadcasts(s)) \in Nat
           /\ Bytes(s) = Bytes(Documents(s)) + Bytes(Broadcasts(s))
           /\ Bytes(s) \in Nat
           /\ Bytes(Documents(s)) \in Nat /\ Bytes(Broadcasts(s)) \in Nat
           /\ Documents(Documents(s)) = Documents(s)
           /\ Broadcasts(Documents(s)) = << >>
<1>1. Documents(s) \in Seq(Waiting) /\ Broadcasts(s) \in Seq(Waiting)
    BY OfKindType DEF Documents, Broadcasts
<1>2. /\ Len(s) = Len(Documents(s)) + Len(Broadcasts(s))
      /\ Bytes(s) = Bytes(Documents(s)) + Bytes(Broadcasts(s))
  <2>1. "DocumentUpdate" # "AwarenessBroadcast"
      OBVIOUS
  <2>  QED  BY <2>1, MessageFacts, OfKindSplit DEF Documents, Broadcasts
<1>3. /\ Documents(Documents(s)) = Documents(s)
      /\ Broadcasts(Documents(s)) = << >>
  <2>1. "AwarenessBroadcast" # "DocumentUpdate"
      OBVIOUS
  <2>  QED  BY <2>1, OfKindTwice DEF Documents, Broadcasts
<1>4. Bytes(s) \in Nat /\ Bytes(Documents(s)) \in Nat /\ Bytes(Broadcasts(s)) \in Nat
    BY <1>1, MessageFacts, BytesType
<1>5. Len(Documents(s)) \in Nat /\ Len(Broadcasts(s)) \in Nat
    BY <1>1
<1>  QED  BY <1>1, <1>2, <1>3, <1>4, <1>5

(* Lengths of the queues are naturals.                                     *)
LEMMA LengthsType ==
    ASSUME NEW o \in Shapes
    PROVE  /\ Pending(o) \in Nat /\ NonDocument(o) \in Nat
           /\ Pending(o) = Len(Documents(o.ordered))
                             + Len(Broadcasts(o.ordered)) + Len(o.protocol)
<1>1. o.ordered \in Seq(Waiting) /\ o.protocol \in Seq(Replies)
    BY DEF Shapes
<1>  DEFINE k == Len(Broadcasts(o.ordered))
            d == Len(Documents(o.ordered))
            n == Len(o.ordered)
            l == Len(o.protocol)
<1>2. k \in Nat /\ d \in Nat /\ n = d + k
    BY <1>1, OrderedFacts
<1>3. n \in Nat /\ l \in Nat
    BY <1>1
<1>4. Pending(o) = n + l /\ NonDocument(o) = l + k
    BY DEF Pending, NonDocument
<1>  HIDE DEF k, d, n, l
<1>5. /\ Pending(o) \in Nat /\ NonDocument(o) \in Nat
      /\ Pending(o) = d + k + l
    BY <1>2, <1>3, <1>4
<1>  QED  BY <1>5 DEF k, d, l

(* An outbox that holds and reserves no more than another is within limits *)
(* if the other is.                                                        *)
LEMMA SmallerLimits ==
    ASSUME NEW o \in Shapes, NEW p \in Shapes, Limited(o),
           Pending(p) <= Pending(o), NonDocument(p) <= NonDocument(o),
           p.pending_bytes <= o.pending_bytes,
           p.pending_awareness_bytes <= o.pending_awareness_bytes,
           p.pending_protocol_bytes <= o.pending_protocol_bytes,
           p.reserved = o.reserved \/ p.reserved = NoCharge,
           \/ p.reserved_non_document = o.reserved_non_document
           \/ p.reserved_non_document = NoCharge
    PROVE  Limited(p)
<1>  DEFINE k == Pending(p)
            n == NonDocument(p)
            b == p.pending_bytes
            a == p.pending_awareness_bytes
            c == p.pending_protocol_bytes
            m == p.reserved.messages
            s == p.reserved.bytes
            mm == p.reserved_non_document.messages
            ss == p.reserved_non_document.bytes
            kO == Pending(o)
            nO == NonDocument(o)
            bO == o.pending_bytes
            aO == o.pending_awareness_bytes
            cO == o.pending_protocol_bytes
            mO == o.reserved.messages
            sO == o.reserved.bytes
            mmO == o.reserved_non_document.messages
            ssO == o.reserved_non_document.bytes
<1>1. /\ k \in Nat /\ n \in Nat /\ kO \in Nat /\ nO \in Nat
      /\ k <= kO /\ n <= nO
    BY LengthsType
<1>2. /\ b \in Nat /\ a \in Nat /\ c \in Nat
      /\ bO \in Nat /\ aO \in Nat /\ cO \in Nat
      /\ m \in Nat /\ s \in Nat /\ mm \in Nat /\ ss \in Nat
      /\ mO \in Nat /\ sO \in Nat /\ mmO \in Nat /\ ssO \in Nat
    BY DEF Shapes, Counters
<1>3. m <= mO /\ s <= sO /\ mm <= mmO /\ ss <= ssO
    BY <1>2 DEF NoCharge
<1>4. b <= bO /\ a <= aO /\ c <= cO
    OBVIOUS
<1>5. /\ kO + mO <= MaxMessages /\ bO + aO + cO + sO <= MaxBytes
      /\ nO + mmO <= MaxNonDocumentMessages
      /\ aO + cO + ssO <= MaxNonDocumentBytes
    BY Zenon DEF Limited
<1>  HIDE DEF k, n, b, a, c, m, s, mm, ss, kO, nO, bO, aO, cO, mO, sO, mmO, ssO
<1>6. /\ k + m <= MaxMessages /\ b + a + c + s <= MaxBytes
      /\ n + mm <= MaxNonDocumentMessages /\ a + c + ss <= MaxNonDocumentBytes
    BY <1>1, <1>2, <1>3, <1>4, <1>5, LimitFacts
<1>  QED  BY <1>6, Zenon DEF Limited, k, n, b, a, c, m, s, mm, ss

(* Documents and Broadcasts of a queue, by its front.                      *)
LEMMA OrderedFront ==
    ASSUME NEW s \in Seq(Waiting), s # << >>
    PROVE  /\ Head(s) \in Waiting /\ Tail(s) \in Seq(Waiting)
           /\ Len(Tail(s)) = Len(s) - 1
           /\ Bytes(s) = Head(s).bytes + Bytes(Tail(s))
           /\ IsDocument(Head(s)) =>
                 /\ Documents(s) = << Head(s) >> \o Documents(Tail(s))
                 /\ Broadcasts(s) = Broadcasts(Tail(s))
           /\ IsAwareness(Head(s)) =>
                 /\ Broadcasts(s) = << Head(s) >> \o Broadcasts(Tail(s))
                 /\ Documents(s) = Documents(Tail(s))
<1>1. Head(s) \in Waiting /\ Tail(s) \in Seq(Waiting) /\ Len(Tail(s)) = Len(s) - 1
    OBVIOUS
<1>2. Bytes(s) = Head(s).bytes + Bytes(Tail(s))
    BY MessageFacts, BytesFront
<1>3. /\ Documents(s) = IF Head(s).kind = "DocumentUpdate"
                          THEN << Head(s) >> \o Documents(Tail(s))
                          ELSE Documents(Tail(s))
      /\ Broadcasts(s) = IF Head(s).kind = "AwarenessBroadcast"
                           THEN << Head(s) >> \o Broadcasts(Tail(s))
                           ELSE Broadcasts(Tail(s))
    BY OfKindFront DEF Documents, Broadcasts
<1>4. "AwarenessBroadcast" # "DocumentUpdate"
    OBVIOUS
<1>  QED  BY <1>1, <1>2, <1>3, <1>4, Zenon DEF IsDocument, IsAwareness

(* What follows the front of a queue is newer.                             *)
LEMMA RestAscends ==
    ASSUME NEW s \in Seq(Waiting), s # << >>, Ascending(s)
    PROVE  Tail(s) \in Seq({m \in Waiting : Head(s).id < m.id}) /\ Ascending(Tail(s))
<1>  DEFINE front == Head(s)
            rest == Tail(s)
            L == {m \in Waiting : front.id < m.id}
<1>1. /\ DOMAIN s = 1 .. Len(s) /\ Len(s) \in Nat
      /\ DOMAIN rest = 1 .. Len(s) - 1
      /\ front = s[1] /\ Len(s) > 0
      /\ \A i \in DOMAIN rest : rest[i] = s[i + 1] /\ rest[i] \in Waiting
    BY DEF front, rest
<1>2. \A i, j \in DOMAIN s :
         i < j => s[i].id < s[j].id
    BY DEF Ascending
<1>3. ASSUME NEW i \in DOMAIN rest
      PROVE  rest[i] \in L
  <2>1. 1 \in DOMAIN s /\ i + 1 \in DOMAIN s /\ 1 < i + 1
      BY <1>1
  <2>  QED  BY <1>1, <1>2, <2>1
<1>4. ASSUME NEW i \in DOMAIN rest, NEW j \in DOMAIN rest, i < j
      PROVE  rest[i].id < rest[j].id
  <2>1. /\ i + 1 \in DOMAIN s /\ j + 1 \in DOMAIN s
        /\ i + 1 < j + 1
      BY <1>1, <1>4
  <2>2. s[i + 1].id < s[j + 1].id
      BY <1>2, <2>1
  <2>  QED  BY <1>1, <2>2, Zenon
<1>5. Ascending(rest)
    BY <1>4 DEF Ascending
<1>6. rest \in Seq(L)
  <2>1. rest \in Seq(Waiting)
      OBVIOUS
  <2>  HIDE DEF L, rest
  <2>  QED  BY <1>3, <2>1
<1>  QED  BY <1>5, <1>6

(* What is left of an outbox when broadcasts that are not leased go.       *)
Thinned(c, o) ==
    /\ c \in Shapes
    /\ Exact(c)
    /\ c.protocol = o.protocol
    /\ c.pending_bytes = o.pending_bytes
    /\ c.pending_protocol_bytes = o.pending_protocol_bytes
    /\ c.next_lease_id = o.next_lease_id
    /\ c.active_lease = o.active_lease
    /\ c.reserved = o.reserved
    /\ c.reserved_non_document = o.reserved_non_document
    /\ Documents(c.ordered) = Documents(o.ordered)
    /\ Len(Broadcasts(c.ordered)) <= Len(Broadcasts(o.ordered))
    /\ c.pending_awareness_bytes <= o.pending_awareness_bytes
    /\ Ascending(o.ordered) => Ascending(c.ordered)
    /\ \A P : o.ordered \in Seq(P) => c.ordered \in Seq(P)
    /\ \A lease \in o.active_lease :
          lease.kind # "ProtocolReply" =>
             c.ordered # << >> /\ Head(c.ordered) = Head(o.ordered)

(* The ordered queue's part in a lease that names its front.               *)
FrontIsLeased(o) ==
    \A lease \in o.active_lease :
        lease.kind # "ProtocolReply" =>
            o.ordered # << >> /\ Head(o.ordered).kind = lease.kind

(* The first messages of a queue, and the rest.                            *)
LEMMA Pieces ==
    ASSUME NEW M, NEW s \in Seq(M)
    PROVE  /\ SubSeq(s, 1, 0) = << >> /\ << >> \o s = s
           /\ SubSeq(s, 1, Len(s)) = s
           /\ s # << >> => /\ SubSeq(s, 1, 1) = << Head(s) >>
                           /\ SubSeq(s, 2, Len(s)) = Tail(s)
<1>1. SubSeq(s, 1, 0) = << >> /\ << >> \o s = s /\ SubSeq(s, 1, Len(s)) = s
    OBVIOUS
<1>2. ASSUME s # << >>
      PROVE  SubSeq(s, 1, 1) = << Head(s) >>
  <2>1. /\ SubSeq(s, 1, 1) \in Seq(M) /\ Len(SubSeq(s, 1, 1)) = 1
        /\ SubSeq(s, 1, 1)[1] = Head(s) /\ Head(s) \in M
      BY <1>2
  <2>2. ASSUME NEW q \in Seq(M), NEW m \in M, Len(q) = 1, q[1] = m
        PROVE  q = << m >>
      BY <2>2
  <2>  QED  BY <2>1, <2>2
<1>3. s # << >> => SubSeq(s, 2, Len(s)) = Tail(s)
    OBVIOUS
<1>  QED  BY <1>1, <1>2, <1>3

(* An outbox with another ordered queue and count of its presence.         *)
Reordered(c, o, queue, bytes) ==
    /\ c \in Shapes
    /\ c.ordered = queue /\ c.pending_awareness_bytes = bytes
    /\ c.protocol = o.protocol
    /\ c.pending_bytes = o.pending_bytes
    /\ c.pending_protocol_bytes = o.pending_protocol_bytes
    /\ c.next_lease_id = o.next_lease_id
    /\ c.active_lease = o.active_lease
    /\ c.reserved = o.reserved
    /\ c.reserved_non_document = o.reserved_non_document

LEMMA CoalesceFields ==
    ASSUME NEW o \in Shapes, NEW kept,
           kept = IF "AwarenessBroadcast" \in LeasedKinds(o) THEN 1 ELSE 0,
           NEW first, first = SubSeq(o.ordered, 1, kept),
           NEW rest, rest = SubSeq(o.ordered, kept + 1, Len(o.ordered)),
           NEW queue \in Seq(Waiting), queue = first \o Documents(rest),
           NEW bytes \in Nat,
           bytes = o.pending_awareness_bytes - Bytes(Broadcasts(rest))
    PROVE  Reordered(CoalesceUnleasedAwareness(o), o, queue, bytes)
<1>  DEFINE c == CoalesceUnleasedAwareness(o)
<1>1. c = [o EXCEPT !.ordered = queue, !.pending_awareness_bytes = bytes]
    BY Zenon DEF CoalesceUnleasedAwareness
<1>  HIDE DEF c
<1>2. Reordered(c, o, queue, bytes)
    BY <1>1 DEF Shapes, Reordered
<1>  QED  BY <1>2 DEF c

LEMMA CoalesceUnleased ==
    ASSUME NEW o \in Shapes, Exact(o), FrontIsLeased(o),
           "AwarenessBroadcast" \notin LeasedKinds(o)
    PROVE  LET c == CoalesceUnleasedAwareness(o)
           IN  Thinned(c, o) /\ Len(Broadcasts(c.ordered)) = 0
<1>  DEFINE c == CoalesceUnleasedAwareness(o)
            docs == Documents(o.ordered)
            casts == Broadcasts(o.ordered)
<1>1. o.ordered \in Seq(Waiting)
    BY DEF Shapes
<1>2. docs \in Seq(Waiting)
    BY <1>1, OrderedFacts
<1>3. /\ o.pending_awareness_bytes = Bytes(casts) /\ Bytes(casts) \in Nat
      /\ Documents(docs) = docs /\ Broadcasts(docs) = << >>
    BY <1>1, OrderedFacts DEF Exact
<1>4. Reordered(c, o, docs, 0)
  <2>  DEFINE kept == IF "AwarenessBroadcast" \in LeasedKinds(o) THEN 1 ELSE 0
  <2>1. kept = 0
      OBVIOUS
  <2>2. /\ << >> = SubSeq(o.ordered, 1, kept)
        /\ o.ordered = SubSeq(o.ordered, kept + 1, Len(o.ordered))
        /\ docs = << >> \o docs
    <3>  HIDE DEF kept
    <3>  QED  BY <1>1, <1>2, <2>1, Pieces
  <2>3. 0 = o.pending_awareness_bytes - Bytes(casts) /\ 0 \in Nat
      BY <1>3
  <2>  HIDE DEF c, kept
  <2>  QED  BY <1>2, <2>2, <2>3, CoalesceFields DEF kept, c
<1>  HIDE DEF c, docs, casts
<1>5. /\ c \in Shapes
      /\ c.ordered = docs /\ c.pending_awareness_bytes = 0
      /\ c.protocol = o.protocol
      /\ c.pending_bytes = o.pending_bytes
      /\ c.pending_protocol_bytes = o.pending_protocol_bytes
      /\ c.next_lease_id = o.next_lease_id
      /\ c.active_lease = o.active_lease
      /\ c.reserved = o.reserved
      /\ c.reserved_non_document = o.reserved_non_document
    BY <1>4 DEF Reordered
<1>6. Exact(c)
    BY <1>3, <1>5, BytesEmpty DEF Exact, docs
<1>7. Len(Broadcasts(c.ordered)) = 0 /\ Len(casts) \in Nat
    BY <1>1, <1>3, <1>5, OrderedFacts DEF casts
<1>8. Ascending(o.ordered) => Ascending(c.ordered)
    BY <1>1, <1>5, MessageFacts, OfKindAscending DEF docs, Documents
<1>9. \A P : o.ordered \in Seq(P) => c.ordered \in Seq(P)
    BY <1>5, OfKindType DEF docs, Documents
<1>10. ASSUME NEW lease \in o.active_lease, lease.kind # "ProtocolReply"
       PROVE  c.ordered # << >> /\ Head(c.ordered) = Head(o.ordered)
  <2>1. o.ordered # << >> /\ Head(o.ordered).kind = lease.kind
      BY <1>10 DEF FrontIsLeased
  <2>2. lease.kind # "AwarenessBroadcast"
      BY DEF LeasedKinds
  <2>3. IsDocument(Head(o.ordered))
      BY <1>1, <2>1, <2>2, MessageFacts, OrderedFront DEF IsDocument
  <2>4. docs = << Head(o.ordered) >> \o Documents(Tail(o.ordered))
      BY <1>1, <2>1, <2>3, OrderedFront DEF docs
  <2>5. Documents(Tail(o.ordered)) \in Seq(Waiting) /\ Head(o.ordered) \in Waiting
      BY <1>1, <2>1, OrderedFront, OrderedFacts
  <2>  QED  BY <1>5, <2>4, <2>5
<1>  QED
    BY <1>3, <1>5, <1>6, <1>7, <1>8, <1>9, <1>10 DEF Thinned, c, docs, casts

LEMMA CoalesceLeased ==
    ASSUME NEW o \in Shapes, Exact(o), FrontIsLeased(o),
           "AwarenessBroadcast" \in LeasedKinds(o)
    PROVE  LET c == CoalesceUnleasedAwareness(o)
           IN  Thinned(c, o) /\ Len(Broadcasts(c.ordered)) = 1
<1>  DEFINE c == CoalesceUnleasedAwareness(o)
            front == Head(o.ordered)
            rest == Tail(o.ordered)
            docs == Documents(rest)
            casts == Broadcasts(rest)
            queue == << front >> \o docs
<1>1. o.ordered \in Seq(Waiting) /\ o.ordered # << >> /\ IsAwareness(front)
    BY DEF Shapes, FrontIsLeased, LeasedKinds, IsAwareness
<1>2. /\ front \in Waiting /\ rest \in Seq(Waiting)
      /\ docs \in Seq(Waiting) /\ casts \in Seq(Waiting)
      /\ Documents(docs) = docs /\ Broadcasts(docs) = << >>
      /\ Bytes(casts) \in Nat /\ front.bytes \in Nat
    BY <1>1, OrderedFront, OrderedFacts, MessageFacts DEF Measured
<1>3. /\ Broadcasts(o.ordered) = << front >> \o casts
      /\ Documents(o.ordered) = docs
    BY <1>1, OrderedFront
<1>4. o.pending_awareness_bytes = front.bytes + Bytes(casts)
  <2>1. << front >> \o casts \in Seq(Waiting) /\ << front >> \o casts # << >>
        /\ Head(<< front >> \o casts) = front /\ Tail(<< front >> \o casts) = casts
      BY <1>2
  <2>2. Bytes(<< front >> \o casts) = front.bytes + Bytes(casts)
      BY <2>1, MessageFacts, BytesFront
  <2>  QED  BY <1>3, <2>2 DEF Exact
<1>5. /\ queue \in Seq(Waiting) /\ queue # << >>
      /\ Head(queue) = front /\ Tail(queue) = docs
    BY <1>2
<1>6. Documents(queue) = docs /\ Broadcasts(queue) = << front >>
  <2>1. /\ Broadcasts(queue) = << front >> \o Broadcasts(docs)
        /\ Documents(queue) = Documents(docs)
    <3>  HIDE DEF queue, docs, front
    <3>  QED  BY <1>1, <1>5, OrderedFront
  <2>2. << front >> \o << >> = << front >>
      BY <1>2
  <2>  QED  BY <1>2, <2>1, <2>2, Zenon
<1>7. Reordered(c, o, queue, front.bytes)
  <2>  DEFINE kept == IF "AwarenessBroadcast" \in LeasedKinds(o) THEN 1 ELSE 0
  <2>1. kept = 1
      OBVIOUS
  <2>2. /\ << front >> = SubSeq(o.ordered, 1, kept)
        /\ rest = SubSeq(o.ordered, kept + 1, Len(o.ordered))
    <3>1. 1 + 1 = 2
        OBVIOUS
    <3>  HIDE DEF kept, front, rest
    <3>  QED  BY <1>1, <2>1, <3>1, Pieces, Zenon DEF front, rest
  <2>3. front.bytes = o.pending_awareness_bytes - Bytes(casts)
      BY <1>2, <1>4
  <2>  HIDE DEF c, kept
  <2>  QED  BY <1>2, <1>5, <2>2, <2>3, CoalesceFields DEF kept, c
<1>  HIDE DEF c, front, rest
<1>8. Exact(c)
  <2>1. << front >> \in Seq(Waiting) /\ << front >> # << >>
        /\ Head(<< front >>) = front /\ Tail(<< front >>) = << >>
      BY <1>2
  <2>2. Bytes(<< front >>) = front.bytes + Bytes(<< >>)
      BY <2>1, MessageFacts, BytesFront
  <2>3. Bytes(<< front >>) = front.bytes
      BY <1>2, <2>2, BytesEmpty
  <2>  HIDE DEF queue, docs
  <2>  QED  BY <1>3, <1>6, <1>7, <2>3 DEF Exact, Reordered
<1>9. /\ Len(Broadcasts(c.ordered)) = 1
      /\ Len(Broadcasts(c.ordered)) <= Len(Broadcasts(o.ordered))
  <2>1. Len(<< front >>) = 1 /\ Len(<< front >> \o casts) >= 1
      BY <1>2
  <2>  HIDE DEF queue, docs, casts
  <2>  QED  BY <1>3, <1>6, <1>7, <2>1 DEF Reordered
<1>10. ASSUME Ascending(o.ordered)
       PROVE  Ascending(c.ordered)
  <2>  DEFINE L == {m \in Waiting : front.id < m.id}
  <2>1. rest \in Seq(L) /\ Ascending(rest)
      BY <1>1, <1>10, RestAscends DEF front, rest
  <2>2. docs \in Seq(L) /\ Ascending(docs)
    <3>  HIDE DEF L
    <3>  QED
        BY <1>2, <2>1, MessageFacts, OfKindType, OfKindAscending DEF Documents
  <2>  HIDE DEF docs
  <2>3. Ascending(queue)
      BY <1>2, <2>2 DEF Ascending
  <2>  QED  BY <1>7, <2>3 DEF Reordered
<1>11. ASSUME NEW P, o.ordered \in Seq(P)
       PROVE  c.ordered \in Seq(P)
  <2>1. front \in P /\ rest \in Seq(P)
      BY <1>1, <1>11 DEF front, rest
  <2>2. docs \in Seq(P)
      BY <2>1, OfKindType DEF Documents
  <2>3. queue \in Seq(P)
      BY <2>1, <2>2
  <2>  QED  BY <1>7, <2>3 DEF Reordered
<1>12. c.ordered # << >> /\ Head(c.ordered) = Head(o.ordered)
  <2>  HIDE DEF queue
  <2>  QED  BY <1>5, <1>7 DEF Reordered, front
<1>13. c.pending_awareness_bytes <= o.pending_awareness_bytes
    BY <1>2, <1>4, <1>7 DEF Reordered
<1>14. Documents(c.ordered) = Documents(o.ordered)
  <2>  HIDE DEF queue, docs
  <2>  QED  BY <1>3, <1>6, <1>7 DEF Reordered
<1>  HIDE DEF queue
<1>  QED
    BY <1>7, <1>8, <1>9, <1>10, <1>11, <1>12, <1>13, <1>14
    DEF Thinned, Reordered, c

(* coalesce_unleased_awareness leaves at most the broadcast that is leased.*)
LEMMA CoalesceThins ==
    ASSUME NEW o \in Shapes, Exact(o), FrontIsLeased(o)
    PROVE  LET c == CoalesceUnleasedAwareness(o)
           IN  Thinned(c, o) /\ Len(Broadcasts(c.ordered)) <= 1
<1>  DEFINE c == CoalesceUnleasedAwareness(o)
<1>1. Thinned(c, o) /\ (Len(Broadcasts(c.ordered)) = 0 \/ Len(Broadcasts(c.ordered)) = 1)
  <2>  HIDE DEF c
  <2>  QED  BY CoalesceUnleased, CoalesceLeased DEF c
<1>  HIDE DEF c
<1>2. \A n : n = 0 \/ n = 1 => n <= 1
    OBVIOUS
<1>3. Thinned(c, o) /\ Len(Broadcasts(c.ordered)) <= 1
    BY <1>1, <1>2, Zenon
<1>  QED  BY <1>3 DEF c

(* Nothing thinned is the least of it.                                     *)
LEMMA ThinnedSelf ==
    ASSUME NEW o \in Shapes, Exact(o), FrontIsLeased(o)
    PROVE  Thinned(o, o)
<1>1. o.ordered \in Seq(Waiting) /\ o.pending_awareness_bytes \in Nat
    BY DEF Shapes
<1>2. Len(Broadcasts(o.ordered)) \in Nat
    BY <1>1, OrderedFacts
<1>3. Len(Broadcasts(o.ordered)) <= Len(Broadcasts(o.ordered))
      /\ o.pending_awareness_bytes <= o.pending_awareness_bytes
    BY <1>1, <1>2
<1>  QED  BY <1>3, Zenon DEF Thinned, FrontIsLeased

-----------------------------------------------------------------------------
(* Each action preserves the invariant *)

(* The front an active lease names, queue by queue.                        *)
LEMMA LeasedFronts ==
    ASSUME LeasedMessageIsFront
    PROVE  /\ FrontIsLeased(outbox)
           /\ \A lease \in outbox.active_lease :
                 LET queue == IF lease.kind = "ProtocolReply" THEN outbox.protocol
                                                              ELSE outbox.ordered
                 IN  /\ queue # << >>
                     /\ Head(queue) = handed[lease.id]
                     /\ Head(queue).kind = lease.kind
<1>1. \A lease \in outbox.active_lease :
         LET queue == IF lease.kind = "ProtocolReply" THEN outbox.protocol
                                                      ELSE outbox.ordered
         IN  /\ queue # << >>
             /\ Head(queue) = handed[lease.id]
             /\ Head(queue).kind = lease.kind
    BY Zenon DEF LeasedMessageIsFront
<1>  QED  BY <1>1, Zenon DEF FrontIsLeased

(* A step that keeps the history and at most thins the queues.             *)
LEMMA ThinnedStep ==
    ASSUME IInv, NEW c, Thinned(c, outbox),
           outbox' \in Shapes,
           outbox'.ordered = c.ordered,
           outbox'.protocol = c.protocol,
           outbox'.pending_bytes = c.pending_bytes,
           outbox'.pending_awareness_bytes = c.pending_awareness_bytes,
           outbox'.pending_protocol_bytes = c.pending_protocol_bytes,
           outbox'.next_lease_id = c.next_lease_id,
           outbox'.active_lease = c.active_lease,
           UNCHANGED <<installed, handed, accepted, delivered>>
    PROVE  /\ outbox' \in Shapes /\ Histories' /\ Exact(outbox)'
           /\ LeasesAreHanded' /\ LeasedMessageIsFront' /\ IdsAscend'
           /\ NoUpdateLostOrRepeated' /\ PresenceFollowsDocuments'
           /\ PresenceBounded'
           /\ Len(Broadcasts(outbox'.ordered)) <= Len(Broadcasts(outbox.ordered))
<1>1. Histories'
    BY DEF IInv, Histories
<1>2. Exact(outbox)'
    BY DEF Thinned, Exact
<1>3. LeasesAreHanded'
    BY DEF IInv, Thinned, LeasesAreHanded
<1>4. LeasedMessageIsFront'
  <2>1. ASSUME NEW lease \in outbox'.active_lease
        PROVE  LET queue == IF lease.kind = "ProtocolReply"
                              THEN outbox'.protocol ELSE outbox'.ordered
               IN  /\ queue # << >>
                   /\ Head(queue) = handed'[lease.id]
                   /\ Head(queue).kind = lease.kind
    <3>1. lease \in outbox.active_lease
        BY <2>1, Zenon DEF Thinned
    <3>2. CASE lease.kind = "ProtocolReply"
        BY <3>1, <3>2, LeasedFronts, Zenon DEF IInv, Thinned
    <3>3. CASE lease.kind # "ProtocolReply"
        BY <3>1, <3>3, LeasedFronts, Zenon DEF IInv, Thinned
    <3>  QED  BY <3>2, <3>3, Zenon
  <2>  QED  BY <2>1, Zenon DEF LeasedMessageIsFront
<1>5. IdsAscend'
  <2>  DEFINE L == {m \in Waiting : m.id <= installed}
  <2>1. outbox.ordered \in Seq(L)
    <3>1. outbox.ordered \in Seq(Waiting)
          /\ \A i \in DOMAIN outbox.ordered : outbox.ordered[i].id <= installed
        BY DEF IInv, Shapes, IdsAscend
    <3>  QED  BY <3>1
  <2>2. outbox'.ordered \in Seq(L)
    <3>  HIDE DEF L
    <3>  QED  BY <2>1 DEF Thinned
  <2>3. \A i \in DOMAIN outbox'.ordered : outbox'.ordered[i].id <= installed
      BY <2>2
  <2>4. Ascending(outbox'.ordered)
      BY DEF IInv, IdsAscend, Thinned
  <2>  QED  BY <2>3, <2>4 DEF IInv, IdsAscend
<1>6. NoUpdateLostOrRepeated'
    BY DEF IInv, Thinned, NoUpdateLostOrRepeated
<1>7. PresenceFollowsDocuments'
    BY Zenon DEF IInv, PresenceFollowsDocuments
<1>8. /\ Len(Broadcasts(outbox'.ordered)) <= Len(Broadcasts(outbox.ordered))
      /\ PresenceBounded'
  <2>1. /\ outbox.ordered \in Seq(Waiting) /\ outbox'.ordered \in Seq(Waiting)
        /\ Len(Broadcasts(outbox.ordered)) <= 2
        /\ Len(Broadcasts(outbox'.ordered)) <= Len(Broadcasts(outbox.ordered))
      BY DEF IInv, Shapes, Thinned, BroadcastsBounded, PresenceBounded
  <2>2. /\ Len(Broadcasts(outbox.ordered)) \in Nat
        /\ Len(Broadcasts(outbox'.ordered)) \in Nat
    <3>1. ASSUME NEW s \in Seq(Waiting)
          PROVE  Len(Broadcasts(s)) \in Nat
        BY OrderedFacts
    <3>  QED  BY <2>1, <3>1
  <2>3. ASSUME NEW m \in Nat, NEW n \in Nat, m <= n, n <= 2
        PROVE  m <= 2
      BY <2>3
  <2>  QED  BY <2>1, <2>2, <2>3 DEF PresenceBounded
<1>  QED  BY <1>1, <1>2, <1>3, <1>4, <1>5, <1>6, <1>7, <1>8

(* Thinning keeps an outbox within the limits.                             *)
LEMMA ThinnedLimits ==
    ASSUME NEW o \in Shapes, NEW c, Thinned(c, o), Limited(o)
    PROVE  Limited(c)
<1>  DEFINE d == Len(Documents(o.ordered))
            k == Len(Broadcasts(c.ordered))
            n == Len(Broadcasts(o.ordered))
            l == Len(o.protocol)
<1>1. /\ c \in Shapes /\ c.protocol = o.protocol
      /\ Documents(c.ordered) = Documents(o.ordered)
      /\ c.ordered \in Seq(Waiting) /\ o.ordered \in Seq(Waiting)
      /\ o.protocol \in Seq(Replies)
    BY DEF Shapes, Thinned
<1>2. d \in Nat /\ k \in Nat /\ n \in Nat /\ k <= n
    BY <1>1, OrderedFacts DEF Thinned
<1>3. l \in Nat
    BY <1>1
<1>4. Pending(o) = d + n + l /\ Pending(c) = d + k + l
    BY <1>1, LengthsType
<1>5. NonDocument(o) = l + n /\ NonDocument(c) = l + k
    BY <1>1, Zenon DEF NonDocument
<1>  HIDE DEF d, k, n, l
<1>6. Pending(c) <= Pending(o) /\ NonDocument(c) <= NonDocument(o)
    BY <1>2, <1>3, <1>4, <1>5
<1>7. /\ o.pending_bytes <= o.pending_bytes
      /\ o.pending_protocol_bytes <= o.pending_protocol_bytes
    BY DEF Shapes
<1>  QED  BY <1>1, <1>6, <1>7, SmallerLimits DEF Thinned

LEMMA InitSound ==
    ASSUME OutboxInit
    PROVE  IInv
<1>1. /\ Bytes(<< >>) = 0
      /\ Documents(<< >>) = << >> /\ Broadcasts(<< >>) = << >>
    BY BytesEmpty, OfKindEmpty DEF Documents, Broadcasts
<1>2. /\ outbox.ordered = << >> /\ outbox.protocol = << >>
      /\ outbox.pending_bytes = 0 /\ outbox.pending_awareness_bytes = 0
      /\ outbox.pending_protocol_bytes = 0 /\ outbox.next_lease_id = {1}
      /\ outbox.active_lease = {}
      /\ outbox.reserved = NoCharge /\ outbox.reserved_non_document = NoCharge
    BY DEF OutboxInit, NewOutbox, NoCharge
<1>3. outbox \in Shapes
    BY OutboxBoundsAssumption DEF OutboxInit, NewOutbox, Shapes, Counters
<1>4. Histories /\ HeldOnce
    BY LimitFacts DEF OutboxInit, Histories, HeldOnce
<1>5. Exact(outbox)
    BY <1>1, <1>2 DEF Exact
<1>6. LedgerIsHeld
    BY <1>2 DEF OutboxInit, LedgerIsHeld
<1>7. Limited(outbox)
    BY <1>1, <1>2, LimitFacts DEF Limited, Pending, NonDocument, NoCharge
<1>8. LeasesAreHanded
    BY <1>2, OutboxBoundsAssumption DEF OutboxInit, LeasesAreHanded
<1>9. LeasedMessageIsFront
    BY <1>2 DEF LeasedMessageIsFront
<1>10. IdsAscend
    BY <1>2 DEF OutboxInit, IdsAscend, Ascending
<1>11. NoUpdateLostOrRepeated
    BY <1>1, <1>2 DEF OutboxInit, NoUpdateLostOrRepeated
<1>12. PresenceFollowsDocuments
    BY DEF OutboxInit, PresenceFollowsDocuments
<1>13. BroadcastsBounded
    BY <1>1, <1>2 DEF BroadcastsBounded, PresenceBounded
<1>  QED
    BY <1>3, <1>4, <1>5, <1>6, <1>7, <1>8, <1>9, <1>10, <1>11, <1>12, <1>13
    DEF IInv

(* RefusePresence coalesces, and no more.                                  *)
LEMMA RefusePresenceKeeps ==
    ASSUME IInv, RefusePresence
    PROVE  IInv'
<1>  DEFINE c == CoalesceUnleasedAwareness(outbox)
<1>1. Thinned(c, outbox)
    BY LeasedFronts, CoalesceThins DEF IInv
<1>2. outbox' = c /\ held = {} /\ held' = {}
      /\ UNCHANGED <<installed, handed, accepted, delivered>>
    BY DEF RefusePresence
<1>  HIDE DEF c
<1>3. /\ outbox' \in Shapes /\ Histories' /\ Exact(outbox)'
      /\ LeasesAreHanded' /\ LeasedMessageIsFront' /\ IdsAscend'
      /\ NoUpdateLostOrRepeated' /\ PresenceFollowsDocuments'
      /\ PresenceBounded'
      /\ Len(Broadcasts(outbox'.ordered)) <= Len(Broadcasts(outbox.ordered))
    BY <1>1, <1>2, ThinnedStep DEF Thinned
<1>4. HeldOnce'
    BY <1>2 DEF HeldOnce
<1>5. LedgerIsHeld'
    BY <1>1, <1>2 DEF IInv, LedgerIsHeld, Thinned
<1>6. Limited(outbox)'
    BY <1>1, <1>2, ThinnedLimits DEF IInv
<1>7. BroadcastsBounded'
    BY <1>2, <1>3 DEF BroadcastsBounded
<1>  QED  BY <1>3, <1>4, <1>5, <1>6, <1>7 DEF IInv

(* Two outboxes with the same queues, byte counters and leases.            *)
SameQueues(p, o) ==
    /\ p \in Shapes
    /\ p.ordered = o.ordered
    /\ p.protocol = o.protocol
    /\ p.pending_bytes = o.pending_bytes
    /\ p.pending_awareness_bytes = o.pending_awareness_bytes
    /\ p.pending_protocol_bytes = o.pending_protocol_bytes
    /\ p.next_lease_id = o.next_lease_id
    /\ p.active_lease = o.active_lease

(* A reservation on a free ledger, and its end.                            *)
LEMMA ReserveFields ==
    ASSUME NEW o \in Shapes, NEW kind, NEW messages \in Nat, NEW bytes \in Nat,
           NEW charge, charge = [messages |-> messages, bytes |-> bytes],
           o.reserved = NoCharge, o.reserved_non_document = NoCharge,
           NEW p, p = Reserve(o, kind, messages, bytes)
    PROVE  /\ SameQueues(p, o)
           /\ p.reserved = charge
           /\ p.reserved_non_document =
                 IF kind = "DocumentUpdate" THEN NoCharge ELSE charge
<1>1. /\ Charge(o.reserved, messages, bytes) = charge
      /\ Charge(o.reserved_non_document, messages, bytes) = charge
    BY DEF Charge, NoCharge
<1>  DEFINE other == IF kind = "DocumentUpdate" THEN NoCharge ELSE charge
<1>2. charge \in Counters /\ other \in Counters
    BY DEF Counters, NoCharge
<1>3. p = [o EXCEPT !.reserved = charge, !.reserved_non_document = other]
    BY <1>1, Zenon DEF Reserve
<1>  HIDE DEF other
<1>4. SameQueues(p, o) /\ p.reserved = charge /\ p.reserved_non_document = other
    BY <1>2, <1>3 DEF Shapes, SameQueues
<1>  QED  BY <1>4 DEF other

LEMMA RefundFields ==
    ASSUME NEW o \in Shapes, NEW kind, NEW messages \in Nat, NEW bytes \in Nat,
           NEW charge, charge = [messages |-> messages, bytes |-> bytes],
           o.reserved = charge,
           o.reserved_non_document =
              IF kind = "DocumentUpdate" THEN NoCharge ELSE charge,
           NEW p, p = Refund(o, kind, messages, bytes)
    PROVE  /\ SameQueues(p, o)
           /\ p.reserved = NoCharge
           /\ p.reserved_non_document = NoCharge
<1>1. Charge(charge, -messages, -bytes) = NoCharge
    BY DEF Charge, NoCharge
<1>2. p = [o EXCEPT !.reserved = NoCharge, !.reserved_non_document = NoCharge]
  <2>1. CASE kind = "DocumentUpdate"
    <3>1. p = [o EXCEPT !.reserved = NoCharge,
                        !.reserved_non_document = o.reserved_non_document]
        BY <1>1, <2>1, Zenon DEF Refund
    <3>  QED  BY <2>1, <3>1, Zenon
  <2>2. CASE kind # "DocumentUpdate"
    <3>1. p = [o EXCEPT !.reserved = NoCharge,
                        !.reserved_non_document =
                            Charge(o.reserved_non_document, -messages, -bytes)]
        BY <1>1, <2>2, Zenon DEF Refund
    <3>  QED  BY <1>1, <2>2, <3>1, Zenon
  <2>  QED  BY <2>1, <2>2
<1>3. NoCharge \in Counters
    BY DEF Counters, NoCharge
<1>  HIDE DEF NoCharge
<1>  QED  BY <1>2, <1>3 DEF Shapes, SameQueues

LEMMA SameLimits ==
    ASSUME NEW o \in Shapes, NEW p, SameQueues(p, o)
    PROVE  /\ Pending(p) = Pending(o) /\ NonDocument(p) = NonDocument(o)
           /\ Pending(o) \in Nat /\ NonDocument(o) \in Nat
<1>1. Pending(p) = Pending(o) /\ NonDocument(p) = NonDocument(o)
    BY Zenon DEF SameQueues, Pending, NonDocument
<1>  QED  BY <1>1, LengthsType

(* ReserveCall coalesces if it is for presence, and charges the ledger.    *)
LEMMA ReserveCallKeeps ==
    ASSUME IInv, NEW kind \in Kinds, NEW messages \in Counts(kind),
           NEW bytes \in Sizes, ReserveCall(kind, messages, bytes)
    PROVE  IInv'
<1>  DEFINE c == ReserveFirst(outbox, kind)
            charge == [messages |-> messages, bytes |-> bytes]
            r == [kind |-> kind, messages |-> messages, bytes |-> bytes]
<1>1. /\ messages \in {1, 2} /\ bytes \in Nat
      /\ held = {} /\ held' = {r} /\ installed + messages <= MaxInstalls
      /\ Admits(c, kind, messages, bytes)
      /\ outbox' = Reserve(c, kind, messages, bytes)
      /\ UNCHANGED <<installed, handed, accepted, delivered>>
    BY LimitFacts DEF ReserveCall, Counts
<1>2. /\ Thinned(c, outbox)
      /\ kind = "AwarenessBroadcast" => Len(Broadcasts(c.ordered)) <= 1
    BY LeasedFronts, CoalesceThins, ThinnedSelf DEF IInv, ReserveFirst
<1>3. /\ c \in Shapes /\ c.reserved = NoCharge
      /\ c.reserved_non_document = NoCharge
      /\ Limited(c)
    BY <1>1, <1>2, ThinnedLimits DEF IInv, Thinned, LedgerIsHeld
<1>  HIDE DEF c
<1>4. /\ SameQueues(outbox', c)
      /\ outbox'.reserved = charge
      /\ outbox'.reserved_non_document =
            IF kind = "DocumentUpdate" THEN NoCharge ELSE charge
    BY <1>1, <1>3, ReserveFields
<1>5. /\ outbox' \in Shapes /\ Histories' /\ Exact(outbox)'
      /\ LeasesAreHanded' /\ LeasedMessageIsFront' /\ IdsAscend'
      /\ NoUpdateLostOrRepeated' /\ PresenceFollowsDocuments'
      /\ PresenceBounded'
    BY <1>1, <1>2, <1>4, ThinnedStep DEF SameQueues
<1>6. HeldOnce'
  <2>1. /\ r \in Reservations /\ r.messages \in Counts(r.kind)
        /\ installed' + r.messages <= MaxInstalls
      BY <1>1 DEF Reservations
  <2>  QED  BY <1>1, <2>1 DEF HeldOnce
<1>7. LedgerIsHeld'
  <2>1. ChargeOf(r) = charge /\ r.kind = kind
      BY DEF ChargeOf
  <2>2. held' # {} /\ \A h \in held' : h = r
      BY <1>1
  <2>  HIDE DEF r, charge
  <2>  QED  BY <1>4, <2>1, <2>2 DEF LedgerIsHeld
<1>8. Limited(outbox)'
  <2>1. /\ Pending(outbox') = Pending(c) /\ NonDocument(outbox') = NonDocument(c)
        /\ Pending(c) \in Nat /\ NonDocument(c) \in Nat
      BY <1>3, <1>4, SameLimits
  <2>2. /\ outbox'.pending_bytes = c.pending_bytes
        /\ outbox'.pending_awareness_bytes = c.pending_awareness_bytes
        /\ outbox'.pending_protocol_bytes = c.pending_protocol_bytes
        /\ c.pending_bytes \in Nat /\ c.pending_awareness_bytes \in Nat
        /\ c.pending_protocol_bytes \in Nat
      BY <1>3, <1>4 DEF SameQueues, Shapes
  <2>3. /\ Pending(c) + messages <= MaxMessages
        /\ c.pending_bytes + c.pending_awareness_bytes
             + c.pending_protocol_bytes + bytes <= MaxBytes
        /\ kind # "DocumentUpdate" =>
             /\ NonDocument(c) + messages <= MaxNonDocumentMessages
             /\ c.pending_awareness_bytes + c.pending_protocol_bytes + bytes
                  <= MaxNonDocumentBytes
        /\ NonDocument(c) <= MaxNonDocumentMessages
        /\ c.pending_awareness_bytes + c.pending_protocol_bytes
             <= MaxNonDocumentBytes
      BY <1>1, <1>3, <2>1, <2>2 DEF Admits, Limited, NoCharge
  <2>  QED  BY <1>1, <1>4, <2>1, <2>2, <2>3 DEF Limited, NoCharge
<1>9. BroadcastsBounded'
  <2>1. (\E h \in held' : h.kind = "AwarenessBroadcast")
           => kind = "AwarenessBroadcast"
      BY <1>1
  <2>  QED  BY <1>1, <1>2, <1>4, <1>5 DEF BroadcastsBounded, SameQueues
<1>  QED  BY <1>5, <1>6, <1>7, <1>8, <1>9 DEF IInv

(* A ledger that is cleared leaves room.                                   *)
LEMMA FreedLimits ==
    ASSUME NEW o \in Shapes, NEW p, SameQueues(p, o), Limited(o),
           p.reserved = NoCharge, p.reserved_non_document = NoCharge
    PROVE  Limited(p)
<1>1. /\ p \in Shapes
      /\ p.pending_bytes = o.pending_bytes /\ o.pending_bytes \in Nat
      /\ p.pending_awareness_bytes = o.pending_awareness_bytes
      /\ o.pending_awareness_bytes \in Nat
      /\ p.pending_protocol_bytes = o.pending_protocol_bytes
      /\ o.pending_protocol_bytes \in Nat
    BY DEF SameQueues, Shapes
<1>2. \A n \in Nat : n <= n
    OBVIOUS
<1>  QED  BY <1>1, <1>2, SameLimits, SmallerLimits

(* DropCall refunds what was reserved.                                     *)
LEMMA DropCallKeeps ==
    ASSUME IInv, DropCall
    PROVE  IInv'
<1>1. PICK r \in held : outbox' = Refund(outbox, r.kind, r.messages, r.bytes)
    BY DEF DropCall
<1>2. /\ held' = {}
      /\ UNCHANGED <<installed, handed, accepted, delivered>>
    BY DEF DropCall
<1>3. r.messages \in Nat /\ r.bytes \in Nat
  <2>1. r \in Reservations
      BY DEF IInv, HeldOnce
  <2>2. r.messages \in {1, 2} /\ r.bytes \in Sizes
      BY <2>1 DEF Reservations
  <2>3. r.messages \in Nat
      BY <2>2
  <2>4. r.bytes \in Nat
      BY <2>2, OutboxCallsAssumption
  <2>  QED  BY <2>3, <2>4
<1>4. /\ outbox.reserved = ChargeOf(r)
      /\ outbox.reserved_non_document =
            IF r.kind = "DocumentUpdate" THEN NoCharge ELSE ChargeOf(r)
    BY Zenon DEF IInv, LedgerIsHeld
<1>5. /\ outbox \in Shapes /\ Exact(outbox) /\ Limited(outbox)
      /\ LeasedMessageIsFront
    BY DEF IInv
<1>6. /\ SameQueues(outbox', outbox)
      /\ outbox'.reserved = NoCharge /\ outbox'.reserved_non_document = NoCharge
  <2>  DEFINE charge == ChargeOf(r)
              k == r.kind
  <2>1. charge = [messages |-> r.messages, bytes |-> r.bytes]
      BY DEF ChargeOf
  <2>  HIDE DEF charge
  <2>  QED  BY <1>1, <1>3, <1>4, <1>5, <2>1, RefundFields DEF charge
<1>7. Thinned(outbox, outbox)
    BY <1>5, LeasedFronts, ThinnedSelf
<1>8. /\ outbox' \in Shapes /\ Histories' /\ Exact(outbox)'
      /\ LeasesAreHanded' /\ LeasedMessageIsFront' /\ IdsAscend'
      /\ NoUpdateLostOrRepeated' /\ PresenceFollowsDocuments'
      /\ PresenceBounded'
    BY <1>2, <1>6, <1>7, ThinnedStep DEF SameQueues
<1>9. HeldOnce' /\ LedgerIsHeld'
    BY <1>2, <1>6 DEF HeldOnce, LedgerIsHeld
<1>10. Limited(outbox)'
    BY <1>3, <1>4, <1>5, <1>6, FreedLimits DEF ChargeOf
<1>11. BroadcastsBounded'
    BY <1>2, <1>8 DEF BroadcastsBounded
<1>  QED  BY <1>8, <1>9, <1>10, <1>11 DEF IInv

(* Nothing is held back once a lease ends without its message.             *)
LEMMA LeaseEnds ==
    ASSUME IInv, held = {}, outbox' = ReleaseLease(outbox),
           UNCHANGED <<held, installed, handed, accepted, delivered>>
    PROVE  IInv'
<1>1. /\ outbox' \in Shapes /\ outbox'.active_lease = {}
      /\ outbox'.ordered = outbox.ordered /\ outbox'.protocol = outbox.protocol
      /\ outbox'.pending_bytes = outbox.pending_bytes
      /\ outbox'.pending_awareness_bytes = outbox.pending_awareness_bytes
      /\ outbox'.pending_protocol_bytes = outbox.pending_protocol_bytes
      /\ outbox'.next_lease_id = outbox.next_lease_id
      /\ outbox'.reserved = outbox.reserved
      /\ outbox'.reserved_non_document = outbox.reserved_non_document
    BY DEF IInv, Shapes, ReleaseLease
<1>2. Histories' /\ HeldOnce' /\ LedgerIsHeld'
    BY <1>1 DEF IInv, Histories, HeldOnce, LedgerIsHeld
<1>3. Exact(outbox)' /\ Limited(outbox)'
    BY <1>1, Zenon DEF IInv, Exact, Limited, Pending, NonDocument
<1>4. LeasesAreHanded' /\ LeasedMessageIsFront'
    BY <1>1 DEF IInv, LeasesAreHanded, LeasedMessageIsFront
<1>5. IdsAscend'
    BY <1>1 DEF IInv, IdsAscend
<1>6. NoUpdateLostOrRepeated'
    BY <1>1 DEF IInv, NoUpdateLostOrRepeated
<1>7. PresenceFollowsDocuments'
    BY Zenon DEF IInv, PresenceFollowsDocuments
<1>8. BroadcastsBounded'
    BY <1>1 DEF IInv, BroadcastsBounded, PresenceBounded
<1>  QED
    BY <1>1, <1>2, <1>3, <1>4, <1>5, <1>6, <1>7, <1>8 DEF IInv

-----------------------------------------------------------------------------
(* The history and the queue                                               *)

Ids(queue) == [i \in DOMAIN queue |-> queue[i].id]

LEMMA IdsFacts ==
    ASSUME NEW q \in Seq(Messages)
    PROVE  /\ Ids(q) \in Seq(1 .. MaxInstalls)
           /\ Len(Ids(q)) = Len(q)
           /\ \A m \in Messages : Ids(Append(q, m)) = Append(Ids(q), m.id)
           /\ \A m \in Messages : Ids(<< m >> \o q) = << m.id >> \o Ids(q)
<1>1. \A m \in Messages : m.id \in 1 .. MaxInstalls
    BY DEF Messages
<1>2. Ids(q) \in Seq(1 .. MaxInstalls) /\ Len(Ids(q)) = Len(q)
  <2>1. /\ Len(q) \in Nat /\ DOMAIN q = 1 .. Len(q)
        /\ \A i \in 1 .. Len(q) : q[i] \in Messages
      OBVIOUS
  <2>2. Ids(q) \in [1 .. Len(q) -> 1 .. MaxInstalls]
      BY <1>1, <2>1 DEF Ids
  <2>3. ASSUME NEW S, NEW n \in Nat, NEW f \in [1 .. n -> S]
        PROVE  f \in Seq(S) /\ Len(f) = n
      OBVIOUS
  <2>  QED  BY <2>1, <2>2, <2>3
<1>3. ASSUME NEW m \in Messages
      PROVE  Ids(Append(q, m)) = Append(Ids(q), m.id)
    BY <1>1, <1>2 DEF Ids
<1>4. ASSUME NEW m \in Messages
      PROVE  Ids(<< m >> \o q) = << m.id >> \o Ids(q)
    BY <1>1, <1>2 DEF Ids
<1>  QED  BY <1>2, <1>3, <1>4

(* The documents of a queue whose front is a broadcast are newer than it.  *)
LEMMA NewerDocuments ==
    ASSUME NEW s \in Seq(Waiting), s # << >>, Ascending(s), IsAwareness(Head(s))
    PROVE  /\ Documents(s) \in Seq(Waiting)
           /\ \A i \in DOMAIN Documents(s) : Head(s).id < Documents(s)[i].id
<1>  DEFINE L == {m \in Waiting : Head(s).id < m.id}
<1>1. Tail(s) \in Seq(L) /\ Documents(s) = Documents(Tail(s))
    BY RestAscends, OrderedFront
<1>2. Documents(s) \in Seq(L)
  <2>  HIDE DEF L
  <2>  QED  BY <1>1, OfKindType DEF Documents
<1>  QED  BY <1>2

(* LeaseCall hands out the front under the next id.                        *)
LEMMA LeaseCallFields ==
    ASSUME IInv, LeaseCall
    PROVE  /\ Len(handed) < MaxLeaseId
           /\ LET next == Len(handed) + 1
                  kind == NextKind(outbox)
              IN  /\ outbox' \in Shapes
                  /\ outbox'.active_lease = {[id |-> next, kind |-> kind]}
                  /\ outbox'.next_lease_id =
                        IF next < MaxLeaseId THEN {next + 1} ELSE {}
           /\ outbox'.ordered = outbox.ordered
           /\ outbox'.protocol = outbox.protocol
           /\ outbox'.pending_bytes = outbox.pending_bytes
           /\ outbox'.pending_awareness_bytes = outbox.pending_awareness_bytes
           /\ outbox'.pending_protocol_bytes = outbox.pending_protocol_bytes
           /\ outbox'.reserved = outbox.reserved
           /\ outbox'.reserved_non_document = outbox.reserved_non_document
<1>  DEFINE next == Len(handed) + 1
            kind == NextKind(outbox)
            lease == {[id |-> next, kind |-> kind]}
            ids == IF next < MaxLeaseId THEN {next + 1} ELSE {}
<1>1. /\ outbox \in Shapes /\ handed \in Seq(Messages)
      /\ outbox.next_lease_id # {} /\ Pending(outbox) > 0
      /\ outbox' = LeaseNext(outbox)
    BY DEF IInv, Histories, LeaseCall, CanLease
<1>2. /\ Len(handed) \in Nat /\ Len(handed) < MaxLeaseId
      /\ outbox.next_lease_id = {next}
    BY <1>1 DEF IInv, LeasesAreHanded
<1>3. kind \in Kinds
  <2>1. /\ outbox.ordered \in Seq(Waiting)
        /\ outbox.protocol # << >> \/ outbox.ordered # << >>
      BY <1>1 DEF Shapes, Pending
  <2>2. outbox.ordered # << >> => Head(outbox.ordered) \in Waiting
      BY <2>1
  <2>  QED  BY <2>1, <2>2, MessageFacts DEF NextKind, Kinds
<1>4. {[id |-> id, kind |-> kind] : id \in outbox.next_lease_id} = lease
    BY <1>2, Zenon
<1>5. {id + 1 : id \in outbox.next_lease_id} \ {MaxLeaseId + 1} = ids
    BY <1>2, OutboxBoundsAssumption
<1>6. lease \in SUBSET [id : 1 .. MaxLeaseId, kind : Kinds]
      /\ ids \in SUBSET (1 .. MaxLeaseId)
    BY <1>2, <1>3, OutboxBoundsAssumption
<1>7. outbox' = [outbox EXCEPT !.active_lease = lease, !.next_lease_id = ids]
    BY <1>1, <1>4, <1>5, Zenon DEF LeaseNext
<1>  HIDE DEF lease, ids
<1>8. /\ outbox' \in Shapes
      /\ outbox'.active_lease = lease /\ outbox'.next_lease_id = ids
      /\ outbox'.ordered = outbox.ordered
      /\ outbox'.protocol = outbox.protocol
      /\ outbox'.pending_bytes = outbox.pending_bytes
      /\ outbox'.pending_awareness_bytes = outbox.pending_awareness_bytes
      /\ outbox'.pending_protocol_bytes = outbox.pending_protocol_bytes
      /\ outbox'.reserved = outbox.reserved
      /\ outbox'.reserved_non_document = outbox.reserved_non_document
    BY <1>1, <1>6, <1>7 DEF Shapes
<1>  QED  BY <1>2, <1>8 DEF lease, ids

LEMMA LeaseCallKeeps ==
    ASSUME IInv, LeaseCall
    PROVE  IInv'
<1>  DEFINE next == Len(handed) + 1
            kind == NextKind(outbox)
            front == LeaseFront(outbox, kind)
            queue == IF kind = "ProtocolReply" THEN outbox.protocol
                                               ELSE outbox.ordered
<1>1. /\ Len(handed) \in Nat /\ next <= MaxLeaseId /\ outbox' \in Shapes
      /\ outbox'.active_lease = {[id |-> next, kind |-> kind]}
      /\ outbox'.next_lease_id = IF next < MaxLeaseId THEN {next + 1} ELSE {}
      /\ outbox'.ordered = outbox.ordered
      /\ outbox'.protocol = outbox.protocol
      /\ outbox'.pending_bytes = outbox.pending_bytes
      /\ outbox'.pending_awareness_bytes = outbox.pending_awareness_bytes
      /\ outbox'.pending_protocol_bytes = outbox.pending_protocol_bytes
      /\ outbox'.reserved = outbox.reserved
      /\ outbox'.reserved_non_document = outbox.reserved_non_document
  <2>1. handed \in Seq(Messages)
      BY DEF IInv, Histories
  <2>2. Len(handed) \in Nat
      BY <2>1
  <2>  QED  BY <2>2, LeaseCallFields, OutboxBoundsAssumption
<1>2. /\ Pending(outbox) > 0 /\ handed' = Append(handed, front)
      /\ UNCHANGED <<held, installed, accepted, delivered>>
    BY DEF LeaseCall, CanLease
<1>3. /\ outbox.ordered \in Seq(Waiting) /\ outbox.protocol \in Seq(Replies)
      /\ handed \in Seq(Messages)
    BY DEF IInv, Histories, Shapes
<1>4. /\ queue # << >> /\ front = Head(queue) /\ front.kind = kind
      /\ front \in Messages
      /\ kind # "ProtocolReply" => front \in Waiting
  <2>1. CASE outbox.protocol # << >>
    <3>1. kind = "ProtocolReply" /\ queue = outbox.protocol
        BY <2>1 DEF NextKind
    <3>2. Head(outbox.protocol) \in Replies
        BY <1>3, <2>1
    <3>  QED  BY <2>1, <3>1, <3>2, MessageFacts DEF LeaseFront, Replies
  <2>2. CASE outbox.protocol = << >>
    <3>1. outbox.ordered # << >>
        BY <1>2, <1>3, <2>2 DEF Pending
    <3>2. Head(outbox.ordered) \in Waiting
        BY <1>3, <3>1
    <3>3. kind = Head(outbox.ordered).kind
        BY <2>2 DEF NextKind
    <3>4. kind # "ProtocolReply" /\ queue = outbox.ordered
        BY <3>2, <3>3 DEF Waiting
    <3>  QED  BY <3>1, <3>2, <3>3, <3>4, MessageFacts DEF LeaseFront
  <2>  QED  BY <2>1, <2>2
<1>  HIDE DEF front, queue, kind
<1>5. /\ handed' \in Seq(Messages) /\ Len(handed') = next
      /\ DOMAIN handed' = 1 .. next /\ handed'[next] = front
      /\ \A i \in 1 .. Len(handed) : handed'[i] = handed[i]
      /\ DOMAIN handed = 1 .. Len(handed)
    BY <1>2, <1>3, <1>4
<1>6. ASSUME NEW i \in 1 .. next
      PROVE  i = next \/ i \in 1 .. Len(handed)
    BY <1>1
<1>7. Histories' /\ HeldOnce' /\ LedgerIsHeld'
    BY <1>1, <1>2, <1>5 DEF IInv, Histories, HeldOnce, LedgerIsHeld
<1>8. Exact(outbox)' /\ Limited(outbox)'
    BY <1>1, Zenon DEF IInv, Exact, Limited, Pending, NonDocument
<1>9. LeasesAreHanded'
    BY <1>1, <1>4, <1>5 DEF LeasesAreHanded
<1>10. LeasedMessageIsFront'
    BY <1>1, <1>4, <1>5 DEF LeasedMessageIsFront, queue
<1>11. IdsAscend'
  <2>1. Ascending(outbox'.ordered)
        /\ \A i \in DOMAIN outbox'.ordered : outbox'.ordered[i].id <= installed'
      BY <1>1, <1>2 DEF IInv, IdsAscend
  <2>2. IsAwareness(front) => front.id <= installed
    <3>1. ASSUME IsAwareness(front)
          PROVE  queue = outbox.ordered /\ 1 \in DOMAIN outbox.ordered
                 /\ front = outbox.ordered[1]
        BY <1>3, <1>4, <3>1 DEF IsAwareness, queue
    <3>  QED  BY <3>1 DEF IInv, IdsAscend
  <2>3. \A i \in DOMAIN handed : IsAwareness(handed[i]) => handed[i].id <= installed
      BY Zenon DEF IInv, IdsAscend
  <2>4. ASSUME NEW i \in DOMAIN handed', IsAwareness(handed'[i])
        PROVE  handed'[i].id <= installed'
      BY <1>2, <1>5, <1>6, <2>2, <2>3, <2>4, Zenon
  <2>  QED  BY <2>1, <2>4 DEF IdsAscend
<1>12. NoUpdateLostOrRepeated'
    BY <1>1, <1>2 DEF IInv, NoUpdateLostOrRepeated
<1>13. PresenceFollowsDocuments'
  <2>1. ASSUME IsAwareness(front), NEW j \in DOMAIN accepted,
               accepted[j] < front.id
        PROVE  \E k \in DOMAIN delivered : delivered[k] = accepted[j]
    <3>  DEFINE docs == Documents(outbox.ordered)
                ids == Ids(docs)
    <3>1. queue = outbox.ordered
        BY <1>4, <2>1 DEF IsAwareness, queue
    <3>2. docs \in Seq(Waiting) /\ \A i \in DOMAIN docs : front.id < docs[i].id
        BY <1>3, <1>4, <2>1, <3>1, NewerDocuments DEF IInv, IdsAscend
    <3>3. docs \in Seq(Messages)
      <4>  HIDE DEF docs
      <4>  QED  BY <3>2, MessageFacts
    <3>4. /\ ids \in Seq(1 .. MaxInstalls) /\ accepted = delivered \o ids
          /\ delivered \in Seq(1 .. MaxInstalls)
      <4>1. ids \in Seq(1 .. MaxInstalls)
          BY <3>3, IdsFacts
      <4>2. accepted = delivered \o ids
          BY Zenon DEF IInv, NoUpdateLostOrRepeated, Ids
      <4>  QED  BY <4>1, <4>2 DEF IInv, Histories
    <3>5. \A i \in DOMAIN ids : front.id < ids[i] /\ ids[i] \in Nat
      <4>1. DOMAIN ids = DOMAIN docs /\ \A i \in DOMAIN docs : ids[i] = docs[i].id
          BY DEF Ids
      <4>  HIDE DEF ids, docs
      <4>2. ASSUME NEW S, NEW q \in Seq(S), NEW i \in DOMAIN q
            PROVE  q[i] \in S
          OBVIOUS
      <4>3. \A i \in DOMAIN ids : ids[i] \in 1 .. MaxInstalls
          BY <3>4, <4>2, Zenon
      <4>  QED  BY <3>2, <4>1, <4>3
    <3>6. front.id \in Nat
        BY <1>4, MessageFacts
    <3>  HIDE DEF ids, docs
    <3>7. CASE j \in DOMAIN delivered
        BY <3>4, <3>7
    <3>8. CASE j \notin DOMAIN delivered
      <4>1. /\ j - Len(delivered) \in DOMAIN ids
            /\ accepted[j] = ids[j - Len(delivered)]
          BY <3>4, <3>8
      <4>  QED  BY <2>1, <3>5, <3>6, <4>1
    <3>  QED  BY <3>7, <3>8
  <2>2. ASSUME NEW i \in DOMAIN handed', IsAwareness(handed'[i]),
               NEW j \in DOMAIN accepted, accepted[j] < handed'[i].id
        PROVE  \E k \in DOMAIN delivered : delivered[k] = accepted[j]
    <3>1. CASE i = next
        BY <1>5, <2>1, <2>2, <3>1, Zenon
    <3>2. CASE i \in 1 .. Len(handed)
        BY <1>5, <2>2, <3>2, Zenon DEF IInv, PresenceFollowsDocuments
    <3>  QED  BY <1>5, <1>6, <3>1, <3>2, Zenon
  <2>  QED  BY <1>2, <2>2, Zenon DEF PresenceFollowsDocuments
<1>14. BroadcastsBounded'
    BY <1>1, <1>2 DEF IInv, BroadcastsBounded, PresenceBounded
<1>  QED
    BY <1>1, <1>7, <1>8, <1>9, <1>10, <1>11, <1>12, <1>13, <1>14 DEF IInv

LEMMA NackCallKeeps ==
    ASSUME IInv, NEW lease_id, NackCall(lease_id)
    PROVE  IInv'
    BY LeaseEnds DEF NackCall, NackLease

LEMMA RetireConnectionKeeps ==
    ASSUME IInv, RetireConnection
    PROVE  IInv'
    BY LeaseEnds DEF RetireConnection

(* ResetForRestore leaves the documents.                                   *)
LEMMA ResetForRestoreKeeps ==
    ASSUME IInv, ResetForRestore
    PROVE  IInv'
<1>  DEFINE docs == Documents(outbox.ordered)
<1>1. /\ outbox \in Shapes /\ Exact(outbox) /\ Limited(outbox)
      /\ outbox.ordered \in Seq(Waiting)
    BY DEF IInv, Shapes
<1>2. /\ held = {} /\ outbox' = ClearProtocolReplies(ReleaseLease(outbox))
      /\ UNCHANGED <<held, installed, handed, accepted, delivered>>
    BY DEF ResetForRestore
<1>3. /\ docs \in Seq(Waiting) /\ Documents(docs) = docs
      /\ Broadcasts(docs) = << >>
      /\ Len(outbox.ordered) = Len(docs) + Len(Broadcasts(outbox.ordered))
      /\ Len(docs) \in Nat /\ Len(Broadcasts(outbox.ordered)) \in Nat
    BY <1>1, OrderedFacts
<1>4. outbox' = [outbox EXCEPT !.active_lease = {}, !.protocol = << >>,
                               !.pending_protocol_bytes = 0,
                               !.ordered = docs,
                               !.pending_awareness_bytes = 0]
  <2>  DEFINE o == ReleaseLease(outbox)
  <2>1. /\ o = [outbox EXCEPT !.active_lease = {}]
        /\ {lease \in o.active_lease : lease.kind = "DocumentUpdate"} = {}
        /\ o.ordered = outbox.ordered
      BY <1>1 DEF ReleaseLease, Shapes
  <2>  HIDE DEF o
  <2>2. outbox' = [o EXCEPT !.active_lease = {}, !.protocol = << >>,
                            !.pending_protocol_bytes = 0,
                            !.ordered = docs,
                            !.pending_awareness_bytes = 0]
      BY <1>2, <2>1, Zenon DEF ClearProtocolReplies, o
  <2>  HIDE DEF docs
  <2>  QED  BY <1>1, <2>1, <2>2 DEF Shapes
<1>  HIDE DEF docs
<1>5. /\ outbox' \in Shapes
      /\ outbox'.active_lease = {} /\ outbox'.protocol = << >>
      /\ outbox'.pending_protocol_bytes = 0
      /\ outbox'.ordered = docs /\ outbox'.pending_awareness_bytes = 0
      /\ outbox'.pending_bytes = outbox.pending_bytes
      /\ outbox'.next_lease_id = outbox.next_lease_id
      /\ outbox'.reserved = outbox.reserved
      /\ outbox'.reserved_non_document = outbox.reserved_non_document
  <2>1. ASSUME NEW none \in Seq(Replies), NEW zero \in Nat,
               NEW idle \in SUBSET [id : 1 .. MaxLeaseId, kind : Kinds],
               outbox' = [outbox EXCEPT !.active_lease = idle,
                                        !.protocol = none,
                                        !.pending_protocol_bytes = zero,
                                        !.ordered = docs,
                                        !.pending_awareness_bytes = zero]
        PROVE  /\ outbox' \in Shapes
               /\ outbox'.active_lease = idle /\ outbox'.protocol = none
               /\ outbox'.pending_protocol_bytes = zero
               /\ outbox'.ordered = docs /\ outbox'.pending_awareness_bytes = zero
               /\ outbox'.pending_bytes = outbox.pending_bytes
               /\ outbox'.next_lease_id = outbox.next_lease_id
               /\ outbox'.reserved = outbox.reserved
               /\ outbox'.reserved_non_document = outbox.reserved_non_document
      BY <1>1, <1>3, <2>1 DEF Shapes
  <2>2. /\ << >> \in Seq(Replies) /\ 0 \in Nat
        /\ {} \in SUBSET [id : 1 .. MaxLeaseId, kind : Kinds]
      OBVIOUS
  <2>  QED  BY <1>4, <2>1, <2>2
<1>6. Histories' /\ HeldOnce' /\ LedgerIsHeld'
    BY <1>2, <1>5 DEF IInv, Histories, HeldOnce, LedgerIsHeld
<1>7. Exact(outbox)'
    BY <1>1, <1>3, <1>5, BytesEmpty DEF Exact, docs
<1>8. Limited(outbox)'
  <2>1. /\ outbox.pending_bytes <= outbox.pending_bytes
        /\ 0 <= outbox.pending_awareness_bytes
        /\ 0 <= outbox.pending_protocol_bytes
      BY <1>1 DEF Shapes
  <2>  DEFINE d == Len(docs)
              n == Len(Broadcasts(outbox.ordered))
              l == Len(outbox.protocol)
  <2>2. d \in Nat /\ n \in Nat /\ l \in Nat
      BY <1>1, <1>3 DEF Shapes
  <2>3. /\ Pending(outbox) = d + n + l /\ NonDocument(outbox) = l + n
        /\ Pending(outbox') = d + 0 /\ NonDocument(outbox') = 0 + 0
    <3>1. Len(<< >>) = 0
        OBVIOUS
    <3>  QED  BY <1>3, <1>5, <3>1, Zenon DEF Pending, NonDocument
  <2>  HIDE DEF d, n, l
  <2>4. /\ Pending(outbox') <= Pending(outbox)
        /\ NonDocument(outbox') <= NonDocument(outbox)
      BY <2>2, <2>3
  <2>  QED  BY <1>1, <1>5, <2>1, <2>4, SmallerLimits
<1>9. LeasesAreHanded' /\ LeasedMessageIsFront'
    BY <1>2, <1>5 DEF IInv, LeasesAreHanded, LeasedMessageIsFront
<1>10. IdsAscend'
  <2>  DEFINE L == {m \in Waiting : m.id <= installed}
  <2>1. outbox.ordered \in Seq(L)
      BY <1>1 DEF IInv, IdsAscend
  <2>2. docs \in Seq(L)
    <3>  HIDE DEF L
    <3>  QED  BY <2>1, OfKindType DEF docs, Documents
  <2>3. Ascending(docs)
      BY <1>1, MessageFacts, OfKindAscending DEF IInv, IdsAscend, docs, Documents
  <2>  QED  BY <1>2, <1>5, <2>2, <2>3 DEF IInv, IdsAscend
<1>11. NoUpdateLostOrRepeated'
    BY <1>2, <1>3, <1>5 DEF IInv, NoUpdateLostOrRepeated, docs
<1>12. PresenceFollowsDocuments'
    BY <1>2, Zenon DEF IInv, PresenceFollowsDocuments
<1>13. BroadcastsBounded'
  <2>1. Len(<< >>) = 0
      OBVIOUS
  <2>  QED  BY <1>2, <1>3, <1>5, <2>1 DEF BroadcastsBounded, PresenceBounded
<1>  QED
    BY <1>5, <1>6, <1>7, <1>8, <1>9, <1>10, <1>11, <1>12, <1>13 DEF IInv

(* AckCall takes the message handed out last from the front of its queue.  *)
LEMMA AckCallFront ==
    ASSUME IInv, NEW lease_id, AckCall(lease_id)
    PROVE  LET m == handed[lease_id]
           IN  /\ lease_id = Len(handed) /\ m \in Messages
               /\ outbox.active_lease = {[id |-> lease_id, kind |-> m.kind]}
               /\ m.kind = "ProtocolReply" =>
                     outbox.protocol # << >> /\ Head(outbox.protocol) = m
               /\ m.kind # "ProtocolReply" =>
                     outbox.ordered # << >> /\ Head(outbox.ordered) = m
<1>1. PICK lease \in outbox.active_lease : lease.id = lease_id
    BY DEF AckCall, MatchesLease
<1>2. /\ handed \in Seq(Messages) /\ Len(handed) > 0
      /\ \A l \in outbox.active_lease :
            l = [id |-> Len(handed), kind |-> handed[Len(handed)].kind]
    BY DEF IInv, Histories, LeasesAreHanded
<1>3. /\ lease_id = Len(handed)
      /\ lease = [id |-> lease_id, kind |-> handed[lease_id].kind]
    BY <1>1, <1>2
<1>4. outbox.active_lease = {lease}
    BY <1>1, <1>2, <1>3
<1>5. handed[lease_id] \in Messages
    BY <1>2, <1>3
<1>  DEFINE queue == IF lease.kind = "ProtocolReply" THEN outbox.protocol
                                                     ELSE outbox.ordered
<1>6. queue # << >> /\ Head(queue) = handed[lease.id]
    BY <1>1, LeasedFronts DEF IInv
<1>7. lease.id = lease_id /\ lease.kind = handed[lease_id].kind
    BY <1>3
<1>  QED  BY <1>3, <1>4, <1>5, <1>6, <1>7, Zenon

(* What is left after the front was acknowledged.                          *)
Acknowledged(p, o, ordered, protocol) ==
    /\ p \in Shapes /\ Exact(p)
    /\ p.active_lease = {}
    /\ p.ordered = ordered /\ p.protocol = protocol
    /\ p.pending_bytes <= o.pending_bytes
    /\ p.pending_awareness_bytes <= o.pending_awareness_bytes
    /\ p.pending_protocol_bytes <= o.pending_protocol_bytes
    /\ p.next_lease_id = o.next_lease_id
    /\ p.reserved = o.reserved
    /\ p.reserved_non_document = o.reserved_non_document

LEMMA AckCallFields ==
    ASSUME IInv, NEW lease_id, AckCall(lease_id),
           NEW m, m = handed[lease_id],
           NEW ordered, ordered = IF m.kind = "ProtocolReply"
                                    THEN outbox.ordered ELSE Tail(outbox.ordered),
           NEW protocol, protocol = IF m.kind = "ProtocolReply"
                                      THEN Tail(outbox.protocol)
                                      ELSE outbox.protocol
    PROVE  Acknowledged(outbox', outbox, ordered, protocol)
<1>  DEFINE b == Bytes(Documents(ordered))
            a == Bytes(Broadcasts(ordered))
            c == Bytes(protocol)
<1>1. /\ outbox \in Shapes /\ Exact(outbox)
      /\ outbox.ordered \in Seq(Waiting) /\ outbox.protocol \in Seq(Replies)
    BY DEF IInv, Shapes
<1>2. /\ m \in Messages
      /\ outbox.active_lease = {[id |-> lease_id, kind |-> m.kind]}
      /\ m.kind = "ProtocolReply" =>
            outbox.protocol # << >> /\ Head(outbox.protocol) = m
      /\ m.kind # "ProtocolReply" =>
            outbox.ordered # << >> /\ Head(outbox.ordered) = m
    BY AckCallFront
<1>3. m.bytes \in Nat /\ m.kind \in Kinds
    BY <1>2, MessageFacts
<1>4. ordered \in Seq(Waiting) /\ protocol \in Seq(Replies)
    BY <1>1, <1>2
<1>5. b \in Nat /\ a \in Nat /\ c \in Nat
    BY <1>4, OrderedFacts, MessageFacts, BytesType
<1>6. /\ outbox.pending_bytes =
            IF m.kind = "DocumentUpdate" THEN b + m.bytes ELSE b
      /\ outbox.pending_awareness_bytes =
            IF m.kind = "AwarenessBroadcast" THEN a + m.bytes ELSE a
      /\ outbox.pending_protocol_bytes =
            IF m.kind = "ProtocolReply" THEN c + m.bytes ELSE c
  <2>1. CASE m.kind = "ProtocolReply"
    <3>1. Bytes(outbox.protocol) = m.bytes + c
        BY <1>1, <1>2, <2>1, BytesFront, MessageFacts
    <3>  HIDE DEF b, a, c
    <3>2. outbox.pending_bytes = b /\ outbox.pending_awareness_bytes = a
        BY <1>1, <2>1 DEF Exact, b, a
    <3>  QED  BY <1>1, <1>3, <1>5, <2>1, <3>1, <3>2 DEF Exact
  <2>2. CASE m.kind # "ProtocolReply"
    <3>1. /\ ordered = Tail(outbox.ordered) /\ protocol = outbox.protocol
          /\ outbox.ordered # << >> /\ Head(outbox.ordered) = m /\ m \in Waiting
        BY <1>2, <2>2 DEF Waiting
    <3>2. /\ IsDocument(m) =>
                /\ Documents(outbox.ordered) = << m >> \o Documents(ordered)
                /\ Broadcasts(outbox.ordered) = Broadcasts(ordered)
          /\ IsAwareness(m) =>
                /\ Broadcasts(outbox.ordered) = << m >> \o Broadcasts(ordered)
                /\ Documents(outbox.ordered) = Documents(ordered)
        BY <1>1, <3>1, OrderedFront
    <3>3. /\ Bytes(<< m >> \o Documents(ordered)) = m.bytes + b
          /\ Bytes(<< m >> \o Broadcasts(ordered)) = m.bytes + a
      <4>1. Documents(ordered) \in Seq(Waiting) /\ Broadcasts(ordered) \in Seq(Waiting)
          BY <1>4, OrderedFacts
      <4>  QED  BY <3>1, <4>1, MessageFacts, BytesCons
    <3>4. m.bytes + b = b + m.bytes /\ m.bytes + a = a + m.bytes
      <4>  HIDE DEF b, a
      <4>  QED  BY <1>3, <1>5
    <3>5. outbox.pending_protocol_bytes = c
        BY <1>1, <3>1 DEF Exact
    <3>  HIDE DEF c
    <3>6. CASE IsDocument(m)
        BY <1>1, <2>2, <3>2, <3>3, <3>4, <3>5, <3>6, Zenon
        DEF Exact, IsDocument
    <3>7. CASE IsAwareness(m)
        BY <1>1, <2>2, <3>2, <3>3, <3>4, <3>5, <3>7, Zenon
        DEF Exact, IsAwareness
    <3>  QED  BY <3>1, <3>6, <3>7, MessageFacts DEF IsDocument, IsAwareness
  <2>  QED  BY <2>1, <2>2
<1>7. outbox' = ReleaseLease(Grow(PopFront(outbox, m.kind), m.kind, -m.bytes))
  <2>  DEFINE lease == [id |-> lease_id, kind |-> m.kind]
              k == (CHOOSE l \in outbox.active_lease : TRUE).kind
  <2>1. k = m.kind
    <3>1. (CHOOSE l \in {lease} : TRUE) = lease
        OBVIOUS
    <3>  QED  BY <1>2, <3>1
  <2>2. LeaseFront(outbox, m.kind) = m
      BY <1>2 DEF LeaseFront
  <2>3. outbox' = ReleaseLease(Grow(PopFront(outbox, k), k,
                                    -LeaseFront(outbox, k).bytes))
      BY Zenon DEF AckCall, AckLease
  <2>  HIDE DEF k
  <2>  QED  BY <2>1, <2>2, <2>3, Zenon
<1>  DEFINE popped == PopFront(outbox, m.kind)
            grown == Grow(popped, m.kind, -m.bytes)
<1>8. /\ popped \in Shapes
      /\ popped.ordered = ordered /\ popped.protocol = protocol
      /\ popped.pending_bytes = outbox.pending_bytes
      /\ popped.pending_awareness_bytes = outbox.pending_awareness_bytes
      /\ popped.pending_protocol_bytes = outbox.pending_protocol_bytes
      /\ popped.next_lease_id = outbox.next_lease_id
      /\ popped.reserved = outbox.reserved
      /\ popped.reserved_non_document = outbox.reserved_non_document
  <2>1. CASE m.kind = "ProtocolReply"
    <3>1. popped = [outbox EXCEPT !.protocol = protocol] /\ ordered = outbox.ordered
        BY <2>1, Zenon DEF PopFront
    <3>  HIDE DEF popped
    <3>  QED  BY <1>1, <1>4, <3>1 DEF Shapes
  <2>2. CASE m.kind # "ProtocolReply"
    <3>1. popped = [outbox EXCEPT !.ordered = ordered] /\ protocol = outbox.protocol
        BY <2>2, Zenon DEF PopFront
    <3>  HIDE DEF popped
    <3>  QED  BY <1>1, <1>4, <3>1 DEF Shapes
  <2>  QED  BY <2>1, <2>2, Zenon
<1>9. /\ (IF m.kind = "DocumentUpdate" THEN popped.pending_bytes + (-m.bytes)
                                       ELSE popped.pending_bytes) = b
      /\ (IF m.kind = "AwarenessBroadcast"
            THEN popped.pending_awareness_bytes + (-m.bytes)
            ELSE popped.pending_awareness_bytes) = a
      /\ (IF m.kind = "ProtocolReply"
            THEN popped.pending_protocol_bytes + (-m.bytes)
            ELSE popped.pending_protocol_bytes) = c
  <2>  HIDE DEF popped, b, a, c
  <2>  QED  BY <1>3, <1>5, <1>6, <1>8
<1>10. grown = [popped EXCEPT !.pending_bytes = b,
                              !.pending_awareness_bytes = a,
                              !.pending_protocol_bytes = c]
  <2>  HIDE DEF popped, b, a, c
  <2>  QED  BY <1>9, Zenon DEF Grow
<1>  HIDE DEF popped, grown, b, a, c
<1>11. /\ outbox' \in Shapes
       /\ outbox'.active_lease = {}
       /\ outbox'.ordered = ordered /\ outbox'.protocol = protocol
       /\ outbox'.pending_bytes = b
       /\ outbox'.pending_awareness_bytes = a
       /\ outbox'.pending_protocol_bytes = c
       /\ outbox'.next_lease_id = outbox.next_lease_id
       /\ outbox'.reserved = outbox.reserved
       /\ outbox'.reserved_non_document = outbox.reserved_non_document
  <2>1. outbox' = [grown EXCEPT !.active_lease = {}]
      BY <1>7, Zenon DEF ReleaseLease, popped, grown
  <2>  QED  BY <1>5, <1>8, <1>10, <2>1 DEF Shapes
<1>12. Exact(outbox')
    BY <1>11 DEF Exact, b, a, c
<1>13. /\ b <= outbox.pending_bytes
       /\ a <= outbox.pending_awareness_bytes
       /\ c <= outbox.pending_protocol_bytes
    BY <1>3, <1>5, <1>6
<1>  QED  BY <1>11, <1>12, <1>13 DEF Acknowledged

LEMMA AckCallKeeps ==
    ASSUME IInv, NEW lease_id, AckCall(lease_id)
    PROVE  IInv'
<1>  DEFINE m == handed[lease_id]
            old == outbox.ordered
            ordered == IF m.kind = "ProtocolReply" THEN old ELSE Tail(old)
            protocol == IF m.kind = "ProtocolReply" THEN Tail(outbox.protocol)
                                                    ELSE outbox.protocol
<1>1. /\ outbox' \in Shapes
      /\ outbox'.active_lease = {}
      /\ outbox'.ordered = ordered /\ outbox'.protocol = protocol
      /\ Exact(outbox)'
      /\ outbox'.pending_bytes <= outbox.pending_bytes
      /\ outbox'.pending_awareness_bytes <= outbox.pending_awareness_bytes
      /\ outbox'.pending_protocol_bytes <= outbox.pending_protocol_bytes
      /\ outbox'.next_lease_id = outbox.next_lease_id
      /\ outbox'.reserved = outbox.reserved
      /\ outbox'.reserved_non_document = outbox.reserved_non_document
  <2>1. /\ m = handed[lease_id]
        /\ ordered = IF m.kind = "ProtocolReply" THEN outbox.ordered
                                                 ELSE Tail(outbox.ordered)
        /\ protocol = IF m.kind = "ProtocolReply" THEN Tail(outbox.protocol)
                                                  ELSE outbox.protocol
      OBVIOUS
  <2>  HIDE DEF m, ordered, protocol
  <2>2. Acknowledged(outbox', outbox, ordered, protocol)
      BY <2>1, AckCallFields
  <2>  QED  BY <2>2 DEF Acknowledged, Exact
<1>2. /\ m \in Messages
      /\ m.kind = "ProtocolReply" =>
            outbox.protocol # << >> /\ Head(outbox.protocol) = m
      /\ m.kind # "ProtocolReply" => old # << >> /\ Head(old) = m
    BY AckCallFront, Zenon
<1>3. /\ held = {} /\ UNCHANGED <<held, installed, handed, accepted>>
      /\ delivered' = IF IsDocument(m) THEN Append(delivered, m.id) ELSE delivered
    BY DEF AckCall
<1>4. /\ outbox \in Shapes /\ Limited(outbox)
      /\ old \in Seq(Waiting) /\ outbox.protocol \in Seq(Replies)
      /\ delivered \in Seq(1 .. MaxInstalls)
      /\ Ascending(old) /\ \A i \in DOMAIN old : old[i].id <= installed
    BY DEF IInv, Shapes, Histories, IdsAscend
<1>5. m.id \in 1 .. MaxInstalls
    BY <1>2 DEF Messages
<1>  HIDE DEF m
<1>6. m.kind # "ProtocolReply" => m \in Waiting /\ (IsDocument(m) \/ IsAwareness(m))
    BY <1>2, MessageFacts DEF Waiting, IsDocument, IsAwareness
<1>7. /\ IsDocument(m) =>
            /\ Documents(old) = << m >> \o Documents(ordered)
            /\ Broadcasts(old) = Broadcasts(ordered)
      /\ ~IsDocument(m) => Documents(old) = Documents(ordered)
      /\ IsAwareness(m) => Broadcasts(old) = << m >> \o Broadcasts(ordered)
      /\ ~IsAwareness(m) => Broadcasts(old) = Broadcasts(ordered)
  <2>1. CASE m.kind = "ProtocolReply"
      BY <2>1 DEF IsDocument, IsAwareness
  <2>2. CASE m.kind # "ProtocolReply"
    <3>1. ordered = Tail(old) /\ old # << >> /\ Head(old) = m
        BY <1>2, <2>2
    <3>2. ~(IsDocument(m) /\ IsAwareness(m))
        BY DEF IsDocument, IsAwareness
    <3>  HIDE DEF ordered, old
    <3>  QED  BY <1>4, <1>6, <2>2, <3>1, <3>2, OrderedFront
  <2>  QED  BY <2>1, <2>2
<1>8. ordered \in Seq(Waiting) /\ protocol \in Seq(Replies)
    BY <1>2, <1>4
<1>9. /\ Documents(ordered) \in Seq(Waiting) /\ Broadcasts(ordered) \in Seq(Waiting)
      /\ Len(Broadcasts(ordered)) \in Nat
      /\ Len(Broadcasts(ordered)) <= Len(Broadcasts(old))
  <2>1. /\ Documents(ordered) \in Seq(Waiting) /\ Broadcasts(ordered) \in Seq(Waiting)
        /\ Len(Broadcasts(ordered)) \in Nat
    <3>  HIDE DEF ordered
    <3>  QED  BY <1>8, OrderedFacts
  <2>2. ASSUME NEW q \in Seq(Waiting), NEW w \in Waiting
        PROVE  Len(q) <= Len(q) /\ Len(q) <= Len(<< w >> \o q)
      BY <2>2
  <2>3. IsAwareness(m) => m \in Waiting
      BY <1>6 DEF IsAwareness
  <2>  HIDE DEF ordered, old
  <2>  QED  BY <1>7, <2>1, <2>2, <2>3
<1>10. Limited(outbox)'
  <2>  DEFINE k == Len(Broadcasts(ordered))
              n == Len(Broadcasts(old))
              l == Len(protocol)
              lO == Len(outbox.protocol)
              d == Len(ordered)
              dO == Len(old)
  <2>1. k \in Nat /\ n \in Nat /\ k <= n
    <3>1. n \in Nat
        BY <1>4, OrderedFacts
    <3>  QED  BY <1>9, <3>1
  <2>2. l \in Nat /\ lO \in Nat /\ d \in Nat /\ dO \in Nat /\ l <= lO /\ d <= dO
      BY <1>2, <1>4
  <2>3. /\ Pending(outbox') = d + l /\ NonDocument(outbox') = l + k
        /\ Pending(outbox) = dO + lO /\ NonDocument(outbox) = lO + n
      BY <1>1, Zenon DEF Pending, NonDocument
  <2>  HIDE DEF k, n, l, lO, d, dO
  <2>4. /\ Pending(outbox') <= Pending(outbox)
        /\ NonDocument(outbox') <= NonDocument(outbox)
      BY <2>1, <2>2, <2>3
  <2>  QED  BY <1>1, <1>4, <2>4, SmallerLimits
<1>11. Histories' /\ HeldOnce' /\ LedgerIsHeld'
  <2>1. delivered' \in Seq(1 .. MaxInstalls)
    <3>1. ASSUME NEW S, NEW s \in Seq(S), NEW e \in S
          PROVE  Append(s, e) \in Seq(S)
        OBVIOUS
    <3>  QED  BY <1>3, <1>4, <1>5, <3>1
  <2>2. Histories' /\ HeldOnce'
      BY <1>3, <2>1 DEF IInv, Histories, HeldOnce
  <2>3. LedgerIsHeld'
      BY <1>1, <1>3 DEF IInv, LedgerIsHeld
  <2>  QED  BY <2>2, <2>3
<1>12. LeasesAreHanded' /\ LeasedMessageIsFront'
    BY <1>1, <1>3 DEF IInv, LeasesAreHanded, LeasedMessageIsFront
<1>13. IdsAscend'
  <2>  DEFINE L == {w \in Waiting : w.id <= installed}
  <2>1. old \in Seq(L)
      BY <1>4
  <2>2. ordered \in Seq(L) /\ Ascending(ordered)
    <3>1. m.kind # "ProtocolReply" => Tail(old) \in Seq(L) /\ Ascending(Tail(old))
      <4>1. m.kind # "ProtocolReply" => old # << >>
          BY <1>2
      <4>2. \A q \in Seq(L) : q # << >> => Tail(q) \in Seq(L)
        <5>  HIDE DEF L
        <5>  QED  OBVIOUS
      <4>  HIDE DEF L
      <4>  QED  BY <1>4, <2>1, <4>1, <4>2, RestAscends
    <3>  QED  BY <1>4, <2>1, <3>1
  <2>3. \A i \in DOMAIN ordered : ordered[i].id <= installed
    <3>  HIDE DEF ordered
    <3>  QED  BY <2>2
  <2>4. \A i \in DOMAIN handed : IsAwareness(handed[i]) => handed[i].id <= installed
      BY Zenon DEF IInv, IdsAscend
  <2>  QED  BY <1>1, <1>3, <2>2, <2>3, <2>4, Zenon DEF IdsAscend
<1>14. NoUpdateLostOrRepeated'
  <2>  DEFINE docs == Documents(ordered)
  <2>1. accepted = delivered \o Ids(Documents(old))
      BY Zenon DEF IInv, NoUpdateLostOrRepeated, Ids
  <2>2. docs \in Seq(Messages)
    <3>  HIDE DEF ordered
    <3>  QED  BY <1>9, MessageFacts
  <2>3. Ids(docs) \in Seq(1 .. MaxInstalls)
        /\ Ids(<< m >> \o docs) = << m.id >> \o Ids(docs)
    <3>  HIDE DEF docs
    <3>  QED  BY <1>2, <2>2, IdsFacts
  <2>  HIDE DEF docs, ordered
  <2>4. accepted = delivered' \o Ids(docs)
    <3>1. CASE IsDocument(m)
      <4>1. accepted = delivered \o (<< m.id >> \o Ids(docs))
          BY <1>7, <2>1, <2>3, <3>1 DEF docs
      <4>2. ASSUME NEW S, NEW s \in Seq(S), NEW t \in Seq(S), NEW e \in S
            PROVE  s \o (<< e >> \o t) = Append(s, e) \o t
          OBVIOUS
      <4>  QED  BY <1>3, <1>4, <1>5, <2>3, <3>1, <4>1, <4>2
    <3>2. CASE ~IsDocument(m)
        BY <1>3, <1>7, <2>1, <3>2 DEF docs
    <3>  QED  BY <3>1, <3>2
  <2>  QED  BY <1>1, <1>3, <2>4, Zenon DEF NoUpdateLostOrRepeated, Ids, docs
<1>15. PresenceFollowsDocuments'
  <2>1. \A k \in DOMAIN delivered :
           k \in DOMAIN delivered' /\ delivered'[k] = delivered[k]
      BY <1>3, <1>4, <1>5
  <2>2. \A i \in DOMAIN handed :
           IsAwareness(handed[i]) =>
              \A j \in DOMAIN accepted :
                 accepted[j] < handed[i].id =>
                    \E k \in DOMAIN delivered : delivered[k] = accepted[j]
      BY Zenon DEF IInv, PresenceFollowsDocuments
  <2>3. \A i \in DOMAIN handed :
           IsAwareness(handed[i]) =>
              \A j \in DOMAIN accepted :
                 accepted[j] < handed[i].id =>
                    \E k \in DOMAIN delivered' : delivered'[k] = accepted[j]
      BY <2>1, <2>2, Zenon
  <2>4. handed' = handed /\ accepted' = accepted
      BY <1>3
  <2>  QED  BY <2>3, <2>4, Zenon DEF PresenceFollowsDocuments
<1>16. BroadcastsBounded'
  <2>1. Len(Broadcasts(old)) <= 2
      BY DEF IInv, BroadcastsBounded, PresenceBounded
  <2>2. Len(Broadcasts(old)) \in Nat
      BY <1>4, OrderedFacts
  <2>3. ASSUME NEW x \in Nat, NEW y \in Nat, x <= y, y <= 2
        PROVE  x <= 2
      BY <2>3
  <2>4. Len(Broadcasts(ordered)) <= 2
      BY <1>9, <2>1, <2>2, <2>3
  <2>5. held' = {}
      BY <1>3
  <2>  HIDE DEF ordered
  <2>  QED  BY <1>1, <2>4, <2>5 DEF BroadcastsBounded, PresenceBounded
<1>  QED
    BY <1>1, <1>10, <1>11, <1>12, <1>13, <1>14, <1>15, <1>16 DEF IInv

(* What the messages of a reservation become when they are installed.      *)
Installed(p, o, r, messages, next) ==
    /\ p \in Shapes
    /\ p.ordered = IF r.kind = "ProtocolReply" THEN o.ordered
                                               ELSE o.ordered \o messages
    /\ p.protocol = IF r.kind = "ProtocolReply" THEN o.protocol \o messages
                                                ELSE o.protocol
    /\ p.pending_bytes =
          IF r.kind = "DocumentUpdate"
            THEN o.pending_bytes + Bytes(messages)
            ELSE o.pending_bytes
    /\ p.pending_awareness_bytes =
          IF r.kind = "AwarenessBroadcast"
            THEN o.pending_awareness_bytes + Bytes(messages)
            ELSE o.pending_awareness_bytes
    /\ p.pending_protocol_bytes =
          IF r.kind = "ProtocolReply"
            THEN o.pending_protocol_bytes + Bytes(messages)
            ELSE o.pending_protocol_bytes
    /\ p.next_lease_id = o.next_lease_id
    /\ p.active_lease = o.active_lease
    /\ p.reserved = NoCharge
    /\ p.reserved_non_document = NoCharge
    /\ Len(messages) = r.messages
    /\ messages \in Seq(IF r.kind = "ProtocolReply" THEN Replies ELSE Waiting)
    /\ r.kind # "ProtocolReply" =>
          \E m \in Waiting : /\ messages = << m >>
                             /\ m.kind = r.kind /\ m.id = next

(* InstallCall enqueues the messages of the reservation, with new ids.     *)
LEMMA InstallCallFields ==
    ASSUME IInv, NEW r \in held, NEW sizes \in [1 .. r.messages -> Sizes],
           NEW messages,
           messages = [i \in 1 .. r.messages |->
                          [kind |-> r.kind, id |-> installed + i, bytes |-> sizes[i]]],
           Bytes(messages) <= r.bytes,
           outbox' = Install(Refund(outbox, r.kind, r.messages, r.bytes),
                             r.kind, messages)
    PROVE  Installed(outbox', outbox, r, messages, installed + 1)
<1>  DEFINE M == IF r.kind = "ProtocolReply" THEN Replies ELSE Waiting
            refunded == Refund(outbox, r.kind, r.messages, r.bytes)
            enqueued == Enqueue(refunded, r.kind, messages)
            bytes == Bytes(messages)
            ordered == IF r.kind = "ProtocolReply" THEN outbox.ordered
                       ELSE outbox.ordered \o messages
            protocol == IF r.kind = "ProtocolReply"
                          THEN outbox.protocol \o messages ELSE outbox.protocol
<1>1. /\ r \in Reservations /\ r.messages \in Counts(r.kind)
      /\ installed + r.messages <= MaxInstalls
    BY DEF IInv, HeldOnce
<1>2. /\ r.messages \in {1, 2} /\ r.bytes \in Nat /\ r.kind \in Kinds
      /\ installed \in Nat
      /\ r.kind # "ProtocolReply" => r.messages = 1
  <2>1. r.messages \in {1, 2} /\ r.bytes \in Sizes /\ r.kind \in Kinds
      BY <1>1 DEF Reservations
  <2>2. r.bytes \in Nat
      BY <2>1, OutboxCallsAssumption
  <2>3. installed \in Nat
      BY DEF IInv, Histories
  <2>4. r.kind # "ProtocolReply" => r.messages = 1
      BY <1>1 DEF Counts
  <2>  QED  BY <2>1, <2>2, <2>3, <2>4
<1>3. ASSUME NEW i \in 1 .. r.messages
      PROVE  messages[i] \in M /\ messages[i].id = installed + i
             /\ messages[i].kind = r.kind
  <2>1. /\ messages[i] = [kind |-> r.kind, id |-> installed + i, bytes |-> sizes[i]]
        /\ sizes[i] \in Sizes
      OBVIOUS
  <2>2. installed + i \in 1 .. MaxInstalls
      BY <1>1, <1>2, OutboxCallsAssumption
  <2>3. messages[i] \in Messages
      BY <1>2, <2>1, <2>2 DEF Messages
  <2>  QED  BY <2>1, <2>3 DEF Waiting, Replies
<1>4. messages \in Seq(M) /\ Len(messages) = r.messages
  <2>  HIDE DEF M
  <2>1. messages \in [1 .. r.messages -> M] /\ r.messages \in Nat
    <3>1. messages = [i \in 1 .. r.messages |-> messages[i]]
        OBVIOUS
    <3>2. r.messages \in Nat
        BY <1>2
    <3>  QED  BY <1>3, <3>1, <3>2, Zenon
  <2>2. ASSUME NEW S, NEW n \in Nat, NEW f \in [1 .. n -> S]
        PROVE  f \in Seq(S) /\ Len(f) = n
      OBVIOUS
  <2>  QED  BY <2>1, <2>2
<1>5. bytes \in Nat
  <2>1. Measured(M)
      BY MessageFacts
  <2>  HIDE DEF M
  <2>  QED  BY <1>4, <2>1, BytesType
<1>6. r.kind # "ProtocolReply" =>
         \E m \in Waiting : /\ messages = << m >>
                            /\ m.kind = r.kind /\ m.id = installed + 1
  <2>1. ASSUME r.kind # "ProtocolReply"
        PROVE  /\ messages[1] \in Waiting /\ messages = << messages[1] >>
               /\ messages[1].kind = r.kind /\ messages[1].id = installed + 1
    <3>1. r.messages = 1 /\ M = Waiting
        BY <1>2, <2>1
    <3>2. ASSUME NEW q \in Seq(Waiting), Len(q) = 1
          PROVE  q = << q[1] >>
        BY <3>2
    <3>3. messages \in Seq(Waiting) /\ Len(messages) = 1
        BY <1>4, <3>1
    <3>  QED  BY <1>3, <3>1, <3>2, <3>3
  <2>  QED  BY <2>1
<1>7. /\ SameQueues(refunded, outbox)
      /\ refunded.reserved = NoCharge /\ refunded.reserved_non_document = NoCharge
  <2>1. /\ outbox.reserved = ChargeOf(r)
        /\ outbox.reserved_non_document =
              IF r.kind = "DocumentUpdate" THEN NoCharge ELSE ChargeOf(r)
      BY Zenon DEF IInv, LedgerIsHeld
  <2>2. ChargeOf(r) = [messages |-> r.messages, bytes |-> r.bytes]
        /\ r.messages \in Nat /\ outbox \in Shapes
      BY <1>2 DEF ChargeOf, IInv
  <2>3. r.bytes \in Nat
      BY <1>2
  <2>  DEFINE charge == ChargeOf(r)
  <2>4. /\ charge = [messages |-> r.messages, bytes |-> r.bytes]
        /\ outbox.reserved = charge
        /\ outbox.reserved_non_document =
              IF r.kind = "DocumentUpdate" THEN NoCharge ELSE charge
        /\ refunded = Refund(outbox, r.kind, r.messages, r.bytes)
      BY <2>1, <2>2, Zenon
  <2>  HIDE DEF refunded, charge
  <2>  QED  BY <2>2, <2>3, <2>4, RefundFields
<1>  HIDE DEF refunded
<1>8. /\ outbox.ordered \in Seq(Waiting) /\ outbox.protocol \in Seq(Replies)
      /\ outbox.pending_bytes \in Nat /\ outbox.pending_awareness_bytes \in Nat
      /\ outbox.pending_protocol_bytes \in Nat
    BY DEF IInv, Shapes
<1>9. ordered \in Seq(Waiting) /\ protocol \in Seq(Replies)
    BY <1>4, <1>8
<1>10. /\ enqueued \in Shapes
       /\ enqueued.ordered = ordered /\ enqueued.protocol = protocol
       /\ enqueued.pending_bytes = outbox.pending_bytes
       /\ enqueued.pending_awareness_bytes = outbox.pending_awareness_bytes
       /\ enqueued.pending_protocol_bytes = outbox.pending_protocol_bytes
       /\ enqueued.next_lease_id = outbox.next_lease_id
       /\ enqueued.active_lease = outbox.active_lease
       /\ enqueued.reserved = NoCharge
       /\ enqueued.reserved_non_document = NoCharge
  <2>1. CASE r.kind = "ProtocolReply"
    <3>1. enqueued = [refunded EXCEPT !.protocol = protocol]
          /\ ordered = outbox.ordered
        BY <1>7, <2>1, Zenon DEF Enqueue, SameQueues
    <3>  HIDE DEF enqueued, ordered, protocol
    <3>  QED  BY <1>7, <1>9, <3>1 DEF Shapes, SameQueues
  <2>2. CASE r.kind # "ProtocolReply"
    <3>1. enqueued = [refunded EXCEPT !.ordered = ordered]
          /\ protocol = outbox.protocol
        BY <1>7, <2>2, Zenon DEF Enqueue, SameQueues
    <3>  HIDE DEF enqueued, ordered, protocol
    <3>  QED  BY <1>7, <1>9, <3>1 DEF Shapes, SameQueues
  <2>  QED  BY <2>1, <2>2
<1>  HIDE DEF enqueued, bytes, ordered, protocol
<1>  DEFINE b == IF r.kind = "DocumentUpdate" THEN outbox.pending_bytes + bytes
                 ELSE outbox.pending_bytes
            a == IF r.kind = "AwarenessBroadcast"
                   THEN outbox.pending_awareness_bytes + bytes
                   ELSE outbox.pending_awareness_bytes
            c == IF r.kind = "ProtocolReply"
                   THEN outbox.pending_protocol_bytes + bytes
                   ELSE outbox.pending_protocol_bytes
<1>11. outbox' = [enqueued EXCEPT !.pending_bytes = b,
                                  !.pending_awareness_bytes = a,
                                  !.pending_protocol_bytes = c]
    BY <1>10, Zenon DEF Install, Grow, enqueued, refunded, bytes
<1>12. b \in Nat /\ a \in Nat /\ c \in Nat
    BY <1>5, <1>8
<1>  HIDE DEF b, a, c
<1>13. /\ outbox' \in Shapes
       /\ outbox'.ordered = ordered /\ outbox'.protocol = protocol
       /\ outbox'.pending_bytes = b
       /\ outbox'.pending_awareness_bytes = a
       /\ outbox'.pending_protocol_bytes = c
       /\ outbox'.next_lease_id = outbox.next_lease_id
       /\ outbox'.active_lease = outbox.active_lease
       /\ outbox'.reserved = NoCharge
       /\ outbox'.reserved_non_document = NoCharge
    BY <1>10, <1>11, <1>12 DEF Shapes
<1>  QED
    BY <1>4, <1>6, <1>13 DEF Installed, ordered, protocol, b, a, c, bytes

(* A message at the end of the ordered queue.                              *)
LEMMA OrderedAppend ==
    ASSUME NEW s \in Seq(Waiting), NEW m \in Waiting
    PROVE  /\ s \o << m >> = Append(s, m)
           /\ IsDocument(m) =>
                 /\ Documents(Append(s, m)) = Append(Documents(s), m)
                 /\ Broadcasts(Append(s, m)) = Broadcasts(s)
                 /\ Bytes(Documents(Append(s, m))) = Bytes(Documents(s)) + m.bytes
           /\ IsAwareness(m) =>
                 /\ Broadcasts(Append(s, m)) = Append(Broadcasts(s), m)
                 /\ Documents(Append(s, m)) = Documents(s)
                 /\ Bytes(Broadcasts(Append(s, m))) = Bytes(Broadcasts(s)) + m.bytes
<1>1. s \o << m >> = Append(s, m)
    OBVIOUS
<1>2. /\ Documents(Append(s, m)) = KeepIf(Documents(s), m, "DocumentUpdate")
      /\ Broadcasts(Append(s, m)) = KeepIf(Broadcasts(s), m, "AwarenessBroadcast")
    BY OfKindAppend DEF Documents, Broadcasts
<1>3. /\ Bytes(Append(Documents(s), m)) = Bytes(Documents(s)) + m.bytes
      /\ Bytes(Append(Broadcasts(s), m)) = Bytes(Broadcasts(s)) + m.bytes
  <2>1. Documents(s) \in Seq(Waiting) /\ Broadcasts(s) \in Seq(Waiting)
      BY OrderedFacts
  <2>  QED  BY <2>1, MessageFacts, BytesAppend
<1>4. "AwarenessBroadcast" # "DocumentUpdate"
    OBVIOUS
<1>  QED  BY <1>1, <1>2, <1>3, <1>4, Zenon DEF KeepIf, IsDocument, IsAwareness

(* The front stays in front of what is added behind it.                    *)
LEMMA FrontStays ==
    ASSUME NEW M, NEW s \in Seq(M), NEW t \in Seq(M), s # << >>
    PROVE  s \o t # << >> /\ Head(s \o t) = Head(s)
    OBVIOUS

LEMMA InstallCallKeeps ==
    ASSUME IInv, NEW r \in held, NEW sizes \in [1 .. r.messages -> Sizes],
           InstallCall(sizes)
    PROVE  IInv'
<1>  DEFINE messages == [i \in 1 .. r.messages |->
                            [kind |-> r.kind, id |-> installed + i, bytes |-> sizes[i]]]
            old == outbox.ordered
            bytes == Bytes(messages)
            reply == r.kind = "ProtocolReply"
<1>1. /\ bytes <= r.bytes
      /\ outbox' = Install(Refund(outbox, r.kind, r.messages, r.bytes),
                           r.kind, messages)
      /\ held' = {} /\ installed' = installed + r.messages
      /\ accepted' = IF r.kind = "DocumentUpdate"
                       THEN Append(accepted, installed + 1) ELSE accepted
      /\ UNCHANGED <<handed, delivered>>
  <2>1. \A h \in held : h = r
      BY DEF IInv, HeldOnce
  <2>2. PICK h \in held :
           LET sent == [i \in 1 .. h.messages |->
                           [kind |-> h.kind, id |-> installed + i, bytes |-> sizes[i]]]
           IN  /\ Bytes(sent) <= h.bytes
               /\ outbox' = Install(Refund(outbox, h.kind, h.messages, h.bytes),
                                    h.kind, sent)
               /\ held' = {} /\ installed' = installed + h.messages
               /\ accepted' = IF h.kind = "DocumentUpdate"
                                THEN Append(accepted, installed + 1) ELSE accepted
               /\ UNCHANGED <<handed, delivered>>
      BY Zenon DEF InstallCall
  <2>  QED  BY <2>1, <2>2, Zenon
<1>  HIDE DEF messages
<1>2. /\ outbox' \in Shapes
      /\ outbox'.ordered = IF reply THEN old ELSE old \o messages
      /\ outbox'.protocol = IF reply THEN outbox.protocol \o messages
                                     ELSE outbox.protocol
      /\ outbox'.pending_bytes =
            IF r.kind = "DocumentUpdate" THEN outbox.pending_bytes + bytes
                                         ELSE outbox.pending_bytes
      /\ outbox'.pending_awareness_bytes =
            IF r.kind = "AwarenessBroadcast"
              THEN outbox.pending_awareness_bytes + bytes
              ELSE outbox.pending_awareness_bytes
      /\ outbox'.pending_protocol_bytes =
            IF reply THEN outbox.pending_protocol_bytes + bytes
                     ELSE outbox.pending_protocol_bytes
      /\ outbox'.next_lease_id = outbox.next_lease_id
      /\ outbox'.active_lease = outbox.active_lease
      /\ outbox'.reserved = NoCharge
      /\ outbox'.reserved_non_document = NoCharge
      /\ Len(messages) = r.messages
      /\ messages \in Seq(IF reply THEN Replies ELSE Waiting)
      /\ ~reply => \E m \in Waiting : /\ messages = << m >>
                                      /\ m.kind = r.kind /\ m.id = installed + 1
  <2>1. messages = [i \in 1 .. r.messages |->
                       [kind |-> r.kind, id |-> installed + i, bytes |-> sizes[i]]]
      BY DEF messages
  <2>2. Installed(outbox', outbox, r, messages, installed + 1)
      BY <1>1, <2>1, InstallCallFields
  <2>  QED  BY <2>2, Zenon DEF Installed
<1>  HIDE DEF bytes
<1>3. /\ outbox \in Shapes /\ Exact(outbox) /\ Limited(outbox)
      /\ old \in Seq(Waiting) /\ outbox.protocol \in Seq(Replies)
      /\ installed \in Nat /\ handed \in Seq(Messages)
      /\ accepted \in Seq(1 .. MaxInstalls) /\ delivered \in Seq(1 .. MaxInstalls)
    BY DEF IInv, Shapes, Histories
<1>4. /\ r.messages \in {1, 2} /\ r.bytes \in Nat /\ r.kind \in Kinds
      /\ installed + r.messages <= MaxInstalls
      /\ ~reply => r.messages = 1
  <2>1. /\ r \in Reservations /\ r.messages \in Counts(r.kind)
        /\ installed + r.messages <= MaxInstalls
      BY DEF IInv, HeldOnce
  <2>2. r.messages \in {1, 2} /\ r.bytes \in Sizes /\ r.kind \in Kinds
      BY <2>1 DEF Reservations
  <2>3. r.bytes \in Nat
      BY <2>2, OutboxCallsAssumption
  <2>4. ~reply => r.messages = 1
      BY <2>1 DEF Counts
  <2>  QED  BY <2>1, <2>2, <2>3, <2>4
<1>5. ASSUME reply
      PROVE  /\ outbox'.ordered = old
             /\ outbox'.protocol = outbox.protocol \o messages
             /\ messages \in Seq(Replies)
             /\ ~IsDocument(r) /\ ~IsAwareness(r)
  <2>1. ~IsDocument(r) /\ ~IsAwareness(r)
      BY <1>5 DEF IsDocument, IsAwareness
  <2>  QED  BY <1>2, <1>5, <2>1, Zenon
<1>6. ASSUME ~reply
      PROVE  \E m \in Waiting :
                /\ outbox'.ordered = Append(old, m)
                /\ outbox'.protocol = outbox.protocol
                /\ bytes = m.bytes /\ r.messages = 1
                /\ m.id = installed + 1 /\ m.kind = r.kind
                /\ \/ IsDocument(m) /\ IsDocument(r) /\ ~IsAwareness(r)
                   \/ IsAwareness(m) /\ IsAwareness(r) /\ ~IsDocument(r)
  <2>1. PICK m \in Waiting :
           messages = << m >> /\ m.kind = r.kind /\ m.id = installed + 1
      BY <1>2, <1>6, Zenon
  <2>2. old \o << m >> = Append(old, m)
      BY <1>3, OrderedAppend
  <2>3. Bytes(<< m >>) = m.bytes
      BY MessageFacts, BytesCons
  <2>4. \/ IsDocument(m) /\ IsDocument(r) /\ ~IsAwareness(r)
        \/ IsAwareness(m) /\ IsAwareness(r) /\ ~IsDocument(r)
      BY <2>1, MessageFacts DEF IsDocument, IsAwareness
  <2>5. bytes = m.bytes
      BY <2>1, <2>3, Zenon DEF bytes
  <2>6. outbox'.ordered = Append(old, m) /\ outbox'.protocol = outbox.protocol
      BY <1>2, <1>6, <2>1, <2>2, Zenon
  <2>  QED  BY <1>4, <1>6, <2>1, <2>4, <2>5, <2>6, Zenon
<1>  HIDE DEF messages
<1>7. /\ ~IsDocument(r) => Documents(outbox'.ordered) = Documents(old)
      /\ ~IsAwareness(r) => Broadcasts(outbox'.ordered) = Broadcasts(old)
      /\ IsDocument(r) =>
            /\ Bytes(Documents(outbox'.ordered)) = Bytes(Documents(old)) + bytes
            /\ \E m \in Waiting :
                  /\ m.id = installed + 1
                  /\ Documents(outbox'.ordered) = Append(Documents(old), m)
      /\ IsAwareness(r) =>
            /\ Bytes(Broadcasts(outbox'.ordered)) = Bytes(Broadcasts(old)) + bytes
            /\ \E m \in Waiting :
                  Broadcasts(outbox'.ordered) = Append(Broadcasts(old), m)
  <2>1. CASE reply
      BY <1>5, <2>1, Zenon
  <2>2. CASE ~reply
    <3>  HIDE DEF old
    <3>1. PICK m \in Waiting :
             /\ outbox'.ordered = Append(old, m)
             /\ bytes = m.bytes /\ m.id = installed + 1
             /\ \/ IsDocument(m) /\ IsDocument(r) /\ ~IsAwareness(r)
                \/ IsAwareness(m) /\ IsAwareness(r) /\ ~IsDocument(r)
        BY <1>6, <2>2, Zenon
    <3>2. /\ IsDocument(m) =>
                /\ Documents(Append(old, m)) = Append(Documents(old), m)
                /\ Broadcasts(Append(old, m)) = Broadcasts(old)
                /\ Bytes(Documents(Append(old, m))) = Bytes(Documents(old)) + m.bytes
          /\ IsAwareness(m) =>
                /\ Broadcasts(Append(old, m)) = Append(Broadcasts(old), m)
                /\ Documents(Append(old, m)) = Documents(old)
                /\ Bytes(Broadcasts(Append(old, m)))
                      = Bytes(Broadcasts(old)) + m.bytes
        BY <1>3, OrderedAppend
    <3>  QED  BY <3>1, <3>2, Zenon
  <2>  QED  BY <2>1, <2>2, Zenon
<1>8. /\ Documents(old) \in Seq(Waiting) /\ Broadcasts(old) \in Seq(Waiting)
      /\ Len(Broadcasts(old)) \in Nat
    BY <1>3, OrderedFacts
<1>9. Exact(outbox)'
  <2>1. outbox'.pending_bytes = Bytes(Documents(outbox'.ordered))
    <3>1. outbox.pending_bytes = Bytes(Documents(old))
        BY <1>3 DEF Exact
    <3>  QED  BY <1>2, <1>7, <3>1, Zenon DEF IsDocument
  <2>2. outbox'.pending_awareness_bytes = Bytes(Broadcasts(outbox'.ordered))
    <3>1. outbox.pending_awareness_bytes = Bytes(Broadcasts(old))
        BY <1>3 DEF Exact
    <3>  QED  BY <1>2, <1>7, <3>1, Zenon DEF IsAwareness
  <2>3. outbox'.pending_protocol_bytes = Bytes(outbox'.protocol)
    <3>1. outbox.pending_protocol_bytes = Bytes(outbox.protocol)
        BY <1>3 DEF Exact
    <3>2. CASE reply
      <4>1. Bytes(outbox.protocol \o messages) = Bytes(outbox.protocol) + bytes
          BY <1>3, <1>5, <3>2, MessageFacts, BytesConcat DEF bytes
      <4>  QED  BY <1>2, <1>5, <3>1, <3>2, <4>1, Zenon
    <3>3. CASE ~reply
        BY <1>2, <3>1, <3>3, Zenon
    <3>  QED  BY <3>2, <3>3, Zenon
  <2>  QED  BY <2>1, <2>2, <2>3 DEF Exact
<1>10. Histories' /\ HeldOnce' /\ LedgerIsHeld'
  <2>1. installed + 1 \in 1 .. MaxInstalls
        /\ installed + r.messages \in 0 .. MaxInstalls
      BY <1>3, <1>4, OutboxCallsAssumption
  <2>2. ASSUME NEW S, NEW s \in Seq(S), NEW e \in S
        PROVE  Append(s, e) \in Seq(S)
      OBVIOUS
  <2>3. accepted' \in Seq(1 .. MaxInstalls)
      BY <1>1, <1>3, <2>1, <2>2, Zenon
  <2>4. Histories'
      BY <1>1, <1>3, <2>1, <2>3, Zenon DEF Histories
  <2>  QED  BY <1>1, <1>2, <2>4 DEF HeldOnce, LedgerIsHeld
<1>11. LeasesAreHanded'
    BY <1>1, <1>2, Zenon DEF IInv, LeasesAreHanded
<1>12. LeasedMessageIsFront'
  <2>1. ASSUME NEW lease \in outbox.active_lease
        PROVE  LET queue == IF lease.kind = "ProtocolReply"
                              THEN outbox'.protocol ELSE outbox'.ordered
               IN  /\ queue # << >>
                   /\ Head(queue) = handed[lease.id]
                   /\ Head(queue).kind = lease.kind
    <3>1. CASE lease.kind = "ProtocolReply"
      <4>1. /\ outbox.protocol # << >>
            /\ Head(outbox.protocol) = handed[lease.id]
            /\ Head(outbox.protocol).kind = lease.kind
          BY <3>1, LeasedFronts, Zenon DEF IInv
      <4>2. CASE reply
        <5>1. /\ outbox.protocol \o messages # << >>
              /\ Head(outbox.protocol \o messages) = Head(outbox.protocol)
            BY <1>3, <1>5, <4>1, <4>2, FrontStays
        <5>  QED  BY <1>5, <3>1, <4>1, <4>2, <5>1, Zenon
      <4>3. CASE ~reply
          BY <1>2, <3>1, <4>1, <4>3, Zenon
      <4>  QED  BY <4>2, <4>3, Zenon
    <3>2. CASE lease.kind # "ProtocolReply"
      <4>1. /\ old # << >> /\ Head(old) = handed[lease.id]
            /\ Head(old).kind = lease.kind
          BY <3>2, LeasedFronts, Zenon DEF IInv
      <4>2. CASE reply
          BY <1>5, <3>2, <4>1, <4>2, Zenon
      <4>3. CASE ~reply
        <5>1. PICK m \in Waiting : outbox'.ordered = Append(old, m)
            BY <1>6, <4>3, Zenon
        <5>2. ASSUME NEW s \in Seq(Waiting), s # << >>
              PROVE  Append(s, m) # << >> /\ Head(Append(s, m)) = Head(s)
            BY <5>2
        <5>  QED  BY <1>3, <3>2, <4>1, <5>1, <5>2, Zenon
      <4>  QED  BY <4>2, <4>3, Zenon
    <3>  QED  BY <3>1, <3>2, Zenon
  <2>  QED  BY <1>1, <1>2, <2>1, Zenon DEF LeasedMessageIsFront
<1>13. Limited(outbox)'
  <2>  DEFINE k == Len(Broadcasts(old))
              n == Len(old)
              l == Len(outbox.protocol)
              other == IF IsDocument(r) THEN 0 ELSE r.messages
              kN == Len(Broadcasts(outbox'.ordered))
              nN == Len(outbox'.ordered)
              lN == Len(outbox'.protocol)
  <2>1. /\ k \in Nat /\ n \in Nat /\ l \in Nat /\ r.messages \in Nat
        /\ nN + lN = n + l + r.messages
        /\ lN + kN = l + k + other
    <3>1. k \in Nat /\ n \in Nat /\ l \in Nat /\ r.messages \in Nat
        BY <1>3, <1>4, <1>8
    <3>2. CASE reply
      <4>1. lN = l + r.messages
        <5>1. Len(outbox.protocol \o messages) = l + Len(messages)
            BY <1>3, <1>5, <3>2
        <5>  QED  BY <1>2, <1>5, <3>2, <5>1, Zenon
      <4>2. nN = n /\ kN = k /\ other = r.messages
          BY <1>5, <3>2, Zenon
      <4>  HIDE DEF k, n, l, other, kN, nN, lN
      <4>  QED  BY <3>1, <4>1, <4>2
    <3>3. CASE ~reply
      <4>1. PICK m \in Waiting :
               /\ outbox'.ordered = Append(old, m)
               /\ outbox'.protocol = outbox.protocol /\ r.messages = 1
               /\ \/ IsDocument(m) /\ IsDocument(r) /\ ~IsAwareness(r)
                  \/ IsAwareness(m) /\ IsAwareness(r) /\ ~IsDocument(r)
          BY <1>6, <3>3, Zenon
      <4>2. nN = n + 1
        <5>1. Len(Append(old, m)) = Len(old) + 1
            BY <1>3
        <5>  QED  BY <4>1, <5>1, Zenon
      <4>3. lN = l
          BY <4>1
      <4>4. kN = k + other
        <5>1. CASE IsDocument(r)
          <6>1. kN = k /\ other = 0
              BY <1>7, <4>1, <5>1, Zenon
          <6>  HIDE DEF k, kN, other
          <6>  QED  BY <3>1, <6>1
        <5>2. CASE ~IsDocument(r)
          <6>1. PICK w \in Waiting :
                   Broadcasts(outbox'.ordered) = Append(Broadcasts(old), w)
              BY <1>7, <4>1, <5>2, Zenon
          <6>2. ASSUME NEW q \in Seq(Waiting)
                PROVE  Len(Append(q, w)) = Len(q) + 1
              OBVIOUS
          <6>3. kN = k + 1
              BY <1>8, <6>1, <6>2, Zenon
          <6>  QED  BY <4>1, <5>2, <6>3, Zenon
        <5>  QED  BY <5>1, <5>2
      <4>5. other \in {0, 1}
          BY <4>1
      <4>6. r.messages = 1
          BY <4>1
      <4>  HIDE DEF k, n, l, other, kN, nN, lN
      <4>  QED  BY <3>1, <4>2, <4>3, <4>4, <4>5, <4>6
    <3>  QED  BY <3>2, <3>3, Zenon
  <2>  DEFINE b == outbox.pending_bytes
              a == outbox.pending_awareness_bytes
              c == outbox.pending_protocol_bytes
              loose == IF IsDocument(r) THEN 0 ELSE r.bytes
              bN == outbox'.pending_bytes
              aN == outbox'.pending_awareness_bytes
              cN == outbox'.pending_protocol_bytes
  <2>2. b \in Nat /\ a \in Nat /\ c \in Nat /\ bytes \in Nat
    <3>1. b \in Nat /\ a \in Nat /\ c \in Nat
        BY <1>3 DEF Shapes
    <3>2. bytes \in Nat
      <4>1. CASE reply
          BY <1>5, <4>1, MessageFacts, BytesType DEF bytes
      <4>2. CASE ~reply
          BY <1>6, <4>2, MessageFacts
      <4>  QED  BY <4>1, <4>2
    <3>  QED  BY <3>1, <3>2
  <2>3. /\ bN + aN + cN = b + a + c + bytes
        /\ aN + cN <= a + c + loose
    <3>1. /\ bN = IF IsDocument(r) THEN b + bytes ELSE b
          /\ aN = IF IsAwareness(r) THEN a + bytes ELSE a
          /\ cN = IF reply THEN c + bytes ELSE c
        BY <1>2, Zenon DEF IsDocument, IsAwareness
    <3>2. \/ IsDocument(r) /\ ~IsAwareness(r) /\ ~reply
          \/ ~IsDocument(r) /\ IsAwareness(r) /\ ~reply
          \/ ~IsDocument(r) /\ ~IsAwareness(r) /\ reply
        BY <1>4 DEF IsDocument, IsAwareness, Kinds
    <3>3. loose = IF IsDocument(r) THEN 0 ELSE r.bytes
        OBVIOUS
    <3>  HIDE DEF b, a, c, bN, aN, cN, loose
    <3>  QED  BY <1>1, <1>4, <2>2, <3>1, <3>2, <3>3
  <2>4. /\ n + l + r.messages <= MaxMessages
        /\ b + a + c + r.bytes <= MaxBytes
        /\ l + k + other <= MaxNonDocumentMessages
        /\ a + c + loose <= MaxNonDocumentBytes
    <3>1. /\ outbox.reserved.messages = r.messages
          /\ outbox.reserved.bytes = r.bytes
          /\ outbox.reserved_non_document.messages = other
          /\ outbox.reserved_non_document.bytes = loose
      <4>1. /\ outbox.reserved = ChargeOf(r)
            /\ outbox.reserved_non_document =
                  IF IsDocument(r) THEN NoCharge ELSE ChargeOf(r)
          BY Zenon DEF IInv, LedgerIsHeld, IsDocument
      <4>2. /\ ChargeOf(r).messages = r.messages /\ ChargeOf(r).bytes = r.bytes
            /\ NoCharge.messages = 0 /\ NoCharge.bytes = 0
          BY DEF ChargeOf, NoCharge
      <4>  QED  BY <4>1, <4>2, Zenon
    <3>  QED  BY <1>3, <3>1, Zenon DEF Limited, Pending, NonDocument
  <2>5. /\ outbox'.reserved.messages = 0 /\ outbox'.reserved.bytes = 0
        /\ outbox'.reserved_non_document.messages = 0
        /\ outbox'.reserved_non_document.bytes = 0
      BY <1>2 DEF NoCharge
  <2>6. bN \in Nat /\ aN \in Nat /\ cN \in Nat
      BY <1>2 DEF Shapes
  <2>7. nN \in Nat /\ lN \in Nat /\ kN \in Nat
    <3>1. outbox'.ordered \in Seq(Waiting) /\ outbox'.protocol \in Seq(Replies)
        BY <1>2 DEF Shapes
    <3>2. kN \in Nat
        BY <3>1, OrderedFacts
    <3>  QED  BY <3>1, <3>2
  <2>8. loose \in Nat /\ other \in Nat
      BY <1>4
  <2>9. Pending(outbox') = nN + lN /\ NonDocument(outbox') = lN + kN
      BY DEF Pending, NonDocument
  <2>  HIDE DEF k, n, l, other, kN, nN, lN, b, a, c, loose, bN, aN, cN
  <2>10. /\ nN + lN + 0 <= MaxMessages /\ bN + aN + cN + 0 <= MaxBytes
         /\ lN + kN + 0 <= MaxNonDocumentMessages
         /\ aN + cN + 0 <= MaxNonDocumentBytes
      BY <1>1, <1>4, <2>1, <2>2, <2>3, <2>4, <2>6, <2>7, <2>8, LimitFacts
  <2>  QED  BY <2>5, <2>9, <2>10, Zenon DEF Limited, bN, aN, cN
<1>14. IdsAscend'
  <2>1. /\ Ascending(old)
        /\ \A i \in DOMAIN old : old[i].id <= installed
        /\ \A i \in DOMAIN handed : IsAwareness(handed[i]) => handed[i].id <= installed
      BY Zenon DEF IInv, IdsAscend
  <2>2. installed <= installed' /\ installed' \in Nat
      BY <1>1, <1>3, <1>4
  <2>3. \A i \in DOMAIN handed' : IsAwareness(handed'[i]) => handed'[i].id <= installed'
    <3>1. ASSUME NEW i \in DOMAIN handed, IsAwareness(handed[i])
          PROVE  handed[i].id <= installed'
      <4>1. handed[i] \in Messages /\ handed[i].id <= installed
          BY <1>3, <2>1, <3>1
      <4>2. handed[i].id \in Nat
          BY <4>1, MessageFacts
      <4>  QED  BY <1>3, <2>2, <4>1, <4>2
    <3>  QED  BY <1>1, <3>1, Zenon
  <2>4. ASSUME NEW i \in DOMAIN old
        PROVE  old[i].id \in Nat /\ old[i].id <= installed'
    <3>1. old[i] \in Waiting
        BY <1>3
    <3>2. old[i].id \in Nat /\ old[i].id <= installed
        BY <2>1, <3>1, MessageFacts
    <3>  QED  BY <1>3, <2>2, <3>2
  <2>5. /\ Ascending(outbox'.ordered)
        /\ \A i \in DOMAIN outbox'.ordered : outbox'.ordered[i].id <= installed'
    <3>1. CASE reply
        BY <1>5, <2>1, <2>4, <3>1, Zenon
    <3>2. CASE ~reply
      <4>1. PICK m \in Waiting :
               /\ outbox'.ordered = Append(old, m) /\ m.id = installed + 1
               /\ r.messages = 1
          BY <1>6, <3>2, Zenon
      <4>  DEFINE new == Append(old, m)
      <4>2. /\ DOMAIN new = 1 .. Len(old) + 1 /\ DOMAIN old = 1 .. Len(old)
            /\ Len(old) \in Nat /\ new[Len(old) + 1] = m
            /\ \A i \in DOMAIN old : new[i] = old[i]
          BY <1>3
      <4>  HIDE DEF new, old
      <4>3. ASSUME NEW i \in DOMAIN new
            PROVE  i \in DOMAIN old \/ i = Len(old) + 1
          BY <4>2
      <4>4. m.id = installed' /\ m.id \in Nat /\ installed + 1 = m.id
          BY <1>1, <1>3, <4>1
      <4>5. \A i \in DOMAIN new : new[i].id <= installed'
          BY <2>2, <2>4, <4>2, <4>3, <4>4
      <4>6. ASSUME NEW i \in DOMAIN new, NEW j \in DOMAIN new, i < j
            PROVE  new[i].id < new[j].id
        <5>1. i \in DOMAIN old
            BY <4>2, <4>3, <4>6
        <5>2. new[i] = old[i] /\ old[i].id <= installed /\ old[i].id \in Nat
            BY <2>1, <2>4, <4>2, <5>1
        <5>3. CASE j = Len(old) + 1
            BY <1>3, <4>2, <4>4, <5>2, <5>3
        <5>4. CASE j \in DOMAIN old
            BY <2>1, <4>2, <4>6, <5>1, <5>2, <5>4, Zenon DEF Ascending
        <5>  QED  BY <4>3, <5>3, <5>4
      <4>7. Ascending(new)
          BY <4>6 DEF Ascending
      <4>  QED  BY <4>1, <4>5, <4>7, Zenon DEF new
    <3>  QED  BY <3>1, <3>2, Zenon
  <2>  QED  BY <2>3, <2>5 DEF IdsAscend
<1>15. NoUpdateLostOrRepeated'
  <2>  DEFINE docs == Documents(old)
  <2>1. accepted = delivered \o Ids(docs)
      BY Zenon DEF IInv, NoUpdateLostOrRepeated, Ids
  <2>2. docs \in Seq(Messages)
      BY <1>8, MessageFacts
  <2>  HIDE DEF docs
  <2>3. accepted' = delivered \o Ids(Documents(outbox'.ordered))
    <3>1. CASE IsDocument(r)
      <4>1. PICK m \in Waiting :
               m.id = installed + 1 /\ Documents(outbox'.ordered) = Append(docs, m)
          BY <1>7, <3>1, Zenon DEF docs
      <4>2. m \in Messages /\ m.id \in 1 .. MaxInstalls
          BY <4>1, MessageFacts DEF Messages
      <4>3. Ids(Append(docs, m)) = Append(Ids(docs), m.id)
            /\ Ids(docs) \in Seq(1 .. MaxInstalls)
          BY <2>2, <4>2, IdsFacts
      <4>4. accepted' = Append(delivered \o Ids(docs), m.id)
          BY <1>1, <2>1, <3>1, <4>1, Zenon DEF IsDocument
      <4>5. ASSUME NEW S, NEW s \in Seq(S), NEW t \in Seq(S), NEW e \in S
            PROVE  Append(s \o t, e) = s \o Append(t, e)
          OBVIOUS
      <4>6. Append(delivered \o Ids(docs), m.id) = delivered \o Append(Ids(docs), m.id)
        <5>  DEFINE I == 1 .. MaxInstalls
                    s == delivered
                    t == Ids(docs)
                    e == m.id
        <5>1. s \in Seq(I) /\ t \in Seq(I) /\ e \in I
            BY <1>3, <4>2, <4>3
        <5>  HIDE DEF I, s, t, e
        <5>2. Append(s \o t, e) = s \o Append(t, e)
            BY <4>5, <5>1
        <5>  QED  BY <5>2 DEF s, t, e
      <4>  QED  BY <4>1, <4>3, <4>4, <4>6, Zenon
    <3>2. CASE ~IsDocument(r)
        BY <1>1, <1>7, <2>1, <3>2, Zenon DEF IsDocument, docs
    <3>  QED  BY <3>1, <3>2
  <2>4. delivered' = delivered
      BY <1>1
  <2>  QED  BY <2>3, <2>4, Zenon DEF NoUpdateLostOrRepeated, Ids
<1>16. PresenceFollowsDocuments'
  <2>1. ASSUME NEW i \in DOMAIN handed, IsAwareness(handed[i]),
               NEW j \in DOMAIN accepted', accepted'[j] < handed[i].id
        PROVE  \E k \in DOMAIN delivered : delivered[k] = accepted'[j]
    <3>1. j \in DOMAIN accepted /\ accepted'[j] = accepted[j]
      <4>1. CASE IsDocument(r)
        <5>1. accepted' = Append(accepted, installed + 1)
            BY <1>1, <4>1 DEF IsDocument
        <5>2. handed[i].id <= installed
            BY <2>1 DEF IInv, IdsAscend
        <5>3. handed[i].id \in Nat
            BY <1>3, MessageFacts
        <5>4. accepted'[j] # installed + 1
            BY <1>3, <2>1, <5>2, <5>3
        <5>  QED  BY <1>3, <5>1, <5>4
      <4>2. CASE ~IsDocument(r)
          BY <1>1, <4>2 DEF IsDocument
      <4>  QED  BY <4>1, <4>2
    <3>  QED  BY <2>1, <3>1, Zenon DEF IInv, PresenceFollowsDocuments
  <2>2. handed' = handed /\ delivered' = delivered
      BY <1>1
  <2>  QED  BY <2>1, <2>2, Zenon DEF PresenceFollowsDocuments
<1>17. BroadcastsBounded'
  <2>1. Len(Broadcasts(outbox'.ordered)) <= 2
    <3>1. CASE IsAwareness(r)
      <4>1. Len(Broadcasts(old)) <= 1
          BY <3>1 DEF IInv, BroadcastsBounded, IsAwareness
      <4>2. PICK m \in Waiting :
               Broadcasts(outbox'.ordered) = Append(Broadcasts(old), m)
          BY <1>7, <3>1, Zenon
      <4>3. ASSUME NEW q \in Seq(Waiting), Len(q) <= 1
            PROVE  Len(Append(q, m)) <= 2
          BY <4>3
      <4>  QED  BY <1>8, <4>1, <4>2, <4>3, Zenon
    <3>2. CASE ~IsAwareness(r)
        BY <1>7, <3>2, Zenon DEF IInv, BroadcastsBounded, PresenceBounded
    <3>  QED  BY <3>1, <3>2
  <2>2. ~\E h \in held' : h.kind = "AwarenessBroadcast"
      BY <1>1
  <2>  QED  BY <2>1, <2>2, Zenon DEF BroadcastsBounded, PresenceBounded
<1>  QED
    BY <1>2, <1>9, <1>10, <1>11, <1>12, <1>13, <1>14, <1>15, <1>16, <1>17, Zenon
    DEF IInv

LEMMA StutterKeeps ==
    ASSUME IInv, UNCHANGED outboxVars
    PROVE  IInv'
<1>1. UNCHANGED <<outbox, held, installed, handed, accepted, delivered>>
    BY DEF outboxVars
<1>2. Histories' /\ HeldOnce' /\ LedgerIsHeld' /\ IdsAscend'
    BY <1>1 DEF IInv, Histories, HeldOnce, LedgerIsHeld, IdsAscend
<1>3. Exact(outbox)' /\ Limited(outbox)'
    BY <1>1, Zenon DEF IInv, Exact, Limited, Pending, NonDocument
<1>4. LeasesAreHanded' /\ LeasedMessageIsFront'
    BY <1>1 DEF IInv, LeasesAreHanded, LeasedMessageIsFront
<1>5. NoUpdateLostOrRepeated' /\ BroadcastsBounded'
    BY <1>1 DEF IInv, NoUpdateLostOrRepeated, BroadcastsBounded, PresenceBounded
<1>6. PresenceFollowsDocuments'
    BY <1>1, Zenon DEF IInv, PresenceFollowsDocuments
<1>  QED  BY <1>1, <1>2, <1>3, <1>4, <1>5, <1>6 DEF IInv

LEMMA StepKeeps ==
    ASSUME IInv, [OutboxNext]_outboxVars
    PROVE  IInv'
<1>1. ASSUME NEW kind \in Kinds, NEW messages \in Counts(kind),
             NEW bytes \in Sizes, ReserveCall(kind, messages, bytes)
      PROVE  IInv'
    BY <1>1, ReserveCallKeeps
<1>2. CASE RefusePresence
    BY <1>2, RefusePresenceKeeps
<1>3. ASSUME NEW r \in held, NEW sizes \in [1 .. r.messages -> Sizes],
             InstallCall(sizes)
      PROVE  IInv'
    BY <1>3, InstallCallKeeps
<1>4. CASE DropCall
    BY <1>4, DropCallKeeps
<1>5. CASE LeaseCall
    BY <1>5, LeaseCallKeeps
<1>6. ASSUME NEW lease_id \in DOMAIN handed, AckCall(lease_id) \/ NackCall(lease_id)
      PROVE  IInv'
    BY <1>6, AckCallKeeps, NackCallKeeps
<1>7. CASE RetireConnection
    BY <1>7, RetireConnectionKeeps
<1>8. CASE ResetForRestore
    BY <1>8, ResetForRestoreKeeps
<1>9. CASE UNCHANGED outboxVars
    BY <1>9, StutterKeeps
<1>  QED
    BY <1>1, <1>2, <1>3, <1>4, <1>5, <1>6, <1>7, <1>8, <1>9, Zenon DEF OutboxNext

-----------------------------------------------------------------------------
(* The properties of the runs *)

(* With no update queued there is room for one of up to the reserve.       *)
LEMMA HeadroomHolds ==
    ASSUME IInv
    PROVE  DocumentHeadroom
<1>  SUFFICES ASSUME MaxMessages > 1, held = {},
                     ~HasPendingDocumentUpdates(outbox)
              PROVE  Admits(outbox, "DocumentUpdate", 1, DocumentByteReserve)
    BY DEF DocumentHeadroom
<1>1. /\ outbox \in Shapes /\ Exact(outbox) /\ Limited(outbox)
      /\ outbox.ordered \in Seq(Waiting) /\ outbox.protocol \in Seq(Replies)
    BY DEF IInv, Shapes
<1>2. Documents(outbox.ordered) = << >>
    BY <1>1, OfKindNone DEF HasPendingDocumentUpdates, IsDocument, Documents
<1>3. outbox.pending_bytes = 0
    BY <1>1, <1>2, BytesEmpty DEF Exact
<1>4. /\ outbox.reserved = NoCharge /\ outbox.reserved_non_document = NoCharge
    BY DEF IInv, LedgerIsHeld
<1>  DEFINE k == Len(Broadcasts(outbox.ordered))
            l == Len(outbox.protocol)
            a == outbox.pending_awareness_bytes
            c == outbox.pending_protocol_bytes
<1>5. k \in Nat /\ l \in Nat /\ a \in Nat /\ c \in Nat
  <2>1. k \in Nat
      BY <1>1, OrderedFacts
  <2>2. l \in Nat /\ a \in Nat /\ c \in Nat
      BY <1>1 DEF Shapes
  <2>  QED  BY <2>1, <2>2
<1>6. Pending(outbox) = 0 + k + l /\ NonDocument(outbox) = l + k
  <2>1. Len(<< >>) = 0
      OBVIOUS
  <2>  QED  BY <1>1, <1>2, <2>1, LengthsType, Zenon DEF NonDocument
<1>7. l + k + 0 <= MaxNonDocumentMessages /\ a + c + 0 <= MaxNonDocumentBytes
  <2>1. /\ NonDocument(outbox) + outbox.reserved_non_document.messages
             <= MaxNonDocumentMessages
        /\ a + c + outbox.reserved_non_document.bytes <= MaxNonDocumentBytes
      BY <1>1, Zenon DEF Limited
  <2>2. /\ outbox.reserved_non_document.messages = 0
        /\ outbox.reserved_non_document.bytes = 0
      BY <1>4 DEF NoCharge
  <2>  QED  BY <1>6, <2>1, <2>2, Zenon
<1>8. outbox.reserved.messages = 0 /\ outbox.reserved.bytes = 0
    BY <1>4 DEF NoCharge
<1>  HIDE DEF k, l, a, c
<1>9. /\ 0 + k + l + 0 + 1 <= MaxMessages
      /\ 0 + a + c + 0 + DocumentByteReserve <= MaxBytes
    BY <1>5, <1>7, LimitFacts
<1>  QED  BY <1>3, <1>6, <1>8, <1>9, Zenon DEF Admits, a, c

LEMMA AccountingHolds ==
    ASSUME IInv
    PROVE  AccountingExact /\ WithinLimits
<1>1. /\ outbox \in Shapes /\ Exact(outbox) /\ Limited(outbox)
      /\ outbox.ordered \in Seq(Waiting) /\ outbox.protocol \in Seq(Replies)
    BY DEF IInv, Shapes
<1>2. AccountingExact
  <2>1. CASE held = {}
      BY <1>1, <2>1 DEF IInv, LedgerIsHeld, AccountingExact, Exact, NoCharge
  <2>2. CASE held # {}
    <3>1. PICK r \in held : held = {r}
        BY <2>2 DEF IInv, HeldOnce
    <3>2. /\ outbox.reserved = ChargeOf(r)
          /\ outbox.reserved_non_document =
                IF r.kind = "DocumentUpdate" THEN NoCharge ELSE ChargeOf(r)
        BY Zenon DEF IInv, LedgerIsHeld
    <3>  DEFINE live == {h \in held : h.kind # "DocumentUpdate"}
    <3>3. live = IF r.kind = "DocumentUpdate" THEN {} ELSE {r}
        BY <3>1
    <3>  HIDE DEF live
    <3>4. /\ \E h \in held : outbox.reserved = [messages |-> h.messages,
                                                bytes |-> h.bytes]
          /\ \/ live = {} /\ outbox.reserved_non_document
                                = [messages |-> 0, bytes |-> 0]
             \/ \E h \in live : outbox.reserved_non_document
                                   = [messages |-> h.messages, bytes |-> h.bytes]
        BY <3>1, <3>2, <3>3 DEF ChargeOf, NoCharge
    <3>  QED  BY <1>1, <3>4, Zenon DEF AccountingExact, Exact, live
  <2>  QED  BY <2>1, <2>2
<1>3. WithinLimits
  <2>  DEFINE d == Bytes(Documents(outbox.ordered))
              a == Bytes(Broadcasts(outbox.ordered))
              c == Bytes(outbox.protocol)
  <2>1. Bytes(outbox.ordered) = d + a
      BY <1>1, OrderedFacts
  <2>2. d + a + c + outbox.reserved.bytes <= MaxBytes
      BY <1>1, Zenon DEF Limited, Exact
  <2>3. Pending(outbox) + outbox.reserved.messages <= MaxMessages
      BY <1>1 DEF Limited
  <2>  HIDE DEF d, a, c
  <2>  QED  BY <2>1, <2>2, <2>3, Zenon DEF WithinLimits, c
<1>  QED  BY <1>2, <1>3

LEMMA TypesHold ==
    ASSUME IInv
    PROVE  OutboxTypeOK
<1>1. /\ outbox \in Shapes /\ Limited(outbox)
    BY DEF IInv
<1>2. outbox \in Outboxes
  <2>  DEFINE b == outbox.pending_bytes
              a == outbox.pending_awareness_bytes
              c == outbox.pending_protocol_bytes
              m == outbox.reserved.messages
              s == outbox.reserved.bytes
              mm == outbox.reserved_non_document.messages
              ss == outbox.reserved_non_document.bytes
  <2>1. /\ b \in Nat /\ a \in Nat /\ c \in Nat
        /\ m \in Nat /\ s \in Nat /\ mm \in Nat /\ ss \in Nat
        /\ outbox.reserved \in Counters /\ outbox.reserved_non_document \in Counters
      BY <1>1 DEF Shapes, Counters
  <2>2. Pending(outbox) \in Nat /\ NonDocument(outbox) \in Nat
      BY <1>1, LengthsType
  <2>3. /\ Pending(outbox) + m <= MaxMessages /\ b + a + c + s <= MaxBytes
        /\ NonDocument(outbox) + mm <= MaxNonDocumentMessages
        /\ a + c + ss <= MaxNonDocumentBytes
      BY <1>1, Zenon DEF Limited
  <2>4. MaxNonDocumentMessages <= MaxMessages /\ MaxNonDocumentBytes <= MaxBytes
      BY LimitFacts DEF MaxNonDocumentMessages
  <2>5. /\ b \in 0 .. MaxBytes /\ a \in 0 .. MaxBytes /\ c \in 0 .. MaxBytes
        /\ m \in 0 .. MaxMessages /\ s \in 0 .. MaxBytes
        /\ mm \in 0 .. MaxMessages /\ ss \in 0 .. MaxBytes
    <3>  HIDE DEF b, a, c, m, s, mm, ss
    <3>  QED  BY <2>1, <2>2, <2>3, <2>4, LimitFacts
  <2>6. outbox.reserved \in Charges /\ outbox.reserved_non_document \in Charges
      BY <2>1, <2>5 DEF Counters, Charges
  <2>7. outbox.ordered \in Seq(Messages) /\ outbox.protocol \in Seq(Messages)
    <3>1. outbox.ordered \in Seq(Waiting) /\ outbox.protocol \in Seq(Replies)
        BY <1>1 DEF Shapes
    <3>  QED  BY <3>1, MessageFacts
  <2>  QED  BY <1>1, <2>5, <2>6, <2>7 DEF Shapes, Outboxes
<1>3. held \in SUBSET [kind : Kinds, messages : Nat, bytes : Sizes]
  <2>1. ASSUME NEW r \in Reservations
        PROVE  r \in [kind : Kinds, messages : Nat, bytes : Sizes]
      BY DEF Reservations
  <2>2. held = {} \/ \E r \in Reservations : held = {r}
      BY Zenon DEF IInv, HeldOnce
  <2>  QED  BY <2>1, <2>2
<1>  QED  BY <1>2, <1>3, Zenon DEF IInv, Histories, OutboxTypeOK

LEMMA InvariantImplies ==
    ASSUME IInv
    PROVE  QueuesSound
    BY HeadroomHolds, AccountingHolds, TypesHold
    DEF IInv, QueuesSound, BroadcastsBounded

LEMMA InvariantHolds == OutboxSpec => []IInv
<1>1. OutboxInit => IInv
    BY InitSound
<1>2. IInv /\ [OutboxNext]_outboxVars => IInv'
    BY StepKeeps
<1>  QED  BY <1>1, <1>2, PTL DEF OutboxSpec

(* The queues, the counters, the ledger, the leases and the history agree  *)
(* in every state: the panics of clone_leased_front and ack_lease are      *)
(* unreachable, no update is lost or sent twice, no reservation leaks, the *)
(* limits hold, the reserve for documents is there when it is needed, and  *)
(* presence neither overtakes the documents nor piles up.                  *)
THEOREM QueuesAreSound == OutboxSpec => []QueuesSound
<1>1. IInv => QueuesSound
    BY InvariantImplies
<1>  QED  BY <1>1, InvariantHolds, PTL

-----------------------------------------------------------------------------
(* The abstract specification *)

LEMMA StepDelivers ==
    ASSUME IInv, [OutboxNext]_outboxVars
    PROVE  [Delivery!DNext]_(Delivery!dvars)
<1>1. accepted \in Seq(1 .. MaxInstalls) /\ delivered \in Seq(1 .. MaxInstalls)
    BY DEF IInv, Histories
<1>2. ASSUME NEW r \in held, NEW sizes \in [1 .. r.messages -> Sizes],
             InstallCall(sizes)
      PROVE  Delivery!Accept \/ UNCHANGED <<accepted, delivered>>
  <2>1. /\ delivered' = delivered
        /\ accepted' = Append(accepted, installed + 1) \/ accepted' = accepted
      BY <1>2 DEF InstallCall
  <2>2. ASSUME NEW s \in Seq(1 .. MaxInstalls), NEW e
        PROVE  /\ Len(Append(s, e)) = Len(s) + 1
               /\ SubSeq(Append(s, e), 1, Len(s)) = s
      OBVIOUS
  <2>  QED  BY <1>1, <2>1, <2>2 DEF Delivery!Accept
<1>3. ASSUME NEW lease_id, AckCall(lease_id)
      PROVE  Delivery!Deliver \/ UNCHANGED <<accepted, delivered>>
  <2>  DEFINE m == handed[lease_id]
              rest == Documents(Tail(outbox.ordered))
  <2>1. /\ accepted' = accepted
        /\ delivered' = IF IsDocument(m) THEN Append(delivered, m.id) ELSE delivered
      BY <1>3 DEF AckCall
  <2>2. ASSUME IsDocument(m)
        PROVE  /\ Len(delivered) < Len(accepted)
               /\ accepted[Len(delivered) + 1] = m.id
    <3>1. /\ m \in Messages /\ outbox.ordered # << >> /\ Head(outbox.ordered) = m
          /\ outbox.ordered \in Seq(Waiting)
        BY <1>3, <2>2, AckCallFront DEF IInv, Shapes, IsDocument
    <3>2. /\ Documents(outbox.ordered) = << m >> \o rest
          /\ rest \in Seq(Messages)
      <4>1. Tail(outbox.ordered) \in Seq(Waiting)
          BY <3>1
      <4>2. rest \in Seq(Waiting)
          BY <4>1, OrderedFacts
      <4>3. Documents(outbox.ordered) = << m >> \o rest
          BY <2>2, <3>1, OrderedFront
      <4>  HIDE DEF rest
      <4>  QED  BY <4>2, <4>3, MessageFacts
    <3>  HIDE DEF rest, m
    <3>3. /\ Ids(<< m >> \o rest) = << m.id >> \o Ids(rest)
          /\ Ids(rest) \in Seq(1 .. MaxInstalls) /\ m.id \in 1 .. MaxInstalls
        BY <3>1, <3>2, IdsFacts DEF Messages
    <3>4. accepted = delivered \o (<< m.id >> \o Ids(rest))
      <4>1. accepted = delivered \o Ids(Documents(outbox.ordered))
          BY Zenon DEF IInv, NoUpdateLostOrRepeated, Ids
      <4>  QED  BY <3>2, <3>3, <4>1, Zenon
    <3>5. ASSUME NEW S, NEW s \in Seq(S), NEW t \in Seq(S), NEW e \in S
          PROVE  /\ Len(s) < Len(s \o (<< e >> \o t))
                 /\ (s \o (<< e >> \o t))[Len(s) + 1] = e
        OBVIOUS
    <3>  QED  BY <1>1, <3>3, <3>4, <3>5
  <2>  QED  BY <2>1, <2>2 DEF Delivery!Deliver
<1>4. ASSUME \/ \E kind \in Kinds : \E messages \in Counts(kind), bytes \in Sizes :
                   ReserveCall(kind, messages, bytes)
             \/ RefusePresence \/ DropCall \/ LeaseCall
             \/ \E lease_id \in DOMAIN handed : NackCall(lease_id)
             \/ RetireConnection \/ ResetForRestore
             \/ UNCHANGED outboxVars
      PROVE  UNCHANGED <<accepted, delivered>>
    BY <1>4 DEF ReserveCall, RefusePresence, DropCall, LeaseCall, NackCall,
                RetireConnection, ResetForRestore, outboxVars
<1>  QED
    BY <1>2, <1>3, <1>4, Zenon DEF OutboxNext, Delivery!DNext, Delivery!dvars

(* The updates are delivered in the order of their commits, each once: the *)
(* outbox implements UpdateDelivery.                                       *)
THEOREM ImplementsDelivery == OutboxSpec => DeliverySpec
<1>1. OutboxInit => Delivery!DInit
    BY DEF OutboxInit, Delivery!DInit
<1>2. IInv /\ [OutboxNext]_outboxVars => [Delivery!DNext]_(Delivery!dvars)
    BY StepDelivers
<1>  QED
    BY <1>1, <1>2, InvariantHolds, PTL DEF OutboxSpec, DeliverySpec, Delivery!DSpec

=============================================================================
