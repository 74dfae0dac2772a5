---------------------------- MODULE PresenceProofs --------------------------
(***************************************************************************)
(* Theorems of a session that shows its presence.  For every value of the  *)
(* constants a withdrawn presence does not stay at the room.  While the    *)
(* outbox has room for what a behaviour queues, what the session last said *)
(* of itself is known to the room or on its way; and while clocks do not   *)
(* run out either, presence is renewed in time and silent peers leave.     *)
(*                                                                         *)
(* The invariant is stated of a session record, so that it can be followed *)
(* through the steps inside one call: Sane(s, r, f, e, c) is about a       *)
(* session s, the entry r the room has, the message f being sent, e edits  *)
(* and c changes.  Its parts are what a session holds by itself, what      *)
(* relates its entry to those in its queues and at the room, what bounds   *)
(* its queues, and what bounds its clock.                                  *)
(***************************************************************************)
EXTENDS Presence, FiniteSetTheorems, TLAPS

-----------------------------------------------------------------------------
(* Types *)

Options(S) == {{}} \union {{x} : x \in S}

Functions(K, V) == UNION {[k -> V] : k \in SUBSET K}

(* Entries of one state or none; a live one leaves a clock to its          *)
(* tombstone.                                                              *)
Sound ==
    {e \in [clock : 0 .. MaxAwarenessClock, state : Options(States)] :
        e.state # {} => e.clock < MaxAwarenessClock}

Frames == [kind : Kinds, id : Options(Sound), bytes : {1}]
Waiting == {m \in Frames : m.kind # "ProtocolReply"}
Answering == {m \in Frames : m.kind = "ProtocolReply"}

NoCharge == [messages |-> 0, bytes |-> 0]

Outboxes ==
    [ordered                 : Seq(Waiting),
     protocol                : Seq(Answering),
     pending_bytes           : Nat,
     pending_awareness_bytes : Nat,
     pending_protocol_bytes  : Nat,
     next_lease_id           : SUBSET Nat,
     active_lease            : SUBSET [id : {1}, kind : Kinds],
     reserved                : {NoCharge},
     reserved_non_document   : {NoCharge}]

Codecs == [local : Sound, remote : Functions(Peers, Sound)]

Withdrawals == [entry : Sound, retry : Options(0 .. MaxMillis)]

Awarenesses ==
    [desired_state             : Options(States),
     now_millis                : 0 .. MaxMillis,
     last_local_publish_millis : Options(0 .. MaxMillis),
     pending_withdrawal        : Options(Withdrawals),
     peer_activity             : Functions(Peers, 0 .. MaxMillis)]

Sessions ==
    [transport      : Transports,
     outbox         : Outboxes,
     document_state : DocumentStates,
     awareness      : Awarenesses,
     codec          : Codecs]

-----------------------------------------------------------------------------
(* The invariant of a session *)

Elements(q) == {q[i] : i \in DOMAIN q}
Queued(o) == Elements(o.protocol) \union Elements(o.ordered)

(* An attempt in flight is the newest.                                     *)
NewestAttempt(t) ==
    /\ t.live_attempt = IF t.state \in AttemptStates THEN {t.last_issued} ELSE {}
    /\ t.state \in AttemptStates => t.last_issued > 0

(* Every message has length one.                                           *)
Exact(o) ==
    /\ o.pending_bytes = Len(Documents(o.ordered))
    /\ o.pending_awareness_bytes = Len(Broadcasts(o.ordered))
    /\ o.pending_protocol_bytes = Len(o.protocol)

(* The message being sent is the front of the queue of the lease.          *)
LeaseIsFront(o, f) ==
    \/ f = {} /\ o.active_lease = {} /\ o.next_lease_id = {1}
    \/ \E lease \in o.active_lease :
          /\ o.active_lease = {lease}
          /\ IF lease.kind = "ProtocolReply"
               THEN o.protocol # << >> /\ f = {Head(o.protocol)}
               ELSE /\ o.ordered # << >> /\ f = {Head(o.ordered)}
                    /\ Head(o.ordered).kind = lease.kind

OutboxSane(o, f) == o \in Outboxes /\ Exact(o) /\ LeaseIsFront(o, f)

(* What is not desired is not shown, and a withdrawal that is kept is of   *)
(* the entry the session has.                                              *)
IntentIsShown(a, c) ==
    /\ a.desired_state = {} => c.local.state = {}
    /\ \A w \in a.pending_withdrawal :
          a.desired_state = {} /\ w.entry = c.local

(* The runtime follows the peers of the connection.                        *)
PeersFollowed(s) ==
    /\ DOMAIN s.awareness.peer_activity = Live(s.codec.remote)
    /\ \A p \in Live(s.codec.remote) :
          s.awareness.peer_activity[p] <= s.awareness.now_millis
    /\ s.transport.state \notin OpenStates => DOMAIN s.codec.remote = {}
    /\ s.codec.local.state # {} =>
          Cardinality(Live(s.codec.remote)) + 1 <= MaxAwarenessStates

(* Entries are outdone by the session's, unless they are it.               *)
Within(entry, local) == entry = local \/ entry.clock < local.clock

NewestIsOwn(o, c, r) ==
    /\ Within(r, c.local)
    /\ \A m \in Queued(o) : \A e \in m.id : Within(e, c.local)

Carried(o, entry) == \E m \in Queued(o) : m.id = {entry}

(* Nothing queued would show a presence at a room that has r.              *)
NothingShows(o, r) ==
    /\ r.state = {}
    /\ \A m \in Queued(o) : \A e \in m.id :
          e.state # {} => e.clock <= r.clock

WithdrawalIsKept(a, o, c, r) ==
    a.desired_state = {} =>
        \/ a.pending_withdrawal # {}
        \/ Carried(o, c.local)
        \/ NothingShows(o, r)

(* Replies: one per opening, one per synchronisation, and those to the     *)
(* queries.                                                                *)
Openings(t) ==
    2 * t.last_issued - (IF t.state = "Connecting" THEN 2
                         ELSE IF t.state = "Handshaking" THEN 1 ELSE 0)

Bounded(t, o, e) ==
    /\ Len(Documents(o.ordered)) <= e
    /\ Len(Broadcasts(o.ordered)) <= 2
    /\ Len(o.protocol) <= MaxReplies + Openings(t)

(* The outbox has room for all that a behaviour queues.                    *)
MostQueued == MaxEdits + 2 + MaxReplies + 2 * MaxGeneration

Roomy ==
    /\ MostQueued <= MaxNonDocumentMessages
    /\ MostQueued <= MaxNonDocumentBytes

(* While presence is shown the room knows it or is being told.             *)
PresenceIsShown(s, r) ==
    (Synchronized(s) /\ s.awareness.desired_state # {}) =>
        /\ s.codec.local.state # {}
        /\ r = s.codec.local \/ Carried(s.outbox, s.codec.local)
        /\ s.awareness.last_local_publish_millis # {}

(* Clocks advance with changes, with connections and, by renewals, with    *)
(* the time of the latest publication.                                     *)
Latest(s) ==
    IF Synchronized(s) /\ s.awareness.desired_state # {}
      THEN s.awareness.last_local_publish_millis
      ELSE {s.awareness.now_millis}

Spent(s) ==
    s.codec.local.clock
        + (IF s.codec.local.state = {} THEN 0 ELSE 1)
        + (IF s.transport.state \in {"Connecting", "Handshaking"} THEN 2 ELSE 0)

ClockIsBounded(s, c) ==
    /\ \A published \in s.awareness.last_local_publish_millis :
          published <= s.awareness.now_millis
    /\ \A millis \in Latest(s) :
          Spent(s) <= 2 * (c + s.transport.last_issued) + millis

Coherent(s, r, f, e) ==
    /\ s \in Sessions
    /\ NewestAttempt(s.transport)
    /\ OutboxSane(s.outbox, f)
    /\ IntentIsShown(s.awareness, s.codec)
    /\ PeersFollowed(s)
    /\ NewestIsOwn(s.outbox, s.codec, r)
    /\ WithdrawalIsKept(s.awareness, s.outbox, s.codec, r)
    /\ Bounded(s.transport, s.outbox, e)

Sane(s, r, f, e, c) ==
    /\ Coherent(s, r, f, e)
    /\ Roomy => PresenceIsShown(s, r)
    /\ Roomy => ClockIsBounded(s, c)

-----------------------------------------------------------------------------
(* The invariant of the system *)

Variables ==
    /\ timer \in SUBSET (0 .. MaxMillis)
    /\ wake \in BOOLEAN
    /\ now \in 0 .. MaxMillis
    /\ room \in Sound
    /\ peer_refused \in BOOLEAN
    /\ changes \in 0 .. MaxChanges
    /\ edits \in 0 .. MaxEdits

IInv ==
    /\ Variables
    /\ Sane(session, room, sending, edits, changes)
    /\ session.awareness.now_millis <= now
    /\ sending # {} => session.transport.state \in OpenStates

(* Clocks do not run out.                                                  *)
Ample ==
    /\ Roomy
    /\ 2 * (MaxChanges + MaxGeneration) + MaxMillis < MaxAwarenessClock

(* A deadline is not passed, and one that is to come has a timer.          *)
Met(n, timers, millis, interval) ==
    /\ n <= millis + interval
    /\ millis + interval <= MaxMillis =>
          \E deadline \in timers : deadline <= millis + interval

(* A peer that is shown was heard since the runtime noted its activity,    *)
(* and is not due to expire.                                               *)
Hears(s, told, n) ==
    \A p \in Live(s.codec.remote) :
        /\ p \in DOMAIN told
        /\ told[p] \in 0 .. n
        /\ s.awareness.peer_activity[p] <= told[p]
        /\ n <= s.awareness.peer_activity[p] + ExpiryInterval

Armed(s, timers, n) ==
    /\ \A p \in Live(s.codec.remote) :
          Met(n, timers, s.awareness.peer_activity[p], ExpiryInterval)
    /\ (Synchronized(s) /\ s.awareness.desired_state # {}) =>
          \A published \in s.awareness.last_local_publish_millis :
              Met(n, timers, published, RenewalInterval)

PeersAreHeard == Hears(session, heard, now)

TimersAreSet ==
    ~wake /\ sending = {} /\ session.transport.state \in OpenStates =>
        Armed(session, timer, now)

TInv == IInv /\ PeersAreHeard /\ TimersAreSet

-----------------------------------------------------------------------------
(* The queues *)

(* The outbox of the session is an outbox, of messages of length one; what *)
(* is cited of it are the facts about the operators on queues.             *)
Queue ==
    INSTANCE OutboxProofs WITH
        Sizes <- {1}, MaxInstalls <- 0, outbox <- session.outbox, held <- {},
        installed <- 0, handed <- << >>, accepted <- << >>, delivered <- << >>

LEMMA QueueAssumptions ==
    /\ Queue!OutboxBoundsAssumption
    /\ Queue!OutboxCallsAssumption
    BY OutboxBoundsAssumption
    DEF Queue!OutboxBoundsAssumption, Queue!OutboxCallsAssumption

LEMMA SameOperators ==
    /\ \A q : Bytes(q) = Queue!Bytes(q)
    /\ \A q, kind : OfKind(q, kind) = Queue!OfKind(q, kind)
    BY DEF Bytes, Queue!Bytes, OfKind, Queue!OfKind, KeepIf, Queue!KeepIf

(* What the lemmas of the outbox say of the queues here.                   *)
LEMMA QueueInduction ==
    ASSUME NEW M, NEW T, << >> \in T,
           \A q \in Seq(M) : q \in T => \A m \in M : Append(q, m) \in T
    PROVE  \A q \in Seq(M) : q \in T
    BY Queue!SeqSetInduction, QueueAssumptions

LEMMA BytesOfNone == Bytes(<< >>) = 0
    BY Queue!BytesEmpty, QueueAssumptions, SameOperators

LEMMA BytesOfMore ==
    ASSUME NEW M, \A m \in M : m.bytes \in Nat, NEW q \in Seq(M), NEW m \in M
    PROVE  Bytes(Append(q, m)) = Bytes(q) + m.bytes
<1>1. Queue!Measured(M)
    BY DEF Queue!Measured
<1>  QED  BY <1>1, Queue!BytesAppend, QueueAssumptions, SameOperators

LEMMA OfKindOfNone == \A kind : OfKind(<< >>, kind) = << >>
    BY Queue!OfKindEmpty, QueueAssumptions, SameOperators

LEMMA OfKindOfMore ==
    ASSUME NEW M, NEW q \in Seq(M), NEW m \in M, NEW kind
    PROVE  OfKind(Append(q, m), kind) = KeepIf(OfKind(q, kind), m, kind)
<1>1. \A k : Queue!KeepIf(k, m, kind) = KeepIf(k, m, kind)
    BY DEF KeepIf, Queue!KeepIf
<1>2. Queue!OfKind(Append(q, m), kind) =
         Queue!KeepIf(Queue!OfKind(q, kind), m, kind)
    BY Queue!OfKindAppend, QueueAssumptions
<1>  QED  BY <1>1, <1>2, SameOperators, Zenon

LEMMA OfKindOfBoth ==
    ASSUME NEW M, NEW q \in Seq(M), NEW u \in Seq(M), NEW kind
    PROVE  OfKind(q \o u, kind) = OfKind(q, kind) \o OfKind(u, kind)
<1>1. Queue!OfKind(q \o u, kind) = Queue!OfKind(q, kind) \o Queue!OfKind(u, kind)
    BY Queue!OfKindConcat, QueueAssumptions
<1>  QED  BY <1>1, SameOperators, Zenon

LEMMA OfKindOnlyThat ==
    ASSUME NEW M, NEW q \in Seq(M), NEW kind
    PROVE  OfKind(q, kind) \in Seq({m \in M : m.kind = kind})
    BY Queue!OfKindOnly, QueueAssumptions, SameOperators

LEMMA OfKindStays ==
    ASSUME NEW kind, NEW M, \A m \in M : m.kind = kind, NEW q \in Seq(M)
    PROVE  OfKind(q, kind) = q
    BY Queue!OfKindSame, QueueAssumptions, SameOperators

LEMMA OfKindGone ==
    ASSUME NEW kind, NEW M, \A m \in M : m.kind # kind, NEW q \in Seq(M)
    PROVE  OfKind(q, kind) = << >>
    BY Queue!OfKindOther, QueueAssumptions, SameOperators

LEMMA OfKindOfFront ==
    ASSUME NEW M, NEW q \in Seq(M), q # << >>, NEW kind
    PROVE  OfKind(q, kind) =
              IF Head(q).kind = kind
                THEN << Head(q) >> \o OfKind(Tail(q), kind)
                ELSE OfKind(Tail(q), kind)
<1>1. Queue!OfKind(q, kind) =
         IF Head(q).kind = kind
           THEN << Head(q) >> \o Queue!OfKind(Tail(q), kind)
           ELSE Queue!OfKind(Tail(q), kind)
    BY Queue!OfKindFront, QueueAssumptions
<1>  QED  BY <1>1, SameOperators, Zenon

(* Every message has length one, and is of one of two kinds.               *)
LEMMA BytesIsLen ==
    ASSUME NEW M, \A m \in M : m.bytes = 1, NEW q \in Seq(M)
    PROVE  Bytes(q) = Len(q)
<1>  DEFINE T == {u \in Seq(M) : Bytes(u) = Len(u)}
<1>1. << >> \in T
    BY BytesOfNone
<1>2. ASSUME NEW u \in Seq(M), u \in T, NEW m \in M
      PROVE  Append(u, m) \in T
  <2>1. Bytes(Append(u, m)) = Bytes(u) + m.bytes
    <3>1. \A x \in M : x.bytes \in Nat
        OBVIOUS
    <3>  QED  BY <3>1, BytesOfMore
  <2>2. Len(Append(u, m)) = Len(u) + 1 /\ Append(u, m) \in Seq(M)
      OBVIOUS
  <2>  QED  BY <1>2, <2>1, <2>2
<1>3. \A u \in Seq(M) : u \in T
  <2>  HIDE DEF T
  <2>  QED  BY <1>1, <1>2, QueueInduction
<1>  QED  BY <1>3

LEMMA FrameFacts ==
    /\ \A m \in Frames : m.bytes = 1 /\ m.kind \in Kinds /\ m.id \in Options(Sound)
    /\ Waiting \subseteq Frames /\ Answering \subseteq Frames
    /\ \A m \in Waiting :
          m.kind = "DocumentUpdate" \/ m.kind = "AwarenessBroadcast"
    /\ \A m \in Answering : m.kind = "ProtocolReply"
    BY DEF Frames, Waiting, Answering, Kinds

LEMMA LengthsAddUp ==
    ASSUME NEW q \in Seq(Waiting)
    PROVE  /\ Documents(q) \in Seq(Waiting) /\ Broadcasts(q) \in Seq(Waiting)
           /\ Len(q) = Len(Documents(q)) + Len(Broadcasts(q))
<1>1. ASSUME NEW u \in Seq(Waiting)
      PROVE  Documents(u) \in Seq(Waiting) /\ Broadcasts(u) \in Seq(Waiting)
  <2>1. OfKind(u, "DocumentUpdate") \in
           Seq({m \in Waiting : m.kind = "DocumentUpdate"})
      BY OfKindOnlyThat
  <2>2. OfKind(u, "AwarenessBroadcast") \in
           Seq({m \in Waiting : m.kind = "AwarenessBroadcast"})
      BY OfKindOnlyThat
  <2>  QED  BY <2>1, <2>2 DEF Documents, Broadcasts
<1>  DEFINE T == {u \in Seq(Waiting) :
                     Len(u) = Len(Documents(u)) + Len(Broadcasts(u))}
<1>2. << >> \in T
    BY OfKindOfNone DEF Documents, Broadcasts
<1>3. ASSUME NEW u \in Seq(Waiting), u \in T, NEW m \in Waiting
      PROVE  Append(u, m) \in T
  <2>1. /\ Documents(Append(u, m)) = KeepIf(Documents(u), m, "DocumentUpdate")
        /\ Broadcasts(Append(u, m)) =
              KeepIf(Broadcasts(u), m, "AwarenessBroadcast")
      BY OfKindOfMore DEF Documents, Broadcasts
  <2>2. Len(Append(u, m)) = Len(u) + 1 /\ Append(u, m) \in Seq(Waiting)
      OBVIOUS
  <2>3. /\ Len(Append(Documents(u), m)) = Len(Documents(u)) + 1
        /\ Len(Append(Broadcasts(u), m)) = Len(Broadcasts(u)) + 1
        /\ Len(Documents(u)) \in Nat /\ Len(Broadcasts(u)) \in Nat
      BY <1>1
  <2>4. CASE m.kind = "DocumentUpdate"
    <3>1. /\ KeepIf(Documents(u), m, "DocumentUpdate") = Append(Documents(u), m)
          /\ KeepIf(Broadcasts(u), m, "AwarenessBroadcast") = Broadcasts(u)
        BY <2>4 DEF KeepIf
    <3>  QED  BY <1>3, <2>1, <2>2, <2>3, <3>1
  <2>5. CASE m.kind = "AwarenessBroadcast"
    <3>1. /\ KeepIf(Documents(u), m, "DocumentUpdate") = Documents(u)
          /\ KeepIf(Broadcasts(u), m, "AwarenessBroadcast") =
                Append(Broadcasts(u), m)
        BY <2>5 DEF KeepIf
    <3>  QED  BY <1>3, <2>1, <2>2, <2>3, <3>1
  <2>  QED  BY <2>4, <2>5, FrameFacts
<1>4. \A u \in Seq(Waiting) : u \in T
  <2>  HIDE DEF T
  <2>  QED  BY <1>2, <1>3, QueueInduction
<1>  QED  BY <1>1, <1>4

(* What is in queues put together, taken apart and thinned.                *)
LEMMA ElementsOfBoth ==
    ASSUME NEW M, NEW q \in Seq(M), NEW u \in Seq(M)
    PROVE  Elements(q \o u) = Elements(q) \union Elements(u)
<1>1. /\ DOMAIN (q \o u) = 1 .. Len(q) + Len(u)
      /\ DOMAIN q = 1 .. Len(q) /\ DOMAIN u = 1 .. Len(u)
      /\ Len(q) \in Nat /\ Len(u) \in Nat
    OBVIOUS
<1>2. \A i \in DOMAIN q : i \in DOMAIN (q \o u) /\ (q \o u)[i] = q[i]
    OBVIOUS
<1>3. \A i \in DOMAIN u :
         Len(q) + i \in DOMAIN (q \o u) /\ (q \o u)[Len(q) + i] = u[i]
    OBVIOUS
<1>4. \A i \in DOMAIN (q \o u) :
         \/ i \in DOMAIN q /\ (q \o u)[i] = q[i]
         \/ i - Len(q) \in DOMAIN u /\ (q \o u)[i] = u[i - Len(q)]
    BY <1>1
<1>5. Elements(q \o u) \subseteq Elements(q) \union Elements(u)
    BY <1>4, Zenon DEF Elements
<1>6. Elements(q) \subseteq Elements(q \o u)
    BY <1>2, Zenon DEF Elements
<1>7. Elements(u) \subseteq Elements(q \o u)
    BY <1>3, Zenon DEF Elements
<1>  QED  BY <1>5, <1>6, <1>7

LEMMA ElementsOfFew ==
    /\ Elements(<< >>) = {}
    /\ \A m : Elements(<< m >>) = {m}
    BY DEF Elements

LEMMA ElementsOfParts ==
    ASSUME NEW M, NEW q \in Seq(M), NEW i \in 1 .. Len(q) + 1, NEW j \in 0 .. Len(q)
    PROVE  Elements(SubSeq(q, i, j)) \subseteq Elements(q)
<1>1. \A k \in DOMAIN SubSeq(q, i, j) :
         i + k - 1 \in DOMAIN q /\ SubSeq(q, i, j)[k] = q[i + k - 1]
    OBVIOUS
<1>  QED  BY <1>1, Zenon DEF Elements

LEMMA ElementsOfFront ==
    ASSUME NEW M, NEW q \in Seq(M), q # << >>
    PROVE  Elements(q) = {Head(q)} \union Elements(Tail(q))
<1>  DEFINE front == << Head(q) >>
            rest == Tail(q)
<1>1. front \in Seq(M) /\ rest \in Seq(M) /\ q = front \o rest
    OBVIOUS
<1>2. Elements(front) = {Head(q)}
    BY ElementsOfFew
<1>  HIDE DEF front, rest
<1>3. Elements(front \o rest) = Elements(front) \union Elements(rest)
    BY <1>1, ElementsOfBoth
<1>  QED  BY <1>1, <1>2, <1>3, Zenon DEF rest

LEMMA ElementsOfKind ==
    ASSUME NEW M, NEW q \in Seq(M), NEW kind
    PROVE  Elements(OfKind(q, kind)) \subseteq Elements(q)
<1>  DEFINE E == Elements(q)
<1>1. q \in Seq(E)
    BY DEF Elements
<1>  HIDE DEF E
<1>2. OfKind(q, kind) \in Seq({m \in E : m.kind = kind})
    BY <1>1, OfKindOnlyThat
<1>  DEFINE k == OfKind(q, kind)
<1>3. k \in Seq(E)
    BY <1>2
<1>  HIDE DEF k
<1>4. Elements(k) \subseteq E
    BY <1>3 DEF Elements
<1>  QED  BY <1>4 DEF k, E

-----------------------------------------------------------------------------
(* The operations of the outbox *)

LEMMA OutboxFields ==
    ASSUME NEW o \in Outboxes
    PROVE  /\ o.ordered \in Seq(Waiting) /\ o.protocol \in Seq(Answering)
           /\ o.pending_bytes \in Nat /\ o.pending_awareness_bytes \in Nat
           /\ o.pending_protocol_bytes \in Nat
           /\ o.next_lease_id \subseteq Nat
           /\ o.active_lease \subseteq [id : {1}, kind : Kinds]
           /\ o.reserved = NoCharge /\ o.reserved_non_document = NoCharge
    BY DEF Outboxes

LEMMA Splits ==
    ASSUME NEW M, NEW q \in Seq(M)
    PROVE  /\ SubSeq(q, 1, 0) = << >> /\ SubSeq(q, 1, Len(q)) = q
           /\ << >> \o q = q /\ q \o << >> = q
           /\ SubSeq(q, 2, Len(q)) \in Seq(M)
           /\ q # << >> =>
                /\ Head(q) \in M /\ Tail(q) \in Seq(M)
                /\ << Head(q) >> \in Seq(M)
                /\ SubSeq(q, 1, 1) = << Head(q) >>
                /\ q = << Head(q) >> \o SubSeq(q, 2, Len(q))
<1>1. /\ SubSeq(q, 1, 0) = << >> /\ SubSeq(q, 1, Len(q)) = q
      /\ << >> \o q = q /\ q \o << >> = q
      /\ SubSeq(q, 2, Len(q)) \in Seq(M)
    OBVIOUS
<1>2. ASSUME q # << >>
      PROVE  /\ Head(q) \in M /\ Tail(q) \in Seq(M)
             /\ << Head(q) >> \in Seq(M)
             /\ SubSeq(q, 1, 1) = << Head(q) >>
  <2>1. Head(q) \in M /\ Tail(q) \in Seq(M) /\ << Head(q) >> \in Seq(M)
      BY <1>2
  <2>2. SubSeq(q, 1, 1) = [i \in 1 .. 1 |-> q[i]]
      BY <1>2
  <2>3. << Head(q) >> = [i \in 1 .. 1 |-> q[1]]
      BY <1>2
  <2>4. \A i \in 1 .. 1 : i = 1
      OBVIOUS
  <2>5. [i \in 1 .. 1 |-> q[i]] = [i \in 1 .. 1 |-> q[1]]
      BY <2>4
  <2>  QED  BY <2>1, <2>2, <2>3, <2>5, Zenon
<1>3. ASSUME q # << >>
      PROVE  q = << Head(q) >> \o SubSeq(q, 2, Len(q))
  <2>1. q = << Head(q) >> \o Tail(q)
      BY <1>3
  <2>2. Tail(q) = SubSeq(q, 2, Len(q))
      BY <1>3
  <2>  QED  BY <2>1, <2>2, Zenon
<1>  QED  BY <1>1, <1>2, <1>3

LEMMA Joins ==
    ASSUME NEW M, NEW m \in M, NEW q \in Seq(M)
    PROVE  /\ << m >> \in Seq(M) /\ << m >> \o q \in Seq(M)
           /\ << m >> \o q # << >> /\ Head(<< m >> \o q) = m
           /\ Len(<< m >> \o q) = 1 + Len(q) /\ Len(q) \in Nat
    OBVIOUS

(* The front of the ordered queue stays when newer broadcasts are dropped. *)
LEMMA CoalescedQueue ==
    ASSUME NEW q \in Seq(Waiting), NEW kept \in {0, 1},
           kept = 1 => q # << >> /\ Head(q).kind = "AwarenessBroadcast"
    PROVE  LET rest == SubSeq(q, kept + 1, Len(q))
               c == SubSeq(q, 1, kept) \o Documents(rest)
           IN  /\ c \in Seq(Waiting) /\ rest \in Seq(Waiting)
               /\ Documents(c) = Documents(q)
               /\ Len(Broadcasts(c)) = kept
               /\ Len(Broadcasts(q)) = kept + Len(Broadcasts(rest))
               /\ Elements(c) \subseteq Elements(q)
               /\ kept = 1 => c # << >> /\ Head(c) = Head(q)
               /\ (kept = 0 /\ q # << >> /\ Head(q).kind = "DocumentUpdate") =>
                     c # << >> /\ Head(c) = Head(q)
<1>  DEFINE rest == SubSeq(q, kept + 1, Len(q))
            D == Documents(rest)
            c == SubSeq(q, 1, kept) \o D
<1>  SUFFICES /\ c \in Seq(Waiting) /\ rest \in Seq(Waiting)
              /\ Documents(c) = Documents(q)
              /\ Len(Broadcasts(c)) = kept
              /\ Len(Broadcasts(q)) = kept + Len(Broadcasts(rest))
              /\ Elements(c) \subseteq Elements(q)
              /\ kept = 1 => c # << >> /\ Head(c) = Head(q)
              /\ (kept = 0 /\ q # << >> /\ Head(q).kind = "DocumentUpdate") =>
                    c # << >> /\ Head(c) = Head(q)
    OBVIOUS
<1>1. rest \in Seq(Waiting) /\ Elements(rest) \subseteq Elements(q)
  <2>1. kept + 1 \in 1 .. Len(q) + 1 /\ Len(q) \in 0 .. Len(q)
      OBVIOUS
  <2>  QED  BY <2>1, ElementsOfParts
<1>2. /\ D \in Seq(Waiting) /\ Broadcasts(rest) \in Seq(Waiting)
      /\ Elements(D) \subseteq Elements(rest)
      /\ Documents(D) = D /\ Broadcasts(D) = << >>
  <2>1. D \in Seq(Waiting) /\ Broadcasts(rest) \in Seq(Waiting)
      BY <1>1, LengthsAddUp
  <2>2. Elements(D) \subseteq Elements(rest)
      BY <1>1, ElementsOfKind DEF Documents
  <2>  DEFINE K == {m \in Waiting : m.kind = "DocumentUpdate"}
  <2>3. D \in Seq(K)
      BY <1>1, OfKindOnlyThat DEF Documents
  <2>4. /\ \A m \in K : m.kind = "DocumentUpdate"
        /\ \A m \in K : m.kind # "AwarenessBroadcast"
      OBVIOUS
  <2>  HIDE DEF K, D
  <2>5. Documents(D) = D
      BY <2>3, <2>4, OfKindStays DEF Documents
  <2>6. Broadcasts(D) = << >>
      BY <2>3, <2>4, OfKindGone DEF Broadcasts
  <2>  QED  BY <2>1, <2>2, <2>5, <2>6
<1>3. CASE kept = 0
  <2>1. rest = q /\ c = D
    <3>1. SubSeq(q, 1, 0) = << >> /\ SubSeq(q, 1, Len(q)) = q
        BY Splits
    <3>2. << >> \o D = D
      <4>  HIDE DEF D
      <4>  QED  BY <1>2, Splits
    <3>3. rest = q
        BY <1>3, <3>1
    <3>4. SubSeq(q, 1, kept) = << >>
        BY <1>3, <3>1
    <3>  HIDE DEF D
    <3>  QED  BY <3>2, <3>3, <3>4, Zenon
  <2>2. (q # << >> /\ Head(q).kind = "DocumentUpdate") =>
           D # << >> /\ Head(D) = Head(q)
    <3>  SUFFICES ASSUME q # << >>, Head(q).kind = "DocumentUpdate"
                  PROVE  D # << >> /\ Head(D) = Head(q)
        OBVIOUS
    <3>  DEFINE T == Documents(Tail(q))
    <3>1. Documents(q) = << Head(q) >> \o T
        BY OfKindOfFront DEF Documents
    <3>2. T \in Seq(Waiting) /\ Head(q) \in Waiting
      <4>1. Tail(q) \in Seq(Waiting) /\ Head(q) \in Waiting
          OBVIOUS
      <4>  QED  BY <4>1, LengthsAddUp
    <3>  HIDE DEF T
    <3>3. << Head(q) >> \o T # << >> /\ Head(<< Head(q) >> \o T) = Head(q)
        BY <3>2
    <3>4. D = << Head(q) >> \o T
        BY <2>1, <3>1
    <3>  HIDE DEF D
    <3>  QED  BY <3>3, <3>4, Zenon
  <2>  HIDE DEF D
  <2>3. D \in Seq(Waiting) /\ Documents(D) = Documents(q)
        /\ Len(Broadcasts(D)) = 0 /\ Elements(D) \subseteq Elements(q)
      BY <1>2, <2>1 DEF D
  <2>  HIDE DEF rest
  <2>4. Len(Broadcasts(q)) = 0 + Len(Broadcasts(rest))
    <3>1. Len(Broadcasts(rest)) \in Nat
        BY <1>2
    <3>  QED  BY <2>1, <3>1
  <2>  HIDE DEF c
  <2>  QED  BY <1>1, <1>3, <2>1, <2>2, <2>3, <2>4
<1>4. CASE kept = 1
  <2>  DEFINE front == << Head(q) >>
  <2>1. /\ Head(q) \in Waiting /\ front \in Seq(Waiting)
        /\ SubSeq(q, 1, 1) = front /\ q = front \o rest
    <3>1. rest = SubSeq(q, 2, Len(q))
        BY <1>4
    <3>  HIDE DEF rest
    <3>  QED  BY <1>4, <3>1, Splits
  <2>2. Documents(front) = << >> /\ Broadcasts(front) = front
    <3>  DEFINE K == {Head(q)}
    <3>1. front \in Seq(K) /\ \A m \in K : m.kind = "AwarenessBroadcast"
        BY <1>4
    <3>2. \A m \in K : m.kind # "DocumentUpdate"
        BY <1>4
    <3>  HIDE DEF K, front
    <3>  QED  BY <3>1, <3>2, OfKindStays, OfKindGone DEF Documents, Broadcasts
  <2>3. Elements(front) = {Head(q)} /\ Elements(front) \subseteq Elements(q)
    <3>1. Elements(q) = {Head(q)} \union Elements(Tail(q))
        BY <1>4, ElementsOfFront
    <3>  QED  BY <3>1, ElementsOfFew
  <2>4. c = front \o D
      BY <1>4, <2>1
  <2>5. Len(front) = 1 /\ front # << >> /\ Head(front) = Head(q)
      OBVIOUS
  <2>  HIDE DEF front, D, rest
  <2>6. /\ Documents(front \o D) = Documents(front) \o Documents(D)
        /\ Broadcasts(front \o D) = Broadcasts(front) \o Broadcasts(D)
        /\ Documents(front \o rest) = Documents(front) \o D
        /\ Broadcasts(front \o rest) = Broadcasts(front) \o Broadcasts(rest)
    <3>1. ASSUME NEW u \in Seq(Waiting), NEW v \in Seq(Waiting)
          PROVE  /\ Documents(u \o v) = Documents(u) \o Documents(v)
                 /\ Broadcasts(u \o v) = Broadcasts(u) \o Broadcasts(v)
      <4>1. OfKind(u \o v, "DocumentUpdate") =
               OfKind(u, "DocumentUpdate") \o OfKind(v, "DocumentUpdate")
          BY OfKindOfBoth
      <4>2. OfKind(u \o v, "AwarenessBroadcast") =
               OfKind(u, "AwarenessBroadcast") \o OfKind(v, "AwarenessBroadcast")
          BY OfKindOfBoth
      <4>  QED  BY <4>1, <4>2, Zenon DEF Documents, Broadcasts
    <3>  QED  BY <1>1, <1>2, <2>1, <3>1 DEF D
  <2>7. /\ front \o D \in Seq(Waiting)
        /\ front \o D # << >> /\ Head(front \o D) = Head(q)
        /\ front \o << >> = front /\ << >> \o D = D
        /\ Len(front \o Broadcasts(rest)) = 1 + Len(Broadcasts(rest))
    <3>1. /\ front \o D \in Seq(Waiting)
          /\ front \o D # << >> /\ Head(front \o D) = Head(q)
        BY <1>2, <2>1, Joins DEF front
    <3>2. Len(front \o Broadcasts(rest)) = 1 + Len(Broadcasts(rest))
        BY <1>2, <2>1, Joins DEF front
    <3>  QED  BY <1>2, <2>1, <3>1, <3>2, Splits
  <2>8. Elements(front \o D) \subseteq Elements(q)
      BY <1>1, <1>2, <2>1, <2>3, ElementsOfBoth
  <2>9. Documents(front \o D) = Documents(q)
      BY <1>2, <2>1, <2>2, <2>6, <2>7, Zenon
  <2>10. Len(Broadcasts(front \o D)) = 1
      BY <1>2, <2>2, <2>5, <2>6, <2>7, Zenon
  <2>11. Len(Broadcasts(q)) = 1 + Len(Broadcasts(rest))
      BY <2>1, <2>2, <2>6, <2>7, Zenon
  <2>  HIDE DEF c
  <2>  QED  BY <1>1, <1>4, <2>4, <2>7, <2>8, <2>9, <2>10, <2>11
<1>  QED  BY <1>3, <1>4

LEMMA Coalesces ==
    ASSUME NEW o, NEW f, OutboxSane(o, f)
    PROVE  LET c == CoalesceUnleasedAwareness(o)
           IN  /\ OutboxSane(c, f)
               /\ Queued(c) \subseteq Queued(o)
               /\ c.protocol = o.protocol
               /\ Documents(c.ordered) = Documents(o.ordered)
               /\ Len(Broadcasts(c.ordered)) <= 1
<1>  DEFINE kept == IF "AwarenessBroadcast" \in LeasedKinds(o) THEN 1 ELSE 0
            q == o.ordered
            rest == SubSeq(q, kept + 1, Len(q))
            ordered == SubSeq(q, 1, kept) \o Documents(rest)
            c == CoalesceUnleasedAwareness(o)
<1>1. o \in Outboxes /\ Exact(o) /\ LeaseIsFront(o, f)
    BY DEF OutboxSane
<1>2. q \in Seq(Waiting) /\ kept \in {0, 1}
    BY <1>1, OutboxFields
<1>3. kept = 1 => q # << >> /\ Head(q).kind = "AwarenessBroadcast"
    BY <1>1 DEF LeaseIsFront, LeasedKinds
<1>4. kept = 0 => \A lease \in o.active_lease : lease.kind # "AwarenessBroadcast"
    BY DEF LeasedKinds
<1>5. c = [o EXCEPT !.ordered = ordered,
                    !.pending_awareness_bytes = @ - Bytes(Broadcasts(rest))]
    BY DEF CoalesceUnleasedAwareness
<1>  HIDE DEF kept, c
<1>6. /\ ordered \in Seq(Waiting) /\ rest \in Seq(Waiting)
      /\ Documents(ordered) = Documents(q)
      /\ Len(Broadcasts(ordered)) = kept
      /\ Len(Broadcasts(q)) = kept + Len(Broadcasts(rest))
      /\ Elements(ordered) \subseteq Elements(q)
      /\ kept = 1 => ordered # << >> /\ Head(ordered) = Head(q)
      /\ (kept = 0 /\ q # << >> /\ Head(q).kind = "DocumentUpdate") =>
            ordered # << >> /\ Head(ordered) = Head(q)
  <2>  HIDE DEF q
  <2>  QED  BY <1>2, <1>3, CoalescedQueue
<1>7. Bytes(Broadcasts(rest)) = Len(Broadcasts(rest))
  <2>1. Broadcasts(rest) \in Seq(Waiting)
      BY <1>6, LengthsAddUp
  <2>2. \A m \in Waiting : m.bytes = 1
      BY FrameFacts
  <2>  QED  BY <2>1, <2>2, BytesIsLen
<1>  HIDE DEF q, rest, ordered
<1>8. o.pending_awareness_bytes - Bytes(Broadcasts(rest)) = kept
  <2>1. o.pending_awareness_bytes = Len(Broadcasts(q))
      BY <1>1 DEF Exact, q
  <2>2. Len(Broadcasts(rest)) \in Nat
      BY <1>6, LengthsAddUp
  <2>  QED  BY <1>2, <1>6, <1>7, <2>1, <2>2
<1>9. /\ c \in Outboxes /\ c.ordered = ordered /\ c.protocol = o.protocol
      /\ c.pending_awareness_bytes = kept
      /\ c.pending_bytes = o.pending_bytes
      /\ c.pending_protocol_bytes = o.pending_protocol_bytes
      /\ c.active_lease = o.active_lease /\ c.next_lease_id = o.next_lease_id
  <2>  DEFINE bytes == o.pending_awareness_bytes - Bytes(Broadcasts(rest))
  <2>1. c = [o EXCEPT !.ordered = ordered, !.pending_awareness_bytes = bytes]
      BY <1>5
  <2>2. bytes = kept /\ kept \in Nat
      BY <1>2, <1>8
  <2>  HIDE DEF bytes
  <2>  QED  BY <1>1, <1>6, <2>1, <2>2 DEF Outboxes
<1>10. Exact(c)
    BY <1>1, <1>6, <1>9 DEF Exact, q
<1>11. LeaseIsFront(c, f)
  <2>1. CASE f = {} /\ o.active_lease = {} /\ o.next_lease_id = {1}
      BY <2>1, <1>9 DEF LeaseIsFront
  <2>2. CASE \E lease \in o.active_lease :
                /\ o.active_lease = {lease}
                /\ IF lease.kind = "ProtocolReply"
                     THEN o.protocol # << >> /\ f = {Head(o.protocol)}
                     ELSE /\ o.ordered # << >> /\ f = {Head(o.ordered)}
                          /\ Head(o.ordered).kind = lease.kind
    <3>1. PICK lease \in o.active_lease :
              /\ o.active_lease = {lease}
              /\ IF lease.kind = "ProtocolReply"
                   THEN o.protocol # << >> /\ f = {Head(o.protocol)}
                   ELSE /\ o.ordered # << >> /\ f = {Head(o.ordered)}
                        /\ Head(o.ordered).kind = lease.kind
        BY <2>2
    <3>2. CASE lease.kind = "ProtocolReply"
        BY <3>1, <3>2, <1>9 DEF LeaseIsFront
    <3>3. CASE lease.kind # "ProtocolReply"
      <4>1. q # << >> /\ f = {Head(q)} /\ Head(q).kind = lease.kind
          BY <3>1, <3>3 DEF q
      <4>2. Head(q) \in Waiting
          BY <1>2, <4>1
      <4>3. ordered # << >> /\ Head(ordered) = Head(q)
          BY <1>2, <1>4, <1>6, <4>1, <4>2, <3>1, FrameFacts
      <4>  QED  BY <3>1, <3>3, <4>1, <4>3, <1>9 DEF LeaseIsFront
    <3>  QED  BY <3>2, <3>3
  <2>  QED  BY <1>1, <2>1, <2>2 DEF LeaseIsFront
<1>12. Queued(c) \subseteq Queued(o)
    BY <1>6, <1>9 DEF Queued, q
<1>13. Len(Broadcasts(ordered)) <= 1
    BY <1>2, <1>6
<1>14. OutboxSane(c, f)
    BY <1>9, <1>10, <1>11 DEF OutboxSane
<1>  QED  BY <1>6, <1>9, <1>12, <1>13, <1>14 DEF c, q

(* Messages at the end of a queue leave its front.                         *)
LEMMA FrontStays ==
    ASSUME NEW M, NEW q \in Seq(M), NEW u \in Seq(M), q # << >>
    PROVE  q \o u # << >> /\ Head(q \o u) = Head(q)
    OBVIOUS

LEMMA LeaseStays ==
    ASSUME NEW o, NEW f, NEW c, LeaseIsFront(o, f),
           c.active_lease = o.active_lease, c.next_lease_id = o.next_lease_id,
           o.protocol # << >> =>
              c.protocol # << >> /\ Head(c.protocol) = Head(o.protocol),
           o.ordered # << >> =>
              c.ordered # << >> /\ Head(c.ordered) = Head(o.ordered)
    PROVE  LeaseIsFront(c, f)
    BY Zenon DEF LeaseIsFront

LEMMA InstallsFrame ==
    ASSUME NEW o, NEW f, OutboxSane(o, f), NEW m \in Waiting
    PROVE  LET c == Install(o, m.kind, << m >>)
           IN  /\ OutboxSane(c, f)
               /\ Queued(c) = Queued(o) \union {m}
               /\ c.protocol = o.protocol
               /\ Len(Documents(c.ordered)) = Len(Documents(o.ordered))
                     + (IF m.kind = "DocumentUpdate" THEN 1 ELSE 0)
               /\ Len(Broadcasts(c.ordered)) = Len(Broadcasts(o.ordered))
                     + (IF m.kind = "AwarenessBroadcast" THEN 1 ELSE 0)
<1>  DEFINE c == Install(o, m.kind, << m >>)
            q == o.ordered
            u == Append(q, m)
<1>1. o \in Outboxes /\ Exact(o) /\ LeaseIsFront(o, f)
    BY DEF OutboxSane
<1>2. q \in Seq(Waiting) /\ u \in Seq(Waiting) /\ q \o << m >> = u
    BY <1>1, OutboxFields
<1>3. /\ Documents(u) = KeepIf(Documents(q), m, "DocumentUpdate")
      /\ Broadcasts(u) = KeepIf(Broadcasts(q), m, "AwarenessBroadcast")
      /\ Documents(q) \in Seq(Waiting) /\ Broadcasts(q) \in Seq(Waiting)
    BY <1>2, OfKindOfMore, LengthsAddUp DEF Documents, Broadcasts
<1>4. /\ Len(Documents(u)) = Len(Documents(q))
            + (IF m.kind = "DocumentUpdate" THEN 1 ELSE 0)
      /\ Len(Broadcasts(u)) = Len(Broadcasts(q))
            + (IF m.kind = "AwarenessBroadcast" THEN 1 ELSE 0)
    BY <1>3 DEF KeepIf
<1>5. Bytes(<< m >>) = 1
  <2>1. << m >> \in Seq(Waiting) /\ Len(<< m >>) = 1
      OBVIOUS
  <2>2. \A x \in Waiting : x.bytes = 1
      BY FrameFacts
  <2>  QED  BY <2>1, <2>2, BytesIsLen
<1>6. m.kind = "DocumentUpdate" \/ m.kind = "AwarenessBroadcast"
    BY FrameFacts
<1>7. Elements(u) = Elements(q) \union {m}
  <2>1. << m >> \in Seq(Waiting)
      OBVIOUS
  <2>  HIDE DEF u
  <2>2. Elements(q \o << m >>) = Elements(q) \union Elements(<< m >>)
      BY <1>2, <2>1, ElementsOfBoth
  <2>  QED  BY <1>2, <2>2, ElementsOfFew, Zenon
<1>8. q # << >> => u # << >> /\ Head(u) = Head(q)
    BY <1>2
<1>9. c = [o EXCEPT
             !.ordered = u,
             !.pending_bytes =
                 IF m.kind = "DocumentUpdate" THEN @ + 1 ELSE @,
             !.pending_awareness_bytes =
                 IF m.kind = "AwarenessBroadcast" THEN @ + 1 ELSE @]
  <2>  HIDE DEF u
  <2>1. o = [o EXCEPT !.ordered = o.ordered]
      BY <1>1 DEF Outboxes
  <2>2. Enqueue(o, m.kind, << m >>) = [o EXCEPT !.ordered = u]
      BY <1>2, <1>6 DEF Enqueue, q
  <2>3. Grow([o EXCEPT !.ordered = u], m.kind, 1) =
           [o EXCEPT
              !.ordered = u,
              !.pending_bytes =
                  IF m.kind = "DocumentUpdate" THEN @ + 1 ELSE @,
              !.pending_awareness_bytes =
                  IF m.kind = "AwarenessBroadcast" THEN @ + 1 ELSE @]
      BY <1>1, <1>6 DEF Grow, Outboxes
  <2>  QED  BY <1>5, <2>2, <2>3, Zenon DEF Install
<1>  HIDE DEF q, u, c
<1>10. /\ c \in Outboxes /\ c.ordered = u /\ c.protocol = o.protocol
       /\ c.pending_bytes =
             o.pending_bytes + (IF m.kind = "DocumentUpdate" THEN 1 ELSE 0)
       /\ c.pending_awareness_bytes =
             o.pending_awareness_bytes
                 + (IF m.kind = "AwarenessBroadcast" THEN 1 ELSE 0)
       /\ c.pending_protocol_bytes = o.pending_protocol_bytes
       /\ c.active_lease = o.active_lease /\ c.next_lease_id = o.next_lease_id
  <2>  DEFINE documents == o.pending_bytes
                             + (IF m.kind = "DocumentUpdate" THEN 1 ELSE 0)
              broadcasts == o.pending_awareness_bytes
                              + (IF m.kind = "AwarenessBroadcast" THEN 1 ELSE 0)
  <2>1. documents \in Nat /\ broadcasts \in Nat
      BY <1>1, OutboxFields
  <2>2. /\ documents = IF m.kind = "DocumentUpdate" THEN o.pending_bytes + 1
                                                    ELSE o.pending_bytes
        /\ broadcasts = IF m.kind = "AwarenessBroadcast"
                          THEN o.pending_awareness_bytes + 1
                          ELSE o.pending_awareness_bytes
      BY <1>1, OutboxFields
  <2>  HIDE DEF documents, broadcasts
  <2>3. c = [o EXCEPT !.ordered = u, !.pending_bytes = documents,
                      !.pending_awareness_bytes = broadcasts]
      BY <1>9, <2>2
  <2>4. /\ c \in Outboxes /\ c.ordered = u /\ c.protocol = o.protocol
        /\ c.pending_bytes = documents /\ c.pending_awareness_bytes = broadcasts
        /\ c.pending_protocol_bytes = o.pending_protocol_bytes
        /\ c.active_lease = o.active_lease /\ c.next_lease_id = o.next_lease_id
      BY <1>1, <1>2, <2>1, <2>3 DEF Outboxes
  <2>  QED  BY <2>4 DEF documents, broadcasts
<1>11. Exact(c)
    BY <1>1, <1>4, <1>10 DEF Exact, q
<1>12. LeaseIsFront(c, f)
    BY <1>1, <1>8, <1>10, LeaseStays DEF q
<1>13. Queued(c) = Queued(o) \union {m}
    BY <1>7, <1>10 DEF Queued, q
<1>14. OutboxSane(c, f)
    BY <1>10, <1>11, <1>12 DEF OutboxSane
<1>  QED  BY <1>4, <1>10, <1>13, <1>14 DEF c, q

(* The outbox is left as it was, with the replies behind the others.       *)
Appended(o, c, replies) ==
    /\ Queued(c) = Queued(o) \union Elements(replies)
    /\ c.ordered = o.ordered
    /\ Len(c.protocol) = Len(o.protocol) + Len(replies)

LEMMA InstallsReplies ==
    ASSUME NEW o, NEW f, OutboxSane(o, f), NEW replies \in Seq(Answering)
    PROVE  /\ OutboxSane(Install(o, "ProtocolReply", replies), f)
           /\ Appended(o, Install(o, "ProtocolReply", replies), replies)
<1>  DEFINE c == Install(o, "ProtocolReply", replies)
            q == o.protocol
            u == q \o replies
<1>1. o \in Outboxes /\ Exact(o) /\ LeaseIsFront(o, f)
    BY DEF OutboxSane
<1>2. /\ q \in Seq(Answering) /\ u \in Seq(Answering)
      /\ Len(u) = Len(q) + Len(replies) /\ Len(replies) \in Nat
    BY <1>1, OutboxFields
<1>3. Bytes(replies) = Len(replies)
  <2>1. \A x \in Answering : x.bytes = 1
      BY FrameFacts
  <2>  QED  BY <2>1, BytesIsLen
<1>4. Elements(u) = Elements(q) \union Elements(replies)
  <2>  HIDE DEF q
  <2>  QED  BY <1>2, ElementsOfBoth
<1>5. q # << >> => u # << >> /\ Head(u) = Head(q)
  <2>  HIDE DEF q
  <2>  QED  BY <1>2, FrontStays
<1>6. c = [o EXCEPT !.protocol = u, !.pending_protocol_bytes = @ + Len(replies)]
  <2>  HIDE DEF u
  <2>1. Enqueue(o, "ProtocolReply", replies) = [o EXCEPT !.protocol = u]
      BY <1>1 DEF Enqueue, q, u, Outboxes
  <2>2. \A n : Grow([o EXCEPT !.protocol = u], "ProtocolReply", n) =
           [o EXCEPT !.protocol = u, !.pending_protocol_bytes = @ + n]
      BY <1>1 DEF Grow, Outboxes
  <2>  QED  BY <1>3, <2>1, <2>2, Zenon DEF Install
<1>  HIDE DEF q, u, c
<1>7. /\ c \in Outboxes /\ c.ordered = o.ordered /\ c.protocol = u
      /\ c.pending_bytes = o.pending_bytes
      /\ c.pending_awareness_bytes = o.pending_awareness_bytes
      /\ c.pending_protocol_bytes = o.pending_protocol_bytes + Len(replies)
      /\ c.active_lease = o.active_lease /\ c.next_lease_id = o.next_lease_id
  <2>  DEFINE bytes == o.pending_protocol_bytes + Len(replies)
  <2>1. bytes \in Nat
      BY <1>1, <1>2, OutboxFields
  <2>2. c = [o EXCEPT !.protocol = u, !.pending_protocol_bytes = bytes]
      BY <1>6
  <2>  HIDE DEF bytes
  <2>3. /\ c \in Outboxes /\ c.ordered = o.ordered /\ c.protocol = u
        /\ c.pending_bytes = o.pending_bytes
        /\ c.pending_awareness_bytes = o.pending_awareness_bytes
        /\ c.pending_protocol_bytes = bytes
        /\ c.active_lease = o.active_lease /\ c.next_lease_id = o.next_lease_id
      BY <1>1, <1>2, <2>1, <2>2 DEF Outboxes
  <2>  QED  BY <2>3 DEF bytes
<1>8. Exact(c)
    BY <1>1, <1>2, <1>7 DEF Exact, q
<1>9. LeaseIsFront(c, f)
    BY <1>1, <1>5, <1>7, LeaseStays DEF q
<1>10. Queued(c) = Queued(o) \union Elements(replies)
    BY <1>4, <1>7 DEF Queued, q
<1>11. OutboxSane(c, f)
    BY <1>7, <1>8, <1>9 DEF OutboxSane
<1>12. Appended(o, c, replies)
    BY <1>2, <1>7, <1>10 DEF Appended, q
<1>  QED  BY <1>11, <1>12, Zenon DEF c

LEMMA OrderedFront ==
    ASSUME NEW q \in Seq(Waiting), q # << >>
    PROVE  /\ Head(q) \in Waiting /\ Tail(q) \in Seq(Waiting)
           /\ Len(Documents(q)) = Len(Documents(Tail(q)))
                 + (IF Head(q).kind = "DocumentUpdate" THEN 1 ELSE 0)
           /\ Len(Broadcasts(q)) = Len(Broadcasts(Tail(q)))
                 + (IF Head(q).kind = "AwarenessBroadcast" THEN 1 ELSE 0)
           /\ Len(Documents(Tail(q))) \in Nat /\ Len(Broadcasts(Tail(q))) \in Nat
<1>  DEFINE rest == Tail(q)
            m == Head(q)
<1>1. m \in Waiting /\ rest \in Seq(Waiting)
    OBVIOUS
<1>2. Documents(rest) \in Seq(Waiting) /\ Broadcasts(rest) \in Seq(Waiting)
  <2>  HIDE DEF rest
  <2>  QED  BY <1>1, LengthsAddUp
<1>3. Documents(q) = IF m.kind = "DocumentUpdate"
                       THEN << m >> \o Documents(rest) ELSE Documents(rest)
    BY OfKindOfFront DEF Documents
<1>4. Broadcasts(q) = IF m.kind = "AwarenessBroadcast"
                        THEN << m >> \o Broadcasts(rest) ELSE Broadcasts(rest)
    BY OfKindOfFront DEF Broadcasts
<1>  HIDE DEF rest, m
<1>5. /\ Len(<< m >> \o Documents(rest)) = 1 + Len(Documents(rest))
      /\ Len(<< m >> \o Broadcasts(rest)) = 1 + Len(Broadcasts(rest))
      /\ Len(Documents(rest)) \in Nat /\ Len(Broadcasts(rest)) \in Nat
    BY <1>1, <1>2, Joins
<1>6. Len(Documents(q)) = Len(Documents(rest))
         + (IF m.kind = "DocumentUpdate" THEN 1 ELSE 0)
    BY <1>3, <1>5
<1>7. Len(Broadcasts(q)) = Len(Broadcasts(rest))
         + (IF m.kind = "AwarenessBroadcast" THEN 1 ELSE 0)
    BY <1>4, <1>5
<1>  QED  BY <1>1, <1>5, <1>6, <1>7 DEF rest, m

LEMMA ActiveLease ==
    ASSUME NEW o, NEW f, LeaseIsFront(o, f), f # {}
    PROVE  \E lease \in o.active_lease :
              /\ o.active_lease = {lease}
              /\ (CHOOSE l \in o.active_lease : TRUE) = lease
              /\ IF lease.kind = "ProtocolReply"
                   THEN o.protocol # << >> /\ f = {Head(o.protocol)}
                   ELSE /\ o.ordered # << >> /\ f = {Head(o.ordered)}
                        /\ Head(o.ordered).kind = lease.kind
<1>1. PICK lease \in o.active_lease :
         /\ o.active_lease = {lease}
         /\ IF lease.kind = "ProtocolReply"
              THEN o.protocol # << >> /\ f = {Head(o.protocol)}
              ELSE /\ o.ordered # << >> /\ f = {Head(o.ordered)}
                   /\ Head(o.ordered).kind = lease.kind
    BY DEF LeaseIsFront
<1>2. (CHOOSE l \in o.active_lease : TRUE) = lease
    BY <1>1
<1>  QED  BY <1>1, <1>2

Popped(o, f, c) ==
    /\ OutboxSane(c, {})
    /\ \E m \in Frames : f = {m} /\ Queued(o) = Queued(c) \union {m}
    /\ Len(Documents(c.ordered)) <= Len(Documents(o.ordered))
    /\ Len(Broadcasts(c.ordered)) <= Len(Broadcasts(o.ordered))
    /\ Len(c.protocol) <= Len(o.protocol)

LEMMA PopsReply ==
    ASSUME NEW o, NEW f, OutboxSane(o, f), o.protocol # << >>,
           f = {Head(o.protocol)}, NEW c,
           c = [o EXCEPT !.protocol = Tail(@),
                         !.pending_protocol_bytes = @ - 1,
                         !.active_lease = {},
                         !.next_lease_id = {1}]
    PROVE  Popped(o, f, c)
<1>  DEFINE q == o.protocol
            rest == Tail(q)
            m == Head(q)
            bytes == o.pending_protocol_bytes - 1
<1>1. o \in Outboxes /\ Exact(o) /\ q \in Seq(Answering)
    BY OutboxFields DEF OutboxSane
<1>2. rest \in Seq(Answering) /\ m \in Answering /\ Len(rest) = Len(q) - 1
      /\ Len(rest) \in Nat
    BY <1>1
<1>3. bytes = Len(rest) /\ bytes \in Nat
    BY <1>1, <1>2 DEF Exact
<1>4. Elements(q) = {m} \union Elements(rest)
    BY <1>1, ElementsOfFront
<1>5. f = {m} /\ c = [o EXCEPT !.protocol = rest,
                                !.pending_protocol_bytes = bytes,
                                !.active_lease = {},
                                !.next_lease_id = {1}]
    OBVIOUS
<1>  HIDE DEF rest, m, bytes, q
<1>6. /\ c \in Outboxes /\ c.ordered = o.ordered /\ c.protocol = rest
      /\ c.pending_bytes = o.pending_bytes
      /\ c.pending_awareness_bytes = o.pending_awareness_bytes
      /\ c.pending_protocol_bytes = bytes
      /\ c.active_lease = {} /\ c.next_lease_id = {1}
  <2>1. {} \in SUBSET [id : {1}, kind : Kinds] /\ {1} \in SUBSET Nat
      OBVIOUS
  <2>  QED  BY <1>1, <1>2, <1>3, <1>5, <2>1 DEF Outboxes
<1>7. OutboxSane(c, {})
    BY <1>1, <1>3, <1>6 DEF OutboxSane, Exact, LeaseIsFront
<1>8. Queued(o) = Queued(c) \union {m}
    BY <1>4, <1>6 DEF Queued, q
<1>9. m \in Frames
    BY <1>2, FrameFacts
<1>10. /\ Len(Documents(o.ordered)) \in Nat /\ Len(Broadcasts(o.ordered)) \in Nat
  <2>1. o.ordered \in Seq(Waiting)
      BY <1>1, OutboxFields
  <2>2. Documents(o.ordered) \in Seq(Waiting) /\ Broadcasts(o.ordered) \in Seq(Waiting)
      BY <2>1, LengthsAddUp
  <2>  QED  BY <2>2
<1>11. \E x \in Frames : f = {x} /\ Queued(o) = Queued(c) \union {x}
    BY <1>5, <1>8, <1>9
<1>12. Len(c.protocol) <= Len(o.protocol)
    BY <1>2, <1>6 DEF q
<1>13. /\ Len(Documents(c.ordered)) <= Len(Documents(o.ordered))
       /\ Len(Broadcasts(c.ordered)) <= Len(Broadcasts(o.ordered))
  <2>  DEFINE d == Len(Documents(o.ordered))
              b == Len(Broadcasts(o.ordered))
  <2>1. Len(Documents(c.ordered)) = d /\ Len(Broadcasts(c.ordered)) = b
      BY <1>6, Zenon
  <2>2. d \in Nat /\ b \in Nat
      BY <1>10
  <2>  HIDE DEF d, b
  <2>3. d <= d /\ b <= b
      BY <2>2
  <2>  QED  BY <2>1, <2>3 DEF d, b
<1>  QED  BY <1>7, <1>11, <1>12, <1>13, Zenon DEF Popped

LEMMA PopsOrdered ==
    ASSUME NEW o, NEW f, OutboxSane(o, f), o.ordered # << >>,
           f = {Head(o.ordered)}, NEW c,
           c = [o EXCEPT !.ordered = Tail(@),
                         !.pending_bytes =
                             IF Head(o.ordered).kind = "DocumentUpdate"
                               THEN @ - 1 ELSE @,
                         !.pending_awareness_bytes =
                             IF Head(o.ordered).kind = "AwarenessBroadcast"
                               THEN @ - 1 ELSE @,
                         !.active_lease = {},
                         !.next_lease_id = {1}]
    PROVE  Popped(o, f, c)
<1>  DEFINE q == o.ordered
            rest == Tail(q)
            m == Head(q)
            documents == IF m.kind = "DocumentUpdate" THEN o.pending_bytes - 1
                                                      ELSE o.pending_bytes
            broadcasts == IF m.kind = "AwarenessBroadcast"
                            THEN o.pending_awareness_bytes - 1
                            ELSE o.pending_awareness_bytes
<1>1. o \in Outboxes /\ Exact(o) /\ q \in Seq(Waiting) /\ q # << >>
    BY OutboxFields DEF OutboxSane
<1>2. /\ m \in Waiting /\ rest \in Seq(Waiting)
      /\ Len(Documents(q)) = Len(Documents(rest))
            + (IF m.kind = "DocumentUpdate" THEN 1 ELSE 0)
      /\ Len(Broadcasts(q)) = Len(Broadcasts(rest))
            + (IF m.kind = "AwarenessBroadcast" THEN 1 ELSE 0)
      /\ Len(Documents(rest)) \in Nat /\ Len(Broadcasts(rest)) \in Nat
  <2>  HIDE DEF q
  <2>  QED  BY <1>1, OrderedFront
<1>3. Elements(q) = {m} \union Elements(rest)
    BY <1>1, ElementsOfFront
<1>4. /\ o.pending_bytes = Len(Documents(q))
      /\ o.pending_awareness_bytes = Len(Broadcasts(q))
    BY <1>1 DEF Exact
<1>5. f = {m} /\ c = [o EXCEPT !.ordered = rest,
                                !.pending_bytes = documents,
                                !.pending_awareness_bytes = broadcasts,
                                !.active_lease = {},
                                !.next_lease_id = {1}]
    BY <1>1 DEF Outboxes
<1>  HIDE DEF rest, m
<1>6. documents = Len(Documents(rest)) /\ broadcasts = Len(Broadcasts(rest))
    BY <1>2, <1>4
<1>  HIDE DEF documents, broadcasts, q
<1>7. /\ c \in Outboxes /\ c.ordered = rest /\ c.protocol = o.protocol
      /\ c.pending_bytes = documents
      /\ c.pending_awareness_bytes = broadcasts
      /\ c.pending_protocol_bytes = o.pending_protocol_bytes
      /\ c.active_lease = {} /\ c.next_lease_id = {1}
  <2>1. {} \in SUBSET [id : {1}, kind : Kinds] /\ {1} \in SUBSET Nat
      OBVIOUS
  <2>  QED  BY <1>1, <1>2, <1>5, <1>6, <2>1 DEF Outboxes
<1>8. OutboxSane(c, {})
    BY <1>1, <1>6, <1>7 DEF OutboxSane, Exact, LeaseIsFront
<1>9. Queued(o) = Queued(c) \union {m}
    BY <1>3, <1>7 DEF Queued, q
<1>10. m \in Frames
    BY <1>2, FrameFacts
<1>11. \E x \in Frames : f = {x} /\ Queued(o) = Queued(c) \union {x}
    BY <1>5, <1>9, <1>10
<1>12. Len(c.protocol) <= Len(o.protocol)
    BY <1>1, <1>7, OutboxFields
<1>13. /\ Len(Documents(c.ordered)) <= Len(Documents(o.ordered))
       /\ Len(Broadcasts(c.ordered)) <= Len(Broadcasts(o.ordered))
  <2>  DEFINE d == Len(Documents(rest))
              b == Len(Broadcasts(rest))
  <2>1. Len(Documents(c.ordered)) = d /\ Len(Broadcasts(c.ordered)) = b
      BY <1>7, Zenon
  <2>2. /\ Len(Documents(o.ordered)) = d
             + (IF m.kind = "DocumentUpdate" THEN 1 ELSE 0)
        /\ Len(Broadcasts(o.ordered)) = b
             + (IF m.kind = "AwarenessBroadcast" THEN 1 ELSE 0)
        /\ d \in Nat /\ b \in Nat
      BY <1>2 DEF q
  <2>  HIDE DEF d, b
  <2>3. d <= d + (IF m.kind = "DocumentUpdate" THEN 1 ELSE 0)
        /\ b <= b + (IF m.kind = "AwarenessBroadcast" THEN 1 ELSE 0)
      BY <2>2
  <2>  QED  BY <2>1, <2>2, <2>3
<1>  QED  BY <1>8, <1>11, <1>12, <1>13, Zenon DEF Popped

(* An acknowledged message leaves the front of its queue.                  *)
LEMMA Pops ==
    ASSUME NEW o, NEW f, OutboxSane(o, f), f # {}
    PROVE  Popped(o, f, [AckLease(o) EXCEPT !.next_lease_id = {1}])
<1>1. o \in Outboxes /\ LeaseIsFront(o, f)
    BY DEF OutboxSane
<1>2. PICK lease \in o.active_lease :
         /\ o.active_lease = {lease}
         /\ (CHOOSE l \in o.active_lease : TRUE) = lease
         /\ IF lease.kind = "ProtocolReply"
              THEN o.protocol # << >> /\ f = {Head(o.protocol)}
              ELSE /\ o.ordered # << >> /\ f = {Head(o.ordered)}
                   /\ Head(o.ordered).kind = lease.kind
    BY <1>1, ActiveLease
<1>  DEFINE c == [AckLease(o) EXCEPT !.next_lease_id = {1}]
            kind == lease.kind
            bytes == -LeaseFront(o, kind).bytes
<1>3. AckLease(o) = ReleaseLease(Grow(PopFront(o, kind), kind, bytes))
    BY <1>2, Zenon DEF AckLease
<1>4. CASE kind = "ProtocolReply"
  <2>1. Head(o.protocol) \in Answering
      BY <1>1, <1>2, <1>4, OutboxFields
  <2>2. bytes = -1
      BY <1>4, <2>1, FrameFacts DEF LeaseFront
  <2>  HIDE DEF bytes
  <2>3. PopFront(o, kind) = [o EXCEPT !.protocol = Tail(@)]
      BY <1>4 DEF PopFront
  <2>4. c = [o EXCEPT !.protocol = Tail(@),
                      !.pending_protocol_bytes = @ - 1,
                      !.active_lease = {},
                      !.next_lease_id = {1}]
    <3>  DEFINE p == [o EXCEPT !.protocol = Tail(@)]
    <3>1. p = [o EXCEPT !.protocol = Tail(@)] /\ DOMAIN p = DOMAIN o
        OBVIOUS
    <3>2. AckLease(o) = ReleaseLease(Grow(p, "ProtocolReply", -1))
        BY <1>3, <1>4, <2>2, <2>3
    <3>  HIDE DEF p
    <3>3. Grow(p, "ProtocolReply", -1) = [p EXCEPT !.pending_protocol_bytes = @ - 1]
        BY <1>1, <3>1 DEF Grow, Outboxes
    <3>4. c = [p EXCEPT !.pending_protocol_bytes = @ - 1,
                        !.active_lease = {}, !.next_lease_id = {1}]
        BY <1>1, <3>1, <3>2, <3>3 DEF ReleaseLease, Outboxes
    <3>  HIDE DEF c
    <3>  QED  BY <1>1, <3>1, <3>4 DEF Outboxes
  <2>  HIDE DEF c
  <2>  QED  BY <1>2, <1>4, <2>4, PopsReply DEF c
<1>5. CASE kind # "ProtocolReply"
  <2>1. Head(o.ordered) \in Waiting
      BY <1>1, <1>2, <1>5, OutboxFields
  <2>2. bytes = -1
      BY <1>5, <2>1, FrameFacts DEF LeaseFront
  <2>  HIDE DEF bytes
  <2>3. PopFront(o, kind) = [o EXCEPT !.ordered = Tail(@)]
      BY <1>5 DEF PopFront
  <2>4. c = [o EXCEPT !.ordered = Tail(@),
                      !.pending_bytes =
                          IF Head(o.ordered).kind = "DocumentUpdate"
                            THEN @ - 1 ELSE @,
                      !.pending_awareness_bytes =
                          IF Head(o.ordered).kind = "AwarenessBroadcast"
                            THEN @ - 1 ELSE @,
                      !.active_lease = {},
                      !.next_lease_id = {1}]
    <3>  DEFINE p == [o EXCEPT !.ordered = Tail(@)]
    <3>1. p = [o EXCEPT !.ordered = Tail(@)] /\ DOMAIN p = DOMAIN o
        OBVIOUS
    <3>2. AckLease(o) = ReleaseLease(Grow(p, kind, -1))
        BY <1>3, <2>2, <2>3
    <3>3. Head(o.ordered).kind = kind
        BY <1>2, <1>5
    <3>  HIDE DEF p, kind
    <3>4. Grow(p, kind, -1) =
             [p EXCEPT !.pending_bytes =
                           IF kind = "DocumentUpdate" THEN @ - 1 ELSE @,
                       !.pending_awareness_bytes =
                           IF kind = "AwarenessBroadcast" THEN @ - 1 ELSE @]
        BY <1>1, <1>5, <3>1 DEF Grow, Outboxes
    <3>5. c = [p EXCEPT !.pending_bytes =
                            IF kind = "DocumentUpdate" THEN @ - 1 ELSE @,
                        !.pending_awareness_bytes =
                            IF kind = "AwarenessBroadcast" THEN @ - 1 ELSE @,
                        !.active_lease = {}, !.next_lease_id = {1}]
        BY <1>1, <3>1, <3>2, <3>4 DEF ReleaseLease, Outboxes
    <3>  HIDE DEF c
    <3>  QED  BY <1>1, <3>1, <3>3, <3>5 DEF Outboxes
  <2>  HIDE DEF c
  <2>  QED  BY <1>2, <1>5, <2>4, PopsOrdered DEF c
<1>  QED  BY <1>4, <1>5

(* A lease is of the front of its queue; released, it leaves no trace.     *)
LEMMA Leases ==
    ASSUME NEW o, OutboxSane(o, {}), Pending(o) > 0
    PROVE  /\ OutboxSane(LeaseNext(o), {Frame(o)})
           /\ LeaseNext(o).ordered = o.ordered
           /\ LeaseNext(o).protocol = o.protocol
<1>  DEFINE c == LeaseNext(o)
            kind == NextKind(o)
            lease == [id |-> 1, kind |-> kind]
            next == {2} \ {MaxLeaseId + 1}
<1>1. /\ o \in Outboxes /\ Exact(o)
      /\ o.active_lease = {} /\ o.next_lease_id = {1}
    BY DEF OutboxSane, LeaseIsFront
<1>2. /\ o.ordered \in Seq(Waiting) /\ o.protocol \in Seq(Answering)
    BY <1>1, OutboxFields
<1>3. o.protocol = << >> => o.ordered # << >>
    BY <1>2 DEF Pending
<1>4. kind \in Kinds
  <2>1. CASE o.protocol # << >>
      BY <2>1 DEF NextKind, Kinds
  <2>2. CASE o.protocol = << >>
    <3>1. Head(o.ordered) \in Waiting
        BY <1>2, <1>3, <2>2
    <3>  QED  BY <2>2, <3>1, FrameFacts DEF NextKind
  <2>  QED  BY <2>1, <2>2
<1>5. c = [o EXCEPT !.active_lease = {lease}, !.next_lease_id = next]
  <2>1. {[id |-> id, kind |-> kind] : id \in o.next_lease_id} = {lease}
      BY <1>1
  <2>2. {id + 1 : id \in o.next_lease_id} \ {MaxLeaseId + 1} = next
      BY <1>1
  <2>  HIDE DEF lease, next, kind
  <2>  QED  BY <2>1, <2>2, Zenon DEF LeaseNext, kind
<1>6. {lease} \in SUBSET [id : {1}, kind : Kinds] /\ next \in SUBSET Nat
  <2>1. lease \in [id : {1}, kind : Kinds]
    <3>  HIDE DEF kind
    <3>  QED  BY <1>4
  <2>2. next \subseteq Nat
      OBVIOUS
  <2>  QED  BY <2>1, <2>2
<1>  HIDE DEF c, next
<1>7. /\ c \in Outboxes /\ c.ordered = o.ordered /\ c.protocol = o.protocol
      /\ c.pending_bytes = o.pending_bytes
      /\ c.pending_awareness_bytes = o.pending_awareness_bytes
      /\ c.pending_protocol_bytes = o.pending_protocol_bytes
      /\ c.active_lease = {lease}
  <2>  HIDE DEF lease
  <2>  QED  BY <1>1, <1>5, <1>6 DEF Outboxes
<1>8. Exact(c)
    BY <1>1, <1>7 DEF Exact
<1>9. LeaseIsFront(c, {Frame(o)})
  <2>  DEFINE front == Frame(o)
  <2>1. lease.kind = kind
      OBVIOUS
  <2>2. CASE o.protocol # << >>
    <3>1. kind = "ProtocolReply" /\ front = Head(o.protocol)
        BY <2>2 DEF NextKind, LeaseFront, Frame
    <3>  HIDE DEF lease, kind, front
    <3>  QED  BY <1>7, <2>1, <2>2, <3>1, Zenon DEF LeaseIsFront, front
  <2>3. CASE o.protocol = << >>
    <3>1. /\ kind = Head(o.ordered).kind /\ kind # "ProtocolReply"
          /\ front = Head(o.ordered)
      <4>1. Head(o.ordered) \in Waiting
          BY <1>2, <1>3, <2>3
      <4>  QED  BY <2>3, <4>1, FrameFacts DEF NextKind, LeaseFront, Frame
    <3>  HIDE DEF lease, kind, front
    <3>  QED  BY <1>3, <1>7, <2>1, <2>3, <3>1, Zenon DEF LeaseIsFront, front
  <2>  QED  BY <2>2, <2>3
<1>  QED  BY <1>7, <1>8, <1>9 DEF c, OutboxSane

LEMMA Releases ==
    ASSUME NEW o, NEW f, OutboxSane(o, f), NEW c,
           \/ f = {} /\ c = ReleaseLease(o)
           \/ c = [NackLease(o) EXCEPT !.next_lease_id = {1}]
    PROVE  /\ OutboxSane(c, {})
           /\ c.ordered = o.ordered /\ c.protocol = o.protocol
<1>1. o \in Outboxes /\ Exact(o) /\ LeaseIsFront(o, f)
    BY DEF OutboxSane
<1>2. {} \in SUBSET [id : {1}, kind : Kinds] /\ {1} \in SUBSET Nat
    OBVIOUS
<1>3. CASE f = {} /\ c = ReleaseLease(o)
  <2>1. o.active_lease = {} /\ o.next_lease_id = {1}
      BY <1>1, <1>3 DEF LeaseIsFront
  <2>2. c = o
      BY <1>1, <1>3, <2>1 DEF ReleaseLease, Outboxes
  <2>  QED  BY <1>3, <2>2
<1>4. CASE c = [NackLease(o) EXCEPT !.next_lease_id = {1}]
  <2>1. c = [o EXCEPT !.active_lease = {}, !.next_lease_id = {1}]
      BY <1>1, <1>4 DEF NackLease, ReleaseLease, Outboxes
  <2>2. /\ c \in Outboxes /\ c.ordered = o.ordered /\ c.protocol = o.protocol
        /\ c.pending_bytes = o.pending_bytes
        /\ c.pending_awareness_bytes = o.pending_awareness_bytes
        /\ c.pending_protocol_bytes = o.pending_protocol_bytes
        /\ c.active_lease = {} /\ c.next_lease_id = {1}
      BY <1>1, <1>2, <2>1 DEF Outboxes
  <2>3. Exact(c) /\ LeaseIsFront(c, {})
      BY <1>1, <2>2 DEF Exact, LeaseIsFront
  <2>  QED  BY <2>2, <2>3 DEF OutboxSane
<1>  QED  BY <1>3, <1>4

-----------------------------------------------------------------------------
(* Entries                                                                 *)

LEMMA Constants ==
    /\ MaxGeneration \in Nat /\ MaxMillis \in Nat
    /\ MaxMessages \in Nat /\ MaxBytes \in Nat
    /\ RenewalInterval \in Nat \ {0} /\ ExpiryInterval \in Nat \ {0}
    /\ MaxAwarenessClock \in Nat \ {0}
    /\ MaxAwarenessPeers \in Nat /\ MaxAwarenessStates \in Nat
    /\ MaxReplies \in Nat /\ MaxChanges \in Nat /\ MaxEdits \in Nat
    BY TransportBoundsAssumption, OutboxBoundsAssumption, AwarenessAssumption,
       PresenceBoundsAssumption

LEMMA EntryFacts ==
    ASSUME NEW entry \in Sound
    PROVE  /\ entry.clock \in 0 .. MaxAwarenessClock /\ entry.clock \in Nat
           /\ entry.state \in Options(States)
           /\ entry.state # {} => entry.clock < MaxAwarenessClock
           /\ entry = Entry(entry.clock, entry.state)
    BY Constants DEF Sound, Entry

LEMMA EntryIs ==
    ASSUME NEW clock \in 0 .. MaxAwarenessClock, NEW state \in Options(States),
           state # {} => clock < MaxAwarenessClock
    PROVE  /\ Entry(clock, state) \in Sound
           /\ Entry(clock, state).clock = clock
           /\ Entry(clock, state).state = state
    BY DEF Sound, Entry

LEMMA WithinFacts ==
    ASSUME NEW x \in Sound, NEW y \in Sound, Within(x, y)
    PROVE  /\ x.clock <= y.clock
           /\ ~Supersedes(x, y)
           /\ x = y \/ Supersedes(y, x)
           /\ \A z \in Sound : Within(y, z) => Within(x, z)
<1>1. /\ x.clock \in Nat /\ y.clock \in Nat
      /\ \A z \in Sound : z.clock \in Nat
    BY EntryFacts
<1>  QED  BY <1>1 DEF Within, Supersedes

LEMMA QueuedFacts ==
    ASSUME NEW o \in Outboxes
    PROVE  \A m \in Queued(o) :
              m \in Frames /\ m.id \in Options(Sound) /\ m.id \subseteq Sound
<1>1. o.ordered \in Seq(Waiting) /\ o.protocol \in Seq(Answering)
    BY OutboxFields
<1>2. Elements(o.ordered) \subseteq Waiting /\ Elements(o.protocol) \subseteq Answering
    BY <1>1 DEF Elements
<1>3. Queued(o) \subseteq Frames
    BY <1>2, FrameFacts DEF Queued
<1>4. \A x \in Options(Sound) : x \subseteq Sound
    BY DEF Options
<1>  QED  BY <1>3, <1>4, FrameFacts

(* The next entries of the session.                                        *)
LEMMA CodecFields ==
    ASSUME NEW c \in Codecs
    PROVE  c.local \in Sound /\ c.remote \in Functions(Peers, Sound)
    BY DEF Codecs

LEMMA Publishes ==
    ASSUME NEW c \in Codecs, CanPublish(c), NEW state \in States
    PROVE  /\ Publish(c, state) \in Codecs
           /\ Publish(c, state).remote = c.remote
           /\ Publish(c, state).local = Entry(c.local.clock + 1, {state})
           /\ Publish(c, state).local \in Sound
           /\ Publish(c, state).local.clock = c.local.clock + 1
           /\ Publish(c, state).local.state = {state}
           /\ Within(c.local, Publish(c, state).local)
<1>  DEFINE clock == c.local.clock + 1
            entry == Entry(clock, {state})
<1>1. c.local \in Sound /\ c.local.clock \in Nat /\ c.local.clock + 2 <= MaxAwarenessClock
    BY CodecFields, EntryFacts DEF CanPublish
<1>2. clock \in 0 .. MaxAwarenessClock /\ clock < MaxAwarenessClock /\ c.local.clock < clock
    BY <1>1, Constants
<1>3. {state} \in Options(States)
    BY DEF Options
<1>  HIDE DEF clock
<1>4. entry \in Sound /\ entry.clock = clock /\ entry.state = {state}
    BY <1>2, <1>3, EntryIs
<1>5. Publish(c, state) = [c EXCEPT !.local = entry]
    BY DEF Publish, clock
<1>  HIDE DEF entry
<1>6. /\ Publish(c, state) \in Codecs /\ Publish(c, state).remote = c.remote
      /\ Publish(c, state).local = entry
    BY <1>4, <1>5 DEF Codecs
<1>7. Within(c.local, entry)
    BY <1>2, <1>4 DEF Within
<1>  QED  BY <1>4, <1>6, <1>7 DEF clock, entry

LEMMA Withdraws ==
    ASSUME NEW c \in Codecs
    PROVE  /\ Withdraw(c) \in Codecs
           /\ Withdraw(c).remote = c.remote
           /\ Withdraw(c).local \in Sound
           /\ Withdraw(c).local.state = {}
           /\ c.local.state = {} => Withdraw(c) = c
           /\ c.local.state # {} =>
                 Withdraw(c).local = Entry(c.local.clock + 1, {})
           /\ Withdraw(c).local.clock =
                 c.local.clock + (IF c.local.state = {} THEN 0 ELSE 1)
           /\ Within(c.local, Withdraw(c).local)
<1>1. c.local \in Sound /\ c.local.clock \in Nat
    BY CodecFields, EntryFacts
<1>2. CASE c.local.state = {}
  <2>1. Withdraw(c) = c
      BY <1>2 DEF Withdraw
  <2>  QED  BY <1>1, <1>2, <2>1 DEF Within
<1>3. CASE c.local.state # {}
  <2>  DEFINE clock == c.local.clock + 1
              entry == Entry(clock, {})
  <2>1. clock \in 0 .. MaxAwarenessClock /\ c.local.clock < clock
      BY <1>1, <1>3, EntryFacts, Constants
  <2>2. {} \in Options(States)
      BY DEF Options
  <2>  HIDE DEF clock
  <2>3. entry \in Sound /\ entry.clock = clock /\ entry.state = {}
      BY <2>1, <2>2, EntryIs
  <2>4. Withdraw(c) = [c EXCEPT !.local = entry]
      BY <1>3 DEF Withdraw, clock
  <2>  HIDE DEF entry
  <2>5. /\ Withdraw(c) \in Codecs /\ Withdraw(c).remote = c.remote
        /\ Withdraw(c).local = entry
      BY <2>3, <2>4 DEF Codecs
  <2>6. Within(c.local, entry)
      BY <2>1, <2>3 DEF Within
  <2>  QED  BY <1>3, <2>3, <2>5, <2>6 DEF clock, entry
<1>  QED  BY <1>2, <1>3

-----------------------------------------------------------------------------
(* Sessions                                                                *)

LEMMA SessionFields ==
    ASSUME NEW s \in Sessions
    PROVE  /\ s.transport \in Transports /\ s.outbox \in Outboxes
           /\ s.awareness \in Awarenesses /\ s.codec \in Codecs
           /\ s.document_state \in DocumentStates
    BY DEF Sessions

LEMMA AwarenessFields ==
    ASSUME NEW a \in Awarenesses
    PROVE  /\ a.desired_state \in Options(States)
           /\ a.now_millis \in 0 .. MaxMillis
           /\ a.last_local_publish_millis \in Options(0 .. MaxMillis)
           /\ a.last_local_publish_millis \subseteq 0 .. MaxMillis
           /\ a.pending_withdrawal \in Options(Withdrawals)
           /\ a.peer_activity \in Functions(Peers, 0 .. MaxMillis)
    BY DEF Awarenesses, Options

LEMMA TransportFields ==
    ASSUME NEW t \in Transports
    PROVE  /\ t.state \in TransportStates
           /\ t.live_attempt \subseteq 1 .. MaxGeneration
           /\ t.last_issued \in 0 .. MaxGeneration
           /\ t.retry_attempt_index \in 0 .. FinalRetryDelayIndex
           /\ t.next_retry_deadline_millis \subseteq 0 .. MaxMillis
           /\ t.retry_schedule_exhausted \in BOOLEAN
    BY DEF Transports

(* A session may count more edits and changes than it made.                *)
LEMMA SaneGrows ==
    ASSUME NEW s, NEW r, NEW f, NEW e \in Nat, NEW c \in Nat,
           NEW d \in Nat, NEW b \in Nat, e <= d, c <= b, Sane(s, r, f, e, c)
    PROVE  Sane(s, r, f, d, b)
<1>1. s \in Sessions
    BY DEF Sane, Coherent
<1>2. Bounded(s.transport, s.outbox, d)
  <2>1. s.outbox.ordered \in Seq(Waiting)
      BY <1>1, SessionFields, OutboxFields
  <2>2. Documents(s.outbox.ordered) \in Seq(Waiting)
      BY <2>1, LengthsAddUp
  <2>  DEFINE n == Len(Documents(s.outbox.ordered))
  <2>3. n \in Nat
      BY <2>2
  <2>4. Bounded(s.transport, s.outbox, e)
      BY DEF Sane, Coherent
  <2>5. n <= e
      BY <2>4 DEF Bounded
  <2>  HIDE DEF n
  <2>6. n <= d
      BY <2>3, <2>5
  <2>  QED  BY <2>4, <2>6 DEF Bounded, n
<1>3. ClockIsBounded(s, c) => ClockIsBounded(s, b)
  <2>  SUFFICES ASSUME ClockIsBounded(s, c), NEW millis \in Latest(s)
                PROVE  Spent(s) <= 2 * (b + s.transport.last_issued) + millis
      BY DEF ClockIsBounded
  <2>1. Latest(s) \subseteq 0 .. MaxMillis
    <3>1. /\ s.awareness.last_local_publish_millis \subseteq 0 .. MaxMillis
          /\ s.awareness.now_millis \in 0 .. MaxMillis
        BY <1>1, SessionFields, AwarenessFields
    <3>  QED  BY <3>1 DEF Latest
  <2>2. s.codec.local.clock \in Nat /\ s.transport.last_issued \in Nat
      BY <1>1, SessionFields, TransportFields, CodecFields, EntryFacts
  <2>3. Spent(s) \in Nat
      BY <2>2 DEF Spent
  <2>4. Spent(s) <= 2 * (c + s.transport.last_issued) + millis
      BY DEF ClockIsBounded
  <2>5. millis \in Nat
      BY <2>1
  <2>  QED  BY <2>2, <2>3, <2>4, <2>5
<1>  QED  BY <1>2, <1>3 DEF Sane, Coherent

(* What a session has in its fields, with numbers for the clocks.          *)
LEMMA CoherentFacts ==
    ASSUME NEW s, NEW r, NEW f, NEW e, Coherent(s, r, f, e)
    PROVE  /\ s \in Sessions
           /\ s.transport \in Transports /\ s.outbox \in Outboxes
           /\ s.awareness \in Awarenesses /\ s.codec \in Codecs
           /\ s.codec.local \in Sound /\ s.codec.local.clock \in Nat
           /\ s.transport.last_issued \in Nat
           /\ s.awareness.now_millis \in 0 .. MaxMillis
           /\ s.awareness.now_millis \in Nat
           /\ s.awareness.last_local_publish_millis \subseteq Nat
           /\ OutboxSane(s.outbox, f)
    BY SessionFields, CodecFields, EntryFacts, AwarenessFields, TransportFields
    DEF Coherent

(* An outbox with room admits a broadcast.                                 *)
LEMMA RoomForBroadcast ==
    ASSUME Roomy, NEW o \in Outboxes, Exact(o),
           Len(Documents(o.ordered)) <= MaxEdits,
           Len(Broadcasts(o.ordered)) <= 1,
           Len(o.protocol) <= MaxReplies + 2 * MaxGeneration
    PROVE  Admits(o, "AwarenessBroadcast", 1, 1)
<1>  DEFINE d == Len(Documents(o.ordered))
            b == Len(Broadcasts(o.ordered))
            p == Len(o.protocol)
<1>1. o.ordered \in Seq(Waiting) /\ o.protocol \in Seq(Answering)
    BY OutboxFields
<1>2. d \in Nat /\ b \in Nat /\ Len(o.ordered) = d + b
  <2>1. /\ Documents(o.ordered) \in Seq(Waiting)
        /\ Broadcasts(o.ordered) \in Seq(Waiting)
        /\ Len(o.ordered) = d + b
      BY <1>1, LengthsAddUp
  <2>2. d \in Nat /\ b \in Nat
      BY <2>1
  <2>  QED  BY <2>1, <2>2
<1>3. p \in Nat
    BY <1>1
<1>4. /\ o.pending_bytes = d /\ o.pending_awareness_bytes = b
      /\ o.pending_protocol_bytes = p
    BY DEF Exact
<1>5. Pending(o) = d + b + p /\ NonDocument(o) = p + b
    BY <1>2, <1>3 DEF Pending, NonDocument
<1>6. o.reserved = NoCharge /\ o.reserved_non_document = NoCharge
    BY OutboxFields
<1>7. d <= MaxEdits /\ b <= 1 /\ p <= MaxReplies + 2 * MaxGeneration
    OBVIOUS
<1>  HIDE DEF d, b, p
<1>8. /\ d + b + p + 1 <= MostQueued /\ p + b + 1 <= MostQueued
    BY <1>2, <1>3, <1>7, Constants DEF MostQueued
<1>9. /\ MostQueued <= MaxNonDocumentMessages
      /\ MostQueued <= MaxNonDocumentBytes
    BY DEF Roomy
<1>10. MaxNonDocumentMessages <= MaxMessages /\ MaxNonDocumentMessages \in Nat
    BY Constants DEF MaxNonDocumentMessages
<1>11. MaxNonDocumentBytes <= MaxBytes /\ MaxNonDocumentBytes \in Int
  <2>1. DocumentByteReserve \in Nat
    <3>1. MaxBytes \div 4 \in Nat
        BY Constants
    <3>  QED  BY <3>1 DEF DocumentByteReserve
  <2>  QED  BY <2>1, Constants DEF MaxNonDocumentBytes
<1>12. MostQueued \in Nat
    BY Constants DEF MostQueued
<1>13. /\ d + b + p + 1 <= MaxMessages
       /\ d + b + p + 1 <= MaxBytes
       /\ p + b + 1 <= MaxNonDocumentMessages
       /\ p + b + 1 <= MaxNonDocumentBytes
  <2>  HIDE DEF MostQueued
  <2>  QED  BY <1>2, <1>3, <1>8, <1>9, <1>10, <1>11, <1>12, Constants
<1>14. /\ d + b + p + 0 + 1 <= MaxMessages
       /\ d + b + p + 0 + 1 <= MaxBytes
       /\ p + b + 0 + 1 <= MaxNonDocumentMessages
       /\ b + p + 0 + 1 <= MaxNonDocumentBytes
    BY <1>2, <1>3, <1>13
<1>  QED  BY <1>4, <1>5, <1>6, <1>14 DEF Admits, NoCharge

(* An entry is queued for broadcast, or refused.                           *)
Broadcast(s, f, entry, sent) ==
    LET o == sent.session.outbox
    IN  /\ sent.ok \in BOOLEAN
        /\ sent.session = [s EXCEPT !.outbox = o]
        /\ OutboxSane(o, f)
        /\ \A m \in Queued(o) : m \in Queued(s.outbox) \/ m.id = {entry}
        /\ sent.ok => Carried(o, entry)
        /\ o.protocol = s.outbox.protocol
        /\ Len(Documents(o.ordered)) = Len(Documents(s.outbox.ordered))
        /\ Len(Broadcasts(o.ordered)) <= 2

LEMMA Enqueues ==
    ASSUME NEW s \in Sessions, NEW f, OutboxSane(s.outbox, f),
           NEW entry \in Sound
    PROVE  /\ Broadcast(s, f, entry, EnqueueBroadcast(s, entry))
           /\ /\ Roomy
              /\ Len(Documents(s.outbox.ordered)) <= MaxEdits
              /\ Len(s.outbox.protocol) <= MaxReplies + 2 * MaxGeneration
              => EnqueueBroadcast(s, entry).ok
<1>  DEFINE sent == EnqueueBroadcast(s, entry)
            k == CoalesceUnleasedAwareness(s.outbox)
            m == AwarenessFrame("AwarenessBroadcast", entry)
            i == Install(k, "AwarenessBroadcast", << m >>)
            admits == Admits(k, "AwarenessBroadcast", 1, 1)
<1>  SUFFICES /\ Broadcast(s, f, entry, sent)
              /\ /\ Roomy
                 /\ Len(Documents(s.outbox.ordered)) <= MaxEdits
                 /\ Len(s.outbox.protocol) <= MaxReplies + 2 * MaxGeneration
                 => sent.ok
    OBVIOUS
<1>1. /\ OutboxSane(k, f)
      /\ Queued(k) \subseteq Queued(s.outbox)
      /\ k.protocol = s.outbox.protocol
      /\ Documents(k.ordered) = Documents(s.outbox.ordered)
      /\ Len(Broadcasts(k.ordered)) <= 1
    BY Coalesces
<1>2. m \in Waiting /\ m.kind = "AwarenessBroadcast" /\ m.id = {entry}
  <2>1. {entry} \in Options(Sound)
      BY DEF Options
  <2>  QED  BY <2>1 DEF Waiting, Frames, AwarenessFrame, Kinds
<1>  HIDE DEF m, k
<1>3. /\ OutboxSane(i, f)
      /\ Queued(i) = Queued(k) \union {m}
      /\ i.protocol = k.protocol
      /\ Len(Documents(i.ordered)) = Len(Documents(k.ordered)) + 0
      /\ Len(Broadcasts(i.ordered)) = Len(Broadcasts(k.ordered)) + 1
  <2>  DEFINE j == Install(k, m.kind, << m >>)
  <2>1. /\ OutboxSane(j, f)
        /\ Queued(j) = Queued(k) \union {m}
        /\ j.protocol = k.protocol
        /\ Len(Documents(j.ordered)) = Len(Documents(k.ordered))
              + (IF m.kind = "DocumentUpdate" THEN 1 ELSE 0)
        /\ Len(Broadcasts(j.ordered)) = Len(Broadcasts(k.ordered))
              + (IF m.kind = "AwarenessBroadcast" THEN 1 ELSE 0)
      BY <1>1, <1>2, InstallsFrame
  <2>2. j = i
      BY <1>2
  <2>  HIDE DEF i, j
  <2>3. /\ (IF m.kind = "DocumentUpdate" THEN 1 ELSE 0) = 0
        /\ (IF m.kind = "AwarenessBroadcast" THEN 1 ELSE 0) = 1
      BY <1>2
  <2>  QED  BY <2>1, <2>2, <2>3
<1>4. \A o \in Outboxes : /\ Len(Documents(o.ordered)) \in Nat
                          /\ Len(Broadcasts(o.ordered)) \in Nat
  <2>  SUFFICES ASSUME NEW o \in Outboxes
                PROVE  /\ Len(Documents(o.ordered)) \in Nat
                       /\ Len(Broadcasts(o.ordered)) \in Nat
      OBVIOUS
  <2>1. o.ordered \in Seq(Waiting)
      BY OutboxFields
  <2>2. /\ Documents(o.ordered) \in Seq(Waiting)
        /\ Broadcasts(o.ordered) \in Seq(Waiting)
      BY <2>1, LengthsAddUp
  <2>  QED  BY <2>2
<1>5. k \in Outboxes /\ Exact(k) /\ s.outbox \in Outboxes
    BY <1>1, SessionFields DEF OutboxSane
<1>6. CASE admits
  <2>1. sent = [ok |-> TRUE, session |-> [s EXCEPT !.outbox = i]]
      BY <1>6 DEF EnqueueBroadcast, InstallBroadcast, k, m
  <2>  HIDE DEF sent, i, admits
  <2>2. /\ sent.ok = TRUE /\ sent.session = [s EXCEPT !.outbox = i]
        /\ sent.session.outbox = i
      BY <2>1 DEF Sessions
  <2>3. \A x \in Queued(i) : x \in Queued(s.outbox) \/ x.id = {entry}
      BY <1>1, <1>2, <1>3
  <2>4. Carried(i, entry)
      BY <1>2, <1>3 DEF Carried
  <2>5. Len(Documents(i.ordered)) = Len(Documents(s.outbox.ordered))
    <3>  DEFINE d == Len(Documents(k.ordered))
    <3>1. d \in Nat /\ Len(Documents(i.ordered)) = d + 0
          /\ Len(Documents(s.outbox.ordered)) = d
        BY <1>1, <1>3, <1>4, <1>5, Zenon
    <3>  HIDE DEF d
    <3>  QED  BY <3>1
  <2>6. Len(Broadcasts(i.ordered)) <= 2
    <3>  DEFINE b == Len(Broadcasts(k.ordered))
    <3>1. b \in Nat /\ Len(Broadcasts(i.ordered)) = b + 1 /\ b <= 1
        BY <1>1, <1>3, <1>4, <1>5
    <3>  HIDE DEF b
    <3>  QED  BY <3>1
  <2>7. i.protocol = s.outbox.protocol
      BY <1>1, <1>3
  <2>  QED  BY <1>3, <2>2, <2>3, <2>4, <2>5, <2>6, <2>7, Zenon DEF Broadcast
<1>7. CASE ~admits
  <2>1. sent = [ok |-> FALSE, session |-> [s EXCEPT !.outbox = k]]
      BY <1>7 DEF EnqueueBroadcast, InstallBroadcast, k, m
  <2>2. ~(/\ Roomy
          /\ Len(Documents(s.outbox.ordered)) <= MaxEdits
          /\ Len(s.outbox.protocol) <= MaxReplies + 2 * MaxGeneration)
    <3>  SUFFICES ASSUME Roomy,
                         Len(Documents(s.outbox.ordered)) <= MaxEdits,
                         Len(s.outbox.protocol) <= MaxReplies + 2 * MaxGeneration
                  PROVE  admits
        BY <1>7
    <3>1. /\ Len(Documents(k.ordered)) <= MaxEdits
          /\ Len(k.protocol) <= MaxReplies + 2 * MaxGeneration
        BY <1>1
    <3>  QED  BY <1>1, <1>5, <3>1, RoomForBroadcast
  <2>  HIDE DEF sent, i, admits
  <2>3. /\ sent.ok = FALSE /\ sent.session = [s EXCEPT !.outbox = k]
        /\ sent.session.outbox = k
      BY <2>1 DEF Sessions
  <2>4. \A x \in Queued(k) : x \in Queued(s.outbox) \/ x.id = {entry}
      BY <1>1
  <2>5. Len(Documents(k.ordered)) = Len(Documents(s.outbox.ordered))
      BY <1>1, Zenon
  <2>6. Len(Broadcasts(k.ordered)) <= 2
    <3>  DEFINE b == Len(Broadcasts(k.ordered))
    <3>1. b \in Nat /\ b <= 1
        BY <1>1, <1>4, <1>5
    <3>  HIDE DEF b
    <3>2. b <= 2
        BY <3>1
    <3>  QED  BY <3>2 DEF b
  <2>  QED  BY <1>1, <2>2, <2>3, <2>4, <2>5, <2>6, Zenon DEF Broadcast
<1>  QED  BY <1>6, <1>7

(* The queues are as short as the outbox has room for.                     *)
LEMMA QueuesAreShort ==
    ASSUME NEW s, NEW r, NEW f, NEW e \in 0 .. MaxEdits, Coherent(s, r, f, e)
    PROVE  /\ Len(Documents(s.outbox.ordered)) <= MaxEdits
           /\ Len(s.outbox.protocol) <= MaxReplies + 2 * MaxGeneration
<1>1. /\ s.outbox.ordered \in Seq(Waiting) /\ s.outbox.protocol \in Seq(Answering)
      /\ s.transport.last_issued \in 0 .. MaxGeneration
    BY CoherentFacts, OutboxFields, TransportFields
<1>2. Documents(s.outbox.ordered) \in Seq(Waiting)
    BY <1>1, LengthsAddUp
<1>  DEFINE d == Len(Documents(s.outbox.ordered))
            p == Len(s.outbox.protocol)
            l == s.transport.last_issued
<1>3. d \in Nat /\ p \in Nat
    BY <1>1, <1>2
<1>4. d <= e /\ p <= MaxReplies + Openings(s.transport)
    BY DEF Coherent, Bounded
<1>5. Openings(s.transport) \in Int /\ Openings(s.transport) <= 2 * l
    BY <1>1 DEF Openings
<1>  HIDE DEF d, p, l
<1>6. l \in 0 .. MaxGeneration
    BY <1>1 DEF l
<1>7. d <= MaxEdits
    BY <1>3, <1>4, Constants
<1>8. p <= MaxReplies + 2 * MaxGeneration
    BY <1>3, <1>4, <1>5, <1>6, Constants
<1>  QED  BY <1>7, <1>8 DEF d, p

LEMMA OwnAdvances ==
    ASSUME NEW o \in Outboxes, NEW c \in Codecs, NEW r \in Sound,
           NewestIsOwn(o, c, r), NEW q \in Outboxes, NEW k \in Codecs,
           Within(c.local, k.local),
           \A m \in Queued(q) :
              \/ m \in Queued(o)
              \/ m.id \subseteq {c.local, k.local}
    PROVE  NewestIsOwn(q, k, r)
<1>1. c.local \in Sound /\ k.local \in Sound
    BY CodecFields
<1>2. \A x \in Sound : Within(x, c.local) => Within(x, k.local)
    BY <1>1, WithinFacts
<1>3. Within(r, k.local)
    BY <1>2 DEF NewestIsOwn
<1>4. ASSUME NEW m \in Queued(q), NEW x \in m.id
      PROVE  Within(x, k.local)
  <2>1. CASE m \in Queued(o)
    <3>1. x \in Sound /\ Within(x, c.local)
        BY <1>4, <2>1, QueuedFacts DEF NewestIsOwn
    <3>  QED  BY <1>2, <3>1
  <2>2. CASE m.id \subseteq {c.local, k.local}
    <3>1. x = c.local \/ x = k.local
        BY <1>4, <2>2
    <3>  QED  BY <3>1 DEF Within
  <2>  QED  BY <1>4, <2>1, <2>2
<1>  QED  BY <1>3, <1>4 DEF NewestIsOwn

(* The clock and the time that count, while there is room.                 *)
LEMMA LatestFacts ==
    ASSUME NEW s, NEW r, NEW f, NEW e, NEW c \in Nat, Sane(s, r, f, e, c), Roomy
    PROVE  /\ \E millis \in Latest(s) : TRUE
           /\ \A millis \in Latest(s) :
                 /\ millis \in Nat /\ millis <= s.awareness.now_millis
                 /\ Spent(s) <= 2 * (c + s.transport.last_issued) + millis
           /\ Spent(s) \in Nat
<1>1. PresenceIsShown(s, r) /\ ClockIsBounded(s, c) /\ Coherent(s, r, f, e)
    BY DEF Sane
<1>2. /\ s.codec.local.clock \in Nat /\ s.transport.last_issued \in Nat
      /\ s.awareness.now_millis \in Nat
      /\ s.awareness.last_local_publish_millis \subseteq Nat
    BY <1>1, CoherentFacts
<1>3. Spent(s) \in Nat
    BY <1>2 DEF Spent
<1>4. \E millis \in Latest(s) : TRUE
    BY <1>1 DEF Latest, PresenceIsShown
<1>5. ASSUME NEW millis \in Latest(s)
      PROVE  /\ millis \in Nat /\ millis <= s.awareness.now_millis
             /\ Spent(s) <= 2 * (c + s.transport.last_issued) + millis
    BY <1>1, <1>2, <1>5 DEF Latest, ClockIsBounded
<1>  QED  BY <1>3, <1>4, <1>5

(* The intent to show a state, and to show none.                           *)
Shown(a, state) ==
    [a EXCEPT !.desired_state = {state}, !.pending_withdrawal = {}]

LEMMA ShownFields ==
    ASSUME NEW a \in Awarenesses, NEW state \in States
    PROVE  /\ Shown(a, state) \in Awarenesses
           /\ Shown(a, state).desired_state = {state}
           /\ Shown(a, state).pending_withdrawal = {}
           /\ Shown(a, state).now_millis = a.now_millis
           /\ Shown(a, state).last_local_publish_millis =
                 a.last_local_publish_millis
           /\ Shown(a, state).peer_activity = a.peer_activity
<1>1. {state} \in Options(States) /\ {} \in Options(Withdrawals)
    BY DEF Options
<1>  QED  BY <1>1 DEF Shown, Awarenesses

Published(a) == [a EXCEPT !.last_local_publish_millis = {a.now_millis}]

LEMMA PublishedFields ==
    ASSUME NEW a \in Awarenesses
    PROVE  /\ Published(a) \in Awarenesses
           /\ Published(a).desired_state = a.desired_state
           /\ Published(a).pending_withdrawal = a.pending_withdrawal
           /\ Published(a).now_millis = a.now_millis
           /\ Published(a).last_local_publish_millis = {a.now_millis}
           /\ Published(a).peer_activity = a.peer_activity
<1>1. {a.now_millis} \in Options(0 .. MaxMillis)
    BY AwarenessFields DEF Options
<1>  QED  BY <1>1 DEF Published, Awarenesses

LEMMA MarkPublishedIs ==
    ASSUME NEW s \in Sessions
    PROVE  MarkPublished(s) = [s EXCEPT !.awareness = Published(s.awareness)]
    BY DEF MarkPublished, Published, Sessions, Awarenesses

(* What a step leaves of the connection and of the peers.                  *)
Quiet(s, w) ==
    /\ w.transport = s.transport
    /\ w.codec.remote = s.codec.remote
    /\ w.awareness.peer_activity = s.awareness.peer_activity
    /\ w.awareness.now_millis = s.awareness.now_millis

(* The session shows a state, and its next entry is what it is known by.   *)
Shows(s, state, w) ==
    /\ Quiet(s, w)
    /\ w.codec.local.clock = s.codec.local.clock + 1
    /\ w.codec.local.state # {}
    /\ w.awareness.desired_state = {state}

(* Whoever shows a state has peers enough left, and nothing to withdraw.   *)
LEMMA ShowsCoherently ==
    ASSUME NEW s, NEW r \in Sound, NEW f, NEW e, Coherent(s, r, f, e),
           NEW state \in States, CanPublish(s.codec),
           NEW w \in Sessions, Quiet(s, w),
           w.codec = Publish(s.codec, state),
           w.awareness.desired_state = {state},
           w.awareness.pending_withdrawal = {},
           OutboxSane(w.outbox, f),
           \A m \in Queued(w.outbox) :
              m \in Queued(s.outbox) \/ m.id = {w.codec.local},
           Bounded(w.transport, w.outbox, e)
    PROVE  Coherent(w, r, f, e) /\ Shows(s, state, w)
<1>1. /\ s.codec \in Codecs /\ s.outbox \in Outboxes
      /\ w.codec \in Codecs /\ w.outbox \in Outboxes
    BY CoherentFacts, SessionFields
<1>2. /\ w.codec.remote = s.codec.remote
      /\ w.codec.local.clock = s.codec.local.clock + 1
      /\ w.codec.local.state = {state}
      /\ Within(s.codec.local, w.codec.local)
  <2>  DEFINE k == Publish(s.codec, state)
  <2>1. /\ k.remote = s.codec.remote /\ k.local.clock = s.codec.local.clock + 1
        /\ k.local.state = {state} /\ Within(s.codec.local, k.local)
      BY <1>1, Publishes
  <2>2. w.codec = k
      OBVIOUS
  <2>  HIDE DEF k
  <2>  QED  BY <2>1, <2>2
<1>3. NewestAttempt(w.transport)
    BY DEF Quiet, Coherent
<1>4. IntentIsShown(w.awareness, w.codec)
    BY DEF IntentIsShown
<1>5. PeersFollowed(w)
    BY <1>2 DEF Quiet, Coherent, PeersFollowed, CanPublish
<1>6. NewestIsOwn(w.outbox, w.codec, r)
  <2>1. \A m \in Queued(w.outbox) :
           \/ m \in Queued(s.outbox)
           \/ m.id \subseteq {s.codec.local, w.codec.local}
      OBVIOUS
  <2>2. NewestIsOwn(s.outbox, s.codec, r)
      BY DEF Coherent
  <2>  QED  BY <1>1, <1>2, <2>1, <2>2, OwnAdvances
<1>7. WithdrawalIsKept(w.awareness, w.outbox, w.codec, r)
    BY DEF WithdrawalIsKept
<1>8. Coherent(w, r, f, e)
    BY <1>3, <1>4, <1>5, <1>6, <1>7 DEF Coherent
<1>9. Shows(s, state, w)
    BY <1>2 DEF Shows
<1>  QED  BY <1>8, <1>9

LEMMA ShowsPresence ==
    ASSUME NEW s, NEW r \in Sound, NEW f, NEW e \in 0 .. MaxEdits,
           Coherent(s, r, f, e), Synchronized(s),
           NEW state \in States, CanPublish(s.codec), NEW set,
           set = [s EXCEPT !.codec = Publish(s.codec, state),
                           !.awareness = Shown(s.awareness, state)]
    PROVE  LET sent == BroadcastLocal(set)
               w == sent.session
           IN  /\ Coherent(w, r, f, e) /\ Shows(s, state, w)
               /\ Roomy => sent.ok
               /\ sent.ok =>
                    /\ PresenceIsShown(w, r)
                    /\ w.awareness.last_local_publish_millis =
                          {s.awareness.now_millis}
<1>  DEFINE k == Publish(s.codec, state)
            b == Shown(s.awareness, state)
            entry == set.codec.local
            queued == EnqueueBroadcast(set, entry)
            o == queued.session.outbox
            sent == BroadcastLocal(set)
            w == sent.session
<1>  SUFFICES /\ Coherent(w, r, f, e) /\ Shows(s, state, w)
              /\ Roomy => sent.ok
              /\ sent.ok =>
                   /\ PresenceIsShown(w, r)
                   /\ w.awareness.last_local_publish_millis =
                         {s.awareness.now_millis}
    OBVIOUS
<1>1. /\ s \in Sessions /\ s.codec \in Codecs /\ s.awareness \in Awarenesses
      /\ s.outbox \in Outboxes /\ OutboxSane(s.outbox, f)
    BY CoherentFacts
<1>2. /\ k \in Codecs /\ k.remote = s.codec.remote /\ k.local \in Sound
      /\ k.local.state # {}
  <2>1. k.local.state = {state}
      BY <1>1, Publishes
  <2>  QED  BY <1>1, <2>1, Publishes
<1>3. /\ b \in Awarenesses /\ b.desired_state = {state}
      /\ b.pending_withdrawal = {} /\ b.now_millis = s.awareness.now_millis
      /\ b.last_local_publish_millis = s.awareness.last_local_publish_millis
      /\ b.peer_activity = s.awareness.peer_activity
    BY <1>1, ShownFields
<1>  HIDE DEF k, b
<1>4. /\ set \in Sessions /\ set.codec = k /\ set.awareness = b
      /\ set.outbox = s.outbox /\ set.transport = s.transport
  <2>1. set = [s EXCEPT !.codec = k, !.awareness = b]
      BY DEF k, b
  <2>  QED  BY <1>1, <1>2, <1>3, <2>1 DEF Sessions
<1>5. /\ Broadcast(set, f, entry, queued)
      /\ Roomy => queued.ok
  <2>1. entry \in Sound /\ OutboxSane(set.outbox, f)
      BY <1>1, <1>2, <1>4
  <2>2. /\ Len(Documents(set.outbox.ordered)) <= MaxEdits
        /\ Len(set.outbox.protocol) <= MaxReplies + 2 * MaxGeneration
      BY <1>4, QueuesAreShort
  <2>  HIDE DEF entry
  <2>  QED  BY <1>4, <2>1, <2>2, Enqueues
<1>6. /\ queued.ok \in BOOLEAN
      /\ queued.session = [set EXCEPT !.outbox = o]
      /\ OutboxSane(o, f) /\ o \in Outboxes
      /\ \A m \in Queued(o) : m \in Queued(set.outbox) \/ m.id = {entry}
      /\ queued.ok => Carried(o, entry)
      /\ o.protocol = set.outbox.protocol
      /\ Len(Documents(o.ordered)) = Len(Documents(set.outbox.ordered))
      /\ Len(Broadcasts(o.ordered)) <= 2
    BY <1>5 DEF Broadcast, OutboxSane
<1>7. entry = k.local
    BY <1>4
<1>8. Bounded(s.transport, o, e)
  <2>1. Bounded(s.transport, s.outbox, e)
      BY DEF Coherent
  <2>  QED  BY <1>4, <1>6, <2>1, Zenon DEF Bounded
<1>  HIDE DEF entry, o
<1>9. CASE ~queued.ok
  <2>1. sent = queued
      BY <1>9 DEF BroadcastLocal, MarkSent, entry
  <2>  HIDE DEF queued, sent
  <2>2. w = [set EXCEPT !.outbox = o]
      BY <1>6, <2>1
  <2>  HIDE DEF w
  <2>3. /\ w \in Sessions /\ w.codec = k /\ w.awareness = b
        /\ w.outbox = o /\ w.transport = s.transport
      BY <1>4, <1>6, <2>2 DEF Sessions
  <2>4. Quiet(s, w)
      BY <1>2, <1>3, <2>3 DEF Quiet
  <2>5. Coherent(w, r, f, e) /\ Shows(s, state, w)
    <3>1. /\ w.codec = Publish(s.codec, state)
          /\ w.awareness.desired_state = {state}
          /\ w.awareness.pending_withdrawal = {}
          /\ OutboxSane(w.outbox, f)
          /\ \A m \in Queued(w.outbox) :
                m \in Queued(s.outbox) \/ m.id = {w.codec.local}
          /\ Bounded(w.transport, w.outbox, e)
        BY <1>3, <1>4, <1>6, <1>7, <1>8, <2>3 DEF k
    <3>  QED  BY <2>3, <2>4, <3>1, ShowsCoherently
  <2>  QED  BY <1>5, <1>9, <2>1, <2>5
<1>10. CASE queued.ok
  <2>1. sent = [queued EXCEPT !.session = MarkPublished(@)]
      BY <1>10 DEF BroadcastLocal, MarkSent, entry
  <2>2. sent.ok = TRUE /\ w = MarkPublished(queued.session)
    <3>1. DOMAIN queued = {"ok", "session"}
        BY DEF EnqueueBroadcast, InstallBroadcast
    <3>  HIDE DEF queued, sent
    <3>  QED  BY <1>6, <1>10, <2>1, <3>1
  <2>  HIDE DEF queued, sent
  <2>  DEFINE v == queued.session
  <2>3. /\ v \in Sessions /\ v.codec = k /\ v.awareness = b
        /\ v.outbox = o /\ v.transport = s.transport
      BY <1>4, <1>6 DEF Sessions
  <2>4. w = [v EXCEPT !.awareness = Published(b)]
      BY <2>2, <2>3, MarkPublishedIs
  <2>5. /\ Published(b) \in Awarenesses
        /\ Published(b).desired_state = {state}
        /\ Published(b).pending_withdrawal = {}
        /\ Published(b).now_millis = s.awareness.now_millis
        /\ Published(b).last_local_publish_millis = {s.awareness.now_millis}
        /\ Published(b).peer_activity = s.awareness.peer_activity
      BY <1>3, PublishedFields
  <2>  HIDE DEF w, v
  <2>6. /\ w \in Sessions /\ w.codec = k /\ w.awareness = Published(b)
        /\ w.outbox = o /\ w.transport = s.transport
      BY <2>3, <2>4, <2>5 DEF Sessions
  <2>7. Quiet(s, w)
      BY <1>2, <2>5, <2>6 DEF Quiet
  <2>8. Coherent(w, r, f, e) /\ Shows(s, state, w)
    <3>1. /\ w.codec = Publish(s.codec, state)
          /\ w.awareness.desired_state = {state}
          /\ w.awareness.pending_withdrawal = {}
          /\ OutboxSane(w.outbox, f)
          /\ \A m \in Queued(w.outbox) :
                m \in Queued(s.outbox) \/ m.id = {w.codec.local}
          /\ Bounded(w.transport, w.outbox, e)
        BY <1>4, <1>6, <1>7, <1>8, <2>5, <2>6 DEF k
    <3>  QED  BY <2>6, <2>7, <3>1, ShowsCoherently
  <2>9. PresenceIsShown(w, r)
    <3>1. Carried(w.outbox, w.codec.local)
        BY <1>6, <1>7, <1>10, <2>6
    <3>2. w.awareness.last_local_publish_millis # {}
        BY <2>5, <2>6
    <3>  QED  BY <1>2, <2>6, <3>1, <3>2 DEF PresenceIsShown
  <2>  QED  BY <2>2, <2>5, <2>6, <2>8, <2>9
<1>  QED  BY <1>6, <1>9, <1>10

(* A state that is shown costs at most two clocks.                         *)
LEMMA ShowingIsCounted ==
    ASSUME NEW s, NEW r, NEW f, NEW e, NEW c \in Nat, Sane(s, r, f, e, c), Roomy,
           NEW state, NEW w, Shows(s, state, w),
           w.awareness.last_local_publish_millis =
              IF Synchronized(s) THEN {s.awareness.now_millis}
                                 ELSE s.awareness.last_local_publish_millis
    PROVE  ClockIsBounded(w, c + 1)
<1>1. /\ w.transport = s.transport
      /\ w.awareness.now_millis = s.awareness.now_millis
      /\ w.codec.local.clock = s.codec.local.clock + 1
      /\ w.codec.local.state # {} /\ w.awareness.desired_state # {}
    BY DEF Shows, Quiet
<1>2. Latest(w) = {s.awareness.now_millis}
    BY <1>1 DEF Latest, Synchronized
<1>  DEFINE now_ == s.awareness.now_millis
            l == s.transport.last_issued
<1>3. /\ s.codec.local.clock \in Nat /\ now_ \in Nat /\ l \in Nat
    BY CoherentFacts DEF Sane
<1>4. Spent(w) <= Spent(s) + 2 /\ Spent(w) \in Nat /\ Spent(s) \in Nat
    BY <1>1, <1>3 DEF Spent
<1>5. PICK millis \in Latest(s) : TRUE
    BY LatestFacts
<1>6. /\ millis \in Nat /\ millis <= now_
      /\ Spent(s) <= 2 * (c + l) + millis
    BY LatestFacts
<1>  HIDE DEF now_, l
<1>7. Spent(w) <= 2 * ((c + 1) + l) + now_
    BY <1>3, <1>4, <1>6
<1>8. \A published \in w.awareness.last_local_publish_millis :
         published <= w.awareness.now_millis
  <2>1. ClockIsBounded(s, c)
      BY DEF Sane
  <2>2. now_ <= now_
      BY <1>3
  <2>  QED  BY <1>1, <2>1, <2>2 DEF ClockIsBounded, now_
<1>  QED  BY <1>1, <1>2, <1>7, <1>8 DEF ClockIsBounded, now_, l

LEMMA Sets ==
    ASSUME NEW s, NEW r \in Sound, NEW f, NEW e \in 0 .. MaxEdits, NEW c \in Nat,
           Sane(s, r, f, e, c), NEW state \in States
    PROVE  LET result == SetDesired(s, state)
               w == result.session
           IN  /\ Sane(w, r, f, e, c + 1)
               /\ Quiet(s, w)
               /\ (Roomy /\ ~result.ok) => w = s
<1>  DEFINE result == SetDesired(s, state)
            w == result.session
            set == [s EXCEPT !.codec = Publish(s.codec, state),
                             !.awareness = Shown(s.awareness, state)]
            sent == BroadcastLocal(set)
<1>  SUFFICES /\ Sane(w, r, f, e, c + 1)
              /\ Quiet(s, w)
              /\ (Roomy /\ ~result.ok) => w = s
    OBVIOUS
<1>1. /\ Coherent(s, r, f, e) /\ s \in Sessions
      /\ s.codec \in Codecs /\ s.awareness \in Awarenesses
      /\ OutboxSane(s.outbox, f) /\ s.outbox \in Outboxes
    BY CoherentFacts DEF Sane
<1>2. result = IF ~CanPublish(s.codec) THEN [ok |-> FALSE, session |-> s]
               ELSE IF Synchronized(s) THEN sent
               ELSE [ok |-> TRUE, session |-> set]
  <2>  DEFINE given == [s EXCEPT !.codec = Publish(@, state),
                                 !.awareness.desired_state = {state},
                                 !.awareness.pending_withdrawal = {}]
  <2>1. set = given
      BY <1>1 DEF Sessions, Awarenesses, Shown
  <2>2. result = IF ~CanPublish(s.codec) THEN [ok |-> FALSE, session |-> s]
                 ELSE IF Synchronized(s) THEN BroadcastLocal(given)
                 ELSE [ok |-> TRUE, session |-> given]
      BY DEF SetDesired
  <2>  HIDE DEF set, given
  <2>  QED  BY <2>1, <2>2
<1>  HIDE DEF result
<1>3. CASE ~CanPublish(s.codec)
  <2>1. result.ok = FALSE /\ w = s
      BY <1>2, <1>3
  <2>  HIDE DEF w
  <2>2. Sane(s, r, f, e, c + 1)
    <3>1. e \in Nat /\ e <= e /\ c + 1 \in Nat /\ c <= c + 1
        BY Constants
    <3>  QED  BY <3>1, SaneGrows
  <2>  QED  BY <2>1, <2>2 DEF Quiet
<1>4. CASE CanPublish(s.codec) /\ Synchronized(s)
  <2>1. result = sent
      BY <1>2, <1>4
  <2>  HIDE DEF sent
  <2>2. /\ Coherent(w, r, f, e) /\ Shows(s, state, w)
        /\ Roomy => result.ok
        /\ result.ok =>
              /\ PresenceIsShown(w, r)
              /\ w.awareness.last_local_publish_millis = {s.awareness.now_millis}
    <3>  HIDE DEF set
    <3>1. set = [s EXCEPT !.codec = Publish(s.codec, state),
                          !.awareness = Shown(s.awareness, state)]
        BY DEF set
    <3>  QED  BY <1>1, <1>4, <2>1, <3>1, ShowsPresence DEF sent
  <2>  HIDE DEF w
  <2>3. Roomy => ClockIsBounded(w, c + 1)
      BY <1>4, <2>2, ShowingIsCounted
  <2>  QED  BY <2>2, <2>3 DEF Sane, Shows
<1>5. CASE CanPublish(s.codec) /\ ~Synchronized(s)
  <2>  DEFINE k == Publish(s.codec, state)
              b == Shown(s.awareness, state)
  <2>1. result.ok = TRUE /\ w = set
      BY <1>2, <1>5
  <2>2. k \in Codecs /\ k.remote = s.codec.remote
      BY <1>1, <1>5, Publishes
  <2>3. /\ b \in Awarenesses /\ b.desired_state = {state}
        /\ b.pending_withdrawal = {} /\ b.now_millis = s.awareness.now_millis
        /\ b.last_local_publish_millis = s.awareness.last_local_publish_millis
        /\ b.peer_activity = s.awareness.peer_activity
      BY <1>1, ShownFields
  <2>4. w = [s EXCEPT !.codec = k, !.awareness = b]
      BY <2>1
  <2>5. k = Publish(s.codec, state)
      OBVIOUS
  <2>  HIDE DEF k, b, w
  <2>6. /\ w \in Sessions /\ w.codec = k /\ w.awareness = b
        /\ w.outbox = s.outbox /\ w.transport = s.transport
      BY <1>1, <2>2, <2>3, <2>4 DEF Sessions
  <2>7. Quiet(s, w)
      BY <2>2, <2>3, <2>6 DEF Quiet
  <2>8. Coherent(w, r, f, e) /\ Shows(s, state, w)
    <3>1. /\ w.codec = Publish(s.codec, state)
          /\ w.awareness.desired_state = {state}
          /\ w.awareness.pending_withdrawal = {}
          /\ OutboxSane(w.outbox, f)
          /\ \A m \in Queued(w.outbox) :
                m \in Queued(s.outbox) \/ m.id = {w.codec.local}
          /\ Bounded(w.transport, w.outbox, e)
        BY <1>1, <2>3, <2>5, <2>6 DEF Coherent
    <3>  QED  BY <1>1, <1>5, <2>6, <2>7, <3>1, ShowsCoherently
  <2>9. PresenceIsShown(w, r)
      BY <1>5, <2>6 DEF PresenceIsShown, Synchronized
  <2>10. Roomy => ClockIsBounded(w, c + 1)
      BY <1>5, <2>3, <2>6, <2>8, ShowingIsCounted
  <2>  QED  BY <2>1, <2>7, <2>8, <2>9, <2>10 DEF Sane
<1>  QED  BY <1>3, <1>4, <1>5

LEMMA AfterIs ==
    ASSUME NEW millis \in 0 .. MaxMillis, NEW interval \in Nat
    PROVE  /\ After(millis, interval) \in Options(0 .. MaxMillis)
           /\ millis + interval <= MaxMillis =>
                 After(millis, interval) = {millis + interval}
<1>1. millis + interval <= MaxMillis => millis + interval \in 0 .. MaxMillis
    BY Constants
<1>2. CASE millis + interval <= MaxMillis
  <2>1. After(millis, interval) = {millis + interval}
      BY <1>2, Constants DEF After
  <2>  QED  BY <1>1, <1>2, <2>1 DEF Options
<1>3. CASE ~(millis + interval <= MaxMillis)
  <2>1. After(millis, interval) = {}
      BY <1>3, Constants DEF After
  <2>  QED  BY <1>3, <2>1 DEF Options
<1>  QED  BY <1>2, <1>3

Unshown(a) == [a EXCEPT !.desired_state = {}, !.last_local_publish_millis = {}]

LEMMA UnshownFields ==
    ASSUME NEW a \in Awarenesses
    PROVE  /\ Unshown(a) \in Awarenesses
           /\ Unshown(a).desired_state = {}
           /\ Unshown(a).pending_withdrawal = a.pending_withdrawal
           /\ Unshown(a).now_millis = a.now_millis
           /\ Unshown(a).last_local_publish_millis = {}
           /\ Unshown(a).peer_activity = a.peer_activity
<1>1. {} \in Options(States) /\ {} \in Options(0 .. MaxMillis)
    BY DEF Options
<1>  QED  BY <1>1 DEF Unshown, Awarenesses

Kept(a, withdrawals) == [a EXCEPT !.pending_withdrawal = withdrawals]

LEMMA KeptFields ==
    ASSUME NEW a \in Awarenesses, NEW withdrawals \in Options(Withdrawals)
    PROVE  /\ Kept(a, withdrawals) \in Awarenesses
           /\ Kept(a, withdrawals).desired_state = a.desired_state
           /\ Kept(a, withdrawals).pending_withdrawal = withdrawals
           /\ Kept(a, withdrawals).now_millis = a.now_millis
           /\ Kept(a, withdrawals).last_local_publish_millis =
                 a.last_local_publish_millis
           /\ Kept(a, withdrawals).peer_activity = a.peer_activity
    BY DEF Kept, Awarenesses

LEMMA WithdrawalIs ==
    ASSUME NEW entry \in Sound, NEW millis \in 0 .. MaxMillis
    PROVE  LET w == [entry |-> entry, retry |-> After(millis, RenewalInterval)]
           IN  {w} \in Options(Withdrawals) /\ w.entry = entry
<1>  DEFINE retry == After(millis, RenewalInterval)
            w == [entry |-> entry, retry |-> retry]
<1>1. retry \in Options(0 .. MaxMillis)
    BY Constants, AfterIs
<1>  HIDE DEF retry
<1>2. w \in Withdrawals /\ w.entry = entry
    BY <1>1 DEF Withdrawals
<1>  HIDE DEF w
<1>3. {w} \in Options(Withdrawals)
    BY <1>2 DEF Options
<1>  QED  BY <1>2, <1>3 DEF w, retry

(* A session that shows nothing keeps its tombstone or has it queued.      *)
LEMMA WithdrawsCoherently ==
    ASSUME NEW s, NEW r \in Sound, NEW f, NEW e, Coherent(s, r, f, e),
           NEW w \in Sessions, Quiet(s, w),
           w.codec = Withdraw(s.codec),
           w.awareness.desired_state = {},
           \A p \in w.awareness.pending_withdrawal : p.entry = w.codec.local,
           OutboxSane(w.outbox, f),
           \A m \in Queued(w.outbox) :
              m \in Queued(s.outbox) \/ m.id = {w.codec.local},
           Bounded(w.transport, w.outbox, e),
           \/ w.awareness.pending_withdrawal # {}
           \/ Carried(w.outbox, w.codec.local)
    PROVE  Coherent(w, r, f, e) /\ PresenceIsShown(w, r)
<1>1. /\ s.codec \in Codecs /\ s.outbox \in Outboxes
      /\ w.codec \in Codecs /\ w.outbox \in Outboxes
    BY CoherentFacts, SessionFields
<1>2. /\ w.codec.remote = s.codec.remote
      /\ w.codec.local.state = {}
      /\ Within(s.codec.local, w.codec.local)
  <2>  DEFINE k == Withdraw(s.codec)
  <2>1. /\ k.remote = s.codec.remote /\ k.local.state = {}
        /\ Within(s.codec.local, k.local)
      BY <1>1, Withdraws
  <2>2. w.codec = k
      OBVIOUS
  <2>  HIDE DEF k
  <2>  QED  BY <2>1, <2>2
<1>3. NewestAttempt(w.transport)
    BY DEF Quiet, Coherent
<1>4. IntentIsShown(w.awareness, w.codec)
    BY <1>2 DEF IntentIsShown
<1>5. PeersFollowed(w)
    BY <1>2 DEF Quiet, Coherent, PeersFollowed
<1>6. NewestIsOwn(w.outbox, w.codec, r)
  <2>1. \A m \in Queued(w.outbox) :
           \/ m \in Queued(s.outbox)
           \/ m.id \subseteq {s.codec.local, w.codec.local}
      OBVIOUS
  <2>2. NewestIsOwn(s.outbox, s.codec, r)
      BY DEF Coherent
  <2>  QED  BY <1>1, <1>2, <2>1, <2>2, OwnAdvances
<1>7. WithdrawalIsKept(w.awareness, w.outbox, w.codec, r)
    BY DEF WithdrawalIsKept
<1>8. Coherent(w, r, f, e)
    BY <1>3, <1>4, <1>5, <1>6, <1>7 DEF Coherent
<1>  QED  BY <1>8 DEF PresenceIsShown

LEMMA WithdrawingIsCounted ==
    ASSUME NEW s, NEW r, NEW f, NEW e, NEW c \in Nat, Sane(s, r, f, e, c), Roomy,
           NEW w, Quiet(s, w), w.codec = Withdraw(s.codec),
           w.awareness.desired_state = {},
           w.awareness.last_local_publish_millis \subseteq
              s.awareness.last_local_publish_millis
    PROVE  ClockIsBounded(w, c)
<1>1. /\ w.transport = s.transport
      /\ w.awareness.now_millis = s.awareness.now_millis
    BY DEF Quiet
<1>2. Latest(w) = {s.awareness.now_millis}
    BY <1>1 DEF Latest
<1>  DEFINE now_ == s.awareness.now_millis
            l == s.transport.last_issued
<1>3. /\ s.codec.local.clock \in Nat /\ now_ \in Nat /\ l \in Nat
      /\ s.codec \in Codecs
    BY CoherentFacts DEF Sane
<1>4. /\ w.codec.local.state = {}
      /\ w.codec.local.clock =
            s.codec.local.clock + (IF s.codec.local.state = {} THEN 0 ELSE 1)
  <2>  DEFINE k == Withdraw(s.codec)
  <2>1. /\ k.local.state = {}
        /\ k.local.clock =
              s.codec.local.clock + (IF s.codec.local.state = {} THEN 0 ELSE 1)
      BY <1>3, Withdraws
  <2>2. w.codec = k
      OBVIOUS
  <2>  HIDE DEF k
  <2>  QED  BY <2>1, <2>2
<1>5. Spent(w) = Spent(s) /\ Spent(s) \in Nat
    BY <1>1, <1>3, <1>4 DEF Spent
<1>6. PICK millis \in Latest(s) : TRUE
    BY LatestFacts
<1>7. /\ millis \in Nat /\ millis <= now_
      /\ Spent(s) <= 2 * (c + l) + millis
    BY LatestFacts
<1>  HIDE DEF now_, l
<1>8. Spent(w) <= 2 * (c + l) + now_
    BY <1>3, <1>5, <1>7
<1>9. \A published \in w.awareness.last_local_publish_millis :
         published <= w.awareness.now_millis
  <2>1. ClockIsBounded(s, c)
      BY DEF Sane
  <2>  QED  BY <1>1, <2>1 DEF ClockIsBounded
<1>  QED  BY <1>1, <1>2, <1>8, <1>9 DEF ClockIsBounded, now_, l

LEMMA AwaitWithdrawalIs ==
    ASSUME NEW v \in Sessions
    PROVE  LET w == AwaitWithdrawal(v)
           IN  /\ w \in Sessions /\ w.transport = v.transport
               /\ w.outbox = v.outbox /\ w.codec = v.codec
               /\ Quiet(v, w)
               /\ w.awareness.desired_state = v.awareness.desired_state
               /\ w.awareness.last_local_publish_millis =
                     v.awareness.last_local_publish_millis
               /\ w.awareness.pending_withdrawal # {}
               /\ \A p \in w.awareness.pending_withdrawal :
                     p.entry = v.codec.local
<1>  DEFINE w == AwaitWithdrawal(v)
            p == [entry |-> v.codec.local,
                  retry |-> After(v.awareness.now_millis, RenewalInterval)]
            a == Kept(v.awareness, {p})
<1>1. /\ v.awareness \in Awarenesses /\ v.codec.local \in Sound
      /\ v.awareness.now_millis \in 0 .. MaxMillis
    BY SessionFields, CodecFields, AwarenessFields
<1>2. {p} \in Options(Withdrawals) /\ p.entry = v.codec.local
    BY <1>1, WithdrawalIs
<1>3. w = [v EXCEPT !.awareness = a]
    BY <1>1 DEF AwaitWithdrawal, Kept, Sessions, Awarenesses
<1>  HIDE DEF p
<1>4. /\ a \in Awarenesses /\ a.desired_state = v.awareness.desired_state
      /\ a.pending_withdrawal = {p}
      /\ a.now_millis = v.awareness.now_millis
      /\ a.last_local_publish_millis = v.awareness.last_local_publish_millis
      /\ a.peer_activity = v.awareness.peer_activity
    BY <1>1, <1>2, KeptFields
<1>  HIDE DEF w, a
<1>5. /\ w \in Sessions /\ w.transport = v.transport
      /\ w.outbox = v.outbox /\ w.codec = v.codec /\ w.awareness = a
    BY <1>3, <1>4 DEF Sessions
<1>6. Quiet(v, w)
    BY <1>4, <1>5 DEF Quiet
<1>  QED  BY <1>2, <1>4, <1>5, <1>6 DEF w

LEMMA Clears ==
    ASSUME NEW s, NEW r \in Sound, NEW f, NEW e \in 0 .. MaxEdits, NEW c \in Nat,
           Sane(s, r, f, e, c)
    PROVE  LET w == ClearDesired(s).session
           IN  /\ Sane(w, r, f, e, c)
               /\ Quiet(s, w)
               /\ w.awareness.desired_state = {}
<1>  DEFINE k == Withdraw(s.codec)
            b == Unshown(s.awareness)
            cleared == [s EXCEPT !.codec = k, !.awareness = b]
            entry == cleared.codec.local
            queued == EnqueueBroadcast(cleared, entry)
            o == queued.session.outbox
            result == ClearDesired(s)
            w == result.session
<1>  SUFFICES /\ Sane(w, r, f, e, c)
              /\ Quiet(s, w)
              /\ w.awareness.desired_state = {}
    OBVIOUS
<1>1. /\ Coherent(s, r, f, e) /\ s \in Sessions
      /\ s.codec \in Codecs /\ s.awareness \in Awarenesses
      /\ OutboxSane(s.outbox, f) /\ s.outbox \in Outboxes
    BY CoherentFacts DEF Sane
<1>2. CASE s.awareness.desired_state = {}
  <2>1. w = s
      BY <1>2 DEF ClearDesired
  <2>  HIDE DEF w
  <2>  QED  BY <1>2, <2>1 DEF Quiet
<1>3. CASE s.awareness.desired_state # {}
  <2>1. s.awareness.pending_withdrawal = {}
      BY <1>1, <1>3 DEF Coherent, IntentIsShown
  <2>2. /\ k \in Codecs /\ k.remote = s.codec.remote /\ k.local \in Sound
      BY <1>1, Withdraws
  <2>3. /\ b \in Awarenesses /\ b.desired_state = {}
        /\ b.pending_withdrawal = {} /\ b.now_millis = s.awareness.now_millis
        /\ b.last_local_publish_millis = {}
        /\ b.peer_activity = s.awareness.peer_activity
      BY <1>1, <2>1, UnshownFields
  <2>4. result = WithdrawDesired(cleared)
    <3>  DEFINE given == [s EXCEPT !.codec = Withdraw(@),
                                   !.awareness.desired_state = {},
                                   !.awareness.last_local_publish_millis = {}]
    <3>1. cleared = given
        BY <1>1 DEF Sessions, Awarenesses, Unshown
    <3>2. result = WithdrawDesired(given)
        BY <1>3 DEF ClearDesired
    <3>  HIDE DEF cleared, given
    <3>  QED  BY <3>1, <3>2
  <2>5. k = Withdraw(s.codec)
      OBVIOUS
  <2>  HIDE DEF k, b, result
  <2>6. /\ cleared \in Sessions /\ cleared.codec = k /\ cleared.awareness = b
        /\ cleared.outbox = s.outbox /\ cleared.transport = s.transport
      BY <1>1, <2>2, <2>3 DEF Sessions
  <2>7. Quiet(s, cleared)
      BY <2>2, <2>3, <2>6 DEF Quiet
  <2>  HIDE DEF cleared
  <2>8. Synchronized(cleared) <=> Synchronized(s)
      BY <2>6 DEF Synchronized
  <2>9. Broadcast(cleared, f, entry, queued)
    <3>1. entry \in Sound /\ OutboxSane(cleared.outbox, f)
        BY <1>1, <2>2, <2>6
    <3>  HIDE DEF entry
    <3>  QED  BY <2>6, <3>1, Enqueues
  <2>10. /\ queued.ok \in BOOLEAN
         /\ queued.session = [cleared EXCEPT !.outbox = o]
         /\ OutboxSane(o, f) /\ o \in Outboxes
         /\ \A m \in Queued(o) : m \in Queued(cleared.outbox) \/ m.id = {entry}
         /\ queued.ok => Carried(o, entry)
         /\ o.protocol = cleared.outbox.protocol
         /\ Len(Documents(o.ordered)) = Len(Documents(cleared.outbox.ordered))
         /\ Len(Broadcasts(o.ordered)) <= 2
      BY <2>9 DEF Broadcast, OutboxSane
  <2>11. entry = k.local
      BY <2>6
  <2>12. Bounded(s.transport, o, e) /\ Bounded(s.transport, s.outbox, e)
    <3>1. Bounded(s.transport, s.outbox, e)
        BY <1>1 DEF Coherent
    <3>  QED  BY <2>6, <2>10, <3>1, Zenon DEF Bounded
  <2>13. ASSUME NEW v \in Sessions, Quiet(s, v), v.codec = k,
                v.awareness.desired_state = {},
                v.awareness.last_local_publish_millis = {},
                \A p \in v.awareness.pending_withdrawal : p.entry = k.local,
                OutboxSane(v.outbox, f), Bounded(s.transport, v.outbox, e),
                \A m \in Queued(v.outbox) :
                   m \in Queued(s.outbox) \/ m.id = {k.local},
                \/ v.awareness.pending_withdrawal # {}
                \/ Carried(v.outbox, k.local)
         PROVE  Sane(v, r, f, e, c)
    <3>1. v.codec = Withdraw(s.codec) /\ Bounded(v.transport, v.outbox, e)
        BY <2>5, <2>13 DEF Quiet
    <3>2. Coherent(v, r, f, e) /\ PresenceIsShown(v, r)
        BY <1>1, <2>13, <3>1, WithdrawsCoherently
    <3>3. Roomy => ClockIsBounded(v, c)
        BY <2>13, <3>1, WithdrawingIsCounted
    <3>  QED  BY <3>2, <3>3 DEF Sane
  <2>  DEFINE v == queued.session
  <2>14. /\ v \in Sessions /\ v.transport = s.transport /\ v.codec = k
         /\ v.awareness = b /\ v.outbox = o
      BY <2>6, <2>10 DEF Sessions
  <2>15. /\ Quiet(s, v)
         /\ \A m \in Queued(o) : m \in Queued(s.outbox) \/ m.id = {k.local}
      BY <2>2, <2>3, <2>6, <2>10, <2>11, <2>14 DEF Quiet
  <2>  HIDE DEF entry, o
  <2>16. CASE Synchronized(s) /\ queued.ok
    <3>1. result = queued
        BY <2>4, <2>8, <2>16 DEF WithdrawDesired, KeepRefused, entry
    <3>2. Carried(o, k.local)
        BY <2>10, <2>11, <2>16
    <3>3. w = v
        BY <3>1
    <3>  HIDE DEF w, v
    <3>4. Sane(v, r, f, e, c)
        BY <2>3, <2>10, <2>12, <2>13, <2>14, <2>15, <3>2
    <3>  QED  BY <2>3, <2>14, <2>15, <3>3, <3>4
  <2>17. CASE Synchronized(s) /\ ~queued.ok
    <3>1. w = AwaitWithdrawal(v)
      <4>1. result = [queued EXCEPT !.session = AwaitWithdrawal(@)]
          BY <2>4, <2>8, <2>17 DEF WithdrawDesired, KeepRefused, entry
      <4>2. DOMAIN queued = {"ok", "session"}
          BY DEF EnqueueBroadcast, InstallBroadcast
      <4>  HIDE DEF queued
      <4>  QED  BY <4>1, <4>2
    <3>  HIDE DEF w, v
    <3>2. /\ w \in Sessions /\ w.transport = v.transport
          /\ w.outbox = v.outbox /\ w.codec = v.codec
          /\ Quiet(v, w)
          /\ w.awareness.desired_state = v.awareness.desired_state
          /\ w.awareness.last_local_publish_millis =
                v.awareness.last_local_publish_millis
          /\ w.awareness.pending_withdrawal # {}
          /\ \A p \in w.awareness.pending_withdrawal : p.entry = v.codec.local
        BY <2>14, <3>1, AwaitWithdrawalIs
    <3>3. Quiet(s, w)
        BY <2>15, <3>2 DEF Quiet
    <3>4. Sane(w, r, f, e, c)
        BY <2>3, <2>10, <2>12, <2>13, <2>14, <2>15, <3>2, <3>3
    <3>  QED  BY <2>3, <2>14, <3>2, <3>3, <3>4
  <2>18. CASE ~Synchronized(s)
    <3>1. w = AwaitWithdrawal(cleared)
        BY <2>4, <2>8, <2>18 DEF WithdrawDesired
    <3>  HIDE DEF w
    <3>2. /\ w \in Sessions /\ w.transport = cleared.transport
          /\ w.outbox = cleared.outbox /\ w.codec = cleared.codec
          /\ Quiet(cleared, w)
          /\ w.awareness.desired_state = cleared.awareness.desired_state
          /\ w.awareness.last_local_publish_millis =
                cleared.awareness.last_local_publish_millis
          /\ w.awareness.pending_withdrawal # {}
          /\ \A p \in w.awareness.pending_withdrawal :
                p.entry = cleared.codec.local
        BY <2>6, <3>1, AwaitWithdrawalIs
    <3>3. Quiet(s, w)
        BY <2>7, <3>2 DEF Quiet
    <3>4. Sane(w, r, f, e, c)
        BY <1>1, <2>3, <2>6, <2>12, <2>13, <3>2, <3>3
    <3>  QED  BY <2>3, <2>6, <3>2, <3>3, <3>4
  <2>  QED  BY <2>10, <2>16, <2>17, <2>18
<1>  QED  BY <1>2, <1>3

(* Peers                                                                   *)

LEMMA FunctionIs ==
    ASSUME NEW K, NEW V, NEW g
    PROVE  /\ g \in Functions(K, V) => g \in [DOMAIN g -> V] /\ DOMAIN g \subseteq K
           /\ \A D \in SUBSET K : g \in [D -> V] => g \in Functions(K, V)
    BY DEF Functions

LEMMA WithoutIs ==
    ASSUME NEW K, NEW V, NEW g \in Functions(K, V), NEW x
    PROVE  /\ Without(g, x) \in Functions(K, V)
           /\ DOMAIN Without(g, x) = DOMAIN g \ x
           /\ \A k \in DOMAIN g \ x : Without(g, x)[k] = g[k]
<1>  DEFINE h == Without(g, x)
            D == DOMAIN g \ x
<1>1. g \in [DOMAIN g -> V] /\ DOMAIN g \subseteq K
    BY FunctionIs
<1>2. h = [k \in D |-> g[k]]
    BY DEF Without
<1>3. h \in [D -> V] /\ D \in SUBSET K
    BY <1>1, <1>2
<1>4. DOMAIN h = D /\ \A k \in D : h[k] = g[k]
    BY <1>2
<1>  HIDE DEF h, D
<1>5. h \in Functions(K, V)
    BY <1>3, FunctionIs
<1>  QED  BY <1>4, <1>5 DEF h, D

LEMMA WithIs ==
    ASSUME NEW K, NEW V, NEW g \in Functions(K, V), NEW x \in SUBSET K, NEW v \in V
    PROVE  /\ With(g, x, v) \in Functions(K, V)
           /\ DOMAIN With(g, x, v) = DOMAIN g \union x
           /\ \A k \in x : With(g, x, v)[k] = v
           /\ \A k \in DOMAIN g \ x : With(g, x, v)[k] = g[k]
<1>  DEFINE h == With(g, x, v)
            D == DOMAIN g \union x
<1>1. g \in [DOMAIN g -> V] /\ DOMAIN g \subseteq K
    BY FunctionIs
<1>2. h = [k \in D |-> IF k \in x THEN v ELSE g[k]]
    BY DEF With
<1>3. h \in [D -> V] /\ D \in SUBSET K
    BY <1>1, <1>2
<1>4. /\ DOMAIN h = D
      /\ \A k \in x : h[k] = v
      /\ \A k \in DOMAIN g \ x : h[k] = g[k]
    BY <1>2
<1>  HIDE DEF h, D
<1>5. h \in Functions(K, V)
    BY <1>3, FunctionIs
<1>  QED  BY <1>4, <1>5 DEF h, D

LEMMA RemovesRemoteStates ==
    ASSUME NEW c \in Codecs, NEW x
    PROVE  LET k == RemoveRemoteStates(c, x)
           IN  /\ k \in Codecs /\ k.local = c.local
               /\ DOMAIN k.remote = DOMAIN c.remote
               /\ Live(k.remote) = Live(c.remote) \ x
<1>  DEFINE g == c.remote
            D == DOMAIN g
            h == [p \in D |-> IF p \in x /\ g[p].state # {}
                                THEN Entry(g[p].clock + 1, {}) ELSE g[p]]
            k == RemoveRemoteStates(c, x)
<1>1. g \in [D -> Sound] /\ D \in SUBSET Peers
    BY CodecFields, FunctionIs
<1>2. \A p \in D : g[p] \in Sound
    BY <1>1
<1>3. \A p \in D : g[p].state # {} =>
         /\ Entry(g[p].clock + 1, {}) \in Sound
         /\ Entry(g[p].clock + 1, {}).state = {}
  <2>  SUFFICES ASSUME NEW p \in D, g[p].state # {}
                PROVE  /\ Entry(g[p].clock + 1, {}) \in Sound
                       /\ Entry(g[p].clock + 1, {}).state = {}
      OBVIOUS
  <2>  DEFINE clock == g[p].clock + 1
  <2>1. clock \in 0 .. MaxAwarenessClock
      BY <1>2, EntryFacts, Constants
  <2>2. {} \in Options(States)
      BY DEF Options
  <2>  HIDE DEF clock
  <2>3. Entry(clock, {}) \in Sound /\ Entry(clock, {}).state = {}
      BY <2>1, <2>2, EntryIs
  <2>  QED  BY <2>3 DEF clock
<1>4. \A p \in D : h[p] = IF p \in x /\ g[p].state # {}
                            THEN Entry(g[p].clock + 1, {}) ELSE g[p]
    OBVIOUS
<1>5. DOMAIN h = D /\ h = [p \in D |-> h[p]]
    OBVIOUS
<1>6. k = [c EXCEPT !.remote = h]
    BY DEF RemoveRemoteStates
<1>  HIDE DEF h, g, k, D
<1>7. \A p \in D : h[p] \in Sound
    BY <1>2, <1>3, <1>4
<1>8. h \in [D -> Sound]
    BY <1>5, <1>7
<1>9. h \in Functions(Peers, Sound)
    BY <1>1, <1>8, FunctionIs
<1>10. k \in Codecs /\ k.local = c.local /\ k.remote = h
    BY <1>6, <1>9 DEF Codecs
<1>11. \A p \in D : h[p].state # {} <=> g[p].state # {} /\ p \notin x
    BY <1>3, <1>4
<1>12. Live(h) = Live(g) \ x
    BY <1>5, <1>11 DEF Live, D
<1>  QED  BY <1>5, <1>10, <1>12 DEF k, g, D

LEMMA FewerPeers ==
    ASSUME NEW D \in SUBSET Peers, NEW E \in SUBSET D,
           Cardinality(D) + 1 <= MaxAwarenessStates
    PROVE  Cardinality(E) + 1 <= MaxAwarenessStates
<1>1. IsFiniteSet(D)
    BY AwarenessAssumption, FS_Subset
<1>2. /\ Cardinality(E) <= Cardinality(D)
      /\ Cardinality(D) \in Nat /\ Cardinality(E) \in Nat
    BY <1>1, FS_Subset, FS_CardinalityType
<1>  QED  BY <1>2, Constants

(* The tick drops the peers that were silent.                              *)
Aged(a, now_millis, expired) ==
    [a EXCEPT !.now_millis = now_millis, !.peer_activity = Without(@, expired)]

(* Only the silent peers are gone.                                         *)
Faded(s, w, now_millis) ==
    /\ w.transport = s.transport /\ w.outbox = s.outbox
    /\ w.codec.local = s.codec.local
    /\ w.awareness.now_millis = now_millis
    /\ w.awareness.desired_state = s.awareness.desired_state
    /\ w.awareness.pending_withdrawal = s.awareness.pending_withdrawal
    /\ w.awareness.last_local_publish_millis =
          s.awareness.last_local_publish_millis
    /\ Live(w.codec.remote) \subseteq Live(s.codec.remote)
    /\ \A p \in Live(w.codec.remote) :
          /\ w.awareness.peer_activity[p] = s.awareness.peer_activity[p]
          /\ now_millis < s.awareness.peer_activity[p] + ExpiryInterval

LEMMA Expires ==
    ASSUME NEW s, NEW r \in Sound, NEW f, NEW e, NEW c \in Nat,
           Sane(s, r, f, e, c), NEW now_millis \in 0 .. MaxMillis,
           s.awareness.now_millis <= now_millis
    PROVE  LET w == ExpirePeers([s EXCEPT !.awareness.now_millis = now_millis],
                                Expired(s, now_millis))
           IN  Sane(w, r, f, e, c) /\ Faded(s, w, now_millis)
<1>  DEFINE x == Expired(s, now_millis)
            k == RemoveRemoteStates(s.codec, x)
            a == s.awareness
            b == Aged(a, now_millis, x)
            w == ExpirePeers([s EXCEPT !.awareness.now_millis = now_millis], x)
<1>  SUFFICES Sane(w, r, f, e, c) /\ Faded(s, w, now_millis)
    OBVIOUS
<1>1. /\ Coherent(s, r, f, e) /\ s \in Sessions
      /\ s.codec \in Codecs /\ a \in Awarenesses
      /\ OutboxSane(s.outbox, f) /\ s.outbox \in Outboxes
    BY CoherentFacts DEF Sane
<1>2. /\ a.peer_activity \in Functions(Peers, 0 .. MaxMillis)
      /\ DOMAIN a.peer_activity = Live(s.codec.remote)
      /\ \A p \in Live(s.codec.remote) : a.peer_activity[p] \in 0 .. MaxMillis
  <2>1. a.peer_activity \in Functions(Peers, 0 .. MaxMillis)
      BY <1>1, AwarenessFields
  <2>2. DOMAIN a.peer_activity = Live(s.codec.remote)
      BY <1>1 DEF Coherent, PeersFollowed
  <2>  DEFINE g == a.peer_activity
  <2>3. g \in [DOMAIN g -> 0 .. MaxMillis]
      BY <2>1, FunctionIs
  <2>  QED  BY <2>1, <2>2, <2>3
<1>3. /\ k \in Codecs /\ k.local = s.codec.local
      /\ DOMAIN k.remote = DOMAIN s.codec.remote
      /\ Live(k.remote) = Live(s.codec.remote) \ x
    BY <1>1, RemovesRemoteStates
<1>4. /\ b \in Awarenesses /\ b.now_millis = now_millis
      /\ b.desired_state = a.desired_state
      /\ b.pending_withdrawal = a.pending_withdrawal
      /\ b.last_local_publish_millis = a.last_local_publish_millis
      /\ b.peer_activity = Without(a.peer_activity, x)
  <2>  DEFINE g == Without(a.peer_activity, x)
  <2>1. g \in Functions(Peers, 0 .. MaxMillis)
      BY <1>2, WithoutIs
  <2>2. b = [a EXCEPT !.now_millis = now_millis, !.peer_activity = g]
      BY DEF Aged
  <2>  HIDE DEF b, g, a, x
  <2>3. /\ b \in Awarenesses /\ b.now_millis = now_millis
        /\ b.desired_state = a.desired_state
        /\ b.pending_withdrawal = a.pending_withdrawal
        /\ b.last_local_publish_millis = a.last_local_publish_millis
        /\ b.peer_activity = g
      BY <1>1, <2>1, <2>2 DEF Awarenesses
  <2>  QED  BY <2>3 DEF g
<1>5. w = [s EXCEPT !.codec = k, !.awareness = b]
    BY <1>1 DEF ExpirePeers, Aged, Sessions, Awarenesses
<1>6. /\ DOMAIN b.peer_activity = Live(k.remote)
      /\ \A p \in Live(k.remote) : b.peer_activity[p] = a.peer_activity[p]
  <2>  DEFINE g == a.peer_activity
              h == Without(g, x)
  <2>  HIDE DEF x
  <2>1. DOMAIN h = DOMAIN g \ x /\ \A p \in DOMAIN g \ x : h[p] = g[p]
    <3>  HIDE DEF g
    <3>  QED  BY DEF Without
  <2>2. b.peer_activity = h /\ DOMAIN g = Live(s.codec.remote)
      BY <1>2, <1>4
  <2>3. Live(k.remote) = DOMAIN g \ x
      BY <1>3, <2>2
  <2>  HIDE DEF g, h, b, k, a
  <2>4. DOMAIN h = Live(k.remote) /\ \A p \in Live(k.remote) : h[p] = g[p]
      BY <2>1, <2>3
  <2>  QED  BY <2>2, <2>4 DEF g
<1>7. \A p \in Live(k.remote) : now_millis < a.peer_activity[p] + ExpiryInterval
  <2>  SUFFICES ASSUME NEW p \in Live(k.remote)
                PROVE  now_millis < a.peer_activity[p] + ExpiryInterval
      OBVIOUS
  <2>1. p \in DOMAIN a.peer_activity /\ p \notin x
      BY <1>2, <1>3
  <2>2. ~(now_millis - a.peer_activity[p] >= ExpiryInterval)
      BY <2>1 DEF Expired
  <2>3. a.peer_activity[p] \in Nat
      BY <1>2, <2>1, Constants
  <2>  DEFINE n == a.peer_activity[p]
  <2>  HIDE DEF n
  <2>4. n \in Nat /\ ~(now_millis - n >= ExpiryInterval)
      BY <2>2, <2>3 DEF n
  <2>5. now_millis < n + ExpiryInterval
      BY <2>4, Constants
  <2>  QED  BY <2>5 DEF n
<1>8. a.now_millis \in Nat /\ now_millis \in Nat /\ a.now_millis <= now_millis
    BY <1>1, AwarenessFields, Constants
<1>9. /\ w \in Sessions /\ w.codec = k /\ w.awareness = b
      /\ w.transport = s.transport /\ w.outbox = s.outbox
  <2>  HIDE DEF k, b, w, x, a
  <2>  QED  BY <1>1, <1>3, <1>4, <1>5 DEF Sessions
<1>  HIDE DEF k, b, w, x
<1>10. PeersFollowed(w)
  <2>1. PeersFollowed(s)
      BY <1>1 DEF Coherent
  <2>2. \A p \in Live(k.remote) : b.peer_activity[p] <= now_millis
    <3>  SUFFICES ASSUME NEW p \in Live(k.remote)
                  PROVE  b.peer_activity[p] <= now_millis
        OBVIOUS
    <3>  DEFINE n == a.peer_activity[p]
    <3>1. n \in Nat /\ n <= a.now_millis /\ b.peer_activity[p] = n
        BY <1>2, <1>3, <1>6, <2>1, Constants DEF PeersFollowed
    <3>  HIDE DEF n
    <3>  QED  BY <1>8, <3>1
  <2>3. k.local.state # {} => Cardinality(Live(k.remote)) + 1 <= MaxAwarenessStates
    <3>1. Live(k.remote) \in SUBSET Live(s.codec.remote)
        BY <1>3
    <3>2. Live(s.codec.remote) \in SUBSET Peers
        BY <1>1, CodecFields, FunctionIs DEF Live
    <3>  QED  BY <1>3, <2>1, <3>1, <3>2, FewerPeers DEF PeersFollowed
  <2>4. s.transport.state \notin OpenStates => DOMAIN k.remote = {}
      BY <1>3, <2>1 DEF PeersFollowed
  <2>  QED  BY <1>4, <1>6, <1>9, <2>2, <2>3, <2>4 DEF PeersFollowed
<1>11. Coherent(w, r, f, e)
    BY <1>1, <1>3, <1>4, <1>9, <1>10
    DEF Coherent, IntentIsShown, NewestIsOwn, WithdrawalIsKept
<1>12. Roomy => PresenceIsShown(w, r)
    BY <1>3, <1>4, <1>9 DEF Sane, PresenceIsShown, Synchronized
<1>13. Roomy => ClockIsBounded(w, c)
  <2>  SUFFICES ASSUME Roomy PROVE ClockIsBounded(w, c)
      OBVIOUS
  <2>1. ClockIsBounded(s, c)
      BY DEF Sane
  <2>2. Spent(w) = Spent(s)
      BY <1>3, <1>9 DEF Spent
  <2>3. \A published \in b.last_local_publish_millis : published <= now_millis
    <3>1. \A published \in a.last_local_publish_millis :
             published \in Nat /\ published <= a.now_millis
        BY <1>1, <2>1, CoherentFacts DEF ClockIsBounded
    <3>  QED  BY <1>4, <1>8, <3>1
  <2>4. ASSUME NEW millis \in Latest(w)
        PROVE  Spent(w) <= 2 * (c + s.transport.last_issued) + millis
    <3>1. CASE Synchronized(s) /\ a.desired_state # {}
      <4>1. millis \in Latest(s)
          BY <1>4, <1>9, <2>4, <3>1 DEF Latest, Synchronized
      <4>  QED  BY <2>1, <2>2, <4>1 DEF ClockIsBounded
    <3>2. CASE ~(Synchronized(s) /\ a.desired_state # {})
      <4>1. millis = now_millis /\ Latest(s) = {a.now_millis}
          BY <1>4, <1>9, <2>4, <3>2 DEF Latest, Synchronized
      <4>  DEFINE l == s.transport.last_issued
      <4>2. /\ Spent(s) <= 2 * (c + l) + a.now_millis
            /\ Spent(s) \in Nat /\ l \in Nat
          BY <1>1, <2>1, <4>1, CoherentFacts, LatestFacts DEF ClockIsBounded
      <4>  HIDE DEF l
      <4>3. Spent(s) <= 2 * (c + l) + now_millis
          BY <1>8, <4>2
      <4>  QED  BY <2>2, <4>1, <4>3 DEF l
    <3>  QED  BY <3>1, <3>2
  <2>  QED  BY <1>4, <1>9, <2>3, <2>4 DEF ClockIsBounded
<1>14. Sane(w, r, f, e, c)
    BY <1>11, <1>12, <1>13 DEF Sane
<1>  QED  BY <1>3, <1>4, <1>6, <1>7, <1>9, <1>14 DEF Faded

LEMMA Retries ==
    ASSUME NEW s, NEW r \in Sound, NEW f, NEW e \in 0 .. MaxEdits, NEW c \in Nat,
           Sane(s, r, f, e, c), Synchronized(s),
           NEW now_millis \in 0 .. MaxMillis, WithdrawalDue(s, now_millis)
    PROVE  LET result == RetryWithdrawal(s, now_millis)
               w == result.session
           IN  /\ Sane(w, r, f, e, c) /\ Quiet(s, w)
               /\ w.awareness.desired_state = {}
               /\ s.awareness.desired_state = {}
               /\ result.ok \in BOOLEAN
               /\ Roomy => result.ok
<1>  DEFINE a == s.awareness
            pending == CHOOSE x \in a.pending_withdrawal : TRUE
            entry == pending.entry
            queued == EnqueueBroadcast(s, entry)
            o == queued.session.outbox
            later == [pending EXCEPT !.retry = After(now_millis, RenewalInterval)]
            kept == IF queued.ok THEN {} ELSE {later}
            result == RetryWithdrawal(s, now_millis)
            w == result.session
<1>  SUFFICES /\ Sane(w, r, f, e, c) /\ Quiet(s, w)
              /\ w.awareness.desired_state = {}
              /\ s.awareness.desired_state = {}
              /\ result.ok \in BOOLEAN
              /\ Roomy => result.ok
    OBVIOUS
<1>1. /\ Coherent(s, r, f, e) /\ s \in Sessions
      /\ s.codec \in Codecs /\ a \in Awarenesses /\ s.codec.local \in Sound
      /\ OutboxSane(s.outbox, f) /\ s.outbox \in Outboxes
    BY CoherentFacts DEF Sane
<1>2. pending \in a.pending_withdrawal
    BY DEF WithdrawalDue
<1>  HIDE DEF pending
<1>3. /\ a.desired_state = {} /\ entry = s.codec.local /\ s.codec.local.state = {}
    BY <1>1, <1>2 DEF Coherent, IntentIsShown
<1>4. pending \in Withdrawals
    BY <1>1, <1>2, AwarenessFields DEF Options
<1>5. {later} \in Options(Withdrawals) /\ later.entry = s.codec.local
  <2>  DEFINE retry == After(now_millis, RenewalInterval)
              p == [entry |-> entry, retry |-> retry]
  <2>1. later = p
      BY <1>4 DEF Withdrawals
  <2>2. {p} \in Options(Withdrawals) /\ p.entry = entry
    <3>1. entry \in Sound
        BY <1>1, <1>3
    <3>  HIDE DEF entry
    <3>  QED  BY <3>1, WithdrawalIs
  <2>  HIDE DEF later, p
  <2>  QED  BY <1>3, <2>1, <2>2
<1>6. s.codec = Withdraw(s.codec)
    BY <1>3 DEF Withdraw
<1>7. Broadcast(s, f, entry, queued) /\ (Roomy => queued.ok)
  <2>1. /\ Len(Documents(s.outbox.ordered)) <= MaxEdits
        /\ Len(s.outbox.protocol) <= MaxReplies + 2 * MaxGeneration
      BY <1>1, QueuesAreShort
  <2>2. entry \in Sound
      BY <1>1, <1>3
  <2>  HIDE DEF entry
  <2>  QED  BY <1>1, <2>1, <2>2, Enqueues
<1>8. /\ queued.ok \in BOOLEAN
      /\ queued.session = [s EXCEPT !.outbox = o]
      /\ OutboxSane(o, f) /\ o \in Outboxes
      /\ \A m \in Queued(o) : m \in Queued(s.outbox) \/ m.id = {entry}
      /\ queued.ok => Carried(o, entry)
      /\ o.protocol = s.outbox.protocol
      /\ Len(Documents(o.ordered)) = Len(Documents(s.outbox.ordered))
      /\ Len(Broadcasts(o.ordered)) <= 2
    BY <1>7 DEF Broadcast, OutboxSane
<1>9. Bounded(s.transport, o, e)
  <2>1. Bounded(s.transport, s.outbox, e)
      BY <1>1 DEF Coherent
  <2>  QED  BY <1>8, <2>1, Zenon DEF Bounded
<1>10. DOMAIN queued = {"ok", "session"}
    BY DEF EnqueueBroadcast, InstallBroadcast
<1>11. result = [queued EXCEPT !.session.awareness.pending_withdrawal = kept]
    BY DEF RetryWithdrawal, Rescheduled, pending
<1>  HIDE DEF queued, o, entry, later
<1>12. kept \in Options(Withdrawals) /\ \A p \in kept : p.entry = s.codec.local
  <2>1. {} \in Options(Withdrawals)
      BY DEF Options
  <2>  QED  BY <1>5, <2>1
<1>13. (~queued.ok) => kept # {}
    OBVIOUS
<1>  HIDE DEF kept
<1>  DEFINE b == Kept(a, kept)
<1>14. /\ b \in Awarenesses /\ b.desired_state = a.desired_state
       /\ b.pending_withdrawal = kept
       /\ b.now_millis = a.now_millis
       /\ b.last_local_publish_millis = a.last_local_publish_millis
       /\ b.peer_activity = a.peer_activity
    BY <1>1, <1>12, KeptFields
<1>15. result.ok = queued.ok /\ w = [s EXCEPT !.outbox = o, !.awareness = b]
  <2>  DEFINE v == queued.session
  <2>1. v \in Sessions /\ v.awareness = a
      BY <1>1, <1>8 DEF Sessions
  <2>2. /\ result.ok = queued.ok
        /\ w = [v EXCEPT !.awareness.pending_withdrawal = kept]
    <3>  HIDE DEF result
    <3>  QED  BY <1>10, <1>11
  <2>3. [v EXCEPT !.awareness.pending_withdrawal = kept] =
           [v EXCEPT !.awareness = b]
    <3>1. v.awareness = a
        BY <2>1
    <3>2. [v EXCEPT !.awareness.pending_withdrawal = kept] =
             [v EXCEPT !.awareness = [v.awareness EXCEPT !.pending_withdrawal = kept]]
      <4>  HIDE DEF v
      <4>  QED  BY <2>1 DEF Sessions
    <3>  HIDE DEF v
    <3>  QED  BY <3>1, <3>2 DEF Kept
  <2>  HIDE DEF w, b
  <2>4. v = [s EXCEPT !.outbox = o]
      BY <1>8
  <2>  HIDE DEF v
  <2>5. [v EXCEPT !.awareness = b] = [s EXCEPT !.outbox = o, !.awareness = b]
      BY <1>1, <2>4 DEF Sessions
  <2>  QED  BY <2>2, <2>3, <2>5
<1>  HIDE DEF w, b, result
<1>16. /\ w \in Sessions /\ w.transport = s.transport /\ w.codec = s.codec
       /\ w.awareness = b /\ w.outbox = o
  <2>  HIDE DEF a
  <2>  QED  BY <1>1, <1>8, <1>14, <1>15 DEF Sessions
<1>17. Quiet(s, w)
    BY <1>14, <1>16 DEF Quiet
<1>18. Coherent(w, r, f, e) /\ PresenceIsShown(w, r)
  <2>1. /\ w.codec = Withdraw(s.codec)
        /\ w.awareness.desired_state = {}
        /\ \A p \in w.awareness.pending_withdrawal : p.entry = w.codec.local
        /\ OutboxSane(w.outbox, f)
        /\ \A m \in Queued(w.outbox) :
              m \in Queued(s.outbox) \/ m.id = {w.codec.local}
        /\ Bounded(w.transport, w.outbox, e)
      BY <1>3, <1>6, <1>8, <1>9, <1>12, <1>14, <1>16
  <2>2. \/ w.awareness.pending_withdrawal # {}
        \/ Carried(w.outbox, w.codec.local)
      BY <1>3, <1>8, <1>13, <1>14, <1>16
  <2>  QED  BY <1>1, <1>16, <1>17, <2>1, <2>2, WithdrawsCoherently
<1>19. Roomy => ClockIsBounded(w, c)
  <2>1. /\ w.codec = Withdraw(s.codec) /\ w.awareness.desired_state = {}
        /\ w.awareness.last_local_publish_millis \subseteq
              s.awareness.last_local_publish_millis
      BY <1>3, <1>6, <1>14, <1>16
  <2>  QED  BY <1>17, <2>1, WithdrawingIsCounted
<1>  QED  BY <1>3, <1>7, <1>8, <1>14, <1>15, <1>16, <1>17, <1>18, <1>19 DEF Sane

(* A renewal is counted by the time since the last one.                    *)
LEMMA RenewalIsCounted ==
    ASSUME NEW s, NEW r, NEW f, NEW e, NEW c \in Nat, Sane(s, r, f, e, c), Roomy,
           Synchronized(s), RenewalDue(s, s.awareness.now_millis),
           NEW state, NEW w, Shows(s, state, w),
           w.awareness.last_local_publish_millis = {s.awareness.now_millis}
    PROVE  ClockIsBounded(w, c)
<1>1. /\ w.transport = s.transport
      /\ w.awareness.now_millis = s.awareness.now_millis
      /\ w.codec.local.clock = s.codec.local.clock + 1
      /\ w.codec.local.state # {} /\ w.awareness.desired_state # {}
    BY DEF Shows, Quiet
<1>2. Latest(w) = {s.awareness.now_millis}
    BY <1>1 DEF Latest, Synchronized
<1>  DEFINE now_ == s.awareness.now_millis
            l == s.transport.last_issued
<1>3. /\ s.codec.local.clock \in Nat /\ now_ \in Nat /\ l \in Nat
    BY CoherentFacts DEF Sane
<1>4. s.codec.local.state # {}
    BY DEF Sane, PresenceIsShown, RenewalDue
<1>5. Spent(w) = Spent(s) + 1 /\ Spent(s) \in Nat
    BY <1>1, <1>3, <1>4 DEF Spent
<1>6. PICK millis \in Latest(s) : TRUE
    BY LatestFacts
<1>7. /\ millis \in Nat /\ Spent(s) <= 2 * (c + l) + millis
    BY LatestFacts
<1>8. now_ - millis >= RenewalInterval
    BY <1>6 DEF Latest, RenewalDue
<1>  HIDE DEF now_, l
<1>9. Spent(w) <= 2 * (c + l) + now_
    BY <1>3, <1>5, <1>7, <1>8, Constants
<1>10. now_ <= now_
    BY <1>3
<1>  QED  BY <1>1, <1>2, <1>9, <1>10 DEF ClockIsBounded, now_, l

LEMMA Renews ==
    ASSUME NEW s, NEW r \in Sound, NEW f, NEW e \in 0 .. MaxEdits, NEW c \in Nat,
           Sane(s, r, f, e, c), Synchronized(s),
           RenewalDue(s, s.awareness.now_millis)
    PROVE  LET result == RenewLocal(s)
               w == result.session
           IN  /\ Sane(w, r, f, e, c) /\ Quiet(s, w)
               /\ w.awareness.desired_state = s.awareness.desired_state
               /\ result.ok \in BOOLEAN
               /\ (Roomy /\ CanPublish(s.codec)) => result.ok
               /\ result.ok => w.awareness.last_local_publish_millis =
                                  {s.awareness.now_millis}
<1>  DEFINE a == s.awareness
            state == CHOOSE x \in a.desired_state : TRUE
            set == [s EXCEPT !.codec = Publish(s.codec, state),
                             !.awareness = Shown(a, state)]
            sent == BroadcastLocal(set)
            result == RenewLocal(s)
            w == result.session
<1>  SUFFICES /\ Sane(w, r, f, e, c) /\ Quiet(s, w)
              /\ w.awareness.desired_state = s.awareness.desired_state
              /\ result.ok \in BOOLEAN
              /\ (Roomy /\ CanPublish(s.codec)) => result.ok
              /\ result.ok => w.awareness.last_local_publish_millis =
                                 {s.awareness.now_millis}
    OBVIOUS
<1>1. /\ Coherent(s, r, f, e) /\ s \in Sessions
      /\ s.codec \in Codecs /\ a \in Awarenesses
    BY CoherentFacts DEF Sane
<1>2. /\ state \in a.desired_state /\ a.desired_state = {state} /\ state \in States
  <2>1. state \in a.desired_state
      BY DEF RenewalDue
  <2>2. a.desired_state \in Options(States)
      BY <1>1, AwarenessFields
  <2>  HIDE DEF state
  <2>  QED  BY <2>1, <2>2 DEF Options
<1>3. a.pending_withdrawal = {}
    BY <1>1, <1>2 DEF Coherent, IntentIsShown
<1>4. result = IF CanPublish(s.codec) THEN sent ELSE [ok |-> FALSE, session |-> s]
  <2>  DEFINE given == [s EXCEPT !.codec = Publish(@, state)]
  <2>1. result = IF CanPublish(s.codec) THEN BroadcastLocal(given)
                 ELSE [ok |-> FALSE, session |-> s]
      BY DEF RenewLocal
  <2>  HIDE DEF state
  <2>2. Shown(a, state) = a
    <3>  HIDE DEF a
    <3>  QED  BY <1>1, <1>2, <1>3 DEF Shown, Awarenesses
  <2>3. set = given
      BY <1>1, <2>2 DEF Sessions
  <2>  HIDE DEF set, given, result
  <2>  QED  BY <2>1, <2>3
<1>  HIDE DEF result, state
<1>5. CASE ~CanPublish(s.codec)
  <2>1. result.ok = FALSE /\ w = s
      BY <1>4, <1>5
  <2>  HIDE DEF w
  <2>  QED  BY <1>5, <2>1 DEF Quiet
<1>6. CASE CanPublish(s.codec)
  <2>1. result = sent
      BY <1>4, <1>6
  <2>2. sent.ok \in BOOLEAN
    <3>  HIDE DEF set
    <3>1. \A entry : EnqueueBroadcast(set, entry).ok \in BOOLEAN
        BY DEF EnqueueBroadcast, InstallBroadcast
    <3>2. \A q : [q EXCEPT !.session = MarkPublished(@)].ok = q.ok
                 \/ q.ok \notin BOOLEAN
                 \/ q # [ok |-> q.ok, session |-> q.session]
        OBVIOUS
    <3>  QED  BY <3>1, <3>2 DEF BroadcastLocal, MarkSent, EnqueueBroadcast, InstallBroadcast
  <2>  HIDE DEF sent
  <2>3. /\ Coherent(w, r, f, e) /\ Shows(s, state, w)
        /\ Roomy => result.ok
        /\ result.ok =>
              /\ PresenceIsShown(w, r)
              /\ w.awareness.last_local_publish_millis = {s.awareness.now_millis}
    <3>  HIDE DEF set
    <3>1. set = [s EXCEPT !.codec = Publish(s.codec, state),
                          !.awareness = Shown(s.awareness, state)]
        BY DEF set
    <3>  QED  BY <1>1, <1>2, <1>6, <2>1, <3>1, ShowsPresence DEF sent
  <2>  HIDE DEF w
  <2>4. Roomy => ClockIsBounded(w, c)
      BY <2>3, RenewalIsCounted
  <2>5. w.awareness.desired_state = a.desired_state
      BY <1>2, <2>3 DEF Shows
  <2>  QED  BY <2>1, <2>2, <2>3, <2>4, <2>5 DEF Sane, Shows
<1>  QED  BY <1>5, <1>6

(* While clocks do not run out there is one for the next renewal.          *)
LEMMA ClocksSuffice ==
    ASSUME Ample, NEW s, NEW r, NEW f, NEW e, NEW c \in 0 .. MaxChanges,
           Sane(s, r, f, e, c), Synchronized(s), s.awareness.desired_state # {}
    PROVE  CanPublish(s.codec)
<1>1. /\ Roomy /\ PresenceIsShown(s, r) /\ PeersFollowed(s)
      /\ s.codec.local \in Sound
    BY CoherentFacts DEF Ample, Sane, Coherent
<1>2. s.codec.local.state # {}
    BY <1>1 DEF PresenceIsShown
<1>  DEFINE clock == s.codec.local.clock
            l == s.transport.last_issued
<1>3. /\ clock \in Nat /\ l \in 0 .. MaxGeneration /\ c \in Nat
      /\ s.awareness.now_millis \in 0 .. MaxMillis
    BY CoherentFacts, TransportFields, Constants DEF Sane
<1>4. Spent(s) = clock + 1
    BY <1>2, <1>3 DEF Spent, Synchronized
<1>5. PICK millis \in Latest(s) : TRUE
    BY <1>1, <1>3, LatestFacts
<1>6. /\ millis \in Nat /\ millis <= s.awareness.now_millis
      /\ Spent(s) <= 2 * (c + l) + millis
    BY <1>1, <1>3, LatestFacts
<1>7. 2 * (MaxChanges + MaxGeneration) + MaxMillis < MaxAwarenessClock
    BY DEF Ample
<1>  HIDE DEF clock, l
<1>8. clock + 1 <= 2 * (MaxChanges + MaxGeneration) + MaxMillis
  <2>1. c <= MaxChanges /\ l <= MaxGeneration /\ millis <= MaxMillis
      BY <1>3, <1>6, Constants
  <2>2. 2 * (c + l) + millis <= 2 * (MaxChanges + MaxGeneration) + MaxMillis
      BY <1>3, <1>6, <2>1, Constants
  <2>  QED  BY <1>3, <1>4, <1>6, <2>2, Constants
<1>9. clock + 2 <= MaxAwarenessClock
    BY <1>3, <1>7, <1>8, Constants
<1>10. Cardinality(Live(s.codec.remote)) + 1 <= MaxAwarenessStates
    BY <1>1, <1>2 DEF PeersFollowed
<1>  QED  BY <1>9, <1>10 DEF CanPublish, clock

LEMMA TicksLocal ==
    ASSUME NEW s, NEW r \in Sound, NEW f, NEW e \in 0 .. MaxEdits, NEW c \in Nat,
           Sane(s, r, f, e, c),
           NEW now_millis, now_millis = s.awareness.now_millis
    PROVE  LET result == TickLocal(s, now_millis)
               w == result.session
           IN  /\ Sane(w, r, f, e, c) /\ Quiet(s, w)
               /\ w.awareness.desired_state = s.awareness.desired_state
               /\ result.ok \in BOOLEAN
               /\ (Ample /\ c <= MaxChanges) => result.ok
               /\ (/\ Roomy /\ result.ok
                   /\ Synchronized(w) /\ w.awareness.desired_state # {}) =>
                     \A published \in w.awareness.last_local_publish_millis :
                         now_millis < published + RenewalInterval
<1>  DEFINE result == TickLocal(s, now_millis)
            w == result.session
<1>  SUFFICES /\ Sane(w, r, f, e, c) /\ Quiet(s, w)
              /\ w.awareness.desired_state = s.awareness.desired_state
              /\ result.ok \in BOOLEAN
              /\ (Ample /\ c <= MaxChanges) => result.ok
              /\ (/\ Roomy /\ result.ok
                  /\ Synchronized(w) /\ w.awareness.desired_state # {}) =>
                    \A published \in w.awareness.last_local_publish_millis :
                        now_millis < published + RenewalInterval
    OBVIOUS
<1>1. /\ Coherent(s, r, f, e) /\ s.awareness \in Awarenesses
      /\ now_millis \in 0 .. MaxMillis /\ now_millis \in Nat
      /\ s.awareness.last_local_publish_millis \subseteq Nat
    BY CoherentFacts DEF Sane
<1>2. Ample => Roomy
    BY DEF Ample
<1>3. CASE Synchronized(s) /\ WithdrawalDue(s, now_millis)
  <2>1. result = RetryWithdrawal(s, now_millis)
      BY <1>3 DEF TickLocal
  <2>  HIDE DEF result
  <2>2. /\ Sane(w, r, f, e, c) /\ Quiet(s, w)
        /\ w.awareness.desired_state = {}
        /\ s.awareness.desired_state = {}
        /\ result.ok \in BOOLEAN
        /\ Roomy => result.ok
      BY <1>1, <1>3, <2>1, Retries
  <2>  QED  BY <1>2, <2>2
<1>4. CASE /\ Synchronized(s) /\ ~WithdrawalDue(s, now_millis)
           /\ RenewalDue(s, now_millis)
  <2>1. result = RenewLocal(s)
      BY <1>4 DEF TickLocal
  <2>  HIDE DEF result
  <2>2. /\ Sane(w, r, f, e, c) /\ Quiet(s, w)
        /\ w.awareness.desired_state = s.awareness.desired_state
        /\ result.ok \in BOOLEAN
        /\ (Roomy /\ CanPublish(s.codec)) => result.ok
        /\ result.ok => w.awareness.last_local_publish_millis =
                           {s.awareness.now_millis}
      BY <1>4, <2>1, Renews
  <2>3. (Ample /\ c <= MaxChanges) => CanPublish(s.codec)
    <3>1. c <= MaxChanges => c \in 0 .. MaxChanges
        BY Constants
    <3>  QED  BY <1>4, <3>1, ClocksSuffice DEF RenewalDue
  <2>4. now_millis < now_millis + RenewalInterval
      BY <1>1, Constants
  <2>  QED  BY <1>2, <2>2, <2>3, <2>4
<1>5. CASE ~Synchronized(s) \/ (/\ ~WithdrawalDue(s, now_millis)
                                /\ ~RenewalDue(s, now_millis))
  <2>1. result = [ok |-> TRUE, session |-> s]
      BY <1>5 DEF TickLocal
  <2>2. result.ok = TRUE /\ w = s
      BY <2>1
  <2>  HIDE DEF result, w
  <2>3. ASSUME Synchronized(s), s.awareness.desired_state # {},
               NEW published \in s.awareness.last_local_publish_millis
        PROVE  now_millis < published + RenewalInterval
    <3>1. PICK p \in s.awareness.last_local_publish_millis :
              ~(now_millis - p >= RenewalInterval)
        BY <1>5, <2>3 DEF RenewalDue
    <3>2. p = published
        BY <1>1, <2>3, AwarenessFields DEF Options
    <3>3. p \in Nat
        BY <1>1
    <3>  QED  BY <1>1, <3>1, <3>2, <3>3, Constants
  <2>  QED  BY <2>2, <2>3 DEF Quiet
<1>  QED  BY <1>3, <1>4, <1>5

-----------------------------------------------------------------------------
(* Deadlines                                                               *)

LEMMA EarliestFacts ==
    ASSUME NEW D \in SUBSET Nat
    PROVE  /\ Earliest(D) \subseteq D
           /\ \A x \in D : \E d \in Earliest(D) : d <= x
<1>1. Earliest(D) \subseteq D
    BY DEF Earliest
<1>2. ASSUME NEW x \in D
      PROVE  \E d \in Earliest(D) : d <= x
  <2>1. \E d \in D : \A y \in D : d <= y
      BY <1>2, Queue!LeastNat, QueueAssumptions
  <2>  QED  BY <1>2, <2>1 DEF Earliest
<1>  QED  BY <1>1, <1>2

LEMMA Ticks ==
    ASSUME NEW s, NEW r \in Sound, NEW f, NEW e \in 0 .. MaxEdits, NEW c \in Nat,
           Sane(s, r, f, e, c), NEW now_millis \in 0 .. MaxMillis,
           s.awareness.now_millis <= now_millis
    PROVE  LET result == AwarenessTick(s, now_millis)
               w == result.session
           IN  /\ Sane(w, r, f, e, c)
               /\ w.transport = s.transport
               /\ w.awareness.now_millis = now_millis
               /\ w.awareness.desired_state = s.awareness.desired_state
               /\ Live(w.codec.remote) \subseteq Live(s.codec.remote)
               /\ \A p \in Live(w.codec.remote) :
                     /\ w.awareness.peer_activity[p] = s.awareness.peer_activity[p]
                     /\ now_millis < s.awareness.peer_activity[p] + ExpiryInterval
               /\ result.ok \in BOOLEAN
               /\ (Ample /\ c <= MaxChanges) => result.ok
               /\ (/\ Roomy /\ result.ok
                   /\ Synchronized(w) /\ w.awareness.desired_state # {}) =>
                     \A published \in w.awareness.last_local_publish_millis :
                         now_millis < published + RenewalInterval
<1>  DEFINE v == ExpirePeers([s EXCEPT !.awareness.now_millis = now_millis],
                             Expired(s, now_millis))
            result == TickLocal(v, now_millis)
            w == result.session
<1>1. AwarenessTick(s, now_millis) = result
    BY DEF AwarenessTick
<1>2. /\ Sane(v, r, f, e, c)
      /\ v.transport = s.transport
      /\ v.awareness.now_millis = now_millis
      /\ v.awareness.desired_state = s.awareness.desired_state
      /\ Live(v.codec.remote) \subseteq Live(s.codec.remote)
      /\ \A p \in Live(v.codec.remote) :
            /\ v.awareness.peer_activity[p] = s.awareness.peer_activity[p]
            /\ now_millis < s.awareness.peer_activity[p] + ExpiryInterval
  <2>1. Sane(v, r, f, e, c) /\ Faded(s, v, now_millis)
      BY Expires
  <2>  HIDE DEF v
  <2>  QED  BY <2>1 DEF Faded
<1>  HIDE DEF v
<1>3. /\ Sane(w, r, f, e, c) /\ Quiet(v, w)
      /\ w.awareness.desired_state = v.awareness.desired_state
      /\ result.ok \in BOOLEAN
      /\ (Ample /\ c <= MaxChanges) => result.ok
      /\ (/\ Roomy /\ result.ok
          /\ Synchronized(w) /\ w.awareness.desired_state # {}) =>
            \A published \in w.awareness.last_local_publish_millis :
                now_millis < published + RenewalInterval
    BY <1>2, TicksLocal
<1>  HIDE DEF result
<1>  QED  BY <1>1, <1>2, <1>3 DEF Quiet

(* A drive opens a connection where there was none.                        *)
LEMMA IssueFields ==
    ASSUME NEW t \in Transports, CanIssue(t)
    PROVE  /\ IssueGeneration(t) \in Transports
           /\ IssueGeneration(t).state = "Connecting"
           /\ IssueGeneration(t).last_issued = t.last_issued + 1
           /\ IssueGeneration(t).live_attempt = {t.last_issued + 1}
<1>  DEFINE l == t.last_issued + 1
<1>1. l \in 0 .. MaxGeneration /\ {l} \in SUBSET (1 .. MaxGeneration)
    BY TransportFields, Constants DEF CanIssue
<1>2. {} \in SUBSET (0 .. MaxMillis) /\ "Connecting" \in TransportStates
    BY DEF TransportStates, AttemptStates
<1>3. IssueGeneration(t) =
         [t EXCEPT !.last_issued = l, !.live_attempt = {l},
                   !.state = "Connecting", !.next_retry_deadline_millis = {}]
    BY DEF IssueGeneration
<1>  HIDE DEF l
<1>4. /\ IssueGeneration(t) \in Transports
      /\ IssueGeneration(t).state = "Connecting"
      /\ IssueGeneration(t).last_issued = l
      /\ IssueGeneration(t).live_attempt = {l}
    BY <1>1, <1>2, <1>3 DEF Transports
<1>  QED  BY <1>4 DEF l

LEMMA Issues ==
    ASSUME NEW s, NEW r, NEW f, NEW e, NEW c \in Nat,
           Sane(s, r, f, e, c), s.transport.state = "Disconnected",
           CanIssue(s.transport), NEW w,
           w = [s EXCEPT !.transport = IssueGeneration(s.transport)]
    PROVE  /\ Sane(w, r, f, e, c)
           /\ w.transport.state = "Connecting"
           /\ w.awareness = s.awareness /\ w.codec = s.codec
           /\ w.transport \in Transports
<1>  DEFINE t == IssueGeneration(s.transport)
            l == s.transport.last_issued
<1>1. /\ Coherent(s, r, f, e) /\ s \in Sessions /\ l \in Nat
      /\ s.transport \in Transports
    BY CoherentFacts DEF Sane
<1>2. /\ t \in Transports /\ t.state = "Connecting" /\ t.last_issued = l + 1
      /\ t.live_attempt = {l + 1}
    BY <1>1, IssueFields
<1>  HIDE DEF t, l
<1>3. /\ w \in Sessions /\ w.transport = t /\ w.outbox = s.outbox
      /\ w.awareness = s.awareness /\ w.codec = s.codec
    BY <1>1, <1>2 DEF Sessions, t
<1>4. NewestAttempt(t)
  <2>1. l + 1 > 0
      BY <1>1
  <2>  QED  BY <1>2, <2>1 DEF NewestAttempt, AttemptStates
<1>5. PeersFollowed(w)
    BY <1>1, <1>2, <1>3 DEF Coherent, PeersFollowed, OpenStates
<1>6. Bounded(t, w.outbox, e)
  <2>1. Openings(t) = Openings(s.transport)
    <3>1. Openings(t) = 2 * (l + 1) - 2
        BY <1>2 DEF Openings
    <3>2. Openings(s.transport) = 2 * l - 0
        BY DEF Openings, l
    <3>  QED  BY <1>1, <3>1, <3>2
  <2>2. Bounded(s.transport, s.outbox, e)
      BY <1>1 DEF Coherent
  <2>  QED  BY <1>3, <2>1, <2>2, Zenon DEF Bounded
<1>7. Coherent(w, r, f, e)
    BY <1>1, <1>3, <1>4, <1>5, <1>6 DEF Coherent
<1>8. PresenceIsShown(w, r)
    BY <1>2, <1>3 DEF PresenceIsShown, Synchronized
<1>9. Roomy => ClockIsBounded(w, c)
  <2>  SUFFICES ASSUME Roomy PROVE ClockIsBounded(w, c)
      OBVIOUS
  <2>1. ClockIsBounded(s, c)
      BY DEF Sane
  <2>2. Latest(w) = Latest(s)
      BY <1>2, <1>3 DEF Latest, Synchronized
  <2>3. Spent(w) = Spent(s) + 2 /\ Spent(s) \in Nat
    <3>1. s.codec.local.clock \in Nat
        BY <1>1, CoherentFacts
    <3>  QED  BY <1>2, <1>3, <3>1 DEF Spent
  <2>4. ASSUME NEW millis \in Latest(s)
        PROVE  Spent(w) <= 2 * (c + (l + 1)) + millis
    <3>1. Spent(s) <= 2 * (c + l) + millis /\ millis \in Nat
        BY LatestFacts DEF l
    <3>  QED  BY <1>1, <2>3, <3>1
  <2>  QED  BY <1>2, <1>3, <2>1, <2>2, <2>4 DEF ClockIsBounded
<1>  QED  BY <1>2, <1>3, <1>7, <1>8, <1>9 DEF Sane

LEMMA Directs ==
    ASSUME NEW s, NEW r, NEW f, NEW e, NEW c \in Nat,
           Sane(s, r, f, e, c), NEW now_millis
    PROVE  LET result == FinishDirective(s, now_millis)
               w == result.session
           IN  /\ Sane(w, r, f, e, c)
               /\ w.awareness = s.awareness /\ w.codec = s.codec
               /\ s.transport.state # "Disconnected" => w = s /\ result.ok
               /\ s.transport.state = "Disconnected" =>
                     w.transport.state \notin OpenStates
               /\ result.ok \in BOOLEAN
               /\ result.deadline \subseteq 0 .. MaxMillis
               /\ result = [ok |-> result.ok, session |-> w,
                            open |-> result.open, deadline |-> result.deadline]
<1>  DEFINE result == FinishDirective(s, now_millis)
            w == result.session
            t == s.transport
            driven == Drive(t, TRUE, now_millis)
            fails == DriveFails(t, TRUE, now_millis)
<1>  SUFFICES /\ Sane(w, r, f, e, c)
              /\ w.awareness = s.awareness /\ w.codec = s.codec
              /\ t.state # "Disconnected" => w = s /\ result.ok
              /\ t.state = "Disconnected" =>
                    w.transport.state \notin OpenStates
              /\ result.ok \in BOOLEAN
              /\ result.deadline \subseteq 0 .. MaxMillis
              /\ result = [ok |-> result.ok, session |-> w,
                           open |-> result.open, deadline |-> result.deadline]
    OBVIOUS
<1>1. s \in Sessions /\ t \in Transports
    BY CoherentFacts DEF Sane
<1>2. CASE fails
  <2>1. result = [ok |-> FALSE, session |-> s, open |-> {}, deadline |-> {}]
      BY <1>2 DEF FinishDirective, Refused
  <2>2. /\ result.ok = FALSE /\ w = s /\ result.deadline = {} /\ result.open = {}
      BY <2>1
  <2>3. t.state = "Disconnected"
      BY <1>2 DEF DriveFails, RetryDue
  <2>  HIDE DEF result, w
  <2>4. w.transport.state \notin OpenStates
      BY <2>2, <2>3 DEF OpenStates
  <2>  QED  BY <2>1, <2>2, <2>3, <2>4
<1>3. CASE ~fails
  <2>  DEFINE v == [s EXCEPT !.transport = driven]
              open == GenerationToOpen(t, driven)
              deadline == driven.next_retry_deadline_millis
  <2>1. result = [ok |-> TRUE, session |-> v, open |-> open,
                  deadline |-> deadline]
      BY <1>3 DEF FinishDirective
  <2>  HIDE DEF v, open, deadline
  <2>2. /\ result.ok = TRUE /\ w = v /\ result.deadline = deadline
        /\ result.open = open
      BY <2>1
  <2>  HIDE DEF result, w
  <2>3. CASE RetryDue(t, TRUE, now_millis) /\ CanIssue(t)
    <3>1. driven = IssueGeneration(t)
        BY <2>3 DEF Drive
    <3>2. t.state = "Disconnected"
        BY <2>3 DEF RetryDue
    <3>3. v = [s EXCEPT !.transport = IssueGeneration(s.transport)]
        BY <3>1 DEF v
    <3>4. /\ Sane(v, r, f, e, c)
          /\ v.transport.state = "Connecting"
          /\ v.awareness = s.awareness /\ v.codec = s.codec
        BY <2>3, <3>2, <3>3, Issues
    <3>5. deadline = {}
        BY <1>1, <3>1 DEF deadline, IssueGeneration, Transports
    <3>  QED  BY <2>1, <2>2, <3>2, <3>4, <3>5 DEF OpenStates
  <2>4. CASE ~(RetryDue(t, TRUE, now_millis) /\ CanIssue(t))
    <3>1. driven = t
        BY <2>4 DEF Drive
    <3>2. v = s
        BY <1>1, <3>1 DEF v, Sessions
    <3>3. deadline \subseteq 0 .. MaxMillis
        BY <1>1, <3>1, TransportFields DEF deadline
    <3>4. t.state = "Disconnected" => v.transport.state \notin OpenStates
        BY <3>2 DEF OpenStates
    <3>  QED  BY <2>1, <2>2, <3>2, <3>3, <3>4
  <2>  QED  BY <2>3, <2>4
<1>  QED  BY <1>2, <1>3

(* A deadline to come is among those set.                                  *)
Due(now_millis, millis, interval, deadlines) ==
    /\ now_millis < millis + interval
    /\ millis + interval <= MaxMillis =>
          \E deadline \in deadlines : deadline <= millis + interval

(* The directive of a session whose connection is open has its deadlines.  *)
Prompt(w, now_millis, deadlines) ==
    /\ \A p \in Live(w.codec.remote) :
          Due(now_millis, w.awareness.peer_activity[p], ExpiryInterval, deadlines)
    /\ (Synchronized(w) /\ w.awareness.desired_state # {}) =>
          \A published \in w.awareness.last_local_publish_millis :
              Due(now_millis, published, RenewalInterval, deadlines)

LEMMA AfterSubset ==
    ASSUME NEW millis \in 0 .. MaxMillis, NEW interval \in Nat
    PROVE  After(millis, interval) \subseteq 0 .. MaxMillis
    BY AfterIs DEF Options

LEMMA DeadlinesAreSet ==
    ASSUME NEW s, NEW r, NEW f, NEW e, NEW c, Sane(s, r, f, e, c)
    PROVE  /\ AwarenessDeadlines(s) \subseteq 0 .. MaxMillis
           /\ \A p \in Live(s.codec.remote) :
                 /\ s.awareness.peer_activity[p] \in 0 .. MaxMillis
                 /\ s.awareness.peer_activity[p] + ExpiryInterval <= MaxMillis =>
                       s.awareness.peer_activity[p] + ExpiryInterval
                          \in AwarenessDeadlines(s)
           /\ (Synchronized(s) /\ s.awareness.desired_state # {}) =>
                 \A published \in s.awareness.last_local_publish_millis :
                     published + RenewalInterval <= MaxMillis =>
                        published + RenewalInterval \in AwarenessDeadlines(s)
<1>  DEFINE a == s.awareness
            g == a.peer_activity
<1>1. /\ Coherent(s, r, f, e) /\ a \in Awarenesses
    BY CoherentFacts DEF Sane
<1>2. /\ g \in Functions(Peers, 0 .. MaxMillis)
      /\ a.now_millis \in 0 .. MaxMillis
      /\ a.last_local_publish_millis \subseteq 0 .. MaxMillis
      /\ a.pending_withdrawal \in Options(Withdrawals)
    BY <1>1, AwarenessFields
<1>3. DOMAIN g = Live(s.codec.remote)
    BY <1>1 DEF Coherent, PeersFollowed
<1>4. \A p \in DOMAIN g : g[p] \in 0 .. MaxMillis
  <2>1. g \in [DOMAIN g -> 0 .. MaxMillis]
    <3>  HIDE DEF g
    <3>  QED  BY <1>2, FunctionIs
  <2>  HIDE DEF g
  <2>  QED  BY <2>1
<1>  HIDE DEF g
<1>5. PeerDeadlines(s) \subseteq 0 .. MaxMillis
  <2>1. \A p \in DOMAIN g : After(g[p], ExpiryInterval) \subseteq 0 .. MaxMillis
      BY <1>4, Constants, AfterSubset
  <2>  QED  BY <2>1 DEF PeerDeadlines, g
<1>6. ASSUME NEW p \in DOMAIN g, g[p] + ExpiryInterval <= MaxMillis
      PROVE  g[p] + ExpiryInterval \in PeerDeadlines(s)
  <2>1. After(g[p], ExpiryInterval) = {g[p] + ExpiryInterval}
      BY <1>4, <1>6, Constants, AfterIs
  <2>  QED  BY <1>6, <2>1 DEF PeerDeadlines, g
<1>7. LocalDeadline(s) \subseteq 0 .. MaxMillis
  <2>1. \A w \in a.pending_withdrawal : w.retry \subseteq 0 .. MaxMillis
      BY <1>2 DEF Options, Withdrawals
  <2>2. \A published \in a.last_local_publish_millis :
           After(published, RenewalInterval) \subseteq 0 .. MaxMillis
      BY <1>2, Constants, AfterSubset
  <2>  QED  BY <1>2, <2>1, <2>2 DEF LocalDeadline
<1>8. ASSUME Synchronized(s), a.desired_state # {},
             NEW published \in a.last_local_publish_millis,
             published + RenewalInterval <= MaxMillis
      PROVE  published + RenewalInterval \in LocalDeadline(s)
  <2>1. After(published, RenewalInterval) = {published + RenewalInterval}
      BY <1>2, <1>8, Constants, AfterIs
  <2>2. LocalDeadline(s) = UNION {After(p, RenewalInterval) :
                                     p \in a.last_local_publish_millis}
      BY <1>8 DEF LocalDeadline
  <2>  QED  BY <1>8, <2>1, <2>2
<1>  QED  BY <1>3, <1>4, <1>5, <1>6, <1>7, <1>8 DEF AwarenessDeadlines, g

(* Every directive begins with a tick.  What it leaves: the session sane,  *)
(* its time the host's, no peer that was silent; a call of a connection    *)
(* that is open succeeds while clocks last, with the deadlines to come.    *)
Finished(s, r, f, e, c, now_millis, result) ==
    LET w == result.session
    IN  /\ Sane(w, r, f, e, c)
        /\ w.awareness.now_millis = now_millis
        /\ w.awareness.desired_state = s.awareness.desired_state
        /\ Live(w.codec.remote) \subseteq Live(s.codec.remote)
        /\ \A p \in Live(w.codec.remote) :
              w.awareness.peer_activity[p] = s.awareness.peer_activity[p]
        /\ s.transport.state # "Disconnected" => w.transport = s.transport
        /\ s.transport.state = "Disconnected" =>
              w.transport.state \notin OpenStates
        /\ result.ok \in BOOLEAN
        /\ result.deadline \subseteq 0 .. MaxMillis
        /\ (/\ Ample /\ c <= MaxChanges
            /\ s.transport.state # "Disconnected") => result.ok
        /\ (Roomy /\ result.ok /\ w.transport.state \in OpenStates) =>
              Prompt(w, now_millis, result.deadline)
        /\ \A p \in Live(w.codec.remote) :
              now_millis < w.awareness.peer_activity[p] + ExpiryInterval

LEMMA Finishes ==
    ASSUME NEW s, NEW r \in Sound, NEW f, NEW e \in 0 .. MaxEdits, NEW c \in Nat,
           Sane(s, r, f, e, c), NEW now_millis \in 0 .. MaxMillis,
           s.awareness.now_millis <= now_millis
    PROVE  Finished(s, r, f, e, c, now_millis, FinishPresence(s, now_millis))
<1>  DEFINE tick == AwarenessTick(s, now_millis)
            v == tick.session
            directive == FinishDirective(v, now_millis)
            D == directive.deadline \union AwarenessDeadlines(v)
            result == FinishPresence(s, now_millis)
            w == result.session
<1>  SUFFICES /\ Sane(w, r, f, e, c)
              /\ w.awareness.now_millis = now_millis
              /\ w.awareness.desired_state = s.awareness.desired_state
              /\ Live(w.codec.remote) \subseteq Live(s.codec.remote)
              /\ \A p \in Live(w.codec.remote) :
                    w.awareness.peer_activity[p] = s.awareness.peer_activity[p]
              /\ s.transport.state # "Disconnected" =>
                    w.transport = s.transport
              /\ s.transport.state = "Disconnected" =>
                    w.transport.state \notin OpenStates
              /\ result.ok \in BOOLEAN
              /\ result.deadline \subseteq 0 .. MaxMillis
              /\ (/\ Ample /\ c <= MaxChanges
                  /\ s.transport.state # "Disconnected") => result.ok
              /\ (Roomy /\ result.ok /\ w.transport.state \in OpenStates) =>
                    Prompt(w, now_millis, result.deadline)
              /\ \A p \in Live(w.codec.remote) :
                    now_millis < w.awareness.peer_activity[p] + ExpiryInterval
    BY DEF Finished
<1>1. /\ Sane(v, r, f, e, c)
      /\ v.transport = s.transport
      /\ v.awareness.now_millis = now_millis
      /\ v.awareness.desired_state = s.awareness.desired_state
      /\ Live(v.codec.remote) \subseteq Live(s.codec.remote)
      /\ \A p \in Live(v.codec.remote) :
            /\ v.awareness.peer_activity[p] = s.awareness.peer_activity[p]
            /\ now_millis < s.awareness.peer_activity[p] + ExpiryInterval
      /\ tick.ok \in BOOLEAN
      /\ (Ample /\ c <= MaxChanges) => tick.ok
      /\ (/\ Roomy /\ tick.ok
          /\ Synchronized(v) /\ v.awareness.desired_state # {}) =>
            \A published \in v.awareness.last_local_publish_millis :
                now_millis < published + RenewalInterval
    BY Ticks
<1>2. result = Directed(tick, now_millis)
    BY DEF FinishPresence
<1>  HIDE DEF tick
<1>3. CASE ~tick.ok
  <2>1. result = [ok |-> FALSE, session |-> v, open |-> {}, deadline |-> {}]
      BY <1>2, <1>3 DEF Directed, Refused
  <2>2. result.ok = FALSE /\ w = v /\ result.deadline = {}
      BY <2>1
  <2>  HIDE DEF result, w, v
  <2>3. v.transport.state = "Disconnected" => v.transport.state \notin OpenStates
      BY DEF OpenStates
  <2>  QED  BY <1>1, <1>3, <2>2, <2>3
<1>4. CASE tick.ok
  <2>  HIDE DEF v
  <2>1. /\ Sane(directive.session, r, f, e, c)
        /\ directive.session.awareness = v.awareness
        /\ directive.session.codec = v.codec
        /\ v.transport.state # "Disconnected" =>
              directive.session = v /\ directive.ok
        /\ v.transport.state = "Disconnected" =>
              directive.session.transport.state \notin OpenStates
        /\ directive.ok \in BOOLEAN
        /\ directive.deadline \subseteq 0 .. MaxMillis
        /\ directive = [ok |-> directive.ok, session |-> directive.session,
                        open |-> directive.open, deadline |-> directive.deadline]
      BY <1>1, Directs
  <2>2. result = WithDeadlines(directive, AwarenessDeadlines(v))
      BY <1>2, <1>4 DEF Directed, v
  <2>  HIDE DEF directive
  <2>3. /\ result.ok = directive.ok /\ w = directive.session
        /\ directive.ok => result.deadline = Earliest(D)
        /\ ~directive.ok => result.deadline = directive.deadline
    <3>1. CASE directive.ok
      <4>1. result = [directive EXCEPT !.deadline = Earliest(D)]
          BY <2>2, <3>1 DEF WithDeadlines
      <4>  HIDE DEF result, D
      <4>2. DOMAIN directive = {"ok", "session", "open", "deadline"}
          BY <2>1
      <4>  QED  BY <3>1, <4>1, <4>2
    <3>2. CASE ~directive.ok
      <4>1. result = directive
          BY <2>2, <3>2 DEF WithDeadlines
      <4>  HIDE DEF result
      <4>  QED  BY <3>2, <4>1
    <3>  QED  BY <2>1, <3>1, <3>2
  <2>4. /\ AwarenessDeadlines(v) \subseteq 0 .. MaxMillis
        /\ \A p \in Live(v.codec.remote) :
              /\ v.awareness.peer_activity[p] \in 0 .. MaxMillis
              /\ v.awareness.peer_activity[p] + ExpiryInterval <= MaxMillis =>
                    v.awareness.peer_activity[p] + ExpiryInterval
                       \in AwarenessDeadlines(v)
        /\ (Synchronized(v) /\ v.awareness.desired_state # {}) =>
              \A published \in v.awareness.last_local_publish_millis :
                  published + RenewalInterval <= MaxMillis =>
                     published + RenewalInterval \in AwarenessDeadlines(v)
      BY <1>1, DeadlinesAreSet
  <2>  HIDE DEF result, w
  <2>5. /\ D \subseteq 0 .. MaxMillis /\ D \in SUBSET Nat
        /\ AwarenessDeadlines(v) \subseteq D
      BY <2>1, <2>4, Constants
  <2>6. /\ Earliest(D) \subseteq D
        /\ \A x \in D : \E d \in Earliest(D) : d <= x
    <3>  HIDE DEF D
    <3>  QED  BY <2>5, EarliestFacts
  <2>  HIDE DEF D
  <2>7. result.deadline \subseteq 0 .. MaxMillis
      BY <2>1, <2>3, <2>5, <2>6
  <2>8. ASSUME Roomy, result.ok, w.transport.state \in OpenStates
        PROVE  Prompt(w, now_millis, result.deadline)
    <3>1. w = v /\ result.deadline = Earliest(D)
        BY <2>1, <2>3, <2>8
    <3>2. \A x \in AwarenessDeadlines(v) : \E d \in result.deadline : d <= x
        BY <2>5, <2>6, <3>1
    <3>3. ASSUME NEW p \in Live(v.codec.remote)
          PROVE  Due(now_millis, v.awareness.peer_activity[p], ExpiryInterval,
                     result.deadline)
        BY <1>1, <2>4, <3>2, <3>3 DEF Due
    <3>4. ASSUME Synchronized(v), v.awareness.desired_state # {},
                 NEW published \in v.awareness.last_local_publish_millis
          PROVE  Due(now_millis, published, RenewalInterval, result.deadline)
        BY <1>1, <1>4, <2>4, <2>8, <3>2, <3>4 DEF Due
    <3>  QED  BY <3>1, <3>3, <3>4 DEF Prompt
  <2>  QED  BY <1>1, <1>4, <2>1, <2>3, <2>7, <2>8
<1>  QED  BY <1>1, <1>3, <1>4

-----------------------------------------------------------------------------
(* The end of a connection *)

(* The machine of the connection is that of Transport; what is cited of it *)
(* are the types of its operations.                                        *)
Machine ==
    INSTANCE TransportProofs WITH
        transport <- session.transport, room_bound <- TRUE,
        backoff <- [failures |-> 0, closed_at |-> 0]

LEMMA MachineAssumptions ==
    /\ Machine!RetryDelaysAssumption
    /\ Machine!TransportBoundsAssumption
    BY RetryDelaysAssumption, TransportBoundsAssumption
    DEF Machine!RetryDelaysAssumption, Machine!TransportBoundsAssumption

LEMMA SameMachine ==
    /\ Transports = Machine!Transports
    /\ \A t, d, m : SocketClosed(t, d, m) = Machine!SocketClosed(t, d, m)
    /\ \A t : SocketOpened(t) = Machine!SocketOpened(t)
    /\ \A t : MarkSynchronized(t) = Machine!MarkSynchronized(t)
    /\ \A t : Detach(t) = Machine!Detach(t)
    /\ \A t : Reattach(t) = Machine!Reattach(t)
<1>1. \A t, m : RetryDeadline(t, m) = Machine!RetryDeadline(t, m)
    BY Zenon DEF RetryDeadline, Machine!RetryDeadline, Min2, Machine!Min2,
           FinalRetryDelayIndex, Machine!FinalRetryDelayIndex
<1>2. \A t, m : NextRetryAfterClose(t, m) = Machine!NextRetryAfterClose(t, m)
    BY <1>1, Zenon DEF NextRetryAfterClose, Machine!NextRetryAfterClose, Min2,
           Machine!Min2, FinalRetryDelayIndex, Machine!FinalRetryDelayIndex
<1>3. \A t, d, m : SocketClosed(t, d, m) = Machine!SocketClosed(t, d, m)
    BY <1>2, Zenon DEF SocketClosed, Machine!SocketClosed
<1>4. \A t : ResetRetryForFreshDrive(t) = Machine!ResetRetryForFreshDrive(t)
    BY Zenon DEF ResetRetryForFreshDrive, Machine!ResetRetryForFreshDrive
<1>5. Transports = Machine!Transports
    BY Zenon DEF Transports, Machine!Transports, TransportStates,
           Machine!TransportStates, AttemptStates, Machine!AttemptStates,
           FinalRetryDelayIndex, Machine!FinalRetryDelayIndex
<1>6. \A t : SocketOpened(t) = Machine!SocketOpened(t)
    BY Zenon DEF SocketOpened, Machine!SocketOpened
<1>7. \A t : MarkSynchronized(t) = Machine!MarkSynchronized(t)
    BY <1>4, Zenon DEF MarkSynchronized, Machine!MarkSynchronized
<1>8. \A t : Detach(t) = Machine!Detach(t)
    BY <1>4, Zenon DEF Detach, Machine!Detach
<1>9. \A t : Reattach(t) = Machine!Reattach(t)
    BY <1>4, Zenon DEF Reattach, Machine!Reattach
<1>  QED  BY <1>3, <1>5, <1>6, <1>7, <1>8, <1>9

(* No attempt is left.                                                     *)
Retired(t, u) ==
    /\ u \in Transports
    /\ u.last_issued = t.last_issued
    /\ u.live_attempt = {}
    /\ u.state \in {"Detached", "Disconnected", "Incompatible"}

LEMMA ClosesTransport ==
    ASSUME NEW t \in Transports, NEW d, NEW m \in 0 .. MaxMillis
    PROVE  Retired(t, SocketClosed(t, d, m))
<1>1. SocketClosed(t, d, m) \in Transports
    BY Machine!CloseType, MachineAssumptions, SameMachine
<1>2. CASE d = "Retryable"
  <2>  DEFINE n == NextRetryAfterClose(t, m)
  <2>1. /\ n.last_issued = t.last_issued
        /\ [n EXCEPT !.live_attempt = {}, !.state = "Disconnected"].last_issued
              = n.last_issued
        /\ [n EXCEPT !.live_attempt = {}, !.state = "Disconnected"].live_attempt
              = {}
        /\ [n EXCEPT !.live_attempt = {}, !.state = "Disconnected"].state
              = "Disconnected"
      BY DEF NextRetryAfterClose, Transports
  <2>  QED  BY <1>1, <1>2, <2>1 DEF SocketClosed, Retired
<1>3. CASE d # "Retryable"
    BY <1>1, <1>3 DEF SocketClosed, Retired, Transports
<1>  QED  BY <1>2, <1>3

LEMMA DetachesTransport ==
    ASSUME NEW t \in Transports, NewestAttempt(t)
    PROVE  /\ Retired(t, Detach(t))
           /\ t.state = "Detached" => Retired(t, Reattach(t))
<1>1. Detach(t) \in Transports /\ Reattach(t) \in Transports
    BY Machine!LifecycleTypes, MachineAssumptions, SameMachine
<1>2. CASE t.state = "Detached"
  <2>1. t.live_attempt = {}
      BY <1>2 DEF NewestAttempt, AttemptStates
  <2>  QED  BY <1>1, <1>2, <2>1
            DEF Detach, Reattach, ResetRetryForFreshDrive, Retired, Transports
<1>3. CASE t.state # "Detached"
    BY <1>1, <1>3 DEF Detach, ResetRetryForFreshDrive, Retired, Transports
<1>  QED  BY <1>2, <1>3

(* What the room may make of an entry when the connection ends.            *)
RoomsAfter(r) ==
    {r} \union
        IF r.state = {} THEN {}
        ELSE {Entry(r.clock, {}), Entry(r.clock + 1, {})}

LEMMA RoomsAfterFacts ==
    ASSUME NEW r \in Sound, NEW x \in RoomsAfter(r)
    PROVE  /\ x \in Sound
           /\ r.state = {} => x = r
           /\ r.state # {} =>
                 \/ x = r
                 \/ x.state = {} /\ x.clock = r.clock
                 \/ x = Entry(r.clock + 1, {}) /\ x.clock = r.clock + 1
<1>1. r.clock \in Nat /\ r.clock \in 0 .. MaxAwarenessClock
    BY EntryFacts
<1>2. CASE r.state = {}
    BY <1>2 DEF RoomsAfter
<1>3. CASE r.state # {}
  <2>  DEFINE next == r.clock + 1
  <2>1. next \in 0 .. MaxAwarenessClock
      BY <1>1, <1>3, EntryFacts, Constants
  <2>2. {} \in Options(States)
      BY DEF Options
  <2>3. x = r \/ x = Entry(r.clock, {}) \/ x = Entry(next, {})
      BY <1>3 DEF RoomsAfter
  <2>  HIDE DEF next
  <2>4. /\ Entry(r.clock, {}) \in Sound /\ Entry(r.clock, {}).clock = r.clock
        /\ Entry(r.clock, {}).state = {}
        /\ Entry(next, {}) \in Sound /\ Entry(next, {}).clock = next
      BY <1>1, <2>1, <2>2, EntryIs
  <2>  QED  BY <1>3, <2>3, <2>4 DEF next
<1>  QED  BY <1>2, <1>3

(* A tombstone the room made is not past the one the session makes.        *)
LEMMA RoomStaysBehind ==
    ASSUME NEW c \in Codecs, NEW r \in Sound, Within(r, c.local),
           NEW x \in RoomsAfter(r)
    PROVE  Within(x, Withdraw(c).local)
<1>  DEFINE l == c.local
            k == Withdraw(c).local
<1>1. l \in Sound /\ l.clock \in Nat /\ r.clock \in Nat
    BY CodecFields, EntryFacts
<1>2. /\ k \in Sound /\ Within(l, k)
      /\ l.state = {} => k = l
      /\ l.state # {} => k = Entry(l.clock + 1, {}) /\ k.clock = l.clock + 1
  <2>1. l.state = {} => k = l
      BY Withdraws
  <2>2. l.state # {} => k = Entry(l.clock + 1, {})
      BY Withdraws
  <2>3. k.clock = l.clock + (IF l.state = {} THEN 0 ELSE 1)
      BY Withdraws
  <2>4. k \in Sound /\ Within(l, k)
      BY Withdraws
  <2>  QED  BY <2>1, <2>2, <2>3, <2>4
<1>3. /\ x \in Sound /\ x.clock \in Nat
      /\ r.state = {} => x = r
      /\ r.state # {} =>
            \/ x = r
            \/ x.state = {} /\ x.clock = r.clock
            \/ x = Entry(r.clock + 1, {}) /\ x.clock = r.clock + 1
    BY RoomsAfterFacts, EntryFacts
<1>  HIDE DEF k, l
<1>4. CASE x = r
  <2>1. Within(r, l)
      BY DEF l
  <2>  QED  BY <1>1, <1>2, <1>4, <2>1, WithinFacts DEF k
<1>5. CASE x # r
  <2>1. r.state # {} /\ (x.clock = r.clock \/ x.clock = r.clock + 1)
      BY <1>3, <1>5
  <2>2. CASE r = l
    <3>1. k = Entry(r.clock + 1, {}) /\ k.clock = r.clock + 1
        BY <1>2, <2>1, <2>2
    <3>  QED  BY <1>1, <1>3, <1>5, <2>1, <3>1 DEF Within, k
  <2>3. CASE r.clock < l.clock
    <3>1. CASE l.state # {}
      <4>1. x.clock < k.clock
          BY <1>1, <1>2, <1>3, <2>1, <2>3, <3>1
      <4>  QED  BY <4>1 DEF Within, k
    <3>2. CASE l.state = {}
      <4>1. k = l /\ k = Entry(l.clock, {})
          BY <1>1, <1>2, <3>2, EntryFacts
      <4>2. CASE x.clock < l.clock
          BY <4>1, <4>2 DEF Within, k
      <4>3. CASE ~(x.clock < l.clock)
        <5>1. x.clock = r.clock + 1 /\ l.clock = r.clock + 1
            BY <1>1, <1>3, <2>1, <2>3, <4>3
        <5>2. x = Entry(l.clock, {})
          <6>1. x.clock # r.clock
              BY <1>1, <5>1
          <6>  QED  BY <1>3, <1>5, <2>1, <5>1, <6>1
        <5>  QED  BY <4>1, <5>2 DEF Within, k
      <4>  QED  BY <4>2, <4>3
    <3>  QED  BY <3>1, <3>2
  <2>4. Within(r, l)
      BY DEF l
  <2>  QED  BY <2>2, <2>3, <2>4 DEF Within
<1>  QED  BY <1>4, <1>5

(* What a session has whose connection may end at once: the connection     *)
(* need not have become what its state says.                               *)
Retirable(s, r, e, c) ==
    /\ s \in Sessions
    /\ OutboxSane(s.outbox, {})
    /\ IntentIsShown(s.awareness, s.codec)
    /\ NewestIsOwn(s.outbox, s.codec, r)
    /\ WithdrawalIsKept(s.awareness, s.outbox, s.codec, r)
    /\ Bounded(s.transport, s.outbox, e)
    /\ Roomy =>
          /\ \A published \in s.awareness.last_local_publish_millis :
                published <= s.awareness.now_millis
          /\ s.codec.local.clock + (IF s.codec.local.state = {} THEN 0 ELSE 1)
                <= 2 * (c + s.transport.last_issued) + s.awareness.now_millis

LEMMA SaneIsRetirable ==
    ASSUME NEW s, NEW r, NEW e, NEW c \in Nat, Sane(s, r, {}, e, c)
    PROVE  Retirable(s, r, e, c)
<1>1. /\ Coherent(s, r, {}, e) /\ s \in Sessions
      /\ s.codec.local.clock \in Nat /\ s.transport.last_issued \in Nat
      /\ s.awareness.now_millis \in Nat
    BY CoherentFacts DEF Sane
<1>  DEFINE clock == s.codec.local.clock
            own == IF s.codec.local.state = {} THEN 0 ELSE 1
            l == s.transport.last_issued
            m == s.awareness.now_millis
<1>2. ASSUME Roomy
      PROVE  /\ \A published \in s.awareness.last_local_publish_millis :
                   published <= m
             /\ clock + own <= 2 * (c + l) + m
  <2>1. ClockIsBounded(s, c)
      BY <1>2 DEF Sane
  <2>2. \A published \in s.awareness.last_local_publish_millis : published <= m
      BY <2>1 DEF ClockIsBounded
  <2>3. PICK millis \in Latest(s) : TRUE
      BY <1>2, LatestFacts
  <2>4. /\ millis \in Nat /\ millis <= m /\ Spent(s) <= 2 * (c + l) + millis
        /\ Spent(s) \in Nat
      BY <1>2, LatestFacts
  <2>5. clock + own <= Spent(s) /\ own \in Nat
      BY <1>1 DEF Spent
  <2>  HIDE DEF clock, own, l, m
  <2>6. clock \in Nat /\ l \in Nat /\ m \in Nat
      BY <1>1 DEF clock, l, m
  <2>7. clock + own <= 2 * (c + l) + m
      BY <2>4, <2>5, <2>6
  <2>  QED  BY <2>2, <2>7 DEF m
<1>  QED  BY <1>1, <1>2 DEF Retirable, Coherent

(* The codec and the runtime without peers.                                *)
Alone(a) == [a EXCEPT !.peer_activity = [p \in {} |-> 0]]

LEMMA AloneFields ==
    ASSUME NEW a \in Awarenesses
    PROVE  /\ Alone(a) \in Awarenesses
           /\ Alone(a).desired_state = a.desired_state
           /\ Alone(a).pending_withdrawal = a.pending_withdrawal
           /\ Alone(a).now_millis = a.now_millis
           /\ Alone(a).last_local_publish_millis = a.last_local_publish_millis
           /\ DOMAIN Alone(a).peer_activity = {}
<1>  DEFINE g == [p \in {} |-> 0]
<1>1. DOMAIN g = {} /\ g \in [{} -> 0 .. MaxMillis] /\ {} \in SUBSET Peers
    OBVIOUS
<1>2. Alone(a) = [a EXCEPT !.peer_activity = g]
    BY DEF Alone
<1>  HIDE DEF g
<1>3. g \in Functions(Peers, 0 .. MaxMillis)
    BY <1>1, FunctionIs
<1>  QED  BY <1>1, <1>2, <1>3 DEF Awarenesses

LEMMA ClearsTransportStates ==
    ASSUME NEW c \in Codecs
    PROVE  LET k == ClearTransportStates(c)
           IN  /\ k \in Codecs /\ k.local = Withdraw(c).local
               /\ DOMAIN k.remote = {} /\ Live(k.remote) = {}
<1>  DEFINE k == ClearTransportStates(c)
            g == [p \in {} |-> Entry(0, {})]
            v == Withdraw(c)
<1>1. DOMAIN g = {} /\ g \in [{} -> Sound] /\ {} \in SUBSET Peers
    OBVIOUS
<1>2. v \in Codecs
    BY Withdraws
<1>3. k = [v EXCEPT !.remote = g]
    BY DEF ClearTransportStates
<1>  HIDE DEF g, v, k
<1>4. g \in Functions(Peers, Sound) /\ Live(g) = {}
  <2>1. g \in Functions(Peers, Sound)
      BY <1>1, FunctionIs
  <2>  QED  BY <1>1, <2>1 DEF Live
<1>5. k \in Codecs /\ k.local = v.local /\ k.remote = g
    BY <1>2, <1>3, <1>4 DEF Codecs
<1>  QED  BY <1>1, <1>4, <1>5 DEF k, v

(* Whatever the room makes of the last entry, the session is sane.         *)
LEMMA Retires ==
    ASSUME NEW s, NEW r \in Sound, NEW e, NEW c \in Nat, Retirable(s, r, e, c),
           NEW v \in Sessions, Retired(s.transport, v.transport),
           v.outbox = ReleaseLease(s.outbox), v.awareness = s.awareness,
           v.codec = s.codec, NEW w, w = ClearTransportPeers(v)
    PROVE  /\ \A x \in RoomsAfter(r) : Sane(w, x, {}, e, c)
           /\ w.transport = v.transport
           /\ w.awareness.now_millis = s.awareness.now_millis
           /\ w.awareness.desired_state = s.awareness.desired_state
<1>  DEFINE t == v.transport
            k == ClearTransportStates(s.codec)
            a == Alone(s.awareness)
            o == ReleaseLease(s.outbox)
<1>1. /\ s \in Sessions /\ s.transport \in Transports /\ s.outbox \in Outboxes
      /\ s.awareness \in Awarenesses /\ s.codec \in Codecs
      /\ OutboxSane(s.outbox, {})
    BY SessionFields DEF Retirable
<1>2. /\ t \in Transports /\ t.last_issued = s.transport.last_issued
      /\ t.live_attempt = {} /\ t.state \notin AttemptStates
      /\ t.state # "Synchronized" /\ t.state # "Connecting"
      /\ t.state # "Handshaking"
    BY DEF Retired, AttemptStates
<1>3. /\ OutboxSane(o, {}) /\ o.ordered = s.outbox.ordered
      /\ o.protocol = s.outbox.protocol /\ o \in Outboxes
    BY <1>1, Releases DEF OutboxSane
<1>4. /\ k \in Codecs /\ k.local = Withdraw(s.codec).local
      /\ DOMAIN k.remote = {} /\ Live(k.remote) = {}
    BY <1>1, ClearsTransportStates
<1>5. /\ a \in Awarenesses
      /\ a.desired_state = s.awareness.desired_state
      /\ a.pending_withdrawal = s.awareness.pending_withdrawal
      /\ a.now_millis = s.awareness.now_millis
      /\ a.last_local_publish_millis = s.awareness.last_local_publish_millis
      /\ DOMAIN a.peer_activity = {}
    BY <1>1, AloneFields
<1>6. w = [v EXCEPT !.awareness = a, !.codec = k]
    BY DEF ClearTransportPeers, Alone, Sessions
<1>  HIDE DEF k, a, o
<1>7. /\ w \in Sessions /\ w.transport = t /\ w.outbox = o
      /\ w.awareness = a /\ w.codec = k
    BY <1>3, <1>4, <1>5, <1>6 DEF Sessions, o
<1>  HIDE DEF t
<1>8. /\ k.local \in Sound /\ k.local.state = {}
      /\ Within(s.codec.local, k.local)
      /\ s.codec.local.state = {} => k.local = s.codec.local
      /\ k.local.clock = s.codec.local.clock
                            + (IF s.codec.local.state = {} THEN 0 ELSE 1)
  <2>1. /\ Withdraw(s.codec).local \in Sound
        /\ Withdraw(s.codec).local.state = {}
        /\ Within(s.codec.local, Withdraw(s.codec).local)
        /\ s.codec.local.state = {} => Withdraw(s.codec) = s.codec
        /\ Withdraw(s.codec).local.clock = s.codec.local.clock
              + (IF s.codec.local.state = {} THEN 0 ELSE 1)
      BY <1>1, Withdraws
  <2>  QED  BY <1>4, <2>1
<1>9. NewestAttempt(t)
    BY <1>2 DEF NewestAttempt
<1>10. /\ s.awareness.desired_state = {} =>
              s.codec.local.state = {} /\ k.local = s.codec.local
       /\ IntentIsShown(a, k)
  <2>1. IntentIsShown(s.awareness, s.codec)
      BY DEF Retirable
  <2>  QED  BY <1>5, <1>8, <2>1 DEF IntentIsShown
<1>11. PeersFollowed(w)
    BY <1>4, <1>5, <1>7, <1>8 DEF PeersFollowed
<1>12. Queued(o) = Queued(s.outbox)
    BY <1>3 DEF Queued
<1>13. ASSUME NEW x \in RoomsAfter(r)
       PROVE  NewestIsOwn(o, k, x)
  <2>1. NewestIsOwn(s.outbox, s.codec, r)
      BY DEF Retirable
  <2>2. NewestIsOwn(o, k, r)
      BY <1>1, <1>3, <1>4, <1>8, <1>12, <2>1, OwnAdvances
  <2>3. Within(x, k.local)
      BY <1>1, <1>4, <1>13, <2>1, RoomStaysBehind DEF NewestIsOwn
  <2>  QED  BY <2>2, <2>3 DEF NewestIsOwn
<1>14. ASSUME NEW x \in RoomsAfter(r)
       PROVE  WithdrawalIsKept(a, o, k, x)
  <2>  SUFFICES ASSUME a.desired_state = {}, a.pending_withdrawal = {},
                       ~Carried(o, k.local)
                PROVE  NothingShows(o, x)
      BY DEF WithdrawalIsKept
  <2>1. WithdrawalIsKept(s.awareness, s.outbox, s.codec, r)
      BY DEF Retirable
  <2>2. ~Carried(s.outbox, s.codec.local)
      BY <1>5, <1>10, <1>12 DEF Carried
  <2>3. NothingShows(s.outbox, r)
      BY <1>5, <2>1, <2>2 DEF WithdrawalIsKept
  <2>4. x = r
      BY <1>14, <2>3, RoomsAfterFacts DEF NothingShows
  <2>  QED  BY <1>12, <2>3, <2>4 DEF NothingShows
<1>15. Bounded(t, o, e)
  <2>  DEFINE p == Len(s.outbox.protocol)
              l == s.transport.last_issued
  <2>1. p \in Nat /\ l \in Nat
    <3>1. s.outbox.protocol \in Seq(Answering)
        BY <1>1, OutboxFields
    <3>  QED  BY <1>1, <3>1, TransportFields
  <2>2. p <= MaxReplies + Openings(s.transport)
      BY DEF Retirable, Bounded
  <2>3. Openings(t) = 2 * l - 0
      BY <1>2 DEF Openings
  <2>4. Openings(s.transport) \in Int /\ Openings(s.transport) <= 2 * l
      BY <2>1 DEF Openings
  <2>5. Bounded(s.transport, s.outbox, e)
      BY DEF Retirable
  <2>  HIDE DEF p, l
  <2>6. p <= MaxReplies + Openings(t)
      BY <2>1, <2>2, <2>3, <2>4, Constants
  <2>  QED  BY <1>3, <2>5, <2>6 DEF Bounded, p
<1>16. PresenceIsShown(w, r) /\ \A x : PresenceIsShown(w, x)
    BY <1>2, <1>7 DEF PresenceIsShown, Synchronized
<1>17. Roomy => ClockIsBounded(w, c)
  <2>  SUFFICES ASSUME Roomy PROVE ClockIsBounded(w, c)
      OBVIOUS
  <2>1. Latest(w) = {s.awareness.now_millis}
      BY <1>2, <1>5, <1>7 DEF Latest, Synchronized
  <2>2. Spent(w) = k.local.clock
      BY <1>2, <1>7, <1>8, EntryFacts DEF Spent
  <2>  QED  BY <1>2, <1>5, <1>7, <1>8, <2>1, <2>2
            DEF ClockIsBounded, Retirable
<1>18. ASSUME NEW x \in RoomsAfter(r)
       PROVE  Coherent(w, x, {}, e)
    BY <1>3, <1>7, <1>9, <1>10, <1>11, <1>13, <1>14, <1>15 DEF Coherent
<1>  QED  BY <1>5, <1>7, <1>16, <1>17, <1>18 DEF Sane, t

(* What is told of a close by the host.                                    *)
LEMMA RoomsStay ==
    ASSUME NEW r
    PROVE  r \in RoomsAfter(r)
    BY DEF RoomsAfter

Ended(s, r, e, c, w) ==
    /\ \A x \in RoomsAfter(r) : Sane(w, x, {}, e, c)
    /\ w.transport.state \notin OpenStates
    /\ w.awareness.now_millis = s.awareness.now_millis

LEMMA Closes ==
    ASSUME NEW s, NEW r \in Sound, NEW e, NEW c \in Nat, Retirable(s, r, e, c),
           NEW disposition, NEW now_millis \in 0 .. MaxMillis
    PROVE  Ended(s, r, e, c, ClosePresence(s, disposition, now_millis))
<1>  DEFINE t == SocketClosed(s.transport, disposition, now_millis)
            w == ClosePresence(s, disposition, now_millis)
<1>1. s \in Sessions /\ s.transport \in Transports
    BY SessionFields DEF Retirable
<1>2. Retired(s.transport, t)
    BY <1>1, ClosesTransport
<1>  DEFINE v == CloseSession(s, disposition, now_millis)
<1>3. v = [s EXCEPT !.transport = t, !.outbox = ReleaseLease(s.outbox)]
    BY <1>1 DEF CloseSession, Sessions
<1>4. t.state \notin OpenStates
    BY <1>2 DEF Retired, OpenStates
<1>  HIDE DEF t, v, w
<1>5. /\ v \in Sessions /\ v.transport = t
      /\ v.outbox = ReleaseLease(s.outbox)
      /\ v.awareness = s.awareness /\ v.codec = s.codec
  <2>1. ReleaseLease(s.outbox) \in Outboxes /\ t \in Transports
      BY <1>2, Releases DEF Retirable, OutboxSane, Retired
  <2>  QED  BY <1>1, <1>3, <2>1 DEF Sessions
<1>6. w = ClearTransportPeers(v)
    BY DEF ClosePresence, v, w
<1>7. /\ \A x \in RoomsAfter(r) : Sane(w, x, {}, e, c)
      /\ w.transport = t
      /\ w.awareness.now_millis = s.awareness.now_millis
    BY <1>2, <1>5, <1>6, Retires
<1>  QED  BY <1>4, <1>7 DEF Ended, w

(* A close the host reports, of the newest generation: what the room made  *)
(* of the entry matters only if there was a connection.                    *)
LEMMA Reports ==
    ASSUME NEW s, NEW r \in Sound, NEW e \in 0 .. MaxEdits, NEW c \in Nat,
           Sane(s, r, {}, e, c), NEW disposition,
           NEW now_millis \in 0 .. MaxMillis,
           s.awareness.now_millis <= now_millis
    PROVE  LET result == PresenceCloseCall(s, s.transport.last_issued,
                                           disposition, now_millis)
               w == result.session
           IN  /\ s.transport.state \in AttemptStates =>
                     \A x \in RoomsAfter(r) : Sane(w, x, {}, e, c)
               /\ s.transport.state \notin AttemptStates => w = s
               /\ w.transport.state \notin OpenStates
               /\ w.awareness.now_millis <= now_millis
               /\ result.deadline \subseteq 0 .. MaxMillis
<1>  DEFINE l == s.transport.last_issued
            result == PresenceCloseCall(s, l, disposition, now_millis)
            w == result.session
            v == ClosePresence(s, disposition, now_millis)
<1>  SUFFICES /\ s.transport.state \in AttemptStates =>
                    \A x \in RoomsAfter(r) : Sane(w, x, {}, e, c)
              /\ s.transport.state \notin AttemptStates => w = s
              /\ w.transport.state \notin OpenStates
              /\ w.awareness.now_millis <= now_millis
              /\ result.deadline \subseteq 0 .. MaxMillis
    OBVIOUS
<1>1. /\ Coherent(s, r, {}, e) /\ NewestAttempt(s.transport)
      /\ s.awareness.now_millis \in Nat /\ now_millis \in Nat
  <2>1. Coherent(s, r, {}, e)
      BY DEF Sane
  <2>2. NewestAttempt(s.transport)
      BY <2>1 DEF Coherent
  <2>  QED  BY <2>1, <2>2, CoherentFacts, Constants
<1>2. ~Regresses(s, now_millis)
    BY <1>1 DEF Regresses
<1>3. CASE s.transport.state \in AttemptStates
  <2>1. IsLiveAttempt(s.transport, l)
      BY <1>1, <1>3 DEF NewestAttempt, IsLiveAttempt
  <2>2. result = FinishPresence(v, now_millis)
      BY <1>2, <2>1 DEF PresenceCloseCall
  <2>3. /\ \A x \in RoomsAfter(r) : Sane(v, x, {}, e, c)
        /\ v.transport.state \notin OpenStates
        /\ v.awareness.now_millis = s.awareness.now_millis
    <3>  HIDE DEF v
    <3>1. Retirable(s, r, e, c)
        BY SaneIsRetirable
    <3>2. Ended(s, r, e, c, v)
        BY <3>1, Closes DEF v
    <3>  QED  BY <3>2 DEF Ended
  <2>  HIDE DEF result, w, v
  <2>4. ASSUME NEW x \in RoomsAfter(r)
        PROVE  /\ Sane(w, x, {}, e, c)
               /\ w.transport.state \notin OpenStates
               /\ w.awareness.now_millis = now_millis
               /\ result.deadline \subseteq 0 .. MaxMillis
    <3>1. /\ x \in Sound /\ Sane(v, x, {}, e, c)
          /\ v.awareness.now_millis <= now_millis
        BY <2>3, <2>4, RoomsAfterFacts
    <3>2. Finished(v, x, {}, e, c, now_millis, result)
        BY <2>2, <3>1, Finishes
    <3>  QED  BY <2>3, <3>2 DEF Finished, w
  <2>5. r \in RoomsAfter(r) /\ now_millis <= now_millis
      BY <1>1, RoomsStay
  <2>  QED  BY <1>3, <2>4, <2>5
<1>4. CASE s.transport.state \notin AttemptStates
  <2>1. ~IsLiveAttempt(s.transport, l)
      BY <1>1, <1>4 DEF NewestAttempt, IsLiveAttempt
  <2>2. result = Refused(s)
      BY <2>1 DEF PresenceCloseCall
  <2>3. w = s /\ result.deadline = {}
      BY <2>2 DEF Refused
  <2>4. s.transport.state \notin OpenStates
      BY <1>4 DEF AttemptStates, OpenStates
  <2>  QED  BY <1>4, <2>3, <2>4
<1>  QED  BY <1>3, <1>4

(* The application leaves the foreground, and returns.                     *)
LEMMA Detaches ==
    ASSUME NEW s, NEW r \in Sound, NEW e, NEW c \in Nat, Sane(s, r, {}, e, c),
           NEW v \in Sessions, Retired(s.transport, v.transport),
           v.outbox = ReleaseLease(s.outbox), v.awareness = s.awareness,
           v.codec = s.codec, NEW w, w = ClearTransportPeers(v)
    PROVE  /\ \A x \in RoomsAfter(r) : Sane(w, x, {}, e, c)
           /\ w.transport.state \notin OpenStates
           /\ w.awareness.now_millis = s.awareness.now_millis
<1>1. Retirable(s, r, e, c)
    BY SaneIsRetirable
<1>2. /\ \A x \in RoomsAfter(r) : Sane(w, x, {}, e, c)
      /\ w.transport = v.transport
      /\ w.awareness.now_millis = s.awareness.now_millis
    BY <1>1, Retires
<1>  QED  BY <1>2 DEF Retired, OpenStates

-----------------------------------------------------------------------------
(* The network *)

(* A reply waits with those that wait, whatever it tells of the session.   *)
LEMMA FramesAre ==
    ASSUME NEW entries \in Options(Sound)
    PROVE  /\ ProtocolFrame(entries) \in Answering
           /\ ProtocolFrame(entries).id = entries
    BY DEF ProtocolFrame, Answering, Frames, Kinds

LEMMA OpensTransport ==
    ASSUME NEW t \in Transports, NewestAttempt(t)
    PROVE  /\ t.state = "Connecting" =>
                 /\ SocketOpened(t) \in Transports
                 /\ NewestAttempt(SocketOpened(t))
                 /\ SocketOpened(t).state = "Handshaking"
                 /\ SocketOpened(t).last_issued = t.last_issued
           /\ t.state = "Handshaking" =>
                 /\ MarkSynchronized(t) \in Transports
                 /\ NewestAttempt(MarkSynchronized(t))
                 /\ MarkSynchronized(t).state = "Synchronized"
                 /\ MarkSynchronized(t).last_issued = t.last_issued
<1>1. SocketOpened(t) \in Transports /\ MarkSynchronized(t) \in Transports
    BY Machine!LifecycleTypes, MachineAssumptions, SameMachine
<1>2. CASE t.state = "Connecting"
  <2>  DEFINE u == SocketOpened(t)
  <2>1. /\ u.state = "Handshaking" /\ u.last_issued = t.last_issued
        /\ u.live_attempt = t.live_attempt
      BY DEF SocketOpened, Transports
  <2>2. NewestAttempt(u)
    <3>  HIDE DEF u
    <3>  QED  BY <1>2, <2>1 DEF NewestAttempt, AttemptStates
  <2>  QED  BY <1>1, <1>2, <2>1, <2>2
<1>3. CASE t.state = "Handshaking"
  <2>  DEFINE u == MarkSynchronized(t)
  <2>1. /\ u.state = "Synchronized" /\ u.last_issued = t.last_issued
        /\ u.live_attempt = t.live_attempt
      BY DEF MarkSynchronized, ResetRetryForFreshDrive, Transports
  <2>2. NewestAttempt(u)
    <3>  HIDE DEF u
    <3>  QED  BY <1>3, <2>1 DEF NewestAttempt, AttemptStates
  <2>  QED  BY <1>1, <1>3, <2>1, <2>2
<1>  QED  BY <1>2, <1>3

(* What the opening installs leaves what was queued.                       *)
LEMMA Greets ==
    ASSUME NEW s, NEW r \in Sound, NEW e, NEW c \in Nat, Sane(s, r, {}, e, c),
           s.transport.state = "Connecting", NEW w,
           w = [s EXCEPT !.transport = SocketOpened(s.transport),
                         !.outbox = Install(s.outbox, "ProtocolReply",
                                            << ProtocolFrame({}) >>)]
    PROVE  /\ Sane(w, r, {}, e, c)
           /\ w.transport.state = "Handshaking"
           /\ w.awareness = s.awareness /\ w.codec = s.codec
<1>  DEFINE t == SocketOpened(s.transport)
            replies == << ProtocolFrame({}) >>
            o == Install(s.outbox, "ProtocolReply", replies)
            l == s.transport.last_issued
<1>1. /\ Coherent(s, r, {}, e) /\ s \in Sessions /\ l \in Nat
      /\ s.transport \in Transports /\ OutboxSane(s.outbox, {})
      /\ s.outbox \in Outboxes
  <2>1. Coherent(s, r, {}, e)
      BY DEF Sane
  <2>  QED  BY <2>1, CoherentFacts
<1>2. /\ t \in Transports /\ NewestAttempt(t) /\ t.state = "Handshaking"
      /\ t.last_issued = l
    BY <1>1, OpensTransport DEF Coherent
<1>3. /\ replies \in Seq(Answering) /\ Len(replies) = 1
      /\ Elements(replies) = {ProtocolFrame({})} /\ ProtocolFrame({}).id = {}
  <2>1. {} \in Options(Sound)
      BY DEF Options
  <2>2. ProtocolFrame({}) \in Answering /\ ProtocolFrame({}).id = {}
      BY <2>1, FramesAre
  <2>  QED  BY <2>2, ElementsOfFew
<1>  HIDE DEF replies
<1>4. /\ OutboxSane(o, {})
      /\ Queued(o) = Queued(s.outbox) \union {ProtocolFrame({})}
      /\ o.ordered = s.outbox.ordered
      /\ Len(o.protocol) = Len(s.outbox.protocol) + 1
  <2>1. OutboxSane(o, {}) /\ Appended(s.outbox, o, replies)
      BY <1>1, <1>3, InstallsReplies
  <2>  HIDE DEF o
  <2>  QED  BY <1>3, <2>1 DEF Appended
<1>5. w = [s EXCEPT !.transport = t, !.outbox = o]
    BY DEF replies
<1>  HIDE DEF t, o, l
<1>6. /\ w \in Sessions /\ w.transport = t /\ w.outbox = o
      /\ w.awareness = s.awareness /\ w.codec = s.codec
    BY <1>1, <1>2, <1>4, <1>5 DEF Sessions, OutboxSane
<1>7. PeersFollowed(w)
  <2>1. PeersFollowed(s)
      BY <1>1 DEF Coherent
  <2>  QED  BY <1>6, <2>1 DEF PeersFollowed, OpenStates
<1>8. /\ NewestIsOwn(o, s.codec, r)
      /\ WithdrawalIsKept(s.awareness, o, s.codec, r)
  <2>1. /\ NewestIsOwn(s.outbox, s.codec, r)
        /\ WithdrawalIsKept(s.awareness, s.outbox, s.codec, r)
      BY <1>1 DEF Coherent
  <2>2. \A m \in Queued(o) : m \in Queued(s.outbox) \/ m.id = {}
      BY <1>3, <1>4
  <2>3. Queued(s.outbox) \subseteq Queued(o)
      BY <1>4
  <2>  QED  BY <2>1, <2>2, <2>3
            DEF NewestIsOwn, WithdrawalIsKept, Carried, NothingShows
<1>9. Bounded(t, o, e)
  <2>  DEFINE p == Len(s.outbox.protocol)
  <2>1. p \in Nat
    <3>1. s.outbox.protocol \in Seq(Answering)
        BY <1>1, OutboxFields
    <3>  QED  BY <3>1
  <2>2. Bounded(s.transport, s.outbox, e)
      BY <1>1 DEF Coherent
  <2>3. p <= MaxReplies + Openings(s.transport)
      BY <2>2 DEF Bounded
  <2>4. /\ Openings(s.transport) = 2 * l - 2
        /\ Openings(t) = 2 * l - 1
      BY <1>2 DEF Openings, l
  <2>  HIDE DEF p
  <2>5. p + 1 <= MaxReplies + Openings(t)
      BY <1>1, <2>1, <2>3, <2>4, Constants
  <2>  QED  BY <1>4, <2>2, <2>5 DEF Bounded, p
<1>10. PresenceIsShown(w, r)
    BY <1>2, <1>6 DEF PresenceIsShown, Synchronized
<1>11. Roomy => ClockIsBounded(w, c)
  <2>  SUFFICES ASSUME Roomy PROVE ClockIsBounded(w, c)
      OBVIOUS
  <2>1. ClockIsBounded(s, c)
      BY DEF Sane
  <2>2. Latest(w) = Latest(s) /\ Spent(w) = Spent(s)
      BY <1>2, <1>6 DEF Latest, Synchronized, Spent
  <2>  QED  BY <1>2, <1>6, <2>1, <2>2 DEF ClockIsBounded, l
<1>12. Coherent(w, r, {}, e)
    BY <1>1, <1>2, <1>4, <1>6, <1>7, <1>8, <1>9 DEF Coherent
<1>  QED  BY <1>2, <1>6, <1>10, <1>11, <1>12 DEF Sane

(* What a call of the host's leaves while the connection is open.          *)
Returned(r, e, c, now_millis, result) ==
    LET w == result.session
    IN  /\ Sane(w, r, {}, e, c)
        /\ w.awareness.now_millis <= now_millis
        /\ result.deadline \subseteq 0 .. MaxMillis
        /\ (Roomy /\ result.ok /\ w.transport.state \in OpenStates) =>
              Prompt(w, now_millis, result.deadline)

LEMMA Opens ==
    ASSUME NEW s, NEW r \in Sound, NEW e \in 0 .. MaxEdits, NEW c \in Nat,
           Sane(s, r, {}, e, c), s.transport.state = "Connecting",
           NEW now_millis \in 0 .. MaxMillis,
           s.awareness.now_millis <= now_millis, NEW result,
           result = PresenceOpenCall(s, s.transport.last_issued, now_millis)
    PROVE  /\ Returned(r, e, c, now_millis, result)
           /\ Live(result.session.codec.remote) = {}
<1>  DEFINE v == [s EXCEPT !.transport = SocketOpened(s.transport),
                           !.outbox = Install(s.outbox, "ProtocolReply",
                                              << ProtocolFrame({}) >>)]
<1>1. s \in Sessions /\ PeersFollowed(s)
    BY DEF Sane, Coherent
<1>2. Live(s.codec.remote) = {}
    BY <1>1 DEF PeersFollowed, OpenStates, Live
<1>3. CASE result = Refused(s)
  <2>1. result.session = s /\ result.deadline = {} /\ result.ok = FALSE
      BY <1>3 DEF Refused
  <2>  QED  BY <1>2, <2>1 DEF Returned
<1>4. CASE result = FinishPresence(v, now_millis)
  <2>1. /\ Sane(v, r, {}, e, c)
        /\ v.awareness = s.awareness /\ v.codec = s.codec
    <3>  HIDE DEF v
    <3>  QED  BY Greets DEF v
  <2>  HIDE DEF v
  <2>2. v.awareness.now_millis <= now_millis
      BY <2>1
  <2>3. Finished(v, r, {}, e, c, now_millis, result)
      BY <1>4, <2>1, <2>2, Finishes
  <2>4. Live(result.session.codec.remote) \subseteq Live(v.codec.remote)
      BY <2>3 DEF Finished
  <2>5. now_millis <= now_millis
      BY Constants
  <2>  QED  BY <1>2, <2>1, <2>3, <2>4, <2>5 DEF Finished, Returned
<1>5. result = Refused(s) \/ result = FinishPresence(v, now_millis)
  <2>1. ProtocolFrame({}) = [kind |-> "ProtocolReply", id |-> {}, bytes |-> 1]
      BY DEF ProtocolFrame
  <2>  QED  BY <1>1, <2>1 DEF PresenceOpenCall, Sessions
<1>  QED  BY <1>3, <1>4, <1>5

(* What a message of the room may be.                                      *)
Clients(m) == {u.client : u \in m.awareness}

LEMMA MessageFacts ==
    ASSUME NEW m \in RoomMessages
    PROVE  /\ m.asks = FALSE /\ m.queries \in BOOLEAN /\ m.step2 \in BOOLEAN
           /\ \/ m.awareness = {}
              \/ \E client \in Peers \union {Self}, clock \in PeerClocks,
                    state \in Options(States) :
                    m.awareness = {[client |-> client,
                                    entry  |-> Entry(clock, state)]}
<1>1. /\ m.asks = FALSE /\ m.queries \in BOOLEAN /\ m.step2 \in BOOLEAN
      /\ m.awareness \in Updates
    BY DEF RoomMessages, RoomMessage
<1>2. ASSUME m.awareness # {}
      PROVE  \E client \in Peers \union {Self}, clock \in PeerClocks,
                state \in Options(States) :
                m.awareness = {[client |-> client,
                                entry  |-> Entry(clock, state)]}
    BY <1>1, <1>2 DEF Updates, Options
<1>  QED  BY <1>1, <1>2

(* A session about to answer: its entry is the one it republishes.         *)
Prepared(s, r, e, c, m, p) ==
    /\ Retirable(p, r, e, c)
    /\ p.transport = s.transport /\ p.outbox = s.outbox
    /\ p.awareness = s.awareness /\ p.codec.remote = s.codec.remote
    /\ Within(s.codec.local, p.codec.local)
    /\ ~Republishes(s, m) => p = s
    /\ Republishes(s, m) =>
          /\ p.codec.local.state # {}
          /\ p.codec.local.clock = s.codec.local.clock + 1
    /\ PeersFollowed(p)

LEMMA Prepares ==
    ASSUME NEW s, NEW r \in Sound, NEW e, NEW c \in Nat, Sane(s, r, {}, e, c),
           NEW m, Republishes(s, m) => CanPublish(s.codec),
           NEW p, p = PrepareRepublish(s, m)
    PROVE  Prepared(s, r, e, c, m, p)
<1>1. /\ Coherent(s, r, {}, e) /\ s \in Sessions /\ s.codec \in Codecs
      /\ s.outbox \in Outboxes /\ s.awareness \in Awarenesses
      /\ s.codec.local.clock \in Nat /\ s.transport.last_issued \in Nat
      /\ s.awareness.now_millis \in Nat
  <2>1. Coherent(s, r, {}, e)
      BY DEF Sane
  <2>  QED  BY <2>1, CoherentFacts
<1>2. CASE ~Republishes(s, m)
  <2>1. p = s
      BY <1>2 DEF PrepareRepublish
  <2>2. Retirable(s, r, e, c)
      BY SaneIsRetirable
  <2>  QED  BY <1>1, <1>2, <2>1, <2>2 DEF Within, Coherent, Prepared
<1>3. CASE Republishes(s, m)
  <2>  DEFINE state == CHOOSE x \in s.awareness.desired_state : TRUE
              k == Publish(s.codec, state)
  <2>1. state \in States /\ s.awareness.desired_state # {}
    <3>1. s.awareness.desired_state \in Options(States)
        BY <1>1, AwarenessFields
    <3>  QED  BY <1>3, <3>1 DEF Republishes, Options
  <2>2. p = [s EXCEPT !.codec = k]
      BY <1>3 DEF PrepareRepublish
  <2>  HIDE DEF state
  <2>3. /\ k \in Codecs /\ k.remote = s.codec.remote
        /\ k.local.clock = s.codec.local.clock + 1
        /\ k.local.state = {state} /\ Within(s.codec.local, k.local)
      BY <1>1, <1>3, <2>1, Publishes
  <2>  HIDE DEF k
  <2>4. /\ p \in Sessions /\ p.transport = s.transport
        /\ p.outbox = s.outbox /\ p.awareness = s.awareness /\ p.codec = k
      BY <1>1, <2>2, <2>3 DEF Sessions
  <2>5. NewestIsOwn(s.outbox, k, r)
    <3>1. NewestIsOwn(s.outbox, s.codec, r)
        BY <1>1 DEF Coherent
    <3>  QED  BY <1>1, <2>3, <3>1, OwnAdvances
  <2>6. IntentIsShown(s.awareness, k) /\ WithdrawalIsKept(s.awareness, s.outbox, k, r)
      BY <1>1, <2>1 DEF Coherent, IntentIsShown, WithdrawalIsKept
  <2>7. PeersFollowed(p)
    <3>1. CanPublish(s.codec) /\ PeersFollowed(s)
        BY <1>1, <1>3 DEF Coherent
    <3>  QED  BY <2>3, <2>4, <3>1 DEF PeersFollowed, CanPublish
  <2>8. ASSUME Roomy
        PROVE  /\ \A published \in s.awareness.last_local_publish_millis :
                     published <= s.awareness.now_millis
               /\ k.local.clock + 1
                     <= 2 * (c + s.transport.last_issued) + s.awareness.now_millis
    <3>1. ClockIsBounded(s, c)
        BY <2>8 DEF Sane
    <3>2. s.transport.state = "Handshaking"
        BY <1>3 DEF Republishes, Synchronizes
    <3>3. Latest(s) = {s.awareness.now_millis}
        BY <3>2 DEF Latest, Synchronized
    <3>4. /\ Spent(s) <= 2 * (c + s.transport.last_issued)
                            + s.awareness.now_millis
          /\ \A published \in s.awareness.last_local_publish_millis :
                published <= s.awareness.now_millis
        BY <3>1, <3>3 DEF ClockIsBounded
    <3>5. s.codec.local.clock + 2 <= Spent(s) /\ Spent(s) \in Nat
        BY <1>1, <3>2 DEF Spent
    <3>  DEFINE bound == 2 * (c + s.transport.last_issued) + s.awareness.now_millis
    <3>6. bound \in Nat
        BY <1>1
    <3>  HIDE DEF bound
    <3>7. k.local.clock + 1 <= bound
        BY <1>1, <2>3, <3>4, <3>5, <3>6 DEF bound
    <3>  QED  BY <3>4, <3>7 DEF bound
  <2>9. Retirable(p, r, e, c)
      BY <1>1, <2>3, <2>4, <2>5, <2>6, <2>8 DEF Retirable, Coherent
  <2>  QED  BY <1>3, <2>3, <2>4, <2>7, <2>9 DEF Prepared
<1>  QED  BY <1>2, <1>3

(* The gate changes the connection and no more.                            *)
LEMMA Gates ==
    ASSUME NEW p \in Sessions, NewestAttempt(p.transport), NEW m, NEW g,
           g = SynchronizationGate(p, m)
    PROVE  /\ g \in Sessions
           /\ g.outbox = p.outbox /\ g.awareness = p.awareness
           /\ g.codec = p.codec
           /\ NewestAttempt(g.transport)
           /\ g.transport.last_issued = p.transport.last_issued
           /\ g.transport.state = IF Synchronizes(p, m) THEN "Synchronized"
                                                        ELSE p.transport.state
           /\ ~Synchronizes(p, m) => g = p
<1>1. p.transport \in Transports
    BY SessionFields
<1>2. CASE Synchronizes(p, m)
  <2>  DEFINE t == MarkSynchronized(p.transport)
  <2>1. /\ t \in Transports /\ NewestAttempt(t) /\ t.state = "Synchronized"
        /\ t.last_issued = p.transport.last_issued
      BY <1>1, <1>2, OpensTransport DEF Synchronizes
  <2>2. g = [p EXCEPT !.transport = t, !.document_state = "RoomReady"]
      BY <1>2 DEF SynchronizationGate, Synchronizes
  <2>3. "RoomReady" \in DocumentStates
      BY DEF DocumentStates
  <2>  HIDE DEF t
  <2>4. /\ g \in Sessions /\ g.transport = t /\ g.outbox = p.outbox
        /\ g.awareness = p.awareness /\ g.codec = p.codec
      BY <2>1, <2>2, <2>3 DEF Sessions
  <2>  QED  BY <1>2, <2>1, <2>4
<1>3. CASE ~Synchronizes(p, m)
  <2>1. g = p
      BY <1>3 DEF SynchronizationGate, Synchronizes
  <2>  QED  BY <1>3, <2>1
<1>  QED  BY <1>2, <1>3

LEMMA GatedIsRetirable ==
    ASSUME NEW p, NEW r, NEW e, NEW c \in Nat, Retirable(p, r, e, c),
           NewestAttempt(p.transport), NEW m, NEW g,
           g = SynchronizationGate(p, m)
    PROVE  Retirable(g, r, e, c)
<1>1. p \in Sessions
    BY DEF Retirable
<1>2. /\ g \in Sessions
      /\ g.outbox = p.outbox /\ g.awareness = p.awareness
      /\ g.codec = p.codec
      /\ g.transport.last_issued = p.transport.last_issued
      /\ g.transport.state = IF Synchronizes(p, m) THEN "Synchronized"
                                                   ELSE p.transport.state
    BY <1>1, Gates
<1>3. Bounded(g.transport, g.outbox, e)
  <2>  DEFINE q == Len(p.outbox.protocol)
              l == p.transport.last_issued
  <2>1. q \in Nat /\ l \in Nat
    <3>1. p.outbox \in Outboxes /\ p.transport \in Transports
        BY <1>1, SessionFields
    <3>2. p.outbox.protocol \in Seq(Answering) /\ l \in 0 .. MaxGeneration
        BY <3>1, OutboxFields, TransportFields
    <3>  QED  BY <3>2
  <2>2. Bounded(p.transport, p.outbox, e)
      BY DEF Retirable
  <2>3. q <= MaxReplies + Openings(p.transport)
      BY <2>2 DEF Bounded
  <2>4. /\ Openings(p.transport) <= Openings(g.transport)
        /\ Openings(p.transport) \in Int /\ Openings(g.transport) \in Int
    <3>1. CASE Synchronizes(p, m)
      <4>1. g.transport.state = "Synchronized"
          BY <1>2, <3>1
      <4>2. Openings(g.transport) = 2 * l - 0
          BY <1>2, <4>1 DEF Openings
      <4>3. Openings(p.transport) = 2 * l - 1
          BY <3>1 DEF Openings, Synchronizes
      <4>  QED  BY <2>1, <4>2, <4>3
    <3>2. CASE ~Synchronizes(p, m)
      <4>1. Openings(g.transport) = Openings(p.transport)
          BY <1>2, <3>2 DEF Openings
      <4>2. Openings(p.transport) \in Int
          BY <2>1 DEF Openings
      <4>  QED  BY <4>1, <4>2
    <3>  QED  BY <3>1, <3>2
  <2>  HIDE DEF q
  <2>5. q <= MaxReplies + Openings(g.transport)
      BY <2>1, <2>3, <2>4, Constants
  <2>  QED  BY <1>2, <2>2, <2>5 DEF Bounded, q
<1>  QED  BY <1>2, <1>3 DEF Retirable

(* An update of the peers: of those shown, the ones it is not about were   *)
(* shown before, and when one leaves all of them.                          *)
Applied(g, clients, leaves, a) ==
    /\ a \in Sessions
    /\ a.transport = g.transport /\ a.outbox = g.outbox
    /\ a.codec.local = g.codec.local
    /\ a.awareness.desired_state = g.awareness.desired_state
    /\ a.awareness.now_millis = g.awareness.now_millis
    /\ a.awareness.pending_withdrawal = g.awareness.pending_withdrawal
    /\ a.awareness.last_local_publish_millis =
          g.awareness.last_local_publish_millis
    /\ PeersFollowed(a)
    /\ \A p \in Live(a.codec.remote) :
          p \notin clients \/ leaves =>
             /\ p \in Live(g.codec.remote)
             /\ a.awareness.peer_activity[p] = g.awareness.peer_activity[p]

(* What an update does to the entries of the peers, if it does anything.   *)
LEMMA Projects ==
    ASSUME NEW c \in Codecs, NEW client, NEW entry \in Sound,
           Projected(c, client, entry) # c.remote
    PROVE  /\ client \in Peers
           /\ Projected(c, client, entry) \in Functions(Peers, Sound)
           /\ Live(Projected(c, client, entry)) =
                 IF entry.state = {} THEN Live(c.remote) \ {client}
                                     ELSE Live(c.remote) \union {client}
<1>  DEFINE g == c.remote
            h == Projected(c, client, entry)
<1>1. client \in Peers
    BY DEF Projected
<1>2. /\ g \in Functions(Peers, Sound)
      /\ g \in [DOMAIN g -> Sound] /\ DOMAIN g \subseteq Peers
  <2>1. g \in Functions(Peers, Sound)
      BY CodecFields
  <2>  HIDE DEF g
  <2>  QED  BY <2>1, FunctionIs
<1>3. CASE client \in DOMAIN g
  <2>1. h = [g EXCEPT ![client] = entry]
      BY <1>1, <1>3 DEF Projected
  <2>  HIDE DEF g, h
  <2>2. h \in [DOMAIN g -> Sound]
      BY <1>2, <2>1
  <2>3. h \in Functions(Peers, Sound) /\ DOMAIN h = DOMAIN g
      BY <1>2, <2>2, FunctionIs
  <2>4. \A p \in DOMAIN g : h[p] = IF p = client THEN entry ELSE g[p]
      BY <1>2, <2>1
  <2>5. Live(h) = IF entry.state = {} THEN Live(g) \ {client}
                                      ELSE Live(g) \union {client}
      BY <1>3, <2>3, <2>4 DEF Live
  <2>  QED  BY <1>1, <2>3, <2>5 DEF g, h
<1>4. CASE client \notin DOMAIN g
  <2>1. entry.state # {} /\ h = With(g, {client}, entry)
      BY <1>1, <1>4 DEF Projected
  <2>2. {client} \in SUBSET Peers
      BY <1>1
  <2>  HIDE DEF g, h
  <2>3. /\ h \in Functions(Peers, Sound)
        /\ DOMAIN h = DOMAIN g \union {client}
        /\ h[client] = entry
        /\ \A p \in DOMAIN g : h[p] = g[p]
    <3>  DEFINE x == {client}
                u == With(g, x, entry)
    <3>1. x \in SUBSET Peers
        BY <2>2
    <3>  HIDE DEF x
    <3>2. u \in Functions(Peers, Sound)
        BY <1>2, <3>1, WithIs
    <3>3. /\ u \in Functions(Peers, Sound)
          /\ DOMAIN u = DOMAIN g \union x
          /\ \A k \in x : u[k] = entry
          /\ \A k \in DOMAIN g \ x : u[k] = g[k]
        BY <3>2 DEF With
    <3>4. h = u
        BY <2>1 DEF x
    <3>  HIDE DEF u
    <3>  QED  BY <1>4, <3>3, <3>4 DEF x
  <2>4. Live(h) = Live(g) \union {client}
      BY <2>1, <2>3 DEF Live
  <2>  QED  BY <1>1, <2>1, <2>3, <2>4 DEF g, h
<1>  QED  BY <1>3, <1>4

(* What admits an update bounds the states.                                *)
LEMMA Admitted ==
    ASSUME NEW c \in Codecs, NEW client, NEW clock \in Nat,
           NEW state \in Options(States), NEW entry,
           entry = Entry(clock, state), UpdateFault(c, client, entry) = "None"
    PROVE  /\ client \in Peers => entry \in Sound
           /\ c.local.state # {} =>
                 Cardinality(Live(Projected(c, client, entry))) + 1
                    <= MaxAwarenessStates
<1>1. entry.clock = clock /\ entry.state = state
    BY DEF Entry
<1>  DEFINE remote == Projected(c, client, entry)
            alive == Cardinality(Live(remote))
<1>2. /\ ~(entry.clock > (IF client \in Peers THEN MaxAwarenessClock - 1
                                              ELSE c.local.clock))
      /\ ~(alive + Cardinality(c.local.state) > MaxAwarenessStates)
    BY DEF UpdateFault
<1>3. client \in Peers => entry \in Sound
  <2>  SUFFICES ASSUME client \in Peers PROVE entry \in Sound
      OBVIOUS
  <2>1. clock \in 0 .. MaxAwarenessClock /\ clock < MaxAwarenessClock
      BY <1>1, <1>2, Constants
  <2>  QED  BY <2>1, EntryIs
<1>4. ASSUME c.local.state # {}
      PROVE  alive + 1 <= MaxAwarenessStates
  <2>1. Cardinality(c.local.state) = 1
    <3>1. c.local.state \in Options(States)
        BY CodecFields, EntryFacts
    <3>2. PICK x : c.local.state = {x}
        BY <1>4, <3>1 DEF Options
    <3>  QED  BY <3>2, FS_Singleton
  <2>2. alive \in Nat
    <3>1. remote = c.remote \/ remote \in Functions(Peers, Sound)
      <4>1. CASE client \in Peers
          BY <1>3, <4>1, Projects
      <4>2. CASE client \notin Peers
          BY <4>2 DEF Projected
      <4>  QED  BY <4>1, <4>2
    <3>2. remote \in Functions(Peers, Sound)
        BY <3>1, CodecFields
    <3>3. DOMAIN remote \subseteq Peers
      <4>  HIDE DEF remote
      <4>  QED  BY <3>2, FunctionIs
    <3>4. Live(remote) \subseteq Peers
      <4>  HIDE DEF remote
      <4>  QED  BY <3>3 DEF Live
    <3>  HIDE DEF remote
    <3>5. IsFiniteSet(Live(remote))
        BY <3>4, AwarenessAssumption, FS_Subset
    <3>  QED  BY <3>5, FS_CardinalityType
  <2>  HIDE DEF alive
  <2>3. ~(alive + 1 > MaxAwarenessStates)
      BY <1>2, <2>1
  <2>  QED  BY <2>2, <2>3, Constants
<1>  QED  BY <1>3, <1>4

(* The runtime follows the update.                                         *)
Followed(a, g) == [a EXCEPT !.peer_activity = g]

LEMMA AppliesUpdate ==
    ASSUME NEW g \in Sessions, PeersFollowed(g), g.transport.state \in OpenStates,
           NEW client, NEW clock \in Nat, NEW state \in Options(States),
           NEW entry, entry = Entry(clock, state),
           UpdateFault(g.codec, client, entry) = "None",
           NEW a, a = ApplyAwareness(g, client, entry)
    PROVE  Applied(g, {client}, client \in Peers /\ state = {}, a)
<1>  DEFINE remote == Projected(g.codec, client, entry)
            activity == g.awareness.peer_activity
            millis == g.awareness.now_millis
<1>1. /\ g.codec \in Codecs /\ g.awareness \in Awarenesses
      /\ activity \in Functions(Peers, 0 .. MaxMillis)
      /\ millis \in 0 .. MaxMillis
    BY SessionFields, AwarenessFields
<1>2. entry.state = state
    BY DEF Entry
<1>3. /\ client \in Peers => entry \in Sound
      /\ g.codec.local.state # {} =>
            Cardinality(Live(remote)) + 1 <= MaxAwarenessStates
    BY <1>1, Admitted
<1>4. CASE remote = g.codec.remote
  <2>1. a = g
      BY <1>4 DEF ApplyAwareness
  <2>  QED  BY <2>1 DEF Applied
<1>5. CASE remote # g.codec.remote
  <2>1. /\ client \in Peers
        /\ remote \in Functions(Peers, Sound)
        /\ Live(remote) = IF entry.state = {}
                            THEN Live(g.codec.remote) \ {client}
                            ELSE Live(g.codec.remote) \union {client}
    <3>1. client \in Peers
        BY <1>5 DEF Projected
    <3>  QED  BY <1>1, <1>3, <1>5, <3>1, Projects
  <2>  DEFINE h == IF state = {} THEN Without(activity, {client})
                                 ELSE With(activity, {client}, millis)
              k == [g.codec EXCEPT !.remote = remote]
              b == Followed(g.awareness, h)
  <2>2. a = [g EXCEPT !.codec = k, !.awareness = b]
      BY <1>1, <1>2, <1>5 DEF ApplyAwareness, Followed, Sessions, Awarenesses
  <2>3. h \in Functions(Peers, 0 .. MaxMillis)
    <3>1. {client} \in SUBSET Peers
        BY <2>1
    <3>  HIDE DEF activity, millis
    <3>2. Without(activity, {client}) \in Functions(Peers, 0 .. MaxMillis)
        BY <1>1, WithoutIs
    <3>3. With(activity, {client}, millis) \in Functions(Peers, 0 .. MaxMillis)
        BY <1>1, <3>1, WithIs
    <3>  QED  BY <3>2, <3>3
  <2>4. /\ state = {} =>
              /\ DOMAIN h = DOMAIN activity \ {client}
              /\ \A p \in DOMAIN activity \ {client} : h[p] = activity[p]
        /\ state # {} =>
              /\ DOMAIN h = DOMAIN activity \union {client}
              /\ h[client] = millis
              /\ \A p \in DOMAIN activity \ {client} : h[p] = activity[p]
    <3>  HIDE DEF activity, millis
    <3>1. CASE state = {}
        BY <3>1 DEF Without
    <3>2. CASE state # {}
        BY <3>2 DEF With
    <3>  QED  BY <3>1, <3>2
  <2>  HIDE DEF h, remote
  <2>5. /\ k \in Codecs /\ k.local = g.codec.local /\ k.remote = remote
      BY <1>1, <2>1 DEF Codecs
  <2>6. /\ b \in Awarenesses /\ b.peer_activity = h
        /\ b.desired_state = g.awareness.desired_state
        /\ b.now_millis = millis
        /\ b.pending_withdrawal = g.awareness.pending_withdrawal
        /\ b.last_local_publish_millis = g.awareness.last_local_publish_millis
      BY <1>1, <2>3 DEF Followed, Awarenesses
  <2>  HIDE DEF k, b
  <2>7. /\ a \in Sessions /\ a.transport = g.transport /\ a.outbox = g.outbox
        /\ a.codec = k /\ a.awareness = b
      BY <2>2, <2>5, <2>6 DEF Sessions
  <2>8. /\ DOMAIN activity = Live(g.codec.remote)
        /\ \A p \in Live(g.codec.remote) : activity[p] <= millis
      BY DEF PeersFollowed
  <2>  HIDE DEF activity
  <2>9. DOMAIN h = Live(remote)
      BY <1>2, <2>1, <2>4, <2>8
  <2>10. \A p \in Live(remote) :
            /\ h[p] <= millis
            /\ p # client \/ state = {} =>
                  p \in Live(g.codec.remote) /\ h[p] = activity[p]
    <3>1. millis <= millis
        BY <1>1, Constants
    <3>  QED  BY <1>2, <2>1, <2>4, <2>8, <3>1
  <2>11. PeersFollowed(a)
      BY <1>3, <2>5, <2>6, <2>7, <2>9, <2>10 DEF PeersFollowed, remote
  <2>  QED  BY <2>5, <2>6, <2>7, <2>10, <2>11 DEF Applied, activity
<1>  QED  BY <1>4, <1>5

LEMMA Applies ==
    ASSUME NEW p \in Sessions, PeersFollowed(p), p.transport.state \in OpenStates,
           NewestAttempt(p.transport), NEW m \in RoomMessages,
           AwarenessFault(p, m) = "None", NEW a, a = ApplyFrames(p, m)
    PROVE  Applied(SynchronizationGate(p, m), Clients(m),
                   \E u \in m.awareness : u.client \in Peers /\ u.entry.state = {},
                   a)
<1>  DEFINE g == SynchronizationGate(p, m)
<1>1. /\ g \in Sessions /\ g.awareness = p.awareness /\ g.codec = p.codec
      /\ g.transport.state \in OpenStates
  <2>1. /\ g \in Sessions /\ g.awareness = p.awareness /\ g.codec = p.codec
        /\ g.transport.state = IF Synchronizes(p, m) THEN "Synchronized"
                                                     ELSE p.transport.state
      BY Gates
  <2>  QED  BY <2>1 DEF OpenStates
<1>  HIDE DEF g
<1>2. PeersFollowed(g)
    BY <1>1 DEF PeersFollowed
<1>3. CASE m.awareness = {}
  <2>1. a = g
      BY <1>3 DEF ApplyFrames, g
  <2>  QED  BY <1>1, <1>2, <2>1 DEF Applied, g
<1>4. CASE m.awareness # {}
  <2>1. PICK client \in Peers \union {Self}, clock \in PeerClocks,
             state \in Options(States) :
           m.awareness = {[client |-> client, entry |-> Entry(clock, state)]}
      BY <1>4, MessageFacts
  <2>  DEFINE entry == Entry(clock, state)
              u == [client |-> client, entry |-> entry]
  <2>2. /\ clock \in Nat /\ entry.state = state
        /\ u.client = client /\ u.entry = entry
      BY PresenceBoundsAssumption DEF Entry
  <2>  HIDE DEF entry
  <2>3. (CHOOSE x \in m.awareness : TRUE) = u
      BY <2>1 DEF entry
  <2>  HIDE DEF u
  <2>4. m.awareness = {u}
      BY <2>1 DEF u, entry
  <2>5. a = ApplyAwareness(g, client, entry)
      BY <1>4, <2>2, <2>3 DEF ApplyFrames, g
  <2>6. UpdateFault(g.codec, client, entry) = "None"
      BY <1>1, <2>2, <2>4 DEF AwarenessFault
  <2>7. Applied(g, {client}, client \in Peers /\ state = {}, a)
      BY <1>1, <1>2, <2>2, <2>5, <2>6, AppliesUpdate DEF entry
  <2>8. Clients(m) = {client}
      BY <2>2, <2>4 DEF Clients
  <2>9. (\E x \in m.awareness : x.client \in Peers /\ x.entry.state = {}) <=>
           client \in Peers /\ state = {}
      BY <2>2, <2>4
  <2>  QED  BY <2>7, <2>8, <2>9 DEF Applied, g
<1>  QED  BY <1>3, <1>4

(* One reply or none.                                                      *)
Part(given, x) == IF given THEN << x >> ELSE << >>

LEMMA PartFacts ==
    ASSUME NEW given \in BOOLEAN, NEW x \in Answering
    PROVE  /\ Part(given, x) \in Seq(Answering)
           /\ Len(Part(given, x)) = IF given THEN 1 ELSE 0
           /\ Elements(Part(given, x)) = IF given THEN {x} ELSE {}
<1>1. << x >> \in Seq(Answering) /\ Len(<< x >>) = 1 /\ Elements(<< x >>) = {x}
    BY ElementsOfFew
<1>2. /\ << >> \in Seq(Answering) /\ Len(<< >>) = 0 /\ Elements(<< >>) = {}
    BY ElementsOfFew
<1>3. CASE given
    BY <1>1, <1>3 DEF Part
<1>4. CASE ~given
    BY <1>2, <1>4 DEF Part
<1>  QED  BY <1>3, <1>4

(* The replies tell of the session's entry, and of the one republished.    *)
(* The replies to a message of the room: what they carry is the session's.  *)
RepliesOf(s, m, p, replies) ==
    /\ replies \in Seq(Answering)
    /\ Len(replies) = (IF m.queries THEN 1 ELSE 0)
                         + (IF Republishes(s, m) THEN 1 ELSE 0)
    /\ \A x \in Elements(replies) :
          \/ x.id = {}
          \/ x.id = {s.codec.local} /\ s.codec.local.state # {}
          \/ x.id = {p.codec.local} /\ Republishes(s, m)
    /\ Republishes(s, m) =>
          \E x \in Elements(replies) : x.id = {p.codec.local}

LEMMA RepliesAre ==
    ASSUME NEW s \in Sessions, NEW m \in RoomMessages, NEW p \in Sessions,
           p = PrepareRepublish(s, m), NEW replies, replies = Replies(s, m)
    PROVE  RepliesOf(s, m, p, replies)
<1>  DEFINE own == IF s.codec.local.state = {} THEN {} ELSE {s.codec.local}
            x == ProtocolFrame(own)
            y == ProtocolFrame({p.codec.local})
            republishes == Republishes(s, m)
            A == Part(m.queries, x)
            B == Part(republishes, y)
<1>1. m.asks = FALSE /\ m.queries \in BOOLEAN /\ m.step2 \in BOOLEAN
    BY MessageFacts
<1>2. republishes \in BOOLEAN
    BY <1>1 DEF Republishes, Synchronizes
<1>3. /\ s.codec.local \in Sound /\ p.codec.local \in Sound
    BY SessionFields, CodecFields
<1>4. own \in Options(Sound) /\ {p.codec.local} \in Options(Sound)
    BY <1>3 DEF Options
<1>5. x \in Answering /\ x.id = own /\ y \in Answering /\ y.id = {p.codec.local}
    BY <1>4, FramesAre
<1>6. replies = (<< >> \o A) \o B
    BY <1>1 DEF Replies, Answers, Part
<1>  HIDE DEF x, y
<1>7. /\ A \in Seq(Answering) /\ Len(A) = IF m.queries THEN 1 ELSE 0
      /\ Elements(A) = IF m.queries THEN {x} ELSE {}
    BY <1>1, <1>5, PartFacts
<1>8. /\ B \in Seq(Answering) /\ Len(B) = IF republishes THEN 1 ELSE 0
      /\ Elements(B) = IF republishes THEN {y} ELSE {}
    BY <1>2, <1>5, PartFacts
<1>  HIDE DEF A, B
<1>9. << >> \o A = A
    BY <1>7
<1>10. /\ A \o B \in Seq(Answering) /\ Len(A \o B) = Len(A) + Len(B)
       /\ Elements(A \o B) = Elements(A) \union Elements(B)
  <2>1. A \in Seq(Answering) /\ B \in Seq(Answering)
      BY <1>7, <1>8
  <2>2. Elements(A \o B) = Elements(A) \union Elements(B)
      BY <2>1, ElementsOfBoth
  <2>  QED  BY <2>1, <2>2
<1>11. replies = A \o B
    BY <1>6, <1>9
<1>  QED  BY <1>5, <1>7, <1>8, <1>10, <1>11 DEF RepliesOf

(* A message that is accepted.                                             *)
Accepted(s, r, e, c, m, w) ==
    /\ Sane(w, r, {}, e, c)
    /\ w.transport.state \in OpenStates
    /\ w.awareness.now_millis = s.awareness.now_millis
    /\ \A q \in Live(w.codec.remote) :
          \/ q \notin Clients(m)
          \/ \E u \in m.awareness : u.client \in Peers /\ u.entry.state = {}
          => /\ q \in Live(s.codec.remote)
             /\ w.awareness.peer_activity[q] = s.awareness.peer_activity[q]

LEMMA AnswersCoherently ==
    ASSUME NEW s, NEW r \in Sound, NEW e, Coherent(s, r, {}, e),
           s.transport.state \in OpenStates, NEW m \in RoomMessages,
           m.queries => Len(s.outbox.protocol) < MaxReplies,
           NEW p, p = PrepareRepublish(s, m), p.outbox = s.outbox,
           p.transport = s.transport, p.codec \in Codecs, p \in Sessions,
           Within(s.codec.local, p.codec.local),
           ~Republishes(s, m) => p = s,
           NEW t, t.last_issued = s.transport.last_issued,
           t.state = IF Synchronizes(p, m) THEN "Synchronized"
                                           ELSE s.transport.state,
           NEW o, o = Install(s.outbox, "ProtocolReply", Replies(s, m))
    PROVE  /\ OutboxSane(o, {})
           /\ Queued(s.outbox) \subseteq Queued(o)
           /\ NewestIsOwn(o, p.codec, r)
           /\ WithdrawalIsKept(s.awareness, o, p.codec, r)
           /\ Bounded(t, o, e)
           /\ Republishes(s, m) => Carried(o, p.codec.local)
<1>  DEFINE replies == Replies(s, m)
<1>1. /\ s \in Sessions /\ s.transport \in Transports /\ s.outbox \in Outboxes
      /\ s.codec \in Codecs /\ OutboxSane(s.outbox, {})
      /\ s.codec.local \in Sound
    BY CoherentFacts
<1>2. /\ replies \in Seq(Answering)
      /\ Len(replies) = (IF m.queries THEN 1 ELSE 0)
                           + (IF Republishes(s, m) THEN 1 ELSE 0)
      /\ \A x \in Elements(replies) :
            \/ x.id = {}
            \/ x.id = {s.codec.local} /\ s.codec.local.state # {}
            \/ x.id = {p.codec.local} /\ Republishes(s, m)
      /\ Republishes(s, m) =>
            \E x \in Elements(replies) : x.id = {p.codec.local}
  <2>1. RepliesOf(s, m, p, replies)
      BY <1>1, RepliesAre
  <2>  HIDE DEF replies
  <2>  QED  BY <2>1 DEF RepliesOf
<1>  HIDE DEF replies
<1>3. /\ OutboxSane(o, {})
      /\ Queued(o) = Queued(s.outbox) \union Elements(replies)
      /\ o.ordered = s.outbox.ordered
      /\ Len(o.protocol) = Len(s.outbox.protocol) + Len(replies)
  <2>  DEFINE i == Install(s.outbox, "ProtocolReply", replies)
  <2>1. OutboxSane(i, {}) /\ Appended(s.outbox, i, replies)
      BY <1>1, <1>2, InstallsReplies
  <2>2. o = i
      BY DEF replies
  <2>  HIDE DEF i
  <2>  QED  BY <2>1, <2>2 DEF Appended
<1>4. NewestIsOwn(o, p.codec, r)
  <2>1. \A x \in Queued(o) :
           \/ x \in Queued(s.outbox)
           \/ x.id \subseteq {s.codec.local, p.codec.local}
      BY <1>2, <1>3
  <2>2. NewestIsOwn(s.outbox, s.codec, r) /\ o \in Outboxes
      BY <1>3 DEF Coherent, OutboxSane
  <2>  QED  BY <1>1, <2>1, <2>2, OwnAdvances
<1>5. WithdrawalIsKept(s.awareness, o, p.codec, r)
  <2>  SUFFICES ASSUME s.awareness.desired_state = {},
                       s.awareness.pending_withdrawal = {},
                       ~Carried(o, p.codec.local)
                PROVE  NothingShows(o, r)
      BY DEF WithdrawalIsKept
  <2>1. ~Republishes(s, m) /\ p = s
      BY DEF Republishes
  <2>2. ~Carried(s.outbox, s.codec.local)
      BY <1>3, <2>1 DEF Carried
  <2>3. NothingShows(s.outbox, r)
      BY <2>2 DEF Coherent, WithdrawalIsKept
  <2>4. s.codec.local.state = {}
      BY DEF Coherent, IntentIsShown
  <2>5. \A x \in Queued(o) : x \in Queued(s.outbox) \/ x.id = {}
      BY <1>2, <1>3, <2>1, <2>4
  <2>  QED  BY <2>3, <2>5 DEF NothingShows
<1>6. Bounded(t, o, e)
  <2>  DEFINE q == Len(s.outbox.protocol)
              l == s.transport.last_issued
              more == Len(replies)
              republishes == Republishes(s, m)
  <2>1. q \in Nat /\ l \in Nat /\ l > 0
    <3>1. s.outbox.protocol \in Seq(Answering) /\ l \in 0 .. MaxGeneration
        BY <1>1, OutboxFields, TransportFields
    <3>2. l > 0
        BY DEF Coherent, NewestAttempt, OpenStates, AttemptStates
    <3>  QED  BY <3>1, <3>2
  <2>2. Bounded(s.transport, s.outbox, e)
      BY DEF Coherent
  <2>3. q <= MaxReplies + Openings(s.transport) /\ (m.queries => q < MaxReplies)
      BY <2>2 DEF Bounded
  <2>4. /\ t.state = "Synchronized" => Openings(t) = 2 * l - 0
        /\ t.state = "Handshaking" => Openings(t) = 2 * l - 1
        /\ s.transport.state = "Synchronized" => Openings(s.transport) = 2 * l - 0
        /\ s.transport.state = "Handshaking" => Openings(s.transport) = 2 * l - 1
      BY DEF Openings
  <2>5. /\ republishes => s.transport.state = "Handshaking"
                          /\ t.state = "Synchronized"
        /\ \/ s.transport.state = "Handshaking" /\ t.state = "Handshaking"
           \/ s.transport.state = "Handshaking" /\ t.state = "Synchronized"
           \/ s.transport.state = "Synchronized" /\ t.state = "Synchronized"
      BY DEF Republishes, Synchronizes, OpenStates
  <2>6. more = (IF m.queries THEN 1 ELSE 0) + (IF republishes THEN 1 ELSE 0)
      BY <1>2
  <2>  HIDE DEF q, l, more, republishes
  <2>7. q + more <= MaxReplies + Openings(t)
    <3>1. Openings(t) = 2 * l \/ Openings(t) = 2 * l - 1
        BY <2>1, <2>4, <2>5
    <3>2. CASE m.queries /\ republishes
      <4>1. more = 2 /\ q < MaxReplies /\ Openings(t) = 2 * l
          BY <2>1, <2>3, <2>4, <2>5, <2>6, <3>2
      <4>  QED  BY <2>1, <4>1, Constants
    <3>3. CASE m.queries /\ ~republishes
      <4>1. more = 1 /\ q < MaxReplies
          BY <2>3, <2>6, <3>3
      <4>  QED  BY <2>1, <3>1, <4>1, Constants
    <3>4. CASE ~m.queries /\ republishes
      <4>1. /\ more = 1 /\ Openings(t) = 2 * l
            /\ Openings(s.transport) = 2 * l - 1
          BY <2>1, <2>4, <2>5, <2>6, <3>4
      <4>  QED  BY <2>1, <2>3, <4>1, Constants
    <3>5. CASE ~m.queries /\ ~republishes
      <4>1. more = 0
          BY <2>6, <3>5
      <4>2. /\ Openings(s.transport) <= Openings(t)
            /\ Openings(s.transport) \in Int /\ Openings(t) \in Int
          BY <2>1, <2>4, <2>5
      <4>  QED  BY <2>1, <2>3, <4>1, <4>2, Constants
    <3>  QED  BY <3>2, <3>3, <3>4, <3>5
  <2>  QED  BY <1>3, <2>2, <2>7 DEF Bounded, q, more
<1>7. Republishes(s, m) => Carried(o, p.codec.local)
    BY <1>2, <1>3 DEF Carried
<1>  QED  BY <1>3, <1>4, <1>5, <1>6, <1>7

LEMMA Accepts ==
    ASSUME NEW s, NEW r \in Sound, NEW e, NEW c \in Nat, Sane(s, r, {}, e, c),
           s.transport.state \in OpenStates, NEW m \in RoomMessages,
           m.queries => Len(s.outbox.protocol) < MaxReplies,
           Republishes(s, m) => CanPublish(s.codec),
           NEW p, p = PrepareRepublish(s, m), AwarenessFault(p, m) = "None",
           NEW v, v = Answered(p, m, Replies(s, m)),
           NEW w, w = IF Republishes(s, m) THEN MarkPublished(v) ELSE v
    PROVE  Accepted(s, r, e, c, m, w)
<1>  DEFINE g == SynchronizationGate(p, m)
            a == ApplyFrames(p, m)
            o == Install(s.outbox, "ProtocolReply", Replies(s, m))
            leaves == \E u \in m.awareness : u.client \in Peers /\ u.entry.state = {}
            l == s.transport.last_issued
            millis == s.awareness.now_millis
<1>1. /\ Coherent(s, r, {}, e) /\ s \in Sessions /\ s.codec \in Codecs
      /\ s.codec.local.clock \in Nat /\ l \in Nat /\ millis \in Nat
      /\ NewestAttempt(s.transport)
  <2>1. Coherent(s, r, {}, e)
      BY DEF Sane
  <2>2. NewestAttempt(s.transport)
      BY <2>1 DEF Coherent
  <2>  QED  BY <2>1, <2>2, CoherentFacts
<1>2. /\ Retirable(p, r, e, c)
      /\ p.transport = s.transport /\ p.outbox = s.outbox
      /\ p.awareness = s.awareness /\ p.codec.remote = s.codec.remote
      /\ Within(s.codec.local, p.codec.local)
      /\ ~Republishes(s, m) => p = s
      /\ Republishes(s, m) =>
            /\ p.codec.local.state # {}
            /\ p.codec.local.clock = s.codec.local.clock + 1
      /\ PeersFollowed(p)
  <2>1. Prepared(s, r, e, c, m, p)
      BY Prepares
  <2>  QED  BY <2>1 DEF Prepared
<1>3. p \in Sessions /\ p.codec \in Codecs
    BY <1>2, SessionFields DEF Retirable
<1>4. /\ g \in Sessions /\ g.outbox = s.outbox /\ g.awareness = s.awareness
      /\ g.codec = p.codec /\ NewestAttempt(g.transport)
      /\ g.transport.last_issued = l
      /\ g.transport.state = IF Synchronizes(p, m) THEN "Synchronized"
                                                   ELSE s.transport.state
      /\ ~Synchronizes(p, m) => g = p
  <2>  HIDE DEF g
  <2>1. NewestAttempt(p.transport)
      BY <1>1, <1>2
  <2>2. /\ g \in Sessions /\ g.outbox = p.outbox /\ g.awareness = p.awareness
        /\ g.codec = p.codec /\ NewestAttempt(g.transport)
        /\ g.transport.last_issued = p.transport.last_issued
        /\ g.transport.state = IF Synchronizes(p, m) THEN "Synchronized"
                                                     ELSE p.transport.state
        /\ ~Synchronizes(p, m) => g = p
      BY <1>3, <2>1, Gates DEF g
  <2>  QED  BY <1>2, <2>2
<1>5. g.transport.state \in OpenStates
    BY <1>4 DEF OpenStates
<1>6. Applied(g, Clients(m), leaves, a)
    BY <1>1, <1>2, <1>3, Applies
<1>7. /\ OutboxSane(o, {})
      /\ Queued(s.outbox) \subseteq Queued(o)
      /\ NewestIsOwn(o, p.codec, r)
      /\ WithdrawalIsKept(s.awareness, o, p.codec, r)
      /\ Bounded(g.transport, o, e)
      /\ Republishes(s, m) => Carried(o, p.codec.local)
  <2>  DEFINE t == g.transport
  <2>1. /\ t.last_issued = l
        /\ t.state = IF Synchronizes(p, m) THEN "Synchronized"
                                           ELSE s.transport.state
      BY <1>4
  <2>2. o = Install(s.outbox, "ProtocolReply", Replies(s, m))
      BY DEF o
  <2>3. t.last_issued = s.transport.last_issued
      BY <2>1 DEF l
  <2>  HIDE DEF t, o, g, l
  <2>4. /\ OutboxSane(o, {})
        /\ Queued(s.outbox) \subseteq Queued(o)
        /\ NewestIsOwn(o, p.codec, r)
        /\ WithdrawalIsKept(s.awareness, o, p.codec, r)
        /\ Bounded(t, o, e)
        /\ Republishes(s, m) => Carried(o, p.codec.local)
      BY <1>1, <1>2, <1>3, <2>1, <2>2, <2>3, AnswersCoherently
  <2>  QED  BY <2>4 DEF t
<1>  HIDE DEF g, a, o, leaves
<1>8. /\ a \in Sessions /\ a.transport = g.transport /\ a.outbox = s.outbox
      /\ a.codec.local = p.codec.local
      /\ a.awareness.desired_state = s.awareness.desired_state
      /\ a.awareness.now_millis = millis
      /\ a.awareness.pending_withdrawal = s.awareness.pending_withdrawal
      /\ a.awareness.last_local_publish_millis =
            s.awareness.last_local_publish_millis
      /\ PeersFollowed(a)
    BY <1>4, <1>6 DEF Applied
<1>9. v = [a EXCEPT !.outbox = o]
    BY <1>8 DEF Answered, a, o, Sessions
<1>10. /\ v \in Sessions /\ v.transport = g.transport /\ v.outbox = o
       /\ v.awareness = a.awareness /\ v.codec = a.codec
    BY <1>7, <1>8, <1>9 DEF Sessions, OutboxSane
<1>  DEFINE b == IF Republishes(s, m) THEN Published(a.awareness) ELSE a.awareness
<1>11. /\ b \in Awarenesses
       /\ b.desired_state = s.awareness.desired_state
       /\ b.pending_withdrawal = s.awareness.pending_withdrawal
       /\ b.now_millis = millis
       /\ b.last_local_publish_millis =
             IF Republishes(s, m) THEN {millis}
                                  ELSE s.awareness.last_local_publish_millis
       /\ b.peer_activity = a.awareness.peer_activity
  <2>1. a.awareness \in Awarenesses
      BY <1>8, SessionFields
  <2>2. /\ Published(a.awareness) \in Awarenesses
        /\ Published(a.awareness).desired_state = a.awareness.desired_state
        /\ Published(a.awareness).pending_withdrawal =
              a.awareness.pending_withdrawal
        /\ Published(a.awareness).now_millis = a.awareness.now_millis
        /\ Published(a.awareness).last_local_publish_millis =
              {a.awareness.now_millis}
        /\ Published(a.awareness).peer_activity = a.awareness.peer_activity
      BY <2>1, PublishedFields
  <2>  QED  BY <1>8, <2>1, <2>2
<1>12. w = [v EXCEPT !.awareness = b]
  <2>1. CASE Republishes(s, m)
    <3>1. MarkPublished(v) = [v EXCEPT !.awareness = Published(v.awareness)]
        BY <1>10, MarkPublishedIs
    <3>  QED  BY <1>10, <2>1, <3>1
  <2>2. CASE ~Republishes(s, m)
      BY <1>10, <2>2 DEF Sessions
  <2>  QED  BY <2>1, <2>2
<1>  HIDE DEF b
<1>13. /\ w \in Sessions /\ w.transport = g.transport /\ w.outbox = o
       /\ w.awareness = b /\ w.codec = a.codec
    BY <1>10, <1>11, <1>12 DEF Sessions
<1>14. IntentIsShown(w.awareness, w.codec)
  <2>1. IntentIsShown(p.awareness, p.codec)
      BY <1>2 DEF Retirable
  <2>  QED  BY <1>2, <1>8, <1>11, <1>13, <2>1 DEF IntentIsShown
<1>15. PeersFollowed(w)
    BY <1>8, <1>11, <1>13 DEF PeersFollowed
<1>16. /\ NewestIsOwn(w.outbox, w.codec, r)
       /\ WithdrawalIsKept(w.awareness, w.outbox, w.codec, r)
    BY <1>7, <1>8, <1>11, <1>13 DEF NewestIsOwn, WithdrawalIsKept
<1>17. Coherent(w, r, {}, e)
    BY <1>4, <1>7, <1>13, <1>14, <1>15, <1>16 DEF Coherent
<1>18. Synchronizes(p, m) <=> Synchronizes(s, m)
    BY <1>2 DEF Synchronizes
<1>19. ASSUME Roomy
       PROVE  PresenceIsShown(w, r)
  <2>  SUFFICES ASSUME Synchronized(w), w.awareness.desired_state # {}
                PROVE  /\ w.codec.local.state # {}
                       /\ r = w.codec.local \/ Carried(w.outbox, w.codec.local)
                       /\ w.awareness.last_local_publish_millis # {}
      BY DEF PresenceIsShown
  <2>1. CASE Synchronizes(s, m)
    <3>1. Republishes(s, m)
        BY <1>11, <1>13, <2>1 DEF Republishes
    <3>  QED  BY <1>2, <1>7, <1>8, <1>11, <1>13, <3>1
  <2>2. CASE ~Synchronizes(s, m)
    <3>1. ~Republishes(s, m) /\ p = s
        BY <1>2, <2>2 DEF Republishes
    <3>2. Synchronized(s)
        BY <1>4, <1>13, <1>18, <2>2 DEF Synchronized
    <3>3. PresenceIsShown(s, r)
        BY <1>19 DEF Sane
    <3>4. /\ s.codec.local.state # {}
          /\ r = s.codec.local \/ Carried(s.outbox, s.codec.local)
          /\ s.awareness.last_local_publish_millis # {}
        BY <1>11, <1>13, <3>2, <3>3 DEF PresenceIsShown
    <3>  QED  BY <1>7, <1>8, <1>11, <1>13, <3>1, <3>4 DEF Carried
  <2>  QED  BY <2>1, <2>2
<1>20. ASSUME Roomy
       PROVE  ClockIsBounded(w, c)
  <2>1. /\ ClockIsBounded(s, c)
        /\ \A published \in s.awareness.last_local_publish_millis :
              published <= millis
      BY <1>20 DEF Sane, ClockIsBounded
  <2>2. millis <= millis
      BY <1>1
  <2>3. \A published \in w.awareness.last_local_publish_millis :
           published <= w.awareness.now_millis
      BY <1>11, <1>13, <2>1, <2>2
  <2>4. w.transport.last_issued = l
      BY <1>4, <1>13
  <2>5. CASE ~Synchronizes(s, m)
    <3>1. ~Republishes(s, m) /\ p = s
        BY <1>2, <2>5 DEF Republishes
    <3>2. w.transport.state = s.transport.state
        BY <1>4, <1>13, <1>18, <2>5
    <3>3. Latest(w) = Latest(s) /\ Spent(w) = Spent(s)
        BY <1>8, <1>11, <1>13, <3>1, <3>2 DEF Latest, Spent, Synchronized
    <3>  QED  BY <2>1, <2>3, <2>4, <3>3 DEF ClockIsBounded, l
  <2>6. CASE Synchronizes(s, m)
    <3>1. /\ s.transport.state = "Handshaking"
          /\ w.transport.state = "Synchronized"
        BY <1>4, <1>13, <1>18, <2>6 DEF Synchronizes
    <3>2. Latest(s) = {millis}
        BY <3>1 DEF Latest, Synchronized
    <3>3. Latest(w) = {millis}
        BY <1>11, <1>13, <2>6 DEF Latest, Republishes
    <3>4. /\ Spent(w) <= Spent(s) /\ Spent(s) \in Nat /\ Spent(w) \in Nat
      <4>1. Spent(s) = s.codec.local.clock
                          + (IF s.codec.local.state = {} THEN 0 ELSE 1) + 2
          BY <3>1 DEF Spent
      <4>2. Spent(w) = p.codec.local.clock
                          + (IF p.codec.local.state = {} THEN 0 ELSE 1) + 0
          BY <1>8, <1>13, <3>1 DEF Spent
      <4>3. CASE Republishes(s, m)
        <5>1. Spent(w) = s.codec.local.clock + 1 + 1 + 0
            BY <1>2, <4>2, <4>3
        <5>  QED  BY <1>1, <4>1, <5>1
      <4>4. CASE ~Republishes(s, m)
        <5>1. p = s
            BY <1>2, <4>4
        <5>  QED  BY <1>1, <4>1, <4>2, <5>1
      <4>  QED  BY <4>3, <4>4
    <3>5. Spent(s) <= 2 * (c + l) + millis
        BY <2>1, <3>2 DEF ClockIsBounded
    <3>6. 2 * (c + l) + millis \in Nat
      <4>1. c \in Nat /\ l \in Nat /\ millis \in Nat
          BY <1>1
      <4>  HIDE DEF l, millis
      <4>  QED  BY <4>1
    <3>7. Spent(w) <= 2 * (c + l) + millis
      <4>  DEFINE bound == 2 * (c + l) + millis
      <4>  HIDE DEF bound, l, millis
      <4>  QED  BY <3>4, <3>5, <3>6 DEF bound
    <3>  QED  BY <2>3, <2>4, <3>3, <3>7 DEF ClockIsBounded
  <2>  QED  BY <2>5, <2>6
<1>21. Sane(w, r, {}, e, c)
    BY <1>17, <1>19, <1>20 DEF Sane
<1>22. \A q \in Live(a.codec.remote) :
          q \notin Clients(m) \/ leaves =>
             /\ q \in Live(s.codec.remote)
             /\ a.awareness.peer_activity[q] = s.awareness.peer_activity[q]
    BY <1>2, <1>4, <1>6 DEF Applied
<1>  QED  BY <1>5, <1>11, <1>13, <1>21, <1>22 DEF Accepted, leaves

(* What a message of the room leaves before its directive: it is accepted, *)
(* or it ends the connection.                                              *)
Received(s, r, e, c, m, w) ==
    /\ w.awareness.now_millis = s.awareness.now_millis
    /\ \/ Accepted(s, r, e, c, m, w)
       \/ /\ w.transport.state \notin OpenStates
          /\ \A x \in RoomsAfter(r) : Sane(w, x, {}, e, c)

LEMMA Receives ==
    ASSUME NEW s, NEW r \in Sound, NEW e, NEW c \in Nat, Sane(s, r, {}, e, c),
           s.transport.state \in OpenStates, NEW m \in RoomMessages,
           m.queries => Len(s.outbox.protocol) < MaxReplies,
           NEW now_millis \in 0 .. MaxMillis, NEW w,
           w = ReceivePresence(s, m, now_millis)
    PROVE  Received(s, r, e, c, m, w)
<1>1. CASE Republishes(s, m) /\ ~CanPublish(s.codec)
  <2>1. w = ClosePresence(s, "Incompatible", now_millis)
      BY <1>1 DEF ReceivePresence
  <2>2. Retirable(s, r, e, c)
      BY SaneIsRetirable
  <2>3. Ended(s, r, e, c, w)
      BY <2>1, <2>2, Closes
  <2>  QED  BY <2>3 DEF Ended, Received
<1>2. CASE ~(Republishes(s, m) /\ ~CanPublish(s.codec))
  <2>  DEFINE p == PrepareRepublish(s, m)
              g == SynchronizationGate(p, m)
              v == Answered(p, m, Replies(s, m))
              fault == AwarenessFault(p, m)
  <2>1. \/ w = ClosePresence(p, "Retryable", now_millis)
        \/ w = ClosePresence(g, fault, now_millis)
        \/ fault = "None" /\ w = IF Republishes(s, m) THEN MarkPublished(v) ELSE v
      BY <1>2 DEF ReceivePresence, ApplyPrepared
  <2>  HIDE DEF p, g, v, fault
  <2>2. Prepared(s, r, e, c, m, p)
      BY <1>2, Prepares DEF p
  <2>3. /\ Retirable(p, r, e, c) /\ p.transport = s.transport
        /\ p.awareness = s.awareness
      BY <2>2 DEF Prepared
  <2>4. NewestAttempt(p.transport)
    <3>1. NewestAttempt(s.transport)
        BY DEF Sane, Coherent
    <3>  QED  BY <2>3, <3>1
  <2>5. CASE w = ClosePresence(p, "Retryable", now_millis)
    <3>1. Ended(p, r, e, c, w)
        BY <2>3, <2>5, Closes
    <3>  QED  BY <2>3, <3>1 DEF Ended, Received
  <2>6. CASE w = ClosePresence(g, fault, now_millis)
    <3>1. Retirable(g, r, e, c)
        BY <2>3, <2>4, GatedIsRetirable DEF g
    <3>2. g.awareness = p.awareness
        BY <2>3, <2>4, Gates DEF Retirable, g
    <3>3. Ended(g, r, e, c, w)
        BY <2>6, <3>1, Closes
    <3>  QED  BY <2>3, <3>2, <3>3 DEF Ended, Received
  <2>7. CASE /\ fault = "None"
             /\ w = IF Republishes(s, m) THEN MarkPublished(v) ELSE v
    <3>1. AwarenessFault(p, m) = "None"
        BY <2>7 DEF fault
    <3>2. Republishes(s, m) => CanPublish(s.codec)
        BY <1>2
    <3>3. Accepted(s, r, e, c, m, w)
        BY <2>7, <3>1, <3>2, Accepts DEF p, v
    <3>  QED  BY <3>3 DEF Received, Accepted
  <2>  QED  BY <2>1, <2>5, <2>6, <2>7
<1>  QED  BY <1>1, <1>2

(* The call that receives it: its directive is due, as any.                *)
Heeded(s, r, e, c, m, now_millis, w, result) ==
    LET u == result.session
    IN  /\ u.awareness.now_millis = now_millis
        /\ result.deadline \subseteq 0 .. MaxMillis
        /\ \A x \in RoomsAfter(r) :
              w.transport.state \notin OpenStates => Sane(u, x, {}, e, c)
        /\ w.transport.state \notin OpenStates => u.transport.state \notin OpenStates
        /\ w.transport.state \in OpenStates =>
              /\ Accepted(s, r, e, c, m, w)
              /\ Sane(u, r, {}, e, c)
              /\ u.transport.state \in OpenStates
              /\ Live(u.codec.remote) \subseteq Live(w.codec.remote)
              /\ \A p \in Live(u.codec.remote) :
                    /\ u.awareness.peer_activity[p] = w.awareness.peer_activity[p]
                    /\ now_millis < u.awareness.peer_activity[p] + ExpiryInterval
              /\ (Roomy /\ result.ok /\ u.transport.state \in OpenStates) =>
                    Prompt(u, now_millis, result.deadline)

LEMMA ReceiveCalls ==
    ASSUME NEW s, NEW r \in Sound, NEW e \in 0 .. MaxEdits, NEW c \in Nat,
           Sane(s, r, {}, e, c),
           s.transport.state \in OpenStates, NEW m \in RoomMessages,
           m.queries => Len(s.outbox.protocol) < MaxReplies,
           NEW now_millis \in 0 .. MaxMillis,
           s.awareness.now_millis <= now_millis,
           NEW w, w = ReceivePresence(s, m, now_millis), NEW result,
           result = PresenceReceiveCall(s, s.transport.last_issued, m, now_millis)
    PROVE  Heeded(s, r, e, c, m, now_millis, w, result)
<1>1. /\ Coherent(s, r, {}, e) /\ NewestAttempt(s.transport)
      /\ s.awareness.now_millis \in Nat /\ now_millis \in Nat
  <2>1. Coherent(s, r, {}, e)
      BY DEF Sane
  <2>2. NewestAttempt(s.transport)
      BY <2>1 DEF Coherent
  <2>  QED  BY <2>1, <2>2, CoherentFacts, Constants
<1>2. result = FinishPresence(w, now_millis)
  <2>1. ~Regresses(s, now_millis)
      BY <1>1 DEF Regresses
  <2>2. CanUseSocket(s.transport, s.transport.last_issued)
      BY <1>1 DEF CanUseSocket, IsLiveAttempt, NewestAttempt, OpenStates,
                  AttemptStates
  <2>  QED  BY <2>1, <2>2 DEF PresenceReceiveCall
<1>3. Received(s, r, e, c, m, w)
    BY Receives
<1>4. w.awareness.now_millis <= now_millis
    BY <1>3 DEF Received
<1>5. CASE w.transport.state \in OpenStates
  <2>1. Accepted(s, r, e, c, m, w)
      BY <1>3, <1>5 DEF Received
  <2>2. Sane(w, r, {}, e, c)
      BY <2>1 DEF Accepted
  <2>3. Finished(w, r, {}, e, c, now_millis, result)
      BY <1>2, <1>4, <2>2, Finishes
  <2>4. w.transport.state # "Disconnected"
      BY <1>5 DEF OpenStates
  <2>5. result.session.transport.state \in OpenStates
      BY <1>5, <2>3, <2>4 DEF Finished
  <2>  QED  BY <1>5, <2>1, <2>3, <2>5 DEF Finished, Heeded
<1>6. CASE w.transport.state \notin OpenStates
  <2>1. \A x \in RoomsAfter(r) : Sane(w, x, {}, e, c)
      BY <1>3, <1>6 DEF Received, Accepted
  <2>2. ASSUME NEW x \in RoomsAfter(r)
        PROVE  Finished(w, x, {}, e, c, now_millis, result)
    <3>1. x \in Sound /\ Sane(w, x, {}, e, c)
        BY <2>1, <2>2, RoomsAfterFacts
    <3>  QED  BY <1>2, <1>4, <3>1, Finishes
  <2>3. Finished(w, r, {}, e, c, now_millis, result)
      BY <2>2, RoomsStay
  <2>4. result.session.transport.state \notin OpenStates
      BY <1>6, <2>3 DEF Finished
  <2>  QED  BY <1>6, <2>2, <2>3, <2>4 DEF Finished, Heeded
<1>  QED  BY <1>5, <1>6

-----------------------------------------------------------------------------
(* Leases and edits *)

(* A session of which only the outbox changed.                             *)
Requeued(s, o, w) ==
    /\ w \in Sessions /\ Quiet(s, w)
    /\ w.outbox = o /\ w.awareness = s.awareness /\ w.codec = s.codec

LEMMA Requeues ==
    ASSUME NEW s, NEW r \in Sound, NEW f, NEW e, NEW c \in Nat,
           Sane(s, r, f, e, c), NEW o, NEW g, OutboxSane(o, g), NEW x, NEW d,
           NewestIsOwn(o, s.codec, x),
           WithdrawalIsKept(s.awareness, o, s.codec, x),
           Bounded(s.transport, o, d),
           r = s.codec.local \/ Carried(s.outbox, s.codec.local) =>
              x = s.codec.local \/ Carried(o, s.codec.local)
    PROVE  /\ Requeued(s, o, [s EXCEPT !.outbox = o])
           /\ Sane([s EXCEPT !.outbox = o], x, g, d, c)
<1>  DEFINE w == [s EXCEPT !.outbox = o]
<1>1. Coherent(s, r, f, e) /\ s \in Sessions /\ o \in Outboxes
  <2>1. Coherent(s, r, f, e) /\ o \in Outboxes
      BY DEF Sane, OutboxSane
  <2>  QED  BY <2>1, CoherentFacts
<1>2. /\ w \in Sessions /\ w.transport = s.transport /\ w.outbox = o
      /\ w.awareness = s.awareness /\ w.codec = s.codec
    BY <1>1 DEF Sessions
<1>  HIDE DEF w
<1>3. Requeued(s, o, w)
    BY <1>2 DEF Requeued, Quiet
<1>4. Coherent(w, x, g, d)
    BY <1>1, <1>2 DEF Coherent, PeersFollowed
<1>5. ASSUME Roomy
      PROVE  PresenceIsShown(w, x)
  <2>1. PresenceIsShown(s, r)
      BY <1>5 DEF Sane
  <2>  QED  BY <1>2, <2>1 DEF PresenceIsShown, Synchronized
<1>6. ASSUME Roomy
      PROVE  ClockIsBounded(w, c)
  <2>1. ClockIsBounded(s, c)
      BY <1>6 DEF Sane
  <2>2. Latest(w) = Latest(s) /\ Spent(w) = Spent(s)
      BY <1>2 DEF Latest, Spent, Synchronized
  <2>  QED  BY <1>2, <2>1, <2>2 DEF ClockIsBounded
<1>7. Sane(w, x, g, d, c)
    BY <1>4, <1>5, <1>6 DEF Sane
<1>  QED  BY <1>3, <1>7 DEF w

(* The queues are as they were.                                            *)
LEMMA Holds ==
    ASSUME NEW s, NEW r \in Sound, NEW f, NEW e, NEW c \in Nat,
           Sane(s, r, f, e, c), NEW o, NEW g, OutboxSane(o, g),
           o.ordered = s.outbox.ordered, o.protocol = s.outbox.protocol
    PROVE  /\ Requeued(s, o, [s EXCEPT !.outbox = o])
           /\ Sane([s EXCEPT !.outbox = o], r, g, e, c)
<1>1. Coherent(s, r, f, e)
    BY DEF Sane
<1>2. Queued(o) = Queued(s.outbox)
    BY DEF Queued
<1>3. /\ NewestIsOwn(o, s.codec, r)
      /\ WithdrawalIsKept(s.awareness, o, s.codec, r)
      /\ Bounded(s.transport, o, e)
      /\ Carried(s.outbox, s.codec.local) => Carried(o, s.codec.local)
    BY <1>1, <1>2 DEF Coherent, NewestIsOwn, WithdrawalIsKept, Bounded,
                      Carried, NothingShows
<1>  QED  BY <1>3, Requeues

(* A message is leased for sending.                                        *)
LEMMA SessionLeases ==
    ASSUME NEW s, NEW r \in Sound, NEW e, NEW c \in Nat, Sane(s, r, {}, e, c),
           Pending(s.outbox) > 0
    PROVE  LET o == LeaseNext(s.outbox)
           IN  /\ Requeued(s, o, [s EXCEPT !.outbox = o])
               /\ Sane([s EXCEPT !.outbox = o], r, {Frame(s.outbox)}, e, c)
<1>  DEFINE o == LeaseNext(s.outbox)
            g == {Frame(s.outbox)}
<1>1. OutboxSane(s.outbox, {})
    BY DEF Sane, Coherent
<1>2. /\ OutboxSane(o, g) /\ o.ordered = s.outbox.ordered
      /\ o.protocol = s.outbox.protocol
    BY <1>1, Leases
<1>  HIDE DEF o, g
<1>3. /\ Requeued(s, o, [s EXCEPT !.outbox = o])
      /\ Sane([s EXCEPT !.outbox = o], r, g, e, c)
    BY <1>2, Holds
<1>  QED  BY <1>3 DEF o, g

(* It is not acknowledged.                                                 *)
LEMMA SessionNacks ==
    ASSUME NEW s, NEW r \in Sound, NEW f, NEW e, NEW c \in Nat,
           Sane(s, r, f, e, c)
    PROVE  LET o == [NackLease(s.outbox) EXCEPT !.next_lease_id = {1}]
           IN  /\ Requeued(s, o, [s EXCEPT !.outbox = o])
               /\ Sane([s EXCEPT !.outbox = o], r, {}, e, c)
<1>  DEFINE o == [NackLease(s.outbox) EXCEPT !.next_lease_id = {1}]
<1>1. OutboxSane(s.outbox, f)
    BY DEF Sane, Coherent
<1>2. /\ OutboxSane(o, {}) /\ o.ordered = s.outbox.ordered
      /\ o.protocol = s.outbox.protocol
    BY <1>1, Releases
<1>  HIDE DEF o
<1>3. /\ Requeued(s, o, [s EXCEPT !.outbox = o])
      /\ Sane([s EXCEPT !.outbox = o], r, {}, e, c)
    BY <1>2, Holds
<1>  QED  BY <1>3 DEF o

(* What the room has once a message is delivered.                          *)
Delivered(m, r) ==
    IF \E entry \in m.id : Supersedes(entry, r)
      THEN CHOOSE entry \in m.id : TRUE ELSE r

LEMMA DeliveredIs ==
    ASSUME NEW m \in Frames, NEW r
    PROVE  \/ Delivered(m, r) = r /\ \A entry \in m.id : ~Supersedes(entry, r)
           \/ /\ m.id = {Delivered(m, r)}
              /\ Supersedes(Delivered(m, r), r)
<1>1. m.id \in Options(Sound)
    BY FrameFacts
<1>2. CASE m.id = {}
    BY <1>2 DEF Delivered
<1>3. CASE m.id # {}
  <2>1. PICK entry : m.id = {entry}
      BY <1>1, <1>3 DEF Options
  <2>2. (CHOOSE x \in m.id : TRUE) = entry
      BY <2>1
  <2>  QED  BY <2>1, <2>2 DEF Delivered
<1>  QED  BY <1>2, <1>3

(* It is acknowledged, and reached the room.                               *)
LEMMA SessionDelivers ==
    ASSUME NEW s, NEW r \in Sound, NEW e \in Nat, NEW c \in Nat, NEW m,
           Sane(s, r, {m}, e, c)
    PROVE  LET o == [AckLease(s.outbox) EXCEPT !.next_lease_id = {1}]
           IN  /\ Requeued(s, o, [s EXCEPT !.outbox = o])
               /\ Sane([s EXCEPT !.outbox = o], Delivered(m, r), {}, e, c)
               /\ Delivered(m, r) \in Sound
<1>  DEFINE o == [AckLease(s.outbox) EXCEPT !.next_lease_id = {1}]
            x == Delivered(m, r)
            l == s.codec.local
<1>1. /\ Coherent(s, r, {m}, e) /\ OutboxSane(s.outbox, {m})
      /\ s.outbox \in Outboxes /\ l \in Sound
    BY CoherentFacts DEF Sane
<1>2. Popped(s.outbox, {m}, o)
  <2>  HIDE DEF o
  <2>1. {m} # {}
      OBVIOUS
  <2>  QED  BY <1>1, <2>1, Pops DEF o
<1>  HIDE DEF o
<1>3. /\ OutboxSane(o, {}) /\ o \in Outboxes
      /\ m \in Frames /\ Queued(s.outbox) = Queued(o) \union {m}
  <2>1. PICK n \in Frames : {m} = {n} /\ Queued(s.outbox) = Queued(o) \union {n}
      BY <1>2 DEF Popped
  <2>2. n = m
      BY <2>1
  <2>  QED  BY <1>2, <2>1, <2>2 DEF Popped, OutboxSane
<1>4. Bounded(s.transport, o, e)
  <2>  DEFINE d == Len(Documents(s.outbox.ordered))
              b == Len(Broadcasts(s.outbox.ordered))
              p == Len(s.outbox.protocol)
              dd == Len(Documents(o.ordered))
              bb == Len(Broadcasts(o.ordered))
              pp == Len(o.protocol)
              most == MaxReplies + Openings(s.transport)
  <2>1. d <= e /\ b <= 2 /\ p <= most
      BY <1>1 DEF Coherent, Bounded
  <2>2. dd <= d /\ bb <= b /\ pp <= p
      BY <1>2 DEF Popped
  <2>3. {d, b, p, dd, bb, pp} \subseteq Nat
    <3>1. /\ s.outbox.ordered \in Seq(Waiting) /\ o.ordered \in Seq(Waiting)
          /\ s.outbox.protocol \in Seq(Answering) /\ o.protocol \in Seq(Answering)
        BY <1>1, <1>3, OutboxFields
    <3>2. /\ Documents(s.outbox.ordered) \in Seq(Waiting)
          /\ Broadcasts(s.outbox.ordered) \in Seq(Waiting)
          /\ Documents(o.ordered) \in Seq(Waiting)
          /\ Broadcasts(o.ordered) \in Seq(Waiting)
        BY <3>1, LengthsAddUp
    <3>3. d \in Nat /\ b \in Nat
        BY <3>2
    <3>4. dd \in Nat /\ bb \in Nat
        BY <3>2
    <3>5. p \in Nat /\ pp \in Nat
        BY <3>1
    <3>  HIDE DEF d, b, p, dd, bb, pp
    <3>  QED  BY <3>3, <3>4, <3>5
  <2>4. most \in Int
    <3>1. s.transport.last_issued \in Nat
        BY <1>1, CoherentFacts
    <3>2. Openings(s.transport) \in Int
        BY <3>1 DEF Openings
    <3>  QED  BY <3>2, Constants
  <2>  HIDE DEF d, b, p, dd, bb, pp, most
  <2>5. bb <= 2 /\ pp <= most
      BY <2>1, <2>2, <2>3, <2>4
  <2>6. dd <= e
      BY <2>1, <2>2, <2>3
  <2>  QED  BY <2>5, <2>6 DEF Bounded, dd, bb, pp, most
<1>5. /\ m.id \subseteq Sound /\ \A y \in m.id : Within(y, l)
      /\ Within(r, l) /\ \A n \in Queued(o) : \A y \in n.id : Within(y, l)
  <2>1. NewestIsOwn(s.outbox, s.codec, r)
      BY <1>1 DEF Coherent
  <2>2. m \in Queued(s.outbox) /\ Queued(o) \subseteq Queued(s.outbox)
      BY <1>3
  <2>3. m.id \subseteq Sound
      BY <1>1, <2>2, QueuedFacts
  <2>  QED  BY <2>1, <2>2, <2>3 DEF NewestIsOwn
<1>6. \/ x = r /\ \A y \in m.id : ~Supersedes(y, r)
      \/ m.id = {x} /\ Supersedes(x, r)
    BY <1>3, DeliveredIs
<1>  HIDE DEF x, l
<1>7. x \in Sound /\ Within(x, l)
    BY <1>5, <1>6
<1>8. NewestIsOwn(o, s.codec, x)
    BY <1>5, <1>7 DEF NewestIsOwn, l
<1>9. r = l \/ m.id = {l} => x = l
  <2>1. CASE r = l
    <3>1. \A y \in m.id : ~Supersedes(y, r)
        BY <1>1, <1>5, <2>1, WithinFacts
    <3>  QED  BY <1>6, <2>1, <3>1
  <2>2. CASE m.id = {l}
    <3>1. r = l \/ Supersedes(l, r)
        BY <1>1, <1>5, WithinFacts
    <3>  QED  BY <1>6, <2>2, <3>1
  <2>  QED  BY <2>1, <2>2
<1>10. Carried(s.outbox, l) => x = l \/ Carried(o, l)
    BY <1>3, <1>9 DEF Carried
<1>11. WithdrawalIsKept(s.awareness, o, s.codec, x)
  <2>  SUFFICES ASSUME s.awareness.desired_state = {},
                       s.awareness.pending_withdrawal = {}, ~Carried(o, l)
                PROVE  NothingShows(o, x)
      BY DEF WithdrawalIsKept, l
  <2>1. l.state = {}
      BY <1>1 DEF Coherent, IntentIsShown, l
  <2>2. x = l \/ NothingShows(s.outbox, r)
      BY <1>1, <1>10 DEF Coherent, WithdrawalIsKept, l
  <2>3. CASE x = l
    <3>1. \A n \in Queued(o) : \A y \in n.id : y.state # {} => y.clock <= x.clock
      <4>  SUFFICES ASSUME NEW n \in Queued(o), NEW y \in n.id, y.state # {}
                    PROVE  y.clock <= l.clock
          BY <2>3
      <4>1. y \in Sound /\ Within(y, l)
          BY <1>3, <1>5, QueuedFacts
      <4>  QED  BY <1>1, <4>1, WithinFacts
    <3>  QED  BY <2>1, <2>3, <3>1 DEF NothingShows
  <2>4. CASE NothingShows(s.outbox, r)
    <3>1. /\ r.state = {}
          /\ \A n \in Queued(s.outbox) : \A y \in n.id :
                y.state # {} => y.clock <= r.clock
        BY <2>4 DEF NothingShows
    <3>2. r.clock \in Nat /\ x.clock \in Nat
        BY <1>7, EntryFacts
    <3>3. x.state = {} /\ r.clock <= x.clock
      <4>1. CASE x = r
          BY <3>1, <3>2, <4>1
      <4>2. CASE m.id = {x} /\ Supersedes(x, r)
        <5>1. x.clock > r.clock
            BY <3>1, <4>2 DEF Supersedes
        <5>2. m \in Queued(s.outbox)
            BY <1>3
        <5>  QED  BY <3>1, <3>2, <4>2, <5>1, <5>2
      <4>  QED  BY <1>6, <4>1, <4>2
    <3>4. ASSUME NEW n \in Queued(o), NEW y \in n.id, y.state # {}
          PROVE  y.clock <= x.clock
      <4>1. y \in Sound /\ n \in Queued(s.outbox)
          BY <1>3, <3>4, QueuedFacts
      <4>2. y.clock <= r.clock /\ y.clock \in Nat
          BY <3>1, <3>4, <4>1, EntryFacts
      <4>  QED  BY <3>2, <3>3, <4>2
    <3>  QED  BY <3>3, <3>4 DEF NothingShows
  <2>  QED  BY <2>2, <2>3, <2>4
<1>12. r = l \/ Carried(s.outbox, l) => x = l \/ Carried(o, l)
    BY <1>9, <1>10
<1>13. /\ Requeued(s, o, [s EXCEPT !.outbox = o])
       /\ Sane([s EXCEPT !.outbox = o], x, {}, e, c)
    BY <1>3, <1>4, <1>8, <1>11, <1>12, Requeues DEF l
<1>  QED  BY <1>7, <1>13 DEF o, x

(* An edit waits with what waits.                                          *)
LEMMA SessionEdits ==
    ASSUME NEW s, NEW r \in Sound, NEW f, NEW e \in Nat, NEW c \in Nat,
           Sane(s, r, f, e, c)
    PROVE  LET m == [kind |-> "DocumentUpdate", id |-> {}, bytes |-> 1]
               o == Install(s.outbox, "DocumentUpdate", << m >>)
           IN  /\ Requeued(s, o, [s EXCEPT !.outbox = o])
               /\ Sane([s EXCEPT !.outbox = o], r, f, e + 1, c)
<1>  DEFINE m == [kind |-> "DocumentUpdate", id |-> {}, bytes |-> 1]
            o == Install(s.outbox, "DocumentUpdate", << m >>)
<1>1. /\ Coherent(s, r, f, e) /\ OutboxSane(s.outbox, f)
      /\ s.outbox \in Outboxes
    BY CoherentFacts DEF Sane
<1>2. m \in Waiting /\ m.kind = "DocumentUpdate" /\ m.id = {}
    BY DEF Waiting, Frames, Kinds, Options
<1>  HIDE DEF m, o
<1>3. /\ OutboxSane(o, f) /\ Queued(o) = Queued(s.outbox) \union {m}
      /\ o.protocol = s.outbox.protocol
      /\ Len(Documents(o.ordered)) = Len(Documents(s.outbox.ordered)) + 1
      /\ Len(Broadcasts(o.ordered)) = Len(Broadcasts(s.outbox.ordered)) + 0
  <2>  DEFINE j == Install(s.outbox, m.kind, << m >>)
  <2>1. /\ OutboxSane(j, f) /\ Queued(j) = Queued(s.outbox) \union {m}
        /\ j.protocol = s.outbox.protocol
        /\ Len(Documents(j.ordered)) = Len(Documents(s.outbox.ordered))
              + (IF m.kind = "DocumentUpdate" THEN 1 ELSE 0)
        /\ Len(Broadcasts(j.ordered)) = Len(Broadcasts(s.outbox.ordered))
              + (IF m.kind = "AwarenessBroadcast" THEN 1 ELSE 0)
      BY <1>1, <1>2, InstallsFrame
  <2>2. j = o
      BY <1>2 DEF o
  <2>  HIDE DEF j
  <2>  QED  BY <1>2, <2>1, <2>2
<1>4. Bounded(s.transport, o, e + 1)
  <2>  DEFINE d == Len(Documents(s.outbox.ordered))
              b == Len(Broadcasts(s.outbox.ordered))
              dd == Len(Documents(o.ordered))
              bb == Len(Broadcasts(o.ordered))
  <2>1. d \in Nat /\ b \in Nat
    <3>1. s.outbox.ordered \in Seq(Waiting)
        BY <1>1, OutboxFields
    <3>2. /\ Documents(s.outbox.ordered) \in Seq(Waiting)
          /\ Broadcasts(s.outbox.ordered) \in Seq(Waiting)
        BY <3>1, LengthsAddUp
    <3>  QED  BY <3>2
  <2>2. Bounded(s.transport, s.outbox, e)
      BY <1>1 DEF Coherent
  <2>3. d <= e /\ b <= 2
      BY <2>2 DEF Bounded
  <2>4. dd = d + 1 /\ bb = b + 0
      BY <1>3
  <2>  HIDE DEF d, b, dd, bb
  <2>5. dd <= e + 1 /\ bb <= 2
      BY <2>1, <2>3, <2>4
  <2>  QED  BY <1>3, <2>2, <2>5 DEF Bounded, dd, bb
<1>5. /\ NewestIsOwn(o, s.codec, r)
      /\ WithdrawalIsKept(s.awareness, o, s.codec, r)
      /\ Carried(s.outbox, s.codec.local) => Carried(o, s.codec.local)
  <2>1. \A n \in Queued(o) : n \in Queued(s.outbox) \/ n.id = {}
      BY <1>2, <1>3
  <2>2. Queued(s.outbox) \subseteq Queued(o)
      BY <1>3
  <2>3. NewestIsOwn(o, s.codec, r)
      BY <1>1, <2>1 DEF Coherent, NewestIsOwn
  <2>4. Carried(s.outbox, s.codec.local) => Carried(o, s.codec.local)
      BY <2>2 DEF Carried
  <2>5. NothingShows(s.outbox, r) => NothingShows(o, r)
      BY <2>1 DEF NothingShows
  <2>6. WithdrawalIsKept(s.awareness, s.outbox, s.codec, r)
      BY <1>1 DEF Coherent
  <2>7. WithdrawalIsKept(s.awareness, o, s.codec, r)
      BY <2>4, <2>5, <2>6 DEF WithdrawalIsKept
  <2>  QED  BY <2>3, <2>4, <2>7
<1>  DEFINE n == e + 1
<1>6. Bounded(s.transport, o, n)
    BY <1>4
<1>  HIDE DEF n
<1>7. /\ Requeued(s, o, [s EXCEPT !.outbox = o])
      /\ Sane([s EXCEPT !.outbox = o], r, f, n, c)
    BY <1>3, <1>5, <1>6, Requeues
<1>  QED  BY <1>7 DEF o, m, n

-----------------------------------------------------------------------------
(* The system *)

LEMMA Primed ==
    IInv' <=>
        /\ timer' \in SUBSET (0 .. MaxMillis)
        /\ wake' \in BOOLEAN
        /\ now' \in 0 .. MaxMillis
        /\ room' \in Sound
        /\ peer_refused' \in BOOLEAN
        /\ changes' \in 0 .. MaxChanges
        /\ edits' \in 0 .. MaxEdits
        /\ Sane(session', room', sending', edits', changes')
        /\ session'.awareness.now_millis <= now'
        /\ sending' # {} => session'.transport.state \in OpenStates
    BY DEF IInv, Variables

(* What a step leaves of a session and of its host.                        *)
Remains(r, e, c, n) ==
    /\ timer' \in SUBSET (0 .. MaxMillis)
    /\ Sane(session', r, sending', e, c)
    /\ session'.awareness.now_millis <= n
    /\ sending' # {} => session'.transport.state \in OpenStates

(* The directive of a call that succeeded is taken.                        *)
Took(result) ==
    /\ timer' = result.deadline
    /\ session'.transport = result.session.transport
    /\ session'.codec = result.session.codec
    /\ session'.awareness = result.session.awareness

LEMMA Consumes ==
    ASSUME NEW r \in Sound, NEW e, NEW c \in Nat, NEW n, NEW result,
           Returned(r, e, c, n, result), Consume(result)
    PROVE  Remains(r, e, c, n) /\ Took(result)
<1>  DEFINE s == result.session
            sends == s.transport.state \in OpenStates /\ Pending(s.outbox) > 0
<1>1. /\ Sane(s, r, {}, e, c) /\ s.awareness.now_millis <= n
      /\ result.deadline \subseteq 0 .. MaxMillis
    BY DEF Returned
<1>2. timer' = result.deadline
    BY DEF Consume
<1>3. CASE sends
  <2>  DEFINE o == LeaseNext(s.outbox)
              w == [s EXCEPT !.outbox = o]
  <2>1. Requeued(s, o, w) /\ Sane(w, r, {Frame(s.outbox)}, e, c)
    <3>  HIDE DEF s
    <3>  QED  BY <1>1, <1>3, SessionLeases
  <2>2. session' = w /\ sending' = {Frame(s.outbox)}
      BY <1>3 DEF Consume
  <2>  HIDE DEF w, o, s
  <2>3. /\ w.transport = s.transport /\ w.awareness = s.awareness
        /\ w.codec = s.codec
      BY <2>1 DEF Requeued, Quiet
  <2>  QED  BY <1>1, <1>2, <1>3, <2>1, <2>2, <2>3 DEF Remains, Took, s
<1>4. CASE ~sends
  <2>1. session' = s /\ sending' = {}
      BY <1>4 DEF Consume
  <2>  QED  BY <1>1, <1>2, <2>1 DEF Remains, Took
<1>  QED  BY <1>3, <1>4

(* The host reports the end of a connection.                               *)
Shut(s, r, e, c) ==
    /\ timer' \in SUBSET (0 .. MaxMillis)
    /\ sending' = {}
    /\ session'.awareness.now_millis <= now
    /\ session'.transport.state \notin OpenStates
    /\ s.transport.state \in AttemptStates =>
          \A x \in RoomsAfter(r) : Sane(session', x, {}, e, c)
    /\ s.transport.state \notin AttemptStates => session' = s

LEMMA Shuts ==
    ASSUME NEW s, NEW r \in Sound, NEW e \in 0 .. MaxEdits, NEW c \in Nat,
           Sane(s, r, {}, e, c), now \in 0 .. MaxMillis,
           s.awareness.now_millis <= now, NEW disposition,
           ReportClose(s, disposition)
    PROVE  Shut(s, r, e, c)
<1>  DEFINE result == PresenceCloseCall(s, s.transport.last_issued, disposition,
                                        now)
            w == result.session
<1>1. /\ s.transport.state \in AttemptStates =>
            \A x \in RoomsAfter(r) : Sane(w, x, {}, e, c)
      /\ s.transport.state \notin AttemptStates => w = s
      /\ w.transport.state \notin OpenStates
      /\ w.awareness.now_millis <= now
      /\ result.deadline \subseteq 0 .. MaxMillis
    BY Reports
<1>2. /\ session' = w /\ sending' = {}
      /\ timer' = IF result.ok THEN result.deadline ELSE {}
    BY DEF ReportClose, Closed
<1>  HIDE DEF w, result
<1>  QED  BY <1>1, <1>2 DEF Shut

LEMMA FinishedReturns ==
    ASSUME NEW s, NEW r, NEW e, NEW c, NEW n \in Nat, NEW result,
           Finished(s, r, {}, e, c, n, result)
    PROVE  Returned(r, e, c, n, result)
<1>1. n <= n
    OBVIOUS
<1>  QED  BY <1>1 DEF Finished, Returned

(* What the proofs need of the invariant.                                  *)
LEMMA IInvFacts ==
    ASSUME IInv
    PROVE  /\ timer \in SUBSET (0 .. MaxMillis) /\ wake \in BOOLEAN
           /\ now \in 0 .. MaxMillis /\ now \in Nat /\ room \in Sound
           /\ peer_refused \in BOOLEAN
           /\ changes \in 0 .. MaxChanges /\ changes \in Nat
           /\ edits \in 0 .. MaxEdits /\ edits \in Nat
           /\ Sane(session, room, sending, edits, changes)
           /\ session.awareness.now_millis <= now
           /\ session \in Sessions
           /\ NewestAttempt(session.transport)
    BY Constants DEF IInv, Variables, Sane, Coherent

LEMMA DriveHostKeeps ==
    ASSUME IInv, DriveHost
    PROVE  IInv'
<1>  DEFINE result == FinishPresence(session, now)
<1>1. /\ sending = {} /\ wake' = FALSE /\ now' = now /\ room' = room
      /\ peer_refused' = peer_refused /\ changes' = changes /\ edits' = edits
    BY DEF DriveHost
<1>2. CASE CanDriveHost(session)
  <2>1. Driven(result)
      BY <1>2 DEF DriveHost
  <2>2. Finished(session, room, {}, edits, changes, now, result)
      BY <1>1, IInvFacts, Finishes
  <2>  HIDE DEF result
  <2>3. Returned(room, edits, changes, now, result)
      BY <2>2, IInvFacts, FinishedReturns
  <2>4. CASE result.ok
    <3>1. Remains(room, edits, changes, now)
        BY <2>1, <2>3, <2>4, IInvFacts, Consumes DEF Driven
    <3>  QED  BY <1>1, <3>1, IInvFacts, Primed DEF Remains
  <2>5. CASE ~result.ok
    <3>1. /\ session' = result.session /\ timer' \subseteq timer
          /\ sending' = {}
        BY <2>1, <2>5 DEF Driven
    <3>2. /\ Sane(session', room, {}, edits, changes)
          /\ session'.awareness.now_millis <= now
        BY <2>3, <3>1 DEF Returned
    <3>  QED  BY <1>1, <3>1, <3>2, IInvFacts, Primed
  <2>  QED  BY <2>4, <2>5
<1>3. CASE ~CanDriveHost(session)
  <2>1. session' = session /\ timer' = timer /\ sending' = sending
      BY <1>3 DEF DriveHost
  <2>  QED  BY <1>1, <2>1, IInvFacts, Primed
<1>  QED  BY <1>2, <1>3

LEMMA SendSucceedsKeeps ==
    ASSUME IInv, SendSucceeds
    PROVE  IInv'
<1>  DEFINE o == [AckLease(session.outbox) EXCEPT !.next_lease_id = {1}]
<1>1. PICK m \in sending : room' = Delivered(m, room)
    BY Zenon DEF SendSucceeds, Delivered
<1>2. /\ session' = [session EXCEPT !.outbox = o]
      /\ sending' = {} /\ wake' = TRUE
      /\ timer' = timer /\ now' = now /\ peer_refused' = peer_refused
      /\ changes' = changes /\ edits' = edits
    BY IInvFacts DEF SendSucceeds, Sessions
<1>3. sending = {m}
  <2>1. LeaseIsFront(session.outbox, sending)
      BY IInvFacts DEF Sane, Coherent, OutboxSane
  <2>2. PICK x : sending = {x}
      BY <1>1, <2>1 DEF LeaseIsFront
  <2>  QED  BY <1>1, <2>2
<1>4. /\ Requeued(session, o, [session EXCEPT !.outbox = o])
      /\ Sane([session EXCEPT !.outbox = o], Delivered(m, room), {}, edits, changes)
      /\ Delivered(m, room) \in Sound
  <2>1. Sane(session, room, {m}, edits, changes)
      BY <1>3, IInvFacts
  <2>  QED  BY <2>1, IInvFacts, SessionDelivers
<1>  HIDE DEF o
<1>5. /\ Sane(session', room', {}, edits, changes) /\ room' \in Sound
      /\ session'.awareness.now_millis = session.awareness.now_millis
    BY <1>1, <1>2, <1>4 DEF Requeued, Quiet
<1>  QED  BY <1>2, <1>5, IInvFacts, Primed

LEMMA RoomsAreAfter == RoomAfterClose = RoomsAfter(room)
    BY DEF RoomAfterClose, RoomsAfter

(* A step that ends a connection.                                          *)
LEMMA ShutKeeps ==
    ASSUME IInv, NEW s, s.transport.state \in AttemptStates,
           Shut(s, room, edits, changes), room' \in RoomAfterClose,
           now' = now, changes' = changes, edits' = edits,
           wake' \in BOOLEAN, peer_refused' \in BOOLEAN
    PROVE  IInv'
<1>1. room' \in RoomsAfter(room)
    BY RoomsAreAfter
<1>2. room' \in Sound
    BY <1>1, IInvFacts, RoomsAfterFacts
<1>3. Sane(session', room', {}, edits, changes)
    BY <1>1 DEF Shut
<1>4. /\ timer' \in SUBSET (0 .. MaxMillis) /\ sending' = {}
      /\ session'.awareness.now_millis <= now
    BY DEF Shut
<1>  QED  BY <1>2, <1>3, <1>4, IInvFacts, Primed

(* What is reported of a message that was not sent is a session in order.  *)
LEMMA SendFailsShuts ==
    ASSUME IInv, SendFails
    PROVE  \E s : /\ s.transport.state \in AttemptStates
                  /\ Shut(s, room, edits, changes)
<1>  DEFINE o == [NackLease(session.outbox) EXCEPT !.next_lease_id = {1}]
            s == [session EXCEPT !.outbox = o]
<1>1. ReportClose(s, "Retryable") /\ sending # {}
  <2>1. s = [session EXCEPT !.outbox =
                [NackLease(@) EXCEPT !.next_lease_id = {1}]]
      BY IInvFacts DEF Sessions
  <2>  HIDE DEF s
  <2>  QED  BY <2>1 DEF SendFails
<1>2. Requeued(session, o, s) /\ Sane(s, room, {}, edits, changes)
    BY IInvFacts, SessionNacks
<1>  HIDE DEF s, o
<1>3. s.transport = session.transport /\ s.awareness = session.awareness
    BY <1>2 DEF Requeued, Quiet
<1>4. session.transport.state \in AttemptStates
    BY <1>1 DEF IInv, OpenStates, AttemptStates
<1>5. Shut(s, room, edits, changes)
  <2>1. s.awareness.now_millis <= now
      BY <1>3, IInvFacts
  <2>  QED  BY <1>1, <1>2, <2>1, IInvFacts, Shuts
<1>  QED  BY <1>3, <1>4, <1>5

LEMMA SendFailsKeeps ==
    ASSUME IInv, SendFails
    PROVE  IInv'
<1>1. PICK s : /\ s.transport.state \in AttemptStates
               /\ Shut(s, room, edits, changes)
    BY SendFailsShuts
<1>2. /\ room' \in RoomAfterClose /\ now' = now /\ changes' = changes
      /\ edits' = edits /\ wake' = wake /\ peer_refused' = peer_refused
    BY DEF SendFails
<1>  QED  BY <1>1, <1>2, IInvFacts, ShutKeeps

LEMMA SocketClosesKeeps ==
    ASSUME IInv, NEW disposition, SocketCloses(disposition)
    PROVE  IInv'
<1>1. /\ sending = {} /\ session.transport.state \in AttemptStates
      /\ ReportClose(session, disposition)
      /\ room' \in RoomAfterClose /\ now' = now /\ changes' = changes
      /\ edits' = edits /\ wake' = wake
      /\ peer_refused' = (peer_refused \/ disposition = "Incompatible")
    BY DEF SocketCloses
<1>2. Shut(session, room, edits, changes)
    BY <1>1, IInvFacts, Shuts
<1>3. peer_refused' \in BOOLEAN
    BY <1>1
<1>  QED  BY <1>1, <1>2, <1>3, IInvFacts, ShutKeeps

LEMMA SocketOpensKeeps ==
    ASSUME IInv, SocketOpens
    PROVE  IInv'
<1>  DEFINE result == PresenceOpenCall(session, session.transport.last_issued, now)
            u == result.session
<1>1. /\ sending = {} /\ session.transport.state = "Connecting"
      /\ Activated(result)
      /\ wake' = wake /\ now' = now /\ room' = room
      /\ peer_refused' = peer_refused /\ changes' = changes /\ edits' = edits
    BY DEF SocketOpens
<1>2. Returned(room, edits, changes, now, result)
    BY <1>1, IInvFacts, Opens
<1>  HIDE DEF result
<1>3. CASE result.ok /\ u.transport.state \in OpenStates
  <2>1. Consume(result)
      BY <1>1, <1>3 DEF Activated
  <2>2. Remains(room, edits, changes, now)
      BY <1>2, <2>1, IInvFacts, Consumes
  <2>  QED  BY <1>1, <2>2, IInvFacts, Primed DEF Remains
<1>4. CASE ~(result.ok /\ u.transport.state \in OpenStates)
  <2>1. ReportClose(u, "Incompatible")
      BY <1>1, <1>4 DEF Activated
  <2>2. Sane(u, room, {}, edits, changes) /\ u.awareness.now_millis <= now
      BY <1>2 DEF Returned
  <2>3. Shut(u, room, edits, changes)
    <3>  HIDE DEF u
    <3>  QED  BY <2>1, <2>2, IInvFacts, Shuts
  <2>4. Sane(session', room, {}, edits, changes)
      BY <2>2, <2>3, RoomsStay DEF Shut
  <2>  QED  BY <1>1, <2>3, <2>4, IInvFacts, Primed DEF Shut
<1>  QED  BY <1>3, <1>4

LEMMA PeerSendsKeeps ==
    ASSUME IInv, NEW m \in RoomMessages, PeerSends(m)
    PROVE  IInv'
<1>  DEFINE result == PresenceReceiveCall(session,
                          session.transport.last_issued, m, now)
            u == result.session
            w == ReceivePresence(session, m, now)
<1>1. /\ sending = {} /\ session.transport.state \in OpenStates
      /\ m.queries => Len(session.outbox.protocol) < MaxReplies
      /\ Activated(result)
      /\ room' \in IF session'.transport.state \in OpenStates
                     THEN {room} ELSE RoomAfterClose
      /\ wake' = wake /\ now' = now /\ changes' = changes /\ edits' = edits
    BY DEF PeerSends
<1>2. peer_refused' \in BOOLEAN
    BY IInvFacts DEF PeerSends, Noticed
<1>3. Heeded(session, room, edits, changes, m, now, w, result)
    BY <1>1, IInvFacts, ReceiveCalls
<1>  HIDE DEF result, w
<1>4. CASE result.ok /\ u.transport.state \in OpenStates
  <2>1. Consume(result)
      BY <1>1, <1>4 DEF Activated
  <2>2. Returned(room, edits, changes, now, result)
    <3>1. now <= now
        BY IInvFacts
    <3>  QED  BY <1>3, <1>4, <3>1 DEF Heeded, Returned
  <2>3. Remains(room, edits, changes, now) /\ Took(result)
      BY <2>1, <2>2, IInvFacts, Consumes
  <2>4. room' = room
      BY <1>1, <1>4, <2>3 DEF Took
  <2>  QED  BY <1>1, <1>2, <2>3, <2>4, IInvFacts, Primed DEF Remains
<1>5. CASE ~(result.ok /\ u.transport.state \in OpenStates)
  <2>1. ReportClose(u, "Incompatible")
      BY <1>1, <1>5 DEF Activated
  <2>2. u.awareness.now_millis <= now
    <3>1. now <= now
        BY IInvFacts
    <3>  QED  BY <1>3, <3>1 DEF Heeded
  <2>3. CASE w.transport.state \in OpenStates
    <3>1. Sane(u, room, {}, edits, changes) /\ u.transport.state \in AttemptStates
        BY <1>3, <2>3 DEF Heeded, OpenStates, AttemptStates
    <3>2. Shut(u, room, edits, changes)
      <4>  HIDE DEF u
      <4>  QED  BY <2>1, <2>2, <3>1, IInvFacts, Shuts
    <3>3. room' \in RoomAfterClose
        BY <1>1, <3>2 DEF Shut
    <3>  QED  BY <1>1, <1>2, <3>1, <3>2, <3>3, IInvFacts, ShutKeeps
  <2>4. CASE w.transport.state \notin OpenStates
    <3>1. \A x \in RoomsAfter(room) : Sane(u, x, {}, edits, changes)
        BY <1>3, <2>4 DEF Heeded
    <3>2. ASSUME NEW x \in RoomsAfter(room)
          PROVE  Shut(u, x, edits, changes) /\ Sane(session', x, {}, edits, changes)
      <4>1. x \in Sound /\ Sane(u, x, {}, edits, changes)
          BY <3>1, <3>2, IInvFacts, RoomsAfterFacts
      <4>2. Shut(u, x, edits, changes)
        <5>  HIDE DEF u
        <5>  QED  BY <2>1, <2>2, <4>1, IInvFacts, Shuts
      <4>  QED  BY <4>1, <4>2, RoomsStay DEF Shut
    <3>3. Shut(u, room, edits, changes)
        BY <3>2, RoomsStay
    <3>4. room' \in RoomsAfter(room)
        BY <1>1, <3>3, RoomsAreAfter DEF Shut
    <3>5. room' \in Sound /\ Sane(session', room', {}, edits, changes)
        BY <3>2, <3>4, IInvFacts, RoomsAfterFacts
    <3>  QED  BY <1>1, <1>2, <3>3, <3>5, IInvFacts, Primed DEF Shut
  <2>  QED  BY <2>3, <2>4
<1>  QED  BY <1>4, <1>5

LEMMA SetAwarenessKeeps ==
    ASSUME IInv, NEW state \in States, SetAwareness(state)
    PROVE  IInv'
<1>  DEFINE result == SetDesired(session, state)
            w == result.session
<1>1. /\ changes < MaxChanges /\ changes' = changes + 1 /\ session' = w
      /\ wake' = (wake \/ result.ok)
      /\ timer' = timer /\ sending' = sending /\ now' = now /\ room' = room
      /\ peer_refused' = peer_refused /\ edits' = edits
    BY DEF SetAwareness, Changed
<1>2. Sane(w, room, sending, edits, changes + 1) /\ Quiet(session, w)
    BY IInvFacts, Sets
<1>  HIDE DEF w, result
<1>3. wake' \in BOOLEAN
    BY <1>1, Zenon
<1>4. changes' \in 0 .. MaxChanges
    BY <1>1, IInvFacts, Constants
<1>5. /\ session'.transport = session.transport
      /\ session'.awareness.now_millis = session.awareness.now_millis
    BY <1>1, <1>2 DEF Quiet
<1>6. sending' # {} => session'.transport.state \in OpenStates
    BY <1>1, <1>5 DEF IInv
<1>  QED  BY <1>1, <1>2, <1>3, <1>4, <1>5, <1>6, IInvFacts, Primed

LEMMA ClearAwarenessKeeps ==
    ASSUME IInv, ClearAwareness
    PROVE  IInv'
<1>  DEFINE result == ClearDesired(session)
            w == result.session
<1>1. /\ changes < MaxChanges /\ changes' = changes + 1 /\ session' = w
      /\ wake' = (wake \/ result.ok)
      /\ timer' = timer /\ sending' = sending /\ now' = now /\ room' = room
      /\ peer_refused' = peer_refused /\ edits' = edits
    BY DEF ClearAwareness, Changed
<1>2. Sane(w, room, sending, edits, changes) /\ Quiet(session, w)
    BY IInvFacts, Clears
<1>  HIDE DEF w, result
<1>3. wake' \in BOOLEAN
    BY <1>1, Zenon
<1>4. changes' \in 0 .. MaxChanges /\ changes' \in Nat /\ changes <= changes'
    BY <1>1, IInvFacts, Constants
<1>5. edits <= edits
    BY IInvFacts
<1>6. Sane(w, room, sending, edits, changes')
    BY <1>2, <1>4, <1>5, IInvFacts, SaneGrows
<1>7. /\ session'.transport = session.transport
      /\ session'.awareness.now_millis = session.awareness.now_millis
    BY <1>1, <1>2 DEF Quiet
<1>8. sending' # {} => session'.transport.state \in OpenStates
    BY <1>1, <1>7 DEF IInv
<1>  QED  BY <1>1, <1>3, <1>4, <1>6, <1>7, <1>8, IInvFacts, Primed

LEMMA EditKeeps ==
    ASSUME IInv, Edit
    PROVE  IInv'
<1>  DEFINE o == Install(session.outbox, "DocumentUpdate",
                         <<[kind |-> "DocumentUpdate", id |-> {}, bytes |-> 1]>>)
            w == [session EXCEPT !.outbox = o]
<1>1. /\ edits < MaxEdits /\ session' = w /\ edits' = edits + 1 /\ wake' = TRUE
      /\ timer' = timer /\ sending' = sending /\ now' = now /\ room' = room
      /\ peer_refused' = peer_refused /\ changes' = changes
    BY IInvFacts DEF Edit, Sessions
<1>2. Requeued(session, o, w) /\ Sane(w, room, sending, edits + 1, changes)
    BY IInvFacts, SessionEdits
<1>  HIDE DEF w, o
<1>3. edits' \in 0 .. MaxEdits
    BY <1>1, IInvFacts, Constants
<1>4. /\ session'.transport = session.transport
      /\ session'.awareness.now_millis = session.awareness.now_millis
    BY <1>1, <1>2 DEF Requeued, Quiet
<1>5. sending' # {} => session'.transport.state \in OpenStates
    BY <1>1, <1>4 DEF IInv
<1>  QED  BY <1>1, <1>2, <1>3, <1>4, <1>5, IInvFacts, Primed

(* What is left of a connection that ends without a report.                *)
LEMMA DetachmentKeeps ==
    ASSUME IInv, sending = {}, NEW t, Retired(session.transport, t),
           session' = ClearTransportPeers(
                          [session EXCEPT !.transport = t,
                                          !.outbox = ReleaseLease(session.outbox)]),
           room' \in RoomsAfter(room), timer' \in SUBSET (0 .. MaxMillis),
           wake' \in BOOLEAN, sending' = sending, now' = now,
           peer_refused' = peer_refused, changes' = changes, edits' = edits
    PROVE  IInv' /\ session'.transport.state \notin OpenStates
<1>  DEFINE v == [session EXCEPT !.transport = t,
                                 !.outbox = ReleaseLease(session.outbox)]
            w == ClearTransportPeers(v)
<1>1. Sane(session, room, {}, edits, changes)
    BY IInvFacts
<1>2. ReleaseLease(session.outbox) \in Outboxes /\ t \in Transports
  <2>1. OutboxSane(session.outbox, {})
      BY <1>1 DEF Sane, Coherent
  <2>  QED  BY <2>1, Releases DEF OutboxSane, Retired
<1>3. /\ v \in Sessions /\ v.transport = t
      /\ v.outbox = ReleaseLease(session.outbox)
      /\ v.awareness = session.awareness /\ v.codec = session.codec
    BY <1>2, IInvFacts DEF Sessions
<1>4. session' = w
    OBVIOUS
<1>  HIDE DEF v
<1>5. /\ \A x \in RoomsAfter(room) : Sane(w, x, {}, edits, changes)
      /\ w.transport.state \notin OpenStates
      /\ w.awareness.now_millis = session.awareness.now_millis
  <2>1. Retired(session.transport, v.transport)
      BY <1>3
  <2>  HIDE DEF w
  <2>  QED  BY <1>1, <1>3, <2>1, IInvFacts, Detaches DEF w
<1>  HIDE DEF w
<1>6. room' \in Sound
    BY IInvFacts, RoomsAfterFacts
<1>  QED  BY <1>4, <1>5, <1>6, IInvFacts, Primed

LEMMA BackgroundKeeps ==
    ASSUME IInv, Background
    PROVE  IInv' /\ session'.transport.state \notin OpenStates
<1>  DEFINE t == Detach(session.transport)
<1>1. /\ sending = {} /\ timer' = {} /\ room' \in RoomsAfter(room)
      /\ wake' = wake /\ sending' = sending /\ now' = now
      /\ peer_refused' = peer_refused /\ changes' = changes /\ edits' = edits
      /\ session' = DetachPresence(session)
    BY RoomsAreAfter DEF Background
<1>2. session' = ClearTransportPeers(
                     [session EXCEPT !.transport = t,
                                     !.outbox = ReleaseLease(session.outbox)])
    BY <1>1, IInvFacts DEF DetachPresence, DetachSession, Sessions
<1>3. Retired(session.transport, t)
    BY IInvFacts, SessionFields, DetachesTransport
<1>  HIDE DEF t
<1>  QED  BY <1>1, <1>2, <1>3, IInvFacts, DetachmentKeeps

LEMMA ForegroundKeeps ==
    ASSUME IInv, Foreground
    PROVE  IInv' /\ session'.transport.state \notin OpenStates
<1>  DEFINE t == Reattach(session.transport)
<1>1. /\ session.transport.state = "Detached" /\ wake' = TRUE
      /\ timer' = timer /\ sending' = sending /\ now' = now /\ room' = room
      /\ peer_refused' = peer_refused /\ changes' = changes /\ edits' = edits
      /\ session' = ReattachPresence(session)
    BY DEF Foreground
<1>2. session' = ClearTransportPeers(
                     [session EXCEPT !.transport = t,
                                     !.outbox = ReleaseLease(session.outbox)])
    BY <1>1, IInvFacts DEF ReattachPresence, ReattachSession, Sessions
<1>3. Retired(session.transport, t)
    BY <1>1, IInvFacts, SessionFields, DetachesTransport
<1>4. sending = {}
    BY <1>1 DEF IInv, OpenStates
<1>5. room' \in RoomsAfter(room)
    BY <1>1, RoomsStay
<1>  HIDE DEF t
<1>  QED  BY <1>1, <1>2, <1>3, <1>4, <1>5, IInvFacts, DetachmentKeeps

LEMMA PassKeeps ==
    ASSUME IInv, Pass
    PROVE  IInv'
<1>1. /\ now < MaxMillis /\ sending = {} /\ now' = now + 1
      /\ session' = session /\ timer' = timer /\ wake' = wake
      /\ sending' = sending /\ room' = room /\ peer_refused' = peer_refused
      /\ changes' = changes /\ edits' = edits
    BY DEF Pass
<1>2. now' \in 0 .. MaxMillis /\ session.awareness.now_millis <= now'
  <2>1. session.awareness.now_millis \in Nat
      BY IInvFacts, SessionFields, AwarenessFields
  <2>  QED  BY <1>1, <2>1, IInvFacts, Constants
<1>  QED  BY <1>1, <1>2, IInvFacts, Primed

LEMMA InitKeeps ==
    ASSUME Init
    PROVE  IInv
<1>1. /\ session = WithPresence(NewSession("RoomReady"))
      /\ timer = {} /\ wake = TRUE /\ sending = {} /\ now = 0
      /\ room = Entry(0, {}) /\ peer_refused = FALSE
      /\ changes = 0 /\ edits = 0
    BY DEF Init
<1>2. /\ 0 \in 0 .. MaxMillis /\ 0 \in 0 .. MaxAwarenessClock
      /\ 0 \in 0 .. MaxGeneration
      /\ 0 \in 0 .. MaxChanges /\ 0 \in 0 .. MaxEdits
    BY Constants
<1>3. Entry(0, {}) \in Sound /\ Entry(0, {}).clock = 0 /\ Entry(0, {}).state = {}
    BY <1>2, EntryIs DEF Options
<1>4. /\ NewTransport("Disconnected") \in Transports
      /\ NewTransport("Disconnected").state = "Disconnected"
      /\ NewTransport("Disconnected").live_attempt = {}
      /\ NewTransport("Disconnected").last_issued = 0
  <2>1. 0 \in 0 .. FinalRetryDelayIndex
      BY RetryDelaysAssumption DEF FinalRetryDelayIndex
  <2>2. "Disconnected" \in TransportStates
      BY DEF TransportStates
  <2>  QED  BY <1>2, <2>1, <2>2 DEF NewTransport, Transports
<1>5. /\ NewOutbox \in Outboxes
      /\ NewOutbox.ordered = << >> /\ NewOutbox.protocol = << >>
      /\ NewOutbox.pending_bytes = 0 /\ NewOutbox.pending_awareness_bytes = 0
      /\ NewOutbox.pending_protocol_bytes = 0
      /\ NewOutbox.active_lease = {} /\ NewOutbox.next_lease_id = {1}
  <2>1. << >> \in Seq(Waiting) /\ << >> \in Seq(Answering)
      OBVIOUS
  <2>2. {} \in SUBSET [id : {1}, kind : Kinds] /\ {1} \in SUBSET Nat
      OBVIOUS
  <2>  QED  BY <2>1, <2>2 DEF NewOutbox, Outboxes, NoCharge
<1>6. /\ NewAwareness \in Awarenesses /\ NewAwareness.desired_state = {}
      /\ NewAwareness.now_millis = 0 /\ NewAwareness.pending_withdrawal = {}
      /\ NewAwareness.last_local_publish_millis = {}
      /\ DOMAIN NewAwareness.peer_activity = {}
  <2>  DEFINE g == [p \in {} |-> 0]
  <2>1. DOMAIN g = {} /\ g \in [{} -> 0 .. MaxMillis] /\ {} \in SUBSET Peers
      OBVIOUS
  <2>2. NewAwareness = [desired_state |-> {}, now_millis |-> 0,
                        last_local_publish_millis |-> {},
                        pending_withdrawal |-> {}, peer_activity |-> g]
      BY DEF NewAwareness
  <2>  HIDE DEF g
  <2>3. g \in Functions(Peers, 0 .. MaxMillis)
      BY <2>1, FunctionIs
  <2>  QED  BY <1>2, <2>1, <2>2, <2>3 DEF Awarenesses, Options
<1>7. /\ NewCodec \in Codecs /\ NewCodec.local = Entry(0, {})
      /\ DOMAIN NewCodec.remote = {} /\ Live(NewCodec.remote) = {}
  <2>  DEFINE g == [p \in {} |-> Entry(0, {})]
  <2>1. DOMAIN g = {} /\ g \in [{} -> Sound] /\ {} \in SUBSET Peers
      OBVIOUS
  <2>2. NewCodec = [local |-> Entry(0, {}), remote |-> g]
      BY DEF NewCodec
  <2>  HIDE DEF g
  <2>3. g \in Functions(Peers, Sound) /\ Live(g) = {}
      BY <2>1, FunctionIs DEF Live
  <2>  QED  BY <1>3, <2>1, <2>2, <2>3 DEF Codecs
<1>8. /\ session.transport = NewTransport("Disconnected")
      /\ session.outbox = NewOutbox /\ session.awareness = NewAwareness
      /\ session.codec = NewCodec /\ session \in Sessions
  <2>1. session = [transport      |-> NewTransport("Disconnected"),
                   outbox         |-> NewOutbox,
                   document_state |-> "RoomReady",
                   awareness      |-> NewAwareness,
                   codec          |-> NewCodec]
      BY <1>1 DEF WithPresence, NewSession
  <2>  QED  BY <1>4, <1>5, <1>6, <1>7, <2>1 DEF Sessions, DocumentStates
<1>9. Documents(<< >>) = << >> /\ Broadcasts(<< >>) = << >>
    BY OfKindOfNone DEF Documents, Broadcasts
<1>10. Queued(NewOutbox) = {}
    BY <1>5 DEF Queued, Elements
<1>11. /\ OutboxSane(NewOutbox, {})
       /\ Bounded(session.transport, NewOutbox, edits)
  <2>1. Len(<< >>) = 0
      OBVIOUS
  <2>2. Exact(NewOutbox) /\ LeaseIsFront(NewOutbox, {})
      BY <1>5, <1>9, <2>1 DEF Exact, LeaseIsFront
  <2>3. Openings(session.transport) = 0
      BY <1>4, <1>8 DEF Openings
  <2>  QED  BY <1>1, <1>5, <1>9, <2>1, <2>2, <2>3, Constants
            DEF OutboxSane, Bounded
<1>12. NewestAttempt(session.transport)
    BY <1>4, <1>8 DEF NewestAttempt, AttemptStates
<1>13. IntentIsShown(NewAwareness, NewCodec)
    BY <1>3, <1>6, <1>7 DEF IntentIsShown
<1>14. PeersFollowed(session)
    BY <1>3, <1>6, <1>7, <1>8 DEF PeersFollowed
<1>15. /\ NewestIsOwn(NewOutbox, NewCodec, room)
       /\ WithdrawalIsKept(NewAwareness, NewOutbox, NewCodec, room)
    BY <1>1, <1>3, <1>7, <1>10
    DEF NewestIsOwn, WithdrawalIsKept, NothingShows, Within
<1>16. Coherent(session, room, sending, edits)
    BY <1>1, <1>8, <1>11, <1>12, <1>13, <1>14, <1>15 DEF Coherent
<1>17. PresenceIsShown(session, room)
    BY <1>6, <1>8 DEF PresenceIsShown
<1>18. ClockIsBounded(session, changes)
  <2>1. Latest(session) = {0}
      BY <1>6, <1>8 DEF Latest
  <2>2. Spent(session) = 0
      BY <1>3, <1>4, <1>7, <1>8 DEF Spent
  <2>  QED  BY <1>1, <1>4, <1>6, <1>8, <2>1, <2>2 DEF ClockIsBounded
<1>19. Sane(session, room, sending, edits, changes)
    BY <1>16, <1>17, <1>18 DEF Sane
<1>20. Variables
    BY <1>1, <1>2, <1>3 DEF Variables
<1>21. session.awareness.now_millis <= now
    BY <1>1, <1>6, <1>8
<1>  QED  BY <1>1, <1>19, <1>20, <1>21 DEF IInv

(* The invariant is inductive.                                             *)
LEMMA NextKeeps ==
    ASSUME IInv, [Next]_vars
    PROVE  IInv'
<1>1. CASE DriveHost
    BY <1>1, DriveHostKeeps
<1>2. CASE SendSucceeds
    BY <1>2, SendSucceedsKeeps
<1>3. CASE SendFails
    BY <1>3, SendFailsKeeps
<1>4. CASE SocketOpens
    BY <1>4, SocketOpensKeeps
<1>5. CASE \E disposition \in Dispositions : SocketCloses(disposition)
    BY <1>5, SocketClosesKeeps
<1>6. CASE \E m \in RoomMessages : PeerSends(m)
    BY <1>6, PeerSendsKeeps
<1>7. CASE \E state \in States : SetAwareness(state)
    BY <1>7, SetAwarenessKeeps
<1>8. CASE ClearAwareness
    BY <1>8, ClearAwarenessKeeps
<1>9. CASE Edit
    BY <1>9, EditKeeps
<1>10. CASE Background
    BY <1>10, BackgroundKeeps
<1>11. CASE Foreground
    BY <1>11, ForegroundKeeps
<1>12. CASE Pass
    BY <1>12, PassKeeps
<1>13. CASE UNCHANGED vars
  <2>1. /\ session' = session /\ timer' = timer /\ wake' = wake
        /\ sending' = sending /\ now' = now /\ room' = room
        /\ peer_refused' = peer_refused /\ changes' = changes /\ edits' = edits
      BY <1>13 DEF vars
  <2>2. sending' # {} => session'.transport.state \in OpenStates
      BY <2>1 DEF IInv
  <2>  QED  BY <2>1, <2>2, IInvFacts, Primed
<1>  QED  BY <1>1, <1>2, <1>3, <1>4, <1>5, <1>6, <1>7, <1>8, <1>9, <1>10,
             <1>11, <1>12, <1>13 DEF Next

(* The invariant of the session and its host: what the session holds, how  *)
(* its entry relates to those in its queues and at the room, and what      *)
(* bounds its queues and clocks.                                           *)
THEOREM SessionIsSane == Spec => []IInv
<1>1. Init => IInv
    BY InitKeeps
<1>2. IInv /\ [Next]_vars => IInv'
    BY NextKeeps
<1>  QED  BY <1>1, <1>2, PTL DEF Spec

LEMMA MessagesAreQueued == Messages = Queued(session.outbox)
    BY DEF Messages, Queued, Elements

(* awareness.rs, clear_desired_awareness and tick: whatever the outbox     *)
(* refuses, whenever the connection ends and whatever the room made of the *)
(* entry then, a presence the application withdrew does not stay: the      *)
(* tombstone that removes it is queued or kept for a retry.                *)
THEOREM WithdrawnPresenceLeaves == Spec => []WithdrawalKept
<1>1. IInv => WithdrawalKept
  <2>  SUFFICES ASSUME IInv, room.state # {},
                       session.awareness.desired_state = {}
                PROVE  \/ \E w \in session.awareness.pending_withdrawal :
                             Supersedes(w.entry, room)
                       \/ \E m \in Messages : \E entry \in m.id :
                             entry.state = {} /\ Supersedes(entry, room)
      BY DEF WithdrawalKept
  <2>  DEFINE l == session.codec.local
  <2>1. /\ Coherent(session, room, sending, edits)
        /\ session.codec \in Codecs /\ l \in Sound /\ room \in Sound
      BY IInvFacts, SessionFields, CodecFields DEF Sane
  <2>2. l.state = {} /\ \A w \in session.awareness.pending_withdrawal : w.entry = l
      BY <2>1 DEF Coherent, IntentIsShown
  <2>3. Supersedes(l, room)
    <3>1. Within(room, l)
        BY <2>1 DEF Coherent, NewestIsOwn
    <3>2. room = l \/ Supersedes(l, room)
        BY <2>1, <3>1, WithinFacts
    <3>  QED  BY <2>2, <3>2
  <2>4. \/ session.awareness.pending_withdrawal # {}
        \/ Carried(session.outbox, l)
      BY <2>1 DEF Coherent, WithdrawalIsKept, NothingShows
  <2>5. Carried(session.outbox, l) =>
           \E m \in Messages : \E entry \in m.id :
              entry.state = {} /\ Supersedes(entry, room)
    <3>  SUFFICES ASSUME NEW m \in Queued(session.outbox), m.id = {l}
                  PROVE  \E n \in Messages : \E entry \in n.id :
                            entry.state = {} /\ Supersedes(entry, room)
        BY DEF Carried
    <3>1. m \in Messages /\ l \in m.id
        BY MessagesAreQueued
    <3>  QED  BY <2>2, <2>3, <3>1
  <2>  QED  BY <2>2, <2>3, <2>4, <2>5
<1>  QED  BY <1>1, SessionIsSane, PTL

(* Types of the variables, with the clocks of all entries in their range.  *)
THEOREM TypesAreKept == Spec => []TypeOK
<1>1. IInv => TypeOK
  <2>  SUFFICES ASSUME IInv PROVE TypeOK
      OBVIOUS
  <2>1. /\ session.transport \in Transports /\ session.codec \in Codecs
        /\ session.awareness \in Awarenesses
      BY IInvFacts, SessionFields
  <2>2. \A x \in Sound : x \in Entries
    <3>1. \A x \in Options(States) : x \in SUBSET States
        BY DEF Options
    <3>  QED  BY <3>1 DEF Sound, Entries
  <2>3. session.codec.local \in Entries /\ room \in Entries
      BY <2>1, <2>2, IInvFacts, CodecFields
  <2>4. \A p \in DOMAIN session.codec.remote :
           p \in Peers /\ session.codec.remote[p] \in Entries
    <3>1. session.codec.remote \in Functions(Peers, Sound)
        BY <2>1, CodecFields
    <3>2. /\ session.codec.remote \in [DOMAIN session.codec.remote -> Sound]
          /\ DOMAIN session.codec.remote \subseteq Peers
        BY <3>1, FunctionIs
    <3>  QED  BY <2>2, <3>2
  <2>5. /\ session.awareness.desired_state \in SUBSET States
        /\ session.awareness.now_millis \in 0 .. MaxMillis
    <3>1. /\ session.awareness.desired_state \in Options(States)
          /\ session.awareness.now_millis \in 0 .. MaxMillis
        BY <2>1, AwarenessFields
    <3>  QED  BY <3>1 DEF Options
  <2>  QED  BY <2>1, <2>3, <2>4, <2>5, IInvFacts DEF TypeOK
<1>  QED  BY <1>1, SessionIsSane, PTL

(* awareness.rs, next_deadline_millis and tick: a deadline is kept for     *)
(* exactly the peers that are shown, through updates, expiries and the end *)
(* of connections.                                                         *)
THEOREM PeersHaveDeadlines == Spec => []ActivityFollowsPeers
<1>1. IInv => ActivityFollowsPeers
    BY DEF IInv, Sane, Coherent, PeersFollowed, ActivityFollowsPeers
<1>  QED  BY <1>1, SessionIsSane, PTL

(* While the outbox has room, what the session last said of itself is what *)
(* the room knows, or is on its way there: an update that was coalesced    *)
(* away, a tombstone that was kept offline and one that the room made of a *)
(* lost connection are each outdone by a later entry of the session's.     *)
THEOREM PresenceReachesTheRoom == ASSUME Roomy PROVE Spec => []PresenceSettles
<1>1. IInv => PresenceSettles
  <2>  DEFINE l == session.codec.local
  <2>  SUFFICES ASSUME IInv, Synchronized(session)
                PROVE  \/ room = l
                       \/ room.state = {} /\ l.state = {}
                       \/ OnItsWay(l)
                       \/ \E w \in session.awareness.pending_withdrawal :
                             w.entry = l
      BY DEF PresenceSettles
  <2>1. /\ Coherent(session, room, sending, edits)
        /\ PresenceIsShown(session, room)
      BY IInvFacts DEF Sane
  <2>2. Carried(session.outbox, l) => OnItsWay(l)
      BY MessagesAreQueued DEF Carried, OnItsWay
  <2>3. CASE session.awareness.desired_state # {}
      BY <2>1, <2>2, <2>3 DEF PresenceIsShown
  <2>4. CASE session.awareness.desired_state = {}
    <3>1. /\ l.state = {}
          /\ \A w \in session.awareness.pending_withdrawal : w.entry = l
        BY <2>1, <2>4 DEF Coherent, IntentIsShown
    <3>2. \/ session.awareness.pending_withdrawal # {}
          \/ Carried(session.outbox, l)
          \/ room.state = {}
        BY <2>1, <2>4 DEF Coherent, WithdrawalIsKept, NothingShows
    <3>  QED  BY <2>2, <3>1, <3>2
  <2>  QED  BY <2>3, <2>4
<1>  QED  BY <1>1, SessionIsSane, PTL

-----------------------------------------------------------------------------
(* Deadlines *)

LEMMA TimesPrimed ==
    /\ PeersAreHeard' <=> Hears(session', heard', now')
    /\ TimersAreSet' <=>
          (~wake' /\ sending' = {} /\ session'.transport.state \in OpenStates =>
              Armed(session', timer', now'))
    BY DEF PeersAreHeard, TimersAreSet

(* Without a connection there are no peers and no deadlines.               *)
LEMMA NothingIsDue ==
    ASSUME IInv', session'.transport.state \notin OpenStates
    PROVE  PeersAreHeard' /\ TimersAreSet'
<1>1. PeersFollowed(session')
    BY Primed DEF Sane, Coherent
<1>2. Live(session'.codec.remote) = {}
    BY <1>1 DEF PeersFollowed, Live
<1>  QED  BY <1>2, TimesPrimed DEF Hears

(* What deadlines depend on.                                               *)
LEMMA SameDeadlines ==
    ASSUME NEW s, NEW w, Quiet(s, w), NEW told, NEW n
    PROVE  /\ Hears(s, told, n) => Hears(w, told, n)
           /\ \/ w.awareness.desired_state = {}
              \/ w.awareness = s.awareness
              => \A timers : Armed(s, timers, n) => Armed(w, timers, n)
<1>1. Hears(s, told, n) => Hears(w, told, n)
    BY DEF Hears, Quiet
<1>2. ASSUME NEW timers, Armed(s, timers, n),
             \/ w.awareness.desired_state = {}
             \/ w.awareness = s.awareness
      PROVE  Armed(w, timers, n)
    BY <1>2 DEF Armed, Quiet, Synchronized
<1>  QED  BY <1>1, <1>2

LEMMA ActivityTimes ==
    ASSUME NEW s, NEW r, NEW f, NEW e, Coherent(s, r, f, e)
    PROVE  \A p \in Live(s.codec.remote) : s.awareness.peer_activity[p] \in Nat
<1>1. /\ s.awareness \in Awarenesses
      /\ DOMAIN s.awareness.peer_activity = Live(s.codec.remote)
    BY CoherentFacts DEF Coherent, PeersFollowed
<1>2. s.awareness.peer_activity \in Functions(Peers, 0 .. MaxMillis)
    BY <1>1, AwarenessFields
<1>3. s.awareness.peer_activity \in
         [DOMAIN s.awareness.peer_activity -> 0 .. MaxMillis]
    BY <1>2, FunctionIs
<1>  QED  BY <1>1, <1>3, Constants

LEMMA PromptIsArmed ==
    ASSUME NEW s, NEW r, NEW f, NEW e, NEW c, Sane(s, r, f, e, c),
           NEW n \in Nat, NEW timers, Prompt(s, n, timers)
    PROVE  Armed(s, timers, n)
<1>1. /\ s.awareness \in Awarenesses /\ Coherent(s, r, f, e)
      /\ s.awareness.last_local_publish_millis \subseteq Nat
    BY CoherentFacts DEF Sane
<1>2. \A p \in Live(s.codec.remote) : s.awareness.peer_activity[p] \in Nat
    BY <1>1, ActivityTimes
<1>3. ASSUME NEW millis \in Nat, NEW interval \in Nat,
             Due(n, millis, interval, timers)
      PROVE  Met(n, timers, millis, interval)
    BY <1>3 DEF Due, Met
<1>  QED  BY <1>1, <1>2, <1>3, Constants DEF Prompt, Armed

(* A directive is taken: what is due is set.                               *)
LEMMA TakesDeadlines ==
    ASSUME Ample, IInv', NEW r, NEW e, NEW c, NEW result,
           Returned(r, e, c, now, result), now \in Nat, now' = now,
           result.ok, Took(result),
           session'.transport.state \in OpenStates
    PROVE  TimersAreSet'
<1>  DEFINE s == result.session
<1>1. Sane(s, r, {}, e, c) /\ Prompt(s, now, result.deadline)
    BY DEF Returned, Ample, Took
<1>  HIDE DEF s
<1>2. Armed(s, result.deadline, now)
    BY <1>1, PromptIsArmed
<1>3. Quiet(s, session') /\ session'.awareness = s.awareness
    BY DEF Took, Quiet, s
<1>4. Armed(session', result.deadline, now)
    BY <1>2, <1>3, SameDeadlines
<1>5. timer' = result.deadline
    BY DEF Took
<1>  QED  BY <1>4, <1>5, TimesPrimed

LEMMA DriveHostMeets ==
    ASSUME Ample, TInv, DriveHost
    PROVE  PeersAreHeard' /\ TimersAreSet'
<1>  USE DEF TInv
<1>  DEFINE result == FinishPresence(session, now)
<1>1. /\ sending = {} /\ wake' = FALSE /\ now' = now /\ heard' = heard
    BY DEF DriveHost
<1>2. IInv'
    BY DriveHostKeeps
<1>3. CASE session'.transport.state \notin OpenStates
    BY <1>2, <1>3, NothingIsDue
<1>4. CASE session'.transport.state \in OpenStates
  <2>1. CanDriveHost(session)
    <3>  SUFFICES ASSUME ~CanDriveHost(session) PROVE FALSE
        OBVIOUS
    <3>1. session' = session
        BY DEF DriveHost
    <3>  QED  BY <1>4, <3>1 DEF CanDriveHost, OpenStates
  <2>2. Driven(result)
      BY <2>1 DEF DriveHost
  <2>3. Finished(session, room, {}, edits, changes, now, result)
      BY <1>1, IInvFacts, Finishes
  <2>  HIDE DEF result
  <2>4. result.ok
    <3>  SUFFICES ASSUME ~result.ok PROVE FALSE
        OBVIOUS
    <3>1. session' = result.session
        BY <2>2 DEF Driven
    <3>2. session.transport.state = "Disconnected"
        BY <2>3, IInvFacts DEF Finished
    <3>3. session'.transport.state \notin OpenStates
        BY <2>3, <3>1, <3>2 DEF Finished
    <3>  QED  BY <1>4, <3>3
  <2>5. Returned(room, edits, changes, now, result)
      BY <2>3, IInvFacts, FinishedReturns
  <2>6. Took(result)
      BY <2>2, <2>4, <2>5, IInvFacts, Consumes DEF Driven
  <2>7. TimersAreSet'
      BY <1>1, <1>2, <1>4, <2>4, <2>5, <2>6, IInvFacts, TakesDeadlines
  <2>8. Hears(session', heard, now)
    <3>  SUFFICES ASSUME NEW p \in Live(session'.codec.remote)
                  PROVE  /\ p \in DOMAIN heard
                         /\ heard[p] \in 0 .. now
                         /\ session'.awareness.peer_activity[p] <= heard[p]
                         /\ now <= session'.awareness.peer_activity[p] + ExpiryInterval
        BY DEF Hears
    <3>1. /\ p \in Live(session.codec.remote)
          /\ session'.awareness.peer_activity[p] = session.awareness.peer_activity[p]
        BY <2>3, <2>6 DEF Finished, Took
    <3>  QED  BY <3>1 DEF PeersAreHeard, Hears
  <2>  QED  BY <1>1, <2>7, <2>8, TimesPrimed
<1>  QED  BY <1>3, <1>4

(* A call that leaves peers and times as they were.                        *)
LEMMA StaysHeard ==
    ASSUME PeersAreHeard, Quiet(session, session'), heard' = heard, now' = now
    PROVE  PeersAreHeard'
<1>1. Hears(session', heard, now)
    BY SameDeadlines DEF PeersAreHeard
<1>  QED  BY <1>1, TimesPrimed

LEMMA SendSucceedsMeets ==
    ASSUME TInv, SendSucceeds
    PROVE  PeersAreHeard' /\ TimersAreSet'
<1>  DEFINE o == [AckLease(session.outbox) EXCEPT !.next_lease_id = {1}]
<1>1. /\ session' = [session EXCEPT !.outbox = o] /\ wake' = TRUE
      /\ now' = now /\ heard' = heard
    BY IInvFacts DEF SendSucceeds, Sessions, TInv
<1>  HIDE DEF o
<1>2. Quiet(session, session')
    BY <1>1, IInvFacts DEF Quiet, Sessions, TInv
<1>  QED  BY <1>1, <1>2, StaysHeard, TimesPrimed DEF TInv

LEMMA ClosingMeets ==
    ASSUME TInv,
           \/ SendFails
           \/ \E disposition \in Dispositions : SocketCloses(disposition)
    PROVE  PeersAreHeard' /\ TimersAreSet'
<1>1. IInv'
    BY SendFailsKeeps, SocketClosesKeeps DEF TInv
<1>2. session'.transport.state \notin OpenStates
  <2>1. CASE SendFails
      BY <2>1, SendFailsShuts DEF TInv, Shut
  <2>2. ASSUME NEW disposition \in Dispositions, SocketCloses(disposition)
        PROVE  session'.transport.state \notin OpenStates
    <3>1. ReportClose(session, disposition) /\ sending = {}
        BY <2>2 DEF SocketCloses
    <3>2. Shut(session, room, edits, changes)
        BY <3>1, IInvFacts, Shuts DEF TInv
    <3>  QED  BY <3>2 DEF Shut
  <2>  QED  BY <2>1, <2>2
<1>  QED  BY <1>1, <1>2, NothingIsDue

LEMMA SocketOpensMeets ==
    ASSUME Ample, TInv, SocketOpens
    PROVE  PeersAreHeard' /\ TimersAreSet'
<1>  DEFINE result == PresenceOpenCall(session, session.transport.last_issued, now)
            u == result.session
<1>1. /\ sending = {} /\ session.transport.state = "Connecting"
      /\ Activated(result) /\ now' = now
    BY DEF SocketOpens
<1>2. Returned(room, edits, changes, now, result) /\ Live(u.codec.remote) = {}
    BY <1>1, IInvFacts, Opens DEF TInv
<1>3. IInv'
    BY SocketOpensKeeps DEF TInv
<1>  HIDE DEF result
<1>4. CASE result.ok /\ u.transport.state \in OpenStates
  <2>1. Consume(result)
      BY <1>1, <1>4 DEF Activated
  <2>2. Took(result)
      BY <1>2, <2>1, IInvFacts, Consumes DEF TInv
  <2>3. session'.transport.state \in OpenStates
      BY <1>4, <2>2 DEF Took
  <2>4. TimersAreSet'
      BY <1>1, <1>2, <1>3, <1>4, <2>2, <2>3, IInvFacts, TakesDeadlines DEF TInv
  <2>5. Live(session'.codec.remote) = {}
      BY <1>2, <2>2 DEF Took
  <2>  QED  BY <2>4, <2>5, TimesPrimed DEF Hears
<1>5. CASE ~(result.ok /\ u.transport.state \in OpenStates)
  <2>1. ReportClose(u, "Incompatible")
      BY <1>1, <1>5 DEF Activated
  <2>2. Sane(u, room, {}, edits, changes) /\ u.awareness.now_millis <= now
      BY <1>2 DEF Returned
  <2>3. Shut(u, room, edits, changes)
    <3>  HIDE DEF u
    <3>  QED  BY <2>1, <2>2, IInvFacts, Shuts DEF TInv
  <2>4. session'.transport.state \notin OpenStates
      BY <2>3 DEF Shut
  <2>  QED  BY <1>3, <2>4, NothingIsDue
<1>  QED  BY <1>4, <1>5

(* Whoever is shown after a message was heard in it, or was shown and      *)
(* heard before.                                                           *)
LEMMA HeardOf ==
    ASSUME NEW s, NEW r, NEW e, NEW c, NEW m, NEW w, Accepted(s, r, e, c, m, w),
           now \in Nat, w.awareness.now_millis <= now, Hears(s, heard, now),
           NEW p \in Live(w.codec.remote)
    PROVE  /\ p \in DOMAIN Heard(m, w)
           /\ Heard(m, w)[p] \in 0 .. now
           /\ w.awareness.peer_activity[p] <= Heard(m, w)[p]
<1>  DEFINE clients == {u.client : u \in m.awareness}
            leaves == \E u \in m.awareness : u.client \in Peers /\ u.entry.state = {}
            live == Live(w.codec.remote)
<1>1. /\ w.transport.state \in OpenStates
      /\ p \notin clients \/ leaves =>
            /\ p \in Live(s.codec.remote)
            /\ w.awareness.peer_activity[p] = s.awareness.peer_activity[p]
    BY DEF Accepted, Clients
<1>2. p \in Live(s.codec.remote) =>
         /\ p \in DOMAIN heard /\ heard[p] \in 0 .. now
         /\ s.awareness.peer_activity[p] <= heard[p]
    BY DEF Hears
<1>  HIDE DEF leaves
<1>3. CASE leaves
  <2>  DEFINE h == Without(heard, clients \ live)
  <2>1. Heard(m, w) = h
      BY <1>1, <1>3 DEF Heard, leaves
  <2>2. p \in DOMAIN h /\ h[p] = heard[p]
    <3>  HIDE DEF clients
    <3>  QED  BY <1>1, <1>2, <1>3 DEF Without
  <2>  HIDE DEF h
  <2>  QED  BY <1>1, <1>2, <1>3, <2>1, <2>2
<1>4. CASE ~leaves
  <2>  DEFINE told == clients \intersect live
              h == With(heard, told, now)
  <2>1. Heard(m, w) = h
      BY <1>1, <1>4 DEF Heard, leaves
  <2>2. w.awareness.peer_activity[p] <= now /\ now <= now /\ now \in 0 .. now
    <3>1. Coherent(w, r, {}, e)
        BY DEF Accepted, Sane
    <3>2. /\ w.awareness.now_millis \in Nat
          /\ w.awareness.peer_activity[p] <= w.awareness.now_millis
        BY <3>1, CoherentFacts DEF Coherent, PeersFollowed
    <3>3. w.awareness.peer_activity[p] \in Nat
        BY <3>1, ActivityTimes
    <3>  QED  BY <3>2, <3>3
  <2>3. CASE p \in clients
    <3>1. p \in DOMAIN h /\ h[p] = now
      <4>1. p \in told
          BY <2>3
      <4>  HIDE DEF told
      <4>  QED  BY <4>1 DEF With
    <3>  HIDE DEF h
    <3>  QED  BY <2>1, <2>2, <3>1
  <2>4. CASE p \notin clients
    <3>1. p \in DOMAIN h /\ h[p] = heard[p]
      <4>1. p \notin told /\ p \in DOMAIN heard
          BY <1>1, <1>2, <2>4
      <4>  HIDE DEF told
      <4>  QED  BY <4>1 DEF With
    <3>  HIDE DEF h
    <3>  QED  BY <1>1, <1>2, <2>1, <2>4, <3>1
  <2>  QED  BY <2>3, <2>4
<1>  QED  BY <1>3, <1>4

LEMMA PeerSendsMeets ==
    ASSUME Ample, TInv, NEW m \in RoomMessages, PeerSends(m)
    PROVE  PeersAreHeard' /\ TimersAreSet'
<1>  DEFINE result == PresenceReceiveCall(session,
                          session.transport.last_issued, m, now)
            u == result.session
            w == ReceivePresence(session, m, now)
<1>1. /\ sending = {} /\ session.transport.state \in OpenStates
      /\ m.queries => Len(session.outbox.protocol) < MaxReplies
      /\ Activated(result) /\ now' = now
      /\ heard' = IF session'.transport.state \in OpenStates
                    THEN Heard(m, w) ELSE [p \in {} |-> 0]
    BY DEF PeerSends, Noticed
<1>2. Heeded(session, room, edits, changes, m, now, w, result)
    BY <1>1, IInvFacts, ReceiveCalls DEF TInv
<1>3. IInv'
    BY PeerSendsKeeps DEF TInv
<1>4. w.awareness.now_millis <= now
  <2>1. Received(session, room, edits, changes, m, w)
    <3>1. Sane(session, room, {}, edits, changes)
        BY <1>1, IInvFacts DEF TInv
    <3>  HIDE DEF w
    <3>  QED  BY <1>1, <3>1, IInvFacts, Receives DEF TInv, w
  <2>  HIDE DEF w
  <2>  QED  BY <2>1, IInvFacts DEF Received, TInv
<1>  HIDE DEF result, w
<1>5. CASE session'.transport.state \notin OpenStates
    BY <1>3, <1>5, NothingIsDue
<1>6. CASE session'.transport.state \in OpenStates
  <2>1. result.ok /\ u.transport.state \in OpenStates
    <3>  SUFFICES ASSUME ~(result.ok /\ u.transport.state \in OpenStates)
                  PROVE  FALSE
        OBVIOUS
    <3>1. ReportClose(u, "Incompatible")
        BY <1>1 DEF Activated
    <3>2. PICK x \in RoomsAfter(room) : Sane(u, x, {}, edits, changes)
        BY <1>2, RoomsStay DEF Heeded
    <3>3. x \in Sound /\ u.awareness.now_millis <= now
        BY <1>2, <3>2, IInvFacts, RoomsAfterFacts DEF Heeded, TInv
    <3>4. Shut(u, x, edits, changes)
      <4>  HIDE DEF u
      <4>  QED  BY <3>1, <3>2, <3>3, IInvFacts, Shuts DEF TInv
    <3>  QED  BY <1>6, <3>4 DEF Shut
  <2>2. Consume(result)
      BY <1>1, <2>1 DEF Activated
  <2>3. w.transport.state \in OpenStates
      BY <1>2, <2>1 DEF Heeded
  <2>4. /\ Accepted(session, room, edits, changes, m, w)
        /\ Sane(u, room, {}, edits, changes)
        /\ Live(u.codec.remote) \subseteq Live(w.codec.remote)
        /\ \A p \in Live(u.codec.remote) :
              /\ u.awareness.peer_activity[p] = w.awareness.peer_activity[p]
              /\ now < u.awareness.peer_activity[p] + ExpiryInterval
      BY <1>2, <2>3 DEF Heeded
  <2>5. Returned(room, edits, changes, now, result)
    <3>1. now <= now
        BY IInvFacts DEF TInv
    <3>  QED  BY <1>2, <2>3, <3>1 DEF Heeded, Returned
  <2>6. Took(result)
      BY <2>2, <2>5, IInvFacts, Consumes DEF TInv
  <2>7. TimersAreSet'
      BY <1>1, <1>3, <1>6, <2>1, <2>5, <2>6, IInvFacts, TakesDeadlines DEF TInv
  <2>8. session'.codec = u.codec /\ session'.awareness = u.awareness
      BY <2>6 DEF Took
  <2>9. Hears(session', heard', now')
    <3>  SUFFICES ASSUME NEW p \in Live(u.codec.remote)
                  PROVE  /\ p \in DOMAIN heard'
                         /\ heard'[p] \in 0 .. now
                         /\ u.awareness.peer_activity[p] <= heard'[p]
                         /\ now <= u.awareness.peer_activity[p] + ExpiryInterval
        BY <1>1, <2>8 DEF Hears
    <3>1. /\ p \in Live(w.codec.remote)
          /\ u.awareness.peer_activity[p] = w.awareness.peer_activity[p]
          /\ now < u.awareness.peer_activity[p] + ExpiryInterval
        BY <2>4
    <3>2. /\ p \in DOMAIN Heard(m, w)
          /\ Heard(m, w)[p] \in 0 .. now
          /\ w.awareness.peer_activity[p] <= Heard(m, w)[p]
        BY <1>4, <2>4, <3>1, IInvFacts, HeardOf DEF TInv, PeersAreHeard
    <3>3. heard' = Heard(m, w)
        BY <1>1, <1>6
    <3>4. u.awareness.peer_activity[p] \in Int
      <4>1. Coherent(u, room, {}, edits)
          BY <2>4 DEF Sane
      <4>  HIDE DEF u
      <4>  QED  BY <4>1, ActivityTimes
    <3>5. now <= u.awareness.peer_activity[p] + ExpiryInterval
        BY <3>1, <3>4, IInvFacts, Constants DEF TInv
    <3>  QED  BY <3>1, <3>2, <3>3, <3>5
  <2>  QED  BY <2>7, <2>9, TimesPrimed
<1>  QED  BY <1>5, <1>6

LEMMA SetAwarenessMeets ==
    ASSUME Ample, TInv, NEW state \in States, SetAwareness(state)
    PROVE  PeersAreHeard' /\ TimersAreSet'
<1>  DEFINE result == SetDesired(session, state)
            w == result.session
<1>1. /\ session' = w /\ wake' = (wake \/ result.ok)
      /\ timer' = timer /\ sending' = sending /\ now' = now /\ heard' = heard
    BY DEF SetAwareness, Changed
<1>2. Quiet(session, w) /\ (~result.ok => w = session)
    BY IInvFacts, Sets DEF TInv, Ample
<1>  HIDE DEF w, result
<1>3. PeersAreHeard'
    BY <1>1, <1>2, StaysHeard DEF TInv
<1>4. CASE result.ok
    BY <1>1, <1>3, <1>4, TimesPrimed, Zenon
<1>5. CASE ~result.ok
  <2>1. session' = session /\ (wake' <=> wake)
      BY <1>1, <1>2, <1>5, Zenon
  <2>  QED  BY <1>1, <1>3, <2>1, TimesPrimed DEF TInv, TimersAreSet
<1>  QED  BY <1>4, <1>5

LEMMA ClearAwarenessMeets ==
    ASSUME TInv, ClearAwareness
    PROVE  PeersAreHeard' /\ TimersAreSet'
<1>  DEFINE result == ClearDesired(session)
            w == result.session
<1>1. /\ session' = w /\ wake' = (wake \/ result.ok)
      /\ timer' = timer /\ sending' = sending /\ now' = now /\ heard' = heard
    BY DEF ClearAwareness, Changed
<1>2. Quiet(session, w) /\ w.awareness.desired_state = {}
    BY IInvFacts, Clears DEF TInv
<1>  HIDE DEF w, result
<1>3. PeersAreHeard'
    BY <1>1, <1>2, StaysHeard DEF TInv
<1>4. Armed(session, timer, now) => Armed(session', timer, now)
    BY <1>1, <1>2, SameDeadlines
<1>5. session'.transport.state = session.transport.state /\ (wake => wake')
    BY <1>1, <1>2 DEF Quiet
<1>  QED  BY <1>1, <1>3, <1>4, <1>5, TimesPrimed DEF TInv, TimersAreSet

LEMMA EditMeets ==
    ASSUME TInv, Edit
    PROVE  PeersAreHeard' /\ TimersAreSet'
<1>  DEFINE o == Install(session.outbox, "DocumentUpdate",
                         <<[kind |-> "DocumentUpdate", id |-> {}, bytes |-> 1]>>)
<1>1. /\ session' = [session EXCEPT !.outbox = o] /\ wake' = TRUE
      /\ now' = now /\ heard' = heard
    BY IInvFacts DEF Edit, Sessions, TInv
<1>  HIDE DEF o
<1>2. Quiet(session, session')
    BY <1>1, IInvFacts DEF Quiet, Sessions, TInv
<1>  QED  BY <1>1, <1>2, StaysHeard, TimesPrimed DEF TInv

(* Time passes only up to a deadline.                                      *)
LEMMA PassMeets ==
    ASSUME TInv, Pass
    PROVE  PeersAreHeard' /\ TimersAreSet'
<1>1. /\ now < MaxMillis /\ sending = {} /\ ~wake
      /\ \A deadline \in timer : now < deadline
      /\ now' = now + 1 /\ heard' = heard
      /\ session' = session /\ timer' = timer
    BY DEF Pass
<1>2. IInv'
    BY PassKeeps DEF TInv
<1>3. CASE session.transport.state \notin OpenStates
    BY <1>1, <1>2, <1>3, NothingIsDue
<1>4. CASE session.transport.state \in OpenStates
  <2>1. Armed(session, timer, now)
      BY <1>1, <1>4 DEF TInv, TimersAreSet
  <2>2. ASSUME NEW millis \in Nat, NEW interval \in Nat,
               Met(now, timer, millis, interval)
        PROVE  Met(now + 1, timer, millis, interval)
    <3>1. CASE millis + interval <= MaxMillis
      <4>1. PICK deadline \in timer : deadline <= millis + interval
          BY <2>2, <3>1 DEF Met
      <4>2. now < deadline /\ deadline \in Nat
          BY <1>1, IInvFacts, Constants DEF TInv
      <4>  QED  BY <2>2, <4>1, <4>2, IInvFacts DEF Met, TInv
    <3>2. CASE ~(millis + interval <= MaxMillis)
        BY <1>1, <2>2, <3>2, IInvFacts, Constants DEF Met, TInv
    <3>  QED  BY <3>1, <3>2
  <2>3. /\ \A p \in Live(session.codec.remote) :
              session.awareness.peer_activity[p] \in Nat
        /\ session.awareness.last_local_publish_millis \subseteq Nat
    <3>1. Coherent(session, room, sending, edits)
        BY IInvFacts DEF TInv, Sane
    <3>  QED  BY <3>1, CoherentFacts, ActivityTimes
  <2>4. Armed(session, timer, now + 1)
      BY <2>1, <2>2, <2>3, Constants DEF Armed
  <2>5. Hears(session, heard, now + 1)
    <3>  SUFFICES ASSUME NEW p \in Live(session.codec.remote)
                  PROVE  /\ p \in DOMAIN heard
                         /\ heard[p] \in 0 .. now + 1
                         /\ session.awareness.peer_activity[p] <= heard[p]
                         /\ now + 1 <= session.awareness.peer_activity[p]
                                         + ExpiryInterval
        BY DEF Hears
    <3>1. /\ p \in DOMAIN heard /\ heard[p] \in 0 .. now
          /\ session.awareness.peer_activity[p] <= heard[p]
        BY DEF TInv, PeersAreHeard, Hears
    <3>2. now + 1 <= session.awareness.peer_activity[p] + ExpiryInterval
        BY <2>4 DEF Armed, Met
    <3>3. heard[p] \in 0 .. now + 1
        BY <3>1, IInvFacts DEF TInv
    <3>  QED  BY <3>1, <3>2, <3>3
  <2>  QED  BY <1>1, <2>4, <2>5, TimesPrimed
<1>  QED  BY <1>3, <1>4

LEMMA InitMeets ==
    ASSUME Init
    PROVE  TInv
<1>1. IInv
    BY InitKeeps
<1>2. wake = TRUE /\ session.transport.state \notin OpenStates
    BY DEF Init, WithPresence, NewSession, NewTransport, OpenStates
<1>3. Live(session.codec.remote) = {}
    BY <1>1, <1>2 DEF IInv, Sane, Coherent, PeersFollowed, Live
<1>  QED  BY <1>1, <1>2, <1>3 DEF TInv, PeersAreHeard, Hears, TimersAreSet

LEMMA NextMeets ==
    ASSUME Ample, TInv, [Next]_vars
    PROVE  TInv'
<1>1. IInv'
    BY NextKeeps DEF TInv
<1>2. CASE DriveHost
    BY <1>1, <1>2, DriveHostMeets DEF TInv
<1>3. CASE SendSucceeds
    BY <1>1, <1>3, SendSucceedsMeets DEF TInv
<1>4. CASE \/ SendFails
           \/ \E disposition \in Dispositions : SocketCloses(disposition)
    BY <1>1, <1>4, ClosingMeets DEF TInv
<1>5. CASE SocketOpens
    BY <1>1, <1>5, SocketOpensMeets DEF TInv
<1>6. CASE \E m \in RoomMessages : PeerSends(m)
    BY <1>1, <1>6, PeerSendsMeets DEF TInv
<1>7. CASE \E state \in States : SetAwareness(state)
    BY <1>1, <1>7, SetAwarenessMeets DEF TInv
<1>8. CASE ClearAwareness
    BY <1>1, <1>8, ClearAwarenessMeets DEF TInv
<1>9. CASE Edit
    BY <1>1, <1>9, EditMeets DEF TInv
<1>10. CASE Background \/ Foreground
  <2>1. session'.transport.state \notin OpenStates
      BY <1>10, BackgroundKeeps, ForegroundKeeps DEF TInv
  <2>  QED  BY <1>1, <2>1, NothingIsDue DEF TInv
<1>11. CASE Pass
    BY <1>1, <1>11, PassMeets DEF TInv
<1>12. CASE UNCHANGED vars
    BY <1>1, <1>12, TimesPrimed
    DEF vars, TInv, PeersAreHeard, TimersAreSet
<1>  QED  BY <1>2, <1>3, <1>4, <1>5, <1>6, <1>7, <1>8, <1>9, <1>10, <1>11,
             <1>12 DEF Next

(* While clocks last the host is armed for what is due: no deadline of a   *)
(* peer or of the renewal passes unnoticed.                                *)
THEOREM TimersAreKept == ASSUME Ample PROVE Spec => []TInv
<1>1. Init => TInv
    BY InitMeets
<1>2. TInv /\ [Next]_vars => TInv'
    BY NextMeets
<1>  QED  BY <1>1, <1>2, PTL DEF Spec

(* awareness.rs, tick and next_deadline_millis: while the outbox has room  *)
(* and clocks last, a presence the room was told of is renewed before the  *)
(* room forgets it, and a peer that is silent leaves at its deadline,      *)
(* whatever renewals, expiries, retries and frames share the one timer.    *)
THEOREM PresenceIsRenewedInTime == ASSUME Ample PROVE Spec => []DeadlinesMet
<1>1. TInv => RenewedInTime
  <2>  SUFFICES ASSUME TInv, Synchronized(session),
                       session.awareness.desired_state # {},
                       ~wake, sending = {}
                PROVE  \E published \in session.awareness.last_local_publish_millis :
                          now - published <= RenewalInterval
      BY DEF RenewedInTime
  <2>1. /\ PresenceIsShown(session, room)
        /\ session.awareness.last_local_publish_millis \subseteq Nat
      BY IInvFacts, CoherentFacts DEF TInv, Sane, Ample
  <2>2. PICK published \in session.awareness.last_local_publish_millis : TRUE
      BY <2>1 DEF PresenceIsShown
  <2>3. Armed(session, timer, now)
      BY DEF TInv, TimersAreSet, Synchronized, OpenStates
  <2>4. now <= published + RenewalInterval
      BY <2>2, <2>3 DEF Armed, Met
  <2>5. now - published <= RenewalInterval
      BY <2>1, <2>2, <2>4, IInvFacts, Constants DEF TInv
  <2>  QED  BY <2>2, <2>5
<1>2. TInv => SilentPeersExpire
  <2>  SUFFICES ASSUME TInv, NEW p \in Live(session.codec.remote)
                PROVE  p \in DOMAIN heard /\ now - heard[p] <= ExpiryInterval
      BY DEF SilentPeersExpire
  <2>1. /\ p \in DOMAIN heard /\ heard[p] \in 0 .. now
        /\ session.awareness.peer_activity[p] <= heard[p]
        /\ now <= session.awareness.peer_activity[p] + ExpiryInterval
      BY DEF TInv, PeersAreHeard, Hears
  <2>2. session.awareness.peer_activity[p] \in Nat
    <3>1. Coherent(session, room, sending, edits)
        BY IInvFacts DEF TInv, Sane
    <3>  QED  BY <3>1, ActivityTimes
  <2>  QED  BY <2>1, <2>2, IInvFacts, Constants DEF TInv
<1>3. Spec => []TInv
    BY TimersAreKept
<1>  QED  BY <1>1, <1>2, <1>3, TypesAreKept, PeersHaveDeadlines, PTL
          DEF DeadlinesMet

=============================================================================
