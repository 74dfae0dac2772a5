------------------------ MODULE ProtocolAdapterProofs -----------------------
(***************************************************************************)
(* The prelude of a connection stands, for any number of attempts and of   *)
(* frames and any buffer: proof of PreludeStands of ProtocolAdapter.       *)
(***************************************************************************)
EXTENDS ProtocolAdapter, SequenceTheorems, TLAPS

Frames == [number : Nat \ {0}, type : {"text", "binary"}]

Given == [frame : Frames, by : {"adapter", "yjs"}]

OpenedTasks == [does : {"opened"}, attempt : Attempts]
ReceivedTasks == [does : {"received"}, attempt : Attempts, frame : Frames]
ClosedTasks == [does : {"closed"}, attempt : Attempts, terminal : BOOLEAN]
ResolveTasks ==
    [does : {"resolve"}, attempt : Attempts, event : Nat \ {0},
     action : {"continue", "ready", "reject"}]

Tasks == OpenedTasks \union ReceivedTasks \union ClosedTasks \union ResolveTasks

Hosts ==
    [attempt : Nat, networkSocketOpened : BOOLEAN, socketOpened : BOOLEAN,
     pending : Nat, events : Nat, buffer : Seq(Frames), timer : BOOLEAN]

Shapes ==
    /\ host \in Hosts
    /\ session \in {"Disconnected", "Connecting", "Open", "Incompatible"}
    /\ foreground \in BOOLEAN
    /\ attempts \in 0 .. MaxAttempts
    /\ socket \in [Attempts -> {"none", "connecting", "open", "ended"}]
    /\ queue \in Seq(Tasks)
    /\ asked \subseteq [attempt : 1 .. attempts, event : Nat \ {0}]
    /\ sent \in [Attempts -> Seq(Frames)]
    /\ heard \in [Attempts -> Seq(Given)]
    /\ ready \subseteq Attempts

(* An attempt that was not made yet has no traffic.                        *)
UnusedIsQuiet ==
    \A a \in Attempts : a > attempts =>
        socket[a] = "none" /\ sent[a] = <<>> /\ heard[a] = <<>>

(* The fields of the host agree with each other and with the session.      *)
HostAgrees ==
    /\ host.attempt <= attempts
    /\ host.attempt = NoAttempt => host = Idle
    /\ host.pending <= host.events
    /\ Len(host.buffer) < MAXIMUM_PRE_READY_FRAMES
    /\ host.pending # NoEvent => host.networkSocketOpened /\ ~host.socketOpened
    /\ host.buffer # <<>> => host.pending # NoEvent
    /\ host.socketOpened => host.networkSocketOpened /\ host.attempt \in ready
    /\ host.timer <=> InPrelude
    /\ session = "Open" <=> host.socketOpened

IsReceived(i, a) == queue[i].does = "received" /\ queue[i].attempt = a

IsOpened(i, a) == queue[i].does = "opened" /\ queue[i].attempt = a

(* A task says what happened: the frame it brings was sent, and the ready  *)
(* it brings was answered.                                                 *)
TaskIsTrue(task) ==
    /\ task.attempt <= attempts
    /\ task.does = "received" =>
          /\ task.frame.number <= Len(sent[task.attempt])
          /\ task.frame = sent[task.attempt][task.frame.number]
    /\ task.does = "resolve" /\ task.action = "ready" => task.attempt \in ready

QueueIsTrue == \A i \in 1 .. Len(queue) : TaskIsTrue(queue[i])

(* The frames of one attempt wait in the order in which they were sent.    *)
FramesAscend ==
    \A i, j \in 1 .. Len(queue) :
        i < j /\ IsReceived(i, queue[j].attempt) /\ IsReceived(j, queue[j].attempt)
            => queue[i].frame.number < queue[j].frame.number

(* The opening of the current attempt is handled before its frames are.    *)
OpensFirst ==
    /\ \A i \in 1 .. Len(queue) :
          IsReceived(i, host.attempt) =>
              \/ host.networkSocketOpened
              \/ \E j \in 1 .. i - 1 : IsOpened(j, host.attempt)
    /\ host.attempt # NoAttempt /\ socket[host.attempt] = "open" =>
          \/ host.networkSocketOpened
          \/ \E j \in 1 .. Len(queue) : IsOpened(j, host.attempt)

(* What was sent on the current attempt was given, is buffered or waits,   *)
(* in this order.                                                          *)
FramesAreKept ==
    host.attempt # NoAttempt =>
        LET a == host.attempt
            given == Len(heard[a])
            taken == Len(heard[a]) + Len(host.buffer)
        IN
        /\ taken <= Len(sent[a])
        /\ \A k \in 1 .. Len(host.buffer) : host.buffer[k] = sent[a][given + k]
        /\ \A i \in 1 .. Len(queue) :
              IsReceived(i, a) => queue[i].frame.number > taken
        /\ \A m \in 1 .. Len(sent[a]) : m > taken =>
              \E i \in 1 .. Len(queue) : IsReceived(i, a) /\ queue[i].frame.number = m
        /\ ~host.socketOpened => \A k \in 1 .. given : heard[a][k].by = "adapter"

IInv ==
    /\ Shapes
    /\ UnusedIsQuiet
    /\ HostAgrees
    /\ QueueIsTrue
    /\ FramesAscend
    /\ OpensFirst
    /\ FramesAreKept
    /\ FramesInOrder

-----------------------------------------------------------------------------
(* What the shapes say.                                                    *)

(* A field that a kind of task carries has its type.                       *)
LEMMA TaskFields ==
    ASSUME NEW task \in Tasks
    PROVE  /\ task.attempt \in Attempts
           /\ task.does = "received" => task.frame \in Frames
           /\ task.does = "resolve" =>
                 /\ task.event \in Nat \ {0}
                 /\ task.action \in {"continue", "ready", "reject"}
  BY DEF Tasks, OpenedTasks, ReceivedTasks, ClosedTasks, ResolveTasks

(* Whatever concerns an attempt concerns one that was made.                *)
LEMMA HostShape ==
    ASSUME AdapterBounds, IInv
    PROVE  /\ host \in Hosts
           /\ host.attempt \in Nat /\ attempts \in Nat
           /\ host.buffer \in Seq(Frames) /\ Len(host.buffer) \in Nat
           /\ host.attempt # NoAttempt => host.attempt \in Attempts
           /\ host.pending # NoEvent => host.attempt # NoAttempt
           /\ host.networkSocketOpened \/ host.timer => host.attempt # NoAttempt
  <1>1. /\ host \in Hosts /\ attempts \in 0 .. MaxAttempts
        /\ host.attempt <= attempts
    BY DEF IInv, Shapes, HostAgrees
  <1>2. /\ host.attempt \in Nat /\ attempts \in Nat
        /\ host.buffer \in Seq(Frames) /\ Len(host.buffer) \in Nat
    BY <1>1 DEF Hosts
  <1>3. host.attempt # NoAttempt => host.attempt \in Attempts
    BY <1>1, <1>2 DEF NoAttempt, Attempts, AdapterBounds
  <1>4. host.attempt = NoAttempt =>
           host.pending = NoEvent /\ ~host.networkSocketOpened /\ ~host.timer
    BY DEF IInv, HostAgrees, Idle
  <1> QED
    BY <1>1, <1>2, <1>3, <1>4

(* The frames of an attempt, sent, given and buffered, are sequences.      *)
LEMMA Lengths ==
    ASSUME IInv, NEW a \in Attempts
    PROVE  /\ heard[a] \in Seq(Given) /\ Len(heard[a]) \in Nat
           /\ sent[a] \in Seq(Frames) /\ Len(sent[a]) \in Nat
           /\ host.buffer \in Seq(Frames) /\ Len(host.buffer) \in Nat
           /\ a # NoAttempt
  <1>1. heard[a] \in Seq(Given) /\ sent[a] \in Seq(Frames)
    BY DEF IInv, Shapes
  <1>2. host.buffer \in Seq(Frames)
    BY DEF IInv, Shapes, Hosts
  <1>3. a # NoAttempt
    BY DEF Attempts, NoAttempt
  <1> QED
    BY <1>1, <1>2, <1>3

(* Taking the first task moves the others up.                              *)
LEMMA TailOfQueue ==
    ASSUME Shapes, queue # <<>>, queue' = Tail(queue)
    PROVE  /\ queue' \in Seq(Tasks)
           /\ Len(queue) \in Nat \ {0} /\ Len(queue') = Len(queue) - 1
           /\ Head(queue) = queue[1] /\ queue[1] \in Tasks
           /\ \A i \in 1 .. Len(queue') :
                 i + 1 \in 1 .. Len(queue) /\ queue'[i] = queue[i + 1]
  <1>1. queue \in Seq(Tasks)
    BY DEF Shapes
  <1>2. Len(queue) \in Nat \ {0} /\ queue[1] \in Tasks /\ Head(queue) = queue[1]
    BY <1>1
  <1>3. queue' \in Seq(Tasks) /\ Len(queue') = Len(queue) - 1
    BY <1>1
  <1>4. ASSUME NEW i \in 1 .. Len(queue')
        PROVE  i + 1 \in 1 .. Len(queue) /\ queue'[i] = queue[i + 1]
    BY <1>1, <1>2, <1>3, <1>4
  <1> QED
    BY <1>2, <1>3, <1>4

(* A task that is added comes after the others.                            *)
LEMMA AppendToQueue ==
    ASSUME Shapes, NEW task \in Tasks, queue' = Append(queue, task)
    PROVE  /\ queue' \in Seq(Tasks)
           /\ Len(queue) \in Nat /\ Len(queue') = Len(queue) + 1
           /\ queue'[Len(queue')] = task
           /\ \A i \in 1 .. Len(queue) : queue'[i] = queue[i] /\ queue[i] \in Tasks
  BY DEF Shapes

-----------------------------------------------------------------------------
(* The queue.                                                              *)

(* The tasks that are left after one is taken are as true and as ordered.  *)
LEMMA QueueDrops ==
    ASSUME IInv, queue # <<>>, queue' = Tail(queue),
           UNCHANGED <<attempts, sent, ready>>
    PROVE  QueueIsTrue' /\ FramesAscend'
  <1>1. \A i \in 1 .. Len(queue') :
           i + 1 \in 1 .. Len(queue) /\ queue'[i] = queue[i + 1]
    BY TailOfQueue DEF IInv
  <1>2. Len(queue') \in Nat
    BY TailOfQueue DEF IInv
  <1>3. QueueIsTrue'
    <2> SUFFICES ASSUME NEW i \in 1 .. Len(queue') PROVE TaskIsTrue(queue[i])'
      BY DEF QueueIsTrue
    <2>1. TaskIsTrue(queue[i + 1])
      BY <1>1 DEF IInv, QueueIsTrue
    <2> QED
      BY <2>1, <1>1 DEF TaskIsTrue
  <1>4. FramesAscend'
    <2> SUFFICES ASSUME NEW i \in 1 .. Len(queue'), NEW j \in 1 .. Len(queue'), i < j,
                        queue'[i].does = "received", queue'[j].does = "received",
                        queue'[i].attempt = queue'[j].attempt
                 PROVE  queue'[i].frame.number < queue'[j].frame.number
      BY DEF FramesAscend, IsReceived
    <2>1. /\ i + 1 \in 1 .. Len(queue) /\ queue'[i] = queue[i + 1]
          /\ j + 1 \in 1 .. Len(queue) /\ queue'[j] = queue[j + 1]
          /\ i + 1 < j + 1
      BY <1>1, <1>2
    <2> QED
      BY <2>1 DEF IInv, FramesAscend, IsReceived
  <1> QED
    BY <1>3, <1>4

(* What happens elsewhere does not make a waiting task untrue.             *)
LEMMA QueueKeeps ==
    ASSUME IInv, attempts' \in Nat, attempts <= attempts', ready \subseteq ready',
           UNCHANGED <<queue, sent>>
    PROVE  QueueIsTrue' /\ FramesAscend'
  <1>1. QueueIsTrue'
    <2> SUFFICES ASSUME NEW i \in 1 .. Len(queue) PROVE TaskIsTrue(queue[i])'
      BY DEF QueueIsTrue
    <2>1. TaskIsTrue(queue[i]) /\ queue[i].attempt \in Nat /\ attempts \in Nat
      BY TaskFields DEF IInv, QueueIsTrue, Shapes, Attempts
    <2> QED
      BY <2>1 DEF TaskIsTrue
  <1> QED
    BY <1>1 DEF IInv, FramesAscend, IsReceived

(* A task that is true is added; a frame, after those sent before it.      *)
LEMMA QueueGrows ==
    ASSUME IInv, NEW task \in Tasks, queue' = Append(queue, task), TaskIsTrue(task)',
           attempts' = attempts, ready \subseteq ready',
           sent' \in [Attempts -> Seq(Frames)],
           \A a \in Attempts :
              /\ Len(sent[a]) <= Len(sent'[a])
              /\ \A k \in 1 .. Len(sent[a]) : sent'[a][k] = sent[a][k],
           task.does = "received" => task.frame.number > Len(sent[task.attempt])
    PROVE  QueueIsTrue' /\ FramesAscend'
  <1>1. /\ Len(queue) \in Nat /\ Len(queue') = Len(queue) + 1
        /\ queue'[Len(queue')] = task
        /\ \A i \in 1 .. Len(queue) : queue'[i] = queue[i] /\ queue[i] \in Tasks
    BY AppendToQueue DEF IInv
  <1>2. ASSUME NEW i \in 1 .. Len(queue) PROVE TaskIsTrue(queue[i])'
    <2>1. /\ TaskIsTrue(queue[i])
          /\ queue[i].attempt \in Attempts
          /\ queue[i].does = "received" => queue[i].frame.number \in Nat \ {0}
      BY <1>1, TaskFields DEF IInv, QueueIsTrue, Frames
    <2>2. Len(sent[queue[i].attempt]) \in Nat /\ Len(sent'[queue[i].attempt]) \in Nat
      BY <2>1 DEF IInv, Shapes
    <2>3. queue'[i] = queue[i]
      BY <1>1
    <2>4. queue[i].does = "received" =>
             /\ queue[i].frame.number <= Len(sent'[queue[i].attempt])
             /\ queue[i].frame = sent'[queue[i].attempt][queue[i].frame.number]
      BY <2>1, <2>2 DEF TaskIsTrue
    <2> QED
      BY <2>1, <2>3, <2>4 DEF TaskIsTrue
  <1>3. \A i \in 1 .. Len(queue') : i \in 1 .. Len(queue) \/ i = Len(queue')
    BY <1>1
  <1>4. QueueIsTrue'
    <2> SUFFICES ASSUME NEW i \in 1 .. Len(queue') PROVE TaskIsTrue(queue[i])'
      BY DEF QueueIsTrue
    <2>1. i \in 1 .. Len(queue) \/ i = Len(queue')
      BY <1>3
    <2>2. CASE i = Len(queue')
      BY <2>2, <1>1 DEF TaskIsTrue
    <2> QED
      BY <2>1, <2>2, <1>2
  <1>5. FramesAscend'
    <2> SUFFICES ASSUME NEW i \in 1 .. Len(queue'), NEW j \in 1 .. Len(queue'), i < j,
                        queue'[i].does = "received", queue'[j].does = "received",
                        queue'[i].attempt = queue'[j].attempt
                 PROVE  queue'[i].frame.number < queue'[j].frame.number
      BY DEF FramesAscend, IsReceived
    <2>1. i \in 1 .. Len(queue) /\ queue'[i] = queue[i] /\ queue[i] \in Tasks
      BY <1>1
    <2>2. CASE j \in 1 .. Len(queue)
      BY <2>1, <2>2, <1>1 DEF IInv, FramesAscend, IsReceived
    <2>3. CASE j = Len(queue')
      <3>1. queue'[j] = task /\ task.does = "received" /\ queue[i].attempt = task.attempt
        BY <2>1, <2>3, <1>1
      <3>2. queue[i].frame.number <= Len(sent[task.attempt])
        BY <2>1, <3>1 DEF IInv, QueueIsTrue, TaskIsTrue
      <3>3. queue[i].frame.number \in Nat /\ task.frame.number \in Nat
        BY <2>1, <3>1, TaskFields DEF Frames
      <3>4. Len(sent[task.attempt]) \in Nat
        BY TaskFields, Lengths
      <3>5. task.frame.number > Len(sent[task.attempt])
        BY <3>1
      <3>6. queue[i].frame.number < task.frame.number
        BY <3>2, <3>3, <3>4, <3>5
      <3> QED
        BY <2>1, <3>1, <3>6
    <2> QED
      BY <2>2, <2>3, <1>3, Zenon
  <1> QED
    BY <1>4, <1>5

-----------------------------------------------------------------------------
(* What was given, and what comes next.                                    *)

(* Joining two sequences keeps the elements of each, in order.             *)
LEMMA JoinedElements ==
    ASSUME NEW S, NEW s \in Seq(S), NEW t \in Seq(S)
    PROVE  /\ s \o t \in Seq(S)
           /\ Len(s \o t) = Len(s) + Len(t)
           /\ \A k \in 1 .. Len(s) : (s \o t)[k] = s[k]
           /\ \A k \in 1 .. Len(t) : (s \o t)[Len(s) + k] = t[k]
  OBVIOUS

(* Appending keeps the elements and adds one.                              *)
LEMMA AppendedElements ==
    ASSUME NEW S, NEW s \in Seq(S), NEW x \in S
    PROVE  /\ Append(s, x) \in Seq(S)
           /\ Len(Append(s, x)) = Len(s) + 1
           /\ Append(s, x)[Len(s) + 1] = x
           /\ \A k \in 1 .. Len(s) : Append(s, x)[k] = s[k]
  OBVIOUS

(* The tail has the elements but the first, moved up.                      *)
LEMMA TailElements ==
    ASSUME NEW S, NEW s \in Seq(S), s # <<>>
    PROVE  /\ Tail(s) \in Seq(S) /\ Head(s) \in S /\ Head(s) = s[1]
           /\ Len(s) \in Nat /\ Len(s) >= 1 /\ Len(Tail(s)) = Len(s) - 1
           /\ \A k \in 1 .. Len(Tail(s)) : k + 1 \in 1 .. Len(s) /\ Tail(s)[k] = s[k + 1]
  OBVIOUS

(* The first elements of a sequence, and only they.                        *)
LEMMA PrefixElements ==
    ASSUME NEW S, NEW s \in Seq(S), NEW n \in 0 .. Len(s)
    PROVE  /\ SubSeq(s, 1, n) \in Seq(S) /\ Len(SubSeq(s, 1, n)) = n
           /\ \A k \in 1 .. n : SubSeq(s, 1, n)[k] = s[k]
  OBVIOUS

(* Lengths add up.                                                         *)
LEMMA NaturalSum ==
    ASSUME NEW m \in Nat, NEW n \in Nat
    PROVE  m + n \in Nat /\ m + n + 1 = m + (n + 1)
  OBVIOUS

(* One of those that wait fits in what was sent.                           *)
LEMMA OneFits ==
    ASSUME NEW given \in Nat, NEW waiting \in Nat, waiting >= 1, NEW all \in Nat,
           given + waiting <= all
    PROVE  given + 1 <= all
  OBVIOUS

(* Frames that follow what the current attempt was given may be given: to  *)
(* the adapter while nothing was given to the session.                     *)
LEMMA HearsInOrder ==
    ASSUME IInv, NEW a \in Attempts, a = host.attempt,
           NEW given \in Seq(Frames), NEW by \in {"adapter", "yjs"},
           Hears(given, by), sent' = sent,
           Len(heard[a]) + Len(given) <= Len(sent[a]),
           \A k \in 1 .. Len(given) : given[k] = sent[a][Len(heard[a]) + k],
           by = "adapter" => \A k \in 1 .. Len(heard[a]) : heard[a][k].by = "adapter"
    PROVE  /\ heard' \in [Attempts -> Seq(Given)]
           /\ \A b \in Attempts : b # a => heard'[b] = heard[b]
           /\ Len(heard[a]) \in Nat /\ Len(given) \in Nat
           /\ Len(heard'[a]) = Len(heard[a]) + Len(given)
           /\ by = "adapter" => \A k \in 1 .. Len(heard'[a]) : heard'[a][k].by = "adapter"
           /\ FramesInOrder'
  <1> DEFINE old == heard[a]
             new == [i \in 1 .. Len(given) |-> [frame |-> given[i], by |-> by]]
  <1>1. old \in Seq(Given) /\ heard \in [Attempts -> Seq(Given)] /\ Len(old) \in Nat
    BY DEF IInv, Shapes
  <1>2. new \in Seq(Given) /\ Len(new) = Len(given) /\ Len(given) \in Nat
    BY DEF Given
  <1>3. heard' = [heard EXCEPT ![a] = old \o new]
    BY DEF Hears
  <1>4. \A i \in 1 .. Len(given) : new[i] = [frame |-> given[i], by |-> by]
    OBVIOUS
  <1> HIDE DEF old, new
  <1>5. /\ old \o new \in Seq(Given)
        /\ Len(old \o new) = Len(old) + Len(given)
        /\ \A k \in 1 .. Len(old) : (old \o new)[k] = old[k]
        /\ \A k \in 1 .. Len(given) : (old \o new)[Len(old) + k] = new[k]
    <2>1. /\ old \o new \in Seq(Given)
          /\ Len(old \o new) = Len(old) + Len(new)
          /\ \A k \in 1 .. Len(old) : (old \o new)[k] = old[k]
          /\ \A k \in 1 .. Len(new) : (old \o new)[Len(old) + k] = new[k]
      <3>1. old \in Seq(Given) /\ new \in Seq(Given)
        BY <1>1, <1>2, Zenon
      <3> QED
        BY <3>1, JoinedElements
    <2> QED
      BY <2>1, <1>2, Zenon
  <1>6. /\ heard' \in [Attempts -> Seq(Given)]
        /\ heard'[a] = old \o new
        /\ \A b \in Attempts : b # a => heard'[b] = heard[b]
    BY <1>1, <1>3, <1>5
  <1>7. ASSUME NEW k \in 1 .. Len(heard'[a])
        PROVE  \/ k \in 1 .. Len(old) /\ heard'[a][k] = old[k]
               \/ /\ k > Len(old) /\ k - Len(old) \in 1 .. Len(given)
                  /\ heard'[a][k] = [frame |-> given[k - Len(old)], by |-> by]
    <2>1. CASE k <= Len(old)
      BY <2>1, <1>1, <1>2, <1>5, <1>6
    <2>2. CASE k > Len(old)
      <3>1. k - Len(old) \in 1 .. Len(given) /\ Len(old) + (k - Len(old)) = k
        BY <2>2, <1>1, <1>2, <1>5, <1>6
      <3>2. heard'[a][Len(old) + (k - Len(old))] = new[k - Len(old)]
        BY <3>1, <1>5, <1>6
      <3> QED
        BY <2>2, <3>1, <3>2, <1>4
    <2> QED
      BY <2>1, <2>2, <1>1, <1>2, <1>5, <1>6
  <1>8. ASSUME by = "adapter", NEW k \in 1 .. Len(heard'[a])
        PROVE  heard'[a][k].by = "adapter"
    <2>1. CASE k \in 1 .. Len(old) /\ heard'[a][k] = old[k]
      BY <2>1, <1>8 DEF old
    <2>2. CASE heard'[a][k] = [frame |-> given[k - Len(old)], by |-> by]
      BY <2>2, <1>8
    <2> QED
      BY <2>1, <2>2, <1>7
  <1>9. FramesInOrder'
    <2> SUFFICES ASSUME NEW b \in Attempts
                 PROVE  /\ Len(heard'[b]) <= Len(sent[b])
                        /\ \A k \in 1 .. Len(heard'[b]) :
                              /\ heard'[b][k].frame = sent[b][k]
                              /\ \A j \in 1 .. k :
                                    heard'[b][k].by = "adapter" => heard'[b][j].by = "adapter"
      BY DEF FramesInOrder
    <2>1. CASE b # a
      BY <2>1, <1>6 DEF IInv, FramesInOrder
    <2>2. CASE b = a
      <3>1. Len(heard'[a]) <= Len(sent[a])
        BY <1>5, <1>6 DEF old
      <3>2. ASSUME NEW k \in 1 .. Len(heard'[a])
            PROVE  heard'[a][k].frame = sent[a][k]
        <4>1. CASE k \in 1 .. Len(old) /\ heard'[a][k] = old[k]
          BY <4>1 DEF IInv, FramesInOrder, old
        <4>2. CASE /\ k > Len(old) /\ k - Len(old) \in 1 .. Len(given)
                   /\ heard'[a][k] = [frame |-> given[k - Len(old)], by |-> by]
          <5>1. given[k - Len(old)] = sent[a][Len(old) + (k - Len(old))]
            BY <4>2 DEF old
          <5>2. Len(old) + (k - Len(old)) = k
            BY <1>1
          <5> QED
            BY <4>2, <5>1, <5>2
        <4> QED
          BY <4>1, <4>2, <1>7
      <3>3. ASSUME NEW k \in 1 .. Len(heard'[a]), NEW j \in 1 .. k,
                   heard'[a][k].by = "adapter"
            PROVE  heard'[a][j].by = "adapter"
        <4>1. j \in 1 .. Len(heard'[a]) /\ j <= k
          BY <1>1, <1>2, <1>5, <1>6
        <4>2. CASE by = "adapter"
          BY <4>1, <4>2, <1>8
        <4>3. CASE by # "adapter"
          <5>1. k \in 1 .. Len(old) /\ heard'[a][k] = old[k]
            <6>1. heard'[a][k] # [frame |-> given[k - Len(old)], by |-> by]
              BY <4>3, <3>3
            <6> QED
              BY <6>1, <1>7
          <5>2. j \in 1 .. Len(old) /\ heard'[a][j] = old[j]
            BY <5>1, <4>1, <1>1, <1>5, <1>6
          <5> QED
            BY <5>1, <5>2, <3>3 DEF IInv, FramesInOrder, old
        <4> QED
          BY <4>2, <4>3
      <3> QED
        BY <2>2, <3>1, <3>2, <3>3
    <2> QED
      BY <2>1, <2>2
  <1> QED
    BY <1>1, <1>2, <1>5, <1>6, <1>8, <1>9 DEF old

(* The frame that is taken next for the current attempt is the one after   *)
(* those it was given and those it buffers: later ones still wait.         *)
LEMMA NextFrame ==
    ASSUME IInv, queue # <<>>, NEW a \in Attempts, a = host.attempt,
           IsReceived(1, a)
    PROVE  LET next == Len(heard[a]) + Len(host.buffer) + 1
           IN  /\ queue[1].frame \in Frames
               /\ queue[1].frame.number = next
               /\ next <= Len(sent[a])
               /\ queue[1].frame = sent[a][next]
               /\ host.networkSocketOpened
  <1> DEFINE taken == Len(heard[a]) + Len(host.buffer)
  <1>1. /\ queue \in Seq(Tasks) /\ Len(queue) \in Nat \ {0} /\ queue[1] \in Tasks
        /\ 1 \in 1 .. Len(queue)
    BY DEF IInv, Shapes
  <1>2. queue[1].does = "received" /\ queue[1].attempt = a /\ queue[1].frame \in Frames
    BY <1>1, TaskFields DEF IsReceived
  <1>3. taken \in Nat /\ Len(sent[a]) \in Nat
    <2>1. Len(heard[a]) \in Nat /\ Len(host.buffer) \in Nat /\ Len(sent[a]) \in Nat
      BY Lengths, Zenon
    <2> QED
      BY <2>1, NaturalSum, Zenon
  <1>4. /\ taken <= Len(sent[a])
        /\ \A i \in 1 .. Len(queue) : IsReceived(i, a) => queue[i].frame.number > taken
        /\ \A m \in 1 .. Len(sent[a]) : m > taken =>
              \E i \in 1 .. Len(queue) : IsReceived(i, a) /\ queue[i].frame.number = m
    BY Lengths DEF IInv, FramesAreKept
  <1>5. /\ queue[1].frame.number \in Nat
        /\ queue[1].frame.number <= Len(sent[a])
        /\ queue[1].frame = sent[a][queue[1].frame.number]
    BY <1>1, <1>2 DEF IInv, QueueIsTrue, TaskIsTrue, Frames
  <1>6. queue[1].frame.number > taken
    BY <1>1, <1>4
  <1> HIDE DEF taken
  <1>7. PICK i \in 1 .. Len(queue) : IsReceived(i, a) /\ queue[i].frame.number = taken + 1
    <2>1. taken + 1 \in 1 .. Len(sent[a]) /\ taken + 1 > taken
      BY <1>3, <1>5, <1>6
    <2> QED
      BY <2>1, <1>4
  <1>8. i # 1 => queue[1].frame.number < taken + 1
    <2>1. i # 1 => 1 < i
      BY <1>1
    <2> QED
      BY <2>1, <1>1, <1>2, <1>7 DEF IInv, FramesAscend, IsReceived
  <1>9. queue[1].frame.number = taken + 1
    BY <1>3, <1>5, <1>6, <1>7, <1>8
  <1>10. host.networkSocketOpened
    BY <1>1, <1>2 DEF IInv, OpensFirst, IsReceived
  <1> QED
    BY <1>2, <1>5, <1>9, <1>10 DEF taken

(* When the first task is taken, what the current attempt still waits for  *)
(* stays in order: one frame less if the task brought one.                 *)
LEMMA RestWaits ==
    ASSUME IInv, queue # <<>>, queue' = Tail(queue),
           NEW a \in Attempts, a = host.attempt, NEW taken \in Nat,
           \/ /\ IsReceived(1, a)
              /\ taken = Len(heard[a]) + Len(host.buffer) + 1
           \/ /\ ~IsReceived(1, a)
              /\ taken = Len(heard[a]) + Len(host.buffer)
    PROVE  /\ taken <= Len(sent[a])
           /\ \A i \in 1 .. Len(queue') :
                 queue'[i].does = "received" /\ queue'[i].attempt = a =>
                    queue'[i].frame.number > taken
           /\ \A m \in 1 .. Len(sent[a]) : m > taken =>
                 \E i \in 1 .. Len(queue') :
                    /\ queue'[i].does = "received" /\ queue'[i].attempt = a
                    /\ queue'[i].frame.number = m
  <1> DEFINE old == Len(heard[a]) + Len(host.buffer)
  <1>1. /\ Len(queue) \in Nat \ {0} /\ Len(queue') = Len(queue) - 1
        /\ \A i \in 1 .. Len(queue') :
              i + 1 \in 1 .. Len(queue) /\ queue'[i] = queue[i + 1]
    BY TailOfQueue DEF IInv
  <1>2. old \in Nat /\ Len(sent[a]) \in Nat
    <2>1. Len(heard[a]) \in Nat /\ Len(host.buffer) \in Nat /\ Len(sent[a]) \in Nat
      BY Lengths, Zenon
    <2> QED
      BY <2>1, NaturalSum, Zenon
  <1>3. /\ old <= Len(sent[a])
        /\ \A i \in 1 .. Len(queue) : IsReceived(i, a) => queue[i].frame.number > old
        /\ \A m \in 1 .. Len(sent[a]) : m > old =>
              \E i \in 1 .. Len(queue) : IsReceived(i, a) /\ queue[i].frame.number = m
    BY Lengths DEF IInv, FramesAreKept
  <1>4. IsReceived(1, a) =>
           queue[1].frame.number = old + 1 /\ old + 1 <= Len(sent[a])
    BY NextFrame
  <1>0. IF IsReceived(1, a) THEN taken = old + 1 ELSE taken = old
    OBVIOUS
  <1> HIDE DEF old
  <1>5. taken <= Len(sent[a]) /\ old <= taken
    BY <1>0, <1>2, <1>3, <1>4
  <1>6. ASSUME NEW i \in 1 .. Len(queue'),
               queue'[i].does = "received", queue'[i].attempt = a
        PROVE  queue'[i].frame.number > taken
    <2>1. i + 1 \in 1 .. Len(queue) /\ IsReceived(i + 1, a) /\ queue'[i] = queue[i + 1]
      BY <1>1, <1>6 DEF IsReceived
    <2>2. CASE IsReceived(1, a)
      <3>1. queue[1].frame.number < queue[i + 1].frame.number
        <4>1. 1 \in 1 .. Len(queue) /\ 1 < i + 1
          BY <1>1
        <4> QED
          BY <2>1, <2>2, <4>1 DEF IInv, FramesAscend, IsReceived
      <3>2. queue[i + 1].frame.number \in Nat
        BY <2>1, TaskFields DEF IInv, Shapes, IsReceived, Frames
      <3> QED
        BY <2>1, <2>2, <3>1, <3>2, <1>0, <1>2, <1>4
    <2>3. CASE ~IsReceived(1, a)
      BY <2>1, <2>3, <1>0, <1>3
    <2> QED
      BY <2>2, <2>3
  <1>7. ASSUME NEW m \in 1 .. Len(sent[a]), m > taken
        PROVE  \E i \in 1 .. Len(queue') :
                  /\ queue'[i].does = "received" /\ queue'[i].attempt = a
                  /\ queue'[i].frame.number = m
    <2>1. PICK i \in 1 .. Len(queue) : IsReceived(i, a) /\ queue[i].frame.number = m
      <3>1. m > old
        BY <1>2, <1>5, <1>7
      <3> QED
        BY <3>1, <1>3
    <2>2. i # 1
      BY <2>1, <1>0, <1>2, <1>4, <1>7
    <2>3. i - 1 \in 1 .. Len(queue') /\ (i - 1) + 1 = i
      BY <2>2, <1>1
    <2>4. queue'[i - 1] = queue[i]
      BY <2>3, <1>1
    <2> QED
      BY <2>1, <2>3, <2>4 DEF IsReceived
  <1> QED
    BY <1>5, <1>6, <1>7

-----------------------------------------------------------------------------
(* What a handler of the worker leaves.                                    *)

(* Taking a task loses the opening of the current attempt only when it     *)
(* handles it.                                                             *)
LEMMA OpensFirstDrops ==
    ASSUME IInv, queue # <<>>, queue' = Tail(queue),
           host'.attempt = host.attempt,
           host.networkSocketOpened => host'.networkSocketOpened,
           IsOpened(1, host.attempt) => host'.networkSocketOpened,
           socket' = socket
    PROVE  OpensFirst'
  <1> DEFINE a == host.attempt
  <1>1. /\ Len(queue) \in Nat \ {0} /\ Len(queue') = Len(queue) - 1
        /\ \A i \in 1 .. Len(queue') :
              i + 1 \in 1 .. Len(queue) /\ queue'[i] = queue[i + 1]
    BY TailOfQueue DEF IInv
  <1>2. ASSUME NEW n \in 1 .. Len(queue), NEW j \in 1 .. n, IsOpened(j, a)
        PROVE  \/ host'.networkSocketOpened
               \/ \E k \in 1 .. n - 1 : queue'[k].does = "opened" /\ queue'[k].attempt = a
    <2>1. CASE j = 1
      BY <2>1, <1>2
    <2>2. CASE j # 1
      <3>1. j - 1 \in 1 .. n - 1 /\ j - 1 \in 1 .. Len(queue') /\ (j - 1) + 1 = j
        BY <2>2, <1>1
      <3>2. queue'[j - 1] = queue[j]
        BY <3>1, <1>1
      <3> QED
        BY <3>1, <3>2, <1>2 DEF IsOpened
    <2> QED
      BY <2>1, <2>2
  <1>3. ASSUME NEW i \in 1 .. Len(queue'),
               queue'[i].does = "received", queue'[i].attempt = a
        PROVE  \/ host'.networkSocketOpened
               \/ \E k \in 1 .. i - 1 : queue'[k].does = "opened" /\ queue'[k].attempt = a
    <2>1. i + 1 \in 1 .. Len(queue) /\ IsReceived(i + 1, a)
      BY <1>1, <1>3 DEF IsReceived
    <2>2. \/ host.networkSocketOpened
          \/ \E j \in 1 .. (i + 1) - 1 : IsOpened(j, a)
      BY <2>1 DEF IInv, OpensFirst
    <2>3. CASE ~host.networkSocketOpened
      <3>1. PICK j \in 1 .. (i + 1) - 1 : IsOpened(j, a)
        BY <2>2, <2>3
      <3>2. i \in 1 .. Len(queue) /\ j \in 1 .. i
        BY <1>1, <3>1
      <3> HIDE DEF a
      <3> QED
        BY <3>1, <3>2, <1>2
    <2> QED
      BY <2>3
  <1>4. ASSUME a # NoAttempt, socket[a] = "open"
        PROVE  \/ host'.networkSocketOpened
               \/ \E k \in 1 .. Len(queue') :
                     queue'[k].does = "opened" /\ queue'[k].attempt = a
    <2>1. CASE ~host.networkSocketOpened
      <3>1. PICK j \in 1 .. Len(queue) : IsOpened(j, a)
        BY <2>1, <1>4 DEF IInv, OpensFirst
      <3>2. Len(queue) \in 1 .. Len(queue)
        BY <1>1
      <3> HIDE DEF a
      <3> QED
        BY <3>1, <3>2, <1>1, <1>2
    <2> QED
      BY <2>1
  <1> QED
    BY <1>3, <1>4 DEF OpensFirst, IsReceived, IsOpened

(* Taking a task keeps the frames of the current attempt, when it gives    *)
(* or buffers the one that it brings and nothing but what was buffered.    *)
LEMMA FramesDrop ==
    ASSUME IInv, queue # <<>>, queue' = Tail(queue), sent' = sent,
           NEW a \in Attempts, a = host.attempt, host'.attempt = a,
           Len(heard'[a]) \in Nat, Len(host'.buffer) \in Nat,
           Len(heard'[a]) + Len(host'.buffer) =
              IF IsReceived(1, a) THEN Len(heard[a]) + Len(host.buffer) + 1
                                  ELSE Len(heard[a]) + Len(host.buffer),
           \A k \in 1 .. Len(host'.buffer) :
              host'.buffer[k] = sent[a][Len(heard'[a]) + k],
           ~host'.socketOpened =>
              \A k \in 1 .. Len(heard'[a]) : heard'[a][k].by = "adapter"
    PROVE  FramesAreKept'
  <1> DEFINE given == Len(heard'[a])
             waiting == Len(host'.buffer)
             old == Len(heard[a]) + Len(host.buffer)
  <1>0. /\ given \in Nat /\ waiting \in Nat
        /\ given + waiting = IF IsReceived(1, a) THEN old + 1 ELSE old
    OBVIOUS
  <1>1. given + waiting \in Nat
    BY <1>0, NaturalSum, Zenon
  <1>2. /\ given + waiting <= Len(sent[a])
        /\ \A i \in 1 .. Len(queue') :
              queue'[i].does = "received" /\ queue'[i].attempt = a =>
                 queue'[i].frame.number > given + waiting
        /\ \A m \in 1 .. Len(sent[a]) : m > given + waiting =>
              \E i \in 1 .. Len(queue') :
                 /\ queue'[i].does = "received" /\ queue'[i].attempt = a
                 /\ queue'[i].frame.number = m
    <2> DEFINE taken == given + waiting
    <2>1. \/ IsReceived(1, a) /\ taken = Len(heard[a]) + Len(host.buffer) + 1
          \/ ~IsReceived(1, a) /\ taken = Len(heard[a]) + Len(host.buffer)
      BY <1>0
    <2>2. taken \in Nat
      BY <1>1
    <2> HIDE DEF taken
    <2>3. /\ taken <= Len(sent[a])
          /\ \A i \in 1 .. Len(queue') :
                queue'[i].does = "received" /\ queue'[i].attempt = a =>
                   queue'[i].frame.number > taken
          /\ \A m \in 1 .. Len(sent[a]) : m > taken =>
                \E i \in 1 .. Len(queue') :
                   /\ queue'[i].does = "received" /\ queue'[i].attempt = a
                   /\ queue'[i].frame.number = m
      BY <2>1, <2>2, RestWaits
    <2> QED
      BY <2>3 DEF taken
  <1>3. FramesAreKept' <=>
           (a # NoAttempt =>
              /\ given + waiting <= Len(sent[a])
              /\ \A k \in 1 .. waiting : host'.buffer[k] = sent[a][given + k]
              /\ \A i \in 1 .. Len(queue') :
                    queue'[i].does = "received" /\ queue'[i].attempt = a =>
                       queue'[i].frame.number > given + waiting
              /\ \A m \in 1 .. Len(sent[a]) : m > given + waiting =>
                    \E i \in 1 .. Len(queue') :
                       /\ queue'[i].does = "received" /\ queue'[i].attempt = a
                       /\ queue'[i].frame.number = m
              /\ ~host'.socketOpened => \A k \in 1 .. given : heard'[a][k].by = "adapter")
    BY DEF FramesAreKept, IsReceived
  <1> QED
    BY <1>2, <1>3

(* A host that gives an attempt up may be left with any tasks: they        *)
(* concern it no more.                                                     *)
LEMMA HostIdles ==
    ASSUME AdapterBounds, IInv, host' = Idle,
           session' \in {"Disconnected", "Incompatible"}, foreground' \in BOOLEAN,
           queue' = queue \/ (queue # <<>> /\ queue' = Tail(queue)),
           UNCHANGED <<attempts, sent, asked, ready>>,
           socket' = socket \/ socket' = [socket EXCEPT ![host.attempt] = "ended"],
           host.attempt \in Attempts \/ socket' = socket,
           heard' \in [Attempts -> Seq(Given)], FramesInOrder',
           \A a \in Attempts : a # host.attempt => heard'[a] = heard[a]
    PROVE  IInv'
  <1>1. queue' \in Seq(Tasks)
    BY TailOfQueue DEF IInv, Shapes
  <1>2. /\ socket' \in [Attempts -> {"none", "connecting", "open", "ended"}]
        /\ \A a \in Attempts : a # host.attempt => socket'[a] = socket[a]
    BY DEF IInv, Shapes
  <1>3. Idle \in Hosts
    BY DEF Idle, Hosts, NoAttempt, NoEvent
  <1>4. Shapes'
    BY <1>1, <1>2, <1>3 DEF IInv, Shapes
  <1>5. UnusedIsQuiet'
    <2>1. \A a \in Attempts : a > attempts => a # host.attempt
      BY HostShape DEF IInv, HostAgrees, Attempts
    <2> QED
      BY <2>1, <1>2 DEF IInv, UnusedIsQuiet
  <1>6. HostAgrees'
    <2>1. 0 < MAXIMUM_PRE_READY_FRAMES
      BY DEF AdapterBounds
    <2>2. attempts \in Nat
      BY HostShape
    <2> QED
      BY <2>1, <2>2 DEF HostAgrees, Idle, NoAttempt, NoEvent, InPrelude
  <1>7. QueueIsTrue' /\ FramesAscend'
    <2>1. attempts \in Nat
      BY HostShape
    <2> QED
      BY <2>1, QueueDrops, QueueKeeps
  <1>8. OpensFirst'
    <2>1. \A i \in 1 .. Len(queue') : queue'[i].attempt # NoAttempt
      BY <1>1, TaskFields DEF Attempts, NoAttempt
    <2>2. host'.attempt = NoAttempt
      BY DEF Idle
    <2> QED
      BY <2>1, <2>2 DEF OpensFirst, IsReceived
  <1>9. FramesAreKept'
    BY DEF FramesAreKept, Idle
  <1> QED
    BY <1>4, <1>5, <1>6, <1>7, <1>8, <1>9 DEF IInv

(* A handler that keeps the attempt keeps the invariant, if it keeps the   *)
(* fields of the host and the frames of the attempt right.                 *)
LEMMA HandlerKeeps ==
    ASSUME AdapterBounds, IInv, queue # <<>>, queue' = Tail(queue),
           UNCHANGED <<foreground, attempts, sent, ready, socket>>,
           host' \in Hosts, host'.attempt = host.attempt, HostAgrees',
           session' \in {"Disconnected", "Connecting", "Open", "Incompatible"},
           asked' \subseteq [attempt : 1 .. attempts, event : Nat \ {0}],
           heard' \in [Attempts -> Seq(Given)],
           \A a \in Attempts : a # host.attempt => heard'[a] = heard[a],
           FramesInOrder', FramesAreKept',
           host.networkSocketOpened => host'.networkSocketOpened,
           IsOpened(1, host.attempt) => host'.networkSocketOpened
    PROVE  IInv'
  <1>1. queue' \in Seq(Tasks)
    BY TailOfQueue DEF IInv
  <1>2. Shapes'
    BY <1>1 DEF IInv, Shapes
  <1>3. UnusedIsQuiet'
    <2>1. \A a \in Attempts : a > attempts => a # host.attempt
      BY HostShape DEF IInv, HostAgrees, Attempts
    <2> QED
      BY <2>1 DEF IInv, UnusedIsQuiet
  <1>4. QueueIsTrue' /\ FramesAscend'
    BY QueueDrops
  <1>5. OpensFirst'
    BY OpensFirstDrops
  <1> QED
    BY <1>2, <1>3, <1>4, <1>5 DEF IInv

(* A task that the host has no use for is dropped: an event of another     *)
(* attempt, an answer that is late, or an opening that was handled.        *)
LEMMA TaskIsDropped ==
    ASSUME AdapterBounds, IInv, queue # <<>>, queue' = Tail(queue),
           UNCHANGED <<foreground, attempts, sent, ready>>,
           UNCHANGED <<host, session, socket, asked, heard>>,
           ~IsReceived(1, host.attempt),
           IsOpened(1, host.attempt) => host.networkSocketOpened
    PROVE  IInv'
  <1>1. FramesAreKept'
    <2>1. CASE host.attempt = NoAttempt
      BY <2>1 DEF FramesAreKept
    <2>2. CASE host.attempt # NoAttempt
      <3>1. host.attempt \in Attempts
        BY <2>2, HostShape
      <3> DEFINE a == host.attempt
      <3>2. Len(heard[a]) \in Nat /\ Len(host.buffer) \in Nat
        BY <3>1, Lengths
      <3>3. /\ \A k \in 1 .. Len(host.buffer) : host.buffer[k] = sent[a][Len(heard[a]) + k]
            /\ ~host.socketOpened =>
                  \A k \in 1 .. Len(heard[a]) : heard[a][k].by = "adapter"
        BY <2>2 DEF IInv, FramesAreKept
      <3> QED
        BY <3>1, <3>2, <3>3, FramesDrop
    <2> QED
      BY <2>1, <2>2
  <1>2. HostAgrees' /\ FramesInOrder'
    BY DEF IInv, HostAgrees, InPrelude, FramesInOrder
  <1> QED
    BY <1>1, <1>2, HandlerKeeps DEF IInv, Shapes

(* Asking keeps the questions: a new one has a number of its own.          *)
LEMMA AskedKeeps ==
    ASSUME AdapterBounds, IInv, NEW h \in Hosts, h.attempt = host.attempt,
           host.attempt # NoAttempt, Ask(h), attempts' = attempts
    PROVE  /\ host' = [h EXCEPT !.events = h.events + 1, !.pending = h.events + 1]
           /\ host' \in Hosts
           /\ host'.pending = host'.events /\ host'.pending # NoEvent
           /\ asked' \subseteq [attempt : 1 .. attempts, event : Nat \ {0}]
           /\ session' = session /\ socket' = socket
  <1>1. host' = [h EXCEPT !.events = h.events + 1, !.pending = h.events + 1]
    BY DEF Ask, Hosts
  <1>2. h.events \in Nat /\ h.events + 1 \in Nat \ {0} /\ h.attempt \in Nat
    BY DEF Hosts
  <1>3. host.attempt \in 1 .. attempts
    BY HostShape DEF IInv, HostAgrees, NoAttempt
  <1>4. [attempt |-> h.attempt, event |-> h.events + 1]
           \in [attempt : 1 .. attempts, event : Nat \ {0}]
    BY <1>2, <1>3
  <1>5. asked' \subseteq [attempt : 1 .. attempts, event : Nat \ {0}]
    BY <1>4 DEF Ask, IInv, Shapes
  <1> QED
    BY <1>1, <1>2, <1>5 DEF Ask, Hosts, NoEvent

(* socketDidOpen: the prelude begins, and its timer.                       *)
LEMMA OpeningKeeps ==
    ASSUME AdapterBounds, IInv, queue # <<>>, queue' = Tail(queue),
           UNCHANGED <<foreground, attempts, sent, ready>>,
           Head(queue).does = "opened", SocketDidOpen(Head(queue))
    PROVE  IInv'
  <1>1. Head(queue) = queue[1] /\ queue[1] \in Tasks
    BY TailOfQueue DEF IInv
  <1>2. ~IsReceived(1, host.attempt)
    BY <1>1 DEF IsReceived
  <1>3. CASE ~(host.attempt = Head(queue).attempt /\ ~host.networkSocketOpened)
    BY <1>1, <1>2, <1>3, TaskIsDropped DEF SocketDidOpen, IsOpened
  <1>4. CASE host.attempt = Head(queue).attempt /\ ~host.networkSocketOpened
    <2> DEFINE h == [host EXCEPT !.networkSocketOpened = TRUE, !.timer = TRUE]
    <2>1. host.attempt \in Attempts /\ host.attempt # NoAttempt
      BY <1>1, <1>4, TaskFields, HostShape DEF Attempts, NoAttempt
    <2>2. host \in Hosts
      BY HostShape
    <2>3. h \in Hosts /\ h.attempt = host.attempt
      BY <2>2 DEF Hosts
    <2>4. Ask(h) /\ heard' = heard
      BY <1>4 DEF SocketDidOpen
    <2>5. /\ host' = [h EXCEPT !.events = h.events + 1, !.pending = h.events + 1]
          /\ host' \in Hosts
          /\ host'.pending = host'.events /\ host'.pending # NoEvent
          /\ asked' \subseteq [attempt : 1 .. attempts, event : Nat \ {0}]
          /\ session' = session /\ socket' = socket
      <3> HIDE DEF h
      <3> QED
        BY <2>1, <2>3, <2>4, AskedKeeps
    <2>6. /\ host'.attempt = host.attempt /\ host'.buffer = host.buffer
          /\ host'.networkSocketOpened /\ host'.timer
          /\ host'.socketOpened = host.socketOpened
      BY <2>2, <2>3, <2>5 DEF Hosts
    <2>7. ~host.socketOpened
      BY <1>4 DEF IInv, HostAgrees
    <2>8. host'.pending \in Nat
      BY <2>5 DEF Hosts
    <2>9. HostAgrees'
      BY <2>1, <2>5, <2>6, <2>7, <2>8 DEF IInv, HostAgrees, InPrelude
    <2>10. FramesAreKept'
      <3> DEFINE a == host.attempt
      <3>1. Len(heard[a]) \in Nat /\ Len(host.buffer) \in Nat
        BY <2>1, Lengths
      <3>2. /\ \A k \in 1 .. Len(host.buffer) : host.buffer[k] = sent[a][Len(heard[a]) + k]
            /\ ~host.socketOpened =>
                  \A k \in 1 .. Len(heard[a]) : heard[a][k].by = "adapter"
        BY <2>1 DEF IInv, FramesAreKept
      <3>3. /\ Len(heard'[a]) \in Nat /\ Len(host'.buffer) \in Nat
            /\ Len(heard'[a]) + Len(host'.buffer) = Len(heard[a]) + Len(host.buffer)
            /\ \A k \in 1 .. Len(host'.buffer) :
                  host'.buffer[k] = sent[a][Len(heard'[a]) + k]
            /\ \A k \in 1 .. Len(heard'[a]) : heard'[a][k].by = "adapter"
        BY <3>1, <3>2, <2>4, <2>6, <2>7
      <3> QED
        BY <3>3, <2>1, <2>6, <1>2, FramesDrop
    <2>11. FramesInOrder'
      BY <2>4 DEF IInv, FramesInOrder
    <2> QED
      BY <2>4, <2>5, <2>6, <2>9, <2>10, <2>11, HandlerKeeps DEF IInv, Shapes
  <1> QED
    BY <1>3, <1>4

(* Close: whatever the reason, an attempt that ends leaves no trace.       *)
LEMMA CloseKeeps ==
    ASSUME AdapterBounds, IInv, host.attempt # NoAttempt,
           queue' = queue \/ (queue # <<>> /\ queue' = Tail(queue)),
           UNCHANGED <<foreground, attempts, sent, ready>>,
           NEW disposition \in {"Disconnected", "Incompatible"}, Close(disposition)
    PROVE  IInv'
  <1>1. host.attempt \in Attempts
    BY HostShape
  <1>2. FramesInOrder' /\ heard' \in [Attempts -> Seq(Given)] /\ heard' = heard
    BY DEF Close, IInv, FramesInOrder, Shapes
  <1>3. /\ host' = Idle /\ session' = disposition /\ asked' = asked
        /\ socket' = [socket EXCEPT ![host.attempt] = "ended"]
    BY DEF Close
  <1>4. foreground' \in BOOLEAN
    BY DEF IInv, Shapes
  <1> QED
    BY <1>1, <1>2, <1>3, <1>4, HostIdles

(* socketDidReceive on an open connection: the session is given the frame. *)
LEMMA GivenToSession ==
    ASSUME AdapterBounds, IInv, queue # <<>>, queue' = Tail(queue),
           UNCHANGED <<foreground, attempts, sent, ready>>,
           IsReceived(1, host.attempt), host.socketOpened,
           Hears(<<queue[1].frame>>, "yjs"), UNCHANGED <<host, session, socket, asked>>
    PROVE  IInv'
  <1> DEFINE a == host.attempt
             frames == <<queue[1].frame>>
  <1>1. a \in Attempts
    BY TailOfQueue, TaskFields DEF IInv, IsReceived
  <1>2. host.buffer = <<>> /\ Len(host.buffer) = 0
    BY DEF IInv, HostAgrees
  <1>3. Len(heard[a]) \in Nat /\ Len(sent[a]) \in Nat
    BY <1>1, Lengths
  <1>4. /\ queue[1].frame \in Frames
        /\ Len(heard[a]) + 1 <= Len(sent[a])
        /\ queue[1].frame = sent[a][Len(heard[a]) + 1]
        /\ host.networkSocketOpened
    BY <1>1, <1>2, <1>3, NextFrame
  <1>5. /\ frames \in Seq(Frames) /\ Len(frames) = 1
        /\ \A k \in 1 .. Len(frames) : frames[k] = sent[a][Len(heard[a]) + k]
    BY <1>4
  <1>6. Hears(frames, "yjs") /\ Len(heard[a]) + Len(frames) <= Len(sent[a])
    BY <1>4, <1>5
  <1> HIDE DEF frames
  <1>7. /\ heard' \in [Attempts -> Seq(Given)]
        /\ \A b \in Attempts : b # a => heard'[b] = heard[b]
        /\ Len(heard'[a]) = Len(heard[a]) + Len(frames)
        /\ FramesInOrder'
    BY <1>1, <1>5, <1>6, HearsInOrder
  <1>8. FramesAreKept'
    <2>1. /\ Len(heard'[a]) \in Nat /\ Len(host'.buffer) = 0
          /\ Len(heard'[a]) + Len(host'.buffer) = Len(heard[a]) + Len(host.buffer) + 1
      BY <1>2, <1>3, <1>5, <1>7
    <2>2. /\ \A k \in 1 .. Len(host'.buffer) :
                host'.buffer[k] = sent[a][Len(heard'[a]) + k]
          /\ host'.socketOpened /\ host'.attempt = a /\ 0 \in Nat
      BY <2>1
    <2> QED
      BY <2>1, <2>2, <1>1, FramesDrop
  <1>9. HostAgrees'
    BY DEF IInv, HostAgrees, InPrelude
  <1> QED
    BY <1>4, <1>7, <1>8, <1>9, HandlerKeeps DEF IInv, Shapes

(* receiveProtocolAdapterFrame while the adapter is asked: the frame waits. *)
LEMMA BufferedKeeps ==
    ASSUME AdapterBounds, IInv, queue # <<>>, queue' = Tail(queue),
           UNCHANGED <<foreground, attempts, sent, ready>>,
           IsReceived(1, host.attempt), host.pending # NoEvent,
           Buffer(queue[1].frame)
    PROVE  IInv'
  <1> DEFINE a == host.attempt
             frame == queue[1].frame
  <1>1. a \in Attempts
    BY TailOfQueue, TaskFields DEF IInv, IsReceived
  <1>2. CASE Len(host.buffer) >= MAXIMUM_PRE_READY_FRAMES - 1
    <2>1. Close("Incompatible")
      BY <1>2 DEF Buffer, Refuse
    <2> QED
      BY <2>1, <1>1, CloseKeeps DEF Attempts, NoAttempt
  <1>3. CASE ~(Len(host.buffer) >= MAXIMUM_PRE_READY_FRAMES - 1)
    <2>1. /\ host' = [host EXCEPT !.buffer = Append(host.buffer, frame)]
          /\ UNCHANGED <<session, socket, asked, heard>>
      BY <1>3, HostShape DEF Buffer, Hosts
    <2>2. /\ Len(heard[a]) \in Nat /\ Len(sent[a]) \in Nat
          /\ host.buffer \in Seq(Frames) /\ Len(host.buffer) \in Nat
      BY <1>1, Lengths
    <2>3. /\ frame \in Frames
          /\ frame = sent[a][Len(heard[a]) + Len(host.buffer) + 1]
          /\ host.networkSocketOpened
      BY <1>1, NextFrame
    <2>4. host \in Hosts
      BY HostShape
    <2> HIDE DEF frame
    <2>5. /\ host' \in Hosts /\ host'.attempt = a
          /\ host'.buffer = Append(host.buffer, frame)
          /\ host'.networkSocketOpened = host.networkSocketOpened
          /\ host'.socketOpened = host.socketOpened
          /\ host'.pending = host.pending /\ host'.events = host.events
          /\ host'.timer = host.timer
      <3>1. Append(host.buffer, frame) \in Seq(Frames)
        BY <2>2, <2>3, AppendedElements
      <3> QED
        BY <3>1, <2>1, <2>4 DEF Hosts
    <2>6. /\ Len(host'.buffer) = Len(host.buffer) + 1
          /\ host'.buffer[Len(host.buffer) + 1] = frame
          /\ \A k \in 1 .. Len(host.buffer) : host'.buffer[k] = host.buffer[k]
      <3>1. /\ Len(Append(host.buffer, frame)) = Len(host.buffer) + 1
            /\ Append(host.buffer, frame)[Len(host.buffer) + 1] = frame
            /\ \A k \in 1 .. Len(host.buffer) :
                  Append(host.buffer, frame)[k] = host.buffer[k]
        <4>1. host.buffer \in Seq(Frames) /\ frame \in Frames
          BY <2>2, <2>3
        <4> DEFINE b == host.buffer
        <4>2. b \in Seq(Frames) /\ frame \in Frames
          BY <4>1
        <4> HIDE DEF b
        <4>3. /\ Len(Append(b, frame)) = Len(b) + 1
              /\ Append(b, frame)[Len(b) + 1] = frame
              /\ \A k \in 1 .. Len(b) : Append(b, frame)[k] = b[k]
          BY <4>2, AppendedElements
        <4> QED
          BY <4>3 DEF b
      <3> QED
        BY <3>1, <2>5, Zenon
    <2>7. ~host.socketOpened
      BY DEF IInv, HostAgrees
    <2>8. HostAgrees'
      <3>1. Len(host'.buffer) < MAXIMUM_PRE_READY_FRAMES
        BY <1>3, <2>2, <2>6 DEF AdapterBounds
      <3>2. host.attempt # NoAttempt
        BY <1>1, Lengths
      <3> QED
        BY <3>1, <3>2, <2>1, <2>5 DEF IInv, HostAgrees, InPrelude
    <2>9. FramesAreKept'
      <3>1. /\ \A k \in 1 .. Len(host.buffer) :
                  host.buffer[k] = sent[a][Len(heard[a]) + k]
            /\ \A k \in 1 .. Len(heard[a]) : heard[a][k].by = "adapter"
        BY <1>1, <2>7, Lengths DEF IInv, FramesAreKept
      <3>2. ASSUME NEW k \in 1 .. Len(host'.buffer)
            PROVE  host'.buffer[k] = sent[a][Len(heard'[a]) + k]
        <4>1. k \in 1 .. Len(host.buffer) \/ k = Len(host.buffer) + 1
          BY <2>2, <2>6
        <4>2. Len(heard[a]) + Len(host.buffer) + 1 = Len(heard[a]) + (Len(host.buffer) + 1)
          BY <2>2, NaturalSum, Zenon
        <4>3. CASE k \in 1 .. Len(host.buffer)
          BY <4>3, <3>1, <2>1, <2>6
        <4>4. CASE k = Len(host.buffer) + 1
          BY <4>2, <4>4, <2>1, <2>3, <2>6
        <4> QED
          BY <4>1, <4>3, <4>4
      <3>3. /\ Len(heard'[a]) \in Nat /\ Len(host'.buffer) \in Nat
            /\ Len(heard'[a]) + Len(host'.buffer) = Len(heard[a]) + Len(host.buffer) + 1
            /\ \A k \in 1 .. Len(heard'[a]) : heard'[a][k].by = "adapter"
        <4>1. heard' = heard
          BY <2>1
        <4>2. /\ Len(host.buffer) + 1 \in Nat
              /\ Len(heard[a]) + (Len(host.buffer) + 1) = Len(heard[a]) + Len(host.buffer) + 1
          BY <2>2, NaturalSum
        <4> HIDE DEF a
        <4> QED
          BY <4>1, <4>2, <3>1, <2>2, <2>6, Zenon
      <3> QED
        BY <3>2, <3>3, <1>1, <2>5, FramesDrop
    <2>10. FramesInOrder'
      BY <2>1 DEF IInv, FramesInOrder
    <2> QED
      BY <2>1, <2>3, <2>5, <2>8, <2>9, <2>10, HandlerKeeps DEF IInv, Shapes
  <1> QED
    BY <1>2, <1>3

(* receiveProtocolAdapterFrame: the adapter is asked about the frame.      *)
LEMMA AskedOnArrival ==
    ASSUME AdapterBounds, IInv, queue # <<>>, queue' = Tail(queue),
           UNCHANGED <<foreground, attempts, sent, ready>>,
           IsReceived(1, host.attempt), ~host.socketOpened, host.pending = NoEvent,
           Ask(host), Hears(<<queue[1].frame>>, "adapter")
    PROVE  IInv'
  <1> DEFINE a == host.attempt
             frames == <<queue[1].frame>>
  <1>1. a \in Attempts
    BY TailOfQueue, TaskFields DEF IInv, IsReceived
  <1>2. host.buffer = <<>> /\ Len(host.buffer) = 0
    BY DEF IInv, HostAgrees
  <1>3. Len(heard[a]) \in Nat /\ Len(sent[a]) \in Nat /\ a # NoAttempt
    BY <1>1, Lengths
  <1>4. /\ queue[1].frame \in Frames
        /\ Len(heard[a]) + 1 <= Len(sent[a])
        /\ queue[1].frame = sent[a][Len(heard[a]) + 1]
        /\ host.networkSocketOpened
    BY <1>1, <1>2, <1>3, NextFrame
  <1>5. /\ frames \in Seq(Frames) /\ Len(frames) = 1
        /\ \A k \in 1 .. Len(frames) : frames[k] = sent[a][Len(heard[a]) + k]
    BY <1>4
  <1>6. Hears(frames, "adapter") /\ Len(heard[a]) + Len(frames) <= Len(sent[a])
    BY <1>4, <1>5
  <1>7. \A k \in 1 .. Len(heard[a]) : heard[a][k].by = "adapter"
    BY <1>3 DEF IInv, FramesAreKept
  <1> HIDE DEF frames
  <1>8. /\ heard' \in [Attempts -> Seq(Given)]
        /\ \A b \in Attempts : b # a => heard'[b] = heard[b]
        /\ Len(heard'[a]) = Len(heard[a]) + Len(frames)
        /\ \A k \in 1 .. Len(heard'[a]) : heard'[a][k].by = "adapter"
        /\ FramesInOrder'
    BY <1>1, <1>5, <1>6, <1>7, HearsInOrder
  <1>9. host \in Hosts
    BY HostShape
  <1>10. /\ host' = [host EXCEPT !.events = host.events + 1, !.pending = host.events + 1]
         /\ host' \in Hosts
         /\ host'.pending = host'.events /\ host'.pending # NoEvent
         /\ asked' \subseteq [attempt : 1 .. attempts, event : Nat \ {0}]
         /\ session' = session /\ socket' = socket
    BY <1>3, <1>9, AskedKeeps
  <1>11. /\ host'.attempt = a /\ host'.buffer = <<>>
         /\ host'.networkSocketOpened /\ ~host'.socketOpened
         /\ host'.timer = host.timer
    BY <1>2, <1>4, <1>9, <1>10 DEF Hosts
  <1>12. FramesAreKept'
    <2>1. /\ Len(heard'[a]) \in Nat /\ Len(host'.buffer) = 0 /\ Len(host'.buffer) \in Nat
          /\ Len(heard'[a]) + Len(host'.buffer) = Len(heard[a]) + Len(host.buffer) + 1
      BY <1>2, <1>3, <1>5, <1>8, <1>11
    <2>2. \A k \in 1 .. Len(host'.buffer) : host'.buffer[k] = sent[a][Len(heard'[a]) + k]
      BY <2>1
    <2> QED
      <3>1. Len(heard'[a]) + Len(host'.buffer) =
               IF IsReceived(1, a) THEN Len(heard[a]) + Len(host.buffer) + 1
                                   ELSE Len(heard[a]) + Len(host.buffer)
        BY <2>1
      <3>2. /\ \A k \in 1 .. Len(heard'[a]) : heard'[a][k].by = "adapter"
            /\ host'.attempt = a /\ sent' = sent /\ Len(host'.buffer) \in Nat
        BY <2>1, <1>8, <1>11
      <3> HIDE DEF a
      <3> QED
        BY <2>1, <2>2, <3>1, <3>2, <1>1, FramesDrop DEF a
  <1>13. HostAgrees'
    <2>1. Len(host'.buffer) < MAXIMUM_PRE_READY_FRAMES /\ host'.pending \in Nat
      BY <1>2, <1>10, <1>11 DEF IInv, HostAgrees, Hosts
    <2> QED
      BY <2>1, <1>3, <1>4, <1>10, <1>11 DEF IInv, HostAgrees, InPrelude
  <1> QED
    BY <1>8, <1>10, <1>11, <1>12, <1>13, HandlerKeeps DEF IInv, Shapes

(* socketDidReceive: a frame of the peer is given on, waits, or ends the   *)
(* attempt.                                                                *)
LEMMA ArrivalKeeps ==
    ASSUME AdapterBounds, IInv, queue # <<>>, queue' = Tail(queue),
           UNCHANGED <<foreground, attempts, sent, ready>>,
           NEW accepted \in BOOLEAN,
           Head(queue).does = "received", SocketDidReceive(Head(queue), accepted)
    PROVE  IInv'
  <1>1. Head(queue) = queue[1] /\ queue[1] \in Tasks
    BY TailOfQueue DEF IInv
  <1>2. CASE host.attempt # Head(queue).attempt
    BY <1>1, <1>2, TaskIsDropped DEF SocketDidReceive, IsReceived, IsOpened
  <1>3. CASE host.attempt = Head(queue).attempt
    <2>1. IsReceived(1, host.attempt)
      BY <1>1, <1>3 DEF IsReceived
    <2>2. host.attempt # NoAttempt
      BY <1>1, <1>3, TaskFields DEF Attempts, NoAttempt
    <2>3. CASE Refuse
      BY <2>2, <2>3, CloseKeeps DEF Refuse
    <2>4. CASE /\ host.socketOpened
               /\ Hears(<<queue[1].frame>>, "yjs")
               /\ UNCHANGED <<host, session, socket, asked>>
      BY <2>1, <2>4, GivenToSession
    <2>5. CASE host.pending # NoEvent /\ Buffer(queue[1].frame)
      BY <2>1, <2>5, BufferedKeeps
    <2>6. CASE /\ ~host.socketOpened /\ host.pending = NoEvent
               /\ Ask(host) /\ Hears(<<queue[1].frame>>, "adapter")
      BY <2>1, <2>6, AskedOnArrival
    <2> QED
      BY <2>3, <2>4, <2>5, <2>6, <1>1, <1>3 DEF SocketDidReceive
  <1> QED
    BY <1>2, <1>3

(* emitNextBufferedProtocolFrame: the next frame goes to the adapter, and  *)
(* without one nothing is asked until the peer sends.                      *)
LEMMA ContinueKeeps ==
    ASSUME AdapterBounds, IInv, queue # <<>>, queue' = Tail(queue),
           UNCHANGED <<foreground, attempts, sent, ready>>,
           Head(queue).does = "resolve", Concerns(Head(queue)),
           Continue([host EXCEPT !.pending = NoEvent])
    PROVE  IInv'
  <1> DEFINE a == host.attempt
             h == [host EXCEPT !.pending = NoEvent]
             rest == [h EXCEPT !.buffer = Tail(h.buffer)]
  <1>1. Head(queue) = queue[1] /\ queue[1] \in Tasks
    BY TailOfQueue DEF IInv
  <1>2. a \in Attempts /\ host.pending # NoEvent
    BY <1>1, TaskFields DEF Concerns, NoEvent
  <1>3. ~IsReceived(1, a) /\ ~IsOpened(1, a)
    BY <1>1 DEF IsReceived, IsOpened
  <1>4. host \in Hosts /\ host.networkSocketOpened /\ ~host.socketOpened
    BY <1>2, HostShape DEF IInv, HostAgrees
  <1>5. /\ h \in Hosts /\ h.attempt = a /\ h.buffer = host.buffer /\ h.pending = NoEvent
        /\ h.events = host.events /\ h.timer = host.timer
        /\ h.networkSocketOpened /\ ~h.socketOpened
    BY <1>4 DEF Hosts, NoEvent
  <1>6. /\ Len(heard[a]) \in Nat /\ Len(sent[a]) \in Nat /\ a # NoAttempt
        /\ host.buffer \in Seq(Frames) /\ Len(host.buffer) \in Nat
    BY <1>2, Lengths
  <1>7. /\ Len(heard[a]) + Len(host.buffer) <= Len(sent[a])
        /\ \A k \in 1 .. Len(host.buffer) : host.buffer[k] = sent[a][Len(heard[a]) + k]
        /\ \A k \in 1 .. Len(heard[a]) : heard[a][k].by = "adapter"
    BY <1>4, <1>6 DEF IInv, FramesAreKept
  <1>8. CASE host.buffer = <<>>
    <2>1. host' = h /\ UNCHANGED <<session, socket, asked, heard>>
      BY <1>5, <1>8 DEF Continue
    <2>2. FramesAreKept'
      <3>1. /\ Len(heard'[a]) \in Nat /\ Len(host'.buffer) \in Nat
            /\ host'.attempt = a
            /\ Len(heard'[a]) + Len(host'.buffer) = Len(heard[a]) + Len(host.buffer)
            /\ \A k \in 1 .. Len(host'.buffer) :
                  host'.buffer[k] = sent[a][Len(heard'[a]) + k]
            /\ \A k \in 1 .. Len(heard'[a]) : heard'[a][k].by = "adapter"
        BY <2>1, <1>5, <1>6, <1>7
      <3> QED
        BY <3>1, <1>2, <1>3, FramesDrop
    <2>3. HostAgrees'
      BY <2>1, <1>4, <1>5, <1>6, <1>8 DEF IInv, HostAgrees, InPrelude, NoEvent, Hosts
    <2>4. FramesInOrder'
      BY <2>1 DEF IInv, FramesInOrder
    <2> HIDE DEF h
    <2> QED
      BY <2>1, <2>2, <2>3, <2>4, <1>3, <1>5, HandlerKeeps DEF IInv, Shapes
  <1>9. CASE host.buffer # <<>>
    <2> DEFINE frames == <<Head(host.buffer)>>
    <2>1. Ask(rest) /\ Hears(frames, "adapter")
      BY <1>5, <1>9 DEF Continue
    <2>2. /\ Tail(host.buffer) \in Seq(Frames) /\ Head(host.buffer) \in Frames
          /\ Head(host.buffer) = host.buffer[1] /\ Len(host.buffer) >= 1
          /\ Len(Tail(host.buffer)) = Len(host.buffer) - 1
          /\ \A k \in 1 .. Len(Tail(host.buffer)) :
                /\ k + 1 \in 1 .. Len(host.buffer)
                /\ Tail(host.buffer)[k] = host.buffer[k + 1]
      <3> DEFINE b == host.buffer
      <3>1. b \in Seq(Frames) /\ b # <<>>
        BY <1>6, <1>9
      <3> HIDE DEF b
      <3>2. /\ Tail(b) \in Seq(Frames) /\ Head(b) \in Frames /\ Head(b) = b[1]
            /\ Len(b) >= 1 /\ Len(Tail(b)) = Len(b) - 1
            /\ \A k \in 1 .. Len(Tail(b)) : k + 1 \in 1 .. Len(b) /\ Tail(b)[k] = b[k + 1]
        BY <3>1, TailElements
      <3> QED
        BY <3>2 DEF b
    <2>3. /\ rest \in Hosts /\ rest.attempt = a /\ rest.buffer = Tail(host.buffer)
          /\ rest.timer = host.timer /\ rest.networkSocketOpened /\ ~rest.socketOpened
      BY <2>2, <1>5 DEF Hosts
    <2>4. /\ frames \in Seq(Frames) /\ Len(frames) = 1
          /\ \A k \in 1 .. Len(frames) : frames[k] = sent[a][Len(heard[a]) + k]
      BY <2>2, <1>7
    <2>5. Len(heard[a]) + Len(frames) <= Len(sent[a])
      BY <2>2, <2>4, <1>6, <1>7, OneFits, Zenon
    <2> HIDE DEF frames, rest
    <2>6. /\ heard' \in [Attempts -> Seq(Given)]
          /\ \A b \in Attempts : b # a => heard'[b] = heard[b]
          /\ Len(heard'[a]) = Len(heard[a]) + Len(frames)
          /\ \A k \in 1 .. Len(heard'[a]) : heard'[a][k].by = "adapter"
          /\ FramesInOrder'
      BY <2>1, <2>4, <2>5, <1>2, <1>7, HearsInOrder
    <2>7. /\ host' = [rest EXCEPT !.events = rest.events + 1, !.pending = rest.events + 1]
          /\ host' \in Hosts
          /\ host'.pending = host'.events /\ host'.pending # NoEvent
          /\ asked' \subseteq [attempt : 1 .. attempts, event : Nat \ {0}]
          /\ session' = session /\ socket' = socket
      BY <2>1, <2>3, <1>6, AskedKeeps
    <2>8. /\ host'.attempt = a /\ host'.buffer = Tail(host.buffer)
          /\ host'.networkSocketOpened /\ ~host'.socketOpened
          /\ host'.timer = host.timer
      BY <2>3, <2>7 DEF Hosts
    <2>9. FramesAreKept'
      <3>1. /\ Len(heard'[a]) = Len(heard[a]) + 1
            /\ Len(host'.buffer) = Len(host.buffer) - 1
        BY <2>2, <2>4, <2>6, <2>8
      <3>2. /\ Len(heard'[a]) \in Nat /\ Len(host'.buffer) \in Nat
            /\ Len(heard'[a]) + Len(host'.buffer) = Len(heard[a]) + Len(host.buffer)
            /\ \A k \in Nat : Len(heard[a]) + (k + 1) = Len(heard'[a]) + k
        <4> DEFINE m == Len(heard[a])
                   n == Len(host.buffer)
                   p == Len(heard'[a])
                   q == Len(host'.buffer)
        <4>1. m \in Nat /\ n \in Nat /\ n >= 1 /\ p = m + 1 /\ q = n - 1
          BY <3>1, <2>2, <1>6
        <4> HIDE DEF m, n, p, q
        <4>2. p \in Nat /\ q \in Nat /\ p + q = m + n /\ \A k \in Nat : m + (k + 1) = p + k
          BY <4>1
        <4> QED
          BY <4>2 DEF m, n, p, q
      <3>3. ASSUME NEW k \in 1 .. Len(host'.buffer)
            PROVE  host'.buffer[k] = sent[a][Len(heard'[a]) + k]
        <4>1. k + 1 \in 1 .. Len(host.buffer) /\ host'.buffer[k] = host.buffer[k + 1]
          BY <2>2, <2>8
        <4>2. Len(heard[a]) + (k + 1) = Len(heard'[a]) + k
          BY <3>2
        <4>3. host.buffer[k + 1] = sent[a][Len(heard[a]) + (k + 1)]
          BY <4>1, <1>7
        <4> QED
          BY <4>1, <4>2, <4>3
      <3> QED
        BY <3>2, <3>3, <2>6, <2>8, <1>2, <1>3, FramesDrop
    <2>10. HostAgrees'
      <3>1. Len(host'.buffer) < MAXIMUM_PRE_READY_FRAMES /\ host'.pending \in Nat
        <4>1. MAXIMUM_PRE_READY_FRAMES \in Nat /\ Len(host.buffer) < MAXIMUM_PRE_READY_FRAMES
          BY DEF IInv, HostAgrees, AdapterBounds
        <4>2. Len(host'.buffer) = Len(host.buffer) - 1
          BY <2>2, <2>8
        <4>3. host'.pending \in Nat
          BY <2>7 DEF Hosts
        <4> DEFINE n == Len(host.buffer)
        <4>4. n \in Nat /\ n < MAXIMUM_PRE_READY_FRAMES
          BY <4>1, <1>6
        <4> HIDE DEF n
        <4>5. n - 1 < MAXIMUM_PRE_READY_FRAMES
          BY <4>1, <4>4
        <4> QED
          BY <4>2, <4>3, <4>5 DEF n
      <3> QED
        BY <3>1, <1>4, <1>6, <2>7, <2>8 DEF IInv, HostAgrees, InPrelude
    <2> QED
      BY <2>6, <2>7, <2>8, <2>9, <2>10, HandlerKeeps DEF IInv, Shapes
  <1> QED
    BY <1>8, <1>9

(* activateYjs and drainBufferedFramesAfterReady: the session opens and    *)
(* takes all that was buffered, or the attempt ends at the frame that it   *)
(* refuses.                                                                *)
LEMMA ReadyKeeps ==
    ASSUME AdapterBounds, IInv, queue # <<>>, queue' = Tail(queue),
           UNCHANGED <<foreground, attempts, sent, ready>>,
           Head(queue).does = "resolve", Head(queue).action = "ready",
           Concerns(Head(queue)), NEW taken \in 0 .. Len(host.buffer),
           Ready([host EXCEPT !.pending = NoEvent], taken)
    PROVE  IInv'
  <1> DEFINE a == host.attempt
             h == [host EXCEPT !.pending = NoEvent]
             frames == SubSeq(host.buffer, 1, taken)
  <1>1. Head(queue) = queue[1] /\ queue[1] \in Tasks
    BY TailOfQueue DEF IInv
  <1>2. a \in Attempts /\ host.pending # NoEvent
    BY <1>1, TaskFields DEF Concerns, NoEvent
  <1>3. ~IsReceived(1, a) /\ ~IsOpened(1, a)
    BY <1>1 DEF IsReceived, IsOpened
  <1>4. host \in Hosts /\ host.networkSocketOpened /\ ~host.socketOpened
    BY <1>2, HostShape DEF IInv, HostAgrees
  <1>5. /\ h \in Hosts /\ h.attempt = a /\ h.buffer = host.buffer /\ h.pending = NoEvent
        /\ h.events = host.events /\ h.networkSocketOpened /\ ~h.socketOpened
    BY <1>4 DEF Hosts, NoEvent
  <1>6. /\ Len(heard[a]) \in Nat /\ Len(sent[a]) \in Nat /\ a # NoAttempt
        /\ host.buffer \in Seq(Frames) /\ Len(host.buffer) \in Nat
    BY <1>2, Lengths
  <1>7. /\ Len(heard[a]) + Len(host.buffer) <= Len(sent[a])
        /\ \A k \in 1 .. Len(host.buffer) : host.buffer[k] = sent[a][Len(heard[a]) + k]
    BY <1>6 DEF IInv, FramesAreKept
  <1>8. a \in ready
    <2>1. 1 \in 1 .. Len(queue)
      BY TailOfQueue DEF IInv
    <2> QED
      BY <2>1, <1>1 DEF IInv, QueueIsTrue, TaskIsTrue, Concerns
  <1>9. /\ frames \in Seq(Frames) /\ Len(frames) = taken
        /\ \A k \in 1 .. taken : frames[k] = host.buffer[k]
    <2> DEFINE b == host.buffer
    <2>1. b \in Seq(Frames) /\ taken \in 0 .. Len(b)
      BY <1>6
    <2> HIDE DEF b
    <2>2. /\ SubSeq(b, 1, taken) \in Seq(Frames) /\ Len(SubSeq(b, 1, taken)) = taken
          /\ \A k \in 1 .. taken : SubSeq(b, 1, taken)[k] = b[k]
      BY <2>1, PrefixElements
    <2> QED
      BY <2>2 DEF b
  <1>10. ASSUME Hears(frames, "yjs")
         PROVE  /\ heard' \in [Attempts -> Seq(Given)]
                /\ \A b \in Attempts : b # a => heard'[b] = heard[b]
                /\ Len(heard'[a]) = Len(heard[a]) + taken
                /\ FramesInOrder'
    <2>1. \A k \in 1 .. Len(frames) : frames[k] = sent[a][Len(heard[a]) + k]
      <3>1. \A k \in 1 .. taken : k \in 1 .. Len(host.buffer)
        BY <1>6
      <3> QED
        BY <3>1, <1>7, <1>9
    <2>2. Len(heard[a]) + Len(frames) <= Len(sent[a])
      <3> DEFINE m == Len(heard[a])
                 n == Len(host.buffer)
                 all == Len(sent[a])
      <3>1. m \in Nat /\ n \in Nat /\ all \in Nat /\ taken \in 0 .. n /\ m + n <= all
        BY <1>6, <1>7
      <3> HIDE DEF m, n, all
      <3>2. m + taken <= all
        BY <3>1
      <3> QED
        BY <3>2, <1>9 DEF m, all
    <2> HIDE DEF frames
    <2> QED
      BY <2>1, <2>2, <1>2, <1>9, <1>10, HearsInOrder
  <1>11. CASE Refuse
    BY <1>6, <1>11, CloseKeeps DEF Refuse
  <1>12. CASE /\ taken = Len(host.buffer) /\ host' = Opened(h) /\ session' = "Open"
              /\ Hears(frames, "yjs") /\ UNCHANGED <<socket, asked>>
    <2>1. /\ host' \in Hosts /\ host'.attempt = a /\ host'.buffer = <<>>
          /\ Len(host'.buffer) = 0 /\ Len(host'.buffer) \in Nat
          /\ host'.socketOpened /\ host'.networkSocketOpened /\ ~host'.timer
          /\ host'.pending = NoEvent /\ host'.events = host.events
      <3>1. host' = [h EXCEPT !.socketOpened = TRUE, !.timer = FALSE, !.buffer = <<>>]
        BY <1>12 DEF Opened
      <3>2. <<>> \in Seq(Frames) /\ Len(<<>>) = 0
        OBVIOUS
      <3> HIDE DEF h
      <3> QED
        BY <3>1, <3>2, <1>5 DEF Hosts, NoEvent
    <2>2. FramesAreKept'
      <3>1. /\ Len(heard'[a]) \in Nat
            /\ Len(heard'[a]) + Len(host'.buffer) = Len(heard[a]) + Len(host.buffer)
        <4> DEFINE m == Len(heard[a])
                   n == Len(host.buffer)
        <4>1. Len(heard'[a]) = m + n /\ m \in Nat /\ n \in Nat
          BY <1>6, <1>10, <1>12
        <4> HIDE DEF m, n
        <4>2. (m + n) + 0 = m + n /\ m + n \in Nat
          BY <4>1
        <4> QED
          BY <4>1, <4>2, <2>1 DEF m, n
      <3>2. \A k \in 1 .. Len(host'.buffer) : host'.buffer[k] = sent[a][Len(heard'[a]) + k]
        BY <2>1
      <3> QED
        BY <3>1, <3>2, <2>1, <1>2, <1>3, FramesDrop
    <2>3. HostAgrees'
      <3>1. 0 < MAXIMUM_PRE_READY_FRAMES /\ host.events \in Nat
        BY <1>4 DEF AdapterBounds, Hosts
      <3> QED
        BY <3>1, <2>1, <1>6, <1>8, <1>12 DEF IInv, HostAgrees, InPrelude, NoEvent
    <2> HIDE DEF frames, h
    <2> QED
      BY <2>1, <2>2, <2>3, <1>3, <1>10, <1>12, HandlerKeeps DEF IInv, Shapes
  <1>13. CASE /\ host' = Idle /\ session' = "Incompatible"
              /\ Hears(frames, "yjs") /\ asked' = asked
              /\ socket' = [socket EXCEPT ![a] = "ended"]
    <2>1. foreground' \in BOOLEAN
      BY DEF IInv, Shapes
    <2> HIDE DEF frames
    <2> QED
      BY <2>1, <1>2, <1>10, <1>13, HostIdles
  <1>14. \/ Refuse
         \/ /\ Hears(frames, "yjs")
            /\ IF taken = Len(host.buffer)
                 THEN host' = Opened(h) /\ session' = "Open" /\ UNCHANGED <<socket, asked>>
                 ELSE /\ host' = Idle /\ session' = "Incompatible" /\ asked' = asked
                      /\ socket' = [socket EXCEPT ![a] = "ended"]
    BY <1>5 DEF Ready
  <1> HIDE DEF frames, h, a
  <1> QED
    BY <1>11, <1>12, <1>13, <1>14

(* resolveProtocolAdapter: only an answer to the pending question of the   *)
(* current attempt counts.                                                 *)
LEMMA ResolveKeeps ==
    ASSUME AdapterBounds, IInv, queue # <<>>, queue' = Tail(queue),
           UNCHANGED <<foreground, attempts, sent, ready>>,
           NEW sends \in BOOLEAN, NEW taken \in 0 .. Len(host.buffer),
           Head(queue).does = "resolve", Resolve(Head(queue), sends, taken)
    PROVE  IInv'
  <1> DEFINE h == [host EXCEPT !.pending = NoEvent]
  <1>1. Head(queue) = queue[1] /\ queue[1] \in Tasks
    BY TailOfQueue DEF IInv
  <1>2. CASE ~Concerns(Head(queue))
    BY <1>1, <1>2, TaskIsDropped DEF Resolve, IsReceived, IsOpened
  <1>3. CASE Concerns(Head(queue))
    <2>1. host.attempt # NoAttempt
      BY <1>1, <1>3, TaskFields DEF Concerns, Attempts, NoAttempt
    <2>2. CASE Close("Disconnected") \/ Close("Incompatible")
      BY <2>1, <2>2, CloseKeeps
    <2>3. CASE Continue(h)
      BY <2>3, <1>3, ContinueKeeps
    <2>4. CASE Head(queue).action = "ready" /\ Ready(h, taken)
      BY <2>4, <1>3, ReadyKeeps
    <2> HIDE DEF h
    <2> QED
      BY <2>2, <2>3, <2>4, <1>3 DEF Resolve, Refuse, h
  <1> QED
    BY <1>2, <1>3

(* The worker takes its next task.                                         *)
LEMMA RunTaskKeeps ==
    ASSUME AdapterBounds, IInv, RunTask
    PROVE  IInv'
  <1>1. /\ queue # <<>> /\ queue' = Tail(queue)
        /\ UNCHANGED <<foreground, attempts, sent, ready>>
    BY DEF RunTask
  <1>2. CASE Head(queue).does = "opened" /\ SocketDidOpen(Head(queue))
    BY <1>1, <1>2, OpeningKeeps
  <1>3. CASE /\ Head(queue).does = "received"
             /\ \E accepted \in BOOLEAN : SocketDidReceive(Head(queue), accepted)
    BY <1>1, <1>3, ArrivalKeeps
  <1>4. CASE Head(queue).does = "closed" /\ SocketDidClose(Head(queue))
    <2>1. Head(queue) = queue[1] /\ queue[1] \in Tasks
      BY <1>1, TailOfQueue DEF IInv
    <2>2. CASE host.attempt = Head(queue).attempt
      <3>1. host.attempt # NoAttempt
        BY <2>1, <2>2, TaskFields DEF Attempts, NoAttempt
      <3>2. Close("Incompatible") \/ Close("Disconnected")
        BY <1>4, <2>2 DEF SocketDidClose
      <3> QED
        BY <3>1, <3>2, <1>1, CloseKeeps
    <2>3. CASE host.attempt # Head(queue).attempt
      BY <1>1, <1>4, <2>1, <2>3, TaskIsDropped DEF SocketDidClose, IsReceived, IsOpened
    <2> QED
      BY <2>2, <2>3
  <1>5. CASE /\ Head(queue).does = "resolve"
             /\ \E sends \in BOOLEAN, taken \in 0 .. Len(host.buffer) :
                   Resolve(Head(queue), sends, taken)
    BY <1>1, <1>5, ResolveKeeps
  <1> QED
    BY <1>2, <1>3, <1>4, <1>5 DEF RunTask

-----------------------------------------------------------------------------
(* What happens around the worker.                                         *)

(* openSocket: the new attempt has no task, frame or answer yet.           *)
LEMMA OpenSocketKeeps ==
    ASSUME AdapterBounds, IInv, OpenSocket
    PROVE  IInv'
  <1> DEFINE a == attempts + 1
  <1>1. /\ attempts \in Nat /\ a \in Attempts /\ a # NoAttempt /\ a \in Nat
        /\ attempts <= a /\ attempts < a
    BY HostShape DEF OpenSocket, Attempts, NoAttempt, AdapterBounds
  <1>2. /\ attempts' = a /\ host' = [Idle EXCEPT !.attempt = a]
        /\ session' = "Connecting"
        /\ socket' = [socket EXCEPT ![a] = "connecting"]
        /\ UNCHANGED <<foreground, queue, asked, sent, heard, ready>>
    BY DEF OpenSocket
  <1> HIDE DEF a
  <1>3. /\ host' \in Hosts /\ host'.attempt = a /\ ~host'.networkSocketOpened
        /\ ~host'.socketOpened /\ host'.pending = NoEvent /\ host'.events = 0
        /\ host'.buffer = <<>> /\ Len(host'.buffer) = 0 /\ ~host'.timer
    <2>1. host' = [attempt |-> a, networkSocketOpened |-> FALSE, socketOpened |-> FALSE,
                   pending |-> 0, events |-> 0, buffer |-> <<>>, timer |-> FALSE]
      BY <1>2 DEF Idle, NoEvent
    <2>2. <<>> \in Seq(Frames) /\ Len(<<>>) = 0
      OBVIOUS
    <2> QED
      BY <2>1, <2>2, <1>1 DEF Hosts, NoEvent
  <1>4. Shapes'
    <2>1. socket' \in [Attempts -> {"none", "connecting", "open", "ended"}]
      BY <1>1, <1>2 DEF IInv, Shapes
    <2>2. a \in 0 .. MaxAttempts /\ 1 .. attempts \subseteq 1 .. a
      BY <1>1 DEF Attempts
    <2> QED
      BY <2>1, <2>2, <1>2, <1>3 DEF IInv, Shapes
  <1>5. UnusedIsQuiet'
    <2>1. \A b \in Attempts : b > a => b # a /\ b > attempts
      BY <1>1 DEF Attempts
    <2> QED
      BY <2>1, <1>2 DEF IInv, UnusedIsQuiet, Shapes
  <1>6. HostAgrees'
    BY <1>1, <1>2, <1>3 DEF HostAgrees, InPrelude, AdapterBounds, NoEvent
  <1>7. QueueIsTrue' /\ FramesAscend'
    BY <1>1, <1>2, QueueKeeps
  <1>8. \A i \in 1 .. Len(queue) : queue[i].attempt # a
    <2>1. \A i \in 1 .. Len(queue) : queue[i].attempt <= attempts /\ queue[i].attempt \in Nat
      BY TaskFields DEF IInv, Shapes, QueueIsTrue, TaskIsTrue, Attempts
    <2> QED
      BY <2>1, <1>1
  <1>9. OpensFirst'
    <2>1. socket'[a] = "connecting"
      BY <1>1, <1>2 DEF IInv, Shapes
    <2> QED
      BY <2>1, <1>2, <1>3, <1>8 DEF OpensFirst, IsReceived
  <1>10. FramesAreKept'
    <2>1. heard[a] = <<>> /\ sent[a] = <<>> /\ Len(<<>>) = 0
      BY <1>1 DEF IInv, UnusedIsQuiet
    <2>2. heard'[a] = <<>> /\ sent'[a] = <<>>
      BY <2>1, <1>2
    <2>3. /\ Len(heard'[host'.attempt]) = 0 /\ Len(sent'[host'.attempt]) = 0
          /\ Len(host'.buffer) = 0
      BY <2>1, <2>2, <1>3
    <2>4. \A i \in 1 .. Len(queue') : queue'[i].attempt # host'.attempt
      BY <1>2, <1>3, <1>8
    <2> QED
      BY <2>3, <2>4 DEF FramesAreKept, IsReceived
  <1>11. FramesInOrder'
    BY <1>2 DEF IInv, FramesInOrder
  <1> QED
    BY <1>4, <1>5, <1>6, <1>7, <1>9, <1>10, <1>11 DEF IInv

(* The host leaves the foreground: its attempt is given up.                *)
LEMMA BackgroundKeeps ==
    ASSUME AdapterBounds, IInv, Background
    PROVE  IInv'
  <1>1. /\ foreground' = FALSE /\ host' = Idle
        /\ session' = IF session = "Incompatible" THEN session ELSE "Disconnected"
        /\ socket' = IF host.attempt = NoAttempt THEN socket
                     ELSE [socket EXCEPT ![host.attempt] = "ended"]
        /\ UNCHANGED <<attempts, queue, asked, sent, heard, ready>>
    BY DEF Background
  <1>2. session' \in {"Disconnected", "Incompatible"}
    BY <1>1
  <1>3. /\ socket' = socket \/ socket' = [socket EXCEPT ![host.attempt] = "ended"]
        /\ host.attempt \in Attempts \/ socket' = socket
    BY <1>1, HostShape
  <1>4. FramesInOrder' /\ heard' \in [Attempts -> Seq(Given)]
    BY <1>1 DEF IInv, FramesInOrder, Shapes
  <1> QED
    BY <1>1, <1>2, <1>3, <1>4, HostIdles

(* An event of the network or an answer is added to the tasks: the host,   *)
(* the session and what was given stay.                                    *)
LEMMA EventKeeps ==
    ASSUME AdapterBounds, IInv, NEW task \in Tasks, queue' = Append(queue, task),
           UNCHANGED <<host, session, foreground, attempts, heard>>,
           TaskIsTrue(task)', ready \subseteq ready', ready' \subseteq Attempts,
           asked' \subseteq asked,
           socket' \in [Attempts -> {"none", "connecting", "open", "ended"}],
           sent' \in [Attempts -> Seq(Frames)],
           \A a \in Attempts :
              /\ Len(sent[a]) <= Len(sent'[a])
              /\ \A k \in 1 .. Len(sent[a]) : sent'[a][k] = sent[a][k]
              /\ a > attempts => socket'[a] = "none" /\ sent'[a] = <<>>
              /\ socket'[a] = "open" =>
                    socket[a] = "open" \/ (task.does = "opened" /\ task.attempt = a),
           task.does = "received" =>
              /\ socket[task.attempt] = "open"
              /\ task.frame.number > Len(sent[task.attempt]),
           \A a \in Attempts : \A m \in 1 .. Len(sent'[a]) : m > Len(sent[a]) =>
              task.does = "received" /\ task.attempt = a /\ task.frame.number = m
    PROVE  IInv'
  <1>1. /\ queue' \in Seq(Tasks)
        /\ Len(queue) \in Nat /\ Len(queue') = Len(queue) + 1
        /\ queue'[Len(queue')] = task
        /\ \A i \in 1 .. Len(queue) : queue'[i] = queue[i] /\ queue[i] \in Tasks
    BY AppendToQueue DEF IInv
  <1>2. Shapes'
    BY <1>1 DEF IInv, Shapes
  <1>3. UnusedIsQuiet'
    BY DEF IInv, UnusedIsQuiet
  <1>4. HostAgrees'
    BY DEF IInv, HostAgrees, InPrelude
  <1>5. QueueIsTrue' /\ FramesAscend'
    BY QueueGrows
  <1>6. \A i \in 1 .. Len(queue') : i \in 1 .. Len(queue) \/ i = Len(queue')
    BY <1>1
  <1>7. OpensFirst'
    <2>1. ASSUME NEW i \in 1 .. Len(queue'),
                 queue'[i].does = "received", queue'[i].attempt = host.attempt
          PROVE  \/ host.networkSocketOpened
                 \/ \E j \in 1 .. i - 1 :
                       queue'[j].does = "opened" /\ queue'[j].attempt = host.attempt
      <3>1. CASE i \in 1 .. Len(queue)
        <4>1. \/ host.networkSocketOpened
              \/ \E j \in 1 .. i - 1 : IsOpened(j, host.attempt)
          BY <3>1, <2>1, <1>1 DEF IInv, OpensFirst, IsReceived
        <4>2. \A j \in 1 .. i - 1 : j \in 1 .. Len(queue)
          BY <3>1, <1>1
        <4> QED
          BY <4>1, <4>2, <1>1 DEF IsOpened
      <3>2. CASE i = Len(queue')
        <4>1. /\ task.does = "received" /\ task.attempt = host.attempt
              /\ socket[host.attempt] = "open" /\ host.attempt # NoAttempt
          BY <3>2, <2>1, <1>1, TaskFields DEF Attempts, NoAttempt
        <4>2. \/ host.networkSocketOpened
              \/ \E j \in 1 .. Len(queue) : IsOpened(j, host.attempt)
          BY <4>1 DEF IInv, OpensFirst
        <4>3. i - 1 = Len(queue)
          BY <3>2, <1>1
        <4> QED
          BY <4>2, <4>3, <1>1 DEF IsOpened
      <3> QED
        BY <3>1, <3>2, <1>6
    <2>2. ASSUME host.attempt # NoAttempt, socket'[host.attempt] = "open"
          PROVE  \/ host.networkSocketOpened
                 \/ \E j \in 1 .. Len(queue') :
                       queue'[j].does = "opened" /\ queue'[j].attempt = host.attempt
      <3>1. host.attempt \in Attempts
        BY <2>2, HostShape
      <3>2. CASE socket[host.attempt] = "open"
        <4>1. \/ host.networkSocketOpened
              \/ \E j \in 1 .. Len(queue) : IsOpened(j, host.attempt)
          BY <2>2, <3>2 DEF IInv, OpensFirst
        <4>2. \A j \in 1 .. Len(queue) : j \in 1 .. Len(queue')
          BY <1>1
        <4> QED
          BY <4>1, <4>2, <1>1 DEF IsOpened
      <3>3. CASE task.does = "opened" /\ task.attempt = host.attempt
        <4>1. Len(queue') \in 1 .. Len(queue')
          BY <1>1
        <4> QED
          BY <3>3, <4>1, <1>1
      <3> QED
        BY <3>1, <3>2, <3>3, <2>2
    <2>3. OpensFirst' <=>
             /\ \A i \in 1 .. Len(queue') :
                   queue'[i].does = "received" /\ queue'[i].attempt = host.attempt =>
                      \/ host.networkSocketOpened
                      \/ \E j \in 1 .. i - 1 :
                            queue'[j].does = "opened" /\ queue'[j].attempt = host.attempt
             /\ host.attempt # NoAttempt /\ socket'[host.attempt] = "open" =>
                   \/ host.networkSocketOpened
                   \/ \E j \in 1 .. Len(queue') :
                         queue'[j].does = "opened" /\ queue'[j].attempt = host.attempt
      BY DEF OpensFirst, IsReceived, IsOpened
    <2> QED
      BY <2>1, <2>2, <2>3
  <1>8. FramesAreKept'
    <2> SUFFICES ASSUME NEW a \in Attempts, a = host.attempt
                 PROVE  FramesAreKept'
      BY HostShape DEF FramesAreKept
    <2> DEFINE given == Len(heard[a])
               taken == Len(heard[a]) + Len(host.buffer)
    <2>1. /\ given \in Nat /\ Len(host.buffer) \in Nat /\ Len(sent[a]) \in Nat
          /\ Len(sent'[a]) \in Nat /\ Len(sent[a]) <= Len(sent'[a])
      BY Lengths
    <2>2. taken \in Nat
      BY <2>1, NaturalSum, Zenon
    <2>3. /\ taken <= Len(sent[a])
          /\ \A k \in 1 .. Len(host.buffer) : host.buffer[k] = sent[a][given + k]
          /\ \A i \in 1 .. Len(queue) : IsReceived(i, a) => queue[i].frame.number > taken
          /\ \A m \in 1 .. Len(sent[a]) : m > taken =>
                \E i \in 1 .. Len(queue) : IsReceived(i, a) /\ queue[i].frame.number = m
          /\ ~host.socketOpened => \A k \in 1 .. given : heard[a][k].by = "adapter"
      BY Lengths DEF IInv, FramesAreKept
    <2>4. ASSUME NEW k \in 1 .. Len(host.buffer)
          PROVE  host.buffer[k] = sent'[a][given + k]
      <3>1. given + k \in 1 .. Len(sent[a])
        <4> DEFINE n == Len(host.buffer)
                   g == given
                   all == Len(sent[a])
        <4>1. g \in Nat /\ n \in Nat /\ all \in Nat /\ g + n <= all /\ k \in 1 .. n
          BY <2>1, <2>3
        <4> HIDE DEF g, n, all
        <4>2. g + k \in 1 .. all
          BY <4>1
        <4> QED
          BY <4>2 DEF g, all
      <3>2. sent'[a][given + k] = sent[a][given + k]
        <4> DEFINE i == given + k
        <4>1. i \in 1 .. Len(sent[a])
          BY <3>1
        <4> HIDE DEF i
        <4>2. sent'[a][i] = sent[a][i]
          BY <4>1
        <4> QED
          BY <4>2 DEF i
      <3>3. host.buffer[k] = sent[a][given + k]
        BY <2>3
      <3> QED
        BY <3>2, <3>3, Zenon
    <2> HIDE DEF taken, given
    <2>5. ASSUME NEW i \in 1 .. Len(queue'),
                 queue'[i].does = "received", queue'[i].attempt = a
          PROVE  queue'[i].frame.number > taken
      <3>1. CASE i \in 1 .. Len(queue)
        BY <3>1, <2>3, <2>5, <1>1 DEF IsReceived
      <3>2. CASE i = Len(queue')
        <4>1. task.does = "received" /\ task.attempt = a /\ queue'[i] = task
          BY <3>2, <2>5, <1>1
        <4>2. task.frame.number > Len(sent[a]) /\ task.frame.number \in Nat
          BY <4>1, TaskFields DEF Frames
        <4> QED
          BY <4>1, <4>2, <2>1, <2>2, <2>3
      <3> QED
        BY <3>1, <3>2, <1>6
    <2>6. ASSUME NEW m \in 1 .. Len(sent'[a]), m > taken
          PROVE  \E i \in 1 .. Len(queue') :
                    /\ queue'[i].does = "received" /\ queue'[i].attempt = a
                    /\ queue'[i].frame.number = m
      <3>1. CASE m > Len(sent[a])
        <4>1. Len(queue') \in 1 .. Len(queue')
          BY <1>1
        <4> QED
          BY <3>1, <4>1, <1>1
      <3>2. CASE ~(m > Len(sent[a]))
        <4>1. m \in 1 .. Len(sent[a])
          BY <3>2, <2>1
        <4>2. PICK i \in 1 .. Len(queue) : IsReceived(i, a) /\ queue[i].frame.number = m
          BY <4>1, <2>3, <2>6
        <4>3. i \in 1 .. Len(queue') /\ queue'[i] = queue[i]
          BY <1>1
        <4> QED
          BY <4>2, <4>3 DEF IsReceived
      <3> QED
        BY <3>1, <3>2
    <2>7. taken <= Len(sent'[a])
      BY <2>1, <2>2, <2>3
    <2>8. FramesAreKept' <=>
             (a # NoAttempt =>
                /\ taken <= Len(sent'[a])
                /\ \A k \in 1 .. Len(host.buffer) : host.buffer[k] = sent'[a][given + k]
                /\ \A i \in 1 .. Len(queue') :
                      queue'[i].does = "received" /\ queue'[i].attempt = a =>
                         queue'[i].frame.number > taken
                /\ \A m \in 1 .. Len(sent'[a]) : m > taken =>
                      \E i \in 1 .. Len(queue') :
                         /\ queue'[i].does = "received" /\ queue'[i].attempt = a
                         /\ queue'[i].frame.number = m
                /\ ~host.socketOpened => \A k \in 1 .. given : heard[a][k].by = "adapter")
      BY DEF FramesAreKept, IsReceived, taken, given
    <2> QED
      BY <2>3, <2>4, <2>5, <2>6, <2>7, <2>8
  <1>9. FramesInOrder'
    <2>0. SUFFICES ASSUME NEW a \in Attempts
                   PROVE  /\ Len(heard'[a]) <= Len(sent'[a])
                          /\ \A i \in 1 .. Len(heard'[a]) :
                                /\ heard'[a][i].frame = sent'[a][i]
                                /\ \A j \in 1 .. i :
                                      heard'[a][i].by = "adapter" => heard'[a][j].by = "adapter"
      BY Zenon DEF FramesInOrder
    <2>1. /\ Len(heard[a]) \in Nat /\ Len(sent[a]) \in Nat /\ Len(sent'[a]) \in Nat
          /\ Len(sent[a]) <= Len(sent'[a])
          /\ \A k \in 1 .. Len(sent[a]) : sent'[a][k] = sent[a][k]
      BY Lengths
    <2>2. /\ Len(heard[a]) <= Len(sent[a])
          /\ \A i \in 1 .. Len(heard[a]) :
                /\ heard[a][i].frame = sent[a][i]
                /\ \A j \in 1 .. i :
                      heard[a][i].by = "adapter" => heard[a][j].by = "adapter"
      BY DEF IInv, FramesInOrder
    <2>3. \A i \in 1 .. Len(heard[a]) : i \in 1 .. Len(sent[a])
      BY <2>1, <2>2
    <2> QED
      BY <2>1, <2>2, <2>3
  <1> QED
    BY <1>2, <1>3, <1>4, <1>5, <1>7, <1>8, <1>9 DEF IInv

(* The network opens the socket of an attempt that was made.               *)
LEMMA NetworkOpensKeeps ==
    ASSUME AdapterBounds, IInv, NEW a \in Attempts, NetworkOpens(a)
    PROVE  IInv'
  <1> DEFINE task == [does |-> "opened", attempt |-> a]
  <1>1. /\ socket[a] = "connecting" /\ socket' = [socket EXCEPT ![a] = "open"]
        /\ queue' = Append(queue, task)
        /\ UNCHANGED <<host, session, foreground, attempts, asked, sent, heard, ready>>
    BY DEF NetworkOpens, Enqueue
  <1>2. task \in Tasks
    BY DEF Tasks, OpenedTasks
  <1>3. a <= attempts
    BY <1>1, HostShape DEF IInv, UnusedIsQuiet, Attempts
  <1>4. TaskIsTrue(task)'
    BY <1>1, <1>3 DEF TaskIsTrue
  <1>5. /\ socket' \in [Attempts -> {"none", "connecting", "open", "ended"}]
        /\ sent' \in [Attempts -> Seq(Frames)] /\ ready' \subseteq Attempts
    BY <1>1 DEF IInv, Shapes
  <1>6. ASSUME NEW b \in Attempts
        PROVE  /\ Len(sent[b]) <= Len(sent'[b])
               /\ \A k \in 1 .. Len(sent[b]) : sent'[b][k] = sent[b][k]
               /\ b > attempts => socket'[b] = "none" /\ sent'[b] = <<>>
               /\ socket'[b] = "open" =>
                     socket[b] = "open" \/ (task.does = "opened" /\ task.attempt = b)
               /\ \A m \in 1 .. Len(sent'[b]) : ~(m > Len(sent[b]))
    <2>1. Len(sent[b]) \in Nat /\ sent' = sent
      BY <1>1, Lengths
    <2>2. b # a => socket'[b] = socket[b]
      BY <1>1 DEF IInv, Shapes
    <2>3. b > attempts => b # a
      BY <1>3, HostShape DEF Attempts
    <2> QED
      BY <2>1, <2>2, <2>3 DEF IInv, UnusedIsQuiet
  <1>7. task.does # "received"
    OBVIOUS
  <1> HIDE DEF task
  <1> QED
    BY <1>1, <1>2, <1>4, <1>5, <1>6, <1>7, EventKeeps

(* The peer sends the next frame of an attempt.                            *)
LEMMA PeerSendsKeeps ==
    ASSUME AdapterBounds, IInv, NEW a \in Attempts, NEW type \in {"text", "binary"},
           PeerSends(a, type)
    PROVE  IInv'
  <1>0. PICK frame : frame = [number |-> Len(sent[a]) + 1, type |-> type]
    OBVIOUS
  <1> DEFINE task == [does |-> "received", attempt |-> a, frame |-> frame]
  <1>1. /\ socket[a] = "open" /\ sent' = [sent EXCEPT ![a] = Append(sent[a], frame)]
        /\ queue' = Append(queue, task)
        /\ UNCHANGED <<host, session, foreground, attempts, socket, asked, heard, ready>>
    BY <1>0 DEF PeerSends, Enqueue, IInv, Shapes
  <1>2. sent[a] \in Seq(Frames) /\ Len(sent[a]) \in Nat /\ Len(sent[a]) + 1 \in Nat \ {0}
    BY Lengths
  <1>3. frame \in Frames /\ frame.number = Len(sent[a]) + 1
    BY <1>0, <1>2 DEF Frames
  <1>4. task \in Tasks
    BY <1>3 DEF Tasks, ReceivedTasks
  <1>5. /\ task.does = "received" /\ task.attempt = a /\ task.frame = frame
    OBVIOUS
  <1> HIDE DEF task
  <1>6. /\ Append(sent[a], frame) \in Seq(Frames)
        /\ Len(Append(sent[a], frame)) = Len(sent[a]) + 1
        /\ Append(sent[a], frame)[Len(sent[a]) + 1] = frame
        /\ \A k \in 1 .. Len(sent[a]) : Append(sent[a], frame)[k] = sent[a][k]
    BY <1>2, <1>3, AppendedElements
  <1>7. /\ sent' \in [Attempts -> Seq(Frames)] /\ sent'[a] = Append(sent[a], frame)
        /\ \A b \in Attempts : b # a => sent'[b] = sent[b]
    BY <1>1, <1>6 DEF IInv, Shapes
  <1>8. a <= attempts
    BY <1>1, HostShape DEF IInv, UnusedIsQuiet, Attempts
  <1>9. TaskIsTrue(task)'
    <2>1. /\ frame.number <= Len(sent'[a]) /\ frame = sent'[a][frame.number]
          /\ attempts' = attempts
      BY <1>1, <1>2, <1>3, <1>6, <1>7
    <2> QED
      BY <2>1, <1>5, <1>8 DEF TaskIsTrue
  <1>10. /\ socket' \in [Attempts -> {"none", "connecting", "open", "ended"}]
         /\ ready' \subseteq Attempts /\ asked' \subseteq asked /\ ready \subseteq ready'
    BY <1>1 DEF IInv, Shapes
  <1>11. ASSUME NEW b \in Attempts
         PROVE  /\ Len(sent[b]) <= Len(sent'[b])
                /\ \A k \in 1 .. Len(sent[b]) : sent'[b][k] = sent[b][k]
                /\ b > attempts => socket'[b] = "none" /\ sent'[b] = <<>>
                /\ socket'[b] = "open" => socket[b] = "open"
                /\ \A m \in 1 .. Len(sent'[b]) : m > Len(sent[b]) =>
                      b = a /\ m = Len(sent[a]) + 1
    <2>1. Len(sent[b]) \in Nat /\ socket' = socket
      BY <1>1, Lengths
    <2>2. b > attempts => b # a
      BY <1>8, HostShape DEF Attempts
    <2>3. CASE b = a
      BY <2>1, <2>2, <2>3, <1>2, <1>6, <1>7
    <2>4. CASE b # a
      BY <2>1, <2>4, <1>7 DEF IInv, UnusedIsQuiet
    <2> QED
      BY <2>3, <2>4
  <1>12. task.frame.number > Len(sent[task.attempt]) /\ socket[task.attempt] = "open"
    BY <1>1, <1>2, <1>3, <1>5
  <1>13. \A b \in Attempts : \A m \in 1 .. Len(sent'[b]) : m > Len(sent[b]) =>
            task.does = "received" /\ task.attempt = b /\ task.frame.number = m
    BY <1>3, <1>5, <1>11
  <1> QED
    BY <1>1, <1>4, <1>7, <1>9, <1>10, <1>11, <1>12, <1>13, EventKeeps

(* A connection ends, by the peer or by itself.                            *)
LEMMA ConnectionEndsKeeps ==
    ASSUME AdapterBounds, IInv, NEW a \in Attempts, NEW terminal \in BOOLEAN,
           ConnectionEnds(a, terminal)
    PROVE  IInv'
  <1> DEFINE task == [does |-> "closed", attempt |-> a, terminal |-> terminal]
  <1>1. /\ socket[a] # "none" /\ socket' = [socket EXCEPT ![a] = "ended"]
        /\ queue' = Append(queue, task)
        /\ UNCHANGED <<host, session, foreground, attempts, asked, sent, heard, ready>>
    BY DEF ConnectionEnds, Enqueue
  <1>2. task \in Tasks
    BY DEF Tasks, ClosedTasks
  <1>3. a <= attempts
    BY <1>1, HostShape DEF IInv, UnusedIsQuiet, Attempts
  <1>4. TaskIsTrue(task)'
    BY <1>1, <1>3 DEF TaskIsTrue
  <1>5. /\ socket' \in [Attempts -> {"none", "connecting", "open", "ended"}]
        /\ sent' \in [Attempts -> Seq(Frames)] /\ ready' \subseteq Attempts
    BY <1>1 DEF IInv, Shapes
  <1>6. ASSUME NEW b \in Attempts
        PROVE  /\ Len(sent[b]) <= Len(sent'[b])
               /\ \A k \in 1 .. Len(sent[b]) : sent'[b][k] = sent[b][k]
               /\ b > attempts => socket'[b] = "none" /\ sent'[b] = <<>>
               /\ socket'[b] = "open" => socket[b] = "open"
               /\ \A m \in 1 .. Len(sent'[b]) : ~(m > Len(sent[b]))
    <2>1. Len(sent[b]) \in Nat /\ sent' = sent
      BY <1>1, Lengths
    <2>2. (b # a => socket'[b] = socket[b]) /\ (b = a => socket'[b] = "ended")
      BY <1>1 DEF IInv, Shapes
    <2>3. b > attempts => b # a
      BY <1>3, HostShape DEF Attempts
    <2> QED
      BY <2>1, <2>2, <2>3 DEF IInv, UnusedIsQuiet
  <1>7. task.does # "received"
    OBVIOUS
  <1> HIDE DEF task
  <1> QED
    BY <1>1, <1>2, <1>4, <1>5, <1>6, <1>7, EventKeeps

(* The adapter answers a question, of whatever attempt.                    *)
LEMMA AdapterAnswersKeeps ==
    ASSUME AdapterBounds, IInv, NEW question \in asked,
           NEW action \in {"continue", "ready", "reject"},
           AdapterAnswers(question, action)
    PROVE  IInv'
  <1> DEFINE task == [does |-> "resolve", attempt |-> question.attempt,
                      event |-> question.event, action |-> action]
  <1>1. /\ asked' = asked \ {question}
        /\ ready' = IF action = "ready" THEN ready \union {question.attempt} ELSE ready
        /\ queue' = Append(queue, task)
        /\ UNCHANGED <<host, session, foreground, attempts, socket, sent, heard>>
    BY DEF AdapterAnswers, Enqueue
  <1>2. /\ question.attempt \in 1 .. attempts /\ question.event \in Nat \ {0}
        /\ question.attempt \in Attempts /\ question.attempt <= attempts
    BY HostShape DEF IInv, Shapes, Attempts, AdapterBounds
  <1>3. task \in Tasks
    BY <1>2 DEF Tasks, ResolveTasks
  <1>4. TaskIsTrue(task)'
    BY <1>1, <1>2 DEF TaskIsTrue
  <1>5. /\ socket' \in [Attempts -> {"none", "connecting", "open", "ended"}]
        /\ sent' \in [Attempts -> Seq(Frames)] /\ ready' \subseteq Attempts
        /\ ready \subseteq ready' /\ asked' \subseteq asked
    BY <1>1, <1>2 DEF IInv, Shapes
  <1>6. ASSUME NEW b \in Attempts
        PROVE  /\ Len(sent[b]) <= Len(sent'[b])
               /\ \A k \in 1 .. Len(sent[b]) : sent'[b][k] = sent[b][k]
               /\ b > attempts => socket'[b] = "none" /\ sent'[b] = <<>>
               /\ socket'[b] = "open" => socket[b] = "open"
               /\ \A m \in 1 .. Len(sent'[b]) : ~(m > Len(sent[b]))
    <2>1. Len(sent[b]) \in Nat /\ sent' = sent /\ socket' = socket
      BY <1>1, Lengths
    <2> QED
      BY <2>1 DEF IInv, UnusedIsQuiet
  <1>7. task.does # "received"
    OBVIOUS
  <1> HIDE DEF task
  <1> QED
    BY <1>1, <1>3, <1>4, <1>5, <1>6, <1>7, EventKeeps

-----------------------------------------------------------------------------
(* The theorem.                                                            *)

LEMMA InitIInv ==
    ASSUME AdapterBounds, Init
    PROVE  IInv
  <1>1. /\ host = [attempt |-> 0, networkSocketOpened |-> FALSE, socketOpened |-> FALSE,
                   pending |-> 0, events |-> 0, buffer |-> <<>>, timer |-> FALSE]
        /\ session = "Disconnected" /\ foreground = TRUE /\ attempts = 0
        /\ socket = [a \in Attempts |-> "none"] /\ queue = <<>> /\ asked = {}
        /\ sent = [a \in Attempts |-> <<>>] /\ heard = [a \in Attempts |-> <<>>]
        /\ ready = {}
    BY DEF Init, Idle, NoAttempt, NoEvent
  <1>2. Shapes
    <2>1. host \in Hosts
      BY <1>1 DEF Hosts
    <2>2. 0 \in 0 .. MaxAttempts
      BY DEF AdapterBounds
    <2> QED
      BY <1>1, <2>1, <2>2 DEF Shapes
  <1>3. UnusedIsQuiet
    BY <1>1 DEF UnusedIsQuiet
  <1>4. HostAgrees
    BY <1>1 DEF HostAgrees, InPrelude, Idle, NoAttempt, NoEvent, AdapterBounds
  <1>5. QueueIsTrue /\ FramesAscend /\ OpensFirst
    BY <1>1 DEF QueueIsTrue, FramesAscend, OpensFirst, NoAttempt
  <1>6. FramesAreKept
    BY <1>1 DEF FramesAreKept, NoAttempt
  <1>7. FramesInOrder
    BY <1>1 DEF FramesInOrder
  <1> QED
    BY <1>2, <1>3, <1>4, <1>5, <1>6, <1>7 DEF IInv

(* Nothing but the foreground changes.                                     *)
LEMMA RestKeeps ==
    ASSUME IInv, foreground' \in BOOLEAN,
           UNCHANGED <<host, session, attempts, socket, queue, asked, sent, heard, ready>>
    PROVE  IInv'
  <1>1. Shapes' /\ UnusedIsQuiet'
    BY DEF IInv, Shapes, UnusedIsQuiet
  <1>2. HostAgrees'
    BY DEF IInv, HostAgrees, InPrelude
  <1>3. QueueIsTrue' /\ FramesAscend'
    BY DEF IInv, QueueIsTrue, TaskIsTrue, FramesAscend, IsReceived
  <1>4. OpensFirst' /\ FramesAreKept'
    BY DEF IInv, OpensFirst, FramesAreKept, IsReceived, IsOpened
  <1>5. FramesInOrder'
    BY DEF IInv, FramesInOrder
  <1> QED
    BY <1>1, <1>2, <1>3, <1>4, <1>5 DEF IInv

LEMMA NextIInv ==
    ASSUME AdapterBounds, IInv, [Next]_vars
    PROVE  IInv'
  <1>1. CASE OpenSocket
    BY <1>1, OpenSocketKeeps
  <1>2. CASE RunTask
    BY <1>2, RunTaskKeeps
  <1>3. CASE TimeOut
    <2>1. host.attempt # NoAttempt
      BY <1>3, HostShape DEF TimeOut
    <2> QED
      BY <2>1, <1>3, CloseKeeps DEF TimeOut, Refuse
  <1>4. CASE Background
    BY <1>4, BackgroundKeeps
  <1>5. CASE Foreground
    BY <1>5, RestKeeps DEF Foreground
  <1>6. ASSUME NEW a \in Attempts, NetworkOpens(a)
        PROVE  IInv'
    BY <1>6, NetworkOpensKeeps
  <1>7. ASSUME NEW a \in Attempts, NEW type \in {"text", "binary"}, PeerSends(a, type)
        PROVE  IInv'
    BY <1>7, PeerSendsKeeps
  <1>8. ASSUME NEW a \in Attempts, NEW terminal \in BOOLEAN, ConnectionEnds(a, terminal)
        PROVE  IInv'
    BY <1>8, ConnectionEndsKeeps
  <1>9. ASSUME NEW question \in asked, NEW action \in {"continue", "ready", "reject"},
               AdapterAnswers(question, action)
        PROVE  IInv'
    BY <1>9, AdapterAnswersKeeps
  <1>10. CASE UNCHANGED vars
    BY <1>10, RestKeeps DEF vars, IInv, Shapes
  <1> QED
    BY <1>1, <1>2, <1>3, <1>4, <1>5, <1>6, <1>7, <1>8, <1>9, <1>10 DEF Next

(* Before the adapter of an attempt answered ready the session is given    *)
(* nothing of it; the frames of the peer come in order, each once; nothing *)
(* waits unasked, and the timer ends no connection but the one it is for,  *)
(* with any number of attempts and frames and any buffer.                  *)
THEOREM PreludeIsSound ==
    ASSUME AdapterBounds
    PROVE  Spec => []PreludeStands
  <1>1. Init => IInv
    BY InitIInv
  <1>2. IInv /\ [Next]_vars => IInv'
    BY NextIInv
  <1>3. IInv => PreludeStands
    <2> SUFFICES ASSUME IInv PROVE PreludeStands
      OBVIOUS
    <2>1. host \in Hosts /\ attempts \in Nat /\ host.attempt \in Nat
      BY HostShape
    <2>2. host.attempt \in 0 .. attempts /\ host.pending \in 0 .. host.events
      BY <2>1 DEF IInv, HostAgrees, Hosts
    <2>3. TypeOK
      BY <2>1, <2>2 DEF IInv, HostAgrees, Shapes, TypeOK, Hosts
    <2>4. OpenOnlyWhenReady /\ BufferedIsAsked /\ PreludeIsTimed
      BY DEF IInv, HostAgrees, OpenOnlyWhenReady, BufferedIsAsked, PreludeIsTimed
    <2> QED
      BY <2>3, <2>4 DEF IInv, PreludeStands
  <1> QED
    BY <1>1, <1>2, <1>3, PTL DEF Spec

=============================================================================
