------------------------- MODULE TransportHostProofs ------------------------
(***************************************************************************)
(* Theorems of the Android host with its session: whatever the peer, the   *)
(* network, the clock and the other threads do, the host and the session   *)
(* agree on the attempt, one socket is in use, messages that wait are      *)
(* woken, and edits are acknowledged in the order in which they were made. *)
(*                                                                         *)
(* A handler is a function on worlds, so the invariant is stated of a      *)
(* world: Steady(w, e) of a world after e edits, also where the session    *)
(* has given up an attempt of which the host still has the socket; and     *)
(* Agrees(w), which every handler restores.                                *)
(***************************************************************************)
EXTENDS TransportHost, TLAPS

-----------------------------------------------------------------------------
(* Types *)

Options(S) == {{}} \union {{x} : x \in S}

Functions(K, V) == UNION {[k -> V] : k \in SUBSET K}

Replies == [kind : {"ProtocolReply"}, id : {0}, bytes : {1}]
Updates == [kind : {"DocumentUpdate"}, id : Nat, bytes : {1}]
Charges == [messages : Int, bytes : Int]

Outboxes ==
    [ordered                 : Seq(Updates),
     protocol                : Seq(Replies),
     pending_bytes           : Int,
     pending_awareness_bytes : Int,
     pending_protocol_bytes  : Int,
     next_lease_id           : Options(Nat),
     active_lease            : SUBSET [id : Nat, kind : Kinds],
     reserved                : Charges,
     reserved_non_document   : Charges]

Sessions ==
    [transport      : Transports,
     outbox         : Outboxes,
     document_state : DocumentStates]

Hosts ==
    [generation     : SUBSET (1 .. MaxGeneration),
     timer          : SUBSET (0 .. MaxMillis),
     socketOpened   : BOOLEAN,
     hostState      : HostStates,
     nativeAttached : BOOLEAN,
     connect        : BOOLEAN,
     destroyed      : BOOLEAN]

Statuses == {"connecting", "open", "closing", "ended"}

Tasks ==
    [task : {"Wake", "Reconcile", "Destroy"}]
    \union [task : {"DriveIfCurrent", "Opened", "Failed"}, generation : Nat]
    \union [task : {"Received"}, generation : Nat,
            message : PeerMessages(Faults)]
    \union [task : {"Closed"}, generation : Nat, code : CloseCodes]
    \union [task : {"Configure"}, connect : BOOLEAN]

Worlds ==
    [session   : Sessions,
     host      : Hosts,
     sockets   : Functions(1 .. MaxGeneration, Statuses),
     queue     : Seq(Tasks),
     terminal  : BOOLEAN,
     delivered : Seq(Nat)]

-----------------------------------------------------------------------------
(* The invariant of a world *)

(* An attempt in flight is the newest.                                     *)
NewestAttempt(t) ==
    t.live_attempt = IF t.state \in AttemptStates THEN {t.last_issued} ELSE {}

(* The edits are numbered as they were made: those delivered, and then     *)
(* those queued.                                                           *)
Counted(d, q, e) ==
    /\ Len(d) + Len(q) = e
    /\ \A i \in 1 .. Len(d) : d[i] = i
    /\ \A i \in 1 .. Len(q) : q[i].id = Len(d) + i

InUse(w) == {g \in DOMAIN w.sockets : w.sockets[g] \in {"connecting", "open"}}

(* A task that says that a socket closed says so of one that ended.        *)
EndsAreTrue(w) ==
    \A i \in DOMAIN w.queue :
        w.queue[i].task = "Closed" =>
            /\ w.queue[i].generation \in DOMAIN w.sockets
            /\ w.sockets[w.queue[i].generation] = "ended"

(* The host would open a socket.                                           *)
Connects(h) ==
    ~h.destroyed /\ h.hostState = "FOREGROUND" /\ h.nativeAttached /\ h.connect

Steady(w, e) ==
    /\ w \in Worlds
    /\ NewestAttempt(w.session.transport)
    /\ w.session.outbox.active_lease = {}
    /\ Counted(w.delivered, w.session.outbox.ordered, e)
    /\ DOMAIN w.sockets \subseteq 1 .. w.session.transport.last_issued
    /\ EndsAreTrue(w)
    /\ InUse(w) \subseteq w.host.generation
    /\ w.host.generation # {} => Connects(w.host)

Agrees(w) ==
    /\ w.host.generation = w.session.transport.live_attempt
    /\ w.host.socketOpened <=> w.session.transport.state \in OpenStates

Woken(w, n) ==
    (/\ CanDrive(w)
     /\ w.session.transport.state \in OpenStates
     /\ Pending(w.session.outbox) > 0)
        => \/ n > 0
           \/ \E i \in DOMAIN w.queue :
                 \/ w.queue[i].task = "Wake"
                 \/ /\ w.queue[i].task = "DriveIfCurrent"
                    /\ {w.queue[i].generation} = w.host.generation

(* The attempt of the host is that of the session, or one it has given up. *)
Holds(w, g) ==
    /\ w.host.generation = {g}
    /\ w.session.transport.live_attempt \in {{}, {g}}

-----------------------------------------------------------------------------
(* The transport *)

Machine ==
    INSTANCE TransportProofs WITH
        transport <- session.transport, room_bound <- TRUE,
        backoff <- [failures |-> 0, closed_at |-> 0]

LEMMA MachineAssumptions ==
    /\ Machine!RetryDelaysAssumption
    /\ Machine!TransportBoundsAssumption
    BY RetryDelaysAssumption, TransportBoundsAssumption
    DEF Machine!RetryDelaysAssumption, Machine!TransportBoundsAssumption

LEMMA SameMachine ==
    /\ Transports = Machine!Transports
    /\ \A t, d, m : SocketClosed(t, d, m) = Machine!SocketClosed(t, d, m)
    /\ \A t : SocketOpened(t) = Machine!SocketOpened(t)
    /\ \A t : MarkSynchronized(t) = Machine!MarkSynchronized(t)
    /\ \A t : Detach(t) = Machine!Detach(t)
    /\ \A t : Reattach(t) = Machine!Reattach(t)
<1>1. \A t, m : RetryDeadline(t, m) = Machine!RetryDeadline(t, m)
    BY Zenon DEF RetryDeadline, Machine!RetryDeadline, Min2, Machine!Min2,
           FinalRetryDelayIndex, Machine!FinalRetryDelayIndex
<1>2. \A t, m : NextRetryAfterClose(t, m) = Machine!NextRetryAfterClose(t, m)
    BY <1>1, Zenon DEF NextRetryAfterClose, Machine!NextRetryAfterClose, Min2,
           Machine!Min2, FinalRetryDelayIndex, Machine!FinalRetryDelayIndex
<1>3. \A t, d, m : SocketClosed(t, d, m) = Machine!SocketClosed(t, d, m)
    BY <1>2, Zenon DEF SocketClosed, Machine!SocketClosed
<1>4. \A t : ResetRetryForFreshDrive(t) = Machine!ResetRetryForFreshDrive(t)
    BY Zenon DEF ResetRetryForFreshDrive, Machine!ResetRetryForFreshDrive
<1>5. Transports = Machine!Transports
    BY Zenon DEF Transports, Machine!Transports, TransportStates,
           Machine!TransportStates, AttemptStates, Machine!AttemptStates,
           FinalRetryDelayIndex, Machine!FinalRetryDelayIndex
<1>6. \A t : SocketOpened(t) = Machine!SocketOpened(t)
    BY Zenon DEF SocketOpened, Machine!SocketOpened
<1>7. \A t : MarkSynchronized(t) = Machine!MarkSynchronized(t)
    BY <1>4, Zenon DEF MarkSynchronized, Machine!MarkSynchronized
<1>8. \A t : Detach(t) = Machine!Detach(t)
    BY <1>4, Zenon DEF Detach, Machine!Detach
<1>9. \A t : Reattach(t) = Machine!Reattach(t)
    BY <1>4, Zenon DEF Reattach, Machine!Reattach
<1>  QED  BY <1>3, <1>5, <1>6, <1>7, <1>8, <1>9

(* No attempt is left.                                                     *)
Retired(t, u) ==
    /\ u \in Transports
    /\ u.last_issued = t.last_issued
    /\ u.live_attempt = {}
    /\ u.state \in {"Detached", "Disconnected", "Incompatible"}

LEMMA RetiredFacts ==
    ASSUME NEW t, NEW u, Retired(t, u)
    PROVE  NewestAttempt(u) /\ u.state \notin OpenStates
    BY DEF Retired, NewestAttempt, AttemptStates, OpenStates

LEMMA ClosesTransport ==
    ASSUME NEW t \in Transports, NEW d, NEW m \in 0 .. MaxMillis
    PROVE  Retired(t, SocketClosed(t, d, m))
<1>1. SocketClosed(t, d, m) \in Transports
    BY Machine!CloseType, MachineAssumptions, SameMachine
<1>2. CASE d = "Retryable"
  <2>  DEFINE n == NextRetryAfterClose(t, m)
  <2>1. /\ n.last_issued = t.last_issued
        /\ [n EXCEPT !.live_attempt = {}, !.state = "Disconnected"].last_issued
              = n.last_issued
        /\ [n EXCEPT !.live_attempt = {}, !.state = "Disconnected"].live_attempt
              = {}
        /\ [n EXCEPT !.live_attempt = {}, !.state = "Disconnected"].state
              = "Disconnected"
      BY DEF NextRetryAfterClose, Transports
  <2>  QED  BY <1>1, <1>2, <2>1 DEF SocketClosed, Retired
<1>3. CASE d # "Retryable"
    BY <1>1, <1>3 DEF SocketClosed, Retired, Transports
<1>  QED  BY <1>2, <1>3

LEMMA DetachesTransport ==
    ASSUME NEW t \in Transports, NewestAttempt(t)
    PROVE  /\ Retired(t, Detach(t))
           /\ t.state \in {"Detached", "Disconnected"} => Retired(t, Reattach(t))
<1>1. Detach(t) \in Transports /\ Reattach(t) \in Transports
    BY Machine!LifecycleTypes, MachineAssumptions, SameMachine
<1>2. t.state \in {"Detached", "Disconnected"} => t.live_attempt = {}
    BY DEF NewestAttempt, AttemptStates
<1>3. CASE t.state = "Detached"
    BY <1>1, <1>2, <1>3
    DEF Detach, Reattach, ResetRetryForFreshDrive, Retired, Transports
<1>4. CASE t.state # "Detached"
  <2>1. Retired(t, Detach(t))
      BY <1>1, <1>4 DEF Detach, ResetRetryForFreshDrive, Retired, Transports
  <2>2. Reattach(t) = t
      BY <1>4 DEF Reattach
  <2>  QED  BY <1>1, <1>2, <2>1, <2>2 DEF Retired
<1>  QED  BY <1>3, <1>4

LEMMA OpensTransport ==
    ASSUME NEW t \in Transports, NewestAttempt(t)
    PROVE  /\ t.state = "Connecting" =>
                 /\ SocketOpened(t) \in Transports
                 /\ NewestAttempt(SocketOpened(t))
                 /\ SocketOpened(t).state = "Handshaking"
                 /\ SocketOpened(t).live_attempt = t.live_attempt
                 /\ SocketOpened(t).last_issued = t.last_issued
           /\ t.state = "Handshaking" =>
                 /\ MarkSynchronized(t) \in Transports
                 /\ NewestAttempt(MarkSynchronized(t))
                 /\ MarkSynchronized(t).state = "Synchronized"
                 /\ MarkSynchronized(t).live_attempt = t.live_attempt
                 /\ MarkSynchronized(t).last_issued = t.last_issued
<1>1. SocketOpened(t) \in Transports /\ MarkSynchronized(t) \in Transports
    BY Machine!LifecycleTypes, MachineAssumptions, SameMachine
<1>2. LET u == SocketOpened(t)
      IN  /\ u.state = "Handshaking" /\ u.last_issued = t.last_issued
          /\ u.live_attempt = t.live_attempt
    BY DEF SocketOpened, Transports
<1>3. LET u == MarkSynchronized(t)
      IN  /\ u.state = "Synchronized" /\ u.last_issued = t.last_issued
          /\ u.live_attempt = t.live_attempt
    BY DEF MarkSynchronized, ResetRetryForFreshDrive, Transports
<1>  QED  BY <1>1, <1>2, <1>3 DEF NewestAttempt, AttemptStates

-----------------------------------------------------------------------------
(* The outbox, whose ordered queue has edits alone *)

Queue ==
    INSTANCE OutboxProofs WITH
        Sizes <- {1}, MaxInstalls <- 0, outbox <- session.outbox, held <- {},
        installed <- 0, handed <- << >>, accepted <- << >>, delivered <- << >>

LEMMA QueueAssumptions ==
    /\ Queue!OutboxBoundsAssumption
    /\ Queue!OutboxCallsAssumption
    BY OutboxBoundsAssumption
    DEF Queue!OutboxBoundsAssumption, Queue!OutboxCallsAssumption

LEMMA SameOperators ==
    /\ \A q : Bytes(q) = Queue!Bytes(q)
    /\ \A q, kind : OfKind(q, kind) = Queue!OfKind(q, kind)
    BY DEF Bytes, Queue!Bytes, OfKind, Queue!OfKind, KeepIf, Queue!KeepIf

LEMMA BytesOfOne ==
    ASSUME NEW M, NEW m \in M, m.bytes \in Nat
    PROVE  Bytes(<< m >>) \in Nat
<1>  DEFINE K == {x \in M : x.bytes \in Nat}
<1>1. << m >> \in Seq(K) /\ \A x \in K : x.bytes \in Nat
    OBVIOUS
<1>  HIDE DEF K
<1>2. Queue!Measured(K)
    BY <1>1 DEF Queue!Measured
<1>  QED  BY <1>1, <1>2, Queue!BytesType, QueueAssumptions, SameOperators

LEMMA OutboxFields ==
    ASSUME NEW o \in Outboxes
    PROVE  /\ o.ordered \in Seq(Updates) /\ o.protocol \in Seq(Replies)
           /\ o.pending_bytes \in Int /\ o.pending_awareness_bytes \in Int
           /\ o.pending_protocol_bytes \in Int
           /\ o.next_lease_id \in Options(Nat)
    BY DEF Outboxes

LEMMA MessagesAre ==
    /\ Message("ProtocolReply", 0) \in Replies
    /\ \A n \in Nat : /\ Message("DocumentUpdate", n) \in Updates
                      /\ Message("DocumentUpdate", n).id = n
    /\ \A m \in Updates : m.kind = "DocumentUpdate" /\ m.id \in Nat /\ m.bytes = 1
    /\ \A m \in Replies : m.kind = "ProtocolReply" /\ m.bytes = 1
    BY DEF Message, Replies, Updates

LEMMA InstallsReply ==
    ASSUME NEW o \in Outboxes, NEW c,
           c = Install(o, "ProtocolReply", << Message("ProtocolReply", 0) >>)
    PROVE  /\ c \in Outboxes /\ c.ordered = o.ordered
           /\ c.active_lease = o.active_lease
<1>  DEFINE m == Message("ProtocolReply", 0)
            b == Bytes(<< m >>)
            q == o.protocol \o << m >>
            p == o.pending_protocol_bytes + b
<1>1. m \in Replies /\ m.bytes = 1
    BY MessagesAre
<1>  HIDE DEF m
<1>2. b \in Nat
    BY <1>1, BytesOfOne
<1>3. q \in Seq(Replies)
    BY <1>1, OutboxFields
<1>  HIDE DEF b, q
<1>4. p \in Int
    BY <1>2, OutboxFields
<1>5. c = [o EXCEPT !.protocol = q, !.pending_protocol_bytes = p]
    BY DEF Install, Enqueue, Grow, Outboxes, m, q, b
<1>  HIDE DEF p
<1>  QED  BY <1>3, <1>4, <1>5 DEF Outboxes

(* An edit is queued last.                                                 *)
Queues(o, n, c) ==
    /\ c \in Outboxes /\ c.active_lease = o.active_lease
    /\ Len(c.ordered) = Len(o.ordered) + 1
    /\ \A i \in 1 .. Len(o.ordered) : c.ordered[i] = o.ordered[i]
    /\ c.ordered[Len(o.ordered) + 1].id = n

LEMMA InstallsUpdate ==
    ASSUME NEW o \in Outboxes, NEW n \in Nat, NEW c,
           c = Install(o, "DocumentUpdate", << Message("DocumentUpdate", n) >>)
    PROVE  Queues(o, n, c)
<1>  DEFINE m == Message("DocumentUpdate", n)
            b == Bytes(<< m >>)
            q == o.ordered \o << m >>
            p == o.pending_bytes + b
<1>1. m \in Updates /\ m.bytes = 1 /\ m.id = n
    BY MessagesAre
<1>  HIDE DEF m
<1>2. b \in Nat
    BY <1>1, BytesOfOne
<1>3. /\ q \in Seq(Updates) /\ Len(q) = Len(o.ordered) + 1
      /\ \A i \in 1 .. Len(o.ordered) : q[i] = o.ordered[i]
      /\ q[Len(o.ordered) + 1] = m
    BY <1>1, OutboxFields
<1>  HIDE DEF b, q
<1>4. p \in Int
    BY <1>2, OutboxFields
<1>5. c = [o EXCEPT !.ordered = q, !.pending_bytes = p]
    BY DEF Install, Enqueue, Grow, Outboxes, m, q, b
<1>  HIDE DEF p
<1>6. c \in Outboxes /\ c.active_lease = o.active_lease /\ c.ordered = q
    BY <1>3, <1>4, <1>5 DEF Outboxes
<1>  QED  BY <1>1, <1>3, <1>6 DEF Queues

LEMMA ReleasesLease ==
    ASSUME NEW o \in Outboxes
    PROVE  LET c == ReleaseLease(o)
           IN  /\ c \in Outboxes /\ c.ordered = o.ordered
               /\ c.active_lease = {}
    BY DEF ReleaseLease, Outboxes

(* What is leased next, and the outbox with the lease.                     *)
Leased(o, id, l) ==
    /\ l \in Outboxes /\ l.ordered = o.ordered /\ l.protocol = o.protocol
    /\ l.active_lease = {[id |-> id, kind |-> NextKind(o)]}

LEMMA LeasesNext ==
    ASSUME NEW o \in Outboxes, o.next_lease_id # {}, Pending(o) > 0
    PROVE  /\ NextKind(o) = IF o.protocol # << >> THEN "ProtocolReply"
                                                  ELSE "DocumentUpdate"
           /\ o.protocol = << >> => o.ordered # << >>
           /\ \E id \in Nat : Leased(o, id, LeaseNext(o))
<1>1. /\ o.ordered \in Seq(Updates) /\ o.protocol \in Seq(Replies)
      /\ o.next_lease_id \in Options(Nat)
    BY OutboxFields
<1>2. o.protocol = << >> => o.ordered # << >>
    BY <1>1 DEF Pending
<1>3. NextKind(o) = IF o.protocol # << >> THEN "ProtocolReply"
                                          ELSE "DocumentUpdate"
  <2>1. o.ordered # << >> => Head(o.ordered) \in Updates
      BY <1>1
  <2>  QED  BY <1>2, <2>1, MessagesAre DEF NextKind
<1>4. PICK id \in Nat : o.next_lease_id = {id}
    BY <1>1 DEF Options
<1>  DEFINE k == NextKind(o)
            a == {[id |-> id, kind |-> k]}
            n == {id + 1} \ {MaxLeaseId + 1}
<1>5. k \in Kinds
    BY <1>3 DEF Kinds
<1>  HIDE DEF k
<1>6. a \subseteq [id : Nat, kind : Kinds] /\ n \in Options(Nat)
    BY <1>4, <1>5 DEF Options
<1>7. LeaseNext(o) = [o EXCEPT !.active_lease = a, !.next_lease_id = n]
    BY <1>4 DEF LeaseNext, k
<1>  HIDE DEF a, n
<1>8. /\ LeaseNext(o) \in Outboxes /\ LeaseNext(o).ordered = o.ordered
      /\ LeaseNext(o).protocol = o.protocol /\ LeaseNext(o).active_lease = a
    BY <1>6, <1>7 DEF Outboxes
<1>9. Leased(o, id, LeaseNext(o))
    BY <1>8 DEF Leased, a, k
<1>  QED  BY <1>2, <1>3, <1>9

(* An acknowledgement takes the front of its queue.                        *)
LEMMA AcksLease ==
    ASSUME NEW l \in Outboxes, NEW id, NEW kind \in {"ProtocolReply", "DocumentUpdate"},
           l.active_lease = {[id |-> id, kind |-> kind]},
           kind = "ProtocolReply" => l.protocol # << >>,
           kind = "DocumentUpdate" => l.ordered # << >>
    PROVE  LET c == AckLease(l)
           IN  /\ c \in Outboxes /\ c.active_lease = {}
               /\ c.ordered = IF kind = "DocumentUpdate" THEN Tail(l.ordered)
                                                         ELSE l.ordered
<1>1. (CHOOSE lease \in l.active_lease : TRUE).kind = kind
  <2>1. (CHOOSE lease \in l.active_lease : TRUE) = [id |-> id, kind |-> kind]
      OBVIOUS
  <2>  QED  BY <2>1
<1>2. /\ l.ordered \in Seq(Updates) /\ l.protocol \in Seq(Replies)
      /\ l.pending_bytes \in Int /\ l.pending_protocol_bytes \in Int
    BY OutboxFields
<1>3. CASE kind = "ProtocolReply"
  <2>  DEFINE q == Tail(l.protocol)
              p == l.pending_protocol_bytes + (-(LeaseFront(l, kind).bytes))
  <2>1. q \in Seq(Replies) /\ Head(l.protocol) \in Replies
      BY <1>2, <1>3
  <2>2. LeaseFront(l, kind).bytes = 1
      BY <1>3, <2>1, MessagesAre DEF LeaseFront
  <2>  HIDE DEF q
  <2>3. p \in Int
      BY <1>2, <2>2
  <2>4. AckLease(l) = [l EXCEPT !.protocol = q, !.pending_protocol_bytes = p,
                                !.active_lease = {}]
      BY <1>1, <1>3 DEF AckLease, PopFront, Grow, ReleaseLease, Outboxes, q
  <2>  HIDE DEF p
  <2>5. AckLease(l) \in Outboxes /\ AckLease(l).active_lease = {}
        /\ AckLease(l).ordered = l.ordered
      BY <2>1, <2>3, <2>4 DEF Outboxes
  <2>  QED  BY <1>3, <2>5
<1>4. CASE kind = "DocumentUpdate"
  <2>  DEFINE q == Tail(l.ordered)
              p == l.pending_bytes + (-(LeaseFront(l, kind).bytes))
  <2>1. q \in Seq(Updates) /\ Head(l.ordered) \in Updates
      BY <1>2, <1>4
  <2>2. LeaseFront(l, kind).bytes = 1
      BY <1>4, <2>1, MessagesAre DEF LeaseFront
  <2>  HIDE DEF q
  <2>3. p \in Int
      BY <1>2, <2>2
  <2>4. AckLease(l) = [l EXCEPT !.ordered = q, !.pending_bytes = p,
                                !.active_lease = {}]
      BY <1>1, <1>4 DEF AckLease, PopFront, Grow, ReleaseLease, Outboxes, q
  <2>  HIDE DEF p
  <2>5. AckLease(l) \in Outboxes /\ AckLease(l).active_lease = {}
        /\ AckLease(l).ordered = q
      BY <2>1, <2>3, <2>4 DEF Outboxes
  <2>  QED  BY <1>4, <2>5 DEF q
<1>  QED  BY <1>3, <1>4

-----------------------------------------------------------------------------
(* Worlds *)

LEMMA WorldFields ==
    ASSUME NEW w \in Worlds
    PROVE  /\ w.session \in Sessions
           /\ w.session.transport \in Transports
           /\ w.session.outbox \in Outboxes
           /\ w.host \in Hosts
           /\ w.host.generation \in SUBSET (1 .. MaxGeneration)
           /\ {w.host.socketOpened, w.host.nativeAttached, w.host.connect,
               w.host.destroyed, w.terminal} \subseteq BOOLEAN
           /\ w.host.hostState \in HostStates
           /\ w.sockets \in Functions(1 .. MaxGeneration, Statuses)
           /\ w.queue \in Seq(Tasks)
           /\ w.delivered \in Seq(Nat)
    BY DEF Worlds, Sessions, Hosts

LEMMA StatusOf ==
    ASSUME NEW k
    PROVE  /\ k \in Functions(1 .. MaxGeneration, Statuses) =>
                 /\ DOMAIN k \subseteq 1 .. MaxGeneration
                 /\ k = [g \in DOMAIN k |-> k[g]]
                 /\ \A g \in DOMAIN k : k[g] \in Statuses
           /\ \A D \in SUBSET (1 .. MaxGeneration) :
                 k \in [D -> Statuses]
                    => k \in Functions(1 .. MaxGeneration, Statuses)
    BY DEF Functions

(* The parts of a world in which two worlds are the same.                  *)
SameQueue(w, v) == v.queue = w.queue /\ v.terminal = w.terminal

SameRole(w, v) ==
    /\ v.host.hostState = w.host.hostState
    /\ v.host.nativeAttached = w.host.nativeAttached
    /\ v.host.connect = w.host.connect
    /\ v.host.destroyed = w.host.destroyed

SameSockets(w, v) ==
    /\ v.sockets = w.sockets
    /\ v.host.generation = w.host.generation
    /\ v.host.socketOpened = w.host.socketOpened

(* What a step of a handler never undoes: an ended socket, and the count   *)
(* of generations.                                                         *)
Progress(w, v) ==
    /\ DOMAIN v.sockets = DOMAIN w.sockets
    /\ \A g \in DOMAIN w.sockets :
          w.sockets[g] = "ended" => v.sockets[g] = "ended"
    /\ w.session.transport.last_issued <= v.session.transport.last_issued

LEMMA RolesDrive ==
    ASSUME NEW w, NEW v, SameRole(w, v)
    PROVE  /\ Connects(v.host) <=> Connects(w.host)
           /\ v.terminal = w.terminal => (CanDrive(v) <=> CanDrive(w))
    BY DEF SameRole, Connects, CanDrive

LEMMA DrivesWhenConnects ==
    ASSUME NEW w
    PROVE  CanDrive(w) <=> Connects(w.host) /\ ~w.terminal
    BY DEF Connects, CanDrive

LEMMA SteadyAfter ==
    ASSUME NEW w, NEW e, Steady(w, e),
           NEW v \in Worlds, NEW n,
           NewestAttempt(v.session.transport),
           v.session.outbox.active_lease = {},
           Counted(v.delivered, v.session.outbox.ordered, n),
           EndsAreTrue(v),
           Progress(w, v),
           InUse(v) \subseteq v.host.generation,
           v.host.generation # {} => Connects(v.host)
    PROVE  Steady(v, n)
<1>1. w.session.transport.last_issued \in Int
      /\ v.session.transport.last_issued \in Int
    BY WorldFields DEF Steady, Transports
<1>2. DOMAIN v.sockets \subseteq 1 .. v.session.transport.last_issued
    BY <1>1 DEF Steady, Progress
<1>  QED  BY <1>2 DEF Steady

LEMMA StaysSteady ==
    ASSUME NEW w, NEW e, Steady(w, e),
           NEW v \in Worlds, NEW n,
           NewestAttempt(v.session.transport),
           v.session.outbox.active_lease = {},
           Counted(v.delivered, v.session.outbox.ordered, n),
           v.queue = w.queue,
           Progress(w, v),
           InUse(v) \subseteq v.host.generation,
           v.host.generation # {} => Connects(v.host)
    PROVE  Steady(v, n)
<1>1. EndsAreTrue(v)
    BY DEF Steady, Progress, EndsAreTrue
<1>  QED  BY <1>1, SteadyAfter

(* A task is posted.                                                       *)
LEMMA PostsTask ==
    ASSUME NEW w, w.queue \in Seq(Tasks), EndsAreTrue(w),
           NEW v, Progress(w, v), NEW task \in Tasks,
           v.queue = Append(w.queue, task),
           task.task = "Closed" =>
               /\ task.generation \in DOMAIN v.sockets
               /\ v.sockets[task.generation] = "ended"
    PROVE  EndsAreTrue(v) /\ v.queue \in Seq(Tasks)
<1>1. /\ v.queue \in Seq(Tasks)
      /\ DOMAIN v.queue = DOMAIN w.queue \union {Len(w.queue) + 1}
      /\ \A i \in DOMAIN w.queue : v.queue[i] = w.queue[i]
      /\ v.queue[Len(w.queue) + 1] = task
    OBVIOUS
<1>  QED  BY <1>1 DEF EndsAreTrue, Progress

(* The session is replaced.                                                *)
LEMMA SetsSession ==
    ASSUME NEW w \in Worlds, NEW s \in Sessions, NEW v,
           v = [w EXCEPT !.session = s]
    PROVE  /\ v \in Worlds /\ v.session = s
           /\ v.host = w.host /\ v.sockets = w.sockets
           /\ SameQueue(w, v) /\ v.delivered = w.delivered
    BY DEF Worlds, SameQueue

(* The timer is set.                                                       *)
LEMMA SchedulesDeadline ==
    ASSUME NEW w \in Worlds, NEW d \in SUBSET (0 .. MaxMillis), NEW v,
           v = ScheduleDeadline(w, d)
    PROVE  /\ v \in Worlds /\ v.session = w.session
           /\ SameRole(w, v) /\ SameSockets(w, v)
           /\ SameQueue(w, v) /\ v.delivered = w.delivered
<1>  DEFINE x == IF CanDrive(w) THEN d ELSE {}
            h == [w.host EXCEPT !.timer = x]
<1>1. x \in SUBSET (0 .. MaxMillis) /\ v = [w EXCEPT !.host.timer = x]
    BY DEF ScheduleDeadline
<1>  HIDE DEF x
<1>2. /\ h \in Hosts /\ h.generation = w.host.generation
      /\ h.socketOpened = w.host.socketOpened
      /\ h.hostState = w.host.hostState
      /\ h.nativeAttached = w.host.nativeAttached
      /\ h.connect = w.host.connect /\ h.destroyed = w.host.destroyed
    BY <1>1, WorldFields DEF Hosts
<1>3. v = [w EXCEPT !.host = h]
    BY <1>1 DEF Worlds
<1>  HIDE DEF h
<1>  QED  BY <1>2, <1>3 DEF Worlds, SameRole, SameSockets, SameQueue

(* The socket of the host is closed.                                       *)
LEMMA ClosesSocket ==
    ASSUME NEW w \in Worlds, NEW v, v = CloseSocket(w)
    PROVE  /\ v \in Worlds /\ v.session = w.session /\ v.host = w.host
           /\ SameQueue(w, v) /\ v.delivered = w.delivered
           /\ Progress(w, v)
           /\ InUse(v) = InUse(w) \ w.host.generation
<1>  DEFINE k == [g \in DOMAIN w.sockets |->
                     IF g \in w.host.generation /\ w.sockets[g] # "ended"
                       THEN "closing" ELSE w.sockets[g]]
<1>1. /\ DOMAIN w.sockets \in SUBSET (1 .. MaxGeneration)
      /\ \A g \in DOMAIN w.sockets : w.sockets[g] \in Statuses
    BY WorldFields, StatusOf
<1>2. k \in [DOMAIN w.sockets -> Statuses]
    BY <1>1 DEF Statuses
<1>3. k \in Functions(1 .. MaxGeneration, Statuses)
    BY <1>1, <1>2, StatusOf
<1>4. /\ DOMAIN k = DOMAIN w.sockets
      /\ \A g \in DOMAIN w.sockets :
            k[g] = IF g \in w.host.generation /\ w.sockets[g] # "ended"
                     THEN "closing" ELSE w.sockets[g]
    OBVIOUS
<1>5. v = [w EXCEPT !.sockets = k]
    BY DEF CloseSocket, Worlds
<1>  HIDE DEF k
<1>6. /\ v \in Worlds /\ v.session = w.session /\ v.host = w.host
      /\ v.sockets = k /\ v.delivered = w.delivered /\ SameQueue(w, v)
    BY <1>3, <1>5 DEF Worlds, SameQueue
<1>7. Progress(w, v)
  <2>1. w.session.transport.last_issued \in Int
      BY WorldFields DEF Transports
  <2>  QED  BY <1>4, <1>6, <2>1 DEF Progress
<1>8. InUse(v) = InUse(w) \ w.host.generation
    BY <1>4, <1>6 DEF InUse
<1>  QED  BY <1>6, <1>7, <1>8

(* The host forgets its socket and its timer.                              *)
Forgets(w, v) ==
    /\ v \in Worlds
    /\ v.session = w.session
    /\ v.host.generation = {}
    /\ ~v.host.socketOpened
    /\ SameRole(w, v)
    /\ SameQueue(w, v)
    /\ v.delivered = w.delivered

LEMMA ForgetsSocket ==
    ASSUME NEW w \in Worlds, NEW v,
           v = [w EXCEPT !.host.generation = {}, !.host.timer = {},
                         !.host.socketOpened = FALSE]
    PROVE  Forgets(w, v) /\ v.sockets = w.sockets
<1>  DEFINE h == [w.host EXCEPT !.generation = {}, !.timer = {},
                                !.socketOpened = FALSE]
<1>1. /\ h \in Hosts /\ h.generation = {}
      /\ h.socketOpened = FALSE
      /\ h.hostState = w.host.hostState
      /\ h.nativeAttached = w.host.nativeAttached
      /\ h.connect = w.host.connect /\ h.destroyed = w.host.destroyed
    BY WorldFields DEF Hosts
<1>2. v = [w EXCEPT !.host = h]
    BY DEF Worlds
<1>  HIDE DEF h
<1>  QED  BY <1>1, <1>2 DEF Worlds, Forgets, SameRole, SameQueue

(* Retired: nothing is in use.                                             *)
LEMMA RetiresSocket ==
    ASSUME NEW w \in Worlds, NEW v, v = RetireNativeResources(w),
           InUse(w) \subseteq w.host.generation
    PROVE  Forgets(w, v) /\ Progress(w, v) /\ InUse(v) = {}
<1>  DEFINE c == CloseSocket(w)
<1>1. /\ c \in Worlds /\ c.session = w.session /\ c.host = w.host
      /\ SameQueue(w, c) /\ c.delivered = w.delivered
      /\ Progress(w, c) /\ InUse(c) = InUse(w) \ w.host.generation
    BY ClosesSocket
<1>2. v = [c EXCEPT !.host.generation = {}, !.host.timer = {},
                    !.host.socketOpened = FALSE]
    BY DEF RetireNativeResources
<1>  HIDE DEF c
<1>3. Forgets(c, v) /\ v.sockets = c.sockets
    BY <1>1, <1>2, ForgetsSocket
<1>4. Forgets(w, v)
    BY <1>1, <1>3 DEF Forgets, SameRole, SameQueue
<1>5. Progress(w, v)
    BY <1>1, <1>3 DEF Progress, Forgets
<1>6. InUse(v) = {}
    BY <1>1, <1>3 DEF InUse
<1>  QED  BY <1>4, <1>5, <1>6

-----------------------------------------------------------------------------
(* The directive of a call *)

(* A directive opens the generation that the drive issued, or nothing.     *)
Issues(s, r) ==
    /\ s.transport.state = "Disconnected"
    /\ r.session.transport.state = "Connecting"
    /\ r.session.transport.last_issued = s.transport.last_issued + 1
    /\ r.session.transport.live_attempt = {s.transport.last_issued + 1}
    /\ r.open = {s.transport.last_issued + 1}

Directs(s, r) ==
    /\ r.session \in Sessions
    /\ NewestAttempt(r.session.transport)
    /\ r.session.outbox = s.outbox
    /\ r.deadline \in SUBSET (0 .. MaxMillis)
    /\ \/ r.session = s /\ r.open = {}
       \/ r.ok /\ Issues(s, r)

LEMMA SessionFields ==
    ASSUME NEW s \in Sessions
    PROVE  /\ s.transport \in Transports /\ s.outbox \in Outboxes
           /\ \A t \in Transports :
                 /\ [s EXCEPT !.transport = t] \in Sessions
                 /\ [s EXCEPT !.transport = t].transport = t
                 /\ [s EXCEPT !.transport = t].outbox = s.outbox
           /\ \A o \in Outboxes :
                 /\ [s EXCEPT !.outbox = o] \in Sessions
                 /\ [s EXCEPT !.outbox = o].transport = s.transport
                 /\ [s EXCEPT !.outbox = o].outbox = o
           /\ \A t \in Transports, o \in Outboxes :
                 /\ [s EXCEPT !.transport = t, !.outbox = o] \in Sessions
                 /\ [s EXCEPT !.transport = t, !.outbox = o].transport = t
                 /\ [s EXCEPT !.transport = t, !.outbox = o].outbox = o
           /\ [s EXCEPT !.transport = s.transport] = s
    BY DEF Sessions

LEMMA SetsTransport ==
    ASSUME NEW s \in Sessions, NEW t \in Transports, NEW c,
           c = [s EXCEPT !.transport = t]
    PROVE  c \in Sessions /\ c.transport = t /\ c.outbox = s.outbox
    BY DEF Sessions

LEMMA Refuses ==
    ASSUME NEW s \in Sessions, NewestAttempt(s.transport)
    PROVE  Directs(s, Refused(s)) /\ ~Refused(s).ok
    BY DEF Directs, Refused

LEMMA IssuesGeneration ==
    ASSUME NEW t \in Transports, CanIssue(t)
    PROVE  /\ IssueGeneration(t) \in Transports
           /\ IssueGeneration(t).state = "Connecting"
           /\ IssueGeneration(t).last_issued = t.last_issued + 1
           /\ IssueGeneration(t).live_attempt = {t.last_issued + 1}
<1>1. CanIssue(t) <=> Machine!CanIssue(t)
    BY DEF CanIssue, Machine!CanIssue
<1>2. IssueGeneration(t) = Machine!IssueGeneration(t)
    BY DEF IssueGeneration, Machine!IssueGeneration
<1>3. IssueGeneration(t) \in Transports
    BY <1>1, <1>2, Machine!IssueType, MachineAssumptions, SameMachine
<1>  QED  BY <1>3 DEF IssueGeneration, Transports

LEMMA Finishes ==
    ASSUME NEW s \in Sessions, NewestAttempt(s.transport),
           NEW m \in 0 .. MaxMillis, NEW r, r = FinishDirective(s, m)
    PROVE  /\ Directs(s, r)
           /\ ~r.ok => s.transport.state = "Disconnected"
<1>  DEFINE t == s.transport
<1>1. t \in Transports
    BY SessionFields
<1>2. CASE DriveFails(t, TRUE, m)
  <2>1. r = Refused(s) /\ t.state = "Disconnected"
      BY <1>2 DEF FinishDirective, DriveFails, RetryDue
  <2>  QED  BY <2>1, Refuses
<1>3. CASE ~DriveFails(t, TRUE, m) /\ ~RetryDue(t, TRUE, m)
  <2>1. Drive(t, TRUE, m) = t
      BY <1>3 DEF Drive
  <2>2. r = [ok |-> TRUE, session |-> [s EXCEPT !.transport = t],
             open |-> t.live_attempt \ t.live_attempt,
             deadline |-> t.next_retry_deadline_millis]
      BY <1>3, <2>1 DEF FinishDirective, GenerationToOpen
  <2>3. [s EXCEPT !.transport = t] = s
      BY SessionFields, Zenon
  <2>4. t.next_retry_deadline_millis \in SUBSET (0 .. MaxMillis)
      BY <1>1 DEF Transports
  <2>  HIDE DEF t
  <2>5. r.ok /\ r.session = s /\ r.open = {}
        /\ r.deadline = t.next_retry_deadline_millis
      BY <2>2, <2>3
  <2>  QED  BY <2>4, <2>5 DEF Directs
<1>4. CASE ~DriveFails(t, TRUE, m) /\ RetryDue(t, TRUE, m)
  <2>  DEFINE u == IssueGeneration(t)
  <2>1. CanIssue(t) /\ t.state = "Disconnected"
      BY <1>4 DEF DriveFails, RetryDue
  <2>2. /\ u \in Transports /\ u.state = "Connecting"
        /\ u.last_issued = t.last_issued + 1
        /\ u.live_attempt = {t.last_issued + 1}
      BY <1>1, <2>1, IssuesGeneration
  <2>3. t.live_attempt = {}
      BY <2>1 DEF NewestAttempt, AttemptStates
  <2>4. Drive(t, TRUE, m) = u
      BY <1>4, <2>1 DEF Drive
  <2>5. r = [ok |-> TRUE, session |-> [s EXCEPT !.transport = u],
             open |-> u.live_attempt \ t.live_attempt,
             deadline |-> u.next_retry_deadline_millis]
      BY <1>4, <2>4 DEF FinishDirective, GenerationToOpen
  <2>  HIDE DEF u
  <2>  DEFINE c == [s EXCEPT !.transport = u]
  <2>6. c \in Sessions /\ c.transport = u /\ c.outbox = s.outbox
      BY <2>2, SetsTransport
  <2>  HIDE DEF c
  <2>7. u.next_retry_deadline_millis \in SUBSET (0 .. MaxMillis)
      BY <2>2 DEF Transports
  <2>8. /\ r.ok /\ r.open = u.live_attempt /\ r.session = c
        /\ r.deadline = u.next_retry_deadline_millis
      BY <2>3, <2>5 DEF c
  <2>9. NewestAttempt(u)
      BY <2>2 DEF NewestAttempt, AttemptStates
  <2>10. Issues(s, r)
      BY <2>1, <2>2, <2>6, <2>8 DEF Issues
  <2>  QED  BY <2>6, <2>7, <2>8, <2>9, <2>10 DEF Directs
<1>  QED  BY <1>2, <1>3, <1>4

(* A session that gives its attempt up keeps its messages.                 *)
GivesUp(s, c) ==
    /\ c \in Sessions
    /\ Retired(s.transport, c.transport)
    /\ c.outbox.ordered = s.outbox.ordered
    /\ c.outbox.active_lease = {}

LEMMA ClosesSession ==
    ASSUME NEW s \in Sessions, NEW d, NEW m \in 0 .. MaxMillis
    PROVE  GivesUp(s, CloseSession(s, d, m))
<1>  DEFINE t == SocketClosed(s.transport, d, m)
            o == ReleaseLease(s.outbox)
<1>1. s.transport \in Transports /\ s.outbox \in Outboxes
    BY SessionFields
<1>2. Retired(s.transport, t) /\ t \in Transports
    BY <1>1, ClosesTransport DEF Retired
<1>3. o \in Outboxes /\ o.ordered = s.outbox.ordered /\ o.active_lease = {}
    BY <1>1, ReleasesLease
<1>4. CloseSession(s, d, m) = [s EXCEPT !.transport = t, !.outbox = o]
    BY DEF CloseSession, Sessions
<1>  HIDE DEF t, o
<1>5. /\ [s EXCEPT !.transport = t, !.outbox = o] \in Sessions
      /\ [s EXCEPT !.transport = t, !.outbox = o].transport = t
      /\ [s EXCEPT !.transport = t, !.outbox = o].outbox = o
    BY <1>2, <1>3 DEF Sessions
<1>  QED  BY <1>2, <1>3, <1>4, <1>5 DEF GivesUp

-----------------------------------------------------------------------------
(* Opening, and the end of a connection *)

(* What a handler that runs on an attempt leaves.                          *)
Restores(w, e, v) ==
    /\ Steady(v, e)
    /\ Agrees(v)
    /\ SameQueue(w, v)
    /\ SameRole(w, v)

LEMMA OpensSocket ==
    ASSUME NEW e, NEW w, Steady(w, e), CanDrive(w),
           NEW r, r.ok, Directs(w.session, r), Issues(w.session, r),
           NEW u, u = [w EXCEPT !.session = r.session],
           NEW v, v = OpenSocket(ScheduleDeadline(u, r.deadline),
                                 CHOOSE g \in r.open : TRUE)
    PROVE  Restores(w, e, v) /\ v.session.transport.state = "Connecting"
<1>0. w.session.transport.last_issued \in Nat
    BY WorldFields DEF Steady, Transports
<1>  DEFINE g == w.session.transport.last_issued + 1
            x == ScheduleDeadline(u, r.deadline)
            y == RetireNativeResources(x)
            k == [i \in DOMAIN y.sockets \union {g} |->
                     IF i = g THEN "connecting" ELSE y.sockets[i]]
            h == [y.host EXCEPT !.generation = {g}]
<1>1. /\ u \in Worlds /\ u.session = r.session /\ u.host = w.host
      /\ u.sockets = w.sockets /\ SameQueue(w, u)
      /\ u.delivered = w.delivered
    BY SetsSession DEF Steady, Directs
<1>2. /\ x \in Worlds /\ x.session = r.session
      /\ SameRole(w, x) /\ SameQueue(w, x)
      /\ x.delivered = w.delivered /\ x.sockets = w.sockets
      /\ x.host.generation = w.host.generation
  <2>1. /\ x \in Worlds /\ x.session = u.session /\ SameRole(u, x)
        /\ SameSockets(u, x) /\ SameQueue(u, x) /\ x.delivered = u.delivered
      BY <1>1, SchedulesDeadline DEF Directs
  <2>  HIDE DEF x
  <2>  QED  BY <1>1, <2>1 DEF SameRole, SameQueue, SameSockets
<1>3. CanDrive(x) /\ Connects(x.host)
    BY <1>2, RolesDrive, DrivesWhenConnects DEF SameQueue
<1>4. (CHOOSE i \in r.open : TRUE) = g
    BY DEF Issues
<1>5. InUse(x) \subseteq x.host.generation
    BY <1>2 DEF Steady, InUse
<1>6. Forgets(x, y) /\ Progress(x, y) /\ InUse(y) = {}
    BY <1>2, <1>5, RetiresSocket
<1>7. v = [y EXCEPT !.host.generation = {g}, !.sockets = k]
    BY <1>3, <1>4 DEF OpenSocket
<1>8. /\ g \in 1 .. MaxGeneration
      /\ r.session.transport.last_issued = g
      /\ r.session.transport.live_attempt = {g}
      /\ r.session.transport.state = "Connecting"
    BY SessionFields DEF Issues, Directs, Transports
<1>9. DOMAIN y.sockets \subseteq 1 .. w.session.transport.last_issued
    BY <1>2, <1>6 DEF Steady, Progress
<1>  HIDE DEF x
<1>10. /\ y \in Worlds /\ y.session = r.session /\ y.delivered = w.delivered
       /\ y.host.socketOpened = FALSE
       /\ SameRole(w, y) /\ SameQueue(w, y)
    BY <1>2, <1>6 DEF Forgets, SameRole, SameQueue
<1>11. /\ DOMAIN y.sockets \subseteq 1 .. MaxGeneration
       /\ \A i \in DOMAIN y.sockets : y.sockets[i] \in Statuses
    BY <1>10, WorldFields, StatusOf
<1>  HIDE DEF y
<1>12. /\ k \in Functions(1 .. MaxGeneration, Statuses)
       /\ DOMAIN k = DOMAIN y.sockets \union {g}
       /\ k[g] = "connecting"
       /\ \A i \in DOMAIN y.sockets : i # g => k[i] = y.sockets[i]
  <2>  DEFINE D == DOMAIN y.sockets \union {g}
  <2>1. k \in [D -> Statuses] /\ D \in SUBSET (1 .. MaxGeneration)
      BY <1>8, <1>11 DEF Statuses
  <2>2. k \in Functions(1 .. MaxGeneration, Statuses)
      BY <2>1, StatusOf
  <2>  QED  BY <2>2
<1>13. /\ h \in Hosts /\ h.generation = {g} /\ h.socketOpened = FALSE
       /\ h.hostState = y.host.hostState
       /\ h.nativeAttached = y.host.nativeAttached
       /\ h.connect = y.host.connect /\ h.destroyed = y.host.destroyed
    BY <1>8, <1>10, WorldFields DEF Hosts
<1>14. v = [y EXCEPT !.host = h, !.sockets = k]
    BY <1>7, <1>10 DEF Worlds
<1>  HIDE DEF h, k
<1>15. /\ v \in Worlds /\ v.session = r.session /\ v.host = h
       /\ v.sockets = k /\ v.delivered = w.delivered
       /\ SameQueue(w, v) /\ SameRole(w, v)
    BY <1>10, <1>12, <1>13, <1>14 DEF Worlds, SameQueue, SameRole
<1>  HIDE DEF g
<1>16. Agrees(v) /\ v.session.transport.state = "Connecting"
    BY <1>8, <1>13, <1>15 DEF Agrees, OpenStates
<1>17. Steady(v, e)
  <2>1. Connects(v.host)
      BY <1>2, <1>3, <1>15, RolesDrive DEF SameRole, Connects
  <2>2. /\ NewestAttempt(v.session.transport)
        /\ v.session.outbox = w.session.outbox
      BY <1>15 DEF Directs
  <2>3. DOMAIN v.sockets \subseteq 1 .. v.session.transport.last_issued
    <3>1. v.session.transport.last_issued = g
        BY <1>8, <1>15
    <3>2. DOMAIN k \subseteq 1 .. g
        BY <1>0, <1>9, <1>12 DEF g
    <3>  QED  BY <1>15, <3>1, <3>2
  <2>4. InUse(v) \subseteq v.host.generation
    <3>1. \A i \in DOMAIN k : k[i] \in {"connecting", "open"} => i = g
        BY <1>6, <1>12 DEF InUse
    <3>  QED  BY <1>13, <1>15, <3>1 DEF InUse
  <2>5. EndsAreTrue(v)
    <3>1. \A i \in DOMAIN w.sockets :
             w.sockets[i] = "ended" => i \in DOMAIN k /\ k[i] = "ended"
        BY <1>0, <1>2, <1>6, <1>9, <1>12 DEF Progress, g
    <3>  QED  BY <1>15, <3>1 DEF Steady, EndsAreTrue, SameQueue
  <2>  QED  BY <1>15, <2>1, <2>2, <2>3, <2>4, <2>5 DEF Steady
<1>  QED  BY <1>15, <1>16, <1>17 DEF Restores

(* No attempt is in flight, and nothing is leased.                         *)
Idle(s) ==
    /\ NewestAttempt(s.transport)
    /\ s.transport.live_attempt = {}
    /\ s.outbox.active_lease = {}

LEMMA IdleIsNotOpen ==
    ASSUME NEW s, Idle(s)
    PROVE  s.transport.state \notin OpenStates
    BY DEF Idle, NewestAttempt, AttemptStates, OpenStates

LEMMA GivenUpIsIdle ==
    ASSUME NEW s \in Sessions, NEW c, GivesUp(s, c)
    PROVE  /\ Idle(c) /\ c \in Sessions
           /\ c.outbox.ordered = s.outbox.ordered
           /\ c.transport.last_issued = s.transport.last_issued
    BY RetiredFacts DEF GivesUp, Idle, Retired

(* A host without a socket and a session without an attempt agree.         *)
LEMMA Rests ==
    ASSUME NEW w, NEW e, Steady(w, e), NEW v \in Worlds,
           Idle(v.session),
           v.session.outbox.ordered = w.session.outbox.ordered,
           v.delivered = w.delivered, v.queue = w.queue,
           Progress(w, v), InUse(v) = {},
           v.host.generation = {}, ~v.host.socketOpened
    PROVE  /\ Steady(v, e) /\ Agrees(v)
           /\ v.session.transport.state \notin OpenStates
<1>1. Steady(v, e)
  <2>1. Counted(v.delivered, v.session.outbox.ordered, e)
      BY DEF Steady
  <2>  QED  BY <2>1, StaysSteady DEF Idle
<1>2. v.session.transport.state \notin OpenStates
    BY IdleIsNotOpen
<1>3. Agrees(v)
    BY <1>2, WorldFields DEF Agrees, Idle
<1>  QED  BY <1>1, <1>2, <1>3

LEMMA ReportsClose ==
    ASSUME NEW e, NEW w, Steady(w, e), CanDrive(w), NEW g, Holds(w, g),
           InUse(w) = {}, NEW code, NEW m \in 0 .. MaxMillis,
           NEW v, v = ReportCurrentSocketClose(w, g, code, m)
    PROVE  /\ Restores(w, e, v)
           /\ v.session.transport.state \notin OpenStates
<1>  DEFINE c == [w EXCEPT !.host.generation = {}, !.host.timer = {},
                           !.host.socketOpened = FALSE]
            s == CloseSession(w.session, DispositionOf(code), m)
            r == SocketCloseCall(w.session, g, DispositionOf(code), m)
            told == [c EXCEPT !.session = r.session]
            scheduled == ScheduleDeadline(told, r.deadline)
<1>1. w \in Worlds /\ w.session \in Sessions
      /\ NewestAttempt(w.session.transport)
    BY WorldFields DEF Steady
<1>2. Forgets(w, c) /\ c.sockets = w.sockets
    BY <1>1, ForgetsSocket
<1>3. v = IF ~r.ok THEN told
          ELSE IF r.open = {} THEN scheduled
          ELSE OpenSocket(scheduled, CHOOSE i \in r.open : TRUE)
    BY DEF ReportCurrentSocketClose
<1>  HIDE DEF c
<1>4. /\ c \in Worlds /\ c.session = w.session /\ c.delivered = w.delivered
      /\ c.host.generation = {} /\ ~c.host.socketOpened
      /\ SameRole(w, c) /\ SameQueue(w, c) /\ InUse(c) = {}
    BY <1>2 DEF Forgets, InUse
<1>5. w.session.transport.last_issued \in Int
    BY <1>1, WorldFields DEF Transports
<1>6. Progress(w, c)
    BY <1>2, <1>4, <1>5 DEF Progress
<1>7. CASE w.session.transport.live_attempt = {g}
  <2>1. r = FinishDirective(s, m)
      BY <1>7 DEF SocketCloseCall, IsLiveAttempt
  <2>2. GivesUp(w.session, s)
      BY <1>1, ClosesSession
  <2>  HIDE DEF s
  <2>3. /\ Idle(s) /\ s \in Sessions
        /\ s.outbox.ordered = w.session.outbox.ordered
        /\ s.transport.last_issued = w.session.transport.last_issued
      BY <1>1, <2>2, GivenUpIsIdle
  <2>4. Directs(s, r)
      BY <2>1, <2>3, Finishes DEF Idle
  <2>  HIDE DEF r
  <2>  DEFINE c1 == [c EXCEPT !.session = s]
  <2>5. /\ c1 \in Worlds /\ c1.session = s /\ c1.host = c.host
        /\ c1.sockets = c.sockets /\ SameQueue(c, c1)
        /\ c1.delivered = c.delivered
      BY <1>4, <2>3, SetsSession
  <2>6. told = [c1 EXCEPT !.session = r.session]
      BY <1>4 DEF Worlds
  <2>7. r.session = s => told = c1
      OBVIOUS
  <2>  HIDE DEF c1, told
  <2>8. /\ SameRole(w, c1) /\ SameQueue(w, c1) /\ InUse(c1) = {}
        /\ Progress(w, c1)
      BY <1>4, <1>6, <2>3, <2>5
      DEF SameRole, SameQueue, InUse, Progress
  <2>9. /\ Steady(c1, e) /\ Agrees(c1)
        /\ c1.session.transport.state \notin OpenStates
      BY <1>4, <2>3, <2>5, <2>8, Rests DEF SameQueue
  <2>10. CASE ~r.ok
    <3>1. v = c1
        BY <1>3, <2>4, <2>7, <2>10 DEF Directs
    <3>  QED  BY <2>8, <2>9, <3>1 DEF Restores
  <2>11. CASE r.ok /\ r.open = {}
    <3>1. v = ScheduleDeadline(c1, r.deadline)
        BY <1>3, <2>4, <2>7, <2>11 DEF Directs, Issues
    <3>2. /\ v \in Worlds /\ v.session = c1.session
          /\ SameRole(c1, v) /\ SameSockets(c1, v)
          /\ SameQueue(c1, v) /\ v.delivered = c1.delivered
        BY <2>4, <2>5, <3>1, SchedulesDeadline DEF Directs
    <3>3. /\ SameRole(w, v) /\ SameQueue(w, v) /\ InUse(v) = {}
          /\ Progress(w, v)
        BY <2>8, <3>2
        DEF SameRole, SameQueue, SameSockets, InUse, Progress
    <3>4. /\ Steady(v, e) /\ Agrees(v)
          /\ v.session.transport.state \notin OpenStates
      <4>1. v.host.generation = {} /\ ~v.host.socketOpened
          BY <1>4, <2>5, <3>2 DEF SameSockets
      <4>  QED  BY <1>4, <2>3, <2>5, <3>2, <3>3, <4>1, Rests DEF SameQueue
    <3>  QED  BY <3>3, <3>4 DEF Restores
  <2>12. CASE r.ok /\ r.open # {}
    <3>1. Issues(s, r)
        BY <2>4, <2>12 DEF Directs
    <3>2. CanDrive(c1)
        BY <2>8, RolesDrive DEF SameQueue
    <3>3. v = OpenSocket(ScheduleDeadline(told, r.deadline),
                         CHOOSE i \in r.open : TRUE)
        BY <1>3, <2>12
    <3>4. Restores(c1, e, v) /\ v.session.transport.state = "Connecting"
        BY <2>4, <2>5, <2>6, <2>9, <2>12, <3>1, <3>2, <3>3, OpensSocket
    <3>  QED  BY <2>8, <3>4 DEF Restores, SameRole, SameQueue, OpenStates
  <2>  QED  BY <2>10, <2>11, <2>12
<1>8. CASE w.session.transport.live_attempt = {}
  <2>1. r = Refused(w.session)
      BY <1>8 DEF SocketCloseCall, IsLiveAttempt
  <2>2. ~r.ok /\ r.session = c.session
      BY <1>4, <2>1 DEF Refused
  <2>3. told = c
      BY <1>4, <2>2 DEF Worlds
  <2>4. v = c
      BY <1>3, <2>2, <2>3
  <2>5. Idle(c.session)
      BY <1>1, <1>4, <1>8 DEF Idle, Steady
  <2>  QED  BY <1>4, <1>6, <2>4, <2>5, Rests DEF Restores, SameQueue
<1>  QED  BY <1>7, <1>8 DEF Holds

(* A failure ends the attempt on which it happened.                        *)
LEMMA Fails ==
    ASSUME NEW e, NEW w, Steady(w, e), CanDrive(w), NEW g, Holds(w, g),
           NEW code, NEW m \in 0 .. MaxMillis,
           NEW v, v = FailCurrentSocket(w, g, code, m)
    PROVE  /\ Restores(w, e, v)
           /\ v.session.transport.state \notin OpenStates
<1>  DEFINE c == CloseSocket(w)
<1>1. v = ReportCurrentSocketClose(c, g, code, m)
    BY DEF FailCurrentSocket, IsCurrent, CanDrive, Holds
<1>2. /\ c \in Worlds /\ c.session = w.session /\ c.host = w.host
      /\ SameQueue(w, c) /\ c.delivered = w.delivered
      /\ Progress(w, c) /\ InUse(c) = InUse(w) \ w.host.generation
    BY ClosesSocket DEF Steady
<1>  HIDE DEF c
<1>3. InUse(c) = {} /\ Holds(c, g) /\ SameRole(w, c)
    BY <1>2 DEF Steady, Holds, SameRole
<1>4. Steady(c, e)
    BY <1>2, <1>3, StaysSteady DEF Steady, SameQueue
<1>5. CanDrive(c)
    BY <1>2, <1>3, RolesDrive DEF SameQueue
<1>6. /\ Restores(c, e, v)
      /\ v.session.transport.state \notin OpenStates
    BY <1>1, <1>3, <1>4, <1>5, ReportsClose
<1>  QED  BY <1>2, <1>3, <1>6 DEF Restores, SameQueue, SameRole

-----------------------------------------------------------------------------
(* Sending *)

(* The front of the queue is the next edit to be delivered.                *)
LEMMA DeliversNext ==
    ASSUME NEW d \in Seq(Nat), NEW q \in Seq(Updates), NEW e,
           Counted(d, q, e), q # << >>
    PROVE  /\ Append(d, Head(q).id) \in Seq(Nat)
           /\ Counted(Append(d, Head(q).id), Tail(q), e)
<1>  DEFINE f == Append(d, Head(q).id)
            r == Tail(q)
<1>1. Len(q) \in Nat \ {0} /\ Len(d) \in Nat
    OBVIOUS
<1>2. Head(q) = q[1] /\ Head(q) \in Updates
    OBVIOUS
<1>3. Head(q).id = Len(d) + 1
    BY <1>1, <1>2 DEF Counted
<1>4. f \in Seq(Nat) /\ Len(f) = Len(d) + 1
    BY <1>1, <1>3
<1>5. \A i \in 1 .. Len(f) : f[i] = i
    BY <1>1, <1>3, <1>4 DEF Counted
<1>6. /\ Len(r) = Len(q) - 1
      /\ \A i \in 1 .. Len(r) : r[i] = q[i + 1]
    BY <1>1
<1>  HIDE DEF f, r
<1>7. \A i \in 1 .. Len(r) : r[i].id = Len(f) + i
  <2>1. SUFFICES ASSUME NEW i \in 1 .. Len(r) PROVE r[i].id = Len(f) + i
      OBVIOUS
  <2>2. i + 1 \in 1 .. Len(q) /\ r[i] = q[i + 1]
      BY <1>1, <1>6
  <2>3. q[i + 1].id = Len(d) + (i + 1)
      BY <2>2 DEF Counted
  <2>  QED  BY <1>1, <1>4, <1>6, <2>2, <2>3
<1>8. Len(f) + Len(r) = e
    BY <1>1, <1>4, <1>6 DEF Counted
<1>9. f \in Seq(Nat) /\ Counted(f, r, e)
    BY <1>4, <1>5, <1>7, <1>8 DEF Counted
<1>  QED  BY <1>9 DEF f, r

LEMMA NotOpenIsWoken ==
    ASSUME NEW w, NEW n, w.session.transport.state \notin OpenStates
    PROVE  Woken(w, n)
    BY DEF Woken

(* What a handler that drives leaves.                                      *)
Proceeds(w, e) == Steady(w, e) /\ Agrees(w) /\ Woken(w, 0)

LEMMA FailureProceeds ==
    ASSUME NEW e, NEW w, Steady(w, e), CanDrive(w), NEW g, Holds(w, g),
           NEW code, NEW m \in 0 .. MaxMillis
    PROVE  Proceeds(FailCurrentSocket(w, g, code, m), e)
    BY Fails, NotOpenIsWoken DEF Restores, Proceeds

LEMMA SendsMessage ==
    ASSUME NEW e, NEW w, Steady(w, e), CanDrive(w), NEW g,
           w.host.generation = {g}, w.host.socketOpened,
           CanUseSocket(w.session.transport, g),
           NEW id, NEW l, Leased(w.session.outbox, id, l),
           Pending(w.session.outbox) > 0,
           NextKind(w.session.outbox) =
               IF w.session.outbox.protocol # << >> THEN "ProtocolReply"
                                                    ELSE "DocumentUpdate",
           w.session.outbox.protocol = << >> =>
               w.session.outbox.ordered # << >>,
           NEW u, u = [w EXCEPT !.session = [w.session EXCEPT !.outbox = l]],
           NEW lease,
           lease = [id |-> id,
                    message |-> LeaseFront(l, NextKind(w.session.outbox))],
           NEW send \in BOOLEAN, NEW m \in 0 .. MaxMillis
    PROVE  Proceeds(SendLease(u, g, lease, send, m), e)
<1>  DEFINE o == w.session.outbox
            k == NextKind(o)
            s == [w.session EXCEPT !.outbox = l]
<1>1. /\ w \in Worlds /\ w.session \in Sessions /\ o \in Outboxes
      /\ NewestAttempt(w.session.transport) /\ o.active_lease = {}
      /\ Counted(w.delivered, o.ordered, e)
      /\ w.delivered \in Seq(Nat) /\ w.queue \in Seq(Tasks)
    BY WorldFields DEF Steady
<1>2. /\ l \in Outboxes /\ l.ordered = o.ordered /\ l.protocol = o.protocol
      /\ l.active_lease = {[id |-> id, kind |-> k]}
    BY DEF Leased
<1>3. /\ s \in Sessions /\ s.transport = w.session.transport
      /\ s.outbox = l
    BY <1>1, <1>2 DEF Sessions
<1>4. /\ k \in {"ProtocolReply", "DocumentUpdate"}
      /\ k = "ProtocolReply" => l.protocol # << >>
      /\ k = "DocumentUpdate" => l.ordered # << >>
    BY <1>2
<1>5. CanSettleLease(s, g, id)
  <2>1. \E x \in l.active_lease : x.id = id
      BY <1>2
  <2>  QED  BY <1>3, <2>1, Zenon DEF CanSettleLease, MatchesLease
<1>6. g \in Nat
  <2>1. g \in w.host.generation
      OBVIOUS
  <2>2. w.host.generation \subseteq 1 .. MaxGeneration
      BY <1>1, WorldFields
  <2>  QED  BY <2>1, <2>2
<1>7. w.session.transport.last_issued \in Int
    BY <1>1, WorldFields DEF Transports
<1>  HIDE DEF s, o, k
<1>8. u = [w EXCEPT !.session = s]
    BY DEF s
<1>9. /\ u \in Worlds /\ u.session = s /\ u.host = w.host
      /\ u.sockets = w.sockets /\ SameQueue(w, u)
      /\ u.delivered = w.delivered
    BY <1>1, <1>3, <1>8 DEF Worlds, SameQueue
<1>10. lease.id = id /\ lease.message = LeaseFront(l, k)
    BY DEF k, o
<1>11. CASE send
  <2>  DEFINE a == AckLease(l)
              c == AckOutbound(s)
              d == IF IsDocument(lease.message)
                     THEN Append(w.delivered, lease.message.id)
                     ELSE w.delivered
              task == [task |-> "DriveIfCurrent", generation |-> g]
              v == SendLease(u, g, lease, send, m)
  <2>1. /\ a \in Outboxes /\ a.active_lease = {}
        /\ a.ordered = IF k = "DocumentUpdate" THEN Tail(l.ordered)
                                               ELSE l.ordered
      BY <1>2, <1>4, AcksLease
  <2>2. c = [s EXCEPT !.outbox = a]
      BY <1>3 DEF AckOutbound, Sessions
  <2>  HIDE DEF a, c
  <2>3. /\ c \in Sessions /\ c.transport = w.session.transport
        /\ c.outbox = a
      BY <1>3, <2>1, <2>2, SessionFields
  <2>4. d \in Seq(Nat) /\ Counted(d, a.ordered, e)
    <3>1. l.ordered \in Seq(Updates) /\ l.protocol \in Seq(Replies)
        BY <1>2, OutboxFields
    <3>2. CASE k = "DocumentUpdate"
      <4>1. lease.message = Head(l.ordered) /\ Head(l.ordered) \in Updates
          BY <1>4, <1>10, <3>1, <3>2 DEF LeaseFront
      <4>2. d = Append(w.delivered, Head(l.ordered).id)
          BY <4>1, MessagesAre DEF IsDocument
      <4>  HIDE DEF d
      <4>3. Counted(w.delivered, l.ordered, e) /\ l.ordered # << >>
          BY <1>1, <1>2, <1>4, <3>2
      <4>  QED  BY <1>1, <2>1, <3>1, <3>2, <4>2, <4>3, DeliversNext
    <3>3. CASE k = "ProtocolReply"
      <4>1. lease.message = Head(l.protocol) /\ Head(l.protocol) \in Replies
          BY <1>4, <1>10, <3>1, <3>3 DEF LeaseFront
      <4>2. d = w.delivered
          BY <4>1, MessagesAre DEF IsDocument
      <4>  HIDE DEF d
      <4>  QED  BY <1>1, <1>2, <2>1, <3>3, <4>2
    <3>  QED  BY <1>4, <3>2, <3>3
  <2>5. task \in Tasks /\ task.task = "DriveIfCurrent" /\ task.generation = g
      BY <1>6 DEF Tasks
  <2>6. v = [[[u EXCEPT !.delivered = d] EXCEPT !.session = c] EXCEPT
                !.queue = Append(w.queue, task)]
    <3>1. /\ [u EXCEPT !.delivered = IF IsDocument(lease.message)
                          THEN Append(@, lease.message.id) ELSE @]
               = [u EXCEPT !.delivered = d]
          /\ [u EXCEPT !.delivered = d].session = s
          /\ [[u EXCEPT !.delivered = d] EXCEPT !.session = c].queue = w.queue
        BY <1>9 DEF Worlds, SameQueue
    <3>2. CanSettleLease(u.session, g, lease.id)
        BY <1>5, <1>9, <1>10
    <3>3. v = Post([[u EXCEPT !.delivered = d] EXCEPT
                        !.session = AckOutbound(@)], task)
        BY <1>11, <3>1, <3>2, Zenon DEF SendLease
    <3>  HIDE DEF v, d, task
    <3>4. [[u EXCEPT !.delivered = d] EXCEPT !.session = AckOutbound(@)]
             = [[u EXCEPT !.delivered = d] EXCEPT !.session = c]
        BY <3>1 DEF c
    <3>  QED  BY <3>1, <3>3, <3>4 DEF Post
  <2>  HIDE DEF v, d, task
  <2>7. Append(w.queue, task) \in Seq(Tasks)
      BY <1>1, <2>5
  <2>8. /\ v \in Worlds /\ v.session = c /\ v.host = w.host
        /\ v.sockets = w.sockets /\ v.queue = Append(w.queue, task)
        /\ v.delivered = d
      BY <1>9, <2>3, <2>4, <2>6, <2>7 DEF Worlds
  <2>9. Progress(w, v)
      BY <1>7, <2>3, <2>8 DEF Progress
  <2>10. EndsAreTrue(v)
      BY <1>1, <2>5, <2>8, <2>9, PostsTask DEF Steady
  <2>11. Steady(v, e)
    <3>1. InUse(v) \subseteq v.host.generation
        BY <2>8 DEF InUse, Steady
    <3>  QED  BY <1>1, <2>1, <2>3, <2>4, <2>8, <2>9, <2>10, <3>1, SteadyAfter
              DEF Steady
  <2>12. Agrees(v)
      BY <2>3, <2>8 DEF Agrees, CanUseSocket, IsLiveAttempt
  <2>13. Woken(v, 0)
    <3>1. /\ Len(w.queue) + 1 \in DOMAIN v.queue
          /\ v.queue[Len(w.queue) + 1] = task
        BY <1>1, <2>5, <2>8
    <3>  QED  BY <2>5, <2>8, <3>1 DEF Woken
  <2>  QED  BY <2>11, <2>12, <2>13 DEF Proceeds, v
<1>12. CASE ~send
  <2>  DEFINE a == ReleaseLease(l)
              c == NackOutbound(s)
              v == [u EXCEPT !.session = c]
  <2>1. a \in Outboxes /\ a.active_lease = {} /\ a.ordered = l.ordered
      BY <1>2, ReleasesLease
  <2>2. c = [s EXCEPT !.outbox = a]
      BY <1>3 DEF NackOutbound, NackLease, Sessions
  <2>  HIDE DEF a, c
  <2>3. /\ c \in Sessions /\ c.transport = w.session.transport
        /\ c.outbox = a
      BY <1>3, <2>1, <2>2, SessionFields
  <2>4. /\ v \in Worlds /\ v.session = c /\ v.host = u.host
        /\ v.sockets = u.sockets /\ SameQueue(u, v)
        /\ v.delivered = u.delivered
      BY <1>9, <2>3, SetsSession, Zenon
  <2>5. SendLease(u, g, lease, send, m) = FailCurrentSocket(v, g, NoCode, m)
    <3>1. [u EXCEPT !.session = NackOutbound(@)] = v
        BY <1>9 DEF Worlds, c
    <3>2. CanSettleLease(u.session, g, lease.id)
        BY <1>5, <1>9, <1>10
    <3>  HIDE DEF v
    <3>  QED  BY <1>12, <3>1, <3>2 DEF SendLease
  <2>  HIDE DEF v
  <2>6. /\ SameRole(w, v) /\ SameQueue(w, v) /\ Progress(w, v)
        /\ v.host = w.host /\ v.delivered = w.delivered
        /\ InUse(v) = InUse(w)
      BY <1>7, <1>9, <2>3, <2>4
      DEF SameRole, SameQueue, Progress, InUse
  <2>7. Steady(v, e)
      BY <1>1, <1>2, <2>1, <2>3, <2>4, <2>6, StaysSteady
      DEF Steady, SameQueue
  <2>8. CanDrive(v) /\ Holds(v, g)
      BY <2>3, <2>4, <2>6, RolesDrive
      DEF SameQueue, Holds, CanUseSocket, IsLiveAttempt
  <2>  QED  BY <2>5, <2>7, <2>8, FailureProceeds
<1>  QED  BY <1>11, <1>12

(* A host that may act on the directive of its session: they agree, or the *)
(* session has given up the attempt of an open socket, which the next send *)
(* finds out.                                                              *)
Ready(w) == Agrees(w) \/ (w.host.socketOpened /\ \E g : Holds(w, g))

LEMMA AgreesWithOne ==
    ASSUME NEW w \in Worlds, NewestAttempt(w.session.transport), Ready(w)
    PROVE  /\ \A g : w.host.generation = {g} => Holds(w, g)
           /\ w.host.generation = {} \/ \E g : w.host.generation = {g}
           /\ w.host.generation = {} \/ ~w.host.socketOpened =>
                 Agrees(w) /\ w.session.transport.state \notin OpenStates
<1>1. CASE Agrees(w)
    BY <1>1, WorldFields
    DEF Agrees, Holds, NewestAttempt, AttemptStates, OpenStates
<1>2. CASE w.host.socketOpened /\ \E g : Holds(w, g)
    BY <1>2 DEF Holds
<1>  QED  BY <1>1, <1>2 DEF Ready

LEMMA DrivesOutbound ==
    ASSUME NEW e, NEW w, Steady(w, e), CanDrive(w), Ready(w),
           NEW send \in BOOLEAN, NEW m \in 0 .. MaxMillis
    PROVE  Proceeds(DriveOutboundIfPossible(w, send, m), e)
<1>  DEFINE s == w.session
            o == w.session.outbox
<1>1. /\ w \in Worlds /\ s \in Sessions /\ o \in Outboxes
      /\ NewestAttempt(s.transport) /\ o.active_lease = {}
    BY WorldFields DEF Steady
<1>2. CASE w.host.generation = {} \/ ~w.host.socketOpened
  <2>1. DriveOutboundIfPossible(w, send, m) = w
      BY <1>2 DEF DriveOutboundIfPossible
  <2>  QED  BY <1>1, <1>2, <2>1, AgreesWithOne, NotOpenIsWoken DEF Proceeds
<1>3. CASE w.host.generation # {} /\ w.host.socketOpened
  <2>  DEFINE g == CHOOSE i \in w.host.generation : TRUE
              r == LeaseOutbound(s, g)
              u == [w EXCEPT !.session = r.session]
  <2>1. w.host.generation = {g}
      BY <1>1, <1>3, AgreesWithOne
  <2>2. Holds(w, g)
      BY <1>1, <2>1, AgreesWithOne
  <2>3. DriveOutboundIfPossible(w, send, m) =
            IF ~r.ok
              THEN FailCurrentSocket(w, g, PolicyViolation, m)
            ELSE IF r.lease = {} THEN u
            ELSE SendLease(u, g, CHOOSE lease \in r.lease : TRUE, send, m)
      BY <1>3 DEF DriveOutboundIfPossible
  <2>  HIDE DEF g
  <2>4. CASE ~r.ok
      BY <2>2, <2>3, <2>4, FailureProceeds
  <2>5. CASE r.ok
    <3>1. /\ CanUseSocket(s.transport, g)
          /\ Pending(o) > 0 => o.next_lease_id # {}
        BY <1>1, <2>5 DEF LeaseOutbound
    <3>2. Agrees(w)
        BY <1>3, <2>1, <3>1 DEF Agrees, CanUseSocket, IsLiveAttempt
    <3>3. CASE ~(Pending(o) > 0)
      <4>1. [s EXCEPT !.outbox = o] = s
          BY <1>1 DEF Sessions
      <4>2. r = [ok |-> TRUE, session |-> [s EXCEPT !.outbox = o],
                 lease |-> {}]
          BY <1>1, <3>1, <3>3 DEF LeaseOutbound, CanLease
      <4>3. r.session = s /\ r.lease = {}
          BY <4>1, <4>2
      <4>4. u = w
          BY <1>1, <4>3 DEF Worlds
      <4>5. Woken(w, 0)
          BY <3>3 DEF Woken
      <4>  QED  BY <2>3, <2>5, <3>2, <4>3, <4>4, <4>5 DEF Proceeds
    <3>4. CASE Pending(o) > 0
      <4>1. /\ NextKind(o) = IF o.protocol # << >> THEN "ProtocolReply"
                                                   ELSE "DocumentUpdate"
            /\ o.protocol = << >> => o.ordered # << >>
            /\ \E id \in Nat : Leased(o, id, LeaseNext(o))
          BY <1>1, <3>1, <3>4, LeasesNext
      <4>2. PICK id \in Nat : Leased(o, id, LeaseNext(o))
          BY <4>1
      <4>  DEFINE l == LeaseNext(o)
                  lease == [id |-> id, message |-> LeaseFront(l, NextKind(o))]
      <4>3. CanLease(o)
          BY <1>1, <3>1, <3>4 DEF CanLease
      <4>4. r = [ok |-> TRUE, session |-> [s EXCEPT !.outbox = l],
                 lease |-> {[id |-> x.id,
                             message |-> LeaseFront(l, x.kind)] :
                                x \in l.active_lease}]
          BY <1>1, <3>1, <3>4, <4>3 DEF LeaseOutbound
      <4>5. l.active_lease = {[id |-> id, kind |-> NextKind(o)]}
          BY <4>2 DEF Leased
      <4>6. r.session = [s EXCEPT !.outbox = l] /\ r.lease = {lease}
        <5>  HIDE DEF l, r
        <5>1. {[id |-> x.id, message |-> LeaseFront(l, x.kind)] :
                   x \in l.active_lease} = {lease}
            BY <4>5
        <5>  QED  BY <4>4, <5>1
      <4>7. (CHOOSE x \in r.lease : TRUE) = lease /\ r.lease # {}
          BY <4>6
      <4>  HIDE DEF r, l, lease
      <4>8. DriveOutboundIfPossible(w, send, m)
                = SendLease(u, g, lease, send, m)
          BY <2>3, <2>5, <4>7
      <4>9. u = [w EXCEPT !.session = [w.session EXCEPT !.outbox = l]]
          BY <4>6
      <4>10. lease = [id |-> id,
                      message |-> LeaseFront(l, NextKind(w.session.outbox))]
          BY DEF lease
      <4>11. Leased(w.session.outbox, id, l)
          BY <4>2 DEF l
      <4>  HIDE DEF u
      <4>12. Proceeds(SendLease(u, g, lease, send, m), e)
          BY <1>3, <2>1, <3>1, <3>4, <4>1, <4>9, <4>10, <4>11, SendsMessage
      <4>  QED  BY <4>8, <4>12
    <3>  QED  BY <3>3, <3>4
  <2>  QED  BY <2>4, <2>5
<1>  QED  BY <1>2, <1>3

-----------------------------------------------------------------------------
(* Acting on a directive *)

LEMMA ConsumesDirective ==
    ASSUME NEW e, NEW w, Steady(w, e), CanDrive(w), Ready(w),
           NEW r, r.ok, Directs(w.session, r),
           NEW send \in BOOLEAN, NEW m \in 0 .. MaxMillis
    PROVE  Proceeds(ConsumeDirective(w, r, send, m), e)
<1>  DEFINE told == [w EXCEPT !.session = r.session]
            scheduled == ScheduleDeadline(told, r.deadline)
<1>1. CASE r.open = {}
  <2>1. w \in Worlds /\ r.session = w.session
        /\ r.deadline \in SUBSET (0 .. MaxMillis)
      BY <1>1 DEF Steady, Directs, Issues
  <2>2. told = w
      BY <2>1 DEF Worlds
  <2>  DEFINE v == ScheduleDeadline(w, r.deadline)
  <2>3. ConsumeDirective(w, r, send, m) = DriveOutboundIfPossible(v, send, m)
      BY <1>1, <2>2 DEF ConsumeDirective
  <2>4. /\ v \in Worlds /\ v.session = w.session
        /\ SameRole(w, v) /\ SameSockets(w, v)
        /\ SameQueue(w, v) /\ v.delivered = w.delivered
      BY <2>1, SchedulesDeadline
  <2>  HIDE DEF v
  <2>5. w.session.transport.last_issued \in Int
      BY <2>1, WorldFields DEF Transports
  <2>6. Progress(w, v) /\ InUse(v) = InUse(w)
      BY <2>4, <2>5 DEF SameSockets, Progress, InUse
  <2>7. Connects(v.host) <=> Connects(w.host)
      BY <2>4, RolesDrive
  <2>8. Steady(v, e)
      BY <2>4, <2>6, <2>7, StaysSteady DEF Steady, SameQueue, SameSockets
  <2>9. CanDrive(v) /\ Ready(v)
      BY <2>4, RolesDrive DEF SameQueue, SameSockets, Ready, Agrees, Holds
  <2>  QED  BY <2>3, <2>8, <2>9, DrivesOutbound
<1>2. CASE r.open # {}
  <2>1. Issues(w.session, r)
      BY <1>2 DEF Directs
  <2>2. ConsumeDirective(w, r, send, m)
            = OpenSocket(scheduled, CHOOSE g \in r.open : TRUE)
      BY <1>2 DEF ConsumeDirective
  <2>3. /\ Restores(w, e, ConsumeDirective(w, r, send, m))
        /\ ConsumeDirective(w, r, send, m).session.transport.state
              = "Connecting"
      BY <2>1, <2>2, OpensSocket
  <2>  QED  BY <2>3, NotOpenIsWoken DEF Restores, Proceeds, OpenStates
<1>  QED  BY <1>1, <1>2

LEMMA DrivesHost ==
    ASSUME NEW e, NEW w, Steady(w, e), Agrees(w),
           NEW send \in BOOLEAN, NEW m \in 0 .. MaxMillis
    PROVE  Proceeds(DriveHost(w, send, m), e)
<1>  DEFINE r == FinishDirective(w.session, m)
<1>1. /\ w \in Worlds /\ w.session \in Sessions
      /\ NewestAttempt(w.session.transport)
    BY WorldFields DEF Steady
<1>2. /\ Directs(w.session, r)
      /\ ~r.ok => w.session.transport.state = "Disconnected"
    BY <1>1, Finishes
<1>3. CASE ~CanDrive(w)
  <2>1. DriveHost(w, send, m) = w /\ Woken(w, 0)
      BY <1>3 DEF DriveHost, Woken
  <2>  QED  BY <2>1 DEF Proceeds
<1>4. CASE CanDrive(w)
  <2>1. DriveHost(w, send, m) = ConsumeDirective(w, r, send, m)
      BY <1>4 DEF DriveHost
  <2>  HIDE DEF r
  <2>2. CASE r.ok
      BY <1>2, <1>4, <2>1, <2>2, ConsumesDirective DEF Ready
  <2>3. CASE ~r.ok
    <3>1. ConsumeDirective(w, r, send, m) = [w EXCEPT !.session = r.session]
        BY <2>3 DEF ConsumeDirective
    <3>2. r.session = w.session
        BY <1>2, <2>3 DEF Directs
    <3>3. ConsumeDirective(w, r, send, m) = w
        BY <1>1, <3>1, <3>2 DEF Worlds
    <3>4. Woken(w, 0)
        BY <1>2, <2>3, NotOpenIsWoken DEF OpenStates
    <3>  QED  BY <2>1, <3>3, <3>4 DEF Proceeds
  <2>  QED  BY <2>2, <2>3
<1>  QED  BY <1>3, <1>4

-----------------------------------------------------------------------------
(* Callbacks of a socket *)

(* A session that keeps its edits, and its attempt unless it gives it up.  *)
Keeps(s, c) ==
    /\ c \in Sessions
    /\ NewestAttempt(c.transport)
    /\ c.transport.last_issued = s.transport.last_issued
    /\ c.transport.live_attempt \in {{}, s.transport.live_attempt}
    /\ c.outbox.active_lease = {}
    /\ c.outbox.ordered = s.outbox.ordered

LEMMA KeepsSteady ==
    ASSUME NEW e, NEW w, Steady(w, e), NEW c, Keeps(w.session, c),
           NEW v, v = [w EXCEPT !.session = c]
    PROVE  /\ Steady(v, e)
           /\ v.session = c /\ v.host = w.host /\ SameQueue(w, v)
           /\ CanDrive(v) <=> CanDrive(w)
           /\ \A g : Holds(w, g) => Holds(v, g)
<1>1. w \in Worlds /\ c \in Sessions
    BY DEF Steady, Keeps
<1>2. /\ v \in Worlds /\ v.session = c
      /\ v.host = w.host /\ v.sockets = w.sockets
      /\ SameQueue(w, v) /\ v.delivered = w.delivered
    BY <1>1, SetsSession
<1>3. w.session.transport.last_issued \in Int
    BY <1>1, WorldFields DEF Transports
<1>4. Progress(w, v) /\ InUse(v) = InUse(w)
    BY <1>2, <1>3 DEF Progress, InUse, Keeps
<1>5. Counted(v.delivered, v.session.outbox.ordered, e)
    BY <1>2 DEF Steady, Keeps
<1>6. Steady(v, e)
    BY <1>2, <1>4, <1>5, StaysSteady DEF Steady, Keeps, SameQueue
<1>7. CanDrive(v) <=> CanDrive(w)
    BY <1>2 DEF CanDrive, SameQueue
<1>8. \A g : Holds(w, g) => Holds(v, g)
    BY <1>2 DEF Holds, Keeps
<1>  QED  BY <1>2, <1>6, <1>7, <1>8

(* A frame that is received on an open attempt.                            *)
LEMMA ReceivesMessage ==
    ASSUME NEW s \in Sessions, NewestAttempt(s.transport),
           s.outbox.active_lease = {}, s.transport.state \in OpenStates,
           NEW message \in PeerMessages(Faults), NEW m \in 0 .. MaxMillis,
           NEW c, c = ReceiveMessage(s, message, m)
    PROVE  Keeps(s, c)
<1>  DEFINE x == SynchronizationGate(s, message)
<1>1. s.transport \in Transports /\ s.outbox \in Outboxes
    BY SessionFields
<1>2. /\ x \in Sessions /\ NewestAttempt(x.transport)
      /\ x.transport.last_issued = s.transport.last_issued
      /\ x.transport.live_attempt = s.transport.live_attempt
      /\ x.outbox = s.outbox
  <2>1. CASE message.step2 /\ s.transport.state = "Handshaking"
    <3>  DEFINE t == MarkSynchronized(s.transport)
    <3>1. x = [s EXCEPT !.transport = t, !.document_state = "RoomReady"]
        BY <2>1 DEF SynchronizationGate, Sessions
    <3>2. /\ t \in Transports /\ NewestAttempt(t)
          /\ t.live_attempt = s.transport.live_attempt
          /\ t.last_issued = s.transport.last_issued
        BY <1>1, <2>1, OpensTransport
    <3>  HIDE DEF t
    <3>3. x \in Sessions /\ x.transport = t /\ x.outbox = s.outbox
        BY <3>1, <3>2 DEF Sessions, DocumentStates
    <3>  QED  BY <3>2, <3>3
  <2>2. CASE ~(message.step2 /\ s.transport.state = "Handshaking")
      BY <2>2 DEF SynchronizationGate
  <2>  QED  BY <2>1, <2>2
<1>  HIDE DEF x
<1>3. ASSUME NEW y \in Sessions, NEW d, c = CloseSession(y, d, m),
             y.transport.last_issued = s.transport.last_issued,
             y.outbox = s.outbox
      PROVE  Keeps(s, c)
  <2>1. GivesUp(y, c)
      BY <1>3, ClosesSession
  <2>2. /\ Idle(c) /\ c \in Sessions
        /\ c.outbox.ordered = y.outbox.ordered
        /\ c.transport.last_issued = y.transport.last_issued
      BY <2>1, GivenUpIsIdle
  <2>  QED  BY <1>3, <2>2 DEF Keeps, Idle
<1>4. CASE message.asks /\ ~Admits(s.outbox, "ProtocolReply", 1, 1)
  <2>1. c = CloseSession(s, "Retryable", m)
      BY <1>4 DEF ReceiveMessage
  <2>  QED  BY <1>3, <2>1
<1>5. CASE /\ ~(message.asks /\ ~Admits(s.outbox, "ProtocolReply", 1, 1))
           /\ RefusedInitialization(s, message)
  <2>1. c = CloseSession(s, "Incompatible", m)
      BY <1>5 DEF ReceiveMessage
  <2>  QED  BY <1>3, <2>1
<1>6. CASE /\ ~(message.asks /\ ~Admits(s.outbox, "ProtocolReply", 1, 1))
           /\ ~RefusedInitialization(s, message)
  <2>1. CASE message.fault # "None"
    <3>1. c = CloseSession(x, message.fault, m)
        BY <1>6, <2>1 DEF ReceiveMessage, x
    <3>  QED  BY <1>2, <1>3, <3>1
  <2>2. CASE message.fault = "None" /\ message.asks
    <3>  DEFINE o == Install(x.outbox, "ProtocolReply",
                             <<Message("ProtocolReply", 0)>>)
    <3>1. o \in Outboxes /\ o.ordered = s.outbox.ordered
          /\ o.active_lease = {}
        BY <1>1, <1>2, InstallsReply
    <3>2. c = [x EXCEPT !.outbox = o]
        BY <1>2, <1>6, <2>2 DEF ReceiveMessage, x, Sessions
    <3>  HIDE DEF o
    <3>3. c \in Sessions /\ c.transport = x.transport /\ c.outbox = o
        BY <1>2, <3>1, <3>2 DEF Sessions
    <3>  QED  BY <1>2, <3>1, <3>3 DEF Keeps
  <2>3. CASE message.fault = "None" /\ ~message.asks
    <3>1. c = x
        BY <1>6, <2>3 DEF ReceiveMessage, x
    <3>  QED  BY <1>2, <3>1 DEF Keeps
  <2>  QED  BY <2>1, <2>2, <2>3
<1>  QED  BY <1>4, <1>5, <1>6

(* A callback leaves what drives, or nothing changed.                      *)
Answers(w, e, v) == Proceeds(v, e) \/ v = w

LEMMA CurrentDrives ==
    ASSUME NEW e, NEW w, Steady(w, e), NEW g, IsCurrent(w, g)
    PROVE  CanDrive(w) /\ w.host.generation = {g}
    BY DrivesWhenConnects DEF Steady, IsCurrent

LEMMA OpensOnCallback ==
    ASSUME NEW e, NEW w, Steady(w, e), Agrees(w), NEW g,
           NEW send \in BOOLEAN, NEW m \in 0 .. MaxMillis
    PROVE  Answers(w, e, SocketDidOpen(w, g, send, m))
<1>1. CASE ~IsCurrent(w, g) \/ w.host.socketOpened
    BY <1>1 DEF SocketDidOpen, Answers
<1>2. CASE IsCurrent(w, g) /\ ~w.host.socketOpened
  <2>  DEFINE s == w.session
              r == SocketOpenCall(s, g, m)
              u == [w EXCEPT !.host.socketOpened = TRUE]
              told == ConsumeDirective(u, r, send, m)
  <2>1. /\ w \in Worlds /\ s \in Sessions /\ s.transport \in Transports
        /\ s.outbox \in Outboxes
        /\ NewestAttempt(s.transport) /\ s.outbox.active_lease = {}
      BY WorldFields DEF Steady
  <2>2. CanDrive(w) /\ w.host.generation = {g}
      BY <1>2, CurrentDrives
  <2>3. Holds(w, g)
      BY <2>2 DEF Agrees, Holds
  <2>4. SocketDidOpen(w, g, send, m) =
            IF r.ok THEN told
                    ELSE FailCurrentSocket(told, g, PolicyViolation, m)
      BY <1>2 DEF SocketDidOpen
  <2>5. /\ u \in Worlds /\ u.session = s /\ SameRole(w, u)
        /\ u.host.generation = {g} /\ u.host.socketOpened
        /\ u.sockets = w.sockets /\ SameQueue(w, u)
        /\ u.delivered = w.delivered
    <3>  DEFINE h == [w.host EXCEPT !.socketOpened = TRUE]
    <3>1. /\ h \in Hosts /\ h.generation = {g} /\ h.socketOpened
          /\ h.hostState = w.host.hostState
          /\ h.nativeAttached = w.host.nativeAttached
          /\ h.connect = w.host.connect /\ h.destroyed = w.host.destroyed
        BY <2>1, <2>2, WorldFields DEF Hosts
    <3>2. u = [w EXCEPT !.host = h]
        BY <2>1 DEF Worlds
    <3>  HIDE DEF h
    <3>  QED  BY <2>1, <3>1, <3>2 DEF Worlds, SameRole, SameQueue
  <2>  HIDE DEF u
  <2>6. w.session.transport.last_issued \in Int
      BY <2>1, WorldFields DEF Transports
  <2>7. Steady(u, e)
    <3>1. Progress(w, u) /\ InUse(u) = InUse(w)
        BY <2>5, <2>6 DEF Progress, InUse
    <3>2. Connects(u.host) <=> Connects(w.host)
        BY <2>5, RolesDrive
    <3>  QED  BY <2>2, <2>5, <3>1, <3>2, StaysSteady DEF Steady, SameQueue
  <2>8. CanDrive(u) /\ Holds(u, g)
      BY <2>2, <2>3, <2>5, RolesDrive DEF SameQueue, Holds
  <2>9. CASE /\ CanOpenSocket(s.transport, g)
             /\ Admits(s.outbox, "ProtocolReply", 1, 1)
    <3>  DEFINE t == SocketOpened(s.transport)
                o == Install(s.outbox, "ProtocolReply",
                             <<Message("ProtocolReply", 0)>>)
                c == [s EXCEPT !.transport = t, !.outbox = o]
                x == [u EXCEPT !.session = c]
    <3>1. /\ t \in Transports /\ NewestAttempt(t) /\ t.state = "Handshaking"
          /\ t.live_attempt = s.transport.live_attempt
          /\ t.last_issued = s.transport.last_issued
        BY <2>1, <2>9, OpensTransport DEF CanOpenSocket
    <3>2. o \in Outboxes /\ o.ordered = s.outbox.ordered
          /\ o.active_lease = {}
        BY <2>1, InstallsReply
    <3>3. r = FinishDirective(c, m)
        BY <2>1, <2>9 DEF SocketOpenCall, Sessions
    <3>  HIDE DEF t, o
    <3>4. c \in Sessions /\ c.transport = t /\ c.outbox = o
        BY <2>1, <3>1, <3>2 DEF Sessions
    <3>  HIDE DEF c, s
    <3>5. Keeps(u.session, c)
        BY <2>5, <3>1, <3>2, <3>4 DEF Keeps
    <3>6. Directs(c, r) /\ (~r.ok => c.transport.state = "Disconnected")
        BY <3>1, <3>3, <3>4, Finishes
    <3>7. r.ok
        BY <3>1, <3>4, <3>6
    <3>8. /\ Steady(x, e) /\ x.session = c /\ x.host = u.host
          /\ CanDrive(x)
        BY <2>7, <2>8, <3>5, KeepsSteady
    <3>9. Agrees(x)
        BY <2>2, <2>5, <3>1, <3>4, <3>8 DEF Agrees, OpenStates, s
    <3>  HIDE DEF r
    <3>10. ConsumeDirective(x, r, send, m) = told
      <4>1. [x EXCEPT !.session = r.session] = [u EXCEPT !.session = r.session]
          BY <2>5 DEF Worlds
      <4>  HIDE DEF x
      <4>  QED  BY <4>1 DEF ConsumeDirective
    <3>  HIDE DEF x, told
    <3>11. Proceeds(told, e)
        BY <3>6, <3>7, <3>8, <3>9, <3>10, ConsumesDirective DEF Ready
    <3>  QED  BY <2>4, <3>7, <3>11 DEF Answers
  <2>10. CASE ~(/\ CanOpenSocket(s.transport, g)
                /\ Admits(s.outbox, "ProtocolReply", 1, 1))
    <3>1. r = Refused(s)
        BY <2>10 DEF SocketOpenCall
    <3>2. ~r.ok /\ r.session = s
        BY <3>1 DEF Refused
    <3>3. told = [u EXCEPT !.session = s]
        BY <3>2 DEF ConsumeDirective
    <3>4. told = u
        BY <2>5, <3>3 DEF Worlds
    <3>  QED  BY <2>4, <2>7, <2>8, <3>2, <3>4, FailureProceeds DEF Answers
  <2>  QED  BY <2>9, <2>10
<1>  QED  BY <1>1, <1>2

LEMMA ReceivesOnCallback ==
    ASSUME NEW e, NEW w, Steady(w, e), Agrees(w), NEW g,
           NEW message \in PeerMessages(Faults),
           NEW send \in BOOLEAN, NEW m \in 0 .. MaxMillis
    PROVE  Answers(w, e, SocketDidReceive(w, g, message, send, m))
<1>1. CASE ~IsCurrent(w, g)
    BY <1>1 DEF SocketDidReceive, Answers
<1>2. CASE IsCurrent(w, g)
  <2>  DEFINE s == w.session
              r == ReceiveCall(s, g, message, m)
              told == ConsumeDirective(w, r, send, m)
  <2>1. /\ w \in Worlds /\ s \in Sessions
        /\ NewestAttempt(s.transport) /\ s.outbox.active_lease = {}
      BY WorldFields DEF Steady
  <2>2. CanDrive(w) /\ w.host.generation = {g}
      BY <1>2, CurrentDrives
  <2>3. Holds(w, g)
      BY <2>2 DEF Agrees, Holds
  <2>4. CASE ~w.host.socketOpened
    <3>1. SocketDidReceive(w, g, message, send, m)
              = FailCurrentSocket(w, g, PolicyViolation, m)
        BY <1>2, <2>4 DEF SocketDidReceive
    <3>  QED  BY <2>2, <2>3, <3>1, FailureProceeds DEF Answers
  <2>5. CASE w.host.socketOpened
    <3>1. SocketDidReceive(w, g, message, send, m) =
              IF r.ok THEN told
                      ELSE FailCurrentSocket(told, g, PolicyViolation, m)
        BY <1>2, <2>5 DEF SocketDidReceive
    <3>2. CASE CanUseSocket(s.transport, g)
      <4>  DEFINE c == ReceiveMessage(s, message, m)
                  x == [w EXCEPT !.session = c]
      <4>1. r = FinishDirective(c, m)
          BY <3>2 DEF ReceiveCall
      <4>2. Keeps(s, c)
          BY <2>1, <3>2, ReceivesMessage DEF CanUseSocket
      <4>  HIDE DEF c
      <4>3. Directs(c, r)
          BY <4>1, <4>2, Finishes DEF Keeps
      <4>4. /\ Steady(x, e) /\ x.session = c /\ x.host = w.host
            /\ CanDrive(x) /\ Holds(x, g)
          BY <2>2, <2>3, <4>2, KeepsSteady
      <4>  HIDE DEF r
      <4>5. ConsumeDirective(x, r, send, m) = told
        <5>1. [x EXCEPT !.session = r.session]
                  = [w EXCEPT !.session = r.session]
            BY <2>1 DEF Worlds
        <5>  HIDE DEF x
        <5>  QED  BY <5>1 DEF ConsumeDirective
      <4>6. CASE r.ok
        <5>  HIDE DEF x, told
        <5>1. Ready(x)
            BY <2>5, <4>4 DEF Ready
        <5>2. Proceeds(told, e)
            BY <4>3, <4>4, <4>5, <4>6, <5>1, ConsumesDirective
        <5>  QED  BY <3>1, <4>6, <5>2 DEF Answers
      <4>7. CASE ~r.ok
        <5>1. r.session = c
            BY <4>3, <4>7 DEF Directs
        <5>2. told = x
            BY <4>7, <5>1 DEF ConsumeDirective
        <5>  HIDE DEF x, told
        <5>  QED  BY <3>1, <4>4, <4>7, <5>2, FailureProceeds DEF Answers
      <4>  QED  BY <4>6, <4>7
    <3>3. CASE ~CanUseSocket(s.transport, g)
      <4>1. r = Refused(s)
          BY <3>3 DEF ReceiveCall
      <4>2. ~r.ok /\ r.session = s
          BY <4>1 DEF Refused
      <4>3. told = [w EXCEPT !.session = s]
          BY <4>2 DEF ConsumeDirective
      <4>4. told = w
          BY <2>1, <4>3 DEF Worlds
      <4>  QED  BY <2>2, <2>3, <3>1, <4>2, <4>4, FailureProceeds DEF Answers
    <3>  QED  BY <3>2, <3>3
  <2>  QED  BY <2>4, <2>5
<1>  QED  BY <1>1, <1>2

(* A failure or a close reported for the current socket.                   *)
LEMMA EndsOnCallback ==
    ASSUME NEW e, NEW w, Steady(w, e), Agrees(w), NEW g, NEW code,
           NEW m \in 0 .. MaxMillis
    PROVE  /\ Answers(w, e, FailCurrentSocket(w, g, code, m))
           /\ g \in DOMAIN w.sockets /\ w.sockets[g] = "ended" =>
                 Answers(w, e, SocketDidClose(w, g, code, m))
<1>1. CASE ~IsCurrent(w, g)
    BY <1>1 DEF FailCurrentSocket, SocketDidClose, Answers
<1>2. CASE IsCurrent(w, g)
  <2>1. CanDrive(w) /\ w.host.generation = {g}
      BY <1>2, CurrentDrives
  <2>2. Holds(w, g)
      BY <2>1 DEF Agrees, Holds
  <2>3. Proceeds(FailCurrentSocket(w, g, code, m), e)
      BY <2>1, <2>2, FailureProceeds
  <2>4. ASSUME g \in DOMAIN w.sockets, w.sockets[g] = "ended"
        PROVE  Proceeds(SocketDidClose(w, g, code, m), e)
    <3>1. InUse(w) = {}
        BY <2>1, <2>4 DEF Steady, InUse
    <3>2. SocketDidClose(w, g, code, m)
              = ReportCurrentSocketClose(w, g, code, m)
        BY <1>2 DEF SocketDidClose
    <3>  QED  BY <2>1, <2>2, <3>1, <3>2, ReportsClose, NotOpenIsWoken
              DEF Restores, Proceeds
  <2>  QED  BY <2>3, <2>4 DEF Answers
<1>  QED  BY <1>1, <1>2

-----------------------------------------------------------------------------
(* Lifecycle *)

Stands(w, e, n) == Steady(w, e) /\ Agrees(w) /\ Woken(w, n)

LEMMA ProceedingStands ==
    ASSUME NEW w, NEW e, NEW n, Proceeds(w, e)
    PROVE  Stands(w, e, n)
    BY DEF Proceeds, Stands, Woken

(* Two worlds that differ in the role of the host alone.                   *)
SameButRole(w, v) ==
    /\ v \in Worlds
    /\ v.session = w.session
    /\ SameSockets(w, v)
    /\ SameQueue(w, v)
    /\ v.delivered = w.delivered

LEMMA ChangesRole ==
    ASSUME NEW w, NEW e, Steady(w, e), Agrees(w), NEW v, SameButRole(w, v),
           v.host.generation # {} => Connects(v.host)
    PROVE  Steady(v, e) /\ Agrees(v)
<1>1. w.session.transport.last_issued \in Int
    BY WorldFields DEF Steady, Transports
<1>2. Progress(w, v) /\ InUse(v) = InUse(w)
    BY <1>1 DEF SameButRole, SameSockets, Progress, InUse
<1>3. Agrees(v)
    BY DEF SameButRole, SameSockets, Agrees
<1>4. Steady(v, e)
    BY <1>2, StaysSteady DEF Steady, SameButRole, SameSockets, SameQueue
<1>  QED  BY <1>3, <1>4

LEMMA SeesState ==
    ASSUME NEW w \in Worlds, NEW d \in HostStates, NEW v,
           v = [w EXCEPT !.host.hostState = d]
    PROVE  /\ SameButRole(w, v) /\ v.host.hostState = d
           /\ v.host.nativeAttached = w.host.nativeAttached
           /\ v.host.connect = w.host.connect
           /\ v.host.destroyed = w.host.destroyed
           /\ d = w.host.hostState => v = w
<1>  DEFINE h == [w.host EXCEPT !.hostState = d]
<1>1. /\ h \in Hosts /\ h.hostState = d
      /\ h.generation = w.host.generation
      /\ h.socketOpened = w.host.socketOpened
      /\ h.nativeAttached = w.host.nativeAttached
      /\ h.connect = w.host.connect /\ h.destroyed = w.host.destroyed
      /\ d = w.host.hostState => h = w.host
    BY WorldFields DEF Hosts
<1>2. v = [w EXCEPT !.host = h]
    BY DEF Worlds
<1>  HIDE DEF h
<1>3. d = w.host.hostState => v = w
    BY <1>1, <1>2 DEF Worlds
<1>  QED  BY <1>1, <1>2, <1>3
          DEF Worlds, SameButRole, SameSockets, SameQueue

Configured(w, c, v) ==
    /\ SameButRole(w, v) /\ v.host.connect = c
    /\ v.host.hostState = w.host.hostState
    /\ v.host.nativeAttached = w.host.nativeAttached
    /\ v.host.destroyed = w.host.destroyed

LEMMA SetsConnect ==
    ASSUME NEW w \in Worlds, NEW c \in BOOLEAN, NEW v,
           v = [w EXCEPT !.host.connect = c]
    PROVE  Configured(w, c, v)
<1>  DEFINE h == [w.host EXCEPT !.connect = c]
<1>1. /\ h \in Hosts /\ h.connect = c
      /\ h.generation = w.host.generation
      /\ h.socketOpened = w.host.socketOpened
      /\ h.hostState = w.host.hostState
      /\ h.nativeAttached = w.host.nativeAttached
      /\ h.destroyed = w.host.destroyed
    BY WorldFields DEF Hosts
<1>2. v = [w EXCEPT !.host = h]
    BY DEF Worlds
<1>  HIDE DEF h
<1>  QED  BY <1>1, <1>2
          DEF Worlds, Configured, SameButRole, SameSockets, SameQueue

(* A detached host has no socket and no session attempt.                   *)
Detached(w, v) ==
    /\ v.host.generation = {}
    /\ ~v.host.nativeAttached
    /\ v.host.hostState = w.host.hostState
    /\ v.host.connect = w.host.connect
    /\ v.host.destroyed = w.host.destroyed
    /\ v.terminal = w.terminal

LEMMA DetachesHost ==
    ASSUME NEW w, NEW e, Steady(w, e), Agrees(w), NEW u, SameButRole(w, u),
           u.host.nativeAttached = w.host.nativeAttached,
           NEW v, v = DetachNative(RetireNativeResources(u))
    PROVE  Steady(v, e) /\ Agrees(v) /\ Detached(u, v)
<1>  DEFINE x == RetireNativeResources(u)
<1>1. /\ w \in Worlds /\ w.session \in Sessions /\ u \in Worlds
      /\ NewestAttempt(w.session.transport)
      /\ w.session.outbox.active_lease = {}
    BY WorldFields DEF Steady, SameButRole
<1>2. InUse(u) \subseteq u.host.generation
    BY DEF Steady, SameButRole, SameSockets, InUse
<1>3. Forgets(u, x) /\ Progress(u, x) /\ InUse(x) = {}
    BY <1>1, <1>2, RetiresSocket
<1>  HIDE DEF x
<1>4. /\ x \in Worlds /\ x.session = w.session /\ x.host.generation = {}
      /\ ~x.host.socketOpened /\ x.queue = w.queue
      /\ x.terminal = u.terminal
      /\ x.delivered = w.delivered /\ Progress(w, x)
      /\ x.host.nativeAttached = w.host.nativeAttached
    BY <1>3
    DEF Forgets, SameButRole, SameSockets, SameQueue, SameRole, Progress
<1>5. CASE ~w.host.nativeAttached
  <2>1. v = x
      BY <1>4, <1>5 DEF DetachNative, x
  <2>2. Idle(x.session)
      BY <1>1, <1>4, <1>5 DEF Idle, Steady, Agrees, Connects
  <2>3. Steady(x, e) /\ Agrees(x)
      BY <1>3, <1>4, <2>2, Rests
  <2>  QED  BY <1>3, <1>4, <1>5, <2>1, <2>3 DEF Detached, Forgets, SameRole
<1>6. CASE w.host.nativeAttached
  <2>  DEFINE s == w.session
              t == Detach(s.transport)
              o == ReleaseLease(s.outbox)
              c == DetachSession(s)
              h == [x.host EXCEPT !.nativeAttached = FALSE]
  <2>1. s.transport \in Transports /\ s.outbox \in Outboxes
      BY <1>1, SessionFields
  <2>2. Retired(s.transport, t) /\ t \in Transports
      BY <1>1, <2>1, DetachesTransport DEF Retired
  <2>3. o \in Outboxes /\ o.ordered = s.outbox.ordered
        /\ o.active_lease = {}
      BY <2>1, ReleasesLease
  <2>4. c = [s EXCEPT !.transport = t, !.outbox = o]
      BY <1>1 DEF DetachSession, Sessions
  <2>  HIDE DEF t, o, c
  <2>5. c \in Sessions /\ c.transport = t /\ c.outbox = o
      BY <1>1, <2>2, <2>3, <2>4 DEF Sessions
  <2>6. /\ Idle(c) /\ c.outbox.ordered = s.outbox.ordered
        /\ c.transport.last_issued = s.transport.last_issued
      BY <2>2, <2>3, <2>5, RetiredFacts DEF Idle, Retired
  <2>7. /\ h \in Hosts /\ h.generation = {} /\ ~h.socketOpened
        /\ ~h.nativeAttached /\ h.hostState = x.host.hostState
        /\ h.connect = x.host.connect /\ h.destroyed = x.host.destroyed
      BY <1>4, WorldFields DEF Hosts
  <2>8. v = [x EXCEPT !.session = c, !.host = h]
      BY <1>4, <1>6 DEF DetachNative, x, c, Worlds
  <2>  HIDE DEF h, s
  <2>9. /\ v \in Worlds /\ v.session = c /\ v.host = h
        /\ v.sockets = x.sockets /\ v.queue = w.queue
        /\ v.terminal = u.terminal
        /\ v.delivered = w.delivered
      BY <1>4, <2>5, <2>7, <2>8 DEF Worlds
  <2>10. Progress(w, v) /\ InUse(v) = {}
      BY <1>3, <1>4, <2>6, <2>9 DEF Progress, InUse, s
  <2>11. Steady(v, e) /\ Agrees(v)
      BY <2>6, <2>7, <2>9, <2>10, Rests DEF s
  <2>  QED  BY <1>3, <2>7, <2>9, <2>11 DEF Detached, Forgets, SameRole
<1>  QED  BY <1>5, <1>6

LEMMA ReattachesHost ==
    ASSUME NEW w, NEW e, Steady(w, e), Agrees(w), CanReattachNative(w),
           NEW v, v = ReattachNative(w)
    PROVE  /\ Steady(v, e) /\ Agrees(v)
           /\ w.host.nativeAttached => v = w
           /\ v.host.hostState = w.host.hostState
           /\ v.host.connect = w.host.connect
<1>1. /\ w \in Worlds /\ w.session \in Sessions
      /\ NewestAttempt(w.session.transport)
    BY WorldFields DEF Steady
<1>2. CASE w.host.nativeAttached
    BY <1>2 DEF ReattachNative
<1>3. CASE ~w.host.nativeAttached
  <2>  DEFINE s == w.session
              t == Reattach(s.transport)
              o == ReleaseLease(s.outbox)
              c == ReattachSession(s)
              h == [w.host EXCEPT !.nativeAttached = TRUE]
  <2>1. /\ s.transport \in Transports /\ s.outbox \in Outboxes
        /\ s.transport.state \in {"Detached", "Disconnected"}
      BY <1>1, <1>3, SessionFields DEF CanReattachNative, CanReattach
  <2>2. Retired(s.transport, t) /\ t \in Transports
      BY <1>1, <2>1, DetachesTransport DEF Retired
  <2>3. o \in Outboxes /\ o.ordered = s.outbox.ordered
        /\ o.active_lease = {}
      BY <2>1, ReleasesLease
  <2>4. c = [s EXCEPT !.transport = t, !.outbox = o]
      BY <1>1 DEF ReattachSession, Sessions
  <2>5. w.host.generation = {} /\ ~w.host.socketOpened
      BY <1>3, <2>1 DEF Steady, Connects, Agrees, OpenStates
  <2>  HIDE DEF t, o, c
  <2>6. c \in Sessions /\ c.transport = t /\ c.outbox = o
      BY <1>1, <2>2, <2>3, <2>4 DEF Sessions
  <2>7. /\ Idle(c) /\ c.outbox.ordered = s.outbox.ordered
        /\ c.transport.last_issued = s.transport.last_issued
      BY <2>2, <2>3, <2>6, RetiredFacts DEF Idle, Retired
  <2>8. /\ h \in Hosts /\ h.generation = {} /\ ~h.socketOpened
        /\ h.hostState = w.host.hostState /\ h.connect = w.host.connect
      BY <1>1, <2>5, WorldFields DEF Hosts
  <2>9. v = [w EXCEPT !.session = c, !.host = h]
      BY <1>1, <1>3 DEF ReattachNative, c, Worlds
  <2>  HIDE DEF h, s
  <2>10. /\ v \in Worlds /\ v.session = c /\ v.host = h
         /\ v.sockets = w.sockets /\ v.queue = w.queue
         /\ v.delivered = w.delivered
      BY <1>1, <2>6, <2>8, <2>9 DEF Worlds
  <2>11. w.session.transport.last_issued \in Int
      BY <1>1, WorldFields DEF Transports
  <2>12. Progress(w, v) /\ InUse(v) = {}
      BY <2>5, <2>7, <2>10, <2>11 DEF Progress, InUse, Steady, s
  <2>13. Steady(v, e) /\ Agrees(v)
      BY <2>7, <2>8, <2>10, <2>12, Rests DEF s
  <2>  QED  BY <1>3, <2>8, <2>10, <2>13
<1>  QED  BY <1>2, <1>3

LEMMA Reconciles ==
    ASSUME NEW w, NEW e, NEW n, Stands(w, e, n), NEW d \in HostStates,
           NEW send \in BOOLEAN, NEW m \in 0 .. MaxMillis,
           NEW v, v = ReconcileDesiredState(w, d, send, m)
    PROVE  Stands(v, e, n)
<1>  DEFINE x == [w EXCEPT !.host.hostState = d]
<1>1. w \in Worlds /\ Steady(w, e) /\ Agrees(w)
    BY DEF Stands, Steady
<1>2. /\ SameButRole(w, x) /\ x.host.hostState = d
      /\ x.host.nativeAttached = w.host.nativeAttached
      /\ x.host.connect = w.host.connect
      /\ x.host.destroyed = w.host.destroyed
      /\ d = w.host.hostState => x = w
    BY <1>1, SeesState
<1>  HIDE DEF x
<1>3. CASE w.host.destroyed \/ w.terminal
    BY <1>3 DEF ReconcileDesiredState
<1>4. CASE ~(w.host.destroyed \/ w.terminal) /\ d # "FOREGROUND"
  <2>1. v = DetachNative(RetireNativeResources(x))
      BY <1>4 DEF ReconcileDesiredState, x
  <2>2. Steady(v, e) /\ Agrees(v) /\ Detached(x, v)
      BY <1>1, <1>2, <2>1, DetachesHost
  <2>  QED  BY <2>2 DEF Stands, Detached, Woken, CanDrive
<1>5. CASE ~(w.host.destroyed \/ w.terminal) /\ d = "FOREGROUND"
  <2>1. x.host.generation # {} => Connects(x.host)
      BY <1>1, <1>2, <1>5
      DEF Steady, Connects, SameButRole, SameSockets
  <2>2. Steady(x, e) /\ Agrees(x)
      BY <1>1, <1>2, <2>1, ChangesRole
  <2>3. CASE ~w.host.connect \/ ~CanReattachNative(w)
    <3>1. v = x
        BY <1>5, <2>3 DEF ReconcileDesiredState, x
    <3>2. ~CanDrive(x)
        BY <1>2, <2>3 DEF CanDrive, CanReattachNative
    <3>  QED  BY <2>2, <3>1, <3>2 DEF Stands, Woken
  <2>4. CASE /\ w.host.connect /\ CanReattachNative(w)
             /\ ~w.host.nativeAttached \/ w.host.hostState # "FOREGROUND"
    <3>1. v = DriveHost(ReattachNative(x), send, m)
        BY <1>5, <2>4 DEF ReconcileDesiredState, x
    <3>2. CanReattachNative(x)
        BY <1>2, <2>4 DEF CanReattachNative, SameButRole
    <3>3. Steady(ReattachNative(x), e) /\ Agrees(ReattachNative(x))
        BY <2>2, <3>2, ReattachesHost
    <3>  QED  BY <3>1, <3>3, DrivesHost, ProceedingStands
  <2>5. CASE /\ w.host.connect /\ CanReattachNative(w)
             /\ w.host.nativeAttached /\ w.host.hostState = "FOREGROUND"
    <3>1. v = x
        BY <1>5, <2>5 DEF ReconcileDesiredState, x
    <3>  QED  BY <1>2, <1>5, <2>5, <3>1
  <2>  QED  BY <2>3, <2>4, <2>5
<1>  QED  BY <1>3, <1>4, <1>5

LEMMA ConfiguresAnew ==
    ASSUME NEW w, NEW e, NEW n, Stands(w, e, n), NEW d \in HostStates,
           NEW c \in BOOLEAN,
           NEW send \in BOOLEAN, NEW m \in 0 .. MaxMillis,
           NEW v, v = ConfigureAnew(w, c, d, send, m)
    PROVE  Stands(v, e, n)
<1>  DEFINE x == [w EXCEPT !.host.hostState = d]
            y == DetachNative(RetireNativeResources(x))
            connecting == c /\ d = "FOREGROUND"
            z == IF connecting THEN ReattachNative(y) ELSE y
            u == [z EXCEPT !.host.connect = c]
<1>1. w \in Worlds /\ Steady(w, e) /\ Agrees(w)
    BY DEF Stands, Steady
<1>2. v = IF w.host.destroyed \/ w.terminal THEN w
          ELSE IF connecting /\ ~CanReattachNative(y) THEN y
          ELSE IF connecting THEN DriveHost(u, send, m)
          ELSE u
    BY DEF ConfigureAnew
<1>3. /\ SameButRole(w, x) /\ x.host.hostState = d
      /\ x.host.nativeAttached = w.host.nativeAttached
      /\ x.host.connect = w.host.connect
      /\ x.host.destroyed = w.host.destroyed
      /\ d = w.host.hostState => x = w
    BY <1>1, SeesState
<1>  HIDE DEF x
<1>4. Steady(y, e) /\ Agrees(y) /\ Detached(x, y)
    BY <1>1, <1>3, DetachesHost
<1>  HIDE DEF y
<1>5. CASE w.host.destroyed \/ w.terminal
    BY <1>2, <1>5
<1>6. CASE ~(w.host.destroyed \/ w.terminal) /\ connecting
           /\ ~CanReattachNative(y)
  <2>1. v = y
      BY <1>2, <1>6
  <2>  QED  BY <1>4, <2>1 DEF Stands, Detached, Woken, CanDrive
<1>7. CASE ~(w.host.destroyed \/ w.terminal) /\ connecting
           /\ CanReattachNative(y)
  <2>1. Steady(z, e) /\ Agrees(z) /\ z.host.hostState = "FOREGROUND"
      BY <1>3, <1>4, <1>7, ReattachesHost DEF Detached
  <2>  HIDE DEF z
  <2>2. /\ SameButRole(z, u) /\ u.host.connect
        /\ u.host.hostState = z.host.hostState
        /\ u.host.nativeAttached = z.host.nativeAttached
        /\ u.host.destroyed = z.host.destroyed
    <3>1. z \in Worlds
        BY <2>1 DEF Steady
    <3>2. Configured(z, c, u)
        BY <3>1, SetsConnect, Zenon
    <3>  HIDE DEF u
    <3>  QED  BY <1>7, <3>2 DEF Configured
  <2>  HIDE DEF u
  <2>3. u.host.generation # {} => Connects(u.host)
      BY <2>1, <2>2 DEF Steady, Connects, SameButRole, SameSockets
  <2>4. Steady(u, e) /\ Agrees(u)
      BY <2>1, <2>2, <2>3, ChangesRole
  <2>5. v = DriveHost(u, send, m)
      BY <1>2, <1>7
  <2>  QED  BY <2>4, <2>5, DrivesHost, ProceedingStands
<1>8. CASE ~(w.host.destroyed \/ w.terminal) /\ ~connecting
  <2>1. z = y /\ z \in Worlds
      BY <1>4, <1>8 DEF Steady
  <2>2. v = u
      BY <1>2, <1>8
  <2>  HIDE DEF z
  <2>3. /\ SameButRole(z, u)
        /\ u.host.hostState = z.host.hostState
        /\ u.host.nativeAttached = z.host.nativeAttached
        /\ u.host.destroyed = z.host.destroyed
    <3>1. Configured(z, c, u)
        BY <2>1, SetsConnect, Zenon
    <3>  HIDE DEF u
    <3>  QED  BY <3>1 DEF Configured
  <2>  HIDE DEF u
  <2>4. u.host.generation = {} /\ ~u.host.nativeAttached
      BY <1>4, <2>1, <2>3 DEF Detached, SameButRole, SameSockets
  <2>5. Steady(u, e) /\ Agrees(u)
      BY <1>4, <2>1, <2>3, <2>4, ChangesRole
  <2>  QED  BY <2>2, <2>4, <2>5 DEF Stands, Woken, CanDrive
<1>  QED  BY <1>5, <1>6, <1>7, <1>8

LEMMA ConfiguresAgain ==
    ASSUME NEW w, NEW e, NEW n, Stands(w, e, n), NEW d \in HostStates,
           NEW send \in BOOLEAN, NEW m \in 0 .. MaxMillis,
           NEW v, v = ConfigureAgain(w, d, send, m)
    PROVE  Stands(v, e, n)
<1>  DEFINE x == ReconcileDesiredState(w, d, send, m)
<1>1. Stands(x, e, n)
    BY Reconciles
<1>2. v = IF CanDrive(w) /\ CanDrive(x) THEN DriveHost(x, send, m) ELSE x
    BY DEF ConfigureAgain
<1>  HIDE DEF x
<1>3. Proceeds(DriveHost(x, send, m), e)
    BY <1>1, DrivesHost DEF Stands
<1>  QED  BY <1>1, <1>2, <1>3, ProceedingStands

LEMMA DestroysHost ==
    ASSUME NEW w, NEW e, NEW n, Stands(w, e, n),
           NEW v, v = DestroyHost(w)
    PROVE  Stands(v, e, n)
<1>  DEFINE h == [w.host EXCEPT !.destroyed = TRUE, !.hostState = "DETACHED"]
            x == [w EXCEPT !.host.destroyed = TRUE,
                           !.host.hostState = "DETACHED"]
            y == DetachNative(RetireNativeResources(x))
<1>1. w \in Worlds /\ Steady(w, e) /\ Agrees(w)
    BY DEF Stands, Steady
<1>2. /\ h \in Hosts /\ h.generation = w.host.generation
      /\ h.socketOpened = w.host.socketOpened
      /\ h.nativeAttached = w.host.nativeAttached /\ h.destroyed
    BY <1>1, WorldFields DEF Hosts, HostStates
<1>3. x = [w EXCEPT !.host = h]
    BY <1>1 DEF Worlds
<1>4. v = [y EXCEPT !.host.connect = FALSE]
    BY DEF DestroyHost
<1>  HIDE DEF h, x
<1>5. /\ SameButRole(w, x) /\ x.host = h
    BY <1>1, <1>2, <1>3 DEF Worlds, SameButRole, SameSockets, SameQueue
<1>6. Steady(y, e) /\ Agrees(y) /\ Detached(x, y)
    BY <1>1, <1>2, <1>5, DetachesHost
<1>  HIDE DEF y
<1>7. SameButRole(y, v) /\ v.host.connect = FALSE
  <2>1. y \in Worlds
      BY <1>6 DEF Steady
  <2>2. Configured(y, FALSE, v)
      BY <1>4, <2>1, SetsConnect, Zenon
  <2>  QED  BY <2>2 DEF Configured
<1>8. v.host.generation = {}
    BY <1>6, <1>7 DEF Detached, SameButRole, SameSockets
<1>9. Steady(v, e) /\ Agrees(v)
    BY <1>6, <1>7, <1>8, ChangesRole
<1>  QED  BY <1>7, <1>9 DEF Stands, Woken, CanDrive

-----------------------------------------------------------------------------
(* The inductive invariant *)

IInv ==
    /\ Stands(World, edits, unnotified)
    /\ edits \in Nat
    /\ unnotified \in Nat
    /\ desired \in HostStates
    /\ now \in 0 .. MaxMillis
    /\ peer_refused \in BOOLEAN

LEMMA WorldIs ==
    /\ World.session = session /\ World.host = host
    /\ World.sockets = sockets /\ World.queue = queue
    /\ World.terminal = terminal /\ World.delivered = delivered
    BY DEF World

LEMMA WorldBecomes ==
    ASSUME NEW w \in Worlds, Becomes(w)
    PROVE  World' = w
    BY DEF World, Becomes, Worlds

LEMMA TaskFields ==
    ASSUME NEW task \in Tasks
    PROVE  /\ task.task \in {"Wake", "DriveIfCurrent", "Opened", "Received",
                             "Closed", "Failed", "Reconcile", "Configure",
                             "Destroy"}
           /\ task.task = "Received" => task.message \in PeerMessages(Faults)
           /\ task.task = "Configure" => task.connect \in BOOLEAN
    BY DEF Tasks

(* The task that runs is taken off the queue; the rest of the world stands *)
(* unless the task was the wake-up.                                        *)
LEMMA TakesTask ==
    ASSUME NEW w, NEW e, NEW n, Stands(w, e, n), w.queue # << >>,
           NEW v, v = [w EXCEPT !.queue = Tail(@)]
    PROVE  /\ Steady(v, e) /\ Agrees(v)
           /\ v.host = w.host
           /\ Head(w.queue) \in Tasks
           /\ Head(w.queue).task = "Closed" =>
                 /\ Head(w.queue).generation \in DOMAIN v.sockets
                 /\ v.sockets[Head(w.queue).generation] = "ended"
           /\ \/ Head(w.queue).task = "Wake"
              \/ /\ Head(w.queue).task = "DriveIfCurrent"
                 /\ {Head(w.queue).generation} = w.host.generation
              \/ Woken(v, n)
<1>  DEFINE q == Tail(w.queue)
<1>1. w \in Worlds /\ Steady(w, e) /\ Agrees(w) /\ w.queue \in Seq(Tasks)
    BY WorldFields DEF Stands, Steady
<1>2. /\ q \in Seq(Tasks) /\ Head(w.queue) \in Tasks
      /\ 1 \in DOMAIN w.queue /\ Head(w.queue) = w.queue[1]
      /\ \A i \in DOMAIN q : i + 1 \in DOMAIN w.queue
                             /\ q[i] = w.queue[i + 1]
      /\ \A i \in DOMAIN w.queue : i # 1 =>
             i - 1 \in DOMAIN q /\ w.queue[i] = q[i - 1]
    BY <1>1
<1>3. v = [w EXCEPT !.queue = q]
    BY <1>1 DEF Worlds
<1>  HIDE DEF q
<1>4. /\ v \in Worlds /\ v.session = w.session /\ v.host = w.host
      /\ v.sockets = w.sockets /\ v.queue = q
      /\ v.terminal = w.terminal /\ v.delivered = w.delivered
    BY <1>1, <1>2, <1>3 DEF Worlds
<1>5. EndsAreTrue(v)
    BY <1>1, <1>2, <1>4 DEF Steady, EndsAreTrue
<1>6. w.session.transport.last_issued \in Int
    BY <1>1, WorldFields DEF Transports
<1>7. Progress(w, v) /\ InUse(v) = InUse(w)
    BY <1>4, <1>6 DEF Progress, InUse
<1>8. Steady(v, e)
    BY <1>1, <1>4, <1>5, <1>7, SteadyAfter DEF Steady
<1>9. Agrees(v)
    BY <1>1, <1>4 DEF Agrees
<1>10. Head(w.queue).task = "Closed" =>
           /\ Head(w.queue).generation \in DOMAIN v.sockets
           /\ v.sockets[Head(w.queue).generation] = "ended"
    BY <1>1, <1>2, <1>4 DEF Steady, EndsAreTrue
<1>11. ASSUME Head(w.queue).task # "Wake",
              ~(/\ Head(w.queue).task = "DriveIfCurrent"
                /\ {Head(w.queue).generation} = w.host.generation),
              CanDrive(v), v.session.transport.state \in OpenStates,
              Pending(v.session.outbox) > 0, ~(n > 0)
       PROVE  \E i \in DOMAIN v.queue :
                 \/ v.queue[i].task = "Wake"
                 \/ /\ v.queue[i].task = "DriveIfCurrent"
                    /\ {v.queue[i].generation} = v.host.generation
  <2>1. CanDrive(w)
      BY <1>4, <1>11 DEF CanDrive
  <2>2. PICK i \in DOMAIN w.queue :
           \/ w.queue[i].task = "Wake"
           \/ /\ w.queue[i].task = "DriveIfCurrent"
              /\ {w.queue[i].generation} = w.host.generation
      BY <1>4, <1>11, <2>1 DEF Stands, Woken
  <2>3. i # 1
      BY <1>2, <1>11, <2>2
  <2>4. i - 1 \in DOMAIN v.queue /\ v.queue[i - 1] = w.queue[i]
      BY <1>2, <1>4, <2>2, <2>3
  <2>  QED  BY <1>4, <2>2, <2>4, Zenon
<1>12. \/ Head(w.queue).task = "Wake"
       \/ /\ Head(w.queue).task = "DriveIfCurrent"
          /\ {Head(w.queue).generation} = w.host.generation
       \/ Woken(v, n)
    BY <1>11 DEF Woken
<1>  QED  BY <1>2, <1>4, <1>8, <1>9, <1>10, <1>12

LEMMA AnswersStand ==
    ASSUME NEW w, NEW e, NEW n, Stands(w, e, n), NEW v, Answers(w, e, v)
    PROVE  Stands(v, e, n)
    BY ProceedingStands DEF Answers

LEMMA HandlesTask ==
    ASSUME IInv, queue # << >>, NEW send \in BOOLEAN
    PROVE  Stands(Handle([World EXCEPT !.queue = Tail(@)], Head(queue), send),
                  edits, unnotified)
<1>  DEFINE w == [World EXCEPT !.queue = Tail(@)]
            t == Head(queue)
            v == Handle(w, t, send)
<1>1. Stands(World, edits, unnotified) /\ World.queue = queue
      /\ desired \in HostStates /\ now \in 0 .. MaxMillis
    BY WorldIs DEF IInv
<1>2. /\ Steady(w, edits) /\ Agrees(w)
      /\ w.host = World.host
      /\ t \in Tasks
      /\ t.task = "Closed" => /\ t.generation \in DOMAIN w.sockets
                              /\ w.sockets[t.generation] = "ended"
      /\ \/ t.task = "Wake"
         \/ /\ t.task = "DriveIfCurrent"
            /\ {t.generation} = w.host.generation
         \/ Woken(w, unnotified)
  <2>  HIDE DEF w
  <2>1. w = [World EXCEPT !.queue = Tail(@)]
      BY DEF w
  <2>  QED  BY <1>1, <2>1, TakesTask
<1>  HIDE DEF w, t
<1>3. /\ t.task \in {"Wake", "DriveIfCurrent", "Opened", "Received",
                     "Closed", "Failed", "Reconcile", "Configure", "Destroy"}
      /\ t.task = "Received" => t.message \in PeerMessages(Faults)
      /\ t.task = "Configure" => t.connect \in BOOLEAN
    BY <1>2, TaskFields
<1>4. Proceeds(DriveHost(w, send, now), edits)
    BY <1>1, <1>2, DrivesHost
<1>5. CASE t.task = "Wake"
  <2>1. v = DriveHost(w, send, now)
      BY <1>5 DEF Handle
  <2>  QED  BY <1>4, <2>1, ProceedingStands DEF w, t
<1>6. CASE t.task = "DriveIfCurrent"
  <2>1. v = IF w.host.generation = {t.generation} THEN DriveHost(w, send, now)
                                                  ELSE w
      BY <1>6 DEF Handle
  <2>2. CASE w.host.generation = {t.generation}
      BY <1>4, <2>1, <2>2, ProceedingStands DEF w, t
  <2>3. CASE w.host.generation # {t.generation}
      BY <1>2, <1>6, <2>1, <2>3 DEF Stands, w, t
  <2>  QED  BY <2>2, <2>3
<1>  DEFINE Rest == t.task \notin {"Wake", "DriveIfCurrent"}
<1>7. Rest => Stands(w, edits, unnotified)
    BY <1>2 DEF Stands
<1>8. CASE t.task = "Opened"
  <2>1. v = SocketDidOpen(w, t.generation, send, now)
      BY <1>8 DEF Handle
  <2>2. Answers(w, edits, v)
      BY <1>1, <1>2, <2>1, OpensOnCallback
  <2>  QED  BY <1>7, <1>8, <2>2, AnswersStand DEF w, t
<1>9. CASE t.task = "Received"
  <2>1. v = SocketDidReceive(w, t.generation, t.message, send, now)
      BY <1>9 DEF Handle
  <2>2. Answers(w, edits, v)
      BY <1>1, <1>2, <1>3, <1>9, <2>1, ReceivesOnCallback
  <2>  QED  BY <1>7, <1>9, <2>2, AnswersStand DEF w, t
<1>10. CASE t.task = "Closed"
  <2>1. v = SocketDidClose(w, t.generation, t.code, now)
      BY <1>10 DEF Handle
  <2>2. Answers(w, edits, v)
      BY <1>1, <1>2, <1>10, <2>1, EndsOnCallback
  <2>  QED  BY <1>7, <1>10, <2>2, AnswersStand DEF w, t
<1>11. CASE t.task = "Failed"
  <2>1. v = FailCurrentSocket(w, t.generation, NoCode, now)
      BY <1>11 DEF Handle
  <2>2. Answers(w, edits, v)
      BY <1>1, <1>2, <2>1, EndsOnCallback
  <2>  QED  BY <1>7, <1>11, <2>2, AnswersStand DEF w, t
<1>12. CASE t.task = "Reconcile"
  <2>1. v = ReconcileDesiredState(w, desired, send, now)
      BY <1>12 DEF Handle
  <2>2. Stands(v, edits, unnotified)
      BY <1>1, <1>7, <1>12, <2>1, Reconciles
  <2>  QED  BY <2>2 DEF w, t
<1>13. CASE t.task = "Configure"
  <2>1. v = IF t.connect = w.host.connect
              THEN ConfigureAgain(w, desired, send, now)
              ELSE ConfigureAnew(w, t.connect, desired, send, now)
      BY <1>13 DEF Handle
  <2>2. Stands(ConfigureAgain(w, desired, send, now), edits, unnotified)
      BY <1>1, <1>7, <1>13, ConfiguresAgain
  <2>3. Stands(ConfigureAnew(w, t.connect, desired, send, now), edits,
               unnotified)
    <3>  DEFINE c == t.connect
    <3>1. c \in BOOLEAN
        BY <1>3, <1>13
    <3>  HIDE DEF c
    <3>2. Stands(ConfigureAnew(w, c, desired, send, now), edits, unnotified)
        BY <1>1, <1>7, <1>13, <3>1, ConfiguresAnew
    <3>  QED  BY <3>2 DEF c
  <2>  QED  BY <2>1, <2>2, <2>3 DEF w, t
<1>14. CASE t.task = "Destroy"
  <2>1. v = DestroyHost(w)
      BY <1>14 DEF Handle
  <2>2. Stands(v, edits, unnotified)
      BY <1>7, <1>14, <2>1, DestroysHost
  <2>  QED  BY <2>2 DEF w, t
<1>  QED  BY <1>3, <1>5, <1>6, <1>8, <1>9, <1>10, <1>11, <1>12, <1>13, <1>14

LEMMA RunTaskPreserves == IInv /\ RunTask => IInv'
<1>  SUFFICES ASSUME IInv, RunTask PROVE IInv'
    OBVIOUS
<1>1. PICK send \in BOOLEAN :
          Becomes(Handle([World EXCEPT !.queue = Tail(@)], Head(queue), send))
    BY DEF RunTask
<1>  DEFINE v == Handle([World EXCEPT !.queue = Tail(@)], Head(queue), send)
<1>2. Stands(v, edits, unnotified)
    BY HandlesTask DEF RunTask
<1>  HIDE DEF v
<1>3. World' = v
    BY <1>1, <1>2, WorldBecomes DEF Stands, Steady, v
<1>4. edits' = edits /\ unnotified' = unnotified
    BY DEF RunTask
<1>5. Stands(World, edits, unnotified)'
    BY <1>2, <1>3, <1>4
<1>  QED  BY <1>5 DEF IInv, RunTask

LEMMA TimerFiresPreserves == IInv /\ TimerFires => IInv'
<1>  SUFFICES ASSUME IInv, TimerFires PROVE IInv'
    OBVIOUS
<1>  DEFINE w == [World EXCEPT !.host.timer = {}]
<1>1. PICK send \in BOOLEAN : Becomes(DriveHost(w, send, now))
    BY DEF TimerFires
<1>2. World \in Worlds /\ Steady(World, edits) /\ Agrees(World)
      /\ now \in 0 .. MaxMillis
    BY DEF IInv, Stands, Steady
<1>3. SameButRole(World, w) /\ SameRole(World, w)
  <2>  DEFINE h == [World.host EXCEPT !.timer = {}]
  <2>1. /\ h \in Hosts /\ h.generation = World.host.generation
        /\ h.socketOpened = World.host.socketOpened
        /\ h.hostState = World.host.hostState
        /\ h.nativeAttached = World.host.nativeAttached
        /\ h.connect = World.host.connect
        /\ h.destroyed = World.host.destroyed
      BY <1>2, WorldFields DEF Hosts
  <2>  DEFINE u == World
  <2>2. w = [u EXCEPT !.host = h] /\ u \in Worlds
      BY <1>2 DEF Worlds
  <2>  HIDE DEF h, w, u
  <2>3. /\ w \in Worlds /\ w.session = u.session /\ w.host = h
        /\ w.sockets = u.sockets /\ w.queue = u.queue
        /\ w.terminal = u.terminal /\ w.delivered = u.delivered
      BY <2>1, <2>2 DEF Worlds
  <2>  QED  BY <2>1, <2>3
            DEF u, SameButRole, SameSockets, SameQueue, SameRole
<1>  HIDE DEF w
<1>4. w.host.generation # {} => Connects(w.host)
    BY <1>2, <1>3, RolesDrive DEF Steady, SameButRole, SameSockets
<1>5. Steady(w, edits) /\ Agrees(w)
    BY <1>2, <1>3, <1>4, ChangesRole
<1>6. Proceeds(DriveHost(w, send, now), edits)
    BY <1>2, <1>5, DrivesHost
<1>7. World' = DriveHost(w, send, now)
    BY <1>1, <1>6, WorldBecomes DEF Proceeds, Steady
<1>8. edits' = edits /\ unnotified' = unnotified
    BY DEF TimerFires
<1>9. Stands(World', edits', unnotified')
    BY <1>6, <1>7, <1>8, ProceedingStands
<1>  QED  BY <1>9 DEF IInv, TimerFires

-----------------------------------------------------------------------------
(* The network and the application *)

(* A socket moves on and a task is posted, unless destruction was asked.   *)
Moves(w, k, task, v) ==
    /\ v.session = w.session /\ v.host = w.host
    /\ v.terminal = w.terminal /\ v.delivered = w.delivered
    /\ v.sockets = k
    /\ v.queue = IF w.terminal THEN w.queue ELSE Append(w.queue, task)

LEMMA MovesStand ==
    ASSUME NEW w, NEW e, NEW n, Stands(w, e, n), NEW task \in Tasks,
           NEW k \in Functions(1 .. MaxGeneration, Statuses),
           DOMAIN k = DOMAIN w.sockets,
           \A g \in DOMAIN k :
               /\ w.sockets[g] = "ended" => k[g] = "ended"
               /\ k[g] \in {"connecting", "open"} =>
                      w.sockets[g] \in {"connecting", "open"},
           task.task = "Closed" =>
               task.generation \in DOMAIN k /\ k[task.generation] = "ended",
           NEW v \in Worlds, Moves(w, k, task, v)
    PROVE  Stands(v, e, n)
<1>1. /\ w \in Worlds /\ Steady(w, e) /\ Agrees(w)
      /\ w.queue \in Seq(Tasks)
    BY WorldFields DEF Stands, Steady
<1>2. w.session.transport.last_issued \in Int
    BY <1>1, WorldFields DEF Transports
<1>3. Progress(w, v)
    BY <1>2 DEF Moves, Progress
<1>4. EndsAreTrue(v)
  <2>1. CASE w.terminal
      BY <1>1, <1>3, <2>1 DEF Moves, Steady, EndsAreTrue, Progress
  <2>2. CASE ~w.terminal
    <3>1. v.queue = Append(w.queue, task) /\ EndsAreTrue(w)
        BY <1>1, <2>2 DEF Moves, Steady
    <3>2. task.task = "Closed" =>
              /\ task.generation \in DOMAIN v.sockets
              /\ v.sockets[task.generation] = "ended"
        BY DEF Moves
    <3>  QED  BY <1>1, <1>3, <3>1, <3>2, PostsTask
  <2>  QED  BY <2>1, <2>2
<1>5. InUse(v) \subseteq w.host.generation
    BY <1>1 DEF Moves, InUse, Steady
<1>6. Steady(v, e)
    BY <1>1, <1>3, <1>4, <1>5, SteadyAfter DEF Steady, Moves
<1>7. Agrees(v)
    BY <1>1 DEF Agrees, Moves
<1>8. Woken(v, n)
  <2>1. CASE w.terminal
      BY <2>1 DEF Moves, Woken, CanDrive
  <2>2. CASE ~w.terminal
    <3>1. \A i \in DOMAIN w.queue :
              i \in DOMAIN v.queue /\ v.queue[i] = w.queue[i]
        BY <1>1, <2>2 DEF Moves
    <3>2. CanDrive(v) <=> CanDrive(w)
        BY DEF Moves, CanDrive
    <3>  QED  BY <3>1, <3>2 DEF Stands, Woken, Moves
  <2>  QED  BY <2>1, <2>2
<1>  QED  BY <1>6, <1>7, <1>8 DEF Stands

LEMMA WorldTyped ==
    ASSUME IInv
    PROVE  /\ World \in Worlds /\ session \in Sessions /\ host \in Hosts
           /\ sockets \in Functions(1 .. MaxGeneration, Statuses)
           /\ DOMAIN sockets \subseteq 1 .. MaxGeneration
           /\ \A g \in DOMAIN sockets : sockets[g] \in Statuses
           /\ queue \in Seq(Tasks) /\ terminal \in BOOLEAN
           /\ delivered \in Seq(Nat)
<1>1. World \in Worlds
    BY DEF IInv, Stands, Steady
<1>2. /\ session \in Sessions /\ host \in Hosts
      /\ sockets \in Functions(1 .. MaxGeneration, Statuses)
      /\ queue \in Seq(Tasks) /\ terminal \in BOOLEAN
      /\ delivered \in Seq(Nat)
    BY <1>1 DEF World, Worlds
<1>  QED  BY <1>1, <1>2, StatusOf

(* A step that changes the sockets and posts a task.                       *)
LEMMA NetworkPreserves ==
    ASSUME IInv, NEW task \in Tasks,
           sockets' \in Functions(1 .. MaxGeneration, Statuses),
           DOMAIN sockets' = DOMAIN sockets,
           \A g \in DOMAIN sockets :
               /\ sockets[g] = "ended" => sockets'[g] = "ended"
               /\ sockets'[g] \in {"connecting", "open"} =>
                      sockets[g] \in {"connecting", "open"},
           task.task = "Closed" =>
               /\ task.generation \in DOMAIN sockets
               /\ sockets'[task.generation] = "ended",
           queue' = Enqueued(task),
           UNCHANGED <<session, host, terminal, delivered, edits, unnotified,
                       now>>,
           desired' \in HostStates, peer_refused' \in BOOLEAN
    PROVE  IInv'
<1>  DEFINE v == World'
            k == sockets'
<1>1. queue' \in Seq(Tasks)
    BY WorldTyped DEF Enqueued
<1>2. v \in Worlds
    BY <1>1, WorldTyped DEF World, Worlds
<1>3. Moves(World, k, task, v)
    BY DEF World, Moves, Enqueued
<1>4. Stands(World, edits, unnotified) /\ World.sockets = sockets
    BY WorldIs DEF IInv
<1>5. k \in Functions(1 .. MaxGeneration, Statuses) /\ DOMAIN k = DOMAIN sockets
    OBVIOUS
<1>6. \A g \in DOMAIN k :
          /\ World.sockets[g] = "ended" => k[g] = "ended"
          /\ k[g] \in {"connecting", "open"} =>
                 World.sockets[g] \in {"connecting", "open"}
    BY <1>4, <1>5
<1>7. task.task = "Closed" =>
          task.generation \in DOMAIN k /\ k[task.generation] = "ended"
    BY <1>5
<1>  HIDE DEF v, k
<1>8. Stands(v, edits, unnotified)
    BY <1>2, <1>3, <1>4, <1>5, <1>6, <1>7, MovesStand
<1>9. Stands(World', edits', unnotified')
    BY <1>8 DEF v
<1>  QED  BY <1>9 DEF IInv

(* A socket takes another status.                                          *)
LEMMA SocketMoves ==
    ASSUME IInv, NEW g \in DOMAIN sockets, NEW x \in Statuses,
           sockets' = [sockets EXCEPT ![g] = x]
    PROVE  /\ sockets' \in Functions(1 .. MaxGeneration, Statuses)
           /\ DOMAIN sockets' = DOMAIN sockets
           /\ sockets'[g] = x
           /\ \A i \in DOMAIN sockets : i # g => sockets'[i] = sockets[i]
           /\ g \in Nat
<1>1. /\ DOMAIN sockets \in SUBSET (1 .. MaxGeneration)
      /\ sockets = [i \in DOMAIN sockets |-> sockets[i]]
      /\ \A i \in DOMAIN sockets : sockets[i] \in Statuses
    BY WorldTyped, StatusOf
<1>  DEFINE k == [sockets EXCEPT ![g] = x]
<1>2. k \in [DOMAIN sockets -> Statuses]
    BY <1>1
<1>3. k \in Functions(1 .. MaxGeneration, Statuses)
    BY <1>1, <1>2, StatusOf
<1>  QED  BY <1>1, <1>3

LEMMA NetworkStepsPreserve ==
    ASSUME IInv, NEW g \in DOMAIN sockets,
           \/ NetworkOpens(g)
           \/ \E message \in PeerMessages(Faults) : PeerSends(g, message)
           \/ \E code \in CloseCodes : PeerCloses(g, code)
           \/ NetworkFails(g)
    PROVE  IInv'
<1>0. desired \in HostStates /\ peer_refused \in BOOLEAN
    BY DEF IInv
<1>1. CASE NetworkOpens(g)
  <2>1. [task |-> "Opened", generation |-> g] \in Tasks
      BY <1>1, SocketMoves DEF NetworkOpens, Tasks, Statuses
  <2>  QED  BY <1>0, <1>1, <2>1, SocketMoves, NetworkPreserves
            DEF NetworkOpens, Statuses
<1>2. ASSUME NEW message \in PeerMessages(Faults), PeerSends(g, message)
      PROVE  IInv'
  <2>1. g \in Nat
      BY WorldTyped
  <2>2. [task |-> "Received", generation |-> g, message |-> message] \in Tasks
      BY <2>1 DEF Tasks
  <2>3. peer_refused' \in BOOLEAN
      BY <1>2 DEF PeerSends
  <2>4. /\ sockets' \in Functions(1 .. MaxGeneration, Statuses)
        /\ sockets' = sockets
      BY <1>2, WorldTyped DEF PeerSends
  <2>  QED  BY <1>0, <1>2, <2>2, <2>3, <2>4, NetworkPreserves DEF PeerSends
<1>3. ASSUME NEW code \in CloseCodes, PeerCloses(g, code)
      PROVE  IInv'
  <2>  DEFINE task == [task |-> "Closed", generation |-> g, code |-> code]
  <2>1. /\ sockets' \in Functions(1 .. MaxGeneration, Statuses)
        /\ DOMAIN sockets' = DOMAIN sockets /\ sockets'[g] = "ended"
        /\ \A i \in DOMAIN sockets : i # g => sockets'[i] = sockets[i]
        /\ g \in Nat
      BY <1>3, SocketMoves DEF PeerCloses, Statuses
  <2>2. task \in Tasks /\ task.generation = g
      BY <2>1 DEF Tasks
  <2>3. peer_refused' \in BOOLEAN
      BY <1>3 DEF PeerCloses
  <2>4. queue' = Enqueued(task)
      BY <1>3 DEF PeerCloses
  <2>  HIDE DEF task
  <2>  QED  BY <1>0, <1>3, <2>1, <2>2, <2>3, <2>4, NetworkPreserves
            DEF PeerCloses
<1>4. CASE NetworkFails(g)
  <2>1. [task |-> "Failed", generation |-> g] \in Tasks
      BY <1>4, SocketMoves DEF NetworkFails, Tasks, Statuses
  <2>  QED  BY <1>0, <1>4, <2>1, SocketMoves, NetworkPreserves
            DEF NetworkFails, Statuses
<1>  QED  BY <1>1, <1>2, <1>3, <1>4

LEMMA RequestsPreserve ==
    ASSUME IInv,
           \/ \E state \in {"FOREGROUND", "BACKGROUND"} : RequestHostState(state)
           \/ \E connect \in BOOLEAN : Configure(connect)
    PROVE  IInv'
<1>0. desired \in HostStates /\ peer_refused \in BOOLEAN
      /\ sockets \in Functions(1 .. MaxGeneration, Statuses)
    BY WorldTyped DEF IInv
<1>1. ASSUME NEW state \in {"FOREGROUND", "BACKGROUND"},
             RequestHostState(state)
      PROVE  IInv'
  <2>1. [task |-> "Reconcile"] \in Tasks /\ state \in HostStates
      BY DEF Tasks, HostStates
  <2>  QED  BY <1>0, <1>1, <2>1, NetworkPreserves DEF RequestHostState
<1>2. ASSUME NEW connect \in BOOLEAN, Configure(connect)
      PROVE  IInv'
  <2>1. [task |-> "Configure", connect |-> connect] \in Tasks
      BY DEF Tasks
  <2>  QED  BY <1>0, <1>2, <2>1, NetworkPreserves DEF Configure
<1>  QED  BY <1>1, <1>2

(* The edit that is made is the last one queued.                           *)
LEMMA EditPreserves == IInv /\ Edit => IInv'
<1>  SUFFICES ASSUME IInv, Edit PROVE IInv'
    OBVIOUS
<1>  DEFINE o == session.outbox
            c == Install(o, "DocumentUpdate",
                         << Message("DocumentUpdate", edits + 1) >>)
            n == edits + 1
            w == World
            v == World'
<1>1. /\ w \in Worlds /\ session \in Sessions /\ o \in Outboxes
      /\ edits \in Nat /\ unnotified \in Nat /\ n \in Nat
      /\ Steady(w, edits) /\ Agrees(w)
      /\ delivered \in Seq(Nat) /\ o.ordered \in Seq(Updates)
  <2>1. /\ w \in Worlds /\ session \in Sessions /\ delivered \in Seq(Nat)
        /\ Steady(w, edits) /\ Agrees(w)
      BY WorldTyped DEF IInv, Stands
  <2>2. o \in Outboxes
      BY <2>1, SessionFields
  <2>3. o.ordered \in Seq(Updates)
      BY <2>2, OutboxFields
  <2>  QED  BY <2>1, <2>2, <2>3 DEF IInv
<1>2. /\ c \in Outboxes /\ c.active_lease = o.active_lease
      /\ Len(c.ordered) = Len(o.ordered) + 1
      /\ \A i \in 1 .. Len(o.ordered) : c.ordered[i] = o.ordered[i]
      /\ c.ordered[Len(o.ordered) + 1].id = n
  <2>  HIDE DEF o
  <2>1. c = Install(o, "DocumentUpdate", << Message("DocumentUpdate", n) >>)
      OBVIOUS
  <2>2. o \in Outboxes /\ n \in Nat
      BY <1>1
  <2>  HIDE DEF c, n
  <2>3. Queues(o, n, c)
      BY <2>1, <2>2, InstallsUpdate, Zenon
  <2>  QED  BY <2>3 DEF Queues
<1>3. session' = [session EXCEPT !.outbox = c]
    BY <1>1 DEF Edit, EditCall, Sessions
<1>  HIDE DEF c
<1>4. /\ session' \in Sessions /\ session'.transport = session.transport
      /\ session'.outbox = c
    BY <1>1, <1>2, <1>3 DEF Sessions
<1>5. /\ v \in Worlds /\ v.session = session' /\ v.host = w.host
      /\ v.sockets = w.sockets /\ v.queue = w.queue
      /\ v.terminal = w.terminal /\ v.delivered = delivered
      /\ w.session = session /\ w.delivered = delivered
    BY <1>1, <1>4, WorldTyped DEF World, Worlds, Edit
<1>6. Counted(delivered, c.ordered, n)
  <2>1. Counted(delivered, o.ordered, edits)
      BY <1>1, <1>5 DEF Steady
  <2>  DEFINE a == o.ordered
              b == c.ordered
              d == delivered
  <2>2. Len(a) \in Nat /\ Len(d) \in Nat
      BY <1>1
  <2>  HIDE DEF o
  <2>3. /\ Len(b) = Len(a) + 1
        /\ \A i \in 1 .. Len(a) : b[i] = a[i]
        /\ b[Len(a) + 1].id = n
      BY <1>2
  <2>  HIDE DEF a, b, d
  <2>4. Counted(d, a, edits)
      BY <2>1 DEF a, d
  <2>5. Counted(d, b, n)
    <3>1. \A i \in 1 .. Len(b) : b[i].id = Len(d) + i
      <4>1. SUFFICES ASSUME NEW i \in 1 .. Len(b)
                     PROVE  b[i].id = Len(d) + i
          OBVIOUS
      <4>2. CASE i \in 1 .. Len(a)
          BY <2>3, <2>4, <4>2 DEF Counted
      <4>3. CASE i = Len(a) + 1
        <5>1. Len(d) + Len(a) = edits
            BY <2>4 DEF Counted
        <5>2. Len(d) + i = n
            BY <1>1, <2>2, <4>3, <5>1
        <5>  QED  BY <2>3, <4>3, <5>2
      <4>  QED  BY <2>2, <2>3, <4>2, <4>3
    <3>2. Len(d) + Len(b) = n
      <4>1. Len(d) + Len(a) = edits
          BY <2>4 DEF Counted
      <4>  QED  BY <1>1, <2>2, <2>3, <4>1
    <3>  QED  BY <2>4, <3>1, <3>2 DEF Counted
  <2>  QED  BY <2>5 DEF b, d
<1>7. Steady(v, n)
  <2>1. w.session.transport.last_issued \in Int
      BY <1>1, WorldFields DEF Transports
  <2>  HIDE DEF v, w
  <2>2. Progress(w, v) /\ InUse(v) = InUse(w)
      BY <1>4, <1>5, <2>1 DEF Progress, InUse
  <2>  QED  BY <1>1, <1>2, <1>4, <1>5, <1>6, <2>2, StaysSteady DEF Steady
<1>8. Agrees(v)
  <2>  HIDE DEF v, w
  <2>  QED  BY <1>1, <1>4, <1>5 DEF Agrees
<1>9. edits' = n /\ unnotified' = unnotified + 1
    BY DEF Edit
<1>10. unnotified' > 0 /\ unnotified' \in Nat /\ edits' \in Nat
    BY <1>1, <1>9
<1>11. Woken(v, unnotified')
  <2>  HIDE DEF v
  <2>  QED  BY <1>10 DEF Woken
<1>12. Stands(World', edits', unnotified')
    BY <1>7, <1>8, <1>9, <1>11 DEF Stands
<1>  QED  BY <1>10, <1>12 DEF IInv, Edit

LEMMA NotifyPreserves == IInv /\ NotifyOutboundAvailable => IInv'
<1>  SUFFICES ASSUME IInv, NotifyOutboundAvailable PROVE IInv'
    OBVIOUS
<1>  DEFINE v == World'
            task == [task |-> "Wake"]
            k == sockets
            w == World
<1>1. /\ w \in Worlds /\ Steady(w, edits) /\ Agrees(w)
      /\ Stands(w, edits, unnotified)
      /\ unnotified \in Nat /\ task \in Tasks
      /\ k \in Functions(1 .. MaxGeneration, Statuses)
      /\ queue \in Seq(Tasks) /\ w.sockets = k
    BY WorldTyped, WorldIs DEF IInv, Stands, Tasks
<1>2. queue' \in Seq(Tasks)
    BY <1>1 DEF NotifyOutboundAvailable, Enqueued
<1>3. v \in Worlds
    BY <1>2, WorldTyped DEF World, Worlds, NotifyOutboundAvailable
<1>4. Moves(w, k, task, v)
    BY DEF World, Moves, Enqueued, NotifyOutboundAvailable
<1>5. v.queue = IF terminal THEN queue ELSE Append(queue, task)
    BY DEF World, Enqueued, NotifyOutboundAvailable
<1>6. v.terminal = terminal
    BY DEF World, NotifyOutboundAvailable
<1>7. Stands(v, edits, unnotified)
  <2>1. task.task # "Closed"
      OBVIOUS
  <2>  HIDE DEF v, w, k, task
  <2>  QED  BY <1>1, <1>3, <1>4, <2>1, MovesStand
<1>  HIDE DEF v
<1>8. Woken(v, unnotified')
  <2>1. CASE terminal
      BY <1>6, <2>1 DEF Woken, CanDrive
  <2>2. CASE ~terminal
    <3>1. /\ Len(queue) + 1 \in DOMAIN v.queue
          /\ v.queue[Len(queue) + 1].task = "Wake"
        BY <1>1, <1>5, <2>2
    <3>  QED  BY <3>1 DEF Woken
  <2>  QED  BY <2>1, <2>2
<1>9. edits' = edits /\ unnotified' \in Nat
    BY <1>1 DEF NotifyOutboundAvailable
<1>10. Stands(World', edits', unnotified')
    BY <1>7, <1>8, <1>9 DEF Stands, v
<1>  QED  BY <1>9, <1>10 DEF IInv, NotifyOutboundAvailable

LEMMA DestroyPreserves == IInv /\ DestroyAsync => IInv'
<1>  SUFFICES ASSUME IInv, DestroyAsync PROVE IInv'
    OBVIOUS
<1>  DEFINE v == World'
            w == World
            task == [task |-> "Destroy"]
<1>1. /\ w \in Worlds /\ Steady(w, edits) /\ Agrees(w)
      /\ edits \in Nat /\ unnotified \in Nat /\ task \in Tasks
      /\ queue \in Seq(Tasks)
    BY WorldTyped DEF IInv, Stands, Tasks
<1>2. v \in Worlds
  <2>1. queue' \in Seq(Tasks) /\ terminal' \in BOOLEAN
      BY <1>1 DEF DestroyAsync
  <2>  QED  BY <2>1, WorldTyped DEF World, Worlds, DestroyAsync
<1>3. /\ v.session = w.session /\ v.host = w.host
      /\ v.sockets = w.sockets /\ v.delivered = w.delivered
      /\ v.queue = Append(w.queue, task) /\ v.terminal
      /\ w.queue = queue
    BY DEF World, DestroyAsync
<1>  HIDE DEF v, w
<1>4. w.session.transport.last_issued \in Int
    BY <1>1, WorldFields DEF Transports
<1>5. Progress(w, v) /\ InUse(v) = InUse(w)
    BY <1>3, <1>4 DEF Progress, InUse
<1>6. EndsAreTrue(v)
  <2>1. task.task # "Closed" /\ EndsAreTrue(w)
      BY <1>1 DEF Steady
  <2>  HIDE DEF task
  <2>  QED  BY <1>1, <1>3, <1>5, <2>1, PostsTask
<1>7. Steady(v, edits)
    BY <1>1, <1>2, <1>3, <1>5, <1>6, SteadyAfter DEF Steady
<1>8. Agrees(v) /\ Woken(v, unnotified)
    BY <1>1, <1>3 DEF Agrees, Woken, CanDrive
<1>9. edits' = edits /\ unnotified' = unnotified
    BY DEF DestroyAsync
<1>10. Stands(World', edits', unnotified')
    BY <1>7, <1>8, <1>9 DEF Stands, v
<1>  QED  BY <1>1, <1>9, <1>10 DEF IInv, DestroyAsync, HostStates

LEMMA TickPreserves == IInv /\ (Tick \/ UNCHANGED vars) => IInv'
<1>  SUFFICES ASSUME IInv, Tick \/ UNCHANGED vars PROVE IInv'
    OBVIOUS
<1>1. World' = World /\ edits' = edits /\ unnotified' = unnotified
    BY DEF Tick, vars, world, World
<1>2. Stands(World', edits', unnotified')
    BY <1>1 DEF IInv
<1>3. now' \in 0 .. MaxMillis
    BY TransportBoundsAssumption DEF IInv, Tick, vars
<1>  QED  BY <1>2, <1>3 DEF IInv, Tick, vars

(* What concatenation does to length and elements.                         *)
LEMMA Concatenates ==
    ASSUME NEW S, NEW s \in Seq(S), NEW t \in Seq(S)
    PROVE  /\ s \o t \in Seq(S)
           /\ Len(s \o t) = Len(s) + Len(t)
           /\ \A i \in 1 .. Len(s) : (s \o t)[i] = s[i]
           /\ \A i \in 1 .. Len(t) : (s \o t)[Len(s) + i] = t[i]
<1>1. s \o t \in Seq(S)
    OBVIOUS
<1>2. Len(s \o t) = Len(s) + Len(t)
    OBVIOUS
<1>3. \A i \in 1 .. Len(s) : (s \o t)[i] = s[i]
    OBVIOUS
<1>4. \A i \in 1 .. Len(t) : (s \o t)[Len(s) + i] = t[i]
    OBVIOUS
<1>  QED  BY <1>1, <1>2, <1>3, <1>4

LEMMA InitIInv == Init => IInv
<1>  SUFFICES ASSUME Init PROVE IInv
    OBVIOUS
<1>1. /\ FinalRetryDelayIndex \in Nat
      /\ MaxGeneration \in Nat /\ MaxMillis \in Nat /\ MaxLeaseId \in Nat
  <2>1. Machine!FinalRetryDelayIndex \in Nat
      BY Machine!DelayFacts, MachineAssumptions
  <2>  QED  BY <2>1, TransportBoundsAssumption, OutboxBoundsAssumption
            DEF FinalRetryDelayIndex, Machine!FinalRetryDelayIndex
<1>2. NewTransport("Disconnected") \in Transports
    BY <1>1 DEF NewTransport, Transports, TransportStates
<1>3. NewOutbox \in Outboxes
  <2>1. << >> \in Seq(Updates) /\ << >> \in Seq(Replies)
      OBVIOUS
  <2>2. {1} \in Options(Nat) /\ {} \in SUBSET [id : Nat, kind : Kinds]
      BY DEF Options
  <2>3. [messages |-> 0, bytes |-> 0] \in Charges
      BY DEF Charges
  <2>  QED  BY <2>1, <2>2, <2>3 DEF NewOutbox, Outboxes
<1>4. /\ session \in Sessions
      /\ session.transport = NewTransport("Disconnected")
      /\ session.outbox = NewOutbox
    BY <1>2, <1>3 DEF Init, NewSession, Sessions
<1>5. host \in Hosts /\ host.generation = {} /\ host.socketOpened = FALSE
      /\ host.connect = FALSE
    BY DEF Init, NewHost, Hosts, HostStates
<1>6. sockets \in Functions(1 .. MaxGeneration, Statuses) /\ DOMAIN sockets = {}
  <2>1. sockets \in [{} -> Statuses] /\ {} \in SUBSET (1 .. MaxGeneration)
      BY DEF Init
  <2>  QED  BY <2>1, StatusOf
<1>7. /\ queue = << >> /\ queue \in Seq(Tasks)
      /\ delivered = << >> /\ delivered \in Seq(Nat)
      /\ terminal = FALSE
    BY DEF Init
<1>  DEFINE w == World
<1>8. /\ w.session = session /\ w.host = host /\ w.sockets = sockets
      /\ w.queue = queue /\ w.terminal = terminal
      /\ w.delivered = delivered
    BY WorldIs
<1>9. w \in Worlds
    BY <1>4, <1>5, <1>6, <1>7 DEF World, Worlds
<1>  HIDE DEF w
<1>10. /\ session.transport.state = "Disconnected"
       /\ session.transport.live_attempt = {}
       /\ session.outbox.ordered = << >>
       /\ session.outbox.active_lease = {}
    BY <1>4 DEF NewTransport, NewOutbox
<1>11. Steady(w, 0)
  <2>1. NewestAttempt(w.session.transport)
      BY <1>8, <1>10 DEF NewestAttempt, AttemptStates
  <2>2. Counted(w.delivered, w.session.outbox.ordered, 0)
      BY <1>7, <1>8, <1>10 DEF Counted
  <2>3. EndsAreTrue(w) /\ InUse(w) = {}
      BY <1>6, <1>7, <1>8 DEF EndsAreTrue, InUse
  <2>  QED  BY <1>5, <1>6, <1>8, <1>9, <1>10, <2>1, <2>2, <2>3 DEF Steady
<1>12. Agrees(w)
    BY <1>5, <1>8, <1>10 DEF Agrees, OpenStates
<1>13. Woken(w, 0)
    BY <1>8, <1>10, NotOpenIsWoken DEF OpenStates
<1>14. Stands(World, edits, unnotified)
    BY <1>11, <1>12, <1>13 DEF Stands, Init, w
<1>15. /\ edits \in Nat /\ unnotified \in Nat /\ desired \in HostStates
       /\ now \in 0 .. MaxMillis /\ peer_refused \in BOOLEAN
  <2>1. edits = 0 /\ unnotified = 0 /\ desired = "FOREGROUND" /\ now = 0
      BY DEF Init
  <2>2. peer_refused \in BOOLEAN
      BY Zenon DEF Init
  <2>  QED  BY <1>1, <2>1, <2>2 DEF HostStates
<1>  QED  BY <1>1, <1>14, <1>15 DEF IInv

LEMMA NextIInv == IInv /\ [Next]_vars => IInv'
<1>  SUFFICES ASSUME IInv, [Next]_vars PROVE IInv'
    OBVIOUS
<1>1. CASE RunTask
    BY <1>1, RunTaskPreserves
<1>2. CASE TimerFires
    BY <1>2, TimerFiresPreserves
<1>3. ASSUME NEW g \in DOMAIN sockets,
             \/ NetworkOpens(g)
             \/ \E message \in PeerMessages(Faults) : PeerSends(g, message)
             \/ \E code \in CloseCodes : PeerCloses(g, code)
             \/ NetworkFails(g)
      PROVE  IInv'
    BY <1>3, NetworkStepsPreserve
<1>4. CASE Edit
    BY <1>4, EditPreserves
<1>5. CASE NotifyOutboundAvailable
    BY <1>5, NotifyPreserves
<1>6. CASE \/ \E state \in {"FOREGROUND", "BACKGROUND"} :
                 RequestHostState(state)
           \/ \E connect \in BOOLEAN : Configure(connect)
    BY <1>6, RequestsPreserve
<1>7. CASE DestroyAsync
    BY <1>7, DestroyPreserves
<1>8. CASE Tick \/ UNCHANGED vars
    BY <1>8, TickPreserves
<1>  QED  BY <1>1, <1>2, <1>3, <1>4, <1>5, <1>6, <1>7, <1>8 DEF Next

LEMMA Invariance == Spec => []IInv
    BY InitIInv, NextIInv, PTL DEF Spec

-----------------------------------------------------------------------------
(* The theorems *)

(* Every reachable state has its type, for every outbox, clock and number  *)
(* of generations, and every peer.                                         *)
THEOREM TypeCorrect == Spec => []TypeOK
<1>1. IInv => TypeOK
  <2>  SUFFICES ASSUME IInv PROVE TypeOK
      OBVIOUS
  <2>1. /\ session.transport \in Transports
        /\ session.document_state \in DocumentStates
      BY WorldTyped DEF Sessions
  <2>  QED  BY <2>1, WorldTyped DEF TypeOK, IInv, Hosts, Statuses
<1>  QED  BY <1>1, Invariance, PTL

(* AndroidCollaborationTransport and its session agree on the attempt in   *)
(* flight between any two handlers, however the callbacks of sockets, the  *)
(* timer, edits, host states and configurations are ordered; and the       *)
(* handshake is done exactly on the socket that the host saw open.         *)
THEOREM HostAgreesWithSession == Spec => []AttemptHasSocket
<1>1. IInv => AttemptHasSocket
    BY WorldIs DEF IInv, Stands, Agrees, AttemptHasSocket
<1>  QED  BY <1>1, Invariance, PTL

(* openSocket retires the socket before it: whatever the order of closes,  *)
(* failures and reconnections, no two sockets are in use.                  *)
THEOREM OneSocketIsInUse == Spec => []OneSocket
<1>1. IInv => OneSocket
    BY WorldIs DEF IInv, Stands, Steady, InUse, OneSocket
<1>  QED  BY <1>1, Invariance, PTL

(* One message is sent in a handler, and no message is forgotten: while    *)
(* some wait on an open connection, the wake-up that sends the next is     *)
(* posted or about to be.                                                  *)
THEOREM WaitingMessagesAreWoken == Spec => []PendingIsWoken
<1>1. IInv => PendingIsWoken
    BY WorldIs DEF IInv, Stands, Woken, PendingIsWoken
<1>  QED  BY <1>1, Invariance, PTL

(* The edits that were sent and those that wait are, in this order, the    *)
(* edits that were made: none is lost, sent twice or overtaken by a later  *)
(* one, across closes, rejected sends, reconnections and reconfigurations. *)
THEOREM EditsStayInOrder == Spec => []EditsInOrder
<1>1. ASSUME IInv PROVE EditsInOrder
  <2>  DEFINE q == session.outbox.ordered
              d == delivered
  <2>1. Counted(d, q, edits) /\ edits \in Nat
    <3>1. Steady(World, edits) /\ edits \in Nat
        BY <1>1 DEF IInv, Stands
    <3>  QED  BY <3>1, WorldIs DEF Steady
  <2>2. q \in Seq(Updates) /\ d \in Seq(Nat)
    <3>1. session \in Sessions /\ delivered \in Seq(Nat)
        BY <1>1, WorldTyped
    <3>2. session.outbox \in Outboxes
        BY <3>1, SessionFields
    <3>  QED  BY <3>1, <3>2, OutboxFields
  <2>  HIDE DEF q, d
  <2>3. Documents(q) = q
    <3>1. \A m \in Updates : m.kind = "DocumentUpdate"
        BY MessagesAre
    <3>2. Queue!OfKind(q, "DocumentUpdate") = q
        BY <2>2, <3>1, Queue!OfKindSame, QueueAssumptions
    <3>  QED  BY <3>2, SameOperators DEF Documents
  <2>  DEFINE ids == [i \in DOMAIN q |-> q[i].id]
              both == d \o ids
  <2>4. /\ ids \in Seq(Nat) /\ Len(ids) = Len(q)
        /\ \A i \in 1 .. Len(q) : ids[i] = q[i].id
    <3>1. \A i \in 1 .. Len(q) : q[i] \in Updates
        BY <2>2
    <3>2. \A i \in 1 .. Len(q) : q[i].id \in Nat
        BY <3>1, MessagesAre
    <3>3. DOMAIN q = 1 .. Len(q) /\ Len(q) \in Nat
        BY <2>2
    <3>  QED  BY <3>2, <3>3
  <2>  HIDE DEF ids
  <2>5. /\ both \in Seq(Nat) /\ Len(both) = Len(d) + Len(q)
        /\ \A i \in 1 .. Len(d) : both[i] = d[i]
        /\ \A i \in 1 .. Len(q) : both[Len(d) + i] = ids[i]
    <3>1. ids \in Seq(Nat) /\ d \in Seq(Nat)
        BY <2>2, <2>4
    <3>2. both \in Seq(Nat) /\ Len(both) = Len(d) + Len(ids)
        BY <3>1, Concatenates
    <3>3. \A i \in 1 .. Len(d) : both[i] = d[i]
        BY <3>1, Concatenates
    <3>4. \A i \in 1 .. Len(ids) : both[Len(d) + i] = ids[i]
        BY <3>1, Concatenates
    <3>  QED  BY <2>4, <3>2, <3>3, <3>4
  <2>  HIDE DEF both
  <2>6. Len(d) \in Nat /\ Len(q) \in Nat /\ Len(d) + Len(q) = edits
      BY <2>1, <2>2 DEF Counted
  <2>7. \A i \in 1 .. edits : both[i] = i
    <3>1. SUFFICES ASSUME NEW i \in 1 .. edits PROVE both[i] = i
        OBVIOUS
    <3>2. CASE i \in 1 .. Len(d)
        BY <2>1, <2>5, <3>2 DEF Counted
    <3>3. CASE i \notin 1 .. Len(d)
      <4>  DEFINE j == i - Len(d)
      <4>1. j \in 1 .. Len(q) /\ i = Len(d) + j
          BY <2>6, <3>3
      <4>  HIDE DEF j
      <4>2. both[Len(d) + j] = q[j].id
          BY <2>4, <2>5, <4>1
      <4>3. q[j].id = Len(d) + j
          BY <2>1, <4>1 DEF Counted
      <4>  QED  BY <4>1, <4>2, <4>3
    <3>  QED  BY <3>2, <3>3
  <2>8. both = [i \in 1 .. edits |-> i]
    <3>1. DOMAIN both = 1 .. edits /\ both = [i \in DOMAIN both |-> both[i]]
        BY <2>5, <2>6
    <3>  QED  BY <2>7, <3>1
  <2>  QED  BY <2>3, <2>8 DEF EditsInOrder, both, ids, q, d
<1>  QED  BY <1>1, Invariance, PTL

(* HostStands: what the four theorems above say of the host, the session   *)
(* and their sockets, tasks and edits, between any two handlers.           *)
THEOREM HostKeepsStanding == Spec => []HostStands
<1>1. AttemptHasSocket /\ OneSocket /\ PendingIsWoken /\ EditsInOrder
        => HostStands
    BY DEF HostStands
<1>  QED  BY <1>1, HostAgreesWithSession, OneSocketIsInUse,
             WaitingMessagesAreWoken, EditsStayInOrder, PTL

=============================================================================
