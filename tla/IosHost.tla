------------------------------- MODULE IosHost ------------------------------
(***************************************************************************)
(* One room-bound session, the iOS transport that connects it, URLSession  *)
(* and the other threads of the application.                               *)
(*                                                                         *)
(* The serial queue takes its blocks in order; a block is one step.  Calls *)
(* that wait for their block (configure, enterBackground, enterForeground, *)
(* destroy, resolveProtocolAdapter) are blocks too: what their caller does *)
(* meanwhile changes nothing here.                                         *)
(***************************************************************************)
EXTENDS IosHostOps, FiniteSets

CONSTANTS
    Faults,       \* the faults of the peer's frames: "None" and dispositions
    CloseCodes,   \* the codes a peer closes with
    MaxEdits,     \* bound: local edits
    MaxFrames,    \* bound: messages of the peer
    MaxRequests,  \* bound: requests of the application
    MaxAnswer,    \* bound: frames of an answer of the adapter
    MaxQueue      \* bound: blocks waiting when URLSession adds another

VARIABLES
    session,      \* the EditorSession
    host,         \* the fields of NativeCollaborationTransport
    sockets,      \* the sockets, by generation
    queue,        \* the blocks waiting on the serial queue
    asked,        \* events whose promise in JavaScript is pending
    now,          \* the monotonic clock
    edits,        \* history: the edits committed, numbered from 1
    unnotified,   \* edits whose wake-up is still to be posted
    frames,       \* history: messages of the peer
    requests,     \* history: requests of the application
    verdicts,     \* history: the connections the peer or the adapter refused
                  \* and those the adapter found ready
    delivered,    \* history: the edits that were acknowledged
    wire          \* history: the edits handed to a socket, with the socket

world == <<session, host, sockets, asked, delivered, wire>>
vars == <<world, queue, now, edits, unnotified, frames, requests,
          verdicts>>

World ==
    [session |-> session, host |-> host, sockets |-> sockets,
     asked |-> asked, delivered |-> delivered, wire |-> wire]

Becomes(w) ==
    /\ session' = w.session
    /\ host' = w.host
    /\ sockets' = w.sockets
    /\ asked' = w.asked
    /\ delivered' = w.delivered
    /\ wire' = w.wire

Init ==
    /\ \E document_state \in DocumentStates :
          session = NewSession(document_state)
    /\ host = NewHost
    /\ sockets = [g \in {} |-> NewSocket]
    /\ queue = << >>
    /\ asked = {}
    /\ now = 0
    /\ edits = 0
    /\ unnotified = 0
    /\ frames = 0
    /\ requests = 0
    /\ verdicts = {}
    /\ delivered = << >>
    /\ wire = << >>

-----------------------------------------------------------------------------
(* The serial queue.                                                       *)

Handle(w, t) ==
    CASE t.task = "Wake" -> DriveHost(w, now)
      [] t.task = "Opened" -> SocketDidOpen(w, t.generation, now)
      [] t.task = "Received" ->
           ReceivedBinary(w, t.generation, t.message, now)
      [] t.task = "ReceivedText" -> ReceivedText(w, t.generation, t.large, now)
      [] t.task = "SendCompleted" ->
           IF t.send.lease > 0
             THEN SendCompleted(w, t.generation, t.send.lease, t.success, now)
             ELSE FrameSent(w, t.generation, t.send.frames, t.send.action,
                            t.success, now)
      [] t.task = "Closed" -> SocketDidClose(w, t.generation, t.code, now)
      [] t.task = "Failed" -> FailCurrentSocket(w, t.generation, NoCode, now)
      [] t.task = "Resolve" ->
           ResolveProtocolAdapter(w, t.generation, t.event, t.frames,
                                  t.action, now)
      [] t.task = "Background" -> EnterBackground(w)
      [] t.task = "Foreground" -> EnterForeground(w, now)
      [] t.task = "Configure" -> ConfigureHost(w, t.connect, now)
      [] t.task = "Destroy" -> DestroyHost(w)

RunBlock ==
    /\ queue # << >>
    /\ Becomes(Handle(World, Head(queue)))
    /\ queue' = Tail(queue)
    /\ UNCHANGED <<now, edits, unnotified, frames, requests, verdicts>>

TimerFires ==
    /\ \E deadline \in host.timer : now >= deadline
    /\ Becomes(DriveHost([World EXCEPT !.host.timer = {}], now))
    /\ UNCHANGED <<queue, now, edits, unnotified, frames, requests,
                   verdicts>>

(* An adapter that does not answer in time has refused the connection.     *)
ProtocolAdapterTimesOut ==
    /\ host.protocolAdapterTimer
    /\ \E generation \in host.generation :
          Becomes(FailCurrentSocket(
                      [World EXCEPT !.host.protocolAdapterTimer = FALSE],
                      generation, PolicyViolation, now))
    /\ verdicts' = verdicts
                      \union {[on |-> g, is |-> "refused"] : g \in host.generation}
    /\ UNCHANGED <<queue, now, edits, unnotified, frames, requests>>

-----------------------------------------------------------------------------
(* URLSession, which reports through blocks.  The callbacks of a cancelled *)
(* socket come late, those of requests it never completed with a failure.  *)

Post(task) == queue' = Append(queue, task)

Judged(generation, refused) ==
    verdicts \union IF refused THEN {[on |-> generation, is |-> "refused"]}
                               ELSE {}

Alive(generation) == sockets[generation].status \in {"connecting", "open"}

NetworkOpens(generation) ==
    /\ sockets[generation].status = "connecting"
    /\ Len(queue) < MaxQueue
    /\ sockets' = [sockets EXCEPT ![generation].status = "open"]
    /\ Post([task |-> "Opened", generation |-> generation])
    /\ UNCHANGED <<session, host, asked, delivered, wire, now, edits,
                   unnotified, frames, requests, verdicts>>

PeerSends(generation, message) ==
    /\ sockets[generation].status = "open"
    /\ sockets[generation].receiving > 0
    /\ Len(queue) < MaxQueue
    /\ frames < MaxFrames
    /\ frames' = frames + 1
    /\ sockets' = [sockets EXCEPT ![generation].receiving = @ - 1]
    /\ Post([task |-> "Received", generation |-> generation,
             message |-> message])
    /\ verdicts' = Judged(generation, \/ message.fault = "Incompatible"
                                      \/ message.step2 /\ ~message.changes)
    /\ UNCHANGED <<session, host, asked, delivered, wire, now, edits,
                   unnotified, requests>>

PeerSendsText(generation, large) ==
    /\ sockets[generation].status = "open"
    /\ sockets[generation].receiving > 0
    /\ Len(queue) < MaxQueue
    /\ frames < MaxFrames
    /\ frames' = frames + 1
    /\ sockets' = [sockets EXCEPT ![generation].receiving = @ - 1]
    /\ Post([task |-> "ReceivedText", generation |-> generation, large |-> large])
    /\ verdicts' = Judged(generation, TRUE)
    /\ UNCHANGED <<session, host, asked, delivered, wire, now, edits,
                   unnotified, requests>>

ReceiveFails(generation) ==
    /\ sockets[generation].status # "connecting"
    /\ sockets[generation].receiving > 0
    /\ Len(queue) < MaxQueue
    /\ sockets' = [sockets EXCEPT ![generation].receiving = @ - 1]
    /\ Post([task |-> "Failed", generation |-> generation])
    /\ UNCHANGED <<session, host, asked, delivered, wire, now, edits,
                   unnotified, frames, requests, verdicts>>

SendCompletes(generation, send, success) ==
    /\ Len(queue) < MaxQueue
    /\ sockets' = [sockets EXCEPT ![generation].sends = @ \ {send}]
    /\ Post([task |-> "SendCompleted", generation |-> generation,
             send |-> send, success |-> success])
    /\ UNCHANGED <<session, host, asked, delivered, wire, now, edits,
                   unnotified, frames, requests, verdicts>>

PeerCloses(generation, code) ==
    /\ sockets[generation].status = "open"
    /\ Len(queue) < MaxQueue
    /\ sockets' = [sockets EXCEPT ![generation].status = "ended"]
    /\ Post([task |-> "Closed", generation |-> generation, code |-> code])
    /\ verdicts' = Judged(generation, code = PolicyViolation)
    /\ UNCHANGED <<session, host, asked, delivered, wire, now, edits,
                   unnotified, frames, requests>>

NetworkFails(generation) ==
    /\ sockets[generation].status # "ended"
    /\ Len(queue) < MaxQueue
    /\ sockets' = [sockets EXCEPT ![generation].status = "ended"]
    /\ Post([task |-> "Failed", generation |-> generation])
    /\ UNCHANGED <<session, host, asked, delivered, wire, now, edits,
                   unnotified, frames, requests, verdicts>>

-----------------------------------------------------------------------------
(* The application.                                                        *)

Edit ==
    /\ edits < MaxEdits
    /\ CanEdit(session)
    /\ session' = EditCall(session, edits + 1)
    /\ edits' = edits + 1
    /\ unnotified' = unnotified + 1
    /\ UNCHANGED <<host, sockets, asked, delivered, wire, queue, now, frames,
                   requests, verdicts>>

(* notifyOutboundAvailable, once the edit has returned.                    *)
NotifyOutboundAvailable ==
    /\ unnotified > 0
    /\ unnotified' = unnotified - 1
    /\ Post([task |-> "Wake"])
    /\ UNCHANGED <<world, now, edits, frames, requests, verdicts>>

(* The promise of the adapter is settled once.                             *)
AdapterAnswers(event, count, action) ==
    /\ Len(queue) < MaxQueue
    /\ asked' = asked \ {event}
    /\ Post([task |-> "Resolve", generation |-> event.generation,
             event |-> event.event, frames |-> count, action |-> action])
    /\ verdicts' =
          IF action = "ready"
            THEN verdicts \union {[on |-> event.generation, is |-> "ready"]}
            ELSE Judged(event.generation, action = "reject")
    /\ UNCHANGED <<session, host, sockets, delivered, wire, now, edits,
                   unnotified, frames, requests>>

Request(task) ==
    /\ requests < MaxRequests
    /\ requests' = requests + 1
    /\ Post(task)
    /\ UNCHANGED <<world, now, edits, unnotified, frames, verdicts>>

Tick ==
    /\ now < MaxMillis
    /\ now' = now + 1
    /\ UNCHANGED <<world, queue, edits, unnotified, frames, requests,
                   verdicts>>

Requests ==
    {[task |-> "Background"], [task |-> "Foreground"], [task |-> "Destroy"]}
        \union [task : {"Configure"}, connect : BOOLEAN]

Next ==
    \/ RunBlock
    \/ TimerFires
    \/ ProtocolAdapterTimesOut
    \/ \E generation \in DOMAIN sockets :
          \/ NetworkOpens(generation)
          \/ \E message \in PeerMessages(Faults) : PeerSends(generation, message)
          \/ \E large \in BOOLEAN : PeerSendsText(generation, large)
          \/ ReceiveFails(generation)
          \/ \E send \in sockets[generation].sends, success \in BOOLEAN :
                SendCompletes(generation, send, success)
          \/ \E code \in CloseCodes : PeerCloses(generation, code)
          \/ NetworkFails(generation)
    \/ Edit
    \/ NotifyOutboundAvailable
    \/ \E event \in asked, count \in 0 .. MaxAnswer, action \in Actions :
          AdapterAnswers(event, count, action)
    \/ \E task \in Requests : Request(task)
    \/ Tick

Spec == Init /\ [][Next]_vars

-----------------------------------------------------------------------------
(* Properties *)

(* Types of the variables.                                                 *)
TypeOK ==
    /\ session.transport \in Transports
    /\ host \in [generation           : SUBSET (1 .. MaxGeneration),
                 timer                : SUBSET (0 .. MaxMillis),
                 protocolAdapterTimer : BOOLEAN,
                 inFlightLease        : SUBSET (1 .. MaxLeaseId),
                 networkSocketOpened  : BOOLEAN,
                 socketOpened         : BOOLEAN,
                 events               : Nat,
                 pendingEvent         : Nat,
                 backgrounded         : BOOLEAN,
                 connect              : BOOLEAN,
                 destroyed            : BOOLEAN]
    /\ \A g \in DOMAIN sockets :
          /\ sockets[g].status \in {"connecting", "open", "cancelled", "ended"}
          /\ sockets[g].receiving \in Nat
    /\ verdicts \in
          SUBSET [on : 1 .. MaxGeneration, is : {"ready", "refused"}]

(* Tasks of the current socket that carry on its work.                     *)
Waiting(kind) ==
    {i \in DOMAIN queue :
        queue[i].task \in kind /\ {queue[i].generation} = host.generation}

Turns(g) ==
    sockets[g].receiving
        + Cardinality({send \in sockets[g].sends : send.lease = 0})
        + Cardinality({e \in asked : /\ e.generation = g
                                     /\ e.event = host.pendingEvent})
        + Cardinality({i \in Waiting({"Resolve"}) :
                          queue[i].event = host.pendingEvent})
        + Cardinality(Waiting({"Received", "ReceivedText"}))
        + Cardinality({i \in Waiting({"SendCompleted"}) :
                          queue[i].send.lease = 0})

(* receiveNext asks for one frame at a time, after the previous one was    *)
(* handled or the adapter answered it.  On a socket that is up exactly one *)
(* turn is pending: a request for a frame, a frame, an unanswered event or *)
(* a frame of the adapter's answer.  With none the connection would be     *)
(* deaf, with two a frame would meet an event that is pending.  A request  *)
(* that failed is on its way to close the socket.                          *)
OneTurn ==
    \A g \in host.generation :
        (host.networkSocketOpened /\ Waiting({"Failed"}) = {})
            => Turns(g) = 1

(* A live attempt of the session always has its socket.  The socket may    *)
(* outlive the attempt, which the session gives up when a frame is faulty, *)
(* only while the result of a send is awaited.                             *)
AttemptHasSocket ==
    /\ session.transport.live_attempt \subseteq host.generation
    /\ (host.generation # session.transport.live_attempt)
           => host.inFlightLease # {}

(* At most one socket is in use.                                           *)
OneSocket ==
    {g \in DOMAIN sockets : Alive(g)} \subseteq host.generation

(* inFlightLease mirrors the lease of the outbox on the current socket, so *)
(* that nothing is leased behind the back of a send, and the result of a   *)
(* send settles the lease it belongs to.                                   *)
InFlightIsLeased ==
    host.generation = session.transport.live_attempt
        => host.inFlightLease = {lease.id : lease \in session.outbox.active_lease}

(* While messages wait on an open connection, a send is in flight, its     *)
(* result is queued, or a wake-up is posted or about to be.                *)
PendingIsWoken ==
    (/\ CanDrive(World)
     /\ session.transport.state \in OpenStates
     /\ Pending(session.outbox) > 0)
        => \/ unnotified > 0
           \/ host.inFlightLease # {}
           \/ \E i \in DOMAIN queue : queue[i].task = "Wake"

(* Edits are acknowledged in order, each once, and no socket is handed an  *)
(* edit twice or before an earlier one that nobody acknowledged.           *)
EditsInOrder ==
    LET queued == Documents(session.outbox.ordered)
    IN  /\ [i \in 1 .. edits |-> i]
               = delivered \o [i \in DOMAIN queued |-> queued[i].id]
        /\ \A i, j \in DOMAIN wire :
              (i < j /\ wire[i][1] = wire[j][1])
                  => wire[j][2] = wire[i][2] + (j - i)

(* limits.rs:127-129: a full outbox is retryable, "never Incompatible".    *)
(* The session gives a room up only if its latest connection was refused   *)
(* by the peer or by the adapter.                                          *)
OnlyPeerRefuses ==
    session.transport.state = "Incompatible"
        => [on |-> session.transport.last_issued, is |-> "refused"] \in verdicts

(* The prelude is timed for as long as it lasts.                           *)
PreludeIsTimed ==
    (Adapter /\ host.networkSocketOpened /\ ~host.socketOpened)
        => host.protocolAdapterTimer

(* With an adapter, Yjs traffic starts only on a connection the adapter    *)
(* itself found ready: an answer that is late meets another attempt whose  *)
(* events carry the same numbers.                                          *)
OpenOnlyWhenReady ==
    (Adapter /\ host.socketOpened)
        => \A g \in host.generation : [on |-> g, is |-> "ready"] \in verdicts

(* state.rs:8-10: "the host only invokes the Rust drive operation when     *)
(* that deadline arrives".  While a retry is scheduled and the host may    *)
(* drive, its timer is armed for the deadline, or a task that drives is    *)
(* waiting.                                                                *)
RetryIsArmed ==
    (/\ CanDrive(World)
     /\ session.transport.state = "Disconnected"
     /\ session.transport.next_retry_deadline_millis # {}
     /\ CanIssue(session.transport))
        => \/ host.timer = session.transport.next_retry_deadline_millis
           \/ \E i \in DOMAIN queue : queue[i].task = "Wake"

=============================================================================
