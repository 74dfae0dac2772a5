---------------------------- MODULE TransportHost ---------------------------
(***************************************************************************)
(* One room-bound session, the Android host that connects it, the network  *)
(* and the other threads of the application.                               *)
(*                                                                         *)
(* The worker takes its tasks in order; a handler is one step.  The timer  *)
(* fires once its deadline has come.  Socket callbacks, edits followed by  *)
(* their wake-up, requests for a host state, configuration and destruction *)
(* come from other threads between handlers.                               *)
(***************************************************************************)
EXTENDS HostOps

CONSTANTS
    Faults,       \* the faults of the peer's frames: "None" and dispositions
    CloseCodes,   \* the codes a peer closes with
    MaxEdits,     \* bound: local edits
    MaxFrames,    \* bound: messages of the peer
    MaxRequests,  \* bound: host-state requests and configurations
    MaxQueue      \* bound: tasks waiting when the network adds another

VARIABLES
    session,      \* the EditorSession
    host,         \* the fields of AndroidCollaborationTransport
    sockets,      \* the status of each socket, by generation
    queue,        \* the tasks waiting for the worker
    desired,      \* desiredHostState
    terminal,     \* destruction was requested
    now,          \* the monotonic clock
    edits,        \* history: the edits committed, numbered from 1
    unnotified,   \* edits whose wake-up is still to be posted
    frames,       \* history: messages of the peer
    requests,     \* history: requests of the application
    peer_refused, \* history: the peer sent or closed with a refusal
    delivered     \* history: the edits whose sending was acknowledged

world == <<session, host, sockets, queue, terminal, delivered>>
vars == <<world, desired, now, edits, unnotified, frames, requests,
          peer_refused>>

World ==
    [session |-> session, host |-> host, sockets |-> sockets,
     queue |-> queue, terminal |-> terminal, delivered |-> delivered]

Becomes(w) ==
    /\ session' = w.session
    /\ host' = w.host
    /\ sockets' = w.sockets
    /\ queue' = w.queue
    /\ terminal' = w.terminal
    /\ delivered' = w.delivered

Init ==
    /\ \E document_state \in DocumentStates :
          session = NewSession(document_state)
    /\ host = NewHost
    /\ sockets = [g \in {} |-> "ended"]
    /\ queue = << >>
    /\ desired = "FOREGROUND"
    /\ terminal = FALSE
    /\ now = 0
    /\ edits = 0
    /\ unnotified = 0
    /\ frames = 0
    /\ requests = 0
    /\ peer_refused = FALSE
    /\ delivered = << >>

-----------------------------------------------------------------------------
(* The worker.                                                             *)

Handle(w, t, send) ==
    CASE t.task = "Wake" -> DriveHost(w, send, now)
      [] t.task = "DriveIfCurrent" ->
           IF w.host.generation = {t.generation} THEN DriveHost(w, send, now)
                                                 ELSE w
      [] t.task = "Opened" -> SocketDidOpen(w, t.generation, send, now)
      [] t.task = "Received" ->
           SocketDidReceive(w, t.generation, t.message, send, now)
      [] t.task = "Closed" -> SocketDidClose(w, t.generation, t.code, now)
      [] t.task = "Failed" -> FailCurrentSocket(w, t.generation, NoCode, now)
      [] t.task = "Reconcile" -> ReconcileDesiredState(w, desired, send, now)
      [] t.task = "Configure" ->
           IF t.connect = w.host.connect
             THEN ConfigureAgain(w, desired, send, now)
             ELSE ConfigureAnew(w, t.connect, desired, send, now)
      [] t.task = "Destroy" -> DestroyHost(w)

RunTask ==
    /\ queue # << >>
    /\ \E send \in BOOLEAN :
          Becomes(Handle([World EXCEPT !.queue = Tail(@)], Head(queue), send))
    /\ UNCHANGED <<desired, now, edits, unnotified, frames, requests,
                   peer_refused>>

TimerFires ==
    /\ \E deadline \in host.timer : now >= deadline
    /\ \E send \in BOOLEAN :
          Becomes(DriveHost([World EXCEPT !.host.timer = {}], send, now))
    /\ UNCHANGED <<desired, now, edits, unnotified, frames, requests,
                   peer_refused>>

-----------------------------------------------------------------------------
(* The network, which reports through tasks.                               *)

(* enqueue, refused once destruction was requested.                        *)
Enqueued(task) == IF terminal THEN queue ELSE Append(queue, task)

NetworkOpens(generation) ==
    /\ sockets[generation] = "connecting"
    /\ Len(queue) < MaxQueue
    /\ sockets' = [sockets EXCEPT ![generation] = "open"]
    /\ queue' = Enqueued([task |-> "Opened", generation |-> generation])
    /\ UNCHANGED <<session, host, terminal, delivered, desired, now, edits,
                   unnotified, frames, requests, peer_refused>>

PeerSends(generation, message) ==
    /\ sockets[generation] = "open"
    /\ Len(queue) < MaxQueue
    /\ frames < MaxFrames
    /\ frames' = frames + 1
    /\ queue' = Enqueued([task |-> "Received", generation |-> generation,
                          message |-> message])
    /\ peer_refused' = (\/ peer_refused
                        \/ message.fault = "Incompatible"
                        \/ message.step2 /\ ~message.changes)
    /\ UNCHANGED <<session, host, sockets, terminal, delivered, desired, now,
                   edits, unnotified, requests>>

PeerCloses(generation, code) ==
    /\ sockets[generation] \in {"open", "closing"}
    /\ Len(queue) < MaxQueue
    /\ sockets' = [sockets EXCEPT ![generation] = "ended"]
    /\ queue' = Enqueued([task |-> "Closed", generation |-> generation,
                          code |-> code])
    /\ peer_refused' = (peer_refused \/ code = PolicyViolation)
    /\ UNCHANGED <<session, host, terminal, delivered, desired, now, edits,
                   unnotified, frames, requests>>

NetworkFails(generation) ==
    /\ sockets[generation] # "ended"
    /\ Len(queue) < MaxQueue
    /\ sockets' = [sockets EXCEPT ![generation] = "ended"]
    /\ queue' = Enqueued([task |-> "Failed", generation |-> generation])
    /\ UNCHANGED <<session, host, terminal, delivered, desired, now, edits,
                   unnotified, frames, requests, peer_refused>>

-----------------------------------------------------------------------------
(* The application.                                                        *)

Edit ==
    /\ edits < MaxEdits
    /\ CanEdit(session)
    /\ session' = EditCall(session, edits + 1)
    /\ edits' = edits + 1
    /\ unnotified' = unnotified + 1
    /\ UNCHANGED <<host, sockets, queue, terminal, delivered, desired, now,
                   frames, requests, peer_refused>>

(* notifyOutboundAvailable, once the edit has returned.                    *)
NotifyOutboundAvailable ==
    /\ unnotified > 0
    /\ unnotified' = unnotified - 1
    /\ queue' = Enqueued([task |-> "Wake"])
    /\ UNCHANGED <<session, host, sockets, terminal, delivered, desired, now,
                   edits, frames, requests, peer_refused>>

RequestHostState(state) ==
    /\ ~terminal
    /\ requests < MaxRequests
    /\ requests' = requests + 1
    /\ desired' = state
    /\ queue' = Enqueued([task |-> "Reconcile"])
    /\ UNCHANGED <<session, host, sockets, terminal, delivered, now, edits,
                   unnotified, frames, peer_refused>>

Configure(connect) ==
    /\ ~terminal
    /\ requests < MaxRequests
    /\ requests' = requests + 1
    /\ queue' = Enqueued([task |-> "Configure", connect |-> connect])
    /\ UNCHANGED <<session, host, sockets, terminal, delivered, desired, now,
                   edits, unnotified, frames, peer_refused>>

DestroyAsync ==
    /\ ~terminal
    /\ terminal' = TRUE
    /\ desired' = "DETACHED"
    /\ queue' = Append(queue, [task |-> "Destroy"])
    /\ UNCHANGED <<session, host, sockets, delivered, now, edits, unnotified,
                   frames, requests, peer_refused>>

Tick ==
    /\ now < MaxMillis
    /\ now' = now + 1
    /\ UNCHANGED <<world, desired, edits, unnotified, frames, requests,
                   peer_refused>>

Next ==
    \/ RunTask
    \/ TimerFires
    \/ \E generation \in DOMAIN sockets :
          \/ NetworkOpens(generation)
          \/ \E message \in PeerMessages(Faults) : PeerSends(generation, message)
          \/ \E code \in CloseCodes : PeerCloses(generation, code)
          \/ NetworkFails(generation)
    \/ Edit
    \/ NotifyOutboundAvailable
    \/ \E state \in {"FOREGROUND", "BACKGROUND"} : RequestHostState(state)
    \/ \E connect \in BOOLEAN : Configure(connect)
    \/ DestroyAsync
    \/ Tick

Spec == Init /\ [][Next]_vars

(* Weak fairness of the worker, of its timer, of the thread of an edit and *)
(* of time, spelled out because what enables each of them is plain: a task *)
(* and a timer are used up when they run, so each step changes something.  *)
(* Nothing is assumed of the network, the peer or the application.         *)
FairSpec ==
    /\ Spec
    /\ []<>(queue = << >>) \/ []<><<RunTask>>_vars
    /\ []<>(\A deadline \in host.timer : now < deadline)
         \/ []<><<TimerFires>>_vars
    /\ []<>(unnotified = 0) \/ []<><<NotifyOutboundAvailable>>_vars
    /\ []<>(now = MaxMillis) \/ []<><<Tick>>_vars

-----------------------------------------------------------------------------
(* Properties *)

(* Types of the variables.                                                 *)
TypeOK ==
    /\ session.transport \in Transports
    /\ session.document_state \in DocumentStates
    /\ host \in [generation     : SUBSET (1 .. MaxGeneration),
                 timer          : SUBSET (0 .. MaxMillis),
                 socketOpened   : BOOLEAN,
                 hostState      : HostStates,
                 nativeAttached : BOOLEAN,
                 connect        : BOOLEAN,
                 destroyed      : BOOLEAN]
    /\ \A g \in DOMAIN sockets :
          sockets[g] \in {"connecting", "open", "closing", "ended"}
    /\ desired \in HostStates
    /\ {terminal, peer_refused} \subseteq BOOLEAN
    /\ now \in 0 .. MaxMillis

(* The host and the session agree on the attempt in flight between any two *)
(* handlers, however closes, refusals and lifecycle requests were ordered: *)
(* no attempt is left live in the session without a socket to finish it,   *)
(* and no socket is kept for an attempt the session gave up.               *)
AttemptHasSocket ==
    /\ host.generation = session.transport.live_attempt
    /\ host.socketOpened <=> session.transport.state \in OpenStates

(* At most one socket is in use: every other one was closed by the host or *)
(* ended by the network.                                                   *)
OneSocket ==
    {g \in DOMAIN sockets : sockets[g] \in {"connecting", "open"}}
        \subseteq host.generation

(* AndroidCollaborationTransport sends one message per handler: while      *)
(* messages wait on an open connection, the wake-up that sends the next is *)
(* posted or about to be.                                                  *)
PendingIsWoken ==
    (/\ CanDrive(World)
     /\ session.transport.state \in OpenStates
     /\ Pending(session.outbox) > 0)
        => \/ unnotified > 0
           \/ \E i \in DOMAIN queue :
                 \/ queue[i].task = "Wake"
                 \/ /\ queue[i].task = "DriveIfCurrent"
                    /\ {queue[i].generation} = host.generation

(* The edits reach the peer's connection in order, each acknowledged once, *)
(* across closes, rejected sends, reconnections and reconfigurations.      *)
EditsInOrder ==
    LET queued == Documents(session.outbox.ordered)
    IN  [i \in 1 .. edits |-> i]
            = delivered \o [i \in DOMAIN queued |-> queued[i].id]

(* AndroidCollaborationTransport and the session it drives, between any    *)
(* two handlers: they agree on the attempt, one socket is in use, no       *)
(* message is left behind, and no edit is lost, repeated or overtaken.     *)
HostStands == AttemptHasSocket /\ OneSocket /\ PendingIsWoken /\ EditsInOrder

(* limits.rs:127-129, of the outbox's ceilings: "pending offline document  *)
(* updates drain over time, so retry can change the result -- the close is *)
(* retryable, never Incompatible".  The session gives a room up as         *)
(* incompatible only if the peer refused it.                               *)
OnlyPeerRefuses ==
    session.transport.state = "Incompatible" => peer_refused

(* state.rs:8-10: "Rust owns retry eligibility, the backoff index, and its *)
(* absolute monotonic deadline; the host only invokes the Rust drive       *)
(* operation when that deadline arrives".  While a retry is scheduled and  *)
(* the host may drive, its timer is armed for the deadline, or a task that *)
(* drives is waiting.                                                      *)
RetryIsArmed ==
    (/\ CanDrive(World)
     /\ session.transport.state = "Disconnected"
     /\ session.transport.next_retry_deadline_millis # {}
     /\ CanIssue(session.transport))
        => \/ host.timer = session.transport.next_retry_deadline_millis
           \/ \E i \in DOMAIN queue : queue[i].task = "Wake"

(* A connection the application wants is attempted again until generations *)
(* or the clock are exhausted.                                             *)
RetryIsTaken ==
    (/\ CanDrive(World)
     /\ session.transport.state = "Disconnected"
     /\ ~session.transport.retry_schedule_exhausted
     /\ CanIssue(session.transport))
        ~> \/ ~CanDrive(World)
           \/ session.transport.state # "Disconnected"

(* An edit on an open connection is sent, or the connection ends.          *)
EditsAreSent ==
    \A n \in 1 .. MaxEdits :
        (edits >= n /\ session.transport.state \in OpenStates)
            ~> \/ Len(delivered) >= n
               \/ session.transport.state \notin OpenStates

=============================================================================
