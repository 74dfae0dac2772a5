------------------------------- MODULE HostOps ------------------------------
(***************************************************************************)
(* The handlers of AndroidCollaborationTransport, which owns the socket of *)
(* one session and does what the directives of the session tell it         *)
(* (android, AndroidCollaborationTransport.kt).                            *)
(*                                                                         *)
(* A single worker thread runs every handler to its end, so a handler is a *)
(* function of the world it works on: the session, the host's own fields,  *)
(* the sockets and the worker's queue.  A socket is named by the           *)
(* generation it was opened for, which the host sets, clears and compares  *)
(* together with its socket token.  `send' is what the socket's send       *)
(* returns and `now_millis' what the clock says, during the handler.       *)
(***************************************************************************)
EXTENDS SessionOps

HostStates == {"FOREGROUND", "BACKGROUND", "DETACHED"}

(* Close codes: a policy violation, or none, which is also any other.      *)
PolicyViolation == 1008
NoCode == 0

(* editor_v2_collaboration_socket_close                                    *)
DispositionOf(code) ==
    IF code = PolicyViolation THEN "Incompatible" ELSE "Retryable"

NewHost ==
    [generation     |-> {},
     timer          |-> {},
     socketOpened   |-> FALSE,
     hostState      |-> "FOREGROUND",
     nativeAttached |-> TRUE,
     connect        |-> FALSE,
     destroyed      |-> FALSE]

(* terminal is set by the thread that destroys, ahead of the worker.       *)
CanDrive(w) ==
    /\ ~w.host.destroyed
    /\ ~w.terminal
    /\ w.host.hostState = "FOREGROUND"
    /\ w.host.nativeAttached
    /\ w.host.connect

IsCurrent(w, generation) ==
    /\ ~w.host.destroyed
    /\ ~w.terminal
    /\ w.host.generation = {generation}

-----------------------------------------------------------------------------
(* The socket and the timer.                                               *)

(* retireCurrentSocket: the socket is closed or cancelled; callbacks of it *)
(* may still come.                                                         *)
CloseSocket(w) ==
    [w EXCEPT !.sockets =
        [g \in DOMAIN @ |-> IF g \in w.host.generation /\ @[g] # "ended"
                              THEN "closing" ELSE @[g]]]

RetireNativeResources(w) ==
    [CloseSocket(w) EXCEPT !.host.generation = {},
                           !.host.timer = {},
                           !.host.socketOpened = FALSE]

OpenSocket(w, generation) ==
    IF CanDrive(w)
      THEN LET retired == RetireNativeResources(w)
           IN  [retired EXCEPT
                    !.host.generation = {generation},
                    !.sockets = [g \in DOMAIN @ \union {generation} |->
                                   IF g = generation THEN "connecting"
                                                     ELSE @[g]]]
      ELSE w

(* A mutation: the deadline of a directive is not scheduled.               *)
ScheduleNothing(w, deadline) == [w EXCEPT !.host.timer = {}]

ScheduleDeadline(w, deadline) ==
    [w EXCEPT !.host.timer = IF CanDrive(w) THEN deadline ELSE {}]

-----------------------------------------------------------------------------
(* Reporting the end of a connection.                                      *)

(* A mutation: the session is not told.                                    *)
ForgetCurrentSocket(w, generation, code, now_millis) ==
    RetireNativeResources(w)

(* The host has forgotten the generation, so the directive of the close    *)
(* finds nothing to send.                                                  *)
ReportCurrentSocketClose(w, generation, code, now_millis) ==
    LET cleared == [w EXCEPT !.host.generation = {},
                             !.host.timer = {},
                             !.host.socketOpened = FALSE]
        result == SocketCloseCall(w.session, generation, DispositionOf(code),
                                  now_millis)
        told == [cleared EXCEPT !.session = result.session]
        scheduled == ScheduleDeadline(told, result.deadline)
    IN  IF ~result.ok THEN told
        ELSE IF result.open = {} THEN scheduled
        ELSE OpenSocket(scheduled, CHOOSE g \in result.open : TRUE)

FailCurrentSocket(w, generation, code, now_millis) ==
    IF IsCurrent(w, generation)
      THEN ReportCurrentSocketClose(CloseSocket(w), generation, code,
                                    now_millis)
      ELSE w

-----------------------------------------------------------------------------
(* Sending, one message per handler.                                       *)

Post(w, task) == [w EXCEPT !.queue = Append(@, task)]

(* A mutation: an acknowledged message does not lead to the next one.      *)
SendLeaseOnce(w, generation, lease, send, now_millis) ==
    IF send
      THEN [w EXCEPT !.session = AckOutbound(@),
                     !.delivered = IF IsDocument(lease.message)
                                     THEN Append(@, lease.message.id) ELSE @]
      ELSE FailCurrentSocket([w EXCEPT !.session = NackOutbound(@)],
                             generation, NoCode, now_millis)

SendLease(w, generation, lease, send, now_millis) ==
    IF send
      THEN LET sent == [w EXCEPT !.delivered =
                            IF IsDocument(lease.message)
                              THEN Append(@, lease.message.id) ELSE @]
           IN  IF CanSettleLease(w.session, generation, lease.id)
                 THEN Post([sent EXCEPT !.session = AckOutbound(@)],
                               [task |-> "DriveIfCurrent",
                                generation |-> generation])
                 ELSE FailCurrentSocket(w, generation, PolicyViolation,
                                        now_millis)
      ELSE LET nacked == IF CanSettleLease(w.session, generation, lease.id)
                           THEN [w EXCEPT !.session = NackOutbound(@)]
                           ELSE w
           IN  FailCurrentSocket(nacked, generation, NoCode, now_millis)

DriveOutboundIfPossible(w, send, now_millis) ==
    IF ~CanDrive(w) \/ w.host.generation = {} \/ ~w.host.socketOpened
      THEN w
      ELSE LET generation == CHOOSE g \in w.host.generation : TRUE
               result == LeaseOutbound(w.session, generation)
               leased == [w EXCEPT !.session = result.session]
           IN  IF ~result.ok
                 THEN FailCurrentSocket(w, generation, PolicyViolation,
                                        now_millis)
               ELSE IF result.lease = {} THEN leased
               ELSE SendLease(leased, generation,
                              CHOOSE lease \in result.lease : TRUE,
                              send, now_millis)

ConsumeDirective(w, result, send, now_millis) ==
    LET told == [w EXCEPT !.session = result.session]
        scheduled == ScheduleDeadline(told, result.deadline)
    IN  IF ~result.ok THEN told
        ELSE IF result.open = {}
          THEN DriveOutboundIfPossible(scheduled, send, now_millis)
        ELSE OpenSocket(scheduled, CHOOSE g \in result.open : TRUE)

DriveHost(w, send, now_millis) ==
    IF CanDrive(w)
      THEN ConsumeDirective(w, FinishDirective(w.session, now_millis), send,
                            now_millis)
      ELSE w

-----------------------------------------------------------------------------
(* Callbacks of a socket.                                                  *)

(* socketDidOpen and activateYjs, without a protocol adapter.              *)
SocketDidOpen(w, generation, send, now_millis) ==
    IF ~IsCurrent(w, generation) \/ w.host.socketOpened THEN w
    ELSE LET result == SocketOpenCall(w.session, generation, now_millis)
             consumed == ConsumeDirective(
                             [w EXCEPT !.host.socketOpened = TRUE],
                             result, send, now_millis)
         IN  IF result.ok THEN consumed
             ELSE FailCurrentSocket(consumed, generation, PolicyViolation,
                                    now_millis)

SocketDidReceive(w, generation, message, send, now_millis) ==
    IF ~IsCurrent(w, generation) THEN w
    ELSE IF ~w.host.socketOpened
      THEN FailCurrentSocket(w, generation, PolicyViolation, now_millis)
    ELSE LET result == ReceiveCall(w.session, generation, message, now_millis)
             consumed == ConsumeDirective(w, result, send, now_millis)
         IN  IF result.ok THEN consumed
             ELSE FailCurrentSocket(consumed, generation, PolicyViolation,
                                    now_millis)

SocketDidClose(w, generation, code, now_millis) ==
    IF IsCurrent(w, generation)
      THEN ReportCurrentSocketClose(w, generation, code, now_millis)
      ELSE w

-----------------------------------------------------------------------------
(* Lifecycle.                                                              *)

DetachNative(w) ==
    IF w.host.nativeAttached
      THEN [w EXCEPT !.session = DetachSession(@),
                     !.host.nativeAttached = FALSE]
      ELSE w

CanReattachNative(w) ==
    w.host.nativeAttached \/ CanReattach(w.session.transport, TRUE)

ReattachNative(w) ==
    IF w.host.nativeAttached THEN w
    ELSE [w EXCEPT !.session = ReattachSession(@),
                   !.host.nativeAttached = TRUE]

ReconcileDesiredState(w, desired, send, now_millis) ==
    LET seen == [w EXCEPT !.host.hostState = desired]
    IN  IF w.host.destroyed \/ w.terminal THEN w
        ELSE IF desired # "FOREGROUND"
          THEN DetachNative(RetireNativeResources(seen))
        ELSE IF ~w.host.connect \/ ~CanReattachNative(w) THEN seen
        ELSE IF ~w.host.nativeAttached \/ w.host.hostState # "FOREGROUND"
          THEN DriveHost(ReattachNative(seen), send, now_millis)
        ELSE seen

(* configure, with a configuration that differs from the one in force.     *)
ConfigureAnew(w, connect, desired, send, now_millis) ==
    LET detached == DetachNative(RetireNativeResources(
                        [w EXCEPT !.host.hostState = desired]))
        connecting == connect /\ desired = "FOREGROUND"
        attached == IF connecting THEN ReattachNative(detached) ELSE detached
        configured == [attached EXCEPT !.host.connect = connect]
    IN  IF w.host.destroyed \/ w.terminal THEN w
        ELSE IF connecting /\ ~CanReattachNative(detached) THEN detached
        ELSE IF connecting THEN DriveHost(configured, send, now_millis)
        ELSE configured

ConfigureAgain(w, desired, send, now_millis) ==
    LET reconciled == ReconcileDesiredState(w, desired, send, now_millis)
    IN  IF CanDrive(w) /\ CanDrive(reconciled)
          THEN DriveHost(reconciled, send, now_millis)
          ELSE reconciled

DestroyHost(w) ==
    LET retired == DetachNative(RetireNativeResources(
                       [w EXCEPT !.host.destroyed = TRUE,
                                 !.host.hostState = "DETACHED"]))
    IN  [retired EXCEPT !.host.connect = FALSE]

=============================================================================
