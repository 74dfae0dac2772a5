----------------------------- MODULE IosHostOps -----------------------------
(***************************************************************************)
(* The handlers of the iOS NativeCollaborationTransport, which run one     *)
(* after another on the transport's serial queue (ios,                     *)
(* NativeCollaborationTransport.swift and its +Socket extension).          *)
(*                                                                         *)
(* As in HostOps a handler is a function of the world.  Unlike Android, a  *)
(* send reports its result later, frames are received one request at a     *)
(* time, and a refusal of the session closes the socket without a code.    *)
(* The generation stands for the socket token, the attempt id and the      *)
(* closeReported flag, which are set and cleared with it.                  *)
(***************************************************************************)
EXTENDS SessionOps

CONSTANT Adapter    \* the configuration has a protocol adapter

AdapterAssumption == Adapter \in BOOLEAN

(* Close codes: a policy violation, for which a terminal close code of the *)
(* adapter's configuration stands too, or none, which is any other.        *)
PolicyViolation == 1008
NoCode == 0

DispositionOf(code) ==
    IF code = PolicyViolation THEN "Incompatible" ELSE "Retryable"

NoEvent == 0
Actions == {"continue", "ready", "reject"}

NewHost ==
    [generation           |-> {},
     timer                |-> {},
     protocolAdapterTimer |-> FALSE,
     inFlightLease        |-> {},
     networkSocketOpened  |-> FALSE,
     socketOpened         |-> FALSE,
     events               |-> 0,
     pendingEvent         |-> NoEvent,
     backgrounded         |-> FALSE,
     connect              |-> FALSE,
     destroyed            |-> FALSE]

(* A socket: its status, the receive requests that have not completed and  *)
(* the sends that have not, of leases and of the adapter's frames.         *)
NewSocket == [status |-> "connecting", receiving |-> 0, sends |-> {}]

LeaseSend(lease) == [lease |-> lease.id, frames |-> 0, action |-> "ready"]

FrameSend(frames, action) ==
    [lease |-> 0, frames |-> frames, action |-> action]

CanDrive(w) ==
    ~w.host.destroyed /\ ~w.host.backgrounded /\ w.host.connect

IsCurrent(w, generation) ==
    ~w.host.destroyed /\ w.host.generation = {generation}

-----------------------------------------------------------------------------
(* The socket and the timer.                                               *)

Forgotten(host) ==
    [host EXCEPT !.generation = {}, !.timer = {},
                 !.protocolAdapterTimer = FALSE, !.inFlightLease = {},
                 !.networkSocketOpened = FALSE, !.socketOpened = FALSE,
                 !.pendingEvent = NoEvent]

CancelSocket(w) ==
    [w EXCEPT !.sockets =
        [g \in DOMAIN @ |-> IF g \in w.host.generation /\ @[g].status # "ended"
                              THEN [@[g] EXCEPT !.status = "cancelled"]
                              ELSE @[g]]]

RetireNativeResources(w) == [CancelSocket(w) EXCEPT !.host = Forgotten(@)]

OpenSocket(w, generation) ==
    IF CanDrive(w)
      THEN [RetireNativeResources(w) EXCEPT
                !.host.generation = {generation},
                !.host.events = 0,
                !.sockets = [g \in DOMAIN @ \union {generation} |->
                               IF g = generation THEN NewSocket ELSE @[g]]]
      ELSE w

Schedule(w, deadline) ==
    [w EXCEPT !.host.timer = IF CanDrive(w) THEN deadline ELSE {}]

ReportCurrentSocketClose(w, generation, code, now_millis) ==
    LET result == SocketCloseCall(w.session, generation, DispositionOf(code),
                                  now_millis)
        told == [w EXCEPT !.host = Forgotten(@), !.session = result.session]
        scheduled == Schedule(told, result.deadline)
    IN  IF ~result.ok THEN told
        ELSE IF result.open = {} THEN scheduled
        ELSE OpenSocket(scheduled, CHOOSE g \in result.open : TRUE)

FailCurrentSocket(w, generation, code, now_millis) ==
    IF IsCurrent(w, generation)
      THEN ReportCurrentSocketClose(CancelSocket(w), generation, code,
                                    now_millis)
      ELSE w

-----------------------------------------------------------------------------
(* Sending, one lease at a time.                                           *)

(* A mutation: a lease is taken and sent while another one is in flight.   *)
MaySendEagerly(w) ==
    CanDrive(w) /\ w.host.socketOpened /\ w.host.generation # {}

MaySend(w) ==
    /\ CanDrive(w)
    /\ w.host.socketOpened
    /\ w.host.inFlightLease = {}
    /\ w.host.generation # {}

StartSend(w, generation, lease) ==
    [w EXCEPT !.host.inFlightLease = {lease.id},
              !.sockets[generation].sends = @ \union {LeaseSend(lease)},
              !.wire = IF IsDocument(lease.message)
                         THEN Append(@, <<generation, lease.message.id>>)
                         ELSE @]

DriveOutboundIfPossible(w, now_millis) ==
    IF ~MaySend(w) THEN w
    ELSE LET generation == CHOOSE g \in w.host.generation : TRUE
             result == LeaseOutbound(w.session, generation)
             leased == [w EXCEPT !.session = result.session]
         IN  IF ~result.ok
               THEN FailCurrentSocket(w, generation, PolicyViolation,
                                      now_millis)
             ELSE IF result.lease = {} THEN leased
             ELSE StartSend(leased, generation,
                            CHOOSE lease \in result.lease : TRUE)

ConsumeDirective(w, result, now_millis) ==
    LET told == [w EXCEPT !.session = result.session]
        scheduled == Schedule(told, result.deadline)
    IN  IF ~result.ok THEN told
        ELSE IF result.open = {}
          THEN DriveOutboundIfPossible(scheduled, now_millis)
        ELSE OpenSocket(scheduled, CHOOSE g \in result.open : TRUE)

DriveHost(w, now_millis) ==
    IF CanDrive(w)
      THEN ConsumeDirective(w, FinishDirective(w.session, now_millis),
                            now_millis)
      ELSE w

IsInFlight(w, generation, lease_id) ==
    IsCurrent(w, generation) /\ w.host.inFlightLease = {lease_id}

(* The document a lease of the session holds, as a sequence of its id.     *)
LeasedDocument(s) ==
    LET message == LeaseFront(s.outbox, (CHOOSE lease \in
                                           s.outbox.active_lease : TRUE).kind)
    IN  IF IsDocument(message) THEN <<message.id>> ELSE << >>

SendCompleted(w, generation, lease_id, success, now_millis) ==
    LET settles == CanSettleLease(w.session, generation, lease_id)
        landed == [w EXCEPT !.host.inFlightLease = {}]
    IN  IF ~IsInFlight(w, generation, lease_id) THEN w
        ELSE IF success
          THEN IF settles
                 THEN DriveHost([landed EXCEPT
                                     !.session = AckOutbound(@),
                                     !.delivered =
                                         @ \o LeasedDocument(w.session)],
                                now_millis)
                 ELSE FailCurrentSocket(landed, generation, PolicyViolation,
                                        now_millis)
        ELSE FailCurrentSocket(
                 IF settles THEN [landed EXCEPT !.session = NackOutbound(@)]
                            ELSE landed,
                 generation, NoCode, now_millis)

-----------------------------------------------------------------------------
(* Receiving, one request at a time, and the prelude of the adapter.       *)

ReceiveNext(w, generation) ==
    IF IsCurrent(w, generation) /\ w.host.networkSocketOpened
      THEN [w EXCEPT !.sockets[generation].receiving = @ + 1]
      ELSE w

EmitProtocolAdapterEvent(w, generation, now_millis) ==
    IF IsCurrent(w, generation) /\ w.host.pendingEvent = NoEvent
      THEN LET event == w.host.events + 1
           IN  [w EXCEPT !.host.events = event,
                         !.host.pendingEvent = event,
                         !.asked = @ \union {[generation |-> generation,
                                              event |-> event]}]
      ELSE FailCurrentSocket(w, generation, PolicyViolation, now_millis)

ActivateYjs(w, generation, now_millis) ==
    IF \/ ~IsCurrent(w, generation)
       \/ ~w.host.networkSocketOpened
       \/ w.host.socketOpened
      THEN w
      ELSE LET result == SocketOpenCall(w.session, generation, now_millis)
               consumed == ConsumeDirective(
                   [w EXCEPT !.host.protocolAdapterTimer = FALSE,
                             !.host.pendingEvent = NoEvent,
                             !.host.socketOpened = TRUE],
                   result, now_millis)
           IN  IF result.ok THEN ReceiveNext(consumed, generation)
               ELSE FailCurrentSocket(consumed, generation, NoCode, now_millis)

SocketDidOpen(w, generation, now_millis) ==
    LET opened == [w EXCEPT !.host.networkSocketOpened = TRUE]
    IN  IF ~IsCurrent(w, generation) \/ w.host.networkSocketOpened THEN w
        ELSE IF Adapter
          THEN EmitProtocolAdapterEvent(
                   [opened EXCEPT !.host.protocolAdapterTimer = TRUE],
                   generation, now_millis)
        ELSE ActivateYjs(opened, generation, now_millis)

(* A frame before the session is open is the adapter's, of any type, but    *)
(* not one over maximumFrameBytes.  The large frames of the model are text, *)
(* as a binary one has the same end.                                       *)
PreludeFrame(w, generation, large, now_millis) ==
    IF Adapter /\ ~large THEN EmitProtocolAdapterEvent(w, generation, now_millis)
    ELSE FailCurrentSocket(w, generation, PolicyViolation, now_millis)

ReceivedBinary(w, generation, message, now_millis) ==
    LET result == ReceiveCall(w.session, generation, message, now_millis)
    IN  IF ~IsCurrent(w, generation) THEN w
        ELSE IF ~w.host.socketOpened
          THEN PreludeFrame(w, generation, FALSE, now_millis)
        ELSE IF result.ok
          THEN ReceiveNext(ConsumeDirective(w, result, now_millis), generation)
        ELSE FailCurrentSocket(w, generation, NoCode, now_millis)

ReceivedText(w, generation, large, now_millis) ==
    IF ~IsCurrent(w, generation) THEN w
    ELSE IF ~w.host.socketOpened
      THEN PreludeFrame(w, generation, large, now_millis)
    ELSE FailCurrentSocket(w, generation, PolicyViolation, now_millis)

(* sendProtocolAdapterFrames, with `frames' still to send, and what the    *)
(* adapter decided once they are.                                          *)
SendProtocolAdapterFrames(w, generation, frames, action, now_millis) ==
    IF ~IsCurrent(w, generation) THEN w
    ELSE IF frames > 0
      THEN [w EXCEPT !.sockets[generation].sends =
                        @ \union {FrameSend(frames - 1, action)}]
    ELSE IF action = "continue" THEN ReceiveNext(w, generation)
    ELSE IF action = "ready" THEN ActivateYjs(w, generation, now_millis)
    ELSE FailCurrentSocket(w, generation, PolicyViolation, now_millis)

FrameSent(w, generation, frames, action, success, now_millis) ==
    IF success
      THEN SendProtocolAdapterFrames(w, generation, frames, action, now_millis)
      ELSE FailCurrentSocket(w, generation, NoCode, now_millis)

ResolveProtocolAdapter(w, generation, event, frames, action, now_millis) ==
    IF IsCurrent(w, generation) /\ w.host.pendingEvent = event
      THEN SendProtocolAdapterFrames(
               [w EXCEPT !.host.pendingEvent = NoEvent],
               generation, frames, action, now_millis)
      ELSE w

SocketDidClose(w, generation, code, now_millis) ==
    IF IsCurrent(w, generation)
      THEN ReportCurrentSocketClose(w, generation, code, now_millis)
      ELSE w

-----------------------------------------------------------------------------
(* Lifecycle.                                                              *)

DetachHost(w) ==
    [RetireNativeResources(w) EXCEPT !.session = DetachSession(@)]

ReattachHost(w, now_millis) ==
    IF CanReattach(w.session.transport, TRUE)
      THEN DriveHost([w EXCEPT !.session = ReattachSession(@)], now_millis)
      ELSE w

ConfigureHost(w, connect, now_millis) ==
    LET configured == [DetachHost(w) EXCEPT !.host.connect = connect]
    IN  IF w.host.destroyed THEN w
        ELSE IF connect = w.host.connect THEN DriveHost(w, now_millis)
        ELSE IF CanDrive(configured) THEN ReattachHost(configured, now_millis)
        ELSE configured

EnterBackground(w) ==
    IF w.host.destroyed \/ w.host.backgrounded THEN w
    ELSE DetachHost([w EXCEPT !.host.backgrounded = TRUE])

EnterForeground(w, now_millis) ==
    LET foreground == [w EXCEPT !.host.backgrounded = FALSE]
    IN  IF w.host.destroyed \/ ~w.host.backgrounded THEN w
        ELSE IF w.host.connect THEN ReattachHost(foreground, now_millis)
        ELSE foreground

DestroyHost(w) ==
    IF w.host.destroyed THEN w
    ELSE DetachHost([w EXCEPT !.host.destroyed = TRUE,
                              !.host.connect = FALSE])

=============================================================================
