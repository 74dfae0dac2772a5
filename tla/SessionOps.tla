----------------------------- MODULE SessionOps -----------------------------
(***************************************************************************)
(* The collaboration calls of a room-bound EditorSession that shows no     *)
(* presence: each composes, under the session lock, the transport state    *)
(* machine and the outbox (editor-core, session/collaboration.rs and       *)
(* collaboration_runtime/protocol.rs).                                     *)
(*                                                                         *)
(* A call returns whether it succeeded, the session after it and, when it  *)
(* did, the directive for the host: the generation to open and the next    *)
(* deadline.  Without a local presence and without peers the awareness     *)
(* step of a directive has nothing to do.  Every message has length one.   *)
(***************************************************************************)
EXTENDS TransportOps, OutboxOps

DocumentStates == {"AwaitRemote", "RoomReady"}

NewSession(document_state) ==
    [transport      |-> NewTransport("Disconnected"),
     outbox         |-> NewOutbox,
     document_state |-> document_state]

(* A message of the peer: whether it asks for a reply, holds a Sync Step 2 *)
(* and which changes the document, and the fault of the frame after those. *)
PeerMessages(faults) ==
    {m \in [asks : BOOLEAN, step2 : BOOLEAN, changes : BOOLEAN, fault : faults] :
        m.changes => m.step2}

Message(kind, id) == [kind |-> kind, id |-> id, bytes |-> 1]

Refused(s) == [ok |-> FALSE, session |-> s, open |-> {}, deadline |-> {}]

(* finish_transport_directive, which every call that returns a directive   *)
(* ends with.                                                              *)
FinishDirective(s, now_millis) ==
    LET driven == Drive(s.transport, TRUE, now_millis)
    IN  IF DriveFails(s.transport, TRUE, now_millis)
          THEN Refused(s)
          ELSE [ok       |-> TRUE,
                session  |-> [s EXCEPT !.transport = driven],
                open     |-> GenerationToOpen(s.transport, driven),
                deadline |-> driven.next_retry_deadline_millis]

(* The reply is reserved before the transition and installed after it; as  *)
(* both happen in one call, capacity is only checked.                      *)
SocketOpenCall(s, generation, now_millis) ==
    IF /\ CanOpenSocket(s.transport, generation)
       /\ Admits(s.outbox, "ProtocolReply", 1, 1)
      THEN FinishDirective(
               [s EXCEPT !.transport = SocketOpened(@),
                         !.outbox = Install(@, "ProtocolReply",
                                            <<Message("ProtocolReply", 0)>>)],
               now_millis)
      ELSE Refused(s)

(* retire_transport_scope                                                  *)
CloseSession(s, disposition, now_millis) ==
    [s EXCEPT !.transport = SocketClosed(@, disposition, now_millis),
              !.outbox = ReleaseLease(@)]

SocketCloseCall(s, generation, disposition, now_millis) ==
    IF IsLiveAttempt(s.transport, generation)
      THEN FinishDirective(CloseSession(s, disposition, now_millis), now_millis)
      ELSE Refused(s)

(* apply_step2_synchronization_gate, for a message it accepts.             *)
SynchronizationGate(s, message) ==
    IF message.step2 /\ s.transport.state = "Handshaking"
      THEN [s EXCEPT !.transport = MarkSynchronized(@),
                     !.document_state = "RoomReady"]
      ELSE s

(* The room's first Step 2 must install a document.                        *)
RefusedInitialization(s, message) ==
    /\ message.step2
    /\ s.transport.state = "Handshaking"
    /\ s.document_state = "AwaitRemote"
    /\ ~message.changes

(* process_admitted_message and the close of the generation on a failure:  *)
(* a reply that does not fit, a refused initialization, a faulty frame.    *)
ReceiveMessage(s, message, now_millis) ==
    LET gated == SynchronizationGate(s, message)
    IN  IF message.asks /\ ~Admits(s.outbox, "ProtocolReply", 1, 1)
          THEN CloseSession(s, "Retryable", now_millis)
        ELSE IF RefusedInitialization(s, message)
          THEN CloseSession(s, "Incompatible", now_millis)
        ELSE IF message.fault # "None"
          THEN CloseSession(gated, message.fault, now_millis)
        ELSE IF message.asks
          THEN [gated EXCEPT !.outbox = Install(@, "ProtocolReply",
                                           <<Message("ProtocolReply", 0)>>)]
        ELSE gated

ReceiveCall(s, generation, message, now_millis) ==
    IF CanUseSocket(s.transport, generation)
      THEN FinishDirective(ReceiveMessage(s, message, now_millis), now_millis)
      ELSE Refused(s)

(* A durable local edit, which reserves, writes and installs in one call.  *)
CanEdit(s) ==
    /\ s.document_state = "RoomReady"
    /\ Admits(s.outbox, "DocumentUpdate", 1, 1)

EditCall(s, id) ==
    [s EXCEPT !.outbox = Install(@, "DocumentUpdate",
                                 <<Message("DocumentUpdate", id)>>)]

(* lease_outbound; with a lease in progress it returns that lease again.   *)
LeaseOutbound(s, generation) ==
    IF \/ ~CanUseSocket(s.transport, generation)
       \/ (/\ s.outbox.active_lease = {}
           /\ Pending(s.outbox) > 0
           /\ s.outbox.next_lease_id = {})
      THEN [ok |-> FALSE, session |-> s, lease |-> {}]
      ELSE LET leased == IF CanLease(s.outbox) THEN LeaseNext(s.outbox)
                                               ELSE s.outbox
           IN  [ok      |-> TRUE,
                session |-> [s EXCEPT !.outbox = leased],
                lease   |-> {[id      |-> lease.id,
                              message |-> LeaseFront(leased, lease.kind)] :
                                lease \in leased.active_lease}]

CanSettleLease(s, generation, lease_id) ==
    /\ CanUseSocket(s.transport, generation)
    /\ MatchesLease(s.outbox, lease_id)

AckOutbound(s) == [s EXCEPT !.outbox = AckLease(@)]

NackOutbound(s) == [s EXCEPT !.outbox = NackLease(@)]

DetachSession(s) ==
    [s EXCEPT !.transport = Detach(@), !.outbox = ReleaseLease(@)]

ReattachSession(s) ==
    [s EXCEPT !.transport = Reattach(@), !.outbox = ReleaseLease(@)]

=============================================================================
