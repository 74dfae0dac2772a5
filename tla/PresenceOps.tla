----------------------------- MODULE PresenceOps ----------------------------
(***************************************************************************)
(* The collaboration calls of a room-bound EditorSession that shows its    *)
(* presence and follows that of peers: the calls of SessionOps with the    *)
(* awareness runtime composed in (session/collaboration.rs and             *)
(* collaboration_runtime/protocol.rs).  Every directive begins with an     *)
(* awareness tick, whose refusal fails the whole call.                     *)
(***************************************************************************)
EXTENDS AwarenessOps

(* The client id under which the session is known to the room.             *)
Self == "self"

(* A message of the peer, its frames in this order: a Sync Step 1, an      *)
(* awareness query, a Sync Step 2 and an awareness update.                 *)
RoomMessage(asks, queries, step2, awareness) ==
    [asks |-> asks, queries |-> queries, step2 |-> step2, changes |-> step2,
     awareness |-> awareness]

(* finish_transport_directive                                              *)
WithDeadlines(directive, deadlines) ==
    IF directive.ok
      THEN [directive EXCEPT !.deadline = Earliest(@ \union deadlines)]
      ELSE directive

Directed(tick, now_millis) ==
    IF tick.ok
      THEN WithDeadlines(FinishDirective(tick.session, now_millis),
                         AwarenessDeadlines(tick.session))
      ELSE Refused(tick.session)

FinishPresence(s, now_millis) ==
    Directed(AwarenessTick(s, now_millis), now_millis)

(* The clock of the host is monotonic; a callback that regresses is        *)
(* refused after the check of its generation.                              *)
Regresses(s, now_millis) == now_millis < s.awareness.now_millis

PresenceOpenCall(s, generation, now_millis) ==
    IF /\ CanOpenSocket(s.transport, generation)
       /\ ~Regresses(s, now_millis)
       /\ Admits(s.outbox, "ProtocolReply", 1, 1)
      THEN FinishPresence(
               [s EXCEPT !.transport = SocketOpened(@),
                         !.outbox = Install(@, "ProtocolReply",
                             <<[kind |-> "ProtocolReply", id |-> {},
                                bytes |-> 1]>>)],
               now_millis)
      ELSE Refused(s)

(* retire_transport_scope, at a close, a detachment and a reattachment.    *)
ClosePresence(s, disposition, now_millis) ==
    ClearTransportPeers(CloseSession(s, disposition, now_millis))

PresenceCloseCall(s, generation, disposition, now_millis) ==
    IF IsLiveAttempt(s.transport, generation) /\ ~Regresses(s, now_millis)
      THEN FinishPresence(ClosePresence(s, disposition, now_millis), now_millis)
      ELSE Refused(s)

DetachPresence(s) == ClearTransportPeers(DetachSession(s))
ReattachPresence(s) == ClearTransportPeers(ReattachSession(s))

-----------------------------------------------------------------------------
(* Receiving.                                                              *)

ProtocolFrame(entries) ==
    [kind |-> "ProtocolReply", id |-> entries, bytes |-> 1]

(* Whether a message synchronises the session, which then republishes the  *)
(* presence it shows.                                                      *)
Synchronizes(s, m) == m.step2 /\ s.transport.state = "Handshaking"

(* A mutation: the presence shown before a disconnection is not restated.  *)
RepublishNothing(s, m) == FALSE

Republishes(s, m) == Synchronizes(s, m) /\ s.awareness.desired_state # {}

(* prepare_handshake_republish                                             *)
PrepareRepublish(s, m) ==
    IF Republishes(s, m)
      THEN [s EXCEPT !.codec = Publish(@,
                CHOOSE state \in s.awareness.desired_state : TRUE)]
      ELSE s

(* The answers are built before any frame is applied; a query is answered  *)
(* with every live state, of which the local one matters to the room.      *)
Answers(s, m) ==
    (IF m.asks THEN <<ProtocolFrame({})>> ELSE << >>)
    \o (IF m.queries
          THEN <<ProtocolFrame(IF s.codec.local.state = {} THEN {}
                                                     ELSE {s.codec.local})>>
          ELSE << >>)

Replies(s, m) ==
    Answers(s, m)
    \o (IF Republishes(s, m)
          THEN <<ProtocolFrame({PrepareRepublish(s, m).codec.local})>>
          ELSE << >>)

AwarenessFault(s, m) ==
    IF \E u \in m.awareness :
          UpdateFault(s.codec, u.client, u.entry) # "None"
      THEN LET u == CHOOSE u \in m.awareness : TRUE
           IN  UpdateFault(s.codec, u.client, u.entry)
      ELSE "None"

ApplyFrames(s, m) ==
    LET gated == SynchronizationGate(s, m)
    IN  IF m.awareness = {} THEN gated
        ELSE LET u == CHOOSE u \in m.awareness : TRUE
             IN  ApplyAwareness(gated, u.client, u.entry)

Answered(s, m, replies) ==
    [ApplyFrames(s, m) EXCEPT !.outbox = Install(@, "ProtocolReply", replies)]

(* A message whose replies are built is applied, once they fit.            *)
ApplyPrepared(s, m, prepared, replies, fault, now_millis) ==
    IF /\ replies # << >>
       /\ ~Admits(s.outbox, "ProtocolReply", Len(replies), Len(replies))
      THEN ClosePresence(prepared, "Retryable", now_millis)
    ELSE IF fault # "None"
      THEN ClosePresence(SynchronizationGate(prepared, m), fault, now_millis)
    ELSE IF Republishes(s, m) THEN MarkPublished(Answered(prepared, m, replies))
    ELSE Answered(prepared, m, replies)

(* process_admitted_message and the close of the generation it may end in. *)
ReceivePresence(s, m, now_millis) ==
    IF Republishes(s, m) /\ ~CanPublish(s.codec)
      THEN ClosePresence(s, "Incompatible", now_millis)
      ELSE ApplyPrepared(s, m, PrepareRepublish(s, m), Replies(s, m),
                         AwarenessFault(PrepareRepublish(s, m), m), now_millis)

PresenceReceiveCall(s, generation, m, now_millis) ==
    IF CanUseSocket(s.transport, generation) /\ ~Regresses(s, now_millis)
      THEN FinishPresence(ReceivePresence(s, m, now_millis), now_millis)
      ELSE Refused(s)

=============================================================================
