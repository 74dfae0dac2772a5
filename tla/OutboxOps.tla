------------------------------ MODULE OutboxOps -----------------------------
(***************************************************************************)
(* The operations of CollaborationOutbox, the bounded queue of everything  *)
(* a session has to send (editor-core, collaboration_runtime/outbox.rs).   *)
(*                                                                         *)
(* Document updates and awareness broadcasts share one FIFO; protocol      *)
(* replies wait in a second one that is served first.  Capacity is         *)
(* reserved before the write that produces a message and settled when the  *)
(* message is installed or the reservation dropped.  One message at a time *)
(* is leased to the host, which acknowledges or rejects it by the id of    *)
(* the lease.  Every operation runs under the session lock and is a        *)
(* function of the outbox's record.  An Option of the code is a set with   *)
(* at most one element; a payload is its identity and its length.          *)
(***************************************************************************)
EXTENDS Integers, Sequences

CONSTANTS
    MaxMessages,  \* max_pending_messages
    MaxBytes,     \* max_pending_bytes
    MaxLeaseId    \* the largest lease id (u64::MAX)

ASSUME OutboxBoundsAssumption ==
    /\ MaxMessages \in Nat
    /\ MaxBytes \in Nat
    /\ MaxLeaseId \in Nat \ {0}

-----------------------------------------------------------------------------

Kinds == {"DocumentUpdate", "AwarenessBroadcast", "ProtocolReply"}

IsDocument(m) == m.kind = "DocumentUpdate"
IsAwareness(m) == m.kind = "AwarenessBroadcast"

(* One slot and a quarter of the bytes are kept for document updates.      *)
MaxNonDocumentMessages ==
    IF MaxMessages > 1 THEN MaxMessages - 1 ELSE MaxMessages

DocumentByteReserve ==
    IF MaxBytes = 0 THEN 0
    ELSE IF MaxBytes \div 4 = 0 THEN 1
    ELSE MaxBytes \div 4

MaxNonDocumentBytes == MaxBytes - DocumentByteReserve

NewOutbox ==
    [ordered                 |-> << >>,
     protocol                |-> << >>,
     pending_bytes           |-> 0,
     pending_awareness_bytes |-> 0,
     pending_protocol_bytes  |-> 0,
     next_lease_id           |-> {1},
     active_lease            |-> {},
     reserved                |-> [messages |-> 0, bytes |-> 0],
     reserved_non_document   |-> [messages |-> 0, bytes |-> 0]]

Bytes(messages) ==
    LET sum[n \in 0 .. Len(messages)] ==
            IF n = 0 THEN 0 ELSE sum[n - 1] + messages[n].bytes
    IN  sum[Len(messages)]

KeepIf(kept, m, kind) == IF m.kind = kind THEN Append(kept, m) ELSE kept

(* The messages of a kind in a queue, in the order of the queue.           *)
OfKind(queue, kind) ==
    LET kept[n \in 0 .. Len(queue)] ==
            IF n = 0 THEN << >> ELSE KeepIf(kept[n - 1], queue[n], kind)
    IN  kept[Len(queue)]

Documents(queue) == OfKind(queue, "DocumentUpdate")
Broadcasts(queue) == OfKind(queue, "AwarenessBroadcast")

Pending(o) == Len(o.ordered) + Len(o.protocol)

NonDocument(o) ==
    Len(o.protocol) + Len(Broadcasts(o.ordered))

HasPendingDocumentUpdates(o) ==
    \E i \in DOMAIN o.ordered : IsDocument(o.ordered[i])

LeasedKinds(o) == {lease.kind : lease \in o.active_lease}

-----------------------------------------------------------------------------
(* Reservations.                                                           *)

(* admit_reservation                                                       *)
Admits(o, kind, messages, bytes) ==
    /\ Pending(o) + o.reserved.messages + messages <= MaxMessages
    /\ o.pending_bytes + o.pending_awareness_bytes + o.pending_protocol_bytes
         + o.reserved.bytes + bytes <= MaxBytes
    /\ kind # "DocumentUpdate" =>
         /\ NonDocument(o) + o.reserved_non_document.messages + messages
              <= MaxNonDocumentMessages
         /\ o.pending_awareness_bytes + o.pending_protocol_bytes
              + o.reserved_non_document.bytes + bytes
              <= MaxNonDocumentBytes

Charge(counts, messages, bytes) ==
    [messages |-> counts.messages + messages, bytes |-> counts.bytes + bytes]

Reserve(o, kind, messages, bytes) ==
    [o EXCEPT !.reserved = Charge(@, messages, bytes),
              !.reserved_non_document =
                  IF kind = "DocumentUpdate" THEN @
                                             ELSE Charge(@, messages, bytes)]

(* A reservation consumed by an installation, or dropped without one.      *)
Refund(o, kind, messages, bytes) ==
    [o EXCEPT !.reserved = Charge(@, -messages, -bytes),
              !.reserved_non_document =
                  IF kind = "DocumentUpdate" THEN @
                                             ELSE Charge(@, -messages, -bytes)]

(* A mutation: the broadcast a host is sending is replaced under it.       *)
CoalesceLeasedAwareness(o) ==
    [o EXCEPT !.ordered = Documents(@),
              !.pending_awareness_bytes =
                  @ - Bytes(Broadcasts(o.ordered))]

(* coalesce_unleased_awareness: a newer broadcast replaces the queued      *)
(* ones, except a leased one, which is the front of the queue.             *)
CoalesceUnleasedAwareness(o) ==
    LET kept == IF "AwarenessBroadcast" \in LeasedKinds(o) THEN 1 ELSE 0
        rest == SubSeq(o.ordered, kept + 1, Len(o.ordered))
    IN  [o EXCEPT !.ordered = SubSeq(@, 1, kept) \o Documents(rest),
                  !.pending_awareness_bytes =
                      @ - Bytes(Broadcasts(rest))]

-----------------------------------------------------------------------------
(* Installation of the messages a reservation admitted.                    *)

Grow(o, kind, bytes) ==
    [o EXCEPT !.pending_bytes =
                  IF kind = "DocumentUpdate" THEN @ + bytes ELSE @,
              !.pending_awareness_bytes =
                  IF kind = "AwarenessBroadcast" THEN @ + bytes ELSE @,
              !.pending_protocol_bytes =
                  IF kind = "ProtocolReply" THEN @ + bytes ELSE @]

Enqueue(o, kind, messages) ==
    IF kind = "ProtocolReply"
      THEN [o EXCEPT !.protocol = @ \o messages]
      ELSE [o EXCEPT !.ordered = @ \o messages]

Install(o, kind, messages) ==
    Grow(Enqueue(o, kind, messages), kind, Bytes(messages))

-----------------------------------------------------------------------------
(* Leases.                                                                 *)

LeaseFront(o, kind) ==
    IF kind = "ProtocolReply" THEN Head(o.protocol) ELSE Head(o.ordered)

(* The kind of the message to be sent next: protocol replies go first.     *)
NextKind(o) ==
    IF o.protocol # << >> THEN "ProtocolReply" ELSE Head(o.ordered).kind

CanLease(o) == o.active_lease = {} /\ o.next_lease_id # {} /\ Pending(o) > 0

LeaseNext(o) ==
    [o EXCEPT !.active_lease =
                  {[id |-> id, kind |-> NextKind(o)] : id \in o.next_lease_id},
              !.next_lease_id =
                  {id + 1 : id \in o.next_lease_id} \ {MaxLeaseId + 1}]

(* require_matching_lease                                                  *)
MatchesLease(o, lease_id) ==
    \E lease \in o.active_lease : lease.id = lease_id

PopFront(o, kind) ==
    IF kind = "ProtocolReply"
      THEN [o EXCEPT !.protocol = Tail(@)]
      ELSE [o EXCEPT !.ordered = Tail(@)]

ReleaseLease(o) == [o EXCEPT !.active_lease = {}]

AckLease(o) ==
    LET kind == (CHOOSE lease \in o.active_lease : TRUE).kind
    IN  ReleaseLease(
            Grow(PopFront(o, kind), kind, -LeaseFront(o, kind).bytes))

(* A mutation: a message the host could not send is given up.              *)
NackLeaseDrops(o) ==
    LET kind == (CHOOSE lease \in o.active_lease : TRUE).kind
    IN  ReleaseLease(
            Grow(PopFront(o, kind), kind, -LeaseFront(o, kind).bytes))

NackLease(o) == ReleaseLease(o)

(* clear_protocol_replies: a document update keeps its place and lease.    *)
ClearProtocolReplies(o) ==
    [o EXCEPT !.active_lease =
                  {lease \in @ : lease.kind = "DocumentUpdate"},
              !.protocol = << >>,
              !.pending_protocol_bytes = 0,
              !.ordered = Documents(@),
              !.pending_awareness_bytes = 0]

=============================================================================
