-------------------------------- MODULE Outbox ------------------------------
(***************************************************************************)
(* The outbox of one session: the calls that fill it, each a reservation   *)
(* followed in the same session call by an installation or a drop, and the *)
(* host's leases.  The host may acknowledge or reject any lease id it was  *)
(* ever given, however late.                                               *)
(***************************************************************************)
EXTENDS OutboxOps

CONSTANTS
    Sizes,       \* the lengths of messages and of reserved bounds
    MaxInstalls  \* bound: how many messages a behaviour installs

ASSUME OutboxCallsAssumption == Sizes \subseteq Nat /\ MaxInstalls \in Nat

VARIABLES
    outbox,     \* the CollaborationOutbox
    held,       \* the reservation of the session call in progress, if any
    installed,  \* history: how many messages were installed, also their ids
    handed,     \* history: the message handed out under each lease id
    accepted,   \* history: the document updates installed
    delivered   \* history: the document updates acknowledged

outboxVars == <<outbox, held, installed, handed, accepted, delivered>>

OutboxInit ==
    /\ outbox = NewOutbox
    /\ held = {}
    /\ installed = 0
    /\ handed = << >>
    /\ accepted = << >>
    /\ delivered = << >>

-----------------------------------------------------------------------------
(* Inside a session call: reserve, then install or drop.                   *)

(* A document commit and a presence broadcast reserve one message, an      *)
(* answer to the peer one per reply.                                       *)
Counts(kind) == IF kind = "ProtocolReply" THEN {1, 2} ELSE {1}

ReserveFirst(o, kind) ==
    IF kind = "AwarenessBroadcast" THEN CoalesceUnleasedAwareness(o) ELSE o

ReserveCall(kind, messages, bytes) ==
    /\ held = {}
    /\ installed + messages <= MaxInstalls
    /\ Admits(ReserveFirst(outbox, kind), kind, messages, bytes)
    /\ outbox' = Reserve(ReserveFirst(outbox, kind), kind, messages, bytes)
    /\ held' = {[kind |-> kind, messages |-> messages, bytes |-> bytes]}
    /\ UNCHANGED <<installed, handed, accepted, delivered>>

(* A refusal, for the limits or for want of memory, has coalesced already; *)
(* the refusals of the other kinds change nothing.                         *)
RefusePresence ==
    /\ held = {}
    /\ outbox' = CoalesceUnleasedAwareness(outbox)
    /\ UNCHANGED <<held, installed, handed, accepted, delivered>>

InstallCall(sizes) ==
    \E r \in held :
        /\ Len(sizes) = r.messages
        /\ LET messages == [i \in 1 .. r.messages |->
                                [kind  |-> r.kind,
                                 id    |-> installed + i,
                                 bytes |-> sizes[i]]]
            IN  /\ Bytes(messages) <= r.bytes
                /\ outbox' = Install(
                                 Refund(outbox, r.kind, r.messages, r.bytes),
                                 r.kind, messages)
        /\ held' = {}
        /\ installed' = installed + r.messages
        /\ accepted' = IF r.kind = "DocumentUpdate"
                         THEN Append(accepted, installed + 1)
                         ELSE accepted
        /\ UNCHANGED <<handed, delivered>>

(* The write failed after the reservation.                                 *)
DropCall ==
    /\ \E r \in held : outbox' = Refund(outbox, r.kind, r.messages, r.bytes)
    /\ held' = {}
    /\ UNCHANGED <<installed, handed, accepted, delivered>>

-----------------------------------------------------------------------------
(* Session calls of the host and of the owner.                             *)

(* While a lease is active, lease_next hands out its message again.        *)
LeaseCall ==
    /\ held = {}
    /\ CanLease(outbox)
    /\ outbox' = LeaseNext(outbox)
    /\ handed' = Append(handed, LeaseFront(outbox, NextKind(outbox)))
    /\ UNCHANGED <<held, installed, accepted, delivered>>

AckCall(lease_id) ==
    /\ held = {}
    /\ MatchesLease(outbox, lease_id)
    /\ outbox' = AckLease(outbox)
    /\ delivered' = IF IsDocument(handed[lease_id])
                       THEN Append(delivered, handed[lease_id].id)
                       ELSE delivered
    /\ UNCHANGED <<held, installed, handed, accepted>>

NackCall(lease_id) ==
    /\ held = {}
    /\ MatchesLease(outbox, lease_id)
    /\ outbox' = NackLease(outbox)
    /\ UNCHANGED <<held, installed, handed, accepted, delivered>>

(* The connection closes, or the owner detaches, reattaches or destroys.   *)
RetireConnection ==
    /\ held = {}
    /\ outbox.active_lease # {}
    /\ outbox' = ReleaseLease(outbox)
    /\ UNCHANGED <<held, installed, handed, accepted, delivered>>

(* reset_for_restore, which is admitted only without unsent updates.       *)
ResetForRestore ==
    /\ held = {}
    /\ ~HasPendingDocumentUpdates(outbox)
    /\ outbox' = ClearProtocolReplies(ReleaseLease(outbox))
    /\ UNCHANGED <<held, installed, handed, accepted, delivered>>

OutboxNext ==
    \/ \E kind \in Kinds : \E messages \in Counts(kind), bytes \in Sizes :
          ReserveCall(kind, messages, bytes)
    \/ RefusePresence
    \/ \E r \in held : \E sizes \in [1 .. r.messages -> Sizes] :
          InstallCall(sizes)
    \/ DropCall
    \/ LeaseCall
    \/ \E lease_id \in DOMAIN handed : AckCall(lease_id) \/ NackCall(lease_id)
    \/ RetireConnection
    \/ ResetForRestore

OutboxSpec == OutboxInit /\ [][OutboxNext]_outboxVars

-----------------------------------------------------------------------------
(* Properties *)

Messages == [kind : Kinds, id : 1 .. MaxInstalls, bytes : Sizes]
Charges == [messages : 0 .. MaxMessages, bytes : 0 .. MaxBytes]

Outboxes ==
    [ordered                 : Seq(Messages),
     protocol                : Seq(Messages),
     pending_bytes           : 0 .. MaxBytes,
     pending_awareness_bytes : 0 .. MaxBytes,
     pending_protocol_bytes  : 0 .. MaxBytes,
     next_lease_id           : SUBSET (1 .. MaxLeaseId),
     active_lease            : SUBSET [id : 1 .. MaxLeaseId, kind : Kinds],
     reserved                : Charges,
     reserved_non_document   : Charges]

(* Types of the variables.                                                 *)
OutboxTypeOK ==
    /\ outbox \in Outboxes
    /\ held \in SUBSET [kind : Kinds, messages : Nat, bytes : Sizes]
    /\ installed \in 0 .. MaxInstalls
    /\ handed \in Seq(Messages)
    /\ {accepted, delivered} \subseteq Seq(1 .. MaxInstalls)

(* outbox.rs, clone_leased_front and ack_lease: the queue an active lease  *)
(* was taken from still has, at its front, the message the host was given  *)
(* under that lease id, however the queues were filled, coalesced and      *)
(* cleared in between; the panics of those functions are unreachable, and  *)
(* a repeated lease hands out the same message.                            *)
LeasedMessageIsFront ==
    \A lease \in outbox.active_lease :
        LET queue == IF lease.kind = "ProtocolReply" THEN outbox.protocol
                                                     ELSE outbox.ordered
        IN  /\ queue # << >>
            /\ Head(queue) = handed[lease.id]
            /\ Head(queue).kind = lease.kind

(* Every committed document update is either delivered or still queued, in *)
(* the order of the commits: no late, repeated or mismatched               *)
(* acknowledgement and no restore, close or coalescing drops one or sends  *)
(* one twice.                                                              *)
NoUpdateLostOrRepeated ==
    LET queued == Documents(outbox.ordered)
    IN  accepted = delivered \o [i \in DOMAIN queued |-> queued[i].id]

(* The byte counters are the lengths queued, and the ledger is the         *)
(* reservation in progress: an acknowledgement never underflows them and a *)
(* dropped reservation is refunded in full.                                *)
AccountingExact ==
    LET live == {r \in held : r.kind # "DocumentUpdate"}
        Charged(counts, holders) ==
            \/ holders = {} /\ counts = [messages |-> 0, bytes |-> 0]
            \/ \E r \in holders :
                  counts = [messages |-> r.messages, bytes |-> r.bytes]
    IN  /\ outbox.pending_bytes
              = Bytes(Documents(outbox.ordered))
        /\ outbox.pending_awareness_bytes
              = Bytes(Broadcasts(outbox.ordered))
        /\ outbox.pending_protocol_bytes = Bytes(outbox.protocol)
        /\ Charged(outbox.reserved, held)
        /\ Charged(outbox.reserved_non_document, live)

(* The infallible installations keep the queues within their limits.       *)
WithinLimits ==
    /\ Pending(outbox) + outbox.reserved.messages <= MaxMessages
    /\ Bytes(outbox.ordered) + Bytes(outbox.protocol)
         + outbox.reserved.bytes <= MaxBytes

(* No amount of presence and protocol traffic keeps the user from          *)
(* committing: with no update queued, the outbox admits one of up to the   *)
(* reserve kept for documents.                                             *)
DocumentHeadroom ==
    (/\ MaxMessages > 1
     /\ held = {}
     /\ ~HasPendingDocumentUpdates(outbox))
        => Admits(outbox, "DocumentUpdate", 1, DocumentByteReserve)

(* outbox.rs, "causally ordered queue": a broadcast that describes a       *)
(* document is handed out after every update committed before it was       *)
(* delivered.                                                              *)
PresenceFollowsDocuments ==
    \A i \in DOMAIN handed :
        IsAwareness(handed[i]) =>
            \A j \in DOMAIN accepted :
                accepted[j] < handed[i].id =>
                    \E k \in DOMAIN delivered : delivered[k] = accepted[j]

(* Presence never piles up: one broadcast waits, and at most one more is   *)
(* or was at the front under a lease.                                      *)
PresenceBounded == Len(Broadcasts(outbox.ordered)) <= 2

(* All of these.                                                           *)
QueuesSound ==
    /\ OutboxTypeOK
    /\ LeasedMessageIsFront
    /\ NoUpdateLostOrRepeated
    /\ AccountingExact
    /\ WithinLimits
    /\ DocumentHeadroom
    /\ PresenceFollowsDocuments
    /\ PresenceBounded

(* The updates are delivered as UpdateDelivery promises.                   *)
Delivery == INSTANCE UpdateDelivery

DeliverySpec == Delivery!DSpec

=============================================================================
