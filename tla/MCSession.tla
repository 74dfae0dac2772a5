------------------------------ MODULE MCSession -----------------------------
(***************************************************************************)
(* The registry of sessions, and of one of them the outbox, and its        *)
(* presence when the outbox refuses it, next to each other: they share no  *)
(* state here, so a behaviour is one of a single part, which `scenario'    *)
(* names, while the others rest in their initial states.                   *)
(***************************************************************************)
EXTENDS SessionRegistry, Outbox
LOCAL INSTANCE TLC

CONSTANTS
    t1, t2, t3,  \* threads
    here         \* a presence

ThreeThreads == {t1, t2, t3}

Lengths == {1, 2}

(* The threads are alike.                                                  *)
ThreadSymmetry == Permutations(ThreeThreads)

VARIABLES session, timer, wake, sending, now, room, heard, peer_refused,
          changes, edits

(* Room for two messages, one of which an edit takes.                      *)
Full ==
    INSTANCE Presence WITH
        RetryDelays <- <<1>>, MaxGeneration <- 2, MaxMillis <- 2,
        MaxMessages <- 2, MaxBytes <- 100, MaxLeaseId <- 20,
        Peers <- {}, States <- {here}, RenewalInterval <- 1,
        ExpiryInterval <- 2, MaxAwarenessClock <- 30, MaxAwarenessPeers <- 1,
        MaxAwarenessStates <- 2, PeerClocks <- {1}, MaxReplies <- 1,
        MaxChanges <- 2, MaxEdits <- 1, MaxActs <- 3

-----------------------------------------------------------------------------

VARIABLE scenario

presenceVars ==
    <<session, timer, wake, sending, now, room, heard, peer_refused, changes,
      edits>>

MCInit ==
    /\ scenario \in {"Registry", "Outbox", "Presence"}
    /\ Init
    /\ OutboxInit
    /\ Full!Init

MCNext ==
    \/ /\ scenario = "Registry" /\ Next
       /\ UNCHANGED <<scenario, outboxVars, presenceVars>>
    \/ /\ scenario = "Outbox" /\ OutboxNext
       /\ UNCHANGED <<scenario, vars, presenceVars>>
    \/ /\ scenario = "Presence" /\ Full!Next
       /\ UNCHANGED <<scenario, vars, outboxVars>>

MCSpec ==
    MCInit /\ [][MCNext]_<<scenario, vars, outboxVars, presenceVars>>

-----------------------------------------------------------------------------
(* Properties; those of the registry are SessionRegistry's, and those of   *)
(* the outbox Outbox's.                                                    *)

(* clear_desired_awareness and the tick: a withdrawal made offline, or     *)
(* refused by a full outbox, is queued or kept for a retry while the room  *)
(* shows the presence.                                                     *)
WithdrawalKept == Full!WithdrawalKept

=============================================================================
