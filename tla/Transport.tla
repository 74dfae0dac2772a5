------------------------------ MODULE Transport -----------------------------
(***************************************************************************)
(* The transport state machine of one session, driven by its callers: the  *)
(* native host's drive, socket callbacks carrying a generation, the        *)
(* protocol's synchronisation gate, and the owner's lifecycle calls        *)
(* (collaboration_runtime/state.rs, called from session/collaboration.rs,  *)
(* session/content.rs and session/native.rs).                              *)
(***************************************************************************)
EXTENDS TransportOps

VARIABLES
    transport,   \* the TransportStateMachine
    room_bound,  \* the session was created for a room, not as LocalReady
    now,         \* the host's monotonic clock, passed to drive and close
    backoff      \* history: the retryable closes since the last reset of
                 \* the retry policy, and the time of the latest one

vars == <<transport, room_bound, now, backoff>>

NoFailures == [failures |-> 0, closed_at |-> 0]

(* EditorSession::new: a local-only session starts Detached, a room-bound  *)
(* one Disconnected and due at once.                                       *)
Init ==
    /\ room_bound \in BOOLEAN
    /\ transport = NewTransport(IF room_bound THEN "Disconnected"
                                              ELSE "Detached")
    /\ now = 0
    /\ backoff = NoFailures

(* with_alive admits no call on a destroyed session.                       *)
Alive == transport.state # "Destroyed"

DriveCall ==
    /\ Alive
    /\ transport' = Drive(transport, room_bound, now)
    /\ UNCHANGED <<room_bound, now, backoff>>

OpenCallback(generation) ==
    /\ CanOpenSocket(transport, generation)
    /\ transport' = SocketOpened(transport)
    /\ UNCHANGED <<room_bound, now, backoff>>

CloseCallback(generation, disposition) ==
    /\ IsLiveAttempt(transport, generation)
    /\ transport' = SocketClosed(transport, disposition, now)
    /\ backoff' = IF disposition = "Retryable"
                    THEN [failures  |-> Min2(backoff.failures + 1,
                                             Len(RetryDelays)),
                          closed_at |-> now]
                    ELSE backoff
    /\ UNCHANGED <<room_bound, now>>

SynchronizeCall(generation) ==
    /\ CanMarkSynchronized(transport, generation)
    /\ transport' = MarkSynchronized(transport)
    /\ backoff' = NoFailures
    /\ UNCHANGED <<room_bound, now>>

DetachCall ==
    /\ Alive
    /\ transport' = Detach(transport)
    /\ backoff' = NoFailures
    /\ UNCHANGED <<room_bound, now>>

ReattachCall ==
    /\ Alive
    /\ CanReattach(transport, room_bound)
    /\ transport' = Reattach(transport)
    /\ UNCHANGED <<room_bound, now, backoff>>

(* restore_snapshot, admitted while no connection is up.                   *)
RestoreCall ==
    /\ room_bound
    /\ transport.state \in {"Detached", "Disconnected"}
    /\ transport' = SettleForRestore(transport)
    /\ backoff' = NoFailures
    /\ UNCHANGED <<room_bound, now>>

TeardownCall ==
    /\ Alive
    /\ transport' = TeardownDestroyed(transport)
    /\ UNCHANGED <<room_bound, now, backoff>>

Tick ==
    /\ now < MaxMillis
    /\ now' = now + 1
    /\ UNCHANGED <<transport, room_bound, backoff>>

Next ==
    \/ DriveCall
    \/ \E generation \in 1 .. transport.last_issued :
          \/ OpenCallback(generation)
          \/ SynchronizeCall(generation)
          \/ \E disposition \in Dispositions :
                CloseCallback(generation, disposition)
    \/ DetachCall
    \/ ReattachCall
    \/ RestoreCall
    \/ TeardownCall
    \/ Tick

Spec == Init /\ [][Next]_vars

(* The clock advances, and the host calls drive again and again: it arms a *)
(* timer for the deadline every directive returns.                         *)
FairSpec == Spec /\ WF_vars(Tick) /\ WF_vars(DriveCall)

-----------------------------------------------------------------------------
(* Properties *)

(* Types of the variables.                                                 *)
TypeOK ==
    /\ transport \in Transports
    /\ room_bound \in BOOLEAN
    /\ now \in 0 .. MaxMillis
    /\ backoff \in [failures  : 0 .. Len(RetryDelays),
                    closed_at : 0 .. MaxMillis]

(* A generation is live exactly while its attempt is connecting,           *)
(* handshaking or synchronized, and it is always the newest one issued: a  *)
(* callback of any older socket finds no attempt to act on, whatever mix   *)
(* of closes, detaches and restores came in between.                       *)
LiveIsNewest ==
    transport.live_attempt =
        IF transport.state \in AttemptStates THEN {transport.last_issued}
                                             ELSE {}

(* The retry policy follows from the closes alone.  An exhausted schedule  *)
(* holds only in Disconnected and has no deadline; while the schedule is   *)
(* not exhausted, the index is the number of retryable closes since the    *)
(* last reset, and the deadline of a disconnected room is the delay of the *)
(* latest of them.                                                         *)
RetryPolicy ==
    /\ transport.retry_schedule_exhausted
         => /\ transport.state = "Disconnected"
            /\ transport.next_retry_deadline_millis = {}
    /\ (transport.state # "Destroyed" /\ ~transport.retry_schedule_exhausted)
         => transport.retry_attempt_index
              = Min2(backoff.failures, FinalRetryDelayIndex)
    /\ (/\ transport.state = "Disconnected"
        /\ ~transport.retry_schedule_exhausted
        /\ backoff.failures > 0)
         => transport.next_retry_deadline_millis
              = {backoff.closed_at + RetryDelays[backoff.failures]}
    /\ transport.state = "Detached" => backoff.failures = 0

(* state.rs: the backoff is Rust's alone.  After n retryable closes in a   *)
(* row the next generation is issued no earlier than the n-th delay after  *)
(* the last close, unless a lifecycle call or a synchronisation reset the  *)
(* policy.                                                                 *)
BackoffHonoured ==
    [][transport'.last_issued # transport.last_issued
         => \/ backoff.failures = 0
            \/ now >= backoff.closed_at + RetryDelays[backoff.failures]]_vars

(* state.rs, retry_schedule_exhausted: "no drive may treat it as due until *)
(* a lifecycle reset creates a fresh retry state".                         *)
ExhaustedNeverIssues ==
    [][transport.retry_schedule_exhausted
         => transport'.last_issued = transport.last_issued]_vars

(* The attempts of a session, as its peers can observe them.               *)
Attempts ==
    INSTANCE ConnectionAttempts
        WITH issued <- transport.last_issued, live <- transport.live_attempt

AttemptsSpec == Attempts!ASpec

(* A room-bound session that was disconnected, and whose schedule and      *)
(* generation space are not exhausted, leaves Disconnected: the retry is   *)
(* neither forgotten nor scheduled beyond the clock.                       *)
DisconnectedIsLeft ==
    (/\ transport.state = "Disconnected"
     /\ room_bound
     /\ ~transport.retry_schedule_exhausted
     /\ CanIssue(transport))
        ~> transport.state # "Disconnected"

=============================================================================
