---------------------------- MODULE TransportOps ----------------------------
(***************************************************************************)
(* The operations of TransportStateMachine, the sole writer of a session's *)
(* transport state and the sole issuer of connection generations           *)
(* (rust/editor-core/src/collaboration_runtime/state.rs).                  *)
(*                                                                         *)
(* Every operation of the machine runs under the session lock, so each is  *)
(* a function from the machine's record to its next record; the modules    *)
(* that use it compose several of them inside one session call.  An        *)
(* Option<u64> of the code is a set with at most one element.  Can*        *)
(* operators are the admission checks: when one is false the code returns  *)
(* an error and leaves the record as it is.                                *)
(***************************************************************************)
EXTENDS Integers, Sequences

CONSTANTS
    RetryDelays,    \* RETRY_DELAYS_MILLIS, the delay before each retry
    MaxGeneration,  \* the largest value of the generation counter (u64::MAX)
    MaxMillis       \* the largest value of the monotonic clock (u64::MAX)

ASSUME RetryDelaysAssumption ==
    /\ RetryDelays \in Seq(Nat \ {0})
    /\ Len(RetryDelays) > 0

ASSUME TransportBoundsAssumption ==
    /\ MaxGeneration \in Nat
    /\ MaxMillis \in Nat

-----------------------------------------------------------------------------

(* States with an attempt in flight, and the states in which a frame may   *)
(* be received or leased.                                                  *)
AttemptStates == {"Connecting", "Handshaking", "Synchronized"}
OpenStates == {"Handshaking", "Synchronized"}
TransportStates ==
    AttemptStates \union
        {"Detached", "Disconnected", "Incompatible", "Destroyed"}

Dispositions == {"Retryable", "Incompatible"}

FinalRetryDelayIndex == Len(RetryDelays) - 1

Min2(a, b) == IF a < b THEN a ELSE b

(* The record: last_issued is 0 before the first attempt.                  *)
Transports ==
    [state                      : TransportStates,
     live_attempt               : SUBSET (1 .. MaxGeneration),
     last_issued                : 0 .. MaxGeneration,
     retry_attempt_index        : 0 .. FinalRetryDelayIndex,
     next_retry_deadline_millis : SUBSET (0 .. MaxMillis),
     retry_schedule_exhausted   : BOOLEAN]

NewTransport(initial) ==
    [state                      |-> initial,
     live_attempt               |-> {},
     last_issued                |-> 0,
     retry_attempt_index        |-> 0,
     next_retry_deadline_millis |-> {},
     retry_schedule_exhausted   |-> FALSE]

ResetRetryForFreshDrive(t) ==
    [t EXCEPT !.retry_attempt_index = 0,
              !.next_retry_deadline_millis = {},
              !.retry_schedule_exhausted = FALSE]

-----------------------------------------------------------------------------
(* Issuing a generation.                                                   *)

(* A mutation: the deadline is only a hint.                                *)
RetryDueEarly(t, room_bound, now_millis) ==
    /\ t.state = "Disconnected"
    /\ room_bound
    /\ ~t.retry_schedule_exhausted

(* A mutation: the deadline itself is not yet due.                         *)
RetryDueLate(t, room_bound, now_millis) ==
    /\ t.state = "Disconnected"
    /\ room_bound
    /\ ~t.retry_schedule_exhausted
    /\ \A deadline \in t.next_retry_deadline_millis : now_millis > deadline

RetryDue(t, room_bound, now_millis) ==
    /\ t.state = "Disconnected"
    /\ room_bound
    /\ ~t.retry_schedule_exhausted
    /\ \A deadline \in t.next_retry_deadline_millis : now_millis >= deadline

(* last_issued.checked_add(1) has a result.                                *)
CanIssue(t) == t.last_issued < MaxGeneration

(* A mutation: the counter is not stored back.                             *)
IssueGenerationAgain(t) ==
    [t EXCEPT !.live_attempt = {t.last_issued + 1},
              !.state = "Connecting",
              !.next_retry_deadline_millis = {}]

IssueGeneration(t) ==
    [t EXCEPT !.last_issued = t.last_issued + 1,
              !.live_attempt = {t.last_issued + 1},
              !.state = "Connecting",
              !.next_retry_deadline_millis = {}]

(* DriveFails is TRANSPORT_GENERATION_EXHAUSTED; the record is unchanged.  *)
DriveFails(t, room_bound, now_millis) ==
    RetryDue(t, room_bound, now_millis) /\ ~CanIssue(t)

Drive(t, room_bound, now_millis) ==
    IF RetryDue(t, room_bound, now_millis) /\ CanIssue(t)
      THEN IssueGeneration(t)
      ELSE t

(* generation_to_open of the directive: the generation a drive issued.     *)
GenerationToOpen(t, driven) == driven.live_attempt \ t.live_attempt

-----------------------------------------------------------------------------
(* Callbacks of a socket, which carry the generation they belong to.       *)

IsLiveAttempt(t, generation) == t.live_attempt = {generation}

CanOpenSocket(t, generation) ==
    IsLiveAttempt(t, generation) /\ t.state = "Connecting"

(* admit_receive and admit_outbound_lease are the same check.              *)
CanUseSocket(t, generation) ==
    IsLiveAttempt(t, generation) /\ t.state \in OpenStates

CanMarkSynchronized(t, generation) ==
    IsLiveAttempt(t, generation) /\ t.state = "Handshaking"

SocketOpened(t) == [t EXCEPT !.state = "Handshaking"]

MarkSynchronized(t) ==
    ResetRetryForFreshDrive([t EXCEPT !.state = "Synchronized"])

(* The time of the retry after a close, the index being capped again.      *)
RetryDeadline(t, now_millis) ==
    now_millis
        + RetryDelays[Min2(t.retry_attempt_index, FinalRetryDelayIndex) + 1]

(* A mutation: the backoff never grows.                                    *)
NextRetryConstant(t, now_millis) ==
    IF RetryDeadline(t, now_millis) > MaxMillis
      THEN [t EXCEPT !.retry_schedule_exhausted = TRUE,
                     !.next_retry_deadline_millis = {}]
      ELSE [t EXCEPT !.next_retry_deadline_millis =
                         {RetryDeadline(t, now_millis)}]

(* next_retry_deadline_after_close: a deadline that overflows the clock    *)
(* exhausts the schedule and leaves the index alone.                       *)
NextRetryAfterClose(t, now_millis) ==
    IF RetryDeadline(t, now_millis) > MaxMillis
      THEN [t EXCEPT !.retry_schedule_exhausted = TRUE,
                     !.next_retry_deadline_millis = {}]
      ELSE [t EXCEPT !.next_retry_deadline_millis =
                         {RetryDeadline(t, now_millis)},
                     !.retry_attempt_index =
                         Min2(@ + 1, FinalRetryDelayIndex)]

SocketClosed(t, disposition, now_millis) ==
    IF disposition = "Retryable"
      THEN [NextRetryAfterClose(t, now_millis) EXCEPT
                !.live_attempt = {},
                !.state = "Disconnected"]
      ELSE [t EXCEPT !.retry_schedule_exhausted = FALSE,
                     !.next_retry_deadline_millis = {},
                     !.live_attempt = {},
                     !.state = "Incompatible"]

-----------------------------------------------------------------------------
(* Lifecycle calls of the owner of the session.                            *)

Detach(t) ==
    IF t.state = "Detached"
      THEN t
      ELSE ResetRetryForFreshDrive(
               [t EXCEPT !.live_attempt = {}, !.state = "Detached"])

CanReattach(t, room_bound) ==
    room_bound /\ t.state \in {"Detached", "Disconnected"}

Reattach(t) ==
    IF t.state = "Detached"
      THEN ResetRetryForFreshDrive([t EXCEPT !.state = "Disconnected"])
      ELSE t

SettleForRestore(t) ==
    ResetRetryForFreshDrive(
        [t EXCEPT !.live_attempt = {}, !.state = "Disconnected"])

TeardownDestroyed(t) ==
    [t EXCEPT !.live_attempt = {},
              !.state = "Destroyed",
              !.next_retry_deadline_millis = {},
              !.retry_schedule_exhausted = FALSE]

=============================================================================
