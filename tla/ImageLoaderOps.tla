--------------------------- MODULE ImageLoaderOps ---------------------------
(***************************************************************************)
(* What RenderImageLoader.kt keeps under its lock, as one record, and the  *)
(* operations on it that run while the lock is held.  A load is a call for *)
(* an image; a request is the work shared by the loads of one source and   *)
(* is named after the load that created it.  All loads have one policy.    *)
(***************************************************************************)
EXTENDS Integers, Sequences, FiniteSets, SequencesExt

CONSTANTS
    Loads,           \* the calls, numbered from 1
    Sources,         \* the images
    Visible,         \* the calls for what is on the screen
    MaxConcurrent,   \* maxConcurrentRequests of the policy
    MaxPending,      \* maxPendingRequests of the policy
    AdmissionLimit,  \* GLOBAL_ADMISSION_LIMIT
    QueueCapacity    \* GLOBAL_QUEUE_CAPACITY

LoaderAssumption ==
    /\ Loads = 1..Cardinality(Loads)
    /\ Visible \subseteq Loads
    /\ MaxConcurrent \in Nat \ {0}
    /\ MaxPending \in Nat
    /\ AdmissionLimit \in Nat \ {0}
    /\ QueueCapacity \in Nat \ {0, 1}

None == 0

RequestRecords ==
    [source : Sources \union {None}, callbacks : SUBSET Loads, visible : BOOLEAN,
     submitted : BOOLEAN, started : BOOLEAN, terminal : BOOLEAN,
     slotReleased : BOOLEAN, cancelled : BOOLEAN, timed : BOOLEAN]

NoRequest ==
    [source |-> None, callbacks |-> {}, visible |-> FALSE, submitted |-> FALSE,
     started |-> FALSE, terminal |-> FALSE, slotReleased |-> FALSE,
     cancelled |-> FALSE, timed |-> FALSE]

NewLoader ==
    [requests |-> [r \in Loads |-> NoRequest],
     inFlight |-> [s \in Sources |-> None],
     slots    |-> 0,        \* submittedCount
     pending  |-> <<>>,     \* beyond maxConcurrentRequests
     ready    |-> <<>>,     \* readyToSubmit
     queue    |-> <<>>,     \* the executor's queue
     admitted |-> 0]        \* admissionCount

InFlight(l, r) == l.inFlight[l.requests[r].source] = r

-----------------------------------------------------------------------------

EnqueueReady(l, r) ==
    [l EXCEPT !.ready = IF l.requests[r].visible THEN <<r>> \o @ ELSE Append(@, r)]

(* The slot goes to the request that waits longest, if there is one.       *)
ReleaseSubmittedSlot(l) ==
    IF l.pending = <<>>
    THEN [l EXCEPT !.slots = @ - 1]
    ELSE LET next == Head(l.pending)
         IN  EnqueueReady([l EXCEPT !.pending = Tail(@),
                                    !.requests[next].submitted = TRUE], next)

(* A request returns its slot once, or leaves the pending ones.            *)
ReleaseRequestSlot(l, r) ==
    IF ~l.requests[r].submitted
    THEN [l EXCEPT !.pending = Remove(@, r)]
    ELSE IF l.requests[r].slotReleased
    THEN l
    ELSE ReleaseSubmittedSlot([l EXCEPT !.requests[r].slotReleased = TRUE,
                                        !.ready = Remove(@, r)])

(* promoteRequestLocked: a queued task is ordered by its request.          *)
Promote(l, r) ==
    LET seen == [l EXCEPT !.requests[r].visible = TRUE]
    IN  IF r \in ToSet(l.pending)
        THEN [seen EXCEPT !.pending = <<r>> \o Remove(@, r)]
        ELSE IF r \in ToSet(l.ready)
        THEN [seen EXCEPT !.ready = <<r>> \o Remove(@, r)]
        ELSE seen

JoinRequest(l, c, r) ==
    LET joined == [l EXCEPT !.requests[r].callbacks = @ \union {c}]
    IN  IF c \in Visible /\ ~l.requests[r].visible THEN Promote(joined, r) ELSE joined

HasSlot(l) == l.slots < MaxConcurrent

CanWait(l) == Len(l.pending) < MaxPending

(* The request of a load, with its deadline scheduled.                     *)
Created(l, c, source) ==
    [l EXCEPT !.inFlight[source] = c,
              !.requests[c] = [NoRequest EXCEPT !.source = source, !.callbacks = {c},
                                                !.visible = c \in Visible, !.timed = TRUE]]

SubmitNew(l, c, source) ==
    EnqueueReady([Created(l, c, source) EXCEPT !.slots = @ + 1,
                                               !.requests[c].submitted = TRUE], c)

(* A mutation: a request that waits gets no deadline.                      *)
WaitForSlotUntimed(l, c, source) ==
    [Created(l, c, source) EXCEPT
        !.requests[c].timed = FALSE,
        !.pending = IF c \in Visible THEN <<c>> \o @ ELSE Append(@, c)]

WaitForSlot(l, c, source) ==
    [Created(l, c, source) EXCEPT
        !.pending = IF c \in Visible THEN <<c>> \o @ ELSE Append(@, c)]

(* The executor's task: the first visible one, or the first.               *)
NextTask(l) ==
    LET seen == SelectSeq(l.queue, LAMBDA r : l.requests[r].visible)
    IN  IF seen # <<>> THEN Head(seen) ELSE Head(l.queue)

(* The worker has taken the task and its action begins.                    *)
StartTask(l, r) ==
    [l EXCEPT !.queue = Remove(@, r), !.requests[r].started = TRUE]

(* The executor's task is withdrawn unless it has started.                 *)
WithdrawTask(l, r) ==
    IF l.requests[r].started THEN l ELSE [l EXCEPT !.queue = Remove(@, r)]

(* The lock section of claimRequestOutcome.                                *)
LeaveFlight(l, r) ==
    LET left == IF InFlight(l, r)
                THEN [l EXCEPT !.inFlight[l.requests[r].source] = None] ELSE l
    IN  ReleaseRequestSlot(left, r)

(* The lock section of cancelCallback, for a load of the source.           *)
LeaveRequest(l, c, r) == [l EXCEPT !.requests[r].callbacks = @ \ {c}]

IsAbandoned(l, r) == l.requests[r].callbacks = {} /\ ~l.requests[r].terminal

AbandonRequest(l, r) ==
    LeaveFlight([l EXCEPT !.requests[r].terminal = TRUE], r)

(* What follows outside the lock: nothing of the request goes on.          *)
RetireRequest(l, r) ==
    WithdrawTask([l EXCEPT !.requests[r].timed = FALSE,
                           !.requests[r].cancelled = TRUE], r)

=============================================================================
