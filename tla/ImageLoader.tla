----------------------------- MODULE ImageLoader -----------------------------
(***************************************************************************)
(* RenderImageLoader.kt: the loads, cancellations and posted tasks of the  *)
(* main thread, the workers of the executor, and the timer of the          *)
(* deadlines.  Each step of a thread is one section of the lock, one       *)
(* compare-and-set, or one call of the executor or of the main handler.    *)
(*                                                                         *)
(* A decoded bitmap is named after the request that decoded it; refs holds *)
(* its open leases: Base for the one the decoder made, c for the one       *)
(* forked for load c until it is handed to the consumer of c.              *)
(***************************************************************************)
EXTENDS ImageLoaderOps

CONSTANTS
    Workers,         \* the threads of the executor
    RejectionLimit,  \* REJECTION_NOTIFICATION_LIMIT
    Mortal,          \* a bound: the loads whose deadline may pass
    Fickle           \* a bound: the loads that may be cancelled

ThreadsAssumption ==
    /\ {"main", "timer"} \intersect Workers = {}
    /\ RejectionLimit \in Nat \ {0}
    /\ Mortal \subseteq Loads /\ Fickle \subseteq Loads

VARIABLES
    l,            \* what the lock protects
    calls,        \* the loads: their callbacks and handles
    cache,        \* the bitmap cached for each source
    rejections,   \* rejectionNotifications
    posted,       \* the main looper's tasks
    thread,       \* where each thread is
    refs,         \* the open leases of each bitmap
    dead,         \* the loads whose deadline has passed
    cachedTimers  \* the loads with an armed timer of a cached delivery

vars == <<l, calls, cache, rejections, posted, thread, refs, dead, cachedTimers>>

Base == 0

Threads == Workers \union {"main", "timer"}

NoCall == [source |-> None, admitted |-> FALSE, released |-> FALSE,
           cancelled |-> FALSE, finished |-> FALSE, answers |-> 0]

Idle == [pc |-> "idle", of |-> None, bitmap |-> FALSE, callbacks |-> {}]

At(t, pc) == thread[t].pc = pc

Go(t, pc, of, bitmap) ==
    thread' = [thread EXCEPT ![t] = [pc |-> pc, of |-> of, bitmap |-> bitmap,
                                     callbacks |-> {}]]

Task(kind, loads) == [kind |-> kind, loads |-> loads]

Drain == Task("drain", {})

(* A drain posted right behind a drain adds nothing.                       *)
Post(queue, task) ==
    IF task = Drain /\ queue # <<>> /\ Last(queue) = Drain THEN queue
    ELSE Append(queue, task)

Init ==
    /\ l = NewLoader
    /\ calls = [c \in Loads |-> NoCall]
    /\ cache = [s \in Sources |-> None]
    /\ rejections = <<>>
    /\ posted = <<>>
    /\ thread = [t \in Threads |-> Idle]
    /\ refs = [r \in Loads |-> {}]
    /\ dead = {}
    /\ cachedTimers = {}

-----------------------------------------------------------------------------
(* Callbacks and their admissions.                                         *)

Holds(c) == calls[c].admitted /\ ~calls[c].released

(* releaseAdmission of some loads, within the step that also changes now.  *)
ReleaseAdmissions(now, loads) ==
    [now EXCEPT !.admitted = @ - Cardinality({c \in loads : Holds(c)})]

(* deliverCallback: the load is called back unless cancelled, and finished.*)
Delivered(loads) ==
    [c \in Loads |->
       IF c \notin loads THEN calls[c]
       ELSE [calls[c] EXCEPT !.released = calls[c].admitted, !.finished = TRUE,
                             !.answers = @ + (IF calls[c].cancelled THEN 0 ELSE 1)]]

(* enqueueRejectionNotification, for a load whose calls are now "now".     *)
Reject(c, now) ==
    IF Len(rejections) >= RejectionLimit
    THEN /\ calls' = [now EXCEPT ![c].finished = TRUE, ![c].released = now[c].admitted]
         /\ l' = ReleaseAdmissions(l, {c})
         /\ UNCHANGED <<rejections, posted>>
    ELSE /\ calls' = now
         /\ rejections' = Append(rejections, c)
         /\ posted' = IF rejections = <<>> THEN Post(posted, Task("reject", {})) ELSE posted
         /\ UNCHANGED l

-----------------------------------------------------------------------------
(* loadInternal, on the main thread.                                       *)

Load(c, source) ==
    /\ At("main", "idle")
    /\ calls[c].source = None
    /\ c > 1 => calls[c - 1].source # None
    /\ LET called == [calls EXCEPT ![c].source = source]
       IN  IF l.admitted >= AdmissionLimit
           THEN Reject(c, called) /\ UNCHANGED thread
           ELSE /\ l' = [l EXCEPT !.admitted = @ + 1]
                /\ calls' = [called EXCEPT ![c].admitted = TRUE]
                /\ Go("main", "place", c, FALSE)
                /\ UNCHANGED <<rejections, posted>>
    /\ UNCHANGED <<cache, refs, dead, cachedTimers>>

(* The source cannot be prepared, or the deadline passes meanwhile.        *)
GiveUp ==
    /\ At("main", "place")
    /\ LET c == thread["main"].of
       IN  /\ l' = ReleaseAdmissions(l, {c})
           /\ calls' = [calls EXCEPT ![c].released = TRUE]
           /\ posted' = Post(posted, Task("answer", {c}))
    /\ Go("main", "idle", None, FALSE)
    /\ UNCHANGED <<cache, rejections, refs, dead, cachedTimers>>

(* A lease of the cached bitmap is posted, with a timer of its own.        *)
PlaceCached ==
    /\ At("main", "place")
    /\ LET c == thread["main"].of
           r == cache[calls[c].source]
       IN  /\ r # None
           /\ refs' = [refs EXCEPT ![r] = @ \union {c}]
           /\ cachedTimers' = cachedTimers \union {c}
           /\ posted' = Post(posted, Task("cached", {c}))
    /\ Go("main", "idle", None, FALSE)
    /\ UNCHANGED <<l, calls, cache, rejections, dead>>

PlaceRequest ==
    /\ At("main", "place")
    /\ LET c == thread["main"].of
           source == calls[c].source
       IN  /\ cache[source] = None
           /\ \/ /\ l.inFlight[source] # None
                 /\ l' = JoinRequest(l, c, l.inFlight[source])
                 /\ Go("main", "idle", None, FALSE)
                 /\ UNCHANGED <<calls, rejections, posted>>
              \/ /\ l.inFlight[source] = None /\ HasSlot(l)
                 /\ l' = SubmitNew(l, c, source)
                 /\ Go("main", "poll", None, FALSE)
                 /\ UNCHANGED <<calls, rejections, posted>>
              \/ /\ l.inFlight[source] = None /\ ~HasSlot(l) /\ CanWait(l)
                 /\ l' = WaitForSlot(l, c, source)
                 /\ Go("main", "idle", None, FALSE)
                 /\ UNCHANGED <<calls, rejections, posted>>
              \/ /\ l.inFlight[source] = None /\ ~HasSlot(l) /\ ~CanWait(l)
                 /\ Reject(c, calls)
                 /\ Go("main", "idle", None, FALSE)
    /\ UNCHANGED <<cache, refs, dead, cachedTimers>>

(* A mutation: the slot that is free now is not offered.                   *)
CancelUndrained(c) ==
    /\ At("main", "idle")
    /\ c \in Fickle /\ calls[c].source # None /\ ~calls[c].cancelled
    /\ calls' = [calls EXCEPT ![c].cancelled = TRUE, ![c].finished = TRUE,
                              ![c].released = calls[c].admitted]
    /\ LET r == l.inFlight[calls[c].source]
           left == LeaveRequest(ReleaseAdmissions(l, {c}), c, r)
       IN  IF r = None
           THEN l' = ReleaseAdmissions(l, {c}) /\ UNCHANGED thread
           ELSE IF IsAbandoned(left, r)
           THEN l' = RetireRequest(AbandonRequest(left, r), r) /\ UNCHANGED thread
           ELSE l' = left /\ UNCHANGED thread
    /\ UNCHANGED <<cache, rejections, posted, refs, dead, cachedTimers>>

(* LoadHandle.cancel: cancelCallback, then finish.                         *)
Cancel(c) ==
    /\ At("main", "idle")
    /\ c \in Fickle /\ calls[c].source # None /\ ~calls[c].cancelled
    /\ calls' = [calls EXCEPT ![c].cancelled = TRUE, ![c].finished = TRUE,
                              ![c].released = calls[c].admitted]
    /\ LET r == l.inFlight[calls[c].source]
           left == LeaveRequest(ReleaseAdmissions(l, {c}), c, r)
       IN  IF r = None
           THEN l' = ReleaseAdmissions(l, {c}) /\ UNCHANGED thread
           ELSE IF IsAbandoned(left, r)
           THEN /\ l' = RetireRequest(AbandonRequest(left, r), r)
                /\ Go("main", "poll", None, FALSE)
           ELSE l' = left /\ UNCHANGED thread
    /\ UNCHANGED <<cache, rejections, posted, refs, dead, cachedTimers>>

-----------------------------------------------------------------------------
(* drainSubmissions, on the main thread.                                   *)

Poll ==
    /\ At("main", "poll")
    /\ IF l.ready = <<>>
       THEN Go("main", "idle", None, FALSE) /\ UNCHANGED l
       ELSE /\ Go("main", "execute", Head(l.ready), FALSE)
            /\ l' = [l EXCEPT !.ready = Tail(@)]
    /\ UNCHANGED <<calls, cache, rejections, posted, refs, dead, cachedTimers>>

(* The executor refuses a task when its queue is full.                     *)
Execute ==
    /\ At("main", "execute")
    /\ LET r == thread["main"].of
       IN  IF Len(l.queue) < QueueCapacity
           THEN l' = [l EXCEPT !.queue = Append(@, r)] /\ Go("main", "bind", r, FALSE)
           ELSE /\ l' = IF InFlight(l, r) THEN [l EXCEPT !.ready = <<r>> \o @]
                        ELSE ReleaseRequestSlot(l, r)
                /\ Go("main", "idle", None, FALSE)
    /\ UNCHANGED <<calls, cache, rejections, posted, refs, dead, cachedTimers>>

(* The future is bound; an orphaned submission is cancelled.               *)
Bind ==
    /\ At("main", "bind")
    /\ LET r == thread["main"].of
       IN  l' = IF InFlight(l, r) THEN l
                ELSE WithdrawTask([l EXCEPT !.requests[r].cancelled = TRUE], r)
    /\ Go("main", "poll", None, FALSE)
    /\ UNCHANGED <<calls, cache, rejections, posted, refs, dead, cachedTimers>>

-----------------------------------------------------------------------------
(* The tasks of a worker.                                                  *)

TakeTask(w) ==
    /\ At(w, "idle") /\ l.queue # <<>>
    /\ l' = StartTask(l, NextTask(l))
    /\ Go(w, "decode", NextTask(l), FALSE)
    /\ UNCHANGED <<calls, cache, rejections, posted, refs, dead, cachedTimers>>

(* The decoder returns a bitmap or nothing.                                *)
Decode(w, bitmap) ==
    /\ At(w, "decode")
    /\ Go(w, "complete", thread[w].of, bitmap)
    /\ refs' = [refs EXCEPT ![thread[w].of] = IF bitmap THEN {Base} ELSE {}]
    /\ UNCHANGED <<l, calls, cache, rejections, posted, dead, cachedTimers>>

(* completeDecodedRequest; with no claim, the task then ends.              *)
Complete(w) ==
    LET r == thread[w].of
        done == l.requests[r].terminal
        fails == ~thread[w].bitmap \/ l.requests[r].cancelled \/ r \in dead
        drained == Post(posted, Drain)
    IN  /\ At(w, "complete")
        /\ l' = ReleaseRequestSlot(l, r)
        /\ IF done
           THEN /\ refs' = [refs EXCEPT ![r] = @ \ {Base}]
                /\ posted' = drained
                /\ Go(w, "idle", None, FALSE)
           ELSE IF fails
           THEN /\ posted' = drained
                /\ Go(w, "claim", r, FALSE)
                /\ UNCHANGED refs
           ELSE /\ posted' = Post(Post(drained, Task("outcome", {r})), Drain)
                /\ Go(w, "idle", None, FALSE)
                /\ UNCHANGED refs
        /\ UNCHANGED <<calls, cache, rejections, dead, cachedTimers>>

-----------------------------------------------------------------------------
(* claimRequestOutcome, by the thread that found an outcome.               *)

(* A mutation: the terminal mark is read and set without a compare.        *)
ClaimAlways(t) ==
    LET r == thread[t].of
    IN  /\ At(t, "claim")
        /\ l' = [l EXCEPT !.requests[r].terminal = TRUE, !.requests[r].timed = FALSE]
        /\ Go(t, "leave", r, thread[t].bitmap)
        /\ UNCHANGED <<posted, refs, calls, cache, rejections, dead, cachedTimers>>

(* The first to set terminal goes on; the others close what they have.     *)
Claim(t) ==
    LET r == thread[t].of
    IN  /\ At(t, "claim")
        /\ IF l.requests[r].terminal
           THEN /\ refs' = IF thread[t].bitmap THEN [refs EXCEPT ![r] = @ \ {Base}] ELSE refs
                /\ posted' = IF t \in Workers THEN Post(posted, Drain) ELSE posted
                /\ Go(t, "idle", None, FALSE)
                /\ UNCHANGED l
           ELSE /\ l' = [l EXCEPT !.requests[r].terminal = TRUE, !.requests[r].timed = FALSE]
                /\ Go(t, "leave", r, thread[t].bitmap)
                /\ UNCHANGED <<posted, refs>>
        /\ UNCHANGED <<calls, cache, rejections, dead, cachedTimers>>

Leave(t) ==
    LET r == thread[t].of
    IN  /\ At(t, "leave")
        /\ l' = LeaveFlight(l, r)
        /\ thread' = [thread EXCEPT ![t].pc = "settle",
                                    ![t].callbacks = l.requests[r].callbacks]
        /\ UNCHANGED <<calls, cache, rejections, posted, refs, dead, cachedTimers>>

(* Whether the candidate of the main thread is still worth its delivery.   *)
Resolves(t) ==
    LET r == thread[t].of
    IN  /\ thread[t].bitmap
        /\ ~l.requests[r].cancelled
        /\ r \notin dead
        /\ \E c \in thread[t].callbacks : ~calls[c].cancelled

(* The loads have leases of their own, and the cache takes the first one   *)
(* and closes the one it replaces.                                         *)
Cached(r) ==
    LET old == cache[l.requests[r].source]
    IN  /\ cache' = [cache EXCEPT ![l.requests[r].source] = r]
        /\ refs' = [b \in Loads |-> IF b = old THEN refs[b] \ {Base} ELSE refs[b]]

SettleInline ==
    LET r == thread["main"].of
        loads == thread["main"].callbacks
    IN  /\ At("main", "settle")
        /\ IF Resolves("main")
           THEN Cached(r) /\ l' = ReleaseAdmissions(l, loads)
           ELSE /\ refs' = IF thread["main"].bitmap
                           THEN [refs EXCEPT ![r] = @ \ {Base}] ELSE refs
                /\ l' = [ReleaseAdmissions(l, loads) EXCEPT !.requests[r].cancelled = TRUE]
                /\ UNCHANGED cache
        /\ calls' = Delivered(loads)
        /\ Go("main", "poll", None, FALSE)
        /\ UNCHANGED <<rejections, posted, dead, cachedTimers>>

(* Off the main thread there is no bitmap, and the deliveries are posted.  *)
(* The timer goes on to withdraw the task; a worker's task ends.           *)
SettlePosted(t) ==
    LET r == thread[t].of
        loads == thread[t].callbacks
        answer == Post(posted, Task("answer", loads))
    IN  /\ At(t, "settle") /\ t # "main"
        /\ l' = [ReleaseAdmissions(l, loads) EXCEPT !.requests[r].cancelled = TRUE]
        /\ calls' = [c \in Loads |->
             IF c \in loads THEN [calls[c] EXCEPT !.released = TRUE] ELSE calls[c]]
        /\ IF t = "timer"
           THEN posted' = answer /\ Go(t, "withdraw", r, FALSE)
           ELSE posted' = Post(answer, Drain) /\ Go(t, "idle", None, FALSE)
        /\ UNCHANGED <<cache, rejections, refs, dead, cachedTimers>>

-----------------------------------------------------------------------------
(* The timer.                                                              *)

Deadline(c) ==
    /\ c \in Mortal /\ calls[c].source # None /\ c \notin dead
    /\ dead' = dead \union {c}
    /\ UNCHANGED <<l, calls, cache, rejections, posted, thread, refs, cachedTimers>>

(* expireRequest begins.                                                   *)
Expire(r) ==
    /\ At("timer", "idle")
    /\ l.requests[r].timed /\ r \in dead
    /\ l' = [l EXCEPT !.requests[r].timed = FALSE]
    /\ Go("timer", "claim", r, FALSE)
    /\ UNCHANGED <<calls, cache, rejections, posted, refs, dead, cachedTimers>>

(* The claim was won: the task is withdrawn if its future is bound.        *)
WithdrawExpired ==
    /\ At("timer", "withdraw")
    /\ LET r == thread["timer"].of
       IN  l' = IF At("main", "bind") /\ thread["main"].of = r THEN l ELSE WithdrawTask(l, r)
    /\ Go("timer", "idle", None, FALSE)
    /\ UNCHANGED <<calls, cache, rejections, posted, refs, dead, cachedTimers>>

(* A cached delivery that was not made in time.                            *)
ExpireCached(c) ==
    /\ At("timer", "idle")
    /\ c \in cachedTimers /\ c \in dead
    /\ cachedTimers' = cachedTimers \ {c}
    /\ refs' = [r \in Loads |-> refs[r] \ {c}]
    /\ l' = ReleaseAdmissions(l, {c})
    /\ calls' = [calls EXCEPT ![c].released = TRUE]
    /\ posted' = Post(posted, Task("answer", {c}))
    /\ UNCHANGED <<cache, rejections, thread, dead>>

-----------------------------------------------------------------------------
(* The tasks posted to the main thread.                                    *)

RunNext(kind) ==
    /\ At("main", "idle") /\ posted # <<>> /\ Head(posted).kind = kind
    /\ posted' = Tail(posted)

RunDrain ==
    /\ RunNext("drain")
    /\ Go("main", "poll", None, FALSE)
    /\ UNCHANGED <<l, calls, cache, rejections, refs, dead, cachedTimers>>

RunAnswer ==
    /\ RunNext("answer")
    /\ calls' = Delivered(Head(posted).loads)
    /\ l' = ReleaseAdmissions(l, Head(posted).loads)
    /\ Go("main", "poll", None, FALSE)
    /\ UNCHANGED <<cache, rejections, refs, dead, cachedTimers>>

RunReject ==
    /\ RunNext("reject")
    /\ rejections' = <<>>
    /\ calls' = Delivered(ToSet(rejections))
    /\ l' = ReleaseAdmissions(l, ToSet(rejections))
    /\ UNCHANGED <<cache, thread, refs, dead, cachedTimers>>

(* An outcome that comes too late is dropped with its bitmap.              *)
RunOutcome ==
    LET r == CHOOSE r \in Head(posted).loads : TRUE
    IN  /\ RunNext("outcome")
        /\ IF l.requests[r].terminal
           THEN UNCHANGED thread
           ELSE Go("main", "claim", r, ~l.requests[r].cancelled /\ r \notin dead)
        /\ UNCHANGED <<l, calls, cache, rejections, refs, dead, cachedTimers>>

(* The lease is handed to the consumer, or closed when it comes too late.  *)
RunCached ==
    LET c == CHOOSE c \in Head(posted).loads : TRUE
    IN  /\ RunNext("cached")
        /\ IF c \notin cachedTimers
           THEN UNCHANGED <<l, calls, refs, cachedTimers>>
           ELSE /\ cachedTimers' = cachedTimers \ {c}
                /\ refs' = [r \in Loads |-> refs[r] \ {c}]
                /\ l' = ReleaseAdmissions(l, {c})
                /\ calls' = Delivered({c})
        /\ UNCHANGED <<cache, rejections, thread, dead>>

-----------------------------------------------------------------------------
(* Memory pressure empties the cache.                                      *)

Evict(s) ==
    /\ cache[s] # None
    /\ refs' = [refs EXCEPT ![cache[s]] = @ \ {Base}]
    /\ cache' = [cache EXCEPT ![s] = None]
    /\ UNCHANGED <<l, calls, rejections, posted, thread, dead, cachedTimers>>

-----------------------------------------------------------------------------

MainStep ==
    \/ GiveUp \/ PlaceCached \/ PlaceRequest
    \/ Poll \/ Execute \/ Bind
    \/ Claim("main") \/ Leave("main") \/ SettleInline
    \/ RunDrain \/ RunAnswer \/ RunReject \/ RunOutcome \/ RunCached

WorkerStep(w) ==
    TakeTask(w) \/ Complete(w) \/ Claim(w) \/ Leave(w) \/ SettlePosted(w)

TimerStep ==
    \/ \E c \in Loads : Expire(c) \/ ExpireCached(c)
    \/ Claim("timer") \/ Leave("timer") \/ SettlePosted("timer") \/ WithdrawExpired

Next ==
    \/ MainStep \/ TimerStep
    \/ \E w \in Workers : WorkerStep(w) \/ \E bitmap \in BOOLEAN : Decode(w, bitmap)
    \/ \E c \in Loads : \/ \E source \in Sources : Load(c, source)
                        \/ Cancel(c) \/ Deadline(c)
    \/ \E s \in Sources : Evict(s)

(* The looper, the timer and the clock go on, and so does a worker outside *)
(* the decoder, which need not return.                                     *)
Fairness ==
    /\ WF_vars(MainStep) /\ WF_vars(TimerStep)
    /\ \A c \in Loads : WF_vars(Deadline(c))
    /\ \A w \in Workers : WF_vars(WorkerStep(w))

Spec == Init /\ [][Next]_vars /\ Fairness

-----------------------------------------------------------------------------
(* The thread t has a step before it that drains or posts a drain.         *)
WillDrain(t) == thread[t].pc \in {"poll", "complete", "claim", "leave", "settle"}

InPosted(kind, c) == \E i \in DOMAIN posted : posted[i].kind = kind /\ c \in posted[i].loads

(* The state is well typed.                                                *)
TypeOK ==
    /\ l \in [requests : [Loads -> RequestRecords],
              inFlight : [Sources -> Loads \union {None}],
              slots : 0..MaxConcurrent,
              pending : Seq(Loads), ready : Seq(Loads), queue : Seq(Loads),
              admitted : 0..AdmissionLimit]
    /\ calls \in [Loads -> [source : Sources \union {None}, admitted : BOOLEAN,
                            released : BOOLEAN, cancelled : BOOLEAN,
                            finished : BOOLEAN, answers : Nat]]
    /\ cache \in [Sources -> Loads \union {None}]
    /\ rejections \in Seq(Loads) /\ Len(rejections) <= RejectionLimit
    /\ \A i \in DOMAIN posted :
         /\ posted[i].kind \in {"drain", "answer", "reject", "outcome", "cached"}
         /\ posted[i].loads \subseteq Loads
    /\ thread \in [Threads -> [pc : {"idle", "place", "poll", "execute", "bind", "decode",
                                     "complete", "claim", "leave", "settle", "withdraw"},
                               of : Loads \union {None}, bitmap : BOOLEAN,
                               callbacks : SUBSET Loads]]
    /\ refs \in [Loads -> SUBSET (Loads \union {Base})]
    /\ dead \subseteq Loads /\ cachedTimers \subseteq Loads

(* admissionCount counts the loads whose admission is not released, and    *)
(* each of them is still on its way to an answer: in a request that is in  *)
(* flight or being claimed, in a cached delivery, or in a rejection.       *)
(* Otherwise the 260 admissions of the process leak until no image loads.  *)
AdmissionExact ==
    /\ l.admitted = Cardinality({c \in Loads : Holds(c)})
    /\ \A c \in Loads : Holds(c) =>
         \/ At("main", "place") /\ thread["main"].of = c
         \/ \E s \in Sources : /\ l.inFlight[s] # None
                               /\ c \in l.requests[l.inFlight[s]].callbacks
         \/ \E t \in Threads : At(t, "settle") /\ c \in thread[t].callbacks
         \/ c \in cachedTimers
         \/ c \in ToSet(rejections)

(* submittedCount counts the requests that were given a slot and have not  *)
(* returned it, each of them is ready, queued or on a thread, and a request*)
(* waits for a slot only while all are taken.  releaseRequestSlotLocked is *)
(* reached from the worker, the claims, the cancellations and the refused  *)
(* submissions; a slot returned twice or never stalls or floods a policy.  *)
SlotsExact ==
    LET taken == {r \in Loads : l.requests[r].submitted /\ ~l.requests[r].slotReleased}
    IN  /\ l.slots = Cardinality(taken)
        /\ \A r \in taken :
             \/ r \in ToSet(l.ready) \/ r \in ToSet(l.queue)
             \/ \E t \in Threads : thread[t].of = r
        /\ l.pending # <<>> => l.slots = MaxConcurrent
        /\ Len(l.pending) <= MaxPending

(* Whenever a request is ready for the executor, a drain of the ready      *)
(* requests is still to come: running, posted, behind a claim, or behind a *)
(* task of the executor.  No wakeup is lost, whoever made it ready.        *)
ReadyIsDrained ==
    l.ready # <<>> =>
      \/ At("main", "execute") \/ At("main", "bind")
      \/ \E t \in Threads : WillDrain(t) \/ At(t, "decode")
      \/ \E i \in DOMAIN posted : posted[i].kind \in {"drain", "answer"}
      \/ l.queue # <<>>

(* A source has at most one request that is not terminal, it is the one in *)
(* flight, and it has a load to answer or a thread at its claim: the join, *)
(* the cancellation of the last load and the claims exclude one another.   *)
OneRequestPerSource ==
    \A r \in Loads : l.requests[r].source # None =>
      /\ ~l.requests[r].terminal =>
           InFlight(l, r) /\ l.requests[r].callbacks # {}
      /\ l.requests[r].terminal /\ InFlight(l, r) =>
           \E t \in Threads : At(t, "leave") /\ thread[t].of = r

(* A load is called back at most once, whatever races: its cancellation,   *)
(* the deadline, the outcome and the delivery from the cache.              *)
AnsweredOnce == \A c \in Loads : calls[c].answers <= 1

SilentStep ==
    \A c \in Loads : calls[c].cancelled => calls'[c].answers = calls[c].answers

(* A load that was cancelled is never called back afterwards.              *)
CancelledIsSilent == [][SilentStep]_vars

(* The cache, a cached delivery and a posted outcome of a live request all *)
(* hold an open lease: no bitmap in use is given back to the budget.       *)
LeasesAreOpen ==
    /\ \A s \in Sources : cache[s] # None => Base \in refs[cache[s]]
    /\ \A c \in cachedTimers : \E r \in Loads : c \in refs[r]
    /\ \A r \in Loads : InPosted("outcome", r) /\ ~l.requests[r].terminal => Base \in refs[r]

(* One bitmap of a source is kept at most, besides those of its consumers: *)
(* a replaced or evicted entry of the cache has no open lease of the cache.*)
KeptByOneHolder ==
    \A r \in Loads : Base \in refs[r] /\ l.requests[r].terminal
                     /\ ~l.requests[r].cancelled /\ r \notin dead =>
      \/ cache[l.requests[r].source] = r
      \/ \E t \in Threads : thread[t].of = r
      \/ InPosted("outcome", r)

(* A bitmap that nothing will use is given back to the process budget:     *)
(* while the decoder's lease is open, a thread works for its request, its  *)
(* outcome is posted, or it is cached.                                     *)
RetainedIsHeld ==
    \A r \in Loads : Base \in refs[r] =>
      \/ cache[l.requests[r].source] = r
      \/ \E t \in Threads : thread[t].of = r
      \/ InPosted("outcome", r)

(* Every load that is not cancelled finishes, even if a decoder never      *)
(* returns: with a bitmap, with nothing, or as a rejection.                *)
LoadsFinish ==
    \A c \in Loads : (calls[c].source # None) ~> calls[c].finished

=============================================================================
