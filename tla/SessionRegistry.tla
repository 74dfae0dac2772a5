--------------------------- MODULE SessionRegistry --------------------------
(***************************************************************************)
(* The global registry of editor sessions and the slots it hands out       *)
(* (editor-core, registry.rs): threads create sessions, look one up and    *)
(* call it through with_alive, and destroy it, all at once.                *)
(*                                                                         *)
(* Each step is one access to what threads share: the registry and its     *)
(* mutex, a slot's atomic lifecycle, a slot's session mutex.  A panic in   *)
(* an operation is caught at the foreign-function boundary and poisons the *)
(* session mutex, on which later callers panic in turn.                    *)
(***************************************************************************)
EXTENDS Integers

CONSTANTS
    Threads,
    MaxSessionId,  \* bound: sessions created
    Panics         \* whether an operation may panic

ASSUME RegistryAssumption ==
    /\ MaxSessionId \in Nat
    /\ Panics \in BOOLEAN

SessionIds == 1 .. MaxSessionId

VARIABLES
    next_id,        \* NEXT_SESSION_ID
    registry,       \* the ids with a slot in SESSION_REGISTRY
    registry_lock,  \* the thread that holds the registry's mutex, if any
    lifecycle,      \* of the slot of each id; absent before its insertion
    session_lock,   \* the thread that holds the slot's mutex, if any
    poisoned,       \* the slots whose mutex is poisoned
    teardowns,      \* history: how often each session was torn down
    at,             \* where each thread is
    of              \* the session each thread is concerned with

vars == <<next_id, registry, registry_lock, lifecycle, session_lock,
          poisoned, teardowns, at, of>>

Places == {"idle", "inserting", "resolved", "checked", "locked", "working",
           "unregistering", "retiring", "tearing", "torn"}

Init ==
    /\ next_id = 1
    /\ registry = {}
    /\ registry_lock = {}
    /\ lifecycle = [s \in SessionIds |-> "absent"]
    /\ session_lock = [s \in SessionIds |-> {}]
    /\ poisoned = {}
    /\ teardowns = [s \in SessionIds |-> 0]
    /\ at = [t \in Threads |-> "idle"]
    /\ of = [t \in Threads |-> 0]

Goes(t, from, to) == at[t] = from /\ at' = [at EXCEPT ![t] = to]

Release(t) == session_lock' = [session_lock EXCEPT ![of[t]] = {}]

-----------------------------------------------------------------------------
(* create_session, once the session was admitted.                          *)

TakeId(t) ==
    /\ next_id <= MaxSessionId
    /\ Goes(t, "idle", "inserting")
    /\ of' = [of EXCEPT ![t] = next_id]
    /\ next_id' = next_id + 1
    /\ UNCHANGED <<registry, registry_lock, lifecycle, session_lock, poisoned,
                   teardowns>>

Insert(t) ==
    /\ registry_lock = {}
    /\ Goes(t, "inserting", "idle")
    /\ registry' = registry \union {of[t]}
    /\ lifecycle' = [lifecycle EXCEPT ![of[t]] = "alive"]
    /\ UNCHANGED <<next_id, registry_lock, session_lock, poisoned, teardowns,
                   of>>

-----------------------------------------------------------------------------
(* A call: get_session, then with_alive.                                   *)

GetSession(t, s) ==
    /\ registry_lock = {}
    /\ s \in registry
    /\ Goes(t, "idle", "resolved")
    /\ of' = [of EXCEPT ![t] = s]
    /\ UNCHANGED <<next_id, registry, registry_lock, lifecycle, session_lock,
                   poisoned, teardowns>>

Check(t) ==
    /\ Goes(t, "resolved",
            IF lifecycle[of[t]] = "alive" THEN "checked" ELSE "idle")
    /\ UNCHANGED <<next_id, registry, registry_lock, lifecycle, session_lock,
                   poisoned, teardowns, of>>

(* A mutation: the poison of a mutex is ignored.                           *)
LockIgnoringPoison(t, from, to) ==
    /\ at[t] = from
    /\ session_lock[of[t]] = {}
    /\ Goes(t, from, to)
    /\ session_lock' = [session_lock EXCEPT ![of[t]] = {t}]

(* The mutex of the slot: taken, or found poisoned, on which the caller    *)
(* panics.                                                                 *)
Lock(t, from, to) ==
    /\ at[t] = from
    /\ session_lock[of[t]] = {}
    /\ IF of[t] \in poisoned
         THEN Goes(t, from, "idle") /\ UNCHANGED session_lock
         ELSE /\ Goes(t, from, to)
              /\ session_lock' = [session_lock EXCEPT ![of[t]] = {t}]

LockToCall(t) ==
    /\ Lock(t, "checked", "locked")
    /\ UNCHANGED <<next_id, registry, registry_lock, lifecycle, poisoned,
                   teardowns, of>>

Recheck(t) ==
    /\ at[t] = "locked"
    /\ IF lifecycle[of[t]] = "alive"
         THEN Goes(t, "locked", "working") /\ UNCHANGED session_lock
         ELSE Goes(t, "locked", "idle") /\ Release(t)
    /\ UNCHANGED <<next_id, registry, registry_lock, lifecycle, poisoned,
                   teardowns, of>>

Return(t) ==
    /\ Goes(t, "working", "idle")
    /\ Release(t)
    /\ UNCHANGED <<next_id, registry, registry_lock, lifecycle, poisoned,
                   teardowns, of>>

Panic(t) ==
    /\ Panics
    /\ Goes(t, "working", "idle")
    /\ Release(t)
    /\ poisoned' = poisoned \union {of[t]}
    /\ UNCHANGED <<next_id, registry, registry_lock, lifecycle, teardowns, of>>

-----------------------------------------------------------------------------
(* destroy_session, which holds the registry's mutex until the id is gone. *)

(* A mutation: the mutex is dropped once the lifecycle is set.             *)
BeginDestroyUnlocked(t, s) ==
    /\ registry_lock = {}
    /\ s \in registry
    /\ lifecycle[s] = "alive"
    /\ Goes(t, "idle", "unregistering")
    /\ of' = [of EXCEPT ![t] = s]
    /\ lifecycle' = [lifecycle EXCEPT ![s] = "destroying"]
    /\ UNCHANGED <<next_id, registry, registry_lock, session_lock, poisoned,
                   teardowns>>

BeginDestroy(t, s) ==
    /\ registry_lock = {}
    /\ s \in registry
    /\ lifecycle[s] = "alive"
    /\ Goes(t, "idle", "unregistering")
    /\ of' = [of EXCEPT ![t] = s]
    /\ lifecycle' = [lifecycle EXCEPT ![s] = "destroying"]
    /\ registry_lock' = {t}
    /\ UNCHANGED <<next_id, registry, session_lock, poisoned, teardowns>>

Unregister(t) ==
    /\ Goes(t, "unregistering", "retiring")
    /\ registry' = registry \ {of[t]}
    /\ registry_lock' = {}
    /\ UNCHANGED <<next_id, lifecycle, session_lock, poisoned, teardowns, of>>

(* A mutation: the destruction does not wait for the session's mutex.      *)
TearDownAtOnce(t) ==
    /\ Goes(t, "retiring", "tearing")
    /\ UNCHANGED <<next_id, registry, registry_lock, lifecycle, session_lock,
                   poisoned, teardowns, of>>

LockToTearDown(t) ==
    /\ Lock(t, "retiring", "tearing")
    /\ UNCHANGED <<next_id, registry, registry_lock, lifecycle, poisoned,
                   teardowns, of>>

TearDown(t) ==
    /\ Goes(t, "tearing", "torn")
    /\ teardowns' = [teardowns EXCEPT ![of[t]] = @ + 1]
    /\ UNCHANGED <<next_id, registry, registry_lock, lifecycle, session_lock,
                   poisoned, of>>

MarkDestroyed(t) ==
    /\ Goes(t, "torn", "idle")
    /\ lifecycle' = [lifecycle EXCEPT ![of[t]] = "destroyed"]
    /\ Release(t)
    /\ UNCHANGED <<next_id, registry, registry_lock, poisoned, teardowns, of>>

-----------------------------------------------------------------------------

(* The steps of a call or destruction in progress.                         *)
Continue(t) ==
    \/ Insert(t)
    \/ Check(t)
    \/ LockToCall(t)
    \/ Recheck(t)
    \/ Return(t)
    \/ Panic(t)
    \/ Unregister(t)
    \/ LockToTearDown(t)
    \/ TearDown(t)
    \/ MarkDestroyed(t)

Next ==
    \E t \in Threads :
        \/ TakeId(t)
        \/ \E s \in SessionIds : GetSession(t, s) \/ BeginDestroy(t, s)
        \/ Continue(t)

Spec == Init /\ [][Next]_vars

(* A thread that has begun is scheduled, and its operation returns.        *)
FairSpec == Spec /\ \A t \in Threads : WF_vars(Continue(t))

-----------------------------------------------------------------------------
(* Properties *)

(* Types of the variables.                                                 *)
TypeOK ==
    /\ next_id \in 1 .. MaxSessionId + 1
    /\ registry \in SUBSET SessionIds
    /\ registry_lock \in SUBSET Threads
    /\ lifecycle \in [SessionIds ->
                        {"absent", "alive", "destroying", "destroyed"}]
    /\ session_lock \in [SessionIds -> SUBSET Threads]
    /\ poisoned \in SUBSET SessionIds
    /\ teardowns \in [SessionIds -> Nat]
    /\ at \in [Threads -> Places]
    /\ of \in [Threads -> SessionIds \union {0}]
    /\ \A t \in Threads : at[t] # "idle" => of[t] \in SessionIds

(* with_alive and destroy_session: an operation never runs on a session    *)
(* that was torn down, that is being torn down or that another operation   *)
(* is working on, even for a handle obtained and checked long before the   *)
(* destruction began.                                                      *)
NoWorkAfterTeardown ==
    \A t \in Threads :
        at[t] = "working" =>
            /\ teardowns[of[t]] = 0
            /\ \A u \in Threads \ {t} :
                  of[u] = of[t] => at[u] \notin {"working", "tearing", "torn"}

(* session_lifecycle_test.rs, "linearizable and teardown once": however    *)
(* many threads destroy a session, it is torn down at most once, and       *)
(* exactly once when it is reported destroyed.                             *)
TornDownOnce ==
    \A s \in SessionIds :
        /\ teardowns[s] <= 1
        /\ lifecycle[s] = "destroyed" => teardowns[s] = 1

(* "No new handle may be acquired after destroy begins": whoever may look  *)
(* into the registry finds the alive sessions there and no other.          *)
RegistryHoldsAlive ==
    registry_lock = {} => registry = {s \in SessionIds : lifecycle[s] = "alive"}

(* A session in which an operation panicked halfway is not used again: no  *)
(* call reads what it left and the teardown does not run on it.            *)
PoisonedIsLeftAlone ==
    \A t \in Threads :
        of[t] \in poisoned =>
            at[t] \notin {"locked", "working", "tearing", "torn"}

(* The sessions live as SessionLife promises.                              *)
Life ==
    INSTANCE SessionLife WITH
        status <- [s \in SessionIds |->
                     IF teardowns[s] > 0 THEN "closed"
                     ELSE IF lifecycle[s] = "alive" THEN "open"
                     ELSE IF lifecycle[s] = "absent" THEN "absent"
                     ELSE "closing"],
        admitted <- [s \in SessionIds |->
                       {t \in Threads : at[t] = "working" /\ of[t] = s}]

LifeSpec == Life!LSpec

(* A destruction that was begun ends, though other threads hold handles    *)
(* and contend for the lock.                                               *)
DestroyEnds ==
    \A s \in SessionIds :
        lifecycle[s] = "destroying" ~> lifecycle[s] = "destroyed"

=============================================================================
