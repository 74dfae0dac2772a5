---------------------------- MODULE SessionProofs ---------------------------
(***************************************************************************)
(* Theorems of a session: of the registry through which threads reach it,  *)
(* for any number of threads and sessions; of its ledger of native         *)
(* requests, for any bindings, request ids and size of the window; and of  *)
(* the compressed anchors of its position epochs, for any paragraph.       *)
(***************************************************************************)
EXTENDS SessionRegistry, NativeRequests, AnchorRuns, TLAPS

-----------------------------------------------------------------------------
(* The registry.  The inductive invariant says who owns what between two   *)
(* steps: a mutex by the thread inside it, the destruction of a session by *)
(* the one thread whose exchange of the lifecycle succeeded, an id by the  *)
(* thread that took it.                                                    *)

Holding == {"locked", "working", "tearing", "torn"}
Destroying == {"unregistering", "retiring", "tearing", "torn"}

(* A thread inside a session's mutex holds it.                             *)
MutexHeld == \A t \in Threads : at[t] \in Holding => session_lock[of[t]] = {t}

(* One thread destroys a session, and has torn it down when it says so.    *)
DestructionOwned ==
    \A t \in Threads :
        at[t] \in Destroying =>
            /\ lifecycle[of[t]] = "destroying"
            /\ teardowns[of[t]] = IF at[t] = "torn" THEN 1 ELSE 0
            /\ \A u \in Threads :
                  at[u] \in Destroying /\ of[u] = of[t] => u = t

(* Teardowns follow the lifecycle, and no operation is past them.          *)
TeardownsCounted ==
    /\ \A s \in SessionIds :
          /\ teardowns[s] \in {0, 1}
          /\ lifecycle[s] \in {"absent", "alive"} => teardowns[s] = 0
          /\ lifecycle[s] = "destroyed" => teardowns[s] = 1
    /\ \A t \in Threads : at[t] = "working" => teardowns[of[t]] = 0

(* Ids not yet inserted are absent, each taken by one thread.              *)
IdsFresh ==
    /\ \A s \in SessionIds : s >= next_id => lifecycle[s] = "absent"
    /\ \A t \in Threads :
          at[t] = "inserting" =>
              /\ of[t] < next_id
              /\ lifecycle[of[t]] = "absent"
              /\ \A u \in Threads :
                    at[u] = "inserting" /\ of[u] = of[t] => u = t

(* The registry holds the alive sessions and the one being taken out.      *)
RegistryKept ==
    /\ \A t \in Threads : at[t] = "unregistering" => registry_lock = {t}
    /\ \A s \in SessionIds :
          s \in registry <=>
              \/ lifecycle[s] = "alive"
              \/ \E t \in Threads : at[t] = "unregistering" /\ of[t] = s

IInv ==
    /\ TypeOK
    /\ MutexHeld
    /\ DestructionOwned
    /\ TeardownsCounted
    /\ IdsFresh
    /\ RegistryKept
    /\ PoisonedIsLeftAlone

(* No session exists and no thread has begun.                              *)
LEMMA InitIInv == Init => IInv
BY RegistryAssumption
   DEF Init, IInv, TypeOK, Places, SessionIds, MutexHeld, DestructionOwned,
       TeardownsCounted, IdsFresh, RegistryKept, PoisonedIsLeftAlone, Holding,
       Destroying

(* The id taken is the counter's, which no thread took before.             *)
LEMMA TakeIdStep ==
    ASSUME IInv, NEW t \in Threads, TakeId(t)
    PROVE  IInv'
<1>1. TypeOK'
  BY RegistryAssumption
     DEF IInv, TakeId, Goes, TypeOK, Places, SessionIds
<1>2. MutexHeld'
  BY DEF IInv, TakeId, Goes, TypeOK, Places, MutexHeld, Holding, SessionIds
<1>3. DestructionOwned'
  BY DEF IInv, TakeId, Goes, TypeOK, Places, DestructionOwned, Destroying,
         SessionIds
<1>4. TeardownsCounted'
  BY DEF IInv, TakeId, Goes, TypeOK, Places, TeardownsCounted, SessionIds
<1>5. IdsFresh'
  BY RegistryAssumption
     DEF IInv, TakeId, Goes, TypeOK, Places, IdsFresh, SessionIds
<1>6. RegistryKept'
  BY DEF IInv, TakeId, Goes, TypeOK, Places, RegistryKept, SessionIds
<1>7. PoisonedIsLeftAlone'
  BY DEF IInv, TakeId, Goes, TypeOK, Places, PoisonedIsLeftAlone, SessionIds
<1>. QED
  BY <1>1, <1>2, <1>3, <1>4, <1>5, <1>6, <1>7 DEF IInv

(* The session inserted was absent: it has no destroyer and no teardown.   *)
LEMMA InsertStep ==
    ASSUME IInv, NEW t \in Threads, Insert(t)
    PROVE  IInv'
<1>1. TypeOK'
  BY RegistryAssumption
     DEF IInv, Insert, Goes, TypeOK, Places, SessionIds
<1>2. MutexHeld'
  BY DEF IInv, Insert, Goes, TypeOK, Places, MutexHeld, Holding
<1>3. DestructionOwned'
  BY DEF IInv, Insert, Goes, TypeOK, Places, DestructionOwned, Destroying,
         IdsFresh
<1>4. TeardownsCounted'
  BY DEF IInv, Insert, Goes, TypeOK, Places, TeardownsCounted, IdsFresh
<1>5. IdsFresh'
  BY RegistryAssumption
     DEF IInv, Insert, Goes, TypeOK, Places, IdsFresh, SessionIds
<1>6. RegistryKept'
  BY DEF IInv, Insert, Goes, TypeOK, Places, RegistryKept, IdsFresh
<1>7. PoisonedIsLeftAlone'
  BY DEF IInv, Insert, Goes, TypeOK, Places, PoisonedIsLeftAlone
<1>. QED
  BY <1>1, <1>2, <1>3, <1>4, <1>5, <1>6, <1>7 DEF IInv

(* A lookup changes where the thread is and nothing else.                  *)
LEMMA GetSessionStep ==
    ASSUME IInv, NEW t \in Threads, NEW s \in SessionIds, GetSession(t, s)
    PROVE  IInv'
<1>1. TypeOK'
  BY DEF IInv, GetSession, Goes, TypeOK, Places, SessionIds
<1>2. MutexHeld'
  BY DEF IInv, GetSession, Goes, TypeOK, Places, MutexHeld, Holding
<1>3. DestructionOwned'
  BY DEF IInv, GetSession, Goes, TypeOK, Places, DestructionOwned, Destroying
<1>4. TeardownsCounted'
  BY DEF IInv, GetSession, Goes, TypeOK, Places, TeardownsCounted
<1>5. IdsFresh'
  BY DEF IInv, GetSession, Goes, TypeOK, Places, IdsFresh, SessionIds
<1>6. RegistryKept'
  BY DEF IInv, GetSession, Goes, TypeOK, Places, RegistryKept
<1>7. PoisonedIsLeftAlone'
  BY DEF IInv, GetSession, Goes, TypeOK, Places, PoisonedIsLeftAlone
<1>. QED
  BY <1>1, <1>2, <1>3, <1>4, <1>5, <1>6, <1>7 DEF IInv

(* Nor does the first look at the lifecycle.                               *)
LEMMA CheckStep ==
    ASSUME IInv, NEW t \in Threads, Check(t)
    PROVE  IInv'
<1>1. TypeOK'
  BY DEF IInv, Check, Goes, TypeOK, Places, SessionIds
<1>2. MutexHeld'
  BY DEF IInv, Check, Goes, TypeOK, Places, MutexHeld, Holding
<1>3. DestructionOwned'
  BY DEF IInv, Check, Goes, TypeOK, Places, DestructionOwned, Destroying
<1>4. TeardownsCounted'
  BY DEF IInv, Check, Goes, TypeOK, Places, TeardownsCounted
<1>5. IdsFresh'
  BY DEF IInv, Check, Goes, TypeOK, Places, IdsFresh, SessionIds
<1>6. RegistryKept'
  BY DEF IInv, Check, Goes, TypeOK, Places, RegistryKept
<1>7. PoisonedIsLeftAlone'
  BY DEF IInv, Check, Goes, TypeOK, Places, PoisonedIsLeftAlone
<1>. QED
  BY <1>1, <1>2, <1>3, <1>4, <1>5, <1>6, <1>7 DEF IInv

(* The mutex was free, so no other thread was inside it.                   *)
LEMMA LockToCallStep ==
    ASSUME IInv, NEW t \in Threads, LockToCall(t)
    PROVE  IInv'
<1>1. TypeOK'
  <2>1. CASE of[t] \in poisoned
    BY <2>1
       DEF IInv, LockToCall, Goes, Lock, TypeOK, Places, SessionIds
  <2>2. CASE ~(of[t] \in poisoned)
    BY <2>2
       DEF IInv, LockToCall, Goes, Lock, TypeOK, Places, SessionIds
  <2>. QED
    BY <2>1, <2>2
<1>2. MutexHeld'
  <2>1. CASE of[t] \in poisoned
    BY <2>1
       DEF IInv, LockToCall, Goes, Lock, TypeOK, Places, MutexHeld, Holding
  <2>2. CASE ~(of[t] \in poisoned)
    BY <2>2
       DEF IInv, LockToCall, Goes, Lock, TypeOK, Places, MutexHeld, Holding
  <2>. QED
    BY <2>1, <2>2
<1>3. DestructionOwned'
  <2>1. CASE of[t] \in poisoned
    BY <2>1
       DEF IInv, LockToCall, Goes, Lock, TypeOK, Places, DestructionOwned,
           Destroying
  <2>2. CASE ~(of[t] \in poisoned)
    BY <2>2
       DEF IInv, LockToCall, Goes, Lock, TypeOK, Places, DestructionOwned,
           Destroying
  <2>. QED
    BY <2>1, <2>2
<1>4. TeardownsCounted'
  <2>1. CASE of[t] \in poisoned
    BY <2>1
       DEF IInv, LockToCall, Goes, Lock, TypeOK, Places, TeardownsCounted
  <2>2. CASE ~(of[t] \in poisoned)
    BY <2>2
       DEF IInv, LockToCall, Goes, Lock, TypeOK, Places, TeardownsCounted
  <2>. QED
    BY <2>1, <2>2
<1>5. IdsFresh'
  <2>1. CASE of[t] \in poisoned
    BY <2>1
       DEF IInv, LockToCall, Goes, Lock, TypeOK, Places, IdsFresh, SessionIds
  <2>2. CASE ~(of[t] \in poisoned)
    BY <2>2
       DEF IInv, LockToCall, Goes, Lock, TypeOK, Places, IdsFresh, SessionIds
  <2>. QED
    BY <2>1, <2>2
<1>6. RegistryKept'
  <2>1. CASE of[t] \in poisoned
    BY <2>1
       DEF IInv, LockToCall, Goes, Lock, TypeOK, Places, RegistryKept
  <2>2. CASE ~(of[t] \in poisoned)
    BY <2>2
       DEF IInv, LockToCall, Goes, Lock, TypeOK, Places, RegistryKept
  <2>. QED
    BY <2>1, <2>2
<1>7. PoisonedIsLeftAlone'
  <2>1. CASE of[t] \in poisoned
    BY <2>1
       DEF IInv, LockToCall, Goes, Lock, TypeOK, Places, PoisonedIsLeftAlone
  <2>2. CASE ~(of[t] \in poisoned)
    BY <2>2
       DEF IInv, LockToCall, Goes, Lock, TypeOK, Places, PoisonedIsLeftAlone
  <2>. QED
    BY <2>1, <2>2
<1>. QED
  BY <1>1, <1>2, <1>3, <1>4, <1>5, <1>6, <1>7 DEF IInv

(* A call goes on only in a session not torn down, else it lets go.        *)
LEMMA RecheckStep ==
    ASSUME IInv, NEW t \in Threads, Recheck(t)
    PROVE  IInv'
<1>1. TypeOK'
  <2>1. CASE lifecycle[of[t]] = "alive"
    BY <2>1, RegistryAssumption
       DEF IInv, Recheck, Goes, Release, TypeOK, Places, SessionIds
  <2>2. CASE ~(lifecycle[of[t]] = "alive")
    BY <2>2, RegistryAssumption
       DEF IInv, Recheck, Goes, Release, TypeOK, Places, SessionIds
  <2>. QED
    BY <2>1, <2>2
<1>2. MutexHeld'
  <2>1. CASE lifecycle[of[t]] = "alive"
    BY <2>1
       DEF IInv, Recheck, Goes, Release, TypeOK, Places, MutexHeld, Holding
  <2>2. CASE ~(lifecycle[of[t]] = "alive")
    BY <2>2
       DEF IInv, Recheck, Goes, Release, TypeOK, Places, MutexHeld, Holding
  <2>. QED
    BY <2>1, <2>2
<1>3. DestructionOwned'
  <2>1. CASE lifecycle[of[t]] = "alive"
    BY <2>1
       DEF IInv, Recheck, Goes, Release, TypeOK, Places, DestructionOwned,
           Destroying
  <2>2. CASE ~(lifecycle[of[t]] = "alive")
    BY <2>2
       DEF IInv, Recheck, Goes, Release, TypeOK, Places, DestructionOwned,
           Destroying
  <2>. QED
    BY <2>1, <2>2
<1>4. TeardownsCounted'
  <2>1. CASE lifecycle[of[t]] = "alive"
    BY <2>1
       DEF IInv, Recheck, Goes, Release, TypeOK, Places, TeardownsCounted
  <2>2. CASE ~(lifecycle[of[t]] = "alive")
    BY <2>2
       DEF IInv, Recheck, Goes, Release, TypeOK, Places, TeardownsCounted
  <2>. QED
    BY <2>1, <2>2
<1>5. IdsFresh'
  <2>1. CASE lifecycle[of[t]] = "alive"
    BY <2>1, RegistryAssumption
       DEF IInv, Recheck, Goes, Release, TypeOK, Places, IdsFresh, SessionIds
  <2>2. CASE ~(lifecycle[of[t]] = "alive")
    BY <2>2, RegistryAssumption
       DEF IInv, Recheck, Goes, Release, TypeOK, Places, IdsFresh, SessionIds
  <2>. QED
    BY <2>1, <2>2
<1>6. RegistryKept'
  <2>1. CASE lifecycle[of[t]] = "alive"
    BY <2>1
       DEF IInv, Recheck, Goes, Release, TypeOK, Places, RegistryKept
  <2>2. CASE ~(lifecycle[of[t]] = "alive")
    BY <2>2
       DEF IInv, Recheck, Goes, Release, TypeOK, Places, RegistryKept
  <2>. QED
    BY <2>1, <2>2
<1>7. PoisonedIsLeftAlone'
  <2>1. CASE lifecycle[of[t]] = "alive"
    BY <2>1
       DEF IInv, Recheck, Goes, Release, TypeOK, Places, PoisonedIsLeftAlone
  <2>2. CASE ~(lifecycle[of[t]] = "alive")
    BY <2>2
       DEF IInv, Recheck, Goes, Release, TypeOK, Places, PoisonedIsLeftAlone
  <2>. QED
    BY <2>1, <2>2
<1>. QED
  BY <1>1, <1>2, <1>3, <1>4, <1>5, <1>6, <1>7 DEF IInv

(* The mutex released was the thread's own.                                *)
LEMMA ReturnStep ==
    ASSUME IInv, NEW t \in Threads, Return(t)
    PROVE  IInv'
<1>1. TypeOK'
  BY RegistryAssumption
     DEF IInv, Return, Goes, Release, TypeOK, Places, SessionIds
<1>2. MutexHeld'
  BY DEF IInv, Return, Goes, Release, TypeOK, Places, MutexHeld, Holding
<1>3. DestructionOwned'
  BY DEF IInv, Return, Goes, Release, TypeOK, Places, DestructionOwned,
         Destroying
<1>4. TeardownsCounted'
  BY DEF IInv, Return, Goes, Release, TypeOK, Places, TeardownsCounted
<1>5. IdsFresh'
  BY RegistryAssumption
     DEF IInv, Return, Goes, Release, TypeOK, Places, IdsFresh, SessionIds
<1>6. RegistryKept'
  BY DEF IInv, Return, Goes, Release, TypeOK, Places, RegistryKept
<1>7. PoisonedIsLeftAlone'
  BY DEF IInv, Return, Goes, Release, TypeOK, Places, PoisonedIsLeftAlone
<1>. QED
  BY <1>1, <1>2, <1>3, <1>4, <1>5, <1>6, <1>7 DEF IInv

(* So was the one poisoned, and no other thread is inside it.              *)
LEMMA PanicStep ==
    ASSUME IInv, NEW t \in Threads, Panic(t)
    PROVE  IInv'
<1>1. TypeOK'
  BY RegistryAssumption
     DEF IInv, Panic, Goes, Release, TypeOK, Places, SessionIds
<1>2. MutexHeld'
  BY DEF IInv, Panic, Goes, Release, TypeOK, Places, MutexHeld, Holding
<1>3. DestructionOwned'
  BY DEF IInv, Panic, Goes, Release, TypeOK, Places, DestructionOwned,
         Destroying
<1>4. TeardownsCounted'
  BY DEF IInv, Panic, Goes, Release, TypeOK, Places, TeardownsCounted
<1>5. IdsFresh'
  BY RegistryAssumption
     DEF IInv, Panic, Goes, Release, TypeOK, Places, IdsFresh, SessionIds
<1>6. RegistryKept'
  BY DEF IInv, Panic, Goes, Release, TypeOK, Places, RegistryKept
<1>7. PoisonedIsLeftAlone'
  BY DEF IInv, Panic, Goes, Release, TypeOK, Places, PoisonedIsLeftAlone,
         MutexHeld, Holding
<1>. QED
  BY <1>1, <1>2, <1>3, <1>4, <1>5, <1>6, <1>7 DEF IInv

(* The session was alive, so nobody else destroys it.                      *)
LEMMA BeginDestroyStep ==
    ASSUME IInv, NEW t \in Threads, NEW s \in SessionIds, BeginDestroy(t, s)
    PROVE  IInv'
<1>1. TypeOK'
  BY DEF IInv, BeginDestroy, Goes, TypeOK, Places, SessionIds
<1>2. MutexHeld'
  BY DEF IInv, BeginDestroy, Goes, TypeOK, Places, MutexHeld, Holding
<1>3. DestructionOwned'
  BY DEF IInv, BeginDestroy, Goes, TypeOK, Places, DestructionOwned,
         Destroying, TeardownsCounted
<1>4. TeardownsCounted'
  BY DEF IInv, BeginDestroy, Goes, TypeOK, Places, TeardownsCounted
<1>5. IdsFresh'
  BY DEF IInv, BeginDestroy, Goes, TypeOK, Places, IdsFresh, SessionIds
<1>6. RegistryKept'
  BY DEF IInv, BeginDestroy, Goes, TypeOK, Places, RegistryKept
<1>7. PoisonedIsLeftAlone'
  BY DEF IInv, BeginDestroy, Goes, TypeOK, Places, PoisonedIsLeftAlone
<1>. QED
  BY <1>1, <1>2, <1>3, <1>4, <1>5, <1>6, <1>7 DEF IInv

(* The session taken out is being destroyed and so not alive.              *)
LEMMA UnregisterStep ==
    ASSUME IInv, NEW t \in Threads, Unregister(t)
    PROVE  IInv'
<1>1. TypeOK'
  BY DEF IInv, Unregister, Goes, TypeOK, Places, SessionIds
<1>2. MutexHeld'
  BY DEF IInv, Unregister, Goes, TypeOK, Places, MutexHeld, Holding
<1>3. DestructionOwned'
  BY DEF IInv, Unregister, Goes, TypeOK, Places, DestructionOwned, Destroying
<1>4. TeardownsCounted'
  BY DEF IInv, Unregister, Goes, TypeOK, Places, TeardownsCounted
<1>5. IdsFresh'
  BY DEF IInv, Unregister, Goes, TypeOK, Places, IdsFresh, SessionIds
<1>6. RegistryKept'
  BY DEF IInv, Unregister, Goes, TypeOK, Places, RegistryKept,
         DestructionOwned, Destroying
<1>7. PoisonedIsLeftAlone'
  BY DEF IInv, Unregister, Goes, TypeOK, Places, PoisonedIsLeftAlone
<1>. QED
  BY <1>1, <1>2, <1>3, <1>4, <1>5, <1>6, <1>7 DEF IInv

(* As for a call, the mutex was free.                                      *)
LEMMA LockToTearDownStep ==
    ASSUME IInv, NEW t \in Threads, LockToTearDown(t)
    PROVE  IInv'
<1>1. TypeOK'
  <2>1. CASE of[t] \in poisoned
    BY <2>1
       DEF IInv, LockToTearDown, Goes, Lock, TypeOK, Places, SessionIds
  <2>2. CASE ~(of[t] \in poisoned)
    BY <2>2
       DEF IInv, LockToTearDown, Goes, Lock, TypeOK, Places, SessionIds
  <2>. QED
    BY <2>1, <2>2
<1>2. MutexHeld'
  <2>1. CASE of[t] \in poisoned
    BY <2>1
       DEF IInv, LockToTearDown, Goes, Lock, TypeOK, Places, MutexHeld, Holding
  <2>2. CASE ~(of[t] \in poisoned)
    BY <2>2
       DEF IInv, LockToTearDown, Goes, Lock, TypeOK, Places, MutexHeld, Holding
  <2>. QED
    BY <2>1, <2>2
<1>3. DestructionOwned'
  <2>1. CASE of[t] \in poisoned
    BY <2>1
       DEF IInv, LockToTearDown, Goes, Lock, TypeOK, Places, DestructionOwned,
           Destroying
  <2>2. CASE ~(of[t] \in poisoned)
    BY <2>2
       DEF IInv, LockToTearDown, Goes, Lock, TypeOK, Places, DestructionOwned,
           Destroying
  <2>. QED
    BY <2>1, <2>2
<1>4. TeardownsCounted'
  <2>1. CASE of[t] \in poisoned
    BY <2>1
       DEF IInv, LockToTearDown, Goes, Lock, TypeOK, Places, TeardownsCounted
  <2>2. CASE ~(of[t] \in poisoned)
    BY <2>2
       DEF IInv, LockToTearDown, Goes, Lock, TypeOK, Places, TeardownsCounted
  <2>. QED
    BY <2>1, <2>2
<1>5. IdsFresh'
  <2>1. CASE of[t] \in poisoned
    BY <2>1
       DEF IInv, LockToTearDown, Goes, Lock, TypeOK, Places, IdsFresh,
           SessionIds
  <2>2. CASE ~(of[t] \in poisoned)
    BY <2>2
       DEF IInv, LockToTearDown, Goes, Lock, TypeOK, Places, IdsFresh,
           SessionIds
  <2>. QED
    BY <2>1, <2>2
<1>6. RegistryKept'
  <2>1. CASE of[t] \in poisoned
    BY <2>1
       DEF IInv, LockToTearDown, Goes, Lock, TypeOK, Places, RegistryKept
  <2>2. CASE ~(of[t] \in poisoned)
    BY <2>2
       DEF IInv, LockToTearDown, Goes, Lock, TypeOK, Places, RegistryKept
  <2>. QED
    BY <2>1, <2>2
<1>7. PoisonedIsLeftAlone'
  <2>1. CASE of[t] \in poisoned
    BY <2>1
       DEF IInv, LockToTearDown, Goes, Lock, TypeOK, Places,
           PoisonedIsLeftAlone
  <2>2. CASE ~(of[t] \in poisoned)
    BY <2>2
       DEF IInv, LockToTearDown, Goes, Lock, TypeOK, Places,
           PoisonedIsLeftAlone
  <2>. QED
    BY <2>1, <2>2
<1>. QED
  BY <1>1, <1>2, <1>3, <1>4, <1>5, <1>6, <1>7 DEF IInv

(* The destroyer holds the mutex, so no operation is running.              *)
LEMMA TearDownStep ==
    ASSUME IInv, NEW t \in Threads, TearDown(t)
    PROVE  IInv'
<1>1. TypeOK'
  BY RegistryAssumption
     DEF IInv, TearDown, Goes, TypeOK, Places, SessionIds
<1>2. MutexHeld'
  BY DEF IInv, TearDown, Goes, TypeOK, Places, MutexHeld, Holding
<1>3. DestructionOwned'
  BY DEF IInv, TearDown, Goes, TypeOK, Places, DestructionOwned, Destroying
<1>4. TeardownsCounted'
  BY DEF IInv, TearDown, Goes, TypeOK, Places, TeardownsCounted,
         DestructionOwned, Destroying, MutexHeld, Holding
<1>5. IdsFresh'
  BY RegistryAssumption
     DEF IInv, TearDown, Goes, TypeOK, Places, IdsFresh, SessionIds
<1>6. RegistryKept'
  BY DEF IInv, TearDown, Goes, TypeOK, Places, RegistryKept
<1>7. PoisonedIsLeftAlone'
  BY DEF IInv, TearDown, Goes, TypeOK, Places, PoisonedIsLeftAlone
<1>. QED
  BY <1>1, <1>2, <1>3, <1>4, <1>5, <1>6, <1>7 DEF IInv

(* The destroyer has torn the session down once.                           *)
LEMMA MarkDestroyedStep ==
    ASSUME IInv, NEW t \in Threads, MarkDestroyed(t)
    PROVE  IInv'
<1>1. TypeOK'
  BY RegistryAssumption
     DEF IInv, MarkDestroyed, Goes, Release, TypeOK, Places, SessionIds
<1>2. MutexHeld'
  BY DEF IInv, MarkDestroyed, Goes, Release, TypeOK, Places, MutexHeld, Holding
<1>3. DestructionOwned'
  BY DEF IInv, MarkDestroyed, Goes, Release, TypeOK, Places, DestructionOwned,
         Destroying
<1>4. TeardownsCounted'
  BY DEF IInv, MarkDestroyed, Goes, Release, TypeOK, Places, TeardownsCounted,
         DestructionOwned, Destroying
<1>5. IdsFresh'
  BY RegistryAssumption
     DEF IInv, MarkDestroyed, Goes, Release, TypeOK, Places, IdsFresh,
         DestructionOwned, Destroying, SessionIds
<1>6. RegistryKept'
  BY DEF IInv, MarkDestroyed, Goes, Release, TypeOK, Places, RegistryKept,
         DestructionOwned, Destroying
<1>7. PoisonedIsLeftAlone'
  BY DEF IInv, MarkDestroyed, Goes, Release, TypeOK, Places,
         PoisonedIsLeftAlone
<1>. QED
  BY <1>1, <1>2, <1>3, <1>4, <1>5, <1>6, <1>7 DEF IInv

-----------------------------------------------------------------------------

(* Every step keeps the invariant.                                         *)
LEMMA NextIInv == IInv /\ [Next]_vars => IInv'
<1>1. CASE UNCHANGED vars
  BY <1>1 DEF vars, IInv, TypeOK, MutexHeld, DestructionOwned,
              TeardownsCounted, IdsFresh, RegistryKept, PoisonedIsLeftAlone
<1>2. CASE Next
  <2>. SUFFICES ASSUME IInv, NEW t \in Threads,
                       \/ TakeId(t)
                       \/ \E s \in SessionIds :
                             GetSession(t, s) \/ BeginDestroy(t, s)
                       \/ Continue(t)
                PROVE  IInv'
    BY <1>2 DEF Next
  <2>1. CASE TakeId(t)
    BY <2>1, TakeIdStep
  <2>2. CASE \E s \in SessionIds : GetSession(t, s) \/ BeginDestroy(t, s)
    BY <2>2, GetSessionStep, BeginDestroyStep
  <2>3. CASE Continue(t)
    BY <2>3, InsertStep, CheckStep, LockToCallStep, RecheckStep, ReturnStep,
       PanicStep, UnregisterStep, LockToTearDownStep, TearDownStep,
       MarkDestroyedStep DEF Continue
  <2>. QED
    BY <2>1, <2>2, <2>3
<1>. QED
  BY <1>1, <1>2

(* The inductive invariant holds in every reachable state.                 *)
THEOREM Invariance == Spec => []IInv
BY InitIInv, NextIInv, PTL DEF Spec

(* Types of the variables, for any number of threads and sessions.         *)
THEOREM TypeCorrect == Spec => []TypeOK
<1>1. IInv => TypeOK
  BY DEF IInv
<1>. QED
  BY <1>1, Invariance, PTL

(* with_alive: an operation runs alone, and never after or during the      *)
(* teardown of its session, whatever handles other threads kept.           *)
THEOREM OperationsPrecedeTeardown == Spec => []NoWorkAfterTeardown
<1>1. IInv => NoWorkAfterTeardown
  BY DEF IInv, TypeOK, MutexHeld, Holding, TeardownsCounted,
         NoWorkAfterTeardown
<1>. QED
  BY <1>1, Invariance, PTL

(* destroy_session: any number of destructions tear a session down once.   *)
THEOREM TeardownRunsOnce == Spec => []TornDownOnce
<1>1. IInv => TornDownOnce
  BY DEF IInv, TeardownsCounted, TornDownOnce
<1>. QED
  BY <1>1, Invariance, PTL

(* The registry shows exactly the alive sessions to whoever may look.      *)
THEOREM LookupsFindAlive == Spec => []RegistryHoldsAlive
<1>1. IInv => RegistryHoldsAlive
  BY DEF IInv, TypeOK, RegistryKept, RegistryHoldsAlive
<1>. QED
  BY <1>1, Invariance, PTL

(* A session left halfway by a panic is not entered again.                 *)
THEOREM PanicIsFinal == Spec => []PoisonedIsLeftAlone
<1>1. IInv => PoisonedIsLeftAlone
  BY DEF IInv
<1>. QED
  BY <1>1, Invariance, PTL

-----------------------------------------------------------------------------
(* The implementation of SessionLife.                                      *)

(* The images of the two variables of SessionLife.                         *)
Status ==
    [s \in SessionIds |->
        IF teardowns[s] > 0 THEN "closed"
        ELSE IF lifecycle[s] = "alive" THEN "open"
        ELSE IF lifecycle[s] = "absent" THEN "absent"
        ELSE "closing"]

Admitted ==
    [s \in SessionIds |-> {t \in Threads : at[t] = "working" /\ of[t] = s}]

Stutter == UNCHANGED <<Status, Admitted>>

(* A step that moves a thread, not into or out of an operation, admits and *)
(* dismisses nobody.                                                       *)
LEMMA AdmittedKept ==
    ASSUME TypeOK, NEW t \in Threads, at[t] # "working",
           NEW place \in Places \ {"working"},
           at' = [at EXCEPT ![t] = place],
           \A u \in Threads \ {t} : of'[u] = of[u]
    PROVE  Admitted' = Admitted
BY DEF TypeOK, Admitted

(* The status follows the lifecycle and the count of teardowns.            *)
LEMMA StatusKept ==
    ASSUME UNCHANGED <<lifecycle, teardowns>>
    PROVE  Status' = Status
BY DEF Status

(* Only the insertion, the two ends of an operation, the exchange of the   *)
(* lifecycle and the teardown move the session's life.                     *)
LEMMA SilentSteps ==
    ASSUME IInv, NEW t \in Threads,
           \/ TakeId(t)
           \/ \E s \in SessionIds : GetSession(t, s)
           \/ Check(t)
           \/ LockToCall(t)
           \/ Unregister(t)
           \/ LockToTearDown(t)
    PROVE  Stutter
<1>1. UNCHANGED <<lifecycle, teardowns>>
  BY DEF TakeId, GetSession, Check, LockToCall, Unregister, LockToTearDown
<1>2. /\ at[t] # "working"
      /\ \E place \in Places \ {"working"} : at' = [at EXCEPT ![t] = place]
  BY DEF TakeId, GetSession, Check, LockToCall, Unregister, LockToTearDown,
         Lock, Goes, Places
<1>3. \A u \in Threads \ {t} : of'[u] = of[u]
  BY DEF IInv, TypeOK, TakeId, GetSession, Check, LockToCall, Unregister,
         LockToTearDown
<1>. QED
  BY <1>1, <1>2, <1>3, AdmittedKept, StatusKept DEF IInv, Stutter

(* The session inserted was absent and opens.                              *)
LEMMA InsertOpens ==
    ASSUME IInv, NEW t \in Threads, Insert(t),
           NEW s \in SessionIds, of[t] = s
    PROVE  Life!Open(s)
<1>1. Admitted' = Admitted
  BY AdmittedKept DEF IInv, Insert, Goes, Places
<1>2. Status[s] = "absent"
  BY DEF IInv, TypeOK, Insert, Goes, IdsFresh, TeardownsCounted, Status
<1>3. Status' = [Status EXCEPT ![s] = "open"]
  BY <1>2 DEF IInv, TypeOK, Insert, Goes, IdsFresh, TeardownsCounted, Status
<1>. QED
  BY <1>1, <1>2, <1>3 DEF Life!Open, Life!Move, Status, Admitted

(* The exchange of the lifecycle closes an open session.                   *)
LEMMA BeginDestroyCloses ==
    ASSUME IInv, NEW t \in Threads, NEW s \in SessionIds, BeginDestroy(t, s)
    PROVE  Life!Close(s)
<1>1. Admitted' = Admitted
  BY AdmittedKept DEF IInv, TypeOK, BeginDestroy, Goes, Places
<1>2. Status[s] = "open"
  BY DEF IInv, TypeOK, BeginDestroy, TeardownsCounted, Status
<1>3. Status' = [Status EXCEPT ![s] = "closing"]
  BY <1>2 DEF IInv, TypeOK, BeginDestroy, TeardownsCounted, Status
<1>. QED
  BY <1>1, <1>2, <1>3 DEF Life!Close, Life!Move, Status, Admitted

(* The teardown finishes a closing session that nobody works on.           *)
LEMMA TearDownFinishes ==
    ASSUME IInv, NEW t \in Threads, TearDown(t),
           NEW s \in SessionIds, of[t] = s
    PROVE  Life!Finish(s)
<1>1. Admitted' = Admitted
  BY AdmittedKept DEF IInv, TearDown, Goes, Places
<1>2. lifecycle[s] = "destroying"
      /\ teardowns[s] = 0
  BY DEF IInv, TypeOK, TearDown, Goes, DestructionOwned, Destroying
<1>3. Admitted[s] = {}
  BY <1>2 DEF IInv, MutexHeld, Holding, TearDown, Goes, Admitted
<1>4. Status[s] = "closing"
  BY <1>2 DEF Status
<1>5. Status' = [Status EXCEPT ![s] = "closed"]
  <2>1. /\ teardowns'[s] = 1
        /\ \A r \in SessionIds \ {s} : teardowns'[r] = teardowns[r]
    BY <1>2 DEF IInv, TypeOK, TearDown
  <2>2. of' = of /\ lifecycle' = lifecycle
    BY DEF TearDown
  <2>3. \A r \in SessionIds :
            Status'[r] = IF r = s THEN "closed" ELSE Status[r]
    BY <1>2, <2>1, <2>2 DEF Status
  <2>. QED
    BY <2>3 DEF Status
<1>. QED
  BY <1>1, <1>3, <1>4, <1>5 DEF Life!Finish, Life!Move, Status, Admitted

(* The report of a destruction adds nothing to the teardown before it.     *)
LEMMA MarkDestroyedStutters ==
    ASSUME IInv, NEW t \in Threads, MarkDestroyed(t)
    PROVE  Stutter
<1>1. Admitted' = Admitted
  BY AdmittedKept DEF IInv, MarkDestroyed, Goes, Places
<1>2. of[t] \in SessionIds /\ teardowns[of[t]] = 1
  BY DEF IInv, TypeOK, MarkDestroyed, Goes, DestructionOwned, Destroying
<1>3. Status' = Status
  BY <1>2 DEF IInv, TypeOK, MarkDestroyed, Status
<1>. QED
  BY <1>1, <1>3 DEF Stutter

(* A call that finds the session alive under the lock is admitted.         *)
LEMMA RecheckAdmits ==
    ASSUME IInv, NEW t \in Threads, Recheck(t),
           NEW s \in SessionIds, of[t] = s
    PROVE  Life!Admit(s, t) \/ Stutter
<1>1. Status' = Status
  BY StatusKept DEF Recheck
<1>2. CASE lifecycle[s] = "alive"
  <2>1. Status[s] = "open"
    BY <1>2 DEF IInv, TypeOK, Recheck, TeardownsCounted, Status
  <2>2. Admitted[s] = {}
    BY <2>1 DEF IInv, MutexHeld, Holding, Recheck, Admitted
  <2>3. /\ of' = of
        /\ at'[t] = "working"
        /\ \A u \in Threads \ {t} : at'[u] = at[u]
    BY <1>2 DEF IInv, TypeOK, Recheck, Goes
  <2>4. /\ Admitted'[s] = {t}
        /\ \A r \in SessionIds \ {s} : Admitted'[r] = Admitted[r]
    BY <2>1, <2>2, <2>3 DEF Admitted
  <2>5. Admitted' = [Admitted EXCEPT ![s] = {t}]
    BY <2>4 DEF Admitted
  <2>. QED
    BY <1>1, <2>1, <2>2, <2>5 DEF Life!Admit, Status, Admitted
<1>3. CASE lifecycle[s] # "alive"
  BY <1>1, <1>3, AdmittedKept DEF IInv, Recheck, Goes, Places, Stutter
<1>. QED
  BY <1>2, <1>3

(* Returning and panicking leave the session.                              *)
LEMMA EndLeaves ==
    ASSUME IInv, NEW t \in Threads, Return(t) \/ Panic(t),
           NEW s \in SessionIds, of[t] = s
    PROVE  Life!Leave(s, t)
<1>1. Status' = Status
  BY StatusKept DEF Return, Panic
<1>2. at[t] = "working"
  BY DEF IInv, TypeOK, Return, Panic, Goes
<1>3. Admitted[s] = {t}
  BY <1>2 DEF IInv, MutexHeld, Holding, Admitted
<1>4. /\ of' = of
      /\ at'[t] = "idle"
      /\ \A u \in Threads \ {t} : at'[u] = at[u]
  BY DEF IInv, TypeOK, Return, Panic, Goes
<1>5. /\ Admitted'[s] = {}
      /\ \A r \in SessionIds \ {s} : Admitted'[r] = Admitted[r]
  BY <1>2, <1>3, <1>4 DEF Admitted
<1>6. Admitted' = [Admitted EXCEPT ![s] = {}]
  BY <1>5 DEF Admitted
<1>. QED
  BY <1>1, <1>3, <1>6 DEF Life!Leave, Status, Admitted

(* Every step of the registry is a step of SessionLife or changes nothing  *)
(* it can see.                                                             *)
LEMMA StepRefines ==
    ASSUME IInv, [Next]_vars
    PROVE  Life!Next \/ Stutter
<1>1. CASE UNCHANGED vars
  BY <1>1 DEF vars, Status, Admitted, Stutter
<1>2. ASSUME NEW t \in Threads, NEW s \in SessionIds, BeginDestroy(t, s)
      PROVE  Life!Next
  BY <1>2, BeginDestroyCloses DEF Life!Next
<1>3. ASSUME NEW t \in Threads, Continue(t)
      PROVE  Life!Next \/ Stutter
  <2>1. PICK s \in SessionIds : of[t] = s
    BY <1>3 DEF IInv, TypeOK, Continue, Insert, Check, LockToCall, Recheck,
                Return, Panic, Unregister, LockToTearDown, TearDown,
                MarkDestroyed, Lock, Goes
  <2>2. CASE Insert(t)
    <3>1. Life!Open(s)
      BY <2>1, <2>2, InsertOpens
    <3>. QED
      BY <2>1, <3>1 DEF Life!Next
  <2>3. CASE TearDown(t)
    <3>1. Life!Finish(s)
      BY <2>1, <2>3, TearDownFinishes
    <3>. QED
      BY <2>1, <3>1 DEF Life!Next
  <2>4. CASE Recheck(t)
    <3>1. Life!Admit(s, t) \/ Stutter
      BY <2>1, <2>4, RecheckAdmits
    <3>. QED
      BY <2>1, <3>1 DEF Life!Next
  <2>5. CASE Return(t) \/ Panic(t)
    <3>1. Life!Leave(s, t)
      BY <2>1, <2>5, EndLeaves
    <3>. QED
      BY <2>1, <3>1 DEF Life!Next
  <2>6. CASE \/ Check(t) \/ LockToCall(t) \/ Unregister(t)
             \/ LockToTearDown(t) \/ MarkDestroyed(t)
    BY <2>6, SilentSteps, MarkDestroyedStutters
  <2>. QED
    BY <1>3, <2>2, <2>3, <2>4, <2>5, <2>6 DEF Continue
<1>. QED
  BY <1>1, <1>2, <1>3, SilentSteps DEF Next

(* The registry implements SessionLife: sessions are called one thread at  *)
(* a time, close once and are torn down once, after the last admitted call.*)
THEOREM ImplementsLife == Spec => LifeSpec
<1>1. Init => Life!Init
  BY DEF Init, Life!Init
<1>2. IInv /\ [Next]_vars => [Life!Next]_<<Status, Admitted>>
  BY StepRefines DEF Stutter
<1>. QED
  BY <1>1, <1>2, Invariance, PTL
     DEF Spec, LifeSpec, Life!LSpec, Status, Admitted

-----------------------------------------------------------------------------
(* The ledger of native requests.  The invariant says of each ledger what  *)
(* it knows of the requests executed in its life: the high water is the    *)
(* last of them, they are in the order of their ids, and the window is     *)
(* their tail.                                                             *)

HighWaterIsLast(l, done) ==
    l.highWater = IF done = <<>> THEN NoRequest ELSE done[Len(done)].request

LedgerInv(l, done) ==
    /\ IsLedger(l)
    /\ done \in Seq(Entries)
    /\ HighWaterIsLast(l, done)
    /\ Ordered(done)
    /\ IsWindow(l, done)

LedgerIInv == LedgerTypeOK /\ \A o \in Owners : LedgerInv(ledgers[o], executed[o])

(* A ledger that has been emptied matches a binding that executed nothing.  *)
LEMMA EmptyIsSound == LedgerInv(EmptyLedger, <<>>)
  <1>1. IsLedger(EmptyLedger)
    BY DEF IsLedger, EmptyLedger, NoRequest
  <1>2. IsWindow(EmptyLedger, <<>>)
    BY LimitAssumption DEF IsWindow, EmptyLedger
  <1> QED
    BY <1>1, <1>2 DEF LedgerInv, HighWaterIsLast, Ordered, EmptyLedger

(* What is left of a sequence without its head.                             *)
LEMMA TailElements ==
    ASSUME NEW S, NEW s \in Seq(S), s # <<>>
    PROVE  /\ Tail(s) \in Seq(S)
           /\ Len(s) \in Nat /\ Len(Tail(s)) = Len(s) - 1
           /\ \A i \in 1..Len(Tail(s)) : i + 1 \in 1..Len(s) /\ Tail(s)[i] = s[i + 1]
           /\ Head(s) = s[1]
           /\ DOMAIN Tail(s) = 1..Len(Tail(s))
  OBVIOUS

(* What a binding executed is a sequence of requests with their outcomes.   *)
LEMMA EntryFields ==
    ASSUME NEW done \in Seq(Entries), NEW i \in 1..Len(done)
    PROVE  /\ done[i].request \in Requests /\ done[i].request \in Nat
           /\ done[i].outcome \in Outcomes
  <1>1. done[i] \in Entries
    OBVIOUS
  <1>2. done[i].request \in Requests /\ done[i].outcome \in Outcomes
    BY <1>1 DEF Entries
  <1> QED
    BY <1>2, RequestsAssumption

(* Every request a ledger knows is at or below its high water.              *)
LEMMA RetainedBelow ==
    ASSUME NEW l, NEW done, LedgerInv(l, done)
    PROVE  /\ \A i \in DOMAIN done : done[i].request <= l.highWater
           /\ l.highWater \in Int
  <1>1. l.highWater \in Int
    <2>1. l.highWater \in Requests \cup {NoRequest}
      BY DEF LedgerInv, IsLedger
    <2>2. NoRequest \in Int /\ \A r \in Requests : r \in Int
      BY RequestsAssumption DEF NoRequest
    <2> QED
      BY <2>1, <2>2
  <1>2. ASSUME NEW i \in DOMAIN done
        PROVE  done[i].request <= l.highWater
    <2>0. done \in Seq(Entries)
      BY DEF LedgerInv
    <2>1. /\ done # <<>> /\ i \in 1..Len(done) /\ Len(done) \in 1..Len(done)
          /\ \A k \in 1..Len(done) : done[k].request \in Nat
      BY <1>2, <2>0, EntryFields
    <2>2. l.highWater = done[Len(done)].request
      BY <2>1 DEF LedgerInv, HighWaterIsLast
    <2>3. i < Len(done) => done[i].request < done[Len(done)].request
      BY <2>1 DEF LedgerInv, Ordered
    <2> QED
      BY <2>1, <2>2, <2>3
  <1> QED
    BY <1>1, <1>2

(* Executing a request the ledger neither retains nor has passed, and       *)
(* retaining its outcome, keeps the invariant.                             *)
LEMMA RetainIsSound ==
    ASSUME NEW l, NEW done, NEW r \in Requests, NEW out \in Outcomes,
           LedgerInv(l, done), ~ Retained(l, r), ~ Expired(l, r)
    PROVE  LedgerInv(Retain(l, r, out), Append(done, [request |-> r, outcome |-> out]))
  <1> DEFINE entry == [request |-> r, outcome |-> out]
             next  == Append(done, entry)
             order == Append(l.order, r)
             recent == [q \in DOMAIN l.recent \cup {r} |-> IF q = r THEN out ELSE l.recent[q]]
             full  == Len(order) > CacheLimit
             m     == Retain(l, r, out)
  <1>1. /\ l.highWater \in Int /\ r \in Nat /\ l.highWater < r
        /\ \A i \in DOMAIN done : done[i].request <= l.highWater
    BY RetainedBelow, RequestsAssumption DEF Expired
  <1>2. /\ entry \in Entries
        /\ next \in Seq(Entries)
        /\ Len(next) = Len(done) + 1
        /\ next[Len(next)] = entry
        /\ \A i \in 1..Len(done) : next[i] = done[i]
    BY DEF LedgerInv, Entries
  <1>3. /\ order \in Seq(Requests)
        /\ Len(order) = Len(l.order) + 1
        /\ order[Len(order)] = r
        /\ \A i \in 1..Len(l.order) : order[i] = l.order[i]
    BY DEF LedgerInv, IsLedger
  <1>4. /\ m.highWater = r
        /\ m.order = IF full THEN Tail(order) ELSE order
        /\ m.recent = IF full THEN [q \in DOMAIN recent \ {Head(order)} |-> recent[q]]
                              ELSE recent
    BY <1>1 DEF Retain, Raise
  <1>5. Ordered(next)
    <2> SUFFICES ASSUME NEW i \in 1..Len(next), NEW j \in 1..Len(next), i < j
                 PROVE  next[i].request < next[j].request
      BY <1>2 DEF Ordered
    <2>1. CASE j = Len(next)
      <3>1. i \in 1..Len(done) /\ done \in Seq(Entries)
        BY <2>1, <1>2 DEF LedgerInv
      <3>2. next[i] = done[i] /\ done[i].request \in Nat /\ done[i].request <= l.highWater
        BY <3>1, <1>1, <1>2, EntryFields
      <3>3. next[j] = entry /\ entry.request = r
        BY <2>1, <1>2
      <3>4. done[i].request < r
        BY <3>2, <1>1
      <3> HIDE DEF next, entry
      <3> QED
        BY <3>2, <3>3, <3>4
    <2>2. CASE j # Len(next)
      <3>1. i \in 1..Len(done) /\ j \in 1..Len(done)
        BY <2>2, <1>2 DEF LedgerInv
      <3> QED
        BY <3>1, <1>2 DEF LedgerInv, Ordered
    <2> QED
      BY <2>1, <2>2
  <1>6. HighWaterIsLast(m, next)
    BY <1>2, <1>4 DEF HighWaterIsLast, LedgerInv
  <1>7. IsLedger(m) /\ IsWindow(m, next)
    <2> DEFINE from == Len(done) - Len(l.order)
    <2>1. /\ Len(l.order) = IF Len(done) < CacheLimit THEN Len(done) ELSE CacheLimit
          /\ DOMAIN l.recent = {l.order[i] : i \in 1..Len(l.order)}
          /\ \A i \in 1..Len(l.order) :
                /\ l.order[i] = done[from + i].request
                /\ l.recent[l.order[i]] = done[from + i].outcome
          /\ l.order \in Seq(Requests)
          /\ done \in Seq(Entries)
          /\ Len(l.order) \in Nat /\ Len(done) \in Nat
      BY DEF LedgerInv, IsLedger, IsWindow
    <2>2. /\ from \in Nat
          /\ \A i \in 1..Len(l.order) : from + i \in 1..Len(done)
      BY <2>1, LimitAssumption
    <2>3. \A i \in 1..Len(order) :
             /\ order[i] = next[from + i].request
             /\ recent[order[i]] = next[from + i].outcome
      <3> SUFFICES ASSUME NEW i \in 1..Len(order)
                   PROVE  /\ order[i] = next[from + i].request
                          /\ recent[order[i]] = next[from + i].outcome
        OBVIOUS
      <3>1. CASE i = Len(order)
        BY <3>1, <2>1, <1>2, <1>3
      <3>2. CASE i # Len(order)
        <4>1. i \in 1..Len(l.order) /\ from + i \in 1..Len(done)
          BY <3>2, <2>1, <2>2, <1>3
        <4>2. l.order[i] \in DOMAIN l.recent /\ l.order[i] # r
          BY <4>1, <2>1 DEF Retained
        <4> QED
          BY <4>1, <4>2, <2>1, <1>2, <1>3
      <3> QED
        BY <3>1, <3>2
    <2>4. DOMAIN recent = {order[i] : i \in 1..Len(order)}
      <3>1. \A i \in 1..Len(order) : order[i] \in DOMAIN l.recent \cup {r}
        <4> SUFFICES ASSUME NEW i \in 1..Len(order) PROVE order[i] \in DOMAIN l.recent \cup {r}
          OBVIOUS
        <4>1. i = Len(order) \/ i \in 1..Len(l.order)
          BY <2>1, <1>3
        <4> QED
          BY <4>1, <2>1, <1>3
      <3>2. ASSUME NEW q \in DOMAIN l.recent \cup {r}
            PROVE  \E i \in 1..Len(order) : order[i] = q
        <4>1. CASE q = r
          BY <4>1, <2>1, <1>3
        <4>2. CASE q \in DOMAIN l.recent
          <5>1. PICK i \in 1..Len(l.order) : l.order[i] = q
            BY <4>2, <2>1
          <5> QED
            BY <5>1, <2>1, <1>3
        <4> QED
          BY <4>1, <4>2
      <3> QED
        BY <3>1, <3>2
    <2>5. /\ \A q \in DOMAIN recent : recent[q] \in Outcomes
          /\ DOMAIN recent \subseteq Requests
      BY DEF LedgerInv, IsLedger
    <2>6. m.highWater \in Requests
      BY <1>4
    <2>7. CASE ~ full
      <3>1. m.order = order /\ m.recent = recent
        BY <2>7, <1>4
      <3>2. IsLedger(m)
        BY <3>1, <2>5, <2>6, <1>3 DEF IsLedger
      <3>3. /\ Len(order) = IF Len(next) < CacheLimit THEN Len(next) ELSE CacheLimit
            /\ Len(next) - Len(order) = from
        BY <2>7, <2>1, <1>2, <1>3, LimitAssumption
      <3>4. DOMAIN order = 1..Len(order)
        BY <1>3
      <3> HIDE DEF order, recent, next, m, from
      <3> QED
        BY <3>1, <3>2, <3>3, <3>4, <2>3, <2>4 DEF IsWindow
    <2>8. CASE full
      <3> DEFINE tail == Tail(order)
                 kept == [q \in DOMAIN recent \ {Head(order)} |-> recent[q]]
      <3>1. m.order = tail /\ m.recent = kept
        BY <2>8, <1>4
      <3>2. /\ tail \in Seq(Requests)
            /\ Len(tail) = Len(order) - 1
            /\ \A i \in 1..Len(tail) : i + 1 \in 1..Len(order) /\ tail[i] = order[i + 1]
            /\ Head(order) = order[1]
            /\ DOMAIN tail = 1..Len(tail)
        <4> HIDE DEF order
        <4>1. order # <<>>
          BY <1>3, <2>1
        <4> QED
          BY <4>1, <1>3, TailElements
      <3>3. /\ Len(tail) = IF Len(next) < CacheLimit THEN Len(next) ELSE CacheLimit
            /\ Len(next) - Len(tail) = from + 1
        <4>1. Len(order) > CacheLimit
          BY <2>8
        <4> HIDE DEF order, next, tail
        <4> QED
          BY <4>1, <2>1, <1>2, <1>3, <3>2, LimitAssumption
      <3>4. \A i \in 1..Len(tail) : tail[i] # Head(order)
        <4> SUFFICES ASSUME NEW i \in 1..Len(tail) PROVE tail[i] # Head(order)
          OBVIOUS
        <4>1. /\ from + 1 \in 1..Len(next) /\ from + (i + 1) \in 1..Len(next)
              /\ from + 1 < from + (i + 1)
              /\ i + 1 \in 1..Len(order) /\ 1 \in 1..Len(order)
          <5> HIDE DEF order, next, tail, from
          <5>1. /\ i + 1 \in 1..Len(order) /\ 1 \in 1..Len(order) /\ 1 < i + 1
                /\ Len(order) \in Nat
            BY <3>2, <1>3, <2>1
          <5>2. from \in Nat /\ Len(next) = from + Len(order)
            BY <2>1, <2>2, <1>2, <1>3 DEF from
          <5> QED
            BY <5>1, <5>2
        <4>2. DOMAIN next = 1..Len(next)
          BY <1>2
        <4> HIDE DEF order, recent, next, m, from, tail, kept
        <4>3. next[from + 1].request < next[from + (i + 1)].request
          BY <4>1, <4>2, <1>5 DEF Ordered
        <4>4. next[from + 1].request \in Nat
          BY <4>1, <1>2, EntryFields
        <4>5. order[1] = next[from + 1].request /\ order[i + 1] = next[from + (i + 1)].request
          BY <4>1, <2>3
        <4>6. tail[i] = order[i + 1] /\ Head(order) = order[1]
          BY <3>2
        <4>7. next[from + (i + 1)].request \in Nat
          BY <4>1, <1>2, EntryFields
        <4> QED
          BY <4>3, <4>4, <4>5, <4>6, <4>7
      <3>5. DOMAIN kept = {tail[i] : i \in 1..Len(tail)}
        <4>1. DOMAIN kept = DOMAIN recent \ {order[1]}
          BY <3>2
        <4> HIDE DEF order, recent, next, m, from, tail, kept
        <4>2. ASSUME NEW i \in 1..Len(tail) PROVE tail[i] \in DOMAIN recent \ {order[1]}
          BY <4>2, <3>2, <3>4, <2>4
        <4>3. ASSUME NEW q \in DOMAIN recent \ {order[1]}
              PROVE  \E i \in 1..Len(tail) : tail[i] = q
          <5>1. PICK k \in 1..Len(order) : order[k] = q
            BY <4>3, <2>4
          <5>2. k # 1 /\ k - 1 \in 1..Len(tail) /\ (k - 1) + 1 = k /\ Len(order) \in Nat
            BY <5>1, <4>3, <3>2, <1>3
          <5> QED
            BY <5>1, <5>2, <3>2
        <4> QED
          BY <4>1, <4>2, <4>3
      <3>6. \A i \in 1..Len(tail) :
               /\ tail[i] = next[(from + 1) + i].request
               /\ kept[tail[i]] = next[(from + 1) + i].outcome
        <4> SUFFICES ASSUME NEW i \in 1..Len(tail)
                     PROVE  /\ tail[i] = next[(from + 1) + i].request
                            /\ kept[tail[i]] = next[(from + 1) + i].outcome
          OBVIOUS
        <4>1. (from + 1) + i = from + (i + 1)
          BY <2>2
        <4>2. tail[i] \in DOMAIN kept
          BY <3>5
        <4>3. kept[tail[i]] = recent[tail[i]]
          BY <4>2
        <4> HIDE DEF order, recent, next, m, from, tail, kept
        <4> QED
          BY <4>1, <4>3, <3>2, <2>3
      <3>7. IsLedger(m)
        <4>1. DOMAIN kept \subseteq Requests /\ \A q \in DOMAIN kept : kept[q] \in Outcomes
          BY <2>5
        <4> HIDE DEF order, recent, next, m, from, tail, kept
        <4> QED
          BY <4>1, <3>1, <3>2, <2>6 DEF IsLedger
      <3> HIDE DEF order, recent, next, m, from, tail, kept
      <3> QED
        <4>1. Len(m.order) = IF Len(next) < CacheLimit THEN Len(next) ELSE CacheLimit
          BY <3>1, <3>3
        <4>2. DOMAIN m.recent = {m.order[i] : i \in DOMAIN m.order}
          BY <3>1, <3>2, <3>5
        <4>3. \A i \in DOMAIN m.order :
                 /\ m.order[i] = next[(Len(next) - Len(m.order)) + i].request
                 /\ m.recent[m.order[i]] = next[(Len(next) - Len(m.order)) + i].outcome
          <5>1. Len(next) - Len(m.order) = from + 1 /\ DOMAIN m.order = 1..Len(tail)
            BY <3>1, <3>2, <3>3
          <5> QED
            BY <5>1, <3>1, <3>6
        <4> QED
          BY <3>7, <4>1, <4>2, <4>3 DEF IsWindow
    <2> QED
      BY <2>7, <2>8
  <1> HIDE DEF next, m
  <1>8. LedgerInv(m, next)
    BY <1>2, <1>5, <1>6, <1>7 DEF LedgerInv
  <1> QED
    BY <1>8 DEF next, m

(* The invariant holds of a session that has executed nothing.              *)
LEMMA LedgerInitIInv == LedgerInit => LedgerIInv
  <1> SUFFICES ASSUME LedgerInit PROVE LedgerIInv
    OBVIOUS
  <1>1. LedgerTypeOK
    <2>1. \A o \in Owners : IsLedger(ledgers[o])
      BY EmptyIsSound DEF LedgerInit, LedgerInv
    <2>2. executed \in [Owners -> Seq(Entries)]
      BY DEF LedgerInit
    <2>3. revision \in Revisions /\ answer \in Answers /\ DOMAIN ledgers = Owners
      BY RevisionAssumption DEF LedgerInit, Revisions, Answers
    <2> QED
      BY <2>1, <2>2, <2>3 DEF LedgerTypeOK
  <1>2. \A o \in Owners : LedgerInv(ledgers[o], executed[o])
    BY EmptyIsSound DEF LedgerInit
  <1> QED
    BY <1>1, <1>2 DEF LedgerIInv

(* A retained request is answered with an outcome of the right type, and it *)
(* is the outcome of its execution.                                        *)
LEMMA RetainedIsExecuted ==
    ASSUME NEW l, NEW done, NEW r \in Requests, LedgerInv(l, done), Retained(l, r)
    PROVE  /\ l.recent[r] \in Outcomes
           /\ \E i \in DOMAIN done : done[i] = [request |-> r, outcome |-> l.recent[r]]
  <1>1. l.recent[r] \in Outcomes
    BY DEF LedgerInv, IsLedger, Retained
  <1>2. /\ l.order \in Seq(Requests) /\ done \in Seq(Entries)
        /\ DOMAIN l.order = 1..Len(l.order) /\ DOMAIN done = 1..Len(done)
        /\ Len(l.order) \in Nat /\ Len(done) \in Nat
    BY DEF LedgerInv, IsLedger
  <1> DEFINE from == Len(done) - Len(l.order)
  <1>3. PICK i \in 1..Len(l.order) : l.order[i] = r
    BY <1>2 DEF LedgerInv, IsWindow, Retained
  <1>4. from + i \in 1..Len(done)
    BY <1>2, <1>3, LimitAssumption DEF LedgerInv, IsWindow
  <1>5. done[from + i].request = r /\ done[from + i].outcome = l.recent[r]
    BY <1>2, <1>3 DEF LedgerInv, IsWindow
  <1>6. done[from + i] \in Entries
    <2> HIDE DEF from
    <2> QED
      BY <1>2, <1>4
  <1>7. done[from + i] = [request |-> r, outcome |-> l.recent[r]]
    BY <1>5, <1>6 DEF Entries
  <1> QED
    BY <1>1, <1>2, <1>4, <1>7

(* Every submission, release and change by others keeps the invariant.      *)
LEMMA LedgerNextIInv == LedgerIInv /\ [LedgerNext]_ledgerVars => LedgerIInv'
  <1> SUFFICES ASSUME LedgerIInv, [LedgerNext]_ledgerVars PROVE LedgerIInv'
    OBVIOUS
  <1> USE DEF LedgerIInv, LedgerTypeOK
  <1>1. ASSUME NEW o \in Owners, NEW r \in Requests, Replay(o, r)
        PROVE  LedgerIInv'
    <2>1. ledgers[o].recent[r] \in Outcomes
      BY <1>1, RetainedIsExecuted DEF Replay
    <2>2. answer' \in Answers
      BY <1>1, <2>1 DEF Replay, Answers, Outcome
    <2> QED
      BY <1>1, <2>2 DEF Replay
  <1>2. ASSUME NEW o \in Owners, NEW r \in Requests, Expire(o, r) \/ Refuse(o, r)
        PROVE  LedgerIInv'
    <2>1. answer' \in Answers
      BY <1>2 DEF Expire, Refuse, Answers, Fails
    <2> QED
      BY <1>2, <2>1 DEF Expire, Refuse
  <1>3. ASSUME NEW o \in Owners, NEW r \in Requests, NEW moved \in BOOLEAN,
               Execute(o, r, moved)
        PROVE  LedgerIInv'
    <2> DEFINE out == [revision |-> IF moved THEN revision + 1 ELSE revision,
                       documentChanged |-> moved]
               entry == [request |-> r, outcome |-> out]
    <2>1. out \in Outcomes /\ revision' \in Revisions
      BY <1>3, RevisionAssumption DEF Execute, Outcomes, Revisions
    <2>2. /\ ledgers' = [ledgers EXCEPT ![o] = Retain(@, r, out)]
          /\ executed' = [executed EXCEPT ![o] = Append(@, entry)]
          /\ ~ Retained(ledgers[o], r) /\ ~ Expired(ledgers[o], r)
          /\ answer' = Outcome(o, r, out) \/ answer' = Fails(o, r)
      BY <1>3 DEF Execute
    <2> HIDE DEF out
    <2>3. LedgerInv(Retain(ledgers[o], r, out), Append(executed[o], entry))
      BY <2>1, <2>2, RetainIsSound
    <2>4. answer' \in Answers
      BY <2>1, <2>2 DEF Answers, Outcome, Fails
    <2>5. entry \in Entries
      BY <2>1 DEF Entries
    <2>6. executed' \in [Owners -> Seq(Entries)] /\ DOMAIN ledgers' = Owners
      BY <2>2, <2>5
    <2>7. ASSUME NEW p \in Owners PROVE LedgerInv(ledgers'[p], executed'[p])
      <3>1. CASE p = o
        <4>1. executed'[o] = Append(executed[o], entry)
          BY <2>2
        <4> QED
          BY <3>1, <2>2, <2>3, <4>1
      <3>2. CASE p # o
        BY <3>2, <2>2
      <3> QED
        BY <3>1, <3>2
    <2> QED
      BY <2>1, <2>4, <2>6, <2>7 DEF LedgerInv
  <1>4. ASSUME NEW o \in Owners, ReleaseBinding(o)
        PROVE  LedgerIInv'
    <2>1. /\ DOMAIN ledgers' = Owners
          /\ executed' \in [Owners -> Seq(Entries)]
      BY <1>4 DEF ReleaseBinding
    <2>2. ASSUME NEW p \in Owners PROVE LedgerInv(ledgers'[p], executed'[p])
      <3>1. CASE p = o
        <4>1. ledgers'[o] = EmptyLedger /\ executed'[o] = <<>>
          BY <1>4 DEF ReleaseBinding
        <4> QED
          BY <3>1, <4>1, EmptyIsSound
      <3>2. CASE p # o
        BY <1>4, <3>2 DEF ReleaseBinding
      <3> QED
        BY <3>1, <3>2
    <2> QED
      BY <1>4, <2>1, <2>2 DEF ReleaseBinding, LedgerInv
  <1>5. CASE OthersCommit
    BY <1>5, RevisionAssumption DEF OthersCommit, Revisions
  <1>6. CASE UNCHANGED ledgerVars
    BY <1>6 DEF ledgerVars
  <1> QED
    BY <1>1, <1>2, <1>3, <1>4, <1>5, <1>6 DEF LedgerNext, Submit

(* The invariant holds in every reachable state.                            *)
THEOREM LedgerInvariance == LedgerSpec => []LedgerIInv
  BY LedgerInitIInv, LedgerNextIInv, PTL DEF LedgerSpec

(* The ledgers, the executed requests and the answers keep their types.     *)
THEOREM LedgerTypeCorrect == LedgerSpec => []LedgerTypeOK
  BY LedgerInvariance, PTL DEF LedgerIInv

(* A binding executes its requests in the order of their ids and none       *)
(* twice.                                                                  *)
THEOREM ExecutesOnceInOrder == LedgerSpec => []ExecutedInOrder
  <1>1. LedgerIInv => ExecutedInOrder
    BY DEF LedgerIInv, LedgerInv, ExecutedInOrder
  <1> QED
    BY <1>1, LedgerInvariance, PTL

(* What a ledger retains is what the binding's last requests did.           *)
THEOREM RetainsTheLatest == LedgerSpec => []WindowIsLatest
  <1>1. LedgerIInv => WindowIsLatest
    BY DEF LedgerIInv, LedgerInv, WindowIsLatest
  <1> QED
    BY <1>1, LedgerInvariance, PTL

(* LedgerIsFaithful: whatever is repeated, late, failed or released between *)
(* them, a binding's requests take effect in the order of their ids, none   *)
(* twice, and its window tells what the latest of them did.                 *)
THEOREM LedgerStands == LedgerSpec => []LedgerIsFaithful
  <1>1. LedgerTypeOK /\ ExecutedInOrder /\ WindowIsLatest => LedgerIsFaithful
    BY DEF LedgerIsFaithful
  <1> QED
    BY <1>1, LedgerTypeCorrect, ExecutesOnceInOrder, RetainsTheLatest, PTL

AnswerIsTheirs ==
    (answer' # answer /\ answer'.kind = "outcome") =>
        \E i \in DOMAIN executed'[answer'.owner] :
            executed'[answer'.owner][i] =
                [request |-> answer'.request, outcome |-> answer'.outcome]

(* An outcome a view is told is what its own request did.                   *)
THEOREM AnswersMatch == LedgerSpec => AnswersAreTheirs
  <1>1. LedgerIInv /\ [LedgerNext]_ledgerVars => [AnswerIsTheirs]_ledgerVars
    <2> SUFFICES ASSUME LedgerIInv, LedgerNext, answer' # answer, answer'.kind = "outcome"
                 PROVE  \E i \in DOMAIN executed'[answer'.owner] :
                            executed'[answer'.owner][i] =
                                [request |-> answer'.request, outcome |-> answer'.outcome]
      BY DEF AnswerIsTheirs
    <2>1. ASSUME NEW o \in Owners, NEW r \in Requests, Replay(o, r)
          PROVE  \E i \in DOMAIN executed'[answer'.owner] :
                     executed'[answer'.owner][i] =
                         [request |-> answer'.request, outcome |-> answer'.outcome]
      <3>1. /\ answer'.owner = o /\ answer'.request = r
            /\ answer'.outcome = ledgers[o].recent[r]
            /\ executed' = executed
        BY <2>1 DEF Replay, Outcome
      <3>2. \E i \in DOMAIN executed[o] :
               executed[o][i] = [request |-> r, outcome |-> ledgers[o].recent[r]]
        BY <2>1, RetainedIsExecuted DEF Replay, LedgerIInv
      <3> QED
        BY <3>1, <3>2
    <2>2. ASSUME NEW o \in Owners, NEW r \in Requests, Expire(o, r) \/ Refuse(o, r)
          PROVE  FALSE
      BY <2>2 DEF Expire, Refuse, Fails
    <2>3. ASSUME NEW o \in Owners, NEW r \in Requests, NEW moved \in BOOLEAN,
                 Execute(o, r, moved)
          PROVE  \E i \in DOMAIN executed'[answer'.owner] :
                     executed'[answer'.owner][i] =
                         [request |-> answer'.request, outcome |-> answer'.outcome]
      <3> DEFINE out == [revision |-> IF moved THEN revision + 1 ELSE revision,
                         documentChanged |-> moved]
                 entry == [request |-> r, outcome |-> out]
      <3>1. /\ executed' = [executed EXCEPT ![o] = Append(@, entry)]
            /\ answer' = Outcome(o, r, out) \/ answer' = Fails(o, r)
        BY <2>3 DEF Execute
      <3>2. answer' = Outcome(o, r, out)
        BY <3>1 DEF Fails
      <3> HIDE DEF out
      <3>3. /\ answer'.owner = o
            /\ [request |-> answer'.request, outcome |-> answer'.outcome] = entry
        BY <3>2 DEF Outcome
      <3>4. executed[o] \in Seq(Entries) /\ executed'[o] = Append(executed[o], entry)
        BY <3>1 DEF LedgerIInv, LedgerTypeOK
      <3> DEFINE n == Len(executed[o]) + 1
      <3> HIDE DEF entry
      <3>5. n \in DOMAIN executed'[o] /\ executed'[o][n] = entry
        BY <3>4
      <3> QED
        BY <3>3, <3>5
    <2>4. ASSUME NEW o \in Owners, ReleaseBinding(o) PROVE FALSE
      BY <2>4 DEF ReleaseBinding
    <2>5. CASE OthersCommit
      BY <2>5 DEF OthersCommit
    <2> QED
      BY <2>1, <2>2, <2>3, <2>4, <2>5 DEF LedgerNext, Submit
  <1>2. [][AnswerIsTheirs]_ledgerVars <=> AnswersAreTheirs
    BY DEF AnswersAreTheirs, AnswerIsTheirs
  <1> QED
    BY <1>1, <1>2, LedgerInvariance, PTL DEF LedgerSpec

-----------------------------------------------------------------------------
(* The anchors of a paragraph.  The invariant says that runs follow one    *)
(* another, that each stands for boundaries as they were given, and that a *)
(* boundary no run covers is kept.                                         *)

(* A run stands for boundaries of the given ones, the first n, and for     *)
(* each of them as it was given.                                           *)
RunStands(run, given, n) ==
    /\ run \in CharacterRuns
    /\ run.count >= 1 /\ run.following.clock >= 1 /\ LastClock(run) <= MaxClock
    /\ run.first + BoundarySpan(run) <= n
    /\ \A o \in 0 .. BoundarySpan(run) - 1 :
          RunAnchors(run, o) = given[run.first + o + 1]

RunEnd(run) == run.first + BoundarySpan(run)

(* The runs follow one another.                                            *)
RunsApart(made) ==
    \A r, s \in 1 .. Len(made) : r < s => RunEnd(made[r]) <= made[s].first

Covers(made, b) ==
    \E r \in 1 .. Len(made) : made[r].first <= b /\ b < RunEnd(made[r])

(* A boundary no run covers is kept as it was given.                       *)
EachIsKept(made, kept, given, n) ==
    \A b \in 0 .. n - 1 :
        Covers(made, b) \/ (b \in DOMAIN kept /\ kept[b] = given[b + 1])

RunsIInv ==
    /\ anchors \in Seq(Boundaries)
    /\ index \in 0 .. Len(anchors)
    /\ runs \in Seq(CharacterRuns)
    /\ \A r \in 1 .. Len(runs) : RunStands(runs[r], anchors, index)
    /\ RunsApart(runs)
    /\ DOMAIN explicit \subseteq Nat
    /\ \A e \in DOMAIN explicit : explicit[e] \in Boundaries
    /\ EachIsKept(runs, explicit, anchors, index)

-----------------------------------------------------------------------------

(* What a run is made of.                                                  *)
LEMMA RunFields ==
    ASSUME NEW run \in CharacterRuns
    PROVE  /\ run.first \in Nat /\ run.count \in Nat /\ run.trailing \in BOOLEAN
           /\ run.following \in Ids /\ run.following.clock \in Nat
           /\ run.following.client \in Clients
           /\ BoundarySpan(run) \in Nat /\ RunEnd(run) \in Nat
           /\ LastClock(run) \in Int
<1>1. /\ run.first \in Nat /\ run.count \in Nat /\ run.trailing \in BOOLEAN
      /\ run.following \in Ids
    BY DEF CharacterRuns
<1>2. run.following.clock \in Nat /\ run.following.client \in Clients
    BY <1>1, RunsAssumption DEF Ids
<1>3. BoundarySpan(run) \in Nat
    BY <1>1 DEF BoundarySpan
<1>  QED  BY <1>1, <1>2, <1>3 DEF RunEnd, LastClock

(* A boundary between successive characters is what a run stands for.      *)
LEMMA SuccessiveAre ==
    ASSUME NEW b \in Boundaries, b.shared, BetweenSuccessive(b)
    PROVE  /\ b.after.id \in Ids /\ b.after.id.clock \in 1 .. MaxClock
           /\ b.after.id.client \in Clients
           /\ b = [before |-> Sticky(b.after.id.client, b.after.id.clock - 1,
                                     "Before"),
                   after  |-> Sticky(b.after.id.client, b.after.id.clock,
                                     "After"),
                   shared |-> TRUE]
<1>1. b.after \in Stickies /\ b.shared = TRUE
    BY DEF Boundaries
<1>2. b.after.id \in Ids
    BY <1>1 DEF Stickies
<1>3. /\ b.after.id.clock \in 1 .. MaxClock /\ b.after.id.client \in Clients
    BY <1>2, RunsAssumption DEF Ids, BetweenSuccessive
<1>4. b.after.id = [client |-> b.after.id.client, clock |-> b.after.id.clock]
    BY <1>2 DEF Ids
<1>5. b.after = Sticky(b.after.id.client, b.after.id.clock, "After")
    BY <1>1, <1>4 DEF Stickies, Sticky, BetweenSuccessive
<1>6. b.before = Sticky(b.after.id.client, b.after.id.clock - 1, "Before")
    BY DEF BetweenSuccessive
<1>7. b = [before |-> b.before, after |-> b.after, shared |-> b.shared]
    BY DEF Boundaries
<1>  QED  BY <1>1, <1>2, <1>3, <1>5, <1>6, <1>7

(* No boundary was processed.                                              *)
LEMMA RunsInitIInv == RunsInit => RunsIInv
<1>  SUFFICES ASSUME RunsInit PROVE RunsIInv
    OBVIOUS
<1>1. PICK n \in 0 .. MaxBoundaries : anchors \in [1 .. n -> Given]
    BY DEF RunsInit
<1>2. anchors \in Seq(Boundaries) /\ Len(anchors) \in Nat
    BY <1>1, RunsAssumption
<1>  QED  BY <1>2 DEF RunsInit, RunsIInv, RunsApart, EachIsKept

(* A run stands still when more boundaries are processed.                  *)
LEMMA RunStandsLater ==
    ASSUME NEW run, NEW given, NEW n \in Int, NEW m \in Int, n <= m,
           RunStands(run, given, n)
    PROVE  RunStands(run, given, m)
<1>1. run.first + BoundarySpan(run) \in Int
    BY RunFields DEF RunStands, RunEnd
<1>  QED  BY <1>1 DEF RunStands

(* The last run, extended by the boundary after it.                        *)
LEMMA LastRunGrows ==
    ASSUME RunsIInv, index < Len(anchors), index' = index + 1,
           UNCHANGED <<anchors, explicit>>, runs # << >>,
           NEW run, run.first = LastRun.first,
           runs' = [runs EXCEPT ![Len(runs)] = run],
           RunStands(run, anchors, index + 1),
           RunEnd(LastRun) = index, RunEnd(run) = index + 1
    PROVE  RunsIInv'
<1>  DEFINE n == Len(runs)
            made == runs'
<1>1. /\ anchors \in Seq(Boundaries) /\ index \in Nat /\ Len(anchors) \in Nat
      /\ runs \in Seq(CharacterRuns) /\ n \in Nat /\ n >= 1
      /\ n \in 1 .. n
    BY DEF RunsIInv
<1>2. run \in CharacterRuns
    BY DEF RunStands
<1>3. /\ made \in Seq(CharacterRuns) /\ Len(made) = n
      /\ made[n] = run
      /\ \A r \in 1 .. n : r # n => made[r] = runs[r]
    BY <1>1, <1>2
<1>  HIDE DEF made
<1>4. /\ \A r \in 1 .. n : made[r].first = runs[r].first
      /\ \A r \in 1 .. n : r # n => RunEnd(made[r]) = RunEnd(runs[r])
    BY <1>1, <1>3 DEF LastRun
<1>5. \A r \in 1 .. n : RunStands(made[r], anchors, index + 1)
  <2>1. SUFFICES ASSUME NEW r \in 1 .. n, r # n
                 PROVE  RunStands(made[r], anchors, index + 1)
      BY <1>3
  <2>2. RunStands(runs[r], anchors, index)
      BY <2>1 DEF RunsIInv
  <2>  QED  BY <1>1, <1>3, <2>1, <2>2, RunStandsLater
<1>6. RunsApart(made)
  <2>1. SUFFICES ASSUME NEW r \in 1 .. n, NEW s \in 1 .. n, r < s
                 PROVE  RunEnd(made[r]) <= made[s].first
      BY <1>3 DEF RunsApart
  <2>2. r # n
      BY <1>1, <2>1
  <2>3. RunEnd(runs[r]) <= runs[s].first
      BY <2>1 DEF RunsIInv, RunsApart
  <2>  QED  BY <1>4, <2>1, <2>2, <2>3
<1>7. \A b \in 0 .. index - 1 : Covers(runs, b) => Covers(made, b)
  <2>1. SUFFICES ASSUME NEW b \in 0 .. index - 1,
                        NEW r \in 1 .. n, runs[r].first <= b, b < RunEnd(runs[r])
                 PROVE  made[r].first <= b /\ b < RunEnd(made[r])
      BY <1>3 DEF Covers
  <2>2. CASE r = n
      BY <1>1, <1>3, <1>4, <2>1, <2>2
  <2>3. CASE r # n
      BY <1>4, <2>1, <2>3
  <2>  QED  BY <2>2, <2>3
<1>8. Covers(made, index)
  <2>1. RunStands(runs[n], anchors, index)
      BY <1>1 DEF RunsIInv
  <2>2. runs[n].first <= index
    <3>1. /\ runs[n] \in CharacterRuns
          /\ runs[n].first + BoundarySpan(runs[n]) <= index
        BY <2>1 DEF RunStands
    <3>2. runs[n].first \in Nat /\ BoundarySpan(runs[n]) \in Nat
        BY <3>1, RunFields
    <3>  QED  BY <1>1, <3>1, <3>2
  <2>  QED  BY <1>1, <1>3, <1>4, <2>2 DEF Covers
<1>9. EachIsKept(made, explicit, anchors, index + 1)
  <2>1. SUFFICES ASSUME NEW b \in 0 .. index
                 PROVE  \/ Covers(made, b)
                        \/ b \in DOMAIN explicit /\ explicit[b] = anchors[b + 1]
      BY <1>1 DEF EachIsKept
  <2>2. CASE b = index
      BY <1>8, <2>2
  <2>3. CASE b \in 0 .. index - 1
      BY <1>7, <2>3 DEF RunsIInv, EachIsKept
  <2>  QED  BY <1>1, <2>2, <2>3
<1>  QED  BY <1>1, <1>3, <1>5, <1>6, <1>9 DEF RunsIInv, made

(* The runs, with one more that stands for the boundary.                   *)
LEMMA RunIsAdded ==
    ASSUME RunsIInv, index < Len(anchors), index' = index + 1,
           UNCHANGED <<anchors, explicit>>,
           NEW run, runs' = Append(runs, run),
           RunStands(run, anchors, index + 1),
           run.first = index, RunEnd(run) = index + 1
    PROVE  RunsIInv'
<1>  DEFINE n == Len(runs)
            made == runs'
<1>1. /\ anchors \in Seq(Boundaries) /\ index \in Nat /\ Len(anchors) \in Nat
      /\ runs \in Seq(CharacterRuns) /\ n \in Nat
    BY DEF RunsIInv
<1>2. run \in CharacterRuns
    BY DEF RunStands
<1>3. /\ made \in Seq(CharacterRuns) /\ Len(made) = n + 1
      /\ made[n + 1] = run
      /\ \A r \in 1 .. n : made[r] = runs[r]
    BY <1>1, <1>2
<1>  HIDE DEF made
<1>4. \A r \in 1 .. n + 1 : r = n + 1 \/ r \in 1 .. n
    BY <1>1
<1>5. \A r \in 1 .. n + 1 : RunStands(made[r], anchors, index + 1)
  <2>1. SUFFICES ASSUME NEW r \in 1 .. n
                 PROVE  RunStands(made[r], anchors, index + 1)
      BY <1>3, <1>4
  <2>2. RunStands(runs[r], anchors, index)
      BY <2>1 DEF RunsIInv
  <2>  QED  BY <1>1, <1>3, <2>2, RunStandsLater
<1>6. RunsApart(made)
  <2>1. SUFFICES ASSUME NEW r \in 1 .. n + 1, NEW s \in 1 .. n + 1, r < s
                 PROVE  RunEnd(made[r]) <= made[s].first
      BY <1>3 DEF RunsApart
  <2>2. r \in 1 .. n
      BY <1>1, <2>1
  <2>3. CASE s = n + 1
    <3>1. RunStands(runs[r], anchors, index)
        BY <2>2 DEF RunsIInv
    <3>  QED  BY <1>3, <2>2, <2>3, <3>1 DEF RunStands, RunEnd
  <2>4. CASE s \in 1 .. n
      BY <1>3, <2>1, <2>2, <2>4 DEF RunsIInv, RunsApart
  <2>  QED  BY <1>4, <2>3, <2>4
<1>7. \A b \in 0 .. index - 1 : Covers(runs, b) => Covers(made, b)
  <2>1. SUFFICES ASSUME NEW b \in 0 .. index - 1,
                        NEW r \in 1 .. n, runs[r].first <= b, b < RunEnd(runs[r])
                 PROVE  /\ r \in 1 .. Len(made)
                        /\ made[r].first <= b /\ b < RunEnd(made[r])
      BY DEF Covers
  <2>  QED  BY <1>1, <1>3, <2>1
<1>8. Covers(made, index)
  <2>1. n + 1 \in 1 .. Len(made)
      BY <1>1, <1>3
  <2>  QED  BY <1>1, <1>3, <2>1 DEF Covers
<1>9. EachIsKept(made, explicit, anchors, index + 1)
  <2>1. SUFFICES ASSUME NEW b \in 0 .. index
                 PROVE  \/ Covers(made, b)
                        \/ b \in DOMAIN explicit /\ explicit[b] = anchors[b + 1]
      BY <1>1 DEF EachIsKept
  <2>2. CASE b = index
      BY <1>8, <2>2
  <2>3. CASE b \in 0 .. index - 1
      BY <1>7, <2>3 DEF RunsIInv, EachIsKept
  <2>  QED  BY <1>1, <2>2, <2>3
<1>  QED  BY <1>1, <1>3, <1>5, <1>6, <1>9 DEF RunsIInv, made

(* A run ends after its last boundary, and without a trailing edge has as  *)
(* many as it counts.                                                      *)
LEMMA LastRunIs ==
    ASSUME RunsIInv, runs # << >>
    PROVE  /\ RunStands(LastRun, anchors, index)
           /\ ~LastRun.trailing => RunEnd(LastRun) = NextBoundary(LastRun)
<1>1. Len(runs) \in 1 .. Len(runs)
    BY DEF RunsIInv
<1>2. RunStands(LastRun, anchors, index)
    BY <1>1 DEF RunsIInv, LastRun
<1>3. LastRun.count \in Nat
    BY <1>2, RunFields DEF RunStands
<1>  QED  BY <1>2, <1>3 DEF RunEnd, BoundarySpan, NextBoundary

(* The boundary to process.                                                *)
LEMMA CurrentIs ==
    ASSUME RunsIInv, index < Len(anchors)
    PROVE  Current \in Boundaries /\ index \in Nat
<1>1. anchors \in Seq(Boundaries) /\ index + 1 \in 1 .. Len(anchors)
    BY DEF RunsIInv
<1>  QED  BY <1>1 DEF Current, RunsIInv

LEMMA ExtendRunPreserves ==
    ASSUME RunsIInv, index < Len(anchors), index' = index + 1,
           UNCHANGED anchors, ExtendRun
    PROVE  RunsIInv'
<1>  DEFINE old == LastRun
            run == [LastRun EXCEPT !.count = @ + 1]
            its == Current.after.id
<1>1. /\ RunStands(old, anchors, index) /\ old \in CharacterRuns
      /\ RunEnd(old) = NextBoundary(old) /\ ~old.trailing
      /\ NextBoundary(old) = index
      /\ old.following.client = its.client
      /\ old.following.clock + old.count = its.clock
    BY LastRunIs DEF ExtendRun, HasRun, Extends, RunStands
<1>2. /\ old.first \in Nat /\ old.count \in Nat /\ old.trailing = FALSE
      /\ old.following \in Ids /\ old.following.clock \in Nat
    BY <1>1, RunFields
<1>3. /\ Current \in Boundaries /\ index \in Nat
      /\ Current = anchors[index + 1]
    BY CurrentIs DEF Current
<1>4. /\ its.clock \in 1 .. MaxClock
      /\ Current = [before |-> Sticky(its.client, its.clock - 1, "Before"),
                    after  |-> Sticky(its.client, its.clock, "After"),
                    shared |-> TRUE]
    BY <1>3, SuccessiveAre DEF ExtendRun, Follows
<1>5. runs' = [runs EXCEPT ![Len(runs)] = run]
    BY DEF ExtendRun, LastRun
<1>  HIDE DEF its
<1>6. /\ run \in CharacterRuns /\ run.first = old.first
      /\ run.count = old.count + 1 /\ run.trailing = FALSE
      /\ run.following = old.following
    BY <1>1, <1>2 DEF CharacterRuns
<1>  HIDE DEF old, run
<1>7. /\ BoundarySpan(run) = old.count + 1 /\ BoundarySpan(old) = old.count
      /\ RunEnd(run) = index + 1
    BY <1>1, <1>2, <1>6 DEF BoundarySpan, RunEnd, NextBoundary
<1>8. \A o \in 0 .. BoundarySpan(run) - 1 :
          RunAnchors(run, o) = anchors[run.first + o + 1]
  <2>1. SUFFICES ASSUME NEW o \in 0 .. old.count
                 PROVE  RunAnchors(run, o) = anchors[old.first + o + 1]
      BY <1>2, <1>6, <1>7
  <2>2. o # run.count
      BY <1>2, <1>6
  <2>3. CASE o = old.count
    <3>1. old.first + o = index
        BY <1>1, <1>2, <2>3 DEF NextBoundary
    <3>2. run.following.clock + o = its.clock
        BY <1>1, <1>6, <2>3
    <3>  QED  BY <1>1, <1>3, <1>4, <1>6, <2>2, <3>1, <3>2 DEF RunAnchors
  <2>4. CASE o # old.count
    <3>1. o \in 0 .. BoundarySpan(old) - 1
        BY <1>2, <1>7, <2>4
    <3>2. RunAnchors(run, o) = RunAnchors(old, o)
        BY <1>6, <2>2, <2>4 DEF RunAnchors
    <3>  QED  BY <1>1, <3>1, <3>2 DEF RunStands
  <2>  QED  BY <2>3, <2>4
<1>9. RunStands(run, anchors, index + 1)
  <2>1. run.count >= 1 /\ run.following.clock >= 1
      BY <1>1, <1>2, <1>6 DEF RunStands
  <2>2. LastClock(run) <= MaxClock
      BY <1>1, <1>2, <1>4, <1>6, RunsAssumption DEF LastClock
  <2>3. run.first + BoundarySpan(run) <= index + 1
      BY <1>3, <1>7 DEF RunEnd
  <2>  QED  BY <1>6, <1>8, <2>1, <2>2, <2>3 DEF RunStands
<1>10. UNCHANGED <<anchors, explicit>> /\ runs # << >>
    BY DEF ExtendRun, HasRun
<1>  QED  BY <1>1, <1>5, <1>6, <1>7, <1>9, <1>10, LastRunGrows DEF old

LEMMA StartRunPreserves ==
    ASSUME RunsIInv, index < Len(anchors), index' = index + 1,
           UNCHANGED anchors, StartRun
    PROVE  RunsIInv'
<1>  DEFINE its == Current.after.id
            run == StartingAt(index, its)
<1>1. /\ Current \in Boundaries /\ index \in Nat
      /\ Current = anchors[index + 1]
    BY CurrentIs DEF Current
<1>2. /\ its \in Ids /\ its.clock \in 1 .. MaxClock
      /\ Current = [before |-> Sticky(its.client, its.clock - 1, "Before"),
                    after  |-> Sticky(its.client, its.clock, "After"),
                    shared |-> TRUE]
    BY <1>1, SuccessiveAre DEF StartRun, Follows
<1>3. runs' = Append(runs, run) /\ UNCHANGED <<anchors, explicit>>
    BY DEF StartRun
<1>  HIDE DEF its
<1>4. /\ run \in CharacterRuns /\ run.first = index /\ run.count = 1
      /\ run.trailing = FALSE /\ run.following = its
    BY <1>1, <1>2 DEF StartingAt, CharacterRuns
<1>  HIDE DEF run
<1>5. BoundarySpan(run) = 1 /\ RunEnd(run) = index + 1
    BY <1>4 DEF BoundarySpan, RunEnd
<1>6. RunAnchors(run, 0) = anchors[index + 1]
  <2>1. its.clock + 0 = its.clock /\ 0 # run.count
      BY <1>2, <1>4
  <2>  QED  BY <1>1, <1>2, <1>4, <2>1 DEF RunAnchors
<1>7. RunStands(run, anchors, index + 1)
  <2>1. \A o \in 0 .. BoundarySpan(run) - 1 :
            RunAnchors(run, o) = anchors[run.first + o + 1]
    <3>1. SUFFICES ASSUME NEW o \in 0 .. BoundarySpan(run) - 1
                   PROVE  RunAnchors(run, o) = anchors[run.first + o + 1]
        OBVIOUS
    <3>2. o = 0 /\ run.first + o + 1 = index + 1
        BY <1>1, <1>4, <1>5, <3>1
    <3>  QED  BY <1>6, <3>2
  <2>2. LastClock(run) <= MaxClock /\ run.following.clock >= 1
      BY <1>2, <1>4 DEF LastClock
  <2>  QED  BY <1>1, <1>4, <1>5, <2>1, <2>2 DEF RunStands
<1>  QED  BY <1>3, <1>4, <1>5, <1>7, RunIsAdded

LEMMA CloseRunPreserves ==
    ASSUME RunsIInv, index < Len(anchors), index' = index + 1,
           UNCHANGED anchors, CloseRun
    PROVE  RunsIInv'
<1>  DEFINE old == LastRun
            run == [LastRun EXCEPT !.trailing = TRUE]
            edge == Sticky(old.following.client, LastClock(old), "Before")
<1>1. /\ RunStands(old, anchors, index) /\ old \in CharacterRuns
      /\ RunEnd(old) = NextBoundary(old) /\ ~old.trailing
      /\ NextBoundary(old) = index
    BY LastRunIs DEF CloseRun, Closes, HasRun, ClosesWith, RunStands
<1>2. /\ old.first \in Nat /\ old.count \in Nat /\ old.trailing = FALSE
      /\ old.following \in Ids /\ old.following.clock \in Nat
    BY <1>1, RunFields
<1>3. /\ Current \in Boundaries /\ index \in Nat
      /\ Current = anchors[index + 1]
    BY CurrentIs DEF Current
<1>4. Current = [before |-> edge, after |-> edge, shared |-> TRUE]
  <2>1. Current.before = edge /\ Current.after = edge /\ Current.shared
      BY DEF CloseRun, Closes, ClosesWith
  <2>  HIDE DEF edge
  <2>  QED  BY <1>3, <2>1 DEF Boundaries
<1>5. runs' = [runs EXCEPT ![Len(runs)] = run]
    BY DEF CloseRun, LastRun
<1>6. /\ run \in CharacterRuns /\ run.first = old.first
      /\ run.count = old.count /\ run.trailing = TRUE
      /\ run.following = old.following
    BY <1>1, <1>2 DEF CharacterRuns
<1>7. UNCHANGED <<anchors, explicit>> /\ runs # << >>
    BY DEF CloseRun, Closes, HasRun
<1>  HIDE DEF old, run
<1>8. /\ BoundarySpan(run) = old.count + 1 /\ BoundarySpan(old) = old.count
      /\ RunEnd(run) = index + 1
    BY <1>1, <1>2, <1>6 DEF BoundarySpan, RunEnd, NextBoundary
<1>9. LastClock(run) = LastClock(old)
    BY <1>6 DEF LastClock
<1>10. \A o \in 0 .. BoundarySpan(run) - 1 :
           RunAnchors(run, o) = anchors[run.first + o + 1]
  <2>1. SUFFICES ASSUME NEW o \in 0 .. old.count
                 PROVE  RunAnchors(run, o) = anchors[old.first + o + 1]
      BY <1>2, <1>6, <1>8
  <2>2. CASE o = old.count
    <3>1. old.first + o = index
        BY <1>1, <1>2, <2>2 DEF NextBoundary
    <3>  QED  BY <1>3, <1>4, <1>6, <1>9, <2>2, <3>1 DEF RunAnchors
  <2>3. CASE o # old.count
    <3>1. o \in 0 .. BoundarySpan(old) - 1
        BY <1>2, <1>8, <2>3
    <3>2. RunAnchors(run, o) = RunAnchors(old, o)
        BY <1>6, <2>3 DEF RunAnchors
    <3>  QED  BY <1>1, <3>1, <3>2 DEF RunStands
  <2>  QED  BY <2>2, <2>3
<1>11. RunStands(run, anchors, index + 1)
  <2>1. run.first + BoundarySpan(run) <= index + 1
      BY <1>3, <1>8 DEF RunEnd
  <2>  QED  BY <1>1, <1>6, <1>9, <1>10, <2>1 DEF RunStands
<1>  QED  BY <1>1, <1>5, <1>6, <1>7, <1>8, <1>11, LastRunGrows DEF old

LEMMA KeepExplicitPreserves ==
    ASSUME RunsIInv, index < Len(anchors), index' = index + 1,
           UNCHANGED anchors, KeepExplicit
    PROVE  RunsIInv'
<1>  DEFINE kept == explicit'
<1>1. /\ Current \in Boundaries /\ index \in Nat
      /\ Current = anchors[index + 1] /\ anchors \in Seq(Boundaries)
      /\ Len(anchors) \in Nat
    BY CurrentIs DEF Current, RunsIInv
<1>2. /\ DOMAIN kept = DOMAIN explicit \union {index}
      /\ kept[index] = Current
      /\ \A b \in DOMAIN explicit : b # index => kept[b] = explicit[b]
      /\ runs' = runs
    BY DEF KeepExplicit
<1>  HIDE DEF kept
<1>3. \A r \in 1 .. Len(runs) : RunStands(runs[r], anchors, index + 1)
  <2>1. SUFFICES ASSUME NEW r \in 1 .. Len(runs)
                 PROVE  RunStands(runs[r], anchors, index + 1)
      OBVIOUS
  <2>2. RunStands(runs[r], anchors, index)
      BY DEF RunsIInv
  <2>  QED  BY <1>1, <2>2, RunStandsLater
<1>4. EachIsKept(runs, kept, anchors, index + 1)
  <2>1. SUFFICES ASSUME NEW b \in 0 .. index
                 PROVE  \/ Covers(runs, b)
                        \/ b \in DOMAIN kept /\ kept[b] = anchors[b + 1]
      BY <1>1 DEF EachIsKept
  <2>2. CASE b = index
      BY <1>1, <1>2, <2>2
  <2>3. CASE b \in 0 .. index - 1
    <3>1. \/ Covers(runs, b)
          \/ b \in DOMAIN explicit /\ explicit[b] = anchors[b + 1]
        BY <2>3 DEF RunsIInv, EachIsKept
    <3>2. b # index
        BY <1>1, <2>3
    <3>  QED  BY <1>2, <3>1, <3>2
  <2>  QED  BY <1>1, <2>2, <2>3
<1>5. /\ DOMAIN kept \subseteq Nat
      /\ \A e \in DOMAIN kept : kept[e] \in Boundaries
    BY <1>1, <1>2 DEF RunsIInv
<1>  QED  BY <1>1, <1>2, <1>3, <1>4, <1>5 DEF RunsIInv, kept

LEMMA RunsNextIInv == RunsIInv /\ [RunsNext]_runsVars => RunsIInv'
<1>  SUFFICES ASSUME RunsIInv, [RunsNext]_runsVars PROVE RunsIInv'
    OBVIOUS
<1>1. CASE RunsNext
    BY <1>1, ExtendRunPreserves, StartRunPreserves, CloseRunPreserves,
       KeepExplicitPreserves DEF RunsNext
<1>2. CASE UNCHANGED runsVars
    BY <1>2 DEF runsVars, RunsIInv
<1>  QED  BY <1>1, <1>2

LEMMA RunsInvariance == RunsSpec => []RunsIInv
    BY RunsInitIInv, RunsNextIInv, PTL DEF RunsSpec

(* A boundary a run covers is looked up in that run, as those after it     *)
(* start behind it.                                                        *)
LEMMA CoveringIsFound ==
    ASSUME RunsIInv, NEW b \in 0 .. index - 1, Covers(runs, b)
    PROVE  CoveringRuns(b) # {}
<1>1. /\ runs \in Seq(CharacterRuns) /\ DOMAIN runs = 1 .. Len(runs)
      /\ Len(runs) \in Nat /\ index \in Nat
    BY DEF RunsIInv
<1>2. PICK r \in 1 .. Len(runs) : runs[r].first <= b /\ b < RunEnd(runs[r])
    BY DEF Covers
<1>3. /\ runs[r].first \in Nat /\ BoundarySpan(runs[r]) \in Nat
      /\ RunEnd(runs[r]) \in Nat
    BY <1>1, RunFields
<1>4. ASSUME NEW s \in DOMAIN runs, s > r
      PROVE  runs[s].first > b
  <2>1. RunEnd(runs[r]) <= runs[s].first /\ runs[s].first \in Nat
      BY <1>1, <1>4, RunFields DEF RunsIInv, RunsApart
  <2>  QED  BY <1>1, <1>2, <1>3, <2>1
<1>5. r \in CandidateRuns(b)
    BY <1>1, <1>2, <1>4 DEF CandidateRuns
<1>6. b - runs[r].first < BoundarySpan(runs[r])
    BY <1>1, <1>2, <1>3 DEF RunEnd
<1>  QED  BY <1>5, <1>6 DEF CoveringRuns

(* What a covering run gives is what was given.                            *)
LEMMA FoundIsGiven ==
    ASSUME RunsIInv, NEW b \in 0 .. index - 1, NEW r \in CoveringRuns(b)
    PROVE  RunAnchors(runs[r], b - runs[r].first) = anchors[b + 1]
<1>1. /\ r \in 1 .. Len(runs) /\ runs[r].first <= b
      /\ b - runs[r].first < BoundarySpan(runs[r])
    BY DEF CoveringRuns, CandidateRuns, RunsIInv
<1>2. RunStands(runs[r], anchors, index) /\ index \in Nat
    BY <1>1 DEF RunsIInv
<1>3. runs[r].first \in Nat /\ BoundarySpan(runs[r]) \in Nat
    BY <1>2, RunFields DEF RunStands
<1>  DEFINE o == b - runs[r].first
<1>4. o \in 0 .. BoundarySpan(runs[r]) - 1 /\ runs[r].first + o + 1 = b + 1
    BY <1>1, <1>2, <1>3
<1>  HIDE DEF o
<1>5. RunAnchors(runs[r], o) = anchors[runs[r].first + o + 1]
    BY <1>2, <1>4 DEF RunStands
<1>  QED  BY <1>4, <1>5 DEF o

(* CompressionIsLossless: however many boundaries a paragraph has, and     *)
(* whatever characters they lie between, each is found in the compressed   *)
(* anchors as it was given, and the clocks that runs add up to are clocks  *)
(* of ids.                                                                 *)
THEOREM CompressionLosesNothing == RunsSpec => []CompressionIsLossless
<1>1. ASSUME RunsIInv PROVE CompressionIsLossless
  <2>1. RunsTypeOK
    <3>1. DOMAIN runs = 1 .. Len(runs)
        BY <1>1 DEF RunsIInv
    <3>  QED  BY <1>1, <3>1 DEF RunsIInv, RunsTypeOK, RunStands
  <2>2. ASSUME NEW b \in 0 .. index - 1
        PROVE  Lookup(b) = {anchors[b + 1]}
    <3>1. CASE CoveringRuns(b) # {}
      <4>1. Lookup(b) = {RunAnchors(runs[r], b - runs[r].first) :
                            r \in CoveringRuns(b)}
          BY <3>1 DEF Lookup
      <4>2. \A r \in CoveringRuns(b) :
                RunAnchors(runs[r], b - runs[r].first) = anchors[b + 1]
          BY <1>1, <2>2, FoundIsGiven
      <4>  QED  BY <3>1, <4>1, <4>2
    <3>2. CASE CoveringRuns(b) = {}
      <4>1. b \in DOMAIN explicit /\ explicit[b] = anchors[b + 1]
          BY <1>1, <2>2, <3>2, CoveringIsFound DEF RunsIInv, EachIsKept
      <4>2. Lookup(b) = {explicit[e] : e \in DOMAIN explicit \intersect {b}}
          BY <3>2 DEF Lookup
      <4>  QED  BY <4>1, <4>2
    <3>  QED  BY <3>1, <3>2
  <2>  QED  BY <2>1, <2>2 DEF CompressionIsLossless
<1>  QED  BY <1>1, RunsInvariance, PTL

=============================================================================
