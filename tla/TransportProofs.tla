--------------------------- MODULE TransportProofs --------------------------
(***************************************************************************)
(* Theorems of Transport for every retry schedule, every size of the       *)
(* generation space and every clock.  The inductive invariant joins the    *)
(* type, the ownership of the live generation and the retry policy: the    *)
(* spacing of the attempts follows from the policy, and the refinement of  *)
(* ConnectionAttempts from the ownership.                                  *)
(***************************************************************************)
EXTENDS Transport, TLAPS

IInv ==
    /\ TypeOK
    /\ LiveIsNewest
    /\ RetryPolicy

(* What the assumptions say of the delays and of the last index.           *)
LEMMA DelayFacts ==
    /\ FinalRetryDelayIndex \in Nat
    /\ Len(RetryDelays) = FinalRetryDelayIndex + 1
    /\ \A i \in 1 .. Len(RetryDelays) : RetryDelays[i] \in Nat \ {0}
    /\ MaxGeneration \in Nat
    /\ MaxMillis \in Nat
<1>1. Len(RetryDelays) \in Nat /\ Len(RetryDelays) > 0
  BY RetryDelaysAssumption
<1>2. \A i \in 1 .. Len(RetryDelays) : RetryDelays[i] \in Nat \ {0}
  BY RetryDelaysAssumption
<1>. QED
  BY <1>1, <1>2, TransportBoundsAssumption DEF FinalRetryDelayIndex

(* Replacing one field of a record of the type by a value of its type      *)
(* gives a record of the type.                                             *)
LEMMA FieldUpdates ==
    ASSUME NEW t \in Transports
    PROVE  /\ \A x \in TransportStates : [t EXCEPT !.state = x] \in Transports
           /\ \A x \in SUBSET (1 .. MaxGeneration) :
                  [t EXCEPT !.live_attempt = x] \in Transports
           /\ \A x \in 0 .. MaxGeneration :
                  [t EXCEPT !.last_issued = x] \in Transports
           /\ \A x \in 0 .. FinalRetryDelayIndex :
                  [t EXCEPT !.retry_attempt_index = x] \in Transports
           /\ \A x \in SUBSET (0 .. MaxMillis) :
                  [t EXCEPT !.next_retry_deadline_millis = x] \in Transports
           /\ \A x \in BOOLEAN :
                  [t EXCEPT !.retry_schedule_exhausted = x] \in Transports
BY DEF Transports

(* Each operation of the machine keeps its record a record of the type.    *)
LEMMA ResetType ==
    ASSUME NEW t \in Transports
    PROVE  ResetRetryForFreshDrive(t) \in Transports
<1>1. 0 \in 0 .. FinalRetryDelayIndex /\ {} \in SUBSET (0 .. MaxMillis)
  BY DelayFacts
<1>. QED
  BY <1>1, FieldUpdates DEF ResetRetryForFreshDrive

(* The deadline of a retry is a number, perhaps past the clock's end.      *)
LEMMA DeadlineType ==
    ASSUME NEW t \in Transports, NEW m \in 0 .. MaxMillis
    PROVE  RetryDeadline(t, m) \in Nat
<1>1. Min2(t.retry_attempt_index, FinalRetryDelayIndex) + 1
        \in 1 .. Len(RetryDelays)
  BY DelayFacts DEF Transports, Min2
<1>2. RetryDelays[Min2(t.retry_attempt_index, FinalRetryDelayIndex) + 1]
        \in Nat
  BY <1>1, DelayFacts
<1>. QED
  BY <1>2, DelayFacts DEF RetryDeadline

(* Scheduling a retry keeps the type: the index stays capped.              *)
LEMMA NextRetryType ==
    ASSUME NEW t \in Transports, NEW m \in 0 .. MaxMillis
    PROVE  NextRetryAfterClose(t, m) \in Transports
<1>1. RetryDeadline(t, m) \in Nat
  BY DeadlineType
<1>2. Min2(t.retry_attempt_index + 1, FinalRetryDelayIndex)
        \in 0 .. FinalRetryDelayIndex
  BY DelayFacts DEF Transports, Min2
<1>3. CASE RetryDeadline(t, m) > MaxMillis
  BY <1>3, FieldUpdates DEF NextRetryAfterClose
<1>4. CASE ~(RetryDeadline(t, m) > MaxMillis)
  <2>1. {RetryDeadline(t, m)} \in SUBSET (0 .. MaxMillis)
    BY <1>1, <1>4, DelayFacts
  <2>. QED
    BY <2>1, <1>2, <1>4, FieldUpdates DEF NextRetryAfterClose
<1>. QED
  BY <1>3, <1>4

(* So does issuing a generation while one is left,                         *)
LEMMA IssueType ==
    ASSUME NEW t \in Transports, CanIssue(t)
    PROVE  IssueGeneration(t) \in Transports
<1>1. /\ t.last_issued + 1 \in 0 .. MaxGeneration
      /\ {t.last_issued + 1} \in SUBSET (1 .. MaxGeneration)
  BY DelayFacts DEF Transports, CanIssue
<1>2. "Connecting" \in TransportStates
  BY DEF TransportStates, AttemptStates
<1>. QED
  BY <1>1, <1>2, FieldUpdates DEF IssueGeneration

(* closing an attempt,                                                     *)
LEMMA CloseType ==
    ASSUME NEW t \in Transports, NEW m \in 0 .. MaxMillis, NEW d
    PROVE  SocketClosed(t, d, m) \in Transports
<1>1. {"Disconnected", "Incompatible"} \subseteq TransportStates
  BY DEF TransportStates
<1>2. CASE d = "Retryable"
  BY <1>1, <1>2, NextRetryType, FieldUpdates DEF SocketClosed
<1>3. CASE d # "Retryable"
  BY <1>1, <1>3, FieldUpdates DEF SocketClosed
<1>. QED
  BY <1>2, <1>3

(* and each of the owner's calls.                                          *)
LEMMA LifecycleTypes ==
    ASSUME NEW t \in Transports
    PROVE  /\ SocketOpened(t) \in Transports
           /\ MarkSynchronized(t) \in Transports
           /\ Detach(t) \in Transports
           /\ Reattach(t) \in Transports
           /\ SettleForRestore(t) \in Transports
           /\ TeardownDestroyed(t) \in Transports
<1>1. {"Handshaking", "Synchronized", "Detached", "Disconnected", "Destroyed"}
        \subseteq TransportStates
  BY DEF TransportStates, AttemptStates
<1>2. SocketOpened(t) \in Transports
  BY <1>1, FieldUpdates DEF SocketOpened
<1>3. MarkSynchronized(t) \in Transports
  BY <1>1, FieldUpdates, ResetType DEF MarkSynchronized
<1>4. Detach(t) \in Transports
  BY <1>1, FieldUpdates, ResetType DEF Detach
<1>5. Reattach(t) \in Transports
  BY <1>1, FieldUpdates, ResetType DEF Reattach
<1>6. SettleForRestore(t) \in Transports
  BY <1>1, FieldUpdates, ResetType DEF SettleForRestore
<1>7. TeardownDestroyed(t) \in Transports
  BY <1>1, FieldUpdates DEF TeardownDestroyed
<1>. QED
  BY <1>2, <1>3, <1>4, <1>5, <1>6, <1>7

-----------------------------------------------------------------------------

(* A new machine satisfies the invariant.                                  *)
LEMMA InitEstablishes == Init => IInv
<1>. SUFFICES ASSUME Init PROVE IInv
  OBVIOUS
<1>1. TypeOK
  BY DelayFacts
  DEF Init, TypeOK, NewTransport, NoFailures, Transports, TransportStates
<1>2. LiveIsNewest
  BY DEF Init, LiveIsNewest, NewTransport, AttemptStates
<1>3. RetryPolicy
  BY DelayFacts
  DEF Init, RetryPolicy, NewTransport, NoFailures, Min2
<1>. QED
  BY <1>1, <1>2, <1>3 DEF IInv

(* Every call keeps it.                                                    *)
LEMMA StepPreserves == IInv /\ [Next]_vars => IInv'
<1>. SUFFICES ASSUME IInv, [Next]_vars PROVE IInv'
  OBVIOUS
<1>. USE DEF IInv
<1>0. /\ transport \in Transports
      /\ now \in 0 .. MaxMillis
      /\ backoff.failures \in 0 .. Len(RetryDelays)
      /\ backoff.closed_at \in 0 .. MaxMillis
  BY DEF TypeOK
<1>1. CASE DriveCall
  <2>1. CASE RetryDue(transport, room_bound, now) /\ CanIssue(transport)
    <3>1. transport' = IssueGeneration(transport)
      BY <1>1, <2>1 DEF DriveCall, Drive
    <3>2. TypeOK'
      BY <1>1, <2>1, <3>1, <1>0, IssueType DEF DriveCall, TypeOK
    <3>3. LiveIsNewest'
      BY <3>1, <1>0
      DEF IssueGeneration, LiveIsNewest, AttemptStates, Transports
    <3>4. RetryPolicy'
      BY <1>1, <2>1, <3>1, <1>0
      DEF DriveCall, IssueGeneration, RetryDue, RetryPolicy, Transports
    <3>. QED
      BY <3>2, <3>3, <3>4
  <2>2. CASE ~(RetryDue(transport, room_bound, now) /\ CanIssue(transport))
    <3>1. UNCHANGED vars
      BY <1>1, <2>2 DEF DriveCall, Drive, vars
    <3>. QED
      BY <3>1 DEF vars, TypeOK, LiveIsNewest, RetryPolicy
  <2>. QED
    BY <2>1, <2>2
<1>2. ASSUME NEW g \in 1 .. transport.last_issued, OpenCallback(g)
      PROVE  IInv'
  <2>1. TypeOK'
    BY <1>2, <1>0, LifecycleTypes DEF OpenCallback, TypeOK
  <2>2. LiveIsNewest'
    BY <1>2, <1>0
    DEF OpenCallback, CanOpenSocket, SocketOpened, LiveIsNewest,
        AttemptStates, Transports
  <2>3. RetryPolicy'
    BY <1>2, <1>0
    DEF OpenCallback, CanOpenSocket, SocketOpened, RetryPolicy, Transports
  <2>. QED
    BY <2>1, <2>2, <2>3
<1>3. ASSUME NEW g \in 1 .. transport.last_issued, SynchronizeCall(g)
      PROVE  IInv'
  <2>1. TypeOK'
    BY <1>3, <1>0, LifecycleTypes, DelayFacts
    DEF SynchronizeCall, TypeOK, NoFailures
  <2>2. LiveIsNewest'
    BY <1>3, <1>0
    DEF SynchronizeCall, CanMarkSynchronized, MarkSynchronized,
        ResetRetryForFreshDrive, LiveIsNewest, AttemptStates, Transports
  <2>3. RetryPolicy'
    BY <1>3, <1>0, DelayFacts
    DEF SynchronizeCall, MarkSynchronized, ResetRetryForFreshDrive,
        NoFailures, RetryPolicy, Transports, Min2
  <2>. QED
    BY <2>1, <2>2, <2>3
<1>4. ASSUME NEW g \in 1 .. transport.last_issued,
             NEW d \in Dispositions, CloseCallback(g, d)
      PROVE  IInv'
  <2>0. transport.state \in AttemptStates
    BY <1>4 DEF CloseCallback, IsLiveAttempt, LiveIsNewest
  <2>1. TypeOK'
    <3>1. transport' \in Transports
      BY <1>4, <1>0, CloseType DEF CloseCallback
    <3>2. backoff' \in [failures  : 0 .. Len(RetryDelays),
                        closed_at : 0 .. MaxMillis]
      BY <1>4, <1>0, DelayFacts DEF CloseCallback, TypeOK, Min2
    <3>. QED
      BY <1>4, <3>1, <3>2 DEF CloseCallback, TypeOK
  <2>2. LiveIsNewest'
    <3>1. transport'.live_attempt = {} /\ transport'.state \notin AttemptStates
      BY <1>4, <1>0
      DEF CloseCallback, SocketClosed, NextRetryAfterClose, AttemptStates,
          Dispositions, Transports
    <3>. QED
      BY <3>1 DEF LiveIsNewest
  <2>3. RetryPolicy'
    <3>1. CASE d = "Incompatible"
      BY <1>4, <3>1, <2>0, <1>0
      DEF CloseCallback, SocketClosed, RetryPolicy, Transports, AttemptStates
    <3>2. CASE d = "Retryable" /\ RetryDeadline(transport, now) > MaxMillis
      BY <1>4, <3>2, <1>0
      DEF CloseCallback, SocketClosed, NextRetryAfterClose, RetryPolicy,
          Transports
    <3>3. CASE d = "Retryable" /\ ~(RetryDeadline(transport, now) > MaxMillis)
      <4>1. /\ ~transport.retry_schedule_exhausted
            /\ transport.retry_attempt_index
                 = Min2(backoff.failures, FinalRetryDelayIndex)
        BY <2>0 DEF RetryPolicy, AttemptStates
      <4>2. /\ transport'.state = "Disconnected"
            /\ transport'.retry_schedule_exhausted
                 = transport.retry_schedule_exhausted
            /\ transport'.next_retry_deadline_millis
                 = {RetryDeadline(transport, now)}
            /\ transport'.retry_attempt_index
                 = Min2(transport.retry_attempt_index + 1,
                        FinalRetryDelayIndex)
        BY <1>4, <3>3, <1>0
        DEF CloseCallback, SocketClosed, NextRetryAfterClose, Transports
      <4>3. /\ backoff'.failures
                 = Min2(backoff.failures + 1, FinalRetryDelayIndex + 1)
            /\ backoff'.closed_at = now
        BY <1>4, <3>3, DelayFacts DEF CloseCallback
      <4>4. transport'.retry_attempt_index
              = Min2(backoff'.failures, FinalRetryDelayIndex)
        BY <4>1, <4>2, <4>3, <1>0, DelayFacts DEF Min2
      <4>5. Min2(transport.retry_attempt_index, FinalRetryDelayIndex) + 1
              = backoff'.failures
        BY <4>1, <4>3, <1>0, DelayFacts DEF Min2
      <4>6. transport'.next_retry_deadline_millis
              = {backoff'.closed_at + RetryDelays[backoff'.failures]}
        BY <4>2, <4>3, <4>5 DEF RetryDeadline
      <4>. QED
        BY <4>1, <4>2, <4>4, <4>6 DEF RetryPolicy
    <3>. QED
      BY <3>1, <3>2, <3>3 DEF Dispositions
  <2>. QED
    BY <2>1, <2>2, <2>3
<1>5. CASE DetachCall
  <2>1. TypeOK'
    BY <1>5, <1>0, LifecycleTypes, DelayFacts
    DEF DetachCall, TypeOK, NoFailures
  <2>2. LiveIsNewest'
    BY <1>5, <1>0
    DEF DetachCall, Detach, ResetRetryForFreshDrive, LiveIsNewest,
        AttemptStates, Transports
  <2>3. RetryPolicy'
    BY <1>5, <1>0, DelayFacts
    DEF DetachCall, Detach, ResetRetryForFreshDrive, NoFailures, RetryPolicy,
        Transports, Min2
  <2>. QED
    BY <2>1, <2>2, <2>3
<1>6. CASE ReattachCall
  <2>1. TypeOK'
    BY <1>6, <1>0, LifecycleTypes DEF ReattachCall, TypeOK
  <2>2. LiveIsNewest'
    BY <1>6, <1>0
    DEF ReattachCall, CanReattach, Reattach, ResetRetryForFreshDrive,
        LiveIsNewest, AttemptStates, Transports
  <2>3. RetryPolicy'
    BY <1>6, <1>0, DelayFacts
    DEF ReattachCall, CanReattach, Reattach, ResetRetryForFreshDrive,
        RetryPolicy, Transports, Min2
  <2>. QED
    BY <2>1, <2>2, <2>3
<1>7. CASE RestoreCall
  <2>1. TypeOK'
    BY <1>7, <1>0, LifecycleTypes, DelayFacts
    DEF RestoreCall, TypeOK, NoFailures
  <2>2. LiveIsNewest'
    BY <1>7, <1>0
    DEF RestoreCall, SettleForRestore, ResetRetryForFreshDrive,
        LiveIsNewest, AttemptStates, Transports
  <2>3. RetryPolicy'
    BY <1>7, <1>0, DelayFacts
    DEF RestoreCall, SettleForRestore, ResetRetryForFreshDrive, NoFailures,
        RetryPolicy, Transports, Min2
  <2>. QED
    BY <2>1, <2>2, <2>3
<1>8. CASE TeardownCall
  <2>1. TypeOK'
    BY <1>8, <1>0, LifecycleTypes DEF TeardownCall, TypeOK
  <2>2. LiveIsNewest'
    BY <1>8, <1>0
    DEF TeardownCall, TeardownDestroyed, LiveIsNewest, AttemptStates,
        Transports
  <2>3. RetryPolicy'
    BY <1>8, <1>0
    DEF TeardownCall, TeardownDestroyed, RetryPolicy, Transports
  <2>. QED
    BY <2>1, <2>2, <2>3
<1>9. CASE Tick
  BY <1>9, <1>0, DelayFacts
  DEF Tick, TypeOK, LiveIsNewest, RetryPolicy
<1>10. CASE UNCHANGED vars
  BY <1>10 DEF vars, TypeOK, LiveIsNewest, RetryPolicy
<1>. QED
  BY <1>1, <1>2, <1>3, <1>4, <1>5, <1>6, <1>7, <1>8, <1>9, <1>10 DEF Next

(* The inductive invariant holds in every reachable state.                 *)
THEOREM Invariance == Spec => []IInv
BY InitEstablishes, StepPreserves, PTL DEF Spec

(* Every reachable state of the machine has its type, for every schedule   *)
(* and counter width.                                                      *)
THEOREM TypeCorrect == Spec => []TypeOK
<1>1. IInv => TypeOK
  BY DEF IInv
<1>. QED
  BY <1>1, Invariance, PTL

(* A live generation is the newest one issued and exists exactly while its *)
(* attempt does: no late callback of an older socket is ever admitted.     *)
THEOREM LiveGenerationIsNewest == Spec => []LiveIsNewest
<1>1. IInv => LiveIsNewest
  BY DEF IInv
<1>. QED
  BY <1>1, Invariance, PTL

(* The deadline and the index always follow from the closes so far.        *)
THEOREM RetryPolicyHolds == Spec => []RetryPolicy
<1>1. IInv => RetryPolicy
  BY DEF IInv
<1>. QED
  BY <1>1, Invariance, PTL

(* Only a drive issues a generation, and it does so when a retry is due.   *)
LEMMA OnlyDriveIssues ==
    ASSUME TypeOK, [Next]_vars,
           transport'.last_issued # transport.last_issued
    PROVE  /\ DriveCall
           /\ RetryDue(transport, room_bound, now)
           /\ CanIssue(transport)
           /\ transport' = IssueGeneration(transport)
<1>0. transport \in Transports
  BY DEF TypeOK
<1>1. CASE DriveCall
  BY <1>1 DEF DriveCall, Drive
<1>2. ASSUME NEW g \in 1 .. transport.last_issued,
             OpenCallback(g) \/ SynchronizeCall(g)
      PROVE  FALSE
  BY <1>2, <1>0
  DEF OpenCallback, SocketOpened, SynchronizeCall, MarkSynchronized,
      ResetRetryForFreshDrive, Transports
<1>3. ASSUME NEW g \in 1 .. transport.last_issued,
             NEW d \in Dispositions, CloseCallback(g, d)
      PROVE  FALSE
  BY <1>3, <1>0
  DEF CloseCallback, SocketClosed, NextRetryAfterClose, Transports
<1>4. CASE DetachCall \/ ReattachCall
  BY <1>4, <1>0
  DEF DetachCall, Detach, ReattachCall, Reattach, ResetRetryForFreshDrive,
      Transports
<1>5. CASE RestoreCall \/ TeardownCall
  BY <1>5, <1>0
  DEF RestoreCall, SettleForRestore, ResetRetryForFreshDrive,
      TeardownCall, TeardownDestroyed, Transports
<1>6. CASE Tick \/ UNCHANGED vars
  BY <1>6 DEF Tick, vars
<1>. QED
  BY <1>1, <1>2, <1>3, <1>4, <1>5, <1>6 DEF Next

(* The n-th retry in a row waits for the n-th delay.                       *)
THEOREM BackoffIsHonoured == Spec => BackoffHonoured
<1>1. IInv /\ [Next]_vars
        => [transport'.last_issued # transport.last_issued
              => \/ backoff.failures = 0
                 \/ now >= backoff.closed_at
                             + RetryDelays[backoff.failures]]_vars
  <2>. SUFFICES ASSUME IInv, [Next]_vars,
                       transport'.last_issued # transport.last_issued,
                       backoff.failures # 0
                PROVE  now >= backoff.closed_at
                                + RetryDelays[backoff.failures]
    OBVIOUS
  <2>1. RetryDue(transport, room_bound, now)
    BY OnlyDriveIssues DEF IInv
  <2>2. transport.next_retry_deadline_millis
          = {backoff.closed_at + RetryDelays[backoff.failures]}
    <3>1. backoff.failures \in Nat
      BY DelayFacts DEF IInv, TypeOK
    <3>. QED
      BY <2>1, <3>1 DEF IInv, RetryPolicy, RetryDue
  <2>. QED
    BY <2>1, <2>2 DEF RetryDue
<1>. QED
  BY <1>1, Invariance, PTL DEF Spec, BackoffHonoured

(* An exhausted schedule issues nothing.                                   *)
THEOREM ExhaustedIssuesNothing == Spec => ExhaustedNeverIssues
<1>1. IInv /\ [Next]_vars
        => [transport.retry_schedule_exhausted
              => transport'.last_issued = transport.last_issued]_vars
  BY OnlyDriveIssues DEF IInv, RetryDue
<1>. QED
  BY <1>1, Invariance, PTL DEF Spec, ExhaustedNeverIssues

(* The machine implements ConnectionAttempts: one attempt at a time, with  *)
(* consecutive generations that never come back.                           *)
THEOREM ImplementsAttempts == Spec => AttemptsSpec
<1>1. Init => Attempts!AInit
  BY DEF Init, NewTransport, Attempts!AInit
<1>2. IInv /\ IInv' /\ [Next]_vars => [Attempts!ANext]_(Attempts!avars)
  <2>. SUFFICES ASSUME IInv, IInv', [Next]_vars,
                       ~(UNCHANGED Attempts!avars)
                PROVE  Attempts!ANext
    OBVIOUS
  <2>0. LiveIsNewest /\ LiveIsNewest'
    BY DEF IInv
  <2>1. CASE transport'.last_issued # transport.last_issued
    <3>1. /\ transport.state = "Disconnected"
          /\ CanIssue(transport)
          /\ transport' = IssueGeneration(transport)
          /\ transport \in Transports
      BY <2>1, OnlyDriveIssues DEF IInv, TypeOK, RetryDue
    <3>2. Attempts!Issue
      BY <3>1, <2>0
      DEF Attempts!Issue, LiveIsNewest, AttemptStates, CanIssue,
          IssueGeneration, Transports
    <3>. QED
      BY <3>2 DEF Attempts!ANext
  <2>2. CASE transport'.last_issued = transport.last_issued
    <3>1. transport.state \in AttemptStates => transport'.live_attempt \in {{}, transport.live_attempt}
      BY <2>0, <2>2 DEF LiveIsNewest
    <3>2. transport.state \notin AttemptStates
            => transport'.state \notin AttemptStates
      <4>. SUFFICES ASSUME transport.state \notin AttemptStates
                    PROVE  transport'.state \notin AttemptStates
        OBVIOUS
      <4>0. transport \in Transports /\ transport.live_attempt = {}
        BY <2>0 DEF IInv, TypeOK, LiveIsNewest
      <4>1. CASE DriveCall
        BY <4>1, <4>0, <2>2, DelayFacts
        DEF DriveCall, Drive, IssueGeneration, Transports
      <4>2. ASSUME NEW g \in 1 .. transport.last_issued,
                   \/ OpenCallback(g)
                   \/ SynchronizeCall(g)
                   \/ \E d \in Dispositions : CloseCallback(g, d)
            PROVE  FALSE
        BY <4>2, <4>0
        DEF OpenCallback, SynchronizeCall, CloseCallback, CanOpenSocket,
            CanMarkSynchronized, IsLiveAttempt
      <4>3. CASE DetachCall \/ ReattachCall
        BY <4>3, <4>0
        DEF DetachCall, Detach, ReattachCall, Reattach,
            ResetRetryForFreshDrive, Transports, AttemptStates
      <4>4. CASE RestoreCall \/ TeardownCall
        BY <4>4, <4>0
        DEF RestoreCall, SettleForRestore, ResetRetryForFreshDrive,
            TeardownCall, TeardownDestroyed, Transports, AttemptStates
      <4>5. CASE Tick \/ UNCHANGED vars
        BY <4>5 DEF Tick, vars
      <4>. QED
        BY <4>1, <4>2, <4>3, <4>4, <4>5 DEF Next
    <3>3. transport.live_attempt # {} /\ transport'.live_attempt = {}
      BY <3>1, <3>2, <2>0, <2>2 DEF LiveIsNewest, Attempts!avars
    <3>. QED
      BY <3>3, <2>2 DEF Attempts!ANext, Attempts!Retire
  <2>. QED
    BY <2>1, <2>2
<1>. QED
  BY <1>1, <1>2, Invariance, PTL DEF Spec, AttemptsSpec, Attempts!ASpec

=============================================================================
