----------------------- MODULE TransportRegistryProofs ----------------------
(***************************************************************************)
(* Theorems of the registry of the native transports, for any number of    *)
(* editors, stripes, threads, runtimes and faults.  The inductive          *)
(* invariant says who owns what between two steps: a stripe by the thread  *)
(* inside it, a transport by the map of its editor or, until its last task *)
(* is done, by the editor's retirement, the answer of a worker by the one  *)
(* thread that waits for it, and the next event of an editor by the one    *)
(* transport that may still raise events.                                  *)
(***************************************************************************)
EXTENDS TransportRegistry, FiniteSetTheorems, SequenceTheorems, TLAPS

-----------------------------------------------------------------------------
(* The inductive invariant *)

Configs == {"none", "off", "on"}

Places ==
    {"idle", "contending", "admitting", "removing", "awaiting", "waiting",
     "creating", "submitting", "calling", "settling", "abandoning"}

(* Where a call holds the lock of its stripe, knows a transport, or may    *)
(* still create one.                                                       *)
Inside == Places \ {"idle", "contending"}
Knowing == {"submitting", "calling", "settling", "abandoning"}
Creating ==
    {"contending", "admitting", "removing", "awaiting", "waiting", "creating"}

Calling ==
    [at : Places, owner : Nat, of : Editors \union {None}, wants : Configs,
     on : Nat, created : BOOLEAN, error : BOOLEAN]

Events == [epoch : Nat, sequence : Nat, to : Nat]

Tasks ==
    [does : {"host", "destroy"}]
      \union [does : {"configure"}, by : Threads, config : Configs]

Transports ==
    [editor : Editors, terminal : BOOLEAN, config : Configs,
     desired : HostStates, believes : BOOLEAN, tasks : Seq(Tasks),
     step : {"idle", "taking", "picking", "emitting", "answering", "ending",
             "completed", "gone"},
     follows : {"idle", "answering", "ending"}, event : Events,
     answers : Threads \union {None}, error : BOOLEAN]

Typed ==
    /\ TypeOK
    /\ epochs \in [Editors -> Nat]
    /\ delivered \in [Editors -> Events]
    /\ transport \in Seq(Transports)
    /\ caller \in [Threads -> Calling]
    /\ module \in [at : {"idle", "created", "listening", "telling"},
                   owner : 0 .. activated, pending : SUBSET Ids]
    /\ calls \in 0 .. MaxCalls /\ faults \in Nat /\ moves \in Nat

(* A thread inside a stripe is the only one there.                         *)
StripesHeld ==
    \A t \in Threads :
        caller[t].at \in Inside => lockedBy[StripeOf[caller[t].of]] = {t}

(* A call has an editor and an owner, knows a transport that was created,  *)
(* and finds no retirement where it creates one, unless its owner is gone. *)
CallsStand ==
    \A t \in Threads :
        /\ caller[t].at # "idle" =>
              caller[t].of \in Editors /\ caller[t].owner \in 1 .. activated
        /\ caller[t].at \in Knowing => caller[t].on \in Ids
        /\ caller[t].at = "creating" /\ IsOwner(t) =>
              retirements[caller[t].of] = None

(* A transport in the map is its editor's and lives, and nothing of the    *)
(* editor is being retired; one that is not done is in the map or is the   *)
(* retirement of its editor; without a runtime the map is empty.           *)
Owned ==
    /\ \A e \in Editors :
          transports[e] # None =>
              /\ transport[transports[e]].editor = e
              /\ ~transport[transports[e]].terminal
              /\ retirements[e] = None
    /\ \A x \in Ids :
          \/ Done(x)
          \/ transports[transport[x].editor] = x
          \/ retirements[transport[x].editor] = x
    /\ DestroyedRuntimeHoldsNothing

Configures(task) == task.does = "configure"

(* The worker of x owes an answer once what it is about is through.        *)
Answering(x) ==
    \/ transport[x].step = "answering"
    \/ /\ transport[x].step \in {"taking", "picking", "emitting"}
       /\ transport[x].follows = "answering"

Awaits(t, x) == caller[t].at = "calling" /\ caller[t].on = x

(* A task to configure, and the answer a worker owes, are those of a       *)
(* thread that waits for them, and of no other task or answer.             *)
TasksAwaited(x) ==
    LET tasks == transport[x].tasks
    IN  \A i \in DOMAIN tasks :
            Configures(tasks[i]) =>
                /\ Awaits(tasks[i].by, x)
                /\ \A j \in DOMAIN tasks :
                      Configures(tasks[j]) /\ tasks[j].by = tasks[i].by => i = j
                /\ Answering(x) => transport[x].answers # tasks[i].by

AnswerAwaited(x) ==
    Answering(x) =>
        /\ transport[x].answers \in Threads
        /\ Awaits(transport[x].answers, x)

AnswersOwed == \A x \in Ids : TasksAwaited(x) /\ AnswerAwaited(x)

(* A transport in the map holds the host state, or is still to be told.    *)
StateTold ==
    \A e \in Editors :
        transports[e] # None =>
            \/ transport[transports[e]].desired = hostState
            \/ module.at = "telling" /\ transports[e] \in module.pending

Latest(e) == [epoch |-> epochs[e], sequence |-> sequences[e], to |-> None]

(* No event given is later than the latest number, and one that is on its  *)
(* way is later than the one given and not than the latest.                *)
Numbered ==
    /\ \A e \in Editors : ~Earlier(Latest(e), delivered[e])
    /\ \A x \in Ids :
          transport[x].step \in {"picking", "emitting"} =>
              LET e == transport[x].editor
              IN  /\ Earlier(delivered[e], transport[x].event)
                  /\ ~Earlier(Latest(e), transport[x].event)

Creators == {t \in Threads : caller[t].at \in Creating}

(* Every transport was created by a call of its own.                       *)
CreationsCounted ==
    /\ IsFiniteSet(Creators)
    /\ Len(transport) + Cardinality(Creators) <= calls

IInv ==
    /\ Typed
    /\ StripesHeld
    /\ CallsStand
    /\ Owned
    /\ AnswersOwed
    /\ StateTold
    /\ AttachmentStands
    /\ Numbered
    /\ CreationsCounted

-----------------------------------------------------------------------------
(* Sequences *)

(* A sequence with one element replaced.                                   *)
LEMMA Replaced ==
    ASSUME NEW S, NEW s \in Seq(S), NEW i \in 1 .. Len(s), NEW v \in S,
           NEW u, u = [s EXCEPT ![i] = v]
    PROVE  /\ u \in Seq(S) /\ Len(u) = Len(s)
           /\ u[i] = v
           /\ \A j \in 1 .. Len(s) : j # i => u[j] = s[j]
BY ExceptSeq

(* The rest of a sequence.                                                 *)
LEMMA Rest ==
    ASSUME NEW S, NEW s \in Seq(S), s # <<>>
    PROVE  /\ 1 \in 1 .. Len(s) /\ Head(s) = s[1] /\ Head(s) \in S
           /\ Tail(s) \in Seq(S)
           /\ \A i \in DOMAIN Tail(s) :
                 i + 1 \in DOMAIN s /\ i + 1 # 1 /\ Tail(s)[i] = s[i + 1]
BY HeadTailProperties, LenProperties, EmptySeq

(* A sequence with an element more.                                        *)
LEMMA Longer ==
    ASSUME NEW S, NEW s \in Seq(S), NEW v \in S
    PROVE  /\ Append(s, v) \in Seq(S)
           /\ Len(Append(s, v)) = Len(s) + 1
           /\ Append(s, v)[Len(s) + 1] = v
           /\ \A i \in 1 .. Len(s) : Append(s, v)[i] = s[i]
OBVIOUS

-----------------------------------------------------------------------------
(* Consequences of the invariant *)

(* What the ids number are transports.                                     *)
LEMMA TransportsTyped ==
    ASSUME Typed
    PROVE  \A x \in Ids : transport[x] \in Transports
BY ElementOfSeq DEF Typed, Ids

(* What the maps hold are ids, and the numbers are numbers.                *)
LEMMA MapsTyped ==
    ASSUME Typed
    PROVE  /\ Len(transport) \in Nat
           /\ transports \in [Editors -> 0 .. Len(transport)]
           /\ retirements \in [Editors -> 0 .. Len(transport)]
           /\ \A e \in Editors : transports[e] # None => transports[e] \in Ids
           /\ \A x \in Ids : transport[x].editor \in Editors /\ x # None
<1>1. /\ Len(transport) \in Nat
      /\ transports \in [Editors -> 0 .. Len(transport)]
      /\ retirements \in [Editors -> 0 .. Len(transport)]
  BY LenProperties DEF Typed, TypeOK
<1>2. \A e \in Editors : transports[e] # None => transports[e] \in Ids
  BY <1>1 DEF Ids, None
<1>3. \A x \in Ids : transport[x].editor \in Editors
  BY TransportsTyped DEF Transports
<1>. QED
  BY <1>1, <1>2, <1>3 DEF Ids, None

(* Two transports of an editor that are not done are both in its map or    *)
(* both retired, so they are one.                                          *)
LEMMA OneTransport ==
    ASSUME Typed, Owned
    PROVE  OneTransportPerEditor
<1> SUFFICES ASSUME NEW x \in Ids, NEW y \in Ids,
                    transport[x].editor = transport[y].editor,
                    ~Done(x), ~Done(y)
             PROVE  x = y
  BY DEF OneTransportPerEditor
<1> DEFINE e == transport[x].editor
<1>1. e \in Editors /\ x # None /\ y # None
  BY MapsTyped
<1>2. transports[e] = x \/ retirements[e] = x
  BY DEF Owned
<1>3. transports[e] = y \/ retirements[e] = y
  BY DEF Owned
<1>4. transports[e] # None => retirements[e] = None
  BY <1>1 DEF Owned
<1>. QED
  BY <1>1, <1>2, <1>3, <1>4

(* Once every transport was told, each holds the host state.               *)
LEMMA InvariantImplies ==
    ASSUME IInv
    PROVE  TransportsAreOwned
<1>1. OneTransportPerEditor
  BY OneTransport DEF IInv
<1>2. HostStateReaches
  BY DEF IInv, StateTold, HostStateReaches
<1>. QED
  BY <1>1, <1>2 DEF IInv, Typed, Owned, TransportsAreOwned

(* Nothing was called and no transport was created.                        *)
LEMMA InitIInv ==
    ASSUME Init
    PROVE  IInv
<1> USE DEF Init, None, Ids
<1>1. Typed
  <2>1. TypeOK
    BY RegistryAssumption DEF RegistryBounds, TypeOK, HostStates, Stripes
  <2>2. transport \in Seq(Transports)
    BY EmptySeq
  <2>3. caller \in [Threads -> Calling]
    BY DEF NoCall, Calling, Places, Configs
  <2>4. delivered \in [Editors -> Events]
    BY DEF NoEvent, Events
  <2>. QED
    BY <2>1, <2>2, <2>3, <2>4, RegistryAssumption
       DEF Typed, AtRest, RegistryBounds
<1>2. StripesHeld /\ CallsStand
  BY DEF StripesHeld, CallsStand, NoCall, Inside, Knowing
<1>3. Owned /\ AnswersOwed /\ StateTold /\ AttachmentStands
  BY DEF Owned, DestroyedRuntimeHoldsNothing, AnswersOwed, StateTold,
         AttachmentStands
<1>4. Numbered
  BY DEF Numbered, Latest, Earlier, NoEvent
<1>5. CreationsCounted
  <2>1. Creators = {}
    BY DEF Creators, Creating, NoCall
  <2>. QED
    BY <2>1, FS_EmptySet DEF CreationsCounted
<1>. QED
  BY <1>1, <1>2, <1>3, <1>4, <1>5 DEF IInv

-----------------------------------------------------------------------------
(* A call that only moves on *)

(* What a call does with its place and its stripe concerns neither the     *)
(* transports nor, unless it waits for one, their answers.                 *)
LEMMA CallMoves ==
    ASSUME IInv, NEW t \in Threads, caller[t].at # "calling",
           \A u \in Threads \ {t} : caller'[u] = caller[u],
           UNCHANGED <<moduleVars, mapVars, eventVars, transport, attached>>
    PROVE  Owned' /\ AnswersOwed' /\ StateTold' /\ AttachmentStands' /\ Numbered'
<1> USE DEF moduleVars, mapVars, eventVars
<1>1. Owned' /\ StateTold' /\ AttachmentStands' /\ Numbered'
  BY DEF IInv, Owned, Done, Ids, DestroyedRuntimeHoldsNothing, StateTold,
         AttachmentStands, Numbered, Latest
<1>2. ASSUME NEW u \in Threads, NEW x, Awaits(u, x)
      PROVE  Awaits(u, x)'
  BY <1>2 DEF Awaits
<1>3. ASSUME NEW x \in Ids
      PROVE  TasksAwaited(x)' /\ AnswerAwaited(x)'
  <2> DEFINE tasks == transport[x].tasks
  <2>1. TasksAwaited(x) /\ AnswerAwaited(x)
    BY DEF IInv, AnswersOwed
  <2>2. transport[x].tasks \in Seq(Tasks)
    BY TransportsTyped DEF IInv, Transports
  <2>3. \A i \in DOMAIN tasks : Configures(tasks[i]) => tasks[i].by \in Threads
    <3>1. \A i \in DOMAIN tasks : tasks[i] \in Tasks
      BY <2>2, ElementOfSeq, LenProperties
    <3>. QED
      BY <3>1 DEF Configures, Tasks
  <2>. QED
    BY <2>1, <2>3, <1>2 DEF TasksAwaited, AnswerAwaited, Answering
<1>4. AnswersOwed'
  BY <1>3 DEF AnswersOwed, Ids
<1>. QED
  BY <1>1, <1>4

(* The stripes, the calls and the count of creations, after a step of the  *)
(* call of t: it stays in its stripe, or leaves it.                        *)
StaysInside(t) ==
    /\ UNCHANGED lockedBy
    /\ caller[t].at \in Inside /\ caller'[t].of = caller[t].of

LEMMA StripesKept ==
    ASSUME IInv, NEW t \in Threads,
           \A u \in Threads \ {t} : caller'[u] = caller[u],
           \/ StaysInside(t)
           \/ caller[t].at \in Inside /\ Leave(t)
    PROVE  StripesHeld' /\ lockedBy' \in [Stripes -> SUBSET Threads]
<1>1. lockedBy \in [Stripes -> SUBSET Threads] /\ caller \in [Threads -> Calling]
  BY DEF IInv, Typed, TypeOK
<1>2. CASE StaysInside(t)
  BY <1>1, <1>2 DEF IInv, StripesHeld, StaysInside
<1>3. CASE caller[t].at \in Inside /\ Leave(t)
  <2>1. caller[t].of \in Editors
    BY <1>3 DEF IInv, CallsStand, Inside
  <2>2. lockedBy' = [lockedBy EXCEPT ![StripeOf[caller[t].of]] = {}]
    BY <1>3 DEF Leave
  <2>3. lockedBy' \in [Stripes -> SUBSET Threads]
    BY <1>1, <2>2
  <2>4. caller'[t].at \notin Inside
    BY <1>1, <1>3 DEF Leave, NoCall, Inside
  <2>5. ASSUME NEW u \in Threads, caller'[u].at \in Inside
        PROVE  lockedBy'[StripeOf[caller'[u].of]] = {u}
    <3>1. u # t /\ caller'[u] = caller[u]
      BY <2>4, <2>5
    <3>2. lockedBy[StripeOf[caller[u].of]] = {u}
      BY <2>5, <3>1 DEF IInv, StripesHeld
    <3>3. lockedBy[StripeOf[caller[t].of]] = {t}
      BY <1>3 DEF IInv, StripesHeld
    <3>4. caller[u].of \in Editors
      BY <2>5, <3>1 DEF IInv, CallsStand, Inside
    <3>5. StripeOf[caller[u].of] \in Stripes
      BY <3>4 DEF Stripes
    <3>6. StripeOf[caller[u].of] # StripeOf[caller[t].of]
      BY <3>1, <3>2, <3>3
    <3>. QED
      BY <1>1, <2>2, <3>1, <3>2, <3>5, <3>6
  <2>. QED
    BY <2>3, <2>5 DEF StripesHeld
<1>. QED
  BY <1>2, <1>3

LEMMA CreatorsKept ==
    ASSUME IInv, NEW t \in Threads,
           \A u \in Threads \ {t} : caller'[u] = caller[u],
           caller'[t].at \in Creating => caller[t].at \in Creating,
           Len(transport') = Len(transport), UNCHANGED calls
    PROVE  CreationsCounted'
<1>1. Creators' = Creators \/ Creators' = Creators \ {t}
  BY DEF Creators
<1>2. IsFiniteSet(Creators) /\ Cardinality(Creators) \in Nat
  BY FS_CardinalityType DEF IInv, CreationsCounted
<1>3. /\ IsFiniteSet(Creators')
      /\ Cardinality(Creators') \in Nat
      /\ Cardinality(Creators') <= Cardinality(Creators)
  <2>1. CASE Creators' = Creators
    BY <1>2, <2>1
  <2>2. CASE Creators' = Creators \ {t}
    <3>1. /\ IsFiniteSet(Creators \ {t})
          /\ Cardinality(Creators \ {t}) =
                IF t \in Creators THEN Cardinality(Creators) - 1
                ELSE Cardinality(Creators)
      BY <1>2, FS_RemoveElement
    <3>2. Cardinality(Creators') \in Nat
      BY <2>2, <3>1, FS_CardinalityType
    <3>. QED
      BY <1>2, <2>2, <3>1, <3>2
  <2>. QED
    BY <1>1, <2>1, <2>2
<1>4. Len(transport) \in Nat /\ calls \in Nat
  BY LenProperties DEF IInv, Typed
<1>5. Len(transport) + Cardinality(Creators) <= calls
  BY DEF IInv, CreationsCounted
<1>. QED
  BY <1>2, <1>3, <1>4, <1>5 DEF CreationsCounted

(* The types of what a step of a call leaves alone.                        *)
LEMMA CallTyped ==
    ASSUME IInv, caller' \in [Threads -> Calling],
           lockedBy' \in [Stripes -> SUBSET Threads], calls' \in 0 .. MaxCalls,
           UNCHANGED <<moduleVars, mapVars, eventVars, transport, attached,
                       faults>>
    PROVE  Typed'
BY DEF IInv, Typed, TypeOK, Ids, moduleVars, mapVars, eventVars

(* How the call of another thread stands, when this one moves on.          *)
LEMMA OthersStand ==
    ASSUME IInv, NEW t \in Threads,
           \A u \in Threads \ {t} : caller'[u] = caller[u],
           UNCHANGED <<moduleVars, mapVars, transport>>,
           caller'[t].at # "idle" =>
              caller'[t].of \in Editors /\ caller'[t].owner \in 1 .. activated,
           caller'[t].at \in Knowing => caller'[t].on \in Ids,
           caller'[t].at = "creating" => retirements[caller'[t].of] = None
    PROVE  CallsStand'
BY DEF IInv, CallsStand, IsOwner, Ids, moduleVars, mapVars

(* What a call is before it returns.                                       *)
LEMMA Returned ==
    ASSUME IInv, NEW t \in Threads, Leave(t)
    PROVE  /\ caller' \in [Threads -> Calling] /\ caller'[t] = NoCall
           /\ \A u \in Threads \ {t} : caller'[u] = caller[u]
           /\ caller'[t].at \notin Creating \union Knowing
           /\ caller'[t].at = "idle"
<1>1. NoCall \in Calling
  BY DEF NoCall, Calling, Places, Configs, None
<1>2. caller \in [Threads -> Calling] /\ caller' = [caller EXCEPT ![t] = NoCall]
  BY DEF IInv, Typed, Leave
<1>3. /\ caller' \in [Threads -> Calling] /\ caller'[t] = NoCall
      /\ \A u \in Threads \ {t} : caller'[u] = caller[u]
  BY <1>1, <1>2
<1>. QED
  BY <1>3 DEF NoCall, Creating, Knowing

(* A call that goes on to a place.                                         *)
LEMMA WentOn ==
    ASSUME IInv, NEW t \in Threads, NEW p \in Places, Goes(t, p)
    PROVE  /\ caller' \in [Threads -> Calling]
           /\ caller'[t].at = p
           /\ caller'[t].of = caller[t].of
           /\ caller'[t].owner = caller[t].owner
           /\ caller'[t].on = caller[t].on
           /\ \A u \in Threads \ {t} : caller'[u] = caller[u]
<1> DEFINE c == [caller[t] EXCEPT !.at = p]
<1>1. caller \in [Threads -> Calling]
  BY DEF IInv, Typed
<1>2. caller' = [caller EXCEPT ![t] = c]
  BY DEF Goes
<1>3. /\ c \in Calling /\ c.at = p /\ c.of = caller[t].of
      /\ c.owner = caller[t].owner /\ c.on = caller[t].on
  <2>1. caller[t] \in Calling
    BY <1>1
  <2>. QED
    BY <2>1 DEF Calling
<1> HIDE DEF c
<1>. QED
  BY <1>1, <1>2, <1>3

-----------------------------------------------------------------------------
(* The steps of a call to configure *)

(* The parts of the invariant, in the order of its conjuncts.              *)
LEMMA Together ==
    ASSUME Typed', StripesHeld', CallsStand', Owned', AnswersOwed', StateTold',
           AttachmentStands', Numbered', CreationsCounted'
    PROVE  IInv'
BY DEF IInv

(* A new call is counted among those that may create a transport.          *)
LEMMA ConfigureKeeps ==
    ASSUME IInv, NEW t \in Threads, NEW e \in Editors,
           NEW wants \in {"none", "off", "on"}, Configure(t, e, wants)
    PROVE  IInv'
<1> DEFINE c == [NoCall EXCEPT !.at = "contending", !.owner = runtime,
                               !.of = e, !.wants = wants]
<1>1. /\ caller[t].at = "idle" /\ runtime # None /\ calls < MaxCalls
      /\ calls' = calls + 1
      /\ caller' = [caller EXCEPT ![t] = c]
      /\ UNCHANGED <<moduleVars, mapVars, eventVars, transport, attached, faults>>
      /\ UNCHANGED lockedBy
  BY DEF Configure
<1>2. runtime \in 1 .. activated /\ calls \in 0 .. MaxCalls /\ MaxCalls \in Nat
  <2>1. /\ runtime \in 0 .. activated /\ activated \in 0 .. MaxRuntimes
        /\ calls \in 0 .. MaxCalls
    BY DEF IInv, Typed, TypeOK
  <2>2. MaxCalls \in Nat /\ MaxRuntimes \in Nat
    BY RegistryAssumption DEF RegistryBounds
  <2>. QED
    BY <1>1, <2>1, <2>2 DEF None
<1>3. c \in Calling /\ c.at = "contending" /\ c.of = e /\ c.owner = runtime
  <2>1. runtime \in Nat
    BY DEF IInv, Typed, TypeOK
  <2>2. NoCall \in Calling
    BY DEF NoCall, Calling, Places, Configs, None
  <2>. QED
    BY <2>1, <2>2 DEF Calling, Places, Configs
<1>4. caller \in [Threads -> Calling]
  BY DEF IInv, Typed
<1>5. caller' \in [Threads -> Calling] /\ caller'[t] = c
      /\ \A u \in Threads \ {t} : caller'[u] = caller[u]
  <2> HIDE DEF c
  <2>. QED
    BY <1>1, <1>3, <1>4
<1> HIDE DEF c
<1>6. calls' \in 0 .. MaxCalls
  BY <1>1, <1>2
<1>7. Typed'
  BY <1>1, <1>5, <1>6, CallTyped DEF IInv, Typed, TypeOK
<1>8. StripesHeld'
  BY <1>1, <1>3, <1>5 DEF IInv, StripesHeld, Inside
<1>9. CallsStand'
  BY <1>1, <1>2, <1>3, <1>5, OthersStand DEF Knowing
<1>10. Owned' /\ AnswersOwed' /\ StateTold' /\ AttachmentStands' /\ Numbered'
  BY <1>1, <1>5, CallMoves
<1>11. CreationsCounted'
  <2>1. Creators' = Creators \union {t} /\ t \notin Creators
    BY <1>1, <1>3, <1>5 DEF Creators, Creating
  <2>2. IsFiniteSet(Creators) /\ Len(transport) + Cardinality(Creators) <= calls
    BY DEF IInv, CreationsCounted
  <2>3. /\ IsFiniteSet(Creators')
        /\ Cardinality(Creators') = Cardinality(Creators) + 1
    BY <2>1, <2>2, FS_AddElement
  <2>4. Len(transport) \in Nat /\ Cardinality(Creators) \in Nat
    BY <2>2, LenProperties, FS_CardinalityType DEF IInv, Typed
  <2>. QED
    BY <1>1, <1>2, <2>2, <2>3, <2>4 DEF CreationsCounted
<1>. QED
  BY <1>7, <1>8, <1>9, <1>10, <1>11, Together

(* A stripe is entered when nobody is inside.                              *)
LEMMA EnterKeeps ==
    ASSUME IInv, NEW t \in Threads, Enter(t)
    PROVE  IInv'
<1> DEFINE s == StripeOf[caller[t].of]
<1>1. /\ caller[t].at = "contending" /\ lockedBy[s] = {}
      /\ lockedBy' = [lockedBy EXCEPT ![s] = {t}]
      /\ Goes(t, "admitting")
      /\ UNCHANGED <<calls, moduleVars, mapVars, eventVars, transport, attached,
                     faults>>
  BY DEF Enter
<1>2. "admitting" \in Places
  BY DEF Places
<1>3. /\ caller' \in [Threads -> Calling]
      /\ caller'[t].at = "admitting"
      /\ caller'[t].of = caller[t].of
      /\ caller'[t].owner = caller[t].owner
      /\ \A u \in Threads \ {t} : caller'[u] = caller[u]
  BY <1>1, <1>2, WentOn
<1>4. /\ caller[t].of \in Editors /\ caller[t].owner \in 1 .. activated
      /\ s \in Stripes
  BY <1>1 DEF IInv, CallsStand, Stripes
<1>5. lockedBy \in [Stripes -> SUBSET Threads]
  BY DEF IInv, Typed, TypeOK
<1>6. lockedBy' \in [Stripes -> SUBSET Threads]
  BY <1>1, <1>4, <1>5
<1>7. Typed'
  BY <1>1, <1>3, <1>6, CallTyped DEF IInv, Typed
<1>8. StripesHeld'
  <2>1. ASSUME NEW u \in Threads, caller'[u].at \in Inside, u # t
        PROVE  lockedBy'[StripeOf[caller'[u].of]] = {u}
    <3>1. caller'[u] = caller[u]
      BY <1>3, <2>1
    <3>2. lockedBy[StripeOf[caller[u].of]] = {u}
      BY <2>1, <3>1 DEF IInv, StripesHeld
    <3>3. StripeOf[caller[u].of] \in Stripes
      BY <2>1, <3>1 DEF IInv, CallsStand, Inside, Stripes
    <3>4. StripeOf[caller[u].of] # s
      BY <1>1, <3>2
    <3>. QED
      BY <1>1, <1>5, <3>1, <3>2, <3>3, <3>4
  <2>2. lockedBy'[StripeOf[caller'[t].of]] = {t}
    BY <1>1, <1>3, <1>4, <1>5
  <2>. QED
    BY <2>1, <2>2 DEF StripesHeld
<1>9. CallsStand'
  BY <1>1, <1>3, <1>4, OthersStand DEF Knowing
<1>10. Owned' /\ AnswersOwed' /\ StateTold' /\ AttachmentStands' /\ Numbered'
  BY <1>1, <1>3, CallMoves
<1>11. CreationsCounted'
  BY <1>1, <1>3, CreatorsKept DEF Creating
<1>. QED
  BY <1>7, <1>8, <1>9, <1>10, <1>11, Together

(* A step that keeps the call in its stripe, or ends it, with the          *)
(* transports as they are.                                                 *)
LEMMA InsideKeeps ==
    ASSUME IInv, NEW t \in Threads, caller[t].at \in Inside,
           caller[t].at # "calling",
           caller' \in [Threads -> Calling],
           \A u \in Threads \ {t} : caller'[u] = caller[u],
           StaysInside(t) \/ Leave(t),
           caller'[t].at # "idle" =>
              caller'[t].of \in Editors /\ caller'[t].owner \in 1 .. activated,
           caller'[t].at \in Knowing => caller'[t].on \in Ids,
           caller'[t].at = "creating" => retirements[caller'[t].of] = None,
           caller'[t].at \in Creating => caller[t].at \in Creating,
           UNCHANGED <<calls, moduleVars, mapVars, eventVars, transport,
                       attached, faults>>
    PROVE  IInv'
<1>1. StripesHeld' /\ lockedBy' \in [Stripes -> SUBSET Threads]
  BY StripesKept
<1>2. Typed'
  BY <1>1, CallTyped DEF IInv, Typed
<1>3. CallsStand'
  BY OthersStand
<1>4. Owned' /\ AnswersOwed' /\ StateTold' /\ AttachmentStands' /\ Numbered'
  BY CallMoves
<1>5. CreationsCounted'
  BY CreatorsKept
<1>. QED
  BY <1>1, <1>2, <1>3, <1>4, <1>5, Together

LEMMA AdmitKeeps ==
    ASSUME IInv, NEW t \in Threads, Admit(t)
    PROVE  IInv'
<1> DEFINE p == IF caller[t].wants = "none" THEN "removing" ELSE "awaiting"
<1>1. /\ caller[t].at = "admitting" /\ OwnerGoes(t, p)
      /\ UNCHANGED <<calls, moduleVars, mapVars, eventVars, transport, attached,
                     faults>>
  BY DEF Admit
<1>2. p \in {"removing", "awaiting"} /\ p \in Places
  BY DEF Places
<1>3. caller[t].at \in Inside /\ caller[t].at \in Creating
  BY <1>1 DEF Inside, Creating, Places
<1>4. caller[t].of \in Editors /\ caller[t].owner \in 1 .. activated
  BY <1>1 DEF IInv, CallsStand
<1> HIDE DEF p
<1>5. CASE Goes(t, p) /\ UNCHANGED lockedBy
  BY <1>1, <1>2, <1>3, <1>4, <1>5, WentOn, InsideKeeps DEF StaysInside, Knowing
<1>6. CASE Leave(t)
  BY <1>1, <1>3, <1>6, Returned, InsideKeeps
<1>. QED
  BY <1>1, <1>5, <1>6 DEF OwnerGoes

(* A call goes on to create a transport when it finds no retirement.       *)
LEMMA AwaitRetirementKeeps ==
    ASSUME IInv, NEW t \in Threads, AwaitRetirement(t)
    PROVE  IInv'
<1> DEFINE x == retirements[caller[t].of]
           p == IF x = None THEN "creating" ELSE "waiting"
<1>1. /\ caller[t].at = "awaiting"
      /\ caller' = [caller EXCEPT ![t].at = p, ![t].on = x]
      /\ UNCHANGED <<calls, moduleVars, mapVars, eventVars, lockedBy, transport,
                     attached, faults>>
  BY DEF AwaitRetirement
<1>2. /\ p \in {"creating", "waiting"} /\ p \in Places
      /\ p = "creating" => retirements[caller[t].of] = None
  BY DEF Places
<1>3. caller[t].at \in Inside /\ caller[t].at \in Creating
  BY <1>1 DEF Inside, Creating, Places
<1>4. caller[t].of \in Editors /\ caller[t].owner \in 1 .. activated
  BY <1>1 DEF IInv, CallsStand
<1>5. x \in Nat
  BY <1>4, LenProperties DEF IInv, Typed, TypeOK
<1> HIDE DEF p, x
<1>6. caller \in [Threads -> Calling]
  BY DEF IInv, Typed
<1>7. /\ caller' \in [Threads -> Calling]
      /\ caller'[t].at = p
      /\ caller'[t].of = caller[t].of
      /\ caller'[t].owner = caller[t].owner
      /\ \A u \in Threads \ {t} : caller'[u] = caller[u]
  BY <1>1, <1>2, <1>5, <1>6 DEF Calling
<1>. QED
  BY <1>1, <1>2, <1>3, <1>4, <1>7, InsideKeeps DEF StaysInside, Knowing, Creating

LEMMA WaitKeeps ==
    ASSUME IInv, NEW t \in Threads, Wait(t)
    PROVE  IInv'
<1>1. /\ caller[t].at = "waiting" /\ Goes(t, "awaiting")
      /\ UNCHANGED <<calls, moduleVars, mapVars, eventVars, lockedBy, transport,
                     attached, faults>>
  BY DEF Wait
<1>2. "awaiting" \in Places
  BY DEF Places
<1>3. caller[t].at \in Inside /\ caller[t].at \in Creating
  BY <1>1 DEF Inside, Creating, Places
<1>4. caller[t].of \in Editors /\ caller[t].owner \in 1 .. activated
  BY <1>1 DEF IInv, CallsStand
<1>. QED
  BY <1>1, <1>2, <1>3, <1>4, WentOn, InsideKeeps DEF StaysInside, Knowing

LEMMA SettleKeeps ==
    ASSUME IInv, NEW t \in Threads, Settle(t)
    PROVE  IInv'
<1>1. /\ caller[t].at = "settling"
      /\ \/ Goes(t, "abandoning") /\ UNCHANGED lockedBy
         \/ Leave(t)
      /\ UNCHANGED <<calls, moduleVars, mapVars, eventVars, transport, attached,
                     faults>>
  BY DEF Settle
<1>2. "abandoning" \in Places
  BY DEF Places
<1>3. caller[t].at \in Inside
  BY <1>1 DEF Inside, Places
<1>4. /\ caller[t].of \in Editors /\ caller[t].owner \in 1 .. activated
      /\ caller[t].on \in Ids
  BY <1>1 DEF IInv, CallsStand, Knowing
<1>5. CASE Goes(t, "abandoning") /\ UNCHANGED lockedBy
  BY <1>1, <1>2, <1>3, <1>4, <1>5, WentOn, InsideKeeps DEF StaysInside, Creating
<1>6. CASE Leave(t)
  BY <1>1, <1>3, <1>6, Returned, InsideKeeps
<1>. QED
  BY <1>1, <1>5, <1>6

(* Whoever a task or a worker will answer waits for it.                    *)
LEMMA AnsweredAwaits ==
    ASSUME IInv, NEW x \in Ids
    PROVE  /\ transport[x].tasks \in Seq(Tasks)
           /\ \A i \in DOMAIN transport[x].tasks :
                 /\ transport[x].tasks[i] \in Tasks
                 /\ Configures(transport[x].tasks[i]) =>
                       /\ transport[x].tasks[i].by \in Threads
                       /\ caller[transport[x].tasks[i].by].at = "calling"
                       /\ caller[transport[x].tasks[i].by].on = x
           /\ Answering(x) =>
                 /\ transport[x].answers \in Threads
                 /\ caller[transport[x].answers].at = "calling"
                 /\ caller[transport[x].answers].on = x
<1>1. transport[x].tasks \in Seq(Tasks)
  BY TransportsTyped DEF IInv, Transports
<1>2. \A i \in DOMAIN transport[x].tasks : transport[x].tasks[i] \in Tasks
  BY <1>1, ElementOfSeq, LenProperties
<1>3. \A i \in DOMAIN transport[x].tasks :
         Configures(transport[x].tasks[i]) => transport[x].tasks[i].by \in Threads
  BY <1>2 DEF Configures, Tasks
<1>4. TasksAwaited(x) /\ AnswerAwaited(x)
  BY DEF IInv, AnswersOwed
<1>. QED
  BY <1>1, <1>2, <1>3, <1>4 DEF TasksAwaited, AnswerAwaited, Awaits

(* The types, when the transports and what they act on keep theirs.        *)
LEMMA WorkTyped ==
    ASSUME Typed, transport' \in Seq(Transports),
           Len(transport') = Len(transport),
           caller' \in [Threads -> Calling],
           attached' \in [Editors -> BOOLEAN],
           retirements' \in [Editors -> 0 .. Len(transport)],
           sequences' \in [Editors -> 0 .. MaxSequence],
           epochs' \in [Editors -> Nat], delivered' \in [Editors -> Events],
           faults' \in Nat,
           UNCHANGED <<moduleVars, transports, lockedBy, calls>>
    PROVE  Typed'
<1>1. Ids' = Ids
  BY DEF Ids
<1>2. \A x \in Ids : transport'[x] \in Transports
  BY ElementOfSeq DEF Ids
<1>3. TypeOK'
  BY <1>1, <1>2 DEF Typed, TypeOK, Transports, Configs, moduleVars
<1>. QED
  BY <1>1, <1>3 DEF Typed, moduleVars

(* Only tasks were added: what concerns the maps, the host state, the      *)
(* attachments and the events stands.                                      *)
SameBut(x) ==
    /\ transport'[x].editor = transport[x].editor
    /\ transport'[x].terminal = transport[x].terminal
    /\ transport'[x].config = transport[x].config
    /\ transport'[x].desired = transport[x].desired
    /\ transport'[x].believes = transport[x].believes
    /\ transport'[x].step = transport[x].step
    /\ transport'[x].event = transport[x].event

LEMMA TasksAdded ==
    ASSUME IInv, Ids' = Ids, \A x \in Ids : SameBut(x),
           UNCHANGED <<moduleVars, mapVars, eventVars, attached>>
    PROVE  Owned' /\ StateTold' /\ AttachmentStands' /\ Numbered'
<1> USE DEF moduleVars, mapVars, eventVars, SameBut
<1>1. \A x \in Ids : Done(x)' <=> Done(x)
  BY DEF Done
<1>2. \A e \in Editors : transports[e] # None => transports[e] \in Ids
  BY MapsTyped DEF IInv
<1>3. Owned'
  BY <1>1, <1>2 DEF IInv, Owned, DestroyedRuntimeHoldsNothing
<1>4. StateTold'
  BY <1>2 DEF IInv, StateTold
<1>5. AttachmentStands'
  BY <1>1 DEF IInv, AttachmentStands
<1>6. Numbered'
  BY DEF IInv, Numbered, Latest
<1>. QED
  BY <1>3, <1>4, <1>5, <1>6

(* A task to configure is given to a worker by the one thread that then    *)
(* waits for its answer.                                                   *)
LEMMA SubmitKeeps ==
    ASSUME IInv, NEW t \in Threads, Submit(t)
    PROVE  IInv'
<1>1. /\ caller[t].at = "submitting"
      /\ UNCHANGED <<calls, moduleVars, mapVars, eventVars, lockedBy, attached,
                     faults>>
  BY DEF Submit
<1>2. caller[t].at \in Inside /\ caller[t].at \notin Creating
  BY <1>1 DEF Inside, Places, Creating
<1> PICK x \in Ids : x = caller[t].on
  BY <1>1 DEF IInv, CallsStand, Knowing
<1>3. caller[t].of \in Editors /\ caller[t].owner \in 1 .. activated
  BY <1>1 DEF IInv, CallsStand
<1> DEFINE task == [does |-> "configure", by |-> t, config |-> caller[t].wants]
           tasks == transport[x].tasks
           r == [transport[x] EXCEPT !.tasks = Append(tasks, task)]
<1>4. caller \in [Threads -> Calling]
  BY DEF IInv, Typed
<1>5. CASE transport[x].terminal
  <2>1. /\ caller' = [caller EXCEPT ![t].at = "settling", ![t].error = TRUE]
        /\ UNCHANGED transport
    BY <1>5 DEF Submit
  <2>2. /\ caller' \in [Threads -> Calling]
        /\ caller'[t].at = "settling"
        /\ caller'[t].of = caller[t].of
        /\ caller'[t].owner = caller[t].owner
        /\ caller'[t].on = caller[t].on
        /\ \A u \in Threads \ {t} : caller'[u] = caller[u]
    <3> DEFINE c == [caller[t] EXCEPT !.at = "settling", !.error = TRUE]
    <3>1. caller[t] \in Calling
      BY <1>4
    <3>2. /\ c \in Calling /\ c.at = "settling" /\ c.of = caller[t].of
          /\ c.owner = caller[t].owner /\ c.on = caller[t].on
      BY <3>1 DEF Calling, Places
    <3>3. caller' = [caller EXCEPT ![t] = c]
      BY <2>1
    <3> HIDE DEF c
    <3>. QED
      BY <1>4, <3>2, <3>3
  <2>. QED
    BY <1>1, <1>2, <1>3, <2>1, <2>2, InsideKeeps DEF StaysInside, Creating
<1>6. CASE ~transport[x].terminal
  <2>1. /\ Goes(t, "calling")
        /\ transport' = [transport EXCEPT ![x].tasks = Append(@, task)]
    BY <1>6 DEF Submit
  <2>2. "calling" \in Places
    BY DEF Places
  <2>3. /\ caller' \in [Threads -> Calling]
        /\ caller'[t].at = "calling"
        /\ caller'[t].of = caller[t].of
        /\ caller'[t].owner = caller[t].owner
        /\ caller'[t].on = x
        /\ \A u \in Threads \ {t} : caller'[u] = caller[u]
    BY <2>1, <2>2, WentOn
  <2>4. transport[x] \in Transports /\ tasks \in Seq(Tasks)
    BY <1>3, TransportsTyped, AnsweredAwaits DEF IInv
  <2>5. caller[t] \in Calling
    BY <1>4
  <2>6. task \in Tasks /\ Configures(task) /\ task.by = t
    BY <2>5 DEF Tasks, Calling, Configs, Configures
  <2> HIDE DEF task, tasks
  <2>7. /\ Append(tasks, task) \in Seq(Tasks)
        /\ Len(Append(tasks, task)) = Len(tasks) + 1
        /\ Append(tasks, task)[Len(tasks) + 1] = task
        /\ \A i \in 1 .. Len(tasks) : Append(tasks, task)[i] = tasks[i]
    BY <2>4, <2>6, Longer
  <2>8. r \in Transports /\ r.tasks = Append(tasks, task)
    BY <2>4, <2>7 DEF Transports, tasks
  <2>9. /\ r.answers = transport[x].answers /\ r.step = transport[x].step
        /\ r.follows = transport[x].follows
        /\ r.editor = transport[x].editor /\ r.terminal = transport[x].terminal
        /\ r.config = transport[x].config /\ r.desired = transport[x].desired
        /\ r.believes = transport[x].believes /\ r.event = transport[x].event
    BY <2>4 DEF Transports
  <2>10. transport' = [transport EXCEPT ![x] = r]
    BY <2>1 DEF tasks
  <2> HIDE DEF r, tasks
  <2>11. transport \in Seq(Transports) /\ x \in 1 .. Len(transport)
    BY <1>3 DEF IInv, Typed, Ids
  <2>12. /\ transport' \in Seq(Transports) /\ Len(transport') = Len(transport)
         /\ transport'[x] = r
         /\ \A y \in Ids : y # x => transport'[y] = transport[y]
    BY <2>8, <2>10, <2>11, Replaced DEF Ids
  <2>13. Ids' = Ids
    BY <2>12 DEF Ids
  <2>14. Typed'
    BY <1>1, <2>3, <2>12, WorkTyped
       DEF IInv, Typed, TypeOK, moduleVars, mapVars, eventVars
  <2>15. StripesHeld'
    BY <1>1, <1>2, <2>3, StripesKept DEF StaysInside
  <2>16. CallsStand'
    BY <1>1, <1>3, <2>3, <2>13
       DEF IInv, CallsStand, IsOwner, Knowing, moduleVars, mapVars
  <2>17. \A y \in Ids : SameBut(y)
    BY <2>9, <2>12 DEF SameBut
  <2>18. Owned' /\ StateTold' /\ AttachmentStands' /\ Numbered'
    BY <1>1, <2>13, <2>17, TasksAdded
  <2>19. \A u \in Threads, y \in Ids : Awaits(u, y) => u # t /\ Awaits(u, y)'
    BY <1>1, <2>3 DEF Awaits
  <2>20. ASSUME NEW y \in Ids, y # x
         PROVE  TasksAwaited(y)' /\ AnswerAwaited(y)'
    <3>1. TasksAwaited(y) /\ AnswerAwaited(y) /\ transport'[y] = transport[y]
      BY <2>12, <2>20 DEF IInv, AnswersOwed
    <3>. QED
      BY <2>19, <3>1, AnsweredAwaits
         DEF TasksAwaited, AnswerAwaited, Answering
  <2>21. Answering(x)' <=> Answering(x)
    BY <2>9, <2>12 DEF Answering
  <2>22. AnswerAwaited(x)'
    BY <1>3, <2>9, <2>12, <2>19, <2>21, AnsweredAwaits
       DEF IInv, AnswersOwed, AnswerAwaited
  <2>23. TasksAwaited(x)'
    <3> DEFINE added == Append(tasks, task)
    <3>1. DOMAIN added = 1 .. Len(tasks) + 1 /\ Len(tasks) \in Nat
      BY <2>4, <2>7, LenProperties DEF tasks
    <3>2. \A i \in 1 .. Len(tasks) :
             Configures(tasks[i]) =>
                /\ tasks[i].by \in Threads /\ tasks[i].by # t
                /\ Awaits(tasks[i].by, x)
                /\ \A j \in 1 .. Len(tasks) :
                      Configures(tasks[j]) /\ tasks[j].by = tasks[i].by => i = j
                /\ Answering(x) => transport[x].answers # tasks[i].by
      <4>1. TasksAwaited(x) /\ DOMAIN tasks = 1 .. Len(tasks)
        BY <1>3, <2>4, LenProperties DEF IInv, AnswersOwed, tasks
      <4>2. \A i \in DOMAIN tasks : Configures(tasks[i]) => tasks[i].by \in Threads
        BY <1>3, AnsweredAwaits DEF tasks
      <4>. QED
        BY <1>3, <2>19, <4>1, <4>2 DEF TasksAwaited, tasks
    <3>3. Answering(x) => transport[x].answers # t
      BY <1>1, <1>3, AnsweredAwaits
    <3>5. transport'[x].tasks = added /\ transport'[x].answers = transport[x].answers
      BY <2>8, <2>9, <2>12
    <3> HIDE DEF added
    <3>6. /\ added[Len(tasks) + 1] = task
          /\ \A i \in 1 .. Len(tasks) : added[i] = tasks[i]
      BY <2>7 DEF added
    <3>7. ASSUME NEW i \in DOMAIN added, Configures(added[i])
          PROVE  /\ added[i].by \in Threads
                 /\ caller'[added[i].by].at = "calling"
                 /\ caller'[added[i].by].on = x
                 /\ Answering(x) => transport[x].answers # added[i].by
      <4>1. CASE i = Len(tasks) + 1
        BY <2>3, <2>6, <3>3, <3>6, <4>1
      <4>2. CASE i \in 1 .. Len(tasks)
        BY <2>19, <3>2, <3>6, <3>7, <4>2 DEF Awaits
      <4>. QED
        BY <3>1, <4>1, <4>2
    <3>8. ASSUME NEW i \in DOMAIN added, NEW j \in DOMAIN added,
                 Configures(added[i]), Configures(added[j]),
                 added[j].by = added[i].by
          PROVE  i = j
      <4>1. i \in 1 .. Len(tasks) \/ i = Len(tasks) + 1
        BY <3>1
      <4>2. j \in 1 .. Len(tasks) \/ j = Len(tasks) + 1
        BY <3>1
      <4>. QED
        BY <2>6, <3>2, <3>6, <3>8, <4>1, <4>2
    <3>9. \A i \in DOMAIN added :
             Configures(added[i]) =>
                /\ caller'[added[i].by].at = "calling"
                /\ caller'[added[i].by].on = x
                /\ \A j \in DOMAIN added :
                      Configures(added[j]) /\ added[j].by = added[i].by => i = j
                /\ Answering(x)' => transport'[x].answers # added[i].by
      BY <2>21, <3>5, <3>7, <3>8
    <3>. QED
      BY <3>5, <3>9 DEF TasksAwaited, Configures, Awaits
  <2>24. AnswersOwed'
    BY <2>13, <2>20, <2>22, <2>23 DEF AnswersOwed
  <2>25. CreationsCounted'
    BY <1>1, <2>3, <2>12, CreatorsKept DEF Creating
  <2>. QED
    BY <2>14, <2>15, <2>16, <2>18, <2>24, <2>25, Together
<1>. QED
  BY <1>5, <1>6

(* A transport is created for an editor that has none in the map and none  *)
(* being retired.                                                          *)
LEMMA CreateKeeps ==
    ASSUME IInv, NEW t \in Threads, NEW e \in Editors, e = caller[t].of,
           caller[t].at = "creating", IsOwner(t), transports[e] = None,
           transport' = Append(transport, NewTransport(e)),
           transports' = [transports EXCEPT ![e] = Len(transport) + 1],
           caller' = [caller EXCEPT ![t].at = "submitting",
                                    ![t].on = Len(transport) + 1,
                                    ![t].created = TRUE],
           UNCHANGED <<calls, moduleVars, retirements, eventVars, attached,
                       faults, lockedBy>>
    PROVE  IInv'
<1> PICK x \in Nat \ {0} : x = Len(transport) + 1
  BY LenProperties DEF IInv, Typed
<1> DEFINE n == NewTransport(e)
<1> USE DEF moduleVars, eventVars
<1>1. /\ caller[t].at \in Inside /\ caller[t].owner \in 1 .. activated
      /\ retirements[e] = None
      /\ runtime = caller[t].owner
  BY DEF Inside, Places, IInv, CallsStand, IsOwner
<1>2. caller \in [Threads -> Calling] /\ transport \in Seq(Transports)
  BY DEF IInv, Typed
<1>3. /\ caller' \in [Threads -> Calling]
      /\ caller'[t].at = "submitting"
      /\ caller'[t].of = e
      /\ caller'[t].owner = caller[t].owner
      /\ caller'[t].on = x
      /\ \A u \in Threads \ {t} : caller'[u] = caller[u]
  <2> DEFINE c == [caller[t] EXCEPT !.at = "submitting", !.on = x,
                                    !.created = TRUE]
  <2>1. caller[t] \in Calling /\ x \in Nat
    BY <1>2
  <2>2. /\ c \in Calling /\ c.at = "submitting" /\ c.on = x
        /\ c.of = caller[t].of /\ c.owner = caller[t].owner
    BY <2>1 DEF Calling, Places
  <2>3. caller' = [caller EXCEPT ![t] = c]
    OBVIOUS
  <2> HIDE DEF c
  <2>. QED
    BY <1>2, <2>2, <2>3
<1>4. n \in Transports
  <2>1. hostState \in HostStates
    BY DEF IInv, Typed, TypeOK
  <2>2. [does |-> "host"] \in Tasks
    BY DEF Tasks
  <2>3. <<[does |-> "host"]>> \in Seq(Tasks)
    BY <2>2
  <2>4. NoEvent \in Events
    BY DEF NoEvent, Events, None
  <2>. QED
    BY <2>1, <2>3, <2>4 DEF NewTransport, Transports, Configs
<1>5. /\ n.editor = e /\ ~n.terminal /\ n.config = "none" /\ n.step = "idle"
      /\ n.desired = hostState /\ n.tasks = <<[does |-> "host"]>>
  BY DEF NewTransport
<1> HIDE DEF n
<1>6. /\ transport' \in Seq(Transports) /\ Len(transport') = x
      /\ transport'[x] = n
      /\ \A y \in Ids : transport'[y] = transport[y]
  BY <1>2, <1>4, Longer DEF Ids, n
<1>7. Ids' = Ids \union {x} /\ x \notin Ids /\ Ids = 1 .. Len(transport)
  BY <1>2, <1>6, LenProperties DEF Ids
<1>8. Len(transport) \in Nat /\ x = Len(transport) + 1
  BY <1>2, LenProperties
<1>9. transports \in [Editors -> 0 .. Len(transport)]
  BY DEF IInv, Typed, TypeOK
<1>10. /\ transports' \in [Editors -> 0 .. x] /\ transports'[e] = x
       /\ \A f \in Editors : f # e => transports'[f] = transports[f]
  BY <1>8, <1>9
<1>11. \A y \in Ids : Done(y)' <=> Done(y)
  BY <1>6 DEF Done
<1>12. CreationsCounted' /\ x <= MaxCalls
  <2>1. Creators' = Creators \ {t} /\ t \in Creators
    BY <1>3 DEF Creators, Creating
  <2>2. IsFiniteSet(Creators) /\ Len(transport) + Cardinality(Creators) <= calls
    BY DEF IInv, CreationsCounted
  <2>3. /\ IsFiniteSet(Creators')
        /\ Cardinality(Creators') = Cardinality(Creators) - 1
    BY <2>1, <2>2, FS_RemoveElement
  <2>4. Cardinality(Creators) \in Nat /\ Cardinality(Creators') \in Nat
    BY <2>2, <2>3, FS_CardinalityType
  <2>5. calls \in 0 .. MaxCalls /\ MaxCalls \in Nat
    BY RegistryAssumption DEF IInv, Typed, RegistryBounds
  <2>6. Len(transport') + Cardinality(Creators') <= calls
    BY <1>6, <1>8, <2>2, <2>3, <2>4
  <2>. QED
    BY <1>6, <1>8, <2>3, <2>4, <2>5, <2>6 DEF CreationsCounted
<1>13. Typed'
  <2>1. \A y \in Ids' : transport'[y] \in Transports
    BY <1>6, ElementOfSeq DEF Ids
  <2>2. retirements \in [Editors -> 0 .. x]
    BY <1>8 DEF IInv, Typed, TypeOK
  <2>3. TypeOK'
    BY <1>6, <1>10, <1>12, <2>1, <2>2
       DEF IInv, Typed, TypeOK, Transports, Configs
  <2>4. module.pending \in SUBSET (Ids')
    BY <1>7 DEF IInv, Typed
  <2>. QED
    BY <1>3, <1>6, <2>3, <2>4 DEF IInv, Typed
<1>14. StripesHeld'
  BY <1>1, <1>3, StripesKept DEF StaysInside
<1>15. CallsStand'
  BY <1>1, <1>3, <1>7 DEF IInv, CallsStand, IsOwner
<1>16. Owned'
  <2>1. ASSUME NEW f \in Editors, transports'[f] # None
        PROVE  /\ transport'[transports'[f]].editor = f
               /\ ~transport'[transports'[f]].terminal
               /\ retirements[f] = None
    <3>1. CASE f = e
      BY <1>1, <1>5, <1>6, <1>10, <3>1
    <3>2. CASE f # e
      <4>1. transports[f] # None /\ transports'[f] = transports[f]
        BY <1>10, <2>1, <3>2
      <4>2. transports[f] \in Ids
        BY <1>7, <1>8, <1>9, <4>1 DEF None
      <4>3. transport'[transports'[f]] = transport[transports[f]]
        BY <1>6, <4>1, <4>2
      <4>. QED
        BY <4>1, <4>3 DEF IInv, Owned
    <3>. QED
      BY <3>1, <3>2
  <2>2. ASSUME NEW y \in Ids', ~Done(y)'
        PROVE  \/ transports'[transport'[y].editor] = y
               \/ retirements[transport'[y].editor] = y
    <3>1. CASE y = x
      BY <1>5, <1>6, <1>10, <3>1
    <3>2. CASE y \in Ids
      <4>1. transport'[y] = transport[y] /\ ~Done(y) /\ transport[y].editor \in Editors
        BY <1>6, <1>11, <2>2, <3>2, TransportsTyped DEF IInv, Transports
      <4>2. \/ transports[transport[y].editor] = y
            \/ retirements[transport[y].editor] = y
        BY <3>2, <4>1 DEF IInv, Owned
      <4>3. y # None
        BY <1>7, <3>2 DEF None
      <4>. QED
        BY <1>10, <4>1, <4>2, <4>3
    <3>. QED
      BY <1>7, <3>1, <3>2
  <2>3. runtime # None
    BY <1>1 DEF None
  <2>. QED
    BY <2>1, <2>2, <2>3 DEF Owned, DestroyedRuntimeHoldsNothing
<1>17. AnswersOwed'
  <2>1. \A u \in Threads, y \in Ids : Awaits(u, y) => Awaits(u, y)'
    BY <1>3 DEF Awaits
  <2>2. ASSUME NEW y \in Ids
        PROVE  TasksAwaited(y)' /\ AnswerAwaited(y)'
    <3>1. TasksAwaited(y) /\ AnswerAwaited(y) /\ transport'[y] = transport[y]
      BY <1>6 DEF IInv, AnswersOwed
    <3>. QED
      BY <2>1, <3>1, AnsweredAwaits DEF TasksAwaited, AnswerAwaited, Answering
  <2>3. \A i \in DOMAIN n.tasks : ~Configures(n.tasks[i])
    BY <1>5 DEF Configures
  <2>4. TasksAwaited(x)' /\ AnswerAwaited(x)'
    BY <1>5, <1>6, <2>3 DEF TasksAwaited, AnswerAwaited, Answering, Configures
  <2>. QED
    BY <1>7, <2>2, <2>4 DEF AnswersOwed
<1>18. StateTold'
  <2>1. ASSUME NEW f \in Editors, transports'[f] # None, f # e
        PROVE  /\ transports'[f] = transports[f] /\ transports[f] # None
               /\ transport'[transports'[f]].desired = transport[transports[f]].desired
    <3>1. transports'[f] = transports[f] /\ transports[f] \in Ids
      BY <1>7, <1>8, <1>9, <1>10, <2>1 DEF None
    <3>. QED
      BY <1>6, <2>1, <3>1
  <2>2. transport'[transports'[e]].desired = hostState
    BY <1>5, <1>6, <1>10
  <2>. QED
    BY <2>1, <2>2 DEF IInv, StateTold
<1>19. AttachmentStands'
  BY <1>5, <1>6, <1>7, <1>11 DEF IInv, AttachmentStands
<1>20. Numbered'
  BY <1>5, <1>6, <1>7 DEF IInv, Numbered, Latest
<1>. QED
  BY <1>12, <1>13, <1>14, <1>15, <1>16, <1>17, <1>18, <1>19, <1>20, Together

(* A call finds its transport, creates it, or its owner is gone.           *)
LEMMA GetOrCreateKeeps ==
    ASSUME IInv, NEW t \in Threads, GetOrCreate(t)
    PROVE  IInv'
<1>1. /\ caller[t].at = "creating"
      /\ UNCHANGED <<calls, moduleVars, retirements, eventVars, attached, faults>>
  BY DEF GetOrCreate
<1>2. caller[t].at \in Inside
  BY <1>1 DEF Inside, Places
<1>3. caller[t].of \in Editors /\ caller[t].owner \in 1 .. activated
  BY <1>1 DEF IInv, CallsStand
<1>4. CASE ~IsOwner(t)
  <2>1. Leave(t) /\ UNCHANGED <<transport, transports>>
    BY <1>4 DEF GetOrCreate
  <2>. QED
    BY <1>1, <1>2, <2>1, Returned, InsideKeeps DEF mapVars
<1>5. CASE IsOwner(t) /\ transports[caller[t].of] # None
  <2> DEFINE x == transports[caller[t].of]
             c == [caller[t] EXCEPT !.at = "submitting", !.on = x]
  <2>1. /\ caller' = [caller EXCEPT ![t] = c]
        /\ UNCHANGED <<lockedBy, transport, transports>>
    BY <1>5 DEF GetOrCreate
  <2>2. x \in Ids /\ x \in Nat
    BY <1>3, <1>5, LenProperties DEF IInv, Typed, TypeOK, Ids, None
  <2>3. caller \in [Threads -> Calling] /\ caller[t] \in Calling
    BY DEF IInv, Typed
  <2> HIDE DEF x
  <2>4. /\ c \in Calling /\ c.at = "submitting" /\ c.on = x
        /\ c.of = caller[t].of /\ c.owner = caller[t].owner
    BY <2>2, <2>3 DEF Calling, Places
  <2> HIDE DEF c
  <2>5. /\ caller' \in [Threads -> Calling] /\ caller'[t] = c
        /\ \A u \in Threads \ {t} : caller'[u] = caller[u]
    BY <2>1, <2>3, <2>4
  <2>. QED
    BY <1>1, <1>2, <1>3, <2>1, <2>2, <2>4, <2>5, InsideKeeps
       DEF StaysInside, Creating, mapVars
<1>6. CASE IsOwner(t) /\ transports[caller[t].of] = None
  BY <1>1, <1>3, <1>6, CreateKeeps DEF GetOrCreate
<1>. QED
  BY <1>4, <1>5, <1>6

-----------------------------------------------------------------------------
(* Retirement *)

(* The transports of some editors are retired, of those that have one.     *)
Retiring(es) ==
    /\ transport' =
         Retired({transports[e] : e \in {f \in es : transports[f] # None}})
    /\ retirements' = [e \in Editors |->
                         IF e \in es /\ transports[e] # None THEN transports[e]
                         ELSE retirements[e]]
    /\ transports' = [e \in Editors |-> IF e \in es THEN None ELSE transports[e]]

(* The retirement of one editor, whether or not it has a transport.        *)
LEMMA RetireOne ==
    ASSUME IInv, NEW e \in Editors, Retire(e)
    PROVE  Retiring({e})
<1>1. transport \in Seq(Transports) /\ transports \in [Editors -> 0 .. Len(transport)]
      /\ retirements \in [Editors -> 0 .. Len(transport)]
  BY DEF IInv, Typed, TypeOK
<1>2. CASE transports[e] = None
  <2>1. {transports[f] : f \in {g \in {e} : transports[g] # None}} = {}
    BY <1>2
  <2>2. Retired({}) = [x \in Ids |-> transport[x]]
    BY DEF Retired
  <2>3. transport = [x \in Ids |-> transport[x]]
    BY <1>1, LenProperties DEF Ids
  <2>4. UNCHANGED <<transport, transports, retirements>>
    BY <1>2 DEF Retire
  <2>. QED
    BY <1>1, <1>2, <2>1, <2>2, <2>3, <2>4 DEF Retiring
<1>3. CASE transports[e] # None
  <2>1. {transports[f] : f \in {g \in {e} : transports[g] # None}} = {transports[e]}
    BY <1>3
  <2>2. /\ transport' = Retired({transports[e]})
        /\ retirements' = [retirements EXCEPT ![e] = transports[e]]
        /\ transports' = [transports EXCEPT ![e] = None]
    BY <1>3 DEF Retire
  <2>. QED
    BY <1>1, <1>3, <2>1, <2>2 DEF Retiring
<1>. QED
  BY <1>2, <1>3

(* What retirement does to a transport: it is asked to destroy itself, or  *)
(* nothing.                                                                *)
Asked(x) ==
    /\ transport'[x].terminal /\ transport'[x].desired = "detached"
    /\ transport'[x].tasks = Append(transport[x].tasks, [does |-> "destroy"])

Untouched(x) ==
    /\ transport'[x].editor = transport[x].editor
    /\ transport'[x].config = transport[x].config
    /\ transport'[x].believes = transport[x].believes
    /\ transport'[x].step = transport[x].step
    /\ transport'[x].follows = transport[x].follows
    /\ transport'[x].answers = transport[x].answers
    /\ transport'[x].event = transport[x].event

LEMMA RetiredEffect ==
    ASSUME IInv, NEW xs \in SUBSET Ids, transport' = Retired(xs)
    PROVE  /\ transport' \in Seq(Transports) /\ Len(transport') = Len(transport)
           /\ Ids' = Ids
           /\ \A x \in Ids : Untouched(x)
           /\ \A x \in xs : Asked(x)
           /\ \A x \in Ids \ xs : transport'[x] = transport[x]
<1> DEFINE destroy == [does |-> "destroy"]
           R(x) == [transport[x] EXCEPT !.terminal = TRUE, !.desired = "detached",
                                        !.tasks = Append(@, destroy)]
<1>1. transport \in Seq(Transports) /\ Ids = 1 .. Len(transport)
      /\ Len(transport) \in Nat
  BY LenProperties DEF IInv, Typed, Ids
<1>2. destroy \in Tasks
  BY DEF Tasks
<1>3. ASSUME NEW x \in Ids
      PROVE  /\ R(x) \in Transports
             /\ R(x).terminal /\ R(x).desired = "detached"
             /\ R(x).tasks = Append(transport[x].tasks, destroy)
             /\ R(x).editor = transport[x].editor
             /\ R(x).config = transport[x].config
             /\ R(x).believes = transport[x].believes
             /\ R(x).step = transport[x].step
             /\ R(x).follows = transport[x].follows
             /\ R(x).answers = transport[x].answers
             /\ R(x).event = transport[x].event
  <2>1. transport[x] \in Transports
    BY TransportsTyped DEF IInv
  <2>2. Append(transport[x].tasks, destroy) \in Seq(Tasks)
    BY <1>2, <2>1 DEF Transports
  <2> HIDE DEF destroy
  <2>. QED
    BY <2>1, <2>2 DEF Transports, HostStates
<1>4. transport' = [x \in 1 .. Len(transport) |->
                      IF x \in xs THEN R(x) ELSE transport[x]]
  BY <1>1 DEF Retired
<1> HIDE DEF R
<1>5. \A x \in 1 .. Len(transport) : transport[x] \in Transports /\ R(x) \in Transports
  BY <1>1, <1>3, TransportsTyped DEF IInv
<1>6. transport' \in Seq(Transports) /\ Len(transport') = Len(transport)
  <2>1. transport' \in [1 .. Len(transport) -> Transports]
    BY <1>4, <1>5
  <2>. QED
    BY <1>1, <2>1
<1>7. Ids' = Ids
  BY <1>6 DEF Ids
<1>8. \A x \in Ids : transport'[x] = IF x \in xs THEN R(x) ELSE transport[x]
  BY <1>1, <1>4
<1>9. \A x \in xs : Asked(x)
  BY <1>3, <1>8 DEF Asked
<1>10. \A x \in Ids : Untouched(x)
  BY <1>3, <1>8 DEF Untouched
<1>. QED
  BY <1>6, <1>7, <1>8, <1>9, <1>10

(* What a worker is given that asks for no answer leaves the answers owed  *)
(* as they are.                                                            *)
Given(x, task) ==
    /\ transport'[x].tasks \in {transport[x].tasks,
                                Append(transport[x].tasks, task)}
    /\ transport'[x].step = transport[x].step
    /\ transport'[x].follows = transport[x].follows
    /\ transport'[x].answers = transport[x].answers

LEMMA NothingAsked ==
    ASSUME IInv, NEW task \in Tasks, ~Configures(task), Ids' = Ids,
           \A x \in Ids : Given(x, task),
           \A u \in Threads : caller[u].at = "calling" => caller'[u] = caller[u]
    PROVE  AnswersOwed'
<1> SUFFICES ASSUME NEW x \in Ids
             PROVE  TasksAwaited(x)' /\ AnswerAwaited(x)'
  BY DEF AnswersOwed
<1> DEFINE tasks == transport[x].tasks
           given == transport'[x].tasks
<1>1. /\ tasks \in Seq(Tasks)
      /\ \A i \in DOMAIN tasks : Configures(tasks[i]) => tasks[i].by \in Threads
      /\ Answering(x) => transport[x].answers \in Threads
  BY AnsweredAwaits
<1>2. TasksAwaited(x) /\ AnswerAwaited(x)
  BY DEF IInv, AnswersOwed
<1>3. \A u \in Threads : Awaits(u, x) => Awaits(u, x)'
  BY DEF Awaits
<1>4. /\ Answering(x)' <=> Answering(x)
      /\ transport'[x].answers = transport[x].answers
      /\ given \in {tasks, Append(tasks, task)}
  BY DEF Answering, Given
<1>5. AnswerAwaited(x)'
  BY <1>1, <1>2, <1>3, <1>4 DEF AnswerAwaited
<1>6. \A i \in DOMAIN given :
         Configures(given[i]) => i \in DOMAIN tasks /\ given[i] = tasks[i]
  <2> HIDE DEF tasks, given
  <2>1. CASE given = tasks
    BY <2>1
  <2>2. CASE given = Append(tasks, task)
    <3>1. DOMAIN given = 1 .. Len(tasks) + 1 /\ DOMAIN tasks = 1 .. Len(tasks)
          /\ Len(tasks) \in Nat
      BY <1>1, <2>2, Longer, LenProperties
    <3>2. /\ given[Len(tasks) + 1] = task
          /\ \A i \in 1 .. Len(tasks) : given[i] = tasks[i]
      BY <1>1, <2>2, Longer
    <3>3. \A i \in DOMAIN given : i \in 1 .. Len(tasks) \/ i = Len(tasks) + 1
      BY <3>1
    <3>. QED
      BY <3>1, <3>2, <3>3
  <2>. QED
    BY <1>4, <2>1, <2>2
<1>7. \A i \in DOMAIN tasks :
         Configures(tasks[i]) =>
            /\ caller'[tasks[i].by].at = "calling" /\ caller'[tasks[i].by].on = x
            /\ \A j \in DOMAIN tasks :
                  Configures(tasks[j]) /\ tasks[j].by = tasks[i].by => i = j
            /\ Answering(x) => transport[x].answers # tasks[i].by
  BY <1>1, <1>2, <1>3 DEF TasksAwaited, Awaits
<1>8. \A i \in DOMAIN given :
         Configures(given[i]) =>
            /\ caller'[given[i].by].at = "calling" /\ caller'[given[i].by].on = x
            /\ \A j \in DOMAIN given :
                  Configures(given[j]) /\ given[j].by = given[i].by => i = j
            /\ Answering(x)' => transport'[x].answers # given[i].by
  <2> HIDE DEF tasks, given
  <2>. QED
    BY <1>4, <1>6, <1>7
<1>9. TasksAwaited(x)'
  BY <1>8 DEF TasksAwaited, Awaits, Configures
<1>. QED
  BY <1>5, <1>9

(* Whom a retirement concerns: the transports of es, each its editor's.    *)
LEMMA RetiringWhom ==
    ASSUME IInv, NEW es \in SUBSET Editors, Retiring(es)
    PROVE  /\ transport' \in Seq(Transports) /\ Len(transport') = Len(transport)
           /\ Ids' = Ids
           /\ \A x \in Ids : Untouched(x) /\ Given(x, [does |-> "destroy"])
           /\ \A e \in Editors \ es :
                 transports[e] # None =>
                    transport'[transports[e]] = transport[transports[e]]
           /\ transports' \in [Editors -> 0 .. Len(transport)]
           /\ retirements' \in [Editors -> 0 .. Len(transport)]
<1> DEFINE xs == {transports[e] : e \in {f \in es : transports[f] # None}}
<1>1. /\ transports \in [Editors -> 0 .. Len(transport)]
      /\ retirements \in [Editors -> 0 .. Len(transport)]
      /\ Len(transport) \in Nat
  BY LenProperties DEF IInv, Typed, TypeOK
<1>2. \A e \in Editors : transports[e] # None => transports[e] \in Ids
  BY <1>1 DEF Ids, None
<1>3. xs \in SUBSET Ids /\ transport' = Retired(xs)
  BY <1>2 DEF Retiring
<1>4. \A e \in Editors \ es : transports[e] # None => transports[e] \notin xs
  BY <1>2 DEF IInv, Owned
<1>5. \A x \in Ids : Given(x, [does |-> "destroy"])
  <2> HIDE DEF xs
  <2>1. \A x \in Ids : Untouched(x)
                       /\ (x \in xs => Asked(x))
                       /\ (x \notin xs => transport'[x] = transport[x])
    BY <1>3, RetiredEffect
  <2>. QED
    BY <2>1 DEF Untouched, Asked, Given
<1>6. /\ transports' \in [Editors -> 0 .. Len(transport)]
      /\ retirements' \in [Editors -> 0 .. Len(transport)]
  BY <1>1 DEF Retiring, None
<1> HIDE DEF xs
<1>. QED
  BY <1>2, <1>3, <1>4, <1>5, <1>6, RetiredEffect

(* The transports stay owned: by their retirement instead of the map.      *)
LEMMA RetiringKeeps ==
    ASSUME IInv, NEW es \in SUBSET Editors, Retiring(es),
           \A u \in Threads : caller[u].at = "calling" => caller'[u] = caller[u],
           UNCHANGED <<attached, module>>,
           UNCHANGED <<runtime, hostState>> \/ es = Editors
    PROVE  Owned' /\ AnswersOwed' /\ StateTold' /\ AttachmentStands'
<1>1. /\ Ids' = Ids
      /\ \A x \in Ids : Untouched(x) /\ Given(x, [does |-> "destroy"])
      /\ \A e \in Editors \ es :
            transports[e] # None =>
               transport'[transports[e]] = transport[transports[e]]
  BY RetiringWhom
<1>2. \A x \in Ids : Done(x)' <=> Done(x)
  BY <1>1 DEF Done, Untouched
<1>3. \A e \in Editors :
         /\ transports'[e] = IF e \in es THEN None ELSE transports[e]
         /\ retirements'[e] = IF e \in es /\ transports[e] # None
                                THEN transports[e] ELSE retirements[e]
  BY DEF Retiring
<1>4. Owned'
  <2>1. ASSUME NEW e \in Editors, transports'[e] # None
        PROVE  /\ transport'[transports'[e]].editor = e
               /\ ~transport'[transports'[e]].terminal
               /\ retirements'[e] = None
    BY <1>1, <1>3, <2>1 DEF IInv, Owned
  <2>2. ASSUME NEW x \in Ids, ~Done(x)'
        PROVE  \/ transports'[transport'[x].editor] = x
               \/ retirements'[transport'[x].editor] = x
    <3> DEFINE e == transport[x].editor
    <3>1. e \in Editors /\ transport'[x].editor = e /\ x # None
      BY <1>1, TransportsTyped DEF IInv, Transports, Untouched, Ids, None
    <3>2. transports[e] = x \/ retirements[e] = x
      BY <1>2, <2>2 DEF IInv, Owned
    <3>3. transports[e] # None => retirements[e] = None
      BY <3>1 DEF IInv, Owned
    <3>. QED
      BY <1>3, <3>1, <3>2, <3>3
  <2>3. DestroyedRuntimeHoldsNothing'
    BY <1>3 DEF IInv, Owned, DestroyedRuntimeHoldsNothing
  <2>. QED
    BY <1>1, <2>1, <2>2, <2>3 DEF Owned
<1>5. AnswersOwed'
  <2>1. [does |-> "destroy"] \in Tasks /\ ~Configures([does |-> "destroy"])
    BY DEF Tasks, Configures
  <2>. QED
    BY <1>1, <2>1, NothingAsked
<1>6. StateTold'
  <2>1. ASSUME NEW e \in Editors, transports'[e] # None
        PROVE  /\ transports'[e] = transports[e]
               /\ transport'[transports[e]] = transport[transports[e]]
               /\ UNCHANGED hostState
    BY <1>1, <1>3, <2>1
  <2>. QED
    BY <2>1 DEF IInv, StateTold
<1>7. AttachmentStands'
  BY <1>1, <1>2 DEF IInv, AttachmentStands, Untouched
<1>. QED
  BY <1>4, <1>5, <1>6, <1>7

-----------------------------------------------------------------------------
(* Numbering *)

(* A numbering that begins anew is later than every event so far.          *)
LEMMA RenumberKeeps ==
    ASSUME IInv, NEW es \in SUBSET Editors,
           Renumber(es) \/ UNCHANGED eventVars,
           Ids' = Ids, \A x \in Ids : Untouched(x)
    PROVE  /\ Numbered'
           /\ sequences' \in [Editors -> 0 .. MaxSequence]
           /\ epochs' \in [Editors -> Nat]
           /\ delivered' = delivered
<1>1. /\ sequences \in [Editors -> 0 .. MaxSequence]
      /\ epochs \in [Editors -> Nat]
      /\ delivered \in [Editors -> Events]
      /\ MaxSequence \in Nat
  BY RegistryAssumption DEF IInv, Typed, TypeOK, RegistryBounds
<1>2. /\ sequences' \in [Editors -> 0 .. MaxSequence]
      /\ epochs' \in [Editors -> Nat]
      /\ delivered' = delivered
  BY <1>1 DEF Renumber, eventVars
<1>3. ASSUME NEW e \in Editors, NEW event \in Events, ~Earlier(Latest(e), event)
      PROVE  ~Earlier(Latest(e)', event)
  <2>1. /\ sequences[e] \in Nat /\ epochs[e] \in Nat
        /\ event.epoch \in Nat /\ event.sequence \in Nat
    BY <1>1 DEF Events
  <2>2. \/ epochs'[e] = epochs[e] /\ sequences'[e] = sequences[e]
        \/ epochs'[e] = epochs[e] + 1 /\ sequences'[e] = 0
    BY <1>1 DEF Renumber, eventVars
  <2>. QED
    BY <1>3, <2>1, <2>2 DEF Earlier, Latest
<1>4. \A e \in Editors : ~Earlier(Latest(e)', delivered'[e])
  BY <1>1, <1>2, <1>3 DEF IInv, Numbered
<1>5. ASSUME NEW x \in Ids, transport'[x].step \in {"picking", "emitting"},
             NEW e \in Editors, e = transport'[x].editor
      PROVE  /\ Earlier(delivered'[e], transport'[x].event)
             /\ ~Earlier(Latest(e)', transport'[x].event)
  <2>1. /\ transport[x].editor = e /\ transport[x].event \in Events
        /\ transport'[x].event = transport[x].event
        /\ transport[x].step \in {"picking", "emitting"}
    BY <1>5, TransportsTyped DEF IInv, Transports, Untouched
  <2>2. /\ Earlier(delivered[e], transport[x].event)
        /\ ~Earlier(Latest(e), transport[x].event)
    BY <2>1 DEF IInv, Numbered
  <2>. QED
    BY <1>2, <1>3, <2>1, <2>2
<1>6. \A x \in Ids : transport'[x].editor \in Editors
  BY TransportsTyped DEF IInv, Transports, Untouched
<1>7. Numbered'
  BY <1>4, <1>5, <1>6 DEF Numbered, Earlier, Latest
<1>. QED
  BY <1>2, <1>7

(* Nobody began a call and nothing was created.                            *)
LEMMA NothingCreated ==
    ASSUME IInv, UNCHANGED <<caller, calls>>, Len(transport') = Len(transport)
    PROVE  CreationsCounted'
BY DEF IInv, CreationsCounted, Creators

-----------------------------------------------------------------------------
(* The steps that retire *)

(* The types after a retirement.                                           *)
LEMMA RetiringTyped ==
    ASSUME IInv, NEW es \in SUBSET Editors, Retiring(es),
           caller' \in [Threads -> Calling],
           lockedBy' \in [Stripes -> SUBSET Threads],
           sequences' \in [Editors -> 0 .. MaxSequence],
           epochs' \in [Editors -> Nat], delivered' = delivered,
           runtime' \in {None, runtime}, emitter' \in {None, emitter},
           hostState' \in HostStates,
           UNCHANGED <<activated, module, moves, calls, attached, faults>>
    PROVE  Typed'
<1>1. /\ transport' \in Seq(Transports) /\ Len(transport') = Len(transport)
      /\ Ids' = Ids
      /\ transports' \in [Editors -> 0 .. Len(transport)]
      /\ retirements' \in [Editors -> 0 .. Len(transport)]
  BY RetiringWhom
<1>2. \A x \in Ids : transport'[x] \in Transports
  BY <1>1, ElementOfSeq DEF Ids
<1>3. runtime' \in 0 .. activated /\ emitter' \in 0 .. activated
  BY RegistryAssumption DEF IInv, Typed, TypeOK, RegistryBounds, None
<1>4. TypeOK'
  BY <1>1, <1>2, <1>3 DEF IInv, Typed, TypeOK, Transports, Configs
<1>. QED
  BY <1>1, <1>4 DEF IInv, Typed

(* The transport of the editor of the call is retired, and the call        *)
(* returns: nobody else is creating one for the editor.                    *)
LEMMA RetireAndLeaveKeeps ==
    ASSUME IInv, NEW t \in Threads, caller[t].at \in Inside,
           caller[t].at # "calling", Retire(caller[t].of), Leave(t),
           UNCHANGED <<calls, moduleVars, eventVars, attached, faults>>
    PROVE  IInv'
<1> PICK e \in Editors : e = caller[t].of
  BY DEF IInv, CallsStand, Inside
<1> USE DEF moduleVars, eventVars
<1>1. Retiring({e})
  BY RetireOne
<1>2. /\ transport' \in Seq(Transports) /\ Len(transport') = Len(transport)
      /\ Ids' = Ids
      /\ \A x \in Ids : Untouched(x)
      /\ \A f \in Editors \ {e} : retirements'[f] = retirements[f]
  BY <1>1, RetiringWhom DEF Retiring
<1>3. /\ caller' \in [Threads -> Calling]
      /\ \A u \in Threads \ {t} : caller'[u] = caller[u]
      /\ caller'[t].at \notin Creating \union Knowing
      /\ caller'[t].at = "idle"
  BY Returned
<1>4. StripesHeld' /\ lockedBy' \in [Stripes -> SUBSET Threads]
  BY <1>3, StripesKept
<1>5. Typed'
  BY <1>1, <1>3, <1>4, RetiringTyped DEF IInv, Typed, TypeOK
<1>6. CallsStand'
  <2>1. ASSUME NEW u \in Threads, u # t, caller[u].at = "creating", IsOwner(u)
        PROVE  retirements'[caller[u].of] = None
    <3>1. caller[u].at \in Inside /\ caller[u].of \in Editors
      BY <2>1 DEF Inside, Places, IInv, CallsStand
    <3>2. lockedBy[StripeOf[caller[u].of]] = {u} /\ lockedBy[StripeOf[e]] = {t}
      BY <3>1 DEF IInv, StripesHeld
    <3>3. caller[u].of # e
      BY <2>1, <3>2
    <3>. QED
      BY <1>2, <2>1, <3>1, <3>3 DEF IInv, CallsStand
  <2>. QED
    BY <1>2, <1>3, <2>1 DEF IInv, CallsStand, IsOwner
<1>7. Owned' /\ AnswersOwed' /\ StateTold' /\ AttachmentStands'
  BY <1>1, <1>3, RetiringKeeps
<1>8. Numbered'
  BY <1>2, RenumberKeeps
<1>9. CreationsCounted'
  BY <1>2, <1>3, CreatorsKept
<1>. QED
  BY <1>4, <1>5, <1>6, <1>7, <1>8, <1>9, Together

LEMMA RemoveKeeps ==
    ASSUME IInv, NEW t \in Threads, Remove(t)
    PROVE  IInv'
<1>1. caller[t].at = "removing" /\ caller[t].at \in Inside
  BY DEF Remove, Inside, Places
<1>. QED
  BY <1>1, RetireAndLeaveKeeps DEF Remove

LEMMA AbandonKeeps ==
    ASSUME IInv, NEW t \in Threads, Abandon(t)
    PROVE  IInv'
<1>1. caller[t].at = "abandoning" /\ caller[t].at \in Inside
  BY DEF Abandon, Inside, Places
<1>2. CASE transports[caller[t].of] = caller[t].on
  BY <1>1, <1>2, RetireAndLeaveKeeps DEF Abandon
<1>3. CASE transports[caller[t].of] # caller[t].on
  BY <1>1, <1>3, Returned, InsideKeeps DEF Abandon
<1>. QED
  BY <1>2, <1>3

(* A transport is retired by whoever destroys its editor, or its runtime:  *)
(* no call of that editor, or of that runtime, is creating another.        *)
LEMMA RetireOutsideKeeps ==
    ASSUME IInv, NEW es \in SUBSET Editors, Retiring(es), Renumber(es),
           \A u \in Threads :
              caller[u].at = "creating" /\ caller[u].of \in es =>
                 runtime' # caller[u].owner,
           runtime' \in {None, runtime}, emitter' \in {None, emitter},
           hostState' \in HostStates,
           UNCHANGED <<runtime, hostState>> \/ es = Editors,
           UNCHANGED <<activated, module, moves, callVars, attached, faults>>
    PROVE  IInv'
<1> USE DEF callVars
<1>1. /\ transport' \in Seq(Transports) /\ Len(transport') = Len(transport)
      /\ Ids' = Ids
      /\ \A x \in Ids : Untouched(x)
      /\ \A f \in Editors \ es : retirements'[f] = retirements[f]
  BY RetiringWhom DEF Retiring
<1>2. /\ Numbered'
      /\ sequences' \in [Editors -> 0 .. MaxSequence]
      /\ epochs' \in [Editors -> Nat]
      /\ delivered' = delivered
  BY <1>1, RenumberKeeps
<1>3. Typed'
  BY <1>2, RetiringTyped DEF IInv, Typed, TypeOK
<1>4. StripesHeld'
  BY DEF IInv, StripesHeld
<1>5. CallsStand'
  <2>1. ASSUME NEW u \in Threads, caller[u].at = "creating",
               runtime' = caller[u].owner
        PROVE  retirements'[caller[u].of] = None
    <3>1. caller[u].of \in Editors /\ caller[u].owner # None
      BY <2>1 DEF IInv, CallsStand, None
    <3>2. caller[u].of \notin es /\ runtime = caller[u].owner
      BY <2>1, <3>1
    <3>. QED
      BY <1>1, <2>1, <3>1, <3>2 DEF IInv, CallsStand, IsOwner
  <2>. QED
    BY <1>1, <2>1 DEF IInv, CallsStand, IsOwner
<1>6. Owned' /\ AnswersOwed' /\ StateTold' /\ AttachmentStands'
  BY RetiringKeeps
<1>7. CreationsCounted'
  BY <1>1, NothingCreated
<1>. QED
  BY <1>2, <1>3, <1>4, <1>5, <1>6, <1>7, Together

LEMMA DestroyKeeps ==
    ASSUME IInv, NEW t \in Threads, NEW e \in Editors, Destroy(t, e)
    PROVE  IInv'
<1>1. Retiring({e}) /\ Renumber({e})
  BY RetireOne DEF Destroy
<1>2. ASSUME NEW u \in Threads, caller[u].at = "creating", caller[u].of \in {e}
      PROVE  FALSE
  <2>1. caller[u].at \in Inside
    BY <1>2 DEF Inside, Places
  <2>2. lockedBy[StripeOf[e]] = {u}
    BY <1>2, <2>1 DEF IInv, StripesHeld
  <2>. QED
    BY <2>2 DEF Destroy
<1>3. UNCHANGED <<moduleVars, callVars, attached, faults>>
  BY DEF Destroy
<1>4. /\ runtime' \in {None, runtime} /\ emitter' \in {None, emitter}
      /\ hostState' \in HostStates
      /\ UNCHANGED <<runtime, hostState>>
      /\ UNCHANGED <<activated, module, moves, callVars, attached, faults>>
  BY <1>3 DEF IInv, Typed, TypeOK, moduleVars
<1>. QED
  BY <1>1, <1>2, <1>4, RetireOutsideKeeps

LEMMA DestroyRuntimeKeeps ==
    ASSUME IInv, NEW r \in 1 .. MaxRuntimes, DestroyRuntime(r)
    PROVE  IInv'
<1>1. Retiring(Editors) /\ Renumber(Editors)
  BY DEF DestroyRuntime, Retiring
<1>2. /\ runtime' = None /\ emitter' = None /\ hostState' = "detached"
      /\ UNCHANGED <<activated, module, moves, callVars, attached, faults>>
  BY DEF DestroyRuntime
<1>3. \A u \in Threads : caller[u].at = "creating" => runtime' # caller[u].owner
  BY <1>2 DEF IInv, CallsStand, None
<1>4. runtime' \in {None, runtime} /\ emitter' \in {None, emitter}
      /\ hostState' \in HostStates
  BY <1>2 DEF HostStates
<1>. QED
  BY <1>1, <1>2, <1>3, <1>4, RetireOutsideKeeps

-----------------------------------------------------------------------------
(* The lifecycle of the module *)

(* The transports, the calls and the events are left alone.                *)
LEMMA ModuleRests ==
    ASSUME IInv, UNCHANGED moduleRest
    PROVE  /\ Ids' = Ids
           /\ StripesHeld' /\ AnswersOwed' /\ AttachmentStands' /\ Numbered'
           /\ CreationsCounted'
<1> USE DEF moduleRest, mapVars, callVars, eventVars
<1>1. Ids' = Ids
  BY DEF Ids
<1>2. StripesHeld' /\ AttachmentStands' /\ Numbered' /\ CreationsCounted'
  BY <1>1 DEF IInv, StripesHeld, AttachmentStands, Done, Numbered, Latest,
              CreationsCounted, Creators
<1>3. ASSUME NEW x \in Ids
      PROVE  TasksAwaited(x)' /\ AnswerAwaited(x)'
  BY DEF IInv, AnswersOwed, TasksAwaited, AnswerAwaited, Answering, Awaits
<1>. QED
  BY <1>1, <1>2, <1>3 DEF AnswersOwed

(* A runtime is newer than every owner.                                    *)
LEMMA ActivateRuntimeKeeps ==
    ASSUME IInv, ActivateRuntime
    PROVE  IInv'
<1> USE DEF moduleRest, mapVars, callVars, eventVars
<1>1. /\ module.at = "idle" /\ activated < MaxRuntimes
      /\ activated' = activated + 1 /\ runtime' = activated + 1
      /\ module' = [AtRest EXCEPT !.at = "created", !.owner = activated + 1]
      /\ UNCHANGED <<moduleRest, hostState, emitter, moves>>
  BY DEF ActivateRuntime
<1>2. activated \in 0 .. MaxRuntimes /\ MaxRuntimes \in Nat
  BY RegistryAssumption DEF IInv, Typed, TypeOK, RegistryBounds
<1>3. activated' \in 0 .. MaxRuntimes /\ runtime' \in 0 .. activated'
      /\ runtime' # None
  BY <1>1, <1>2 DEF None
<1>4. /\ Ids' = Ids
      /\ StripesHeld' /\ AnswersOwed' /\ AttachmentStands' /\ Numbered'
      /\ CreationsCounted'
  BY <1>1, ModuleRests
<1>5. Typed'
  <2>1. module' \in [at : {"idle", "created", "listening", "telling"},
                     owner : 0 .. activated', pending : SUBSET Ids]
    BY <1>1, <1>3 DEF AtRest
  <2>2. emitter \in 0 .. activated'
    BY <1>1, <1>2 DEF IInv, Typed, TypeOK
  <2>3. TypeOK'
    BY <1>1, <1>3, <1>4, <2>2 DEF IInv, Typed, TypeOK
  <2>. QED
    BY <1>1, <1>4, <2>1, <2>3 DEF IInv, Typed
<1>6. CallsStand'
  BY <1>1, <1>2, <1>4 DEF IInv, CallsStand, IsOwner
<1>7. Owned'
  BY <1>1, <1>3, <1>4 DEF IInv, Owned, Done, DestroyedRuntimeHoldsNothing
<1>8. StateTold'
  BY <1>1 DEF IInv, StateTold
<1>. QED
  BY <1>4, <1>5, <1>6, <1>7, <1>8, Together

(* A step of the module that moves no runtime.                             *)
LEMMA ModuleKeeps ==
    ASSUME IInv, UNCHANGED <<moduleRest, runtime, activated>>,
           hostState' \in HostStates, emitter' \in 0 .. activated,
           module' \in [at : {"idle", "created", "listening", "telling"},
                        owner : 0 .. activated, pending : SUBSET Ids],
           moves' \in Nat, StateTold'
    PROVE  IInv'
<1> USE DEF moduleRest, mapVars, callVars, eventVars
<1>1. /\ Ids' = Ids
      /\ StripesHeld' /\ AnswersOwed' /\ AttachmentStands' /\ Numbered'
      /\ CreationsCounted'
  BY ModuleRests
<1>2. Typed'
  BY <1>1 DEF IInv, Typed, TypeOK
<1>3. CallsStand' /\ Owned'
  BY <1>1 DEF IInv, CallsStand, IsOwner, Owned, Done,
              DestroyedRuntimeHoldsNothing
<1>. QED
  BY <1>1, <1>2, <1>3, Together

LEMMA SetEventEmitterKeeps ==
    ASSUME IInv, SetEventEmitter
    PROVE  IInv'
<1>1. /\ module.at = "created" /\ emitter' = module.owner
      /\ module' = [module EXCEPT !.at = "listening"]
      /\ UNCHANGED <<moduleRest, runtime, activated, hostState, moves>>
  BY DEF SetEventEmitter
<1>2. /\ module \in [at : {"idle", "created", "listening", "telling"},
                     owner : 0 .. activated, pending : SUBSET Ids]
      /\ hostState \in HostStates /\ moves \in Nat
  BY DEF IInv, Typed, TypeOK
<1>3. StateTold'
  BY <1>1 DEF IInv, StateTold, moduleRest, mapVars
<1>. QED
  BY <1>1, <1>2, <1>3, ModuleKeeps

(* Whoever is in the map when a state is requested is to be told.          *)
LEMMA RequestKeeps ==
    ASSUME IInv, NEW s \in HostStates, Request(s), moves' \in Nat
    PROVE  IInv'
<1> DEFINE pending == {transports[e] : e \in Editors} \ {None}
<1>1. /\ hostState' = s
      /\ module' = [AtRest EXCEPT !.at = "telling", !.pending = pending]
      /\ UNCHANGED <<moduleRest, runtime, activated, emitter>>
  BY DEF Request
<1>2. pending \in SUBSET Ids
  BY MapsTyped DEF IInv
<1>3. /\ \A e \in Editors : transports[e] # None => transports[e] \in pending
      /\ UNCHANGED transports
  BY <1>1 DEF moduleRest, mapVars
<1> HIDE DEF pending
<1>4. activated \in Nat /\ 0 \in 0 .. activated
  BY RegistryAssumption DEF IInv, Typed, TypeOK, RegistryBounds
<1>5. /\ module'.at = "telling" /\ module'.pending = pending
      /\ module' \in [at : {"idle", "created", "listening", "telling"},
                      owner : 0 .. activated, pending : SUBSET Ids]
  BY <1>1, <1>2, <1>4 DEF AtRest, None
<1>6. StateTold'
  BY <1>3, <1>5 DEF StateTold
<1>. QED
  BY <1>1, <1>5, <1>6, ModuleKeeps DEF IInv, Typed, TypeOK

LEMMA AttachHostKeeps ==
    ASSUME IInv, AttachHost
    PROVE  IInv'
<1>1. "foreground" \in HostStates /\ Request("foreground") /\ moves' \in Nat
  BY DEF AttachHost, HostStates, IInv, Typed
<1>. QED
  BY <1>1, RequestKeeps

LEMMA RequestHostStateKeeps ==
    ASSUME IInv, NEW s \in {"foreground", "background"}, RequestHostState(s)
    PROVE  IInv'
<1>1. s \in HostStates /\ Request(s) /\ moves' \in Nat
  BY DEF RequestHostState, HostStates, IInv, Typed
<1>. QED
  BY <1>1, RequestKeeps

(* Everyone was told.                                                      *)
LEMMA ToldKeeps ==
    ASSUME IInv, Told
    PROVE  IInv'
<1>1. /\ module.at = "telling" /\ module.pending = {} /\ module' = AtRest
      /\ UNCHANGED <<moduleRest, runtime, activated, hostState, emitter, moves>>
  BY DEF Told
<1>2. /\ module' \in [at : {"idle", "created", "listening", "telling"},
                      owner : 0 .. activated, pending : SUBSET Ids]
      /\ hostState \in HostStates /\ moves \in Nat /\ emitter \in 0 .. activated
  BY <1>1 DEF AtRest, None, IInv, Typed, TypeOK
<1>3. StateTold'
  BY <1>1 DEF IInv, StateTold, moduleRest, mapVars
<1>. QED
  BY <1>1, <1>2, <1>3, ModuleKeeps

(* A transport is told the state, unless it is terminal and so in no map.  *)
LEMMA TellKeeps ==
    ASSUME IInv, NEW x \in module.pending, Tell(x)
    PROVE  IInv'
<1> DEFINE host == [does |-> "host"]
           tasks == transport[x].tasks
           r == [transport[x] EXCEPT !.desired = hostState,
                                     !.tasks = Append(tasks, host)]
<1> USE DEF mapVars, callVars, eventVars
<1>1. /\ module.at = "telling"
      /\ module' = [module EXCEPT !.pending = @ \ {x}]
      /\ transport' = IF transport[x].terminal THEN transport
                      ELSE [transport EXCEPT ![x] = r]
      /\ UNCHANGED <<mapVars, callVars, eventVars, attached, faults, runtime,
                     activated, hostState, emitter, moves>>
  BY DEF Tell
<1>2. /\ module.pending \in SUBSET Ids /\ x \in Ids
      /\ transport \in Seq(Transports) /\ Ids = 1 .. Len(transport)
  BY DEF IInv, Typed, Ids
<1>3. transport[x] \in Transports /\ tasks \in Seq(Tasks) /\ hostState \in HostStates
  BY <1>2, TransportsTyped DEF IInv, Transports, Typed, TypeOK
<1>4. host \in Tasks /\ ~Configures(host)
  BY DEF Tasks, Configures
<1> HIDE DEF host
<1>5. Append(tasks, host) \in Seq(Tasks)
  BY <1>3, <1>4
<1>6. /\ r \in Transports
      /\ r.desired = hostState /\ r.tasks = Append(tasks, host)
      /\ r.editor = transport[x].editor /\ r.terminal = transport[x].terminal
      /\ r.config = transport[x].config /\ r.believes = transport[x].believes
      /\ r.step = transport[x].step /\ r.follows = transport[x].follows
      /\ r.answers = transport[x].answers /\ r.event = transport[x].event
  BY <1>3, <1>5 DEF Transports
<1> HIDE DEF r
<1>7. /\ transport' \in Seq(Transports) /\ Len(transport') = Len(transport)
      /\ ~transport[x].terminal => transport'[x] = r
      /\ transport[x].terminal => transport' = transport
      /\ \A y \in Ids \ {x} : transport'[y] = transport[y]
  BY <1>1, <1>2, <1>6, Replaced
<1>8. Ids' = Ids
  BY <1>7 DEF Ids
<1>9. \A y \in Ids : Untouched(y) /\ Given(y, host)
                     /\ transport'[y].terminal = transport[y].terminal
  <2>1. Untouched(x) /\ Given(x, host) /\ transport'[x].terminal = transport[x].terminal
    BY <1>6, <1>7 DEF Untouched, Given
  <2>2. \A y \in Ids \ {x} : Untouched(y) /\ Given(y, host)
                             /\ transport'[y].terminal = transport[y].terminal
    BY <1>7 DEF Untouched, Given
  <2>. QED
    BY <2>1, <2>2
<1>10. module' \in [at : {"idle", "created", "listening", "telling"},
                    owner : 0 .. activated, pending : SUBSET Ids]
       /\ module'.at = "telling" /\ module'.pending = module.pending \ {x}
  BY <1>1 DEF IInv, Typed
<1>11. Typed'
  <2>1. \A y \in Ids : transport'[y] \in Transports
    BY <1>7, ElementOfSeq DEF Ids
  <2>2. TypeOK'
    BY <1>1, <1>7, <1>8, <2>1 DEF IInv, Typed, TypeOK, Transports, Configs
  <2>. QED
    BY <1>1, <1>7, <1>8, <1>10, <2>2 DEF IInv, Typed
<1>12. StripesHeld' /\ CallsStand'
  BY <1>1, <1>8 DEF IInv, StripesHeld, CallsStand, IsOwner
<1>13. \A e \in Editors : transports[e] # None => transports[e] \in Ids
  BY MapsTyped DEF IInv
<1>14. Owned'
  BY <1>1, <1>8, <1>9, <1>13
     DEF IInv, Owned, Done, Untouched, DestroyedRuntimeHoldsNothing
<1>15. AnswersOwed'
  BY <1>1, <1>4, <1>8, <1>9, NothingAsked
<1>16. StateTold'
  <2>1. ASSUME NEW e \in Editors, transports[e] # None
        PROVE  \/ transport'[transports[e]].desired = hostState
               \/ transports[e] \in module'.pending
    <3>1. CASE transports[e] = x
      BY <1>6, <1>7, <2>1, <3>1 DEF IInv, Owned
    <3>2. CASE transports[e] # x
      BY <1>7, <1>10, <1>13, <2>1, <3>2 DEF IInv, StateTold
    <3>. QED
      BY <3>1, <3>2
  <2>. QED
    BY <1>1, <1>10, <2>1 DEF StateTold
<1>17. AttachmentStands'
  BY <1>1, <1>8, <1>9 DEF IInv, AttachmentStands, Done, Untouched
<1>18. Numbered'
  BY <1>1, <1>8, <1>9, RenumberKeeps
<1>19. CreationsCounted'
  BY <1>1, <1>7, NothingCreated
<1>. QED
  BY <1>11, <1>12, <1>14, <1>15, <1>16, <1>17, <1>18, <1>19, Together

-----------------------------------------------------------------------------
(* The worker of a transport *)

(* Only the transport of the worker changes.                               *)
LEMMA WorkEffect ==
    ASSUME IInv, NEW x \in Ids, NEW r \in Transports,
           transport' = [transport EXCEPT ![x] = r]
    PROVE  /\ transport' \in Seq(Transports) /\ Len(transport') = Len(transport)
           /\ Ids' = Ids
           /\ transport'[x] = r
           /\ \A y \in Ids \ {x} : transport'[y] = transport[y]
<1>1. transport \in Seq(Transports) /\ Ids = 1 .. Len(transport)
  BY DEF IInv, Typed, Ids
<1>2. /\ transport' \in Seq(Transports) /\ Len(transport') = Len(transport)
      /\ transport'[x] = r
      /\ \A y \in Ids \ {x} : transport'[y] = transport[y]
  BY <1>1, Replaced
<1>. QED
  BY <1>2 DEF Ids

(* A worker keeps its editor and what it was told, and is never undone.    *)
Works(x) ==
    /\ Ids' = Ids
    /\ \A y \in Ids \ {x} : transport'[y] = transport[y]
    /\ transport'[x].editor = transport[x].editor
    /\ transport'[x].terminal = transport[x].terminal
    /\ transport'[x].desired = transport[x].desired
    /\ Done(x) => Done(x)'

(* An answer is owed to the one thread that waits for it: while nothing    *)
(* moves, once it is given, and when the task that asks for it is taken.   *)
LEMMA WorkAnswered ==
    ASSUME IInv, NEW x \in Ids, Works(x),
           \/ /\ transport'[x].tasks = transport[x].tasks
              /\ Answering(x)' =>
                    Answering(x) /\ transport'[x].answers = transport[x].answers
              /\ UNCHANGED caller
           \/ /\ transport'[x].tasks = transport[x].tasks
              /\ Answering(x) /\ ~Answering(x)'
              /\ \A u \in Threads \ {transport[x].answers} : caller'[u] = caller[u]
           \/ /\ transport[x].tasks # <<>>
              /\ transport'[x].tasks = Tail(transport[x].tasks)
              /\ Answering(x)' =>
                    /\ Configures(Head(transport[x].tasks))
                    /\ transport'[x].answers = Head(transport[x].tasks).by
              /\ UNCHANGED caller
    PROVE  AnswersOwed'
<1> DEFINE tasks == transport[x].tasks
           left == transport'[x].tasks
<1>1. /\ tasks \in Seq(Tasks)
      /\ \A i \in DOMAIN tasks :
            Configures(tasks[i]) =>
               /\ tasks[i].by \in Threads
               /\ caller[tasks[i].by].at = "calling"
               /\ caller[tasks[i].by].on = x
      /\ Answering(x) =>
            /\ transport[x].answers \in Threads
            /\ caller[transport[x].answers].at = "calling"
            /\ caller[transport[x].answers].on = x
  BY AnsweredAwaits
<1>2. \A i \in DOMAIN tasks :
         Configures(tasks[i]) =>
            /\ \A j \in DOMAIN tasks :
                  Configures(tasks[j]) /\ tasks[j].by = tasks[i].by => i = j
            /\ Answering(x) => transport[x].answers # tasks[i].by
  BY DEF IInv, AnswersOwed, TasksAwaited
<1>3. ASSUME NEW y \in Ids, y # x
      PROVE  TasksAwaited(y)' /\ AnswerAwaited(y)'
  <2>1. TasksAwaited(y) /\ AnswerAwaited(y) /\ transport'[y] = transport[y]
    BY <1>3 DEF IInv, AnswersOwed, Works
  <2>2. \A u \in Threads : Awaits(u, y) => Awaits(u, y)'
    BY <1>1, <1>3 DEF Awaits
  <2>3. /\ \A i \in DOMAIN transport[y].tasks :
              Configures(transport[y].tasks[i]) =>
                 transport[y].tasks[i].by \in Threads
        /\ Answering(y) => transport[y].answers \in Threads
    BY AnsweredAwaits
  <2>. QED
    BY <2>1, <2>2, <2>3 DEF TasksAwaited, AnswerAwaited, Answering
<1>4. CASE left = tasks
  <2>1. UNCHANGED caller
        \/ (Answering(x) /\ ~Answering(x)'
             /\ \A u \in Threads \ {transport[x].answers} : caller'[u] = caller[u])
    OBVIOUS
  <2>2. Answering(x)' => Answering(x) /\ transport'[x].answers = transport[x].answers
                         /\ UNCHANGED caller
    <3>1. CASE tasks # Tail(tasks) \/ tasks = <<>>
      BY <1>4, <3>1
    <3>2. tasks # <<>> => tasks # Tail(tasks)
      <4> HIDE DEF tasks
      <4>1. tasks \in Seq(Tasks)
        BY <1>1
      <4>2. tasks # <<>> => Len(Tail(tasks)) = Len(tasks) - 1 /\ Len(tasks) \in Nat
        BY <4>1, HeadTailProperties, LenProperties
      <4>. QED
        BY <4>2
    <3>. QED
      BY <3>1, <3>2
  <2>3. TasksAwaited(x)'
    <3>1. \A i \in DOMAIN left :
             Configures(left[i]) =>
                /\ caller'[left[i].by].at = "calling"
                /\ caller'[left[i].by].on = x
                /\ \A j \in DOMAIN left :
                      Configures(left[j]) /\ left[j].by = left[i].by => i = j
                /\ Answering(x)' => transport'[x].answers # left[i].by
      <4> HIDE DEF tasks, left
      <4>. QED
        BY <1>1, <1>2, <1>4, <2>1, <2>2
    <3>. QED
      BY <3>1 DEF TasksAwaited, Awaits, Configures
  <2>4. AnswerAwaited(x)'
    BY <1>1, <2>2 DEF AnswerAwaited, Awaits
  <2>. QED
    BY <1>3, <2>3, <2>4 DEF AnswersOwed, Works
<1>5. CASE left # tasks
  <2>1. /\ tasks # <<>> /\ left = Tail(tasks)
        /\ Answering(x)' =>
              Configures(Head(tasks)) /\ transport'[x].answers = Head(tasks).by
        /\ UNCHANGED caller
    BY <1>5
  <2> HIDE DEF tasks, left
  <2>2. /\ 1 \in DOMAIN tasks /\ Head(tasks) = tasks[1]
        /\ \A i \in DOMAIN left :
              i + 1 \in DOMAIN tasks /\ i + 1 # 1 /\ left[i] = tasks[i + 1]
    BY <1>1, <2>1, Rest, LenProperties
  <2>3. \A i \in DOMAIN left : i \in Int
    BY <1>1, <2>1, Rest, LenProperties
  <2>4. \A i \in DOMAIN left :
           Configures(left[i]) =>
              /\ caller'[left[i].by].at = "calling"
              /\ caller'[left[i].by].on = x
              /\ \A j \in DOMAIN left :
                    Configures(left[j]) /\ left[j].by = left[i].by => i = j
              /\ Answering(x)' => transport'[x].answers # left[i].by
    BY <1>1, <1>2, <2>1, <2>2, <2>3
  <2>5. TasksAwaited(x)'
    BY <2>4 DEF TasksAwaited, Awaits, Configures, left
  <2>6. AnswerAwaited(x)'
    BY <1>1, <2>1, <2>2 DEF AnswerAwaited, Awaits
  <2>. QED
    BY <1>3, <2>5, <2>6 DEF AnswersOwed, Works
<1>. QED
  BY <1>4, <1>5

(* The session of an editor is driven by the one transport that is not     *)
(* done, so nobody else is deceived by what that does.                     *)
LEMMA WorkAttached ==
    ASSUME IInv, NEW x \in Ids, Works(x),
           \A f \in Editors \ {transport[x].editor} : attached'[f] = attached[f],
           UNCHANGED attached \/ ~Done(x),
           transport'[x].config = "on" /\ transport'[x].believes /\ ~Done(x)' =>
              attached'[transport[x].editor]
    PROVE  AttachmentStands'
<1> SUFFICES ASSUME NEW y \in Ids, transport'[y].config = "on",
                    transport'[y].believes, ~Done(y)'
             PROVE  attached'[transport'[y].editor]
  BY DEF AttachmentStands, Works
<1>1. CASE y = x
  BY <1>1 DEF Works
<1>2. CASE y # x
  <2>1. transport'[y] = transport[y] /\ ~Done(y) /\ transport[y].editor \in Editors
    BY <1>2, TransportsTyped DEF IInv, Works, Done, Transports
  <2>2. attached[transport[y].editor]
    BY <2>1 DEF IInv, AttachmentStands
  <2>3. CASE transport[y].editor = transport[x].editor
    <3>1. Done(x)
      BY <1>2, <2>1, <2>3, OneTransport DEF IInv, OneTransportPerEditor
    <3>. QED
      BY <2>1, <2>2, <3>1
  <2>. QED
    BY <2>1, <2>2, <2>3
<1>. QED
  BY <1>1, <1>2

(* What a step of a worker keeps, whatever it does.                        *)
LEMMA WorkKeeps ==
    ASSUME IInv, NEW x \in Ids, Works(x), transport' \in Seq(Transports),
           Len(transport') = Len(transport),
           caller' \in [Threads -> Calling],
           \A u \in Threads :
              \/ caller'[u] = caller[u]
              \/ /\ caller[u].at = "calling" /\ caller'[u].at = "settling"
                 /\ caller'[u].of = caller[u].of
                 /\ caller'[u].owner = caller[u].owner
                 /\ caller'[u].on = caller[u].on,
           \/ UNCHANGED retirements
           \/ /\ Done(x)'
              /\ retirements' = [retirements EXCEPT ![transport[x].editor] =
                                   IF @ = x THEN None ELSE @],
           attached' \in [Editors -> BOOLEAN], faults' \in Nat,
           sequences' \in [Editors -> 0 .. MaxSequence],
           delivered' \in [Editors -> Events],
           UNCHANGED <<epochs, moduleVars, transports, lockedBy, calls>>,
           AnswersOwed', AttachmentStands', Numbered'
    PROVE  IInv'
<1> USE DEF moduleVars
<1>1. Ids' = Ids
  BY DEF Works
<1>2. /\ retirements \in [Editors -> 0 .. Len(transport)]
      /\ \A e \in Editors : transports[e] # None => transports[e] \in Ids
      /\ \A y \in Ids : transport[y].editor \in Editors /\ y # None
  BY MapsTyped DEF IInv
<1>3. /\ retirements' \in [Editors -> 0 .. Len(transport)]
      /\ \A e \in Editors :
            \/ retirements'[e] = retirements[e]
            \/ Done(x)' /\ retirements[e] = x /\ retirements'[e] = None
  BY <1>2 DEF None
<1>4. Typed'
  BY <1>3, WorkTyped DEF IInv, Typed
<1>5. StripesHeld'
  <2>1. \A u \in Threads :
           caller'[u].at \in Inside =>
              caller[u].at \in Inside /\ caller'[u].of = caller[u].of
    BY DEF Inside, Places
  <2>. QED
    BY <2>1 DEF IInv, StripesHeld
<1>6. CallsStand'
  <2>1. ASSUME NEW u \in Threads, caller'[u].at # "idle"
        PROVE  /\ caller[u].at # "idle"
               /\ caller'[u].of = caller[u].of /\ caller'[u].owner = caller[u].owner
    BY <2>1
  <2>2. ASSUME NEW u \in Threads, caller'[u].at \in Knowing
        PROVE  caller'[u].on \in Ids
    BY <2>2 DEF IInv, CallsStand, Knowing
  <2>3. ASSUME NEW u \in Threads, caller'[u].at = "creating", IsOwner(u)'
        PROVE  retirements'[caller'[u].of] = None
    <3>1. caller'[u] = caller[u] /\ caller[u].of \in Editors /\ IsOwner(u)
      BY <2>3 DEF IInv, CallsStand, IsOwner
    <3>2. retirements[caller[u].of] = None
      BY <2>3, <3>1 DEF IInv, CallsStand
    <3>. QED
      BY <1>3, <3>1, <3>2
  <2>. QED
    BY <1>1, <2>1, <2>2, <2>3 DEF IInv, CallsStand
<1>7. \A y \in Ids : /\ transport'[y].editor = transport[y].editor
                     /\ transport'[y].terminal = transport[y].terminal
                     /\ transport'[y].desired = transport[y].desired
                     /\ Done(y) => Done(y)'
  BY DEF Works, Done
<1>8. Owned'
  <2>1. ASSUME NEW e \in Editors, transports[e] # None
        PROVE  /\ transport'[transports[e]].editor = e
               /\ ~transport'[transports[e]].terminal
               /\ retirements'[e] = None
    <3>1. /\ transport[transports[e]].editor = e
          /\ ~transport[transports[e]].terminal
          /\ retirements[e] = None
      BY <2>1 DEF IInv, Owned
    <3>. QED
      BY <1>2, <1>3, <1>7, <2>1, <3>1
  <2>2. ASSUME NEW y \in Ids, ~Done(y)'
        PROVE  \/ transports[transport[y].editor] = y
               \/ retirements'[transport[y].editor] = y
    <3>1. \/ transports[transport[y].editor] = y
          \/ retirements[transport[y].editor] = y
      BY <1>7, <2>2 DEF IInv, Owned
    <3>. QED
      BY <1>2, <1>3, <2>2, <3>1
  <2>3. DestroyedRuntimeHoldsNothing'
    BY DEF IInv, Owned, DestroyedRuntimeHoldsNothing
  <2>. QED
    BY <1>1, <1>7, <2>1, <2>2, <2>3 DEF Owned
<1>9. StateTold'
  BY <1>2, <1>7 DEF IInv, StateTold
<1>10. CreationsCounted'
  <2>1. Creators' = Creators
    BY DEF Creators, Creating
  <2>. QED
    BY <2>1 DEF IInv, CreationsCounted
<1>. QED
  BY <1>4, <1>5, <1>6, <1>8, <1>9, <1>10, Together

(* A worker that numbers and gives no event.                               *)
LEMMA WorkNumbered ==
    ASSUME IInv, NEW x \in Ids, Works(x), UNCHANGED eventVars,
           transport'[x].step \in {"picking", "emitting"} =>
              /\ transport[x].step \in {"picking", "emitting"}
              /\ transport'[x].event.epoch = transport[x].event.epoch
              /\ transport'[x].event.sequence = transport[x].event.sequence
    PROVE  Numbered'
<1>1. Ids' = Ids
  BY DEF Works
<1>2. ASSUME NEW y \in Ids, transport'[y].step \in {"picking", "emitting"}
      PROVE  /\ transport[y].step \in {"picking", "emitting"}
             /\ transport'[y].editor = transport[y].editor
             /\ transport'[y].event.epoch = transport[y].event.epoch
             /\ transport'[y].event.sequence = transport[y].event.sequence
  BY <1>2 DEF Works
<1>. QED
  BY <1>1, <1>2 DEF IInv, Numbered, Earlier, Latest, eventVars

(* A worker ends a task: its session is attached if it means to keep it    *)
(* so, and a task to configure leaves an answer behind.                    *)
LEMMA RanKeeps ==
    ASSUME IInv, NEW x \in Ids, NEW me \in Transports, NEW raises \in BOOLEAN,
           transport[x].step = "idle", transport[x].tasks # <<>>,
           me.editor = transport[x].editor,
           me.terminal = transport[x].terminal,
           me.desired = transport[x].desired,
           me.tasks = transport[x].tasks,
           me.follows = "answering" =>
              /\ Configures(Head(transport[x].tasks))
              /\ me.answers = Head(transport[x].tasks).by,
           Ran(x, me, raises),
           attached' \in [Editors -> BOOLEAN], faults' \in Nat,
           \A f \in Editors \ {me.editor} : attached'[f] = attached[f],
           me.config = "on" /\ me.believes => attached'[me.editor],
           UNCHANGED <<workerRest, caller, eventVars>>
    PROVE  IInv'
<1> DEFINE r == [me EXCEPT !.tasks = Tail(@),
                           !.step = IF raises THEN "taking" ELSE me.follows]
<1>1. transport' = [transport EXCEPT ![x] = r]
  BY DEF Ran
<1>2. Tail(me.tasks) \in Seq(Tasks)
  BY Rest DEF Transports
<1>3. /\ r \in Transports /\ r.tasks = Tail(me.tasks)
      /\ r.step = IF raises THEN "taking" ELSE me.follows
      /\ r.editor = me.editor /\ r.terminal = me.terminal
      /\ r.desired = me.desired /\ r.config = me.config
      /\ r.believes = me.believes /\ r.answers = me.answers
      /\ r.follows = me.follows
      /\ me.follows \in {"idle", "answering", "ending"}
  BY <1>2 DEF Transports
<1> HIDE DEF r
<1>4. /\ transport' \in Seq(Transports) /\ Len(transport') = Len(transport)
      /\ Ids' = Ids /\ transport'[x] = r
      /\ \A y \in Ids \ {x} : transport'[y] = transport[y]
  BY <1>1, <1>3, WorkEffect
<1>5. ~Done(x) /\ ~Answering(x)
  BY DEF Done, Answering
<1>6. Works(x)
  BY <1>3, <1>4, <1>5 DEF Works
<1>7. Answering(x)' => me.follows = "answering"
  BY <1>3, <1>4 DEF Answering
<1>8. AnswersOwed'
  BY <1>3, <1>4, <1>6, <1>7, WorkAnswered
<1>9. AttachmentStands'
  <2>1. \A f \in Editors \ {transport[x].editor} : attached'[f] = attached[f]
    OBVIOUS
  <2>2. transport'[x].config = "on" /\ transport'[x].believes
           => attached'[transport[x].editor]
    BY <1>3, <1>4
  <2>. QED
    BY <1>5, <1>6, <2>1, <2>2, WorkAttached
<1>10. Numbered'
  BY <1>3, <1>4, <1>6, WorkNumbered
<1>. QED
  BY <1>4, <1>6, <1>8, <1>9, <1>10, WorkKeeps
     DEF IInv, Typed, TypeOK, workerRest, mapVars, eventVars

(* A call to the session.                                                  *)
LEMMA CallsEffect ==
    ASSUME IInv, NEW x \in Ids, NEW to \in BOOLEAN, NEW ok \in BOOLEAN,
           Calls(x, to, ok)
    PROVE  /\ attached' \in [Editors -> BOOLEAN] /\ faults' \in Nat
           /\ \A f \in Editors \ {transport[x].editor} : attached'[f] = attached[f]
           /\ attached'[transport[x].editor] =
                 IF ok THEN to ELSE attached[transport[x].editor]
<1>1. /\ attached \in [Editors -> BOOLEAN] /\ faults \in Nat
      /\ transport[x].editor \in Editors
  BY TransportsTyped DEF IInv, Typed, TypeOK, Transports
<1>. QED
  BY <1>1 DEF Calls

LEMMA ReconcileKeeps ==
    ASSUME IInv, NEW x \in Ids, NEW me \in Transports, NEW ok \in BOOLEAN,
           NEW raises \in BOOLEAN,
           transport[x].step = "idle", transport[x].tasks # <<>>,
           me.editor = transport[x].editor,
           me.terminal = transport[x].terminal,
           me.desired = transport[x].desired,
           me.config = transport[x].config,
           me.believes = transport[x].believes,
           me.tasks = transport[x].tasks,
           me.follows = "answering" =>
              /\ Configures(Head(transport[x].tasks))
              /\ me.answers = Head(transport[x].tasks).by,
           Reconcile(x, me, ok, raises),
           UNCHANGED <<workerRest, caller, eventVars>>
    PROVE  IInv'
<1> DEFINE to == me.desired = "foreground"
           rests == me.terminal \/ me.believes = to \/ (to /\ me.config # "on")
           r == [me EXCEPT !.believes = IF ok THEN to ELSE @, !.error = ~ok]
<1>1. /\ attached \in [Editors -> BOOLEAN] /\ faults \in Nat
      /\ transport[x].editor \in Editors /\ ~Done(x)
  BY TransportsTyped DEF IInv, Typed, TypeOK, Transports, Done
<1>2. me.config = "on" /\ me.believes => attached[me.editor]
  BY <1>1 DEF IInv, AttachmentStands
<1>3. CASE rests
  <2>1. Ran(x, me, FALSE) /\ UNCHANGED <<attached, faults>>
    BY <1>3 DEF Reconcile
  <2>. QED
    BY <1>1, <1>2, <2>1, RanKeeps
<1>4. CASE ~rests
  <2>1. Calls(x, to, ok) /\ Ran(x, r, raises /\ ~ok)
    BY <1>4 DEF Reconcile
  <2>2. to \in BOOLEAN /\ (raises /\ ~ok) \in BOOLEAN
    OBVIOUS
  <2> HIDE DEF to
  <2>3. /\ r \in Transports
        /\ r.editor = me.editor /\ r.terminal = me.terminal
        /\ r.desired = me.desired /\ r.config = me.config
        /\ r.tasks = me.tasks /\ r.follows = me.follows
        /\ r.answers = me.answers
        /\ r.believes = IF ok THEN to ELSE me.believes
    BY <2>2 DEF Transports
  <2> HIDE DEF r
  <2>4. /\ attached' \in [Editors -> BOOLEAN] /\ faults' \in Nat
        /\ \A f \in Editors \ {transport[x].editor} : attached'[f] = attached[f]
        /\ attached'[transport[x].editor] =
              IF ok THEN to ELSE attached[transport[x].editor]
    BY <2>1, <2>2, CallsEffect
  <2>5. r.config = "on" /\ r.believes => attached'[r.editor]
    BY <1>2, <2>3, <2>4
  <2>. QED
    BY <2>1, <2>2, <2>3, <2>4, <2>5, RanKeeps
<1>. QED
  BY <1>3, <1>4

LEMMA RunHostKeeps ==
    ASSUME IInv, NEW x \in Ids, NEW ok \in BOOLEAN, RunHost(x, ok)
    PROVE  IInv'
<1> DEFINE me == [transport[x] EXCEPT !.follows = "idle"]
<1>1. /\ transport[x].step = "idle" /\ transport[x].tasks # <<>>
      /\ Reconcile(x, me, ok, TRUE)
      /\ UNCHANGED <<workerRest, caller, eventVars>>
  BY DEF RunHost, Runs
<1>2. transport[x] \in Transports
  BY TransportsTyped DEF IInv
<1>3. /\ me \in Transports
      /\ me.editor = transport[x].editor /\ me.terminal = transport[x].terminal
      /\ me.desired = transport[x].desired /\ me.config = transport[x].config
      /\ me.believes = transport[x].believes /\ me.tasks = transport[x].tasks
      /\ me.follows = "idle"
  BY <1>2 DEF Transports
<1> HIDE DEF me
<1>. QED
  BY <1>1, <1>3, ReconcileKeeps

LEMMA RunDestroyKeeps ==
    ASSUME IInv, NEW x \in Ids, NEW ok \in BOOLEAN, RunDestroy(x, ok)
    PROVE  IInv'
<1> DEFINE me == [transport[x] EXCEPT !.follows = "ending", !.config = "none",
                                      !.believes = ~ok]
<1>1. /\ transport[x].step = "idle" /\ transport[x].tasks # <<>>
      /\ IF transport[x].believes
           THEN Calls(x, FALSE, ok) /\ Ran(x, me, ~ok)
           ELSE ok /\ Ran(x, me, FALSE) /\ UNCHANGED <<attached, faults>>
      /\ UNCHANGED <<workerRest, caller, eventVars>>
  BY DEF RunDestroy, Runs
<1>2. transport[x] \in Transports
  BY TransportsTyped DEF IInv
<1>3. /\ me \in Transports
      /\ me.editor = transport[x].editor /\ me.terminal = transport[x].terminal
      /\ me.desired = transport[x].desired /\ me.config = "none"
      /\ me.tasks = transport[x].tasks /\ me.follows = "ending"
  BY <1>2 DEF Transports, Configs
<1> HIDE DEF me
<1>4. attached \in [Editors -> BOOLEAN] /\ faults \in Nat
  BY DEF IInv, Typed, TypeOK
<1>5. CASE transport[x].believes
  <2>1. /\ attached' \in [Editors -> BOOLEAN] /\ faults' \in Nat
        /\ \A f \in Editors \ {transport[x].editor} : attached'[f] = attached[f]
    BY <1>1, <1>5, CallsEffect
  <2>. QED
    BY <1>1, <1>3, <1>5, <2>1, RanKeeps
<1>6. CASE ~transport[x].believes
  BY <1>1, <1>3, <1>4, <1>6, RanKeeps
<1>. QED
  BY <1>5, <1>6

(* A session that is configured anew is attached only if it is to be       *)
(* connected, and a refused detachment leaves it as it was.                *)
LEMMA ReconfigureKeeps ==
    ASSUME IInv, NEW x \in Ids, NEW me \in Transports, NEW ok \in BOOLEAN,
           NEW config \in Configs,
           transport[x].step = "idle", transport[x].tasks # <<>>,
           me.editor = transport[x].editor,
           me.terminal = transport[x].terminal,
           me.desired = transport[x].desired,
           me.config = transport[x].config,
           me.believes = transport[x].believes,
           me.tasks = transport[x].tasks,
           me.follows = "answering" =>
              /\ Configures(Head(transport[x].tasks))
              /\ me.answers = Head(transport[x].tasks).by,
           Reconfigure(x, me, config, ok),
           UNCHANGED <<workerRest, caller, eventVars>>
    PROVE  IInv'
<1> DEFINE connects == config = "on" /\ me.desired = "foreground"
           configured == [me EXCEPT !.config = config, !.believes = connects]
           refused == [me EXCEPT !.error = TRUE]
           detached == [me EXCEPT !.error = TRUE, !.believes = FALSE]
<1>1. /\ attached \in [Editors -> BOOLEAN] /\ faults \in Nat
      /\ me.editor \in Editors /\ ~Done(x)
  BY TransportsTyped DEF IInv, Typed, TypeOK, Transports, Done
<1>2. me.config = "on" /\ me.believes => attached[me.editor]
  BY <1>1 DEF IInv, AttachmentStands
<1>3. connects \in BOOLEAN
  OBVIOUS
<1>4. \/ /\ attached' = [attached EXCEPT ![me.editor] =
                           IF me.believes \/ connects THEN connects ELSE @]
         /\ Ran(x, configured, FALSE)
         /\ UNCHANGED faults
      \/ Calls(x, FALSE, FALSE) /\ Ran(x, refused, TRUE)
      \/ /\ faults' = faults + 1
         /\ attached' = [attached EXCEPT ![me.editor] =
                           IF me.believes THEN FALSE ELSE @]
         /\ Ran(x, detached, TRUE)
  BY DEF Reconfigure
<1> HIDE DEF connects
<1>5. /\ configured \in Transports
      /\ configured.editor = me.editor /\ configured.terminal = me.terminal
      /\ configured.desired = me.desired /\ configured.tasks = me.tasks
      /\ configured.follows = me.follows /\ configured.answers = me.answers
      /\ configured.believes = connects
  BY <1>3 DEF Transports
<1>6. /\ refused \in Transports
      /\ refused.editor = me.editor /\ refused.terminal = me.terminal
      /\ refused.desired = me.desired /\ refused.tasks = me.tasks
      /\ refused.follows = me.follows /\ refused.answers = me.answers
      /\ refused.believes = me.believes /\ refused.config = me.config
  BY DEF Transports
<1>7. /\ detached \in Transports
      /\ detached.editor = me.editor /\ detached.terminal = me.terminal
      /\ detached.desired = me.desired /\ detached.tasks = me.tasks
      /\ detached.follows = me.follows /\ detached.answers = me.answers
      /\ ~detached.believes
  BY DEF Transports
<1> HIDE DEF configured, refused, detached
<1>8. CASE /\ attached' = [attached EXCEPT ![me.editor] =
                             IF me.believes \/ connects THEN connects ELSE @]
           /\ Ran(x, configured, FALSE)
           /\ UNCHANGED faults
  <2>1. /\ attached' \in [Editors -> BOOLEAN]
        /\ \A f \in Editors \ {me.editor} : attached'[f] = attached[f]
        /\ connects => attached'[me.editor]
    BY <1>1, <1>3, <1>8
  <2>2. Ran(x, configured, FALSE) /\ faults' \in Nat
    BY <1>1, <1>8
  <2>3. \A f \in Editors \ {configured.editor} : attached'[f] = attached[f]
    BY <1>5, <2>1
  <2>4. configured.config = "on" /\ configured.believes =>
           attached'[configured.editor]
    BY <1>5, <2>1
  <2>. QED
    BY <1>5, <2>1, <2>2, <2>3, <2>4, RanKeeps
<1>9. CASE Calls(x, FALSE, FALSE) /\ Ran(x, refused, TRUE)
  <2>1. /\ attached' \in [Editors -> BOOLEAN] /\ faults' \in Nat
        /\ \A f \in Editors \ {me.editor} : attached'[f] = attached[f]
        /\ attached'[me.editor] = attached[me.editor]
    BY <1>9, CallsEffect
  <2>. QED
    BY <1>2, <1>6, <1>9, <2>1, RanKeeps
<1>10. CASE /\ faults' = faults + 1
            /\ attached' = [attached EXCEPT ![me.editor] =
                              IF me.believes THEN FALSE ELSE @]
            /\ Ran(x, detached, TRUE)
  <2>1. /\ attached' \in [Editors -> BOOLEAN] /\ faults' \in Nat
        /\ \A f \in Editors \ {me.editor} : attached'[f] = attached[f]
    <3>1. PICK b \in BOOLEAN : attached' = [attached EXCEPT ![me.editor] = b]
      BY <1>1, <1>10, Zenon
    <3>2. attached' \in [Editors -> BOOLEAN]
      BY <1>1, <3>1
    <3>3. \A f \in Editors \ {me.editor} : attached'[f] = attached[f]
      BY <1>1, <3>1
    <3>4. faults \in Nat /\ faults' = faults + 1
      BY <1>1, <1>10
    <3>. QED
      BY <3>2, <3>3, <3>4
  <2>. QED
    BY <1>7, <1>10, <2>1, RanKeeps
<1>. QED
  BY <1>4, <1>8, <1>9, <1>10

LEMMA RunConfigureKeeps ==
    ASSUME IInv, NEW x \in Ids, NEW ok \in BOOLEAN, RunConfigure(x, ok)
    PROVE  IInv'
<1> DEFINE task == Head(transport[x].tasks)
           me == [transport[x] EXCEPT !.follows = "answering", !.error = FALSE,
                                      !.answers = task.by]
           refused == [me EXCEPT !.error = TRUE]
<1>1. /\ transport[x].step = "idle" /\ transport[x].tasks # <<>>
      /\ task.does = "configure"
      /\ IF me.terminal
           THEN /\ ok /\ Ran(x, refused, FALSE)
                /\ UNCHANGED <<attached, faults>>
           ELSE IF task.config = me.config THEN Reconcile(x, me, ok, FALSE)
           ELSE Reconfigure(x, me, task.config, ok)
      /\ UNCHANGED <<workerRest, caller, eventVars>>
  BY DEF RunConfigure, Runs
<1>2. transport[x] \in Transports
  BY TransportsTyped DEF IInv
<1>3. task \in Tasks
  BY <1>1, <1>2, Rest DEF Transports
<1>4. Configures(task) /\ task.by \in Threads /\ task.config \in Configs
  BY <1>1, <1>3 DEF Tasks, Configures
<1>5. Configures(Head(transport[x].tasks))
  BY <1>4
<1> HIDE DEF task
<1>6. /\ me \in Transports
      /\ me.editor = transport[x].editor /\ me.terminal = transport[x].terminal
      /\ me.desired = transport[x].desired /\ me.config = transport[x].config
      /\ me.believes = transport[x].believes /\ me.tasks = transport[x].tasks
      /\ me.answers = task.by
  BY <1>2, <1>4 DEF Transports
<1> HIDE DEF me
<1>7. /\ refused \in Transports
      /\ refused.editor = me.editor /\ refused.terminal = me.terminal
      /\ refused.desired = me.desired /\ refused.config = me.config
      /\ refused.believes = me.believes /\ refused.tasks = me.tasks
      /\ refused.answers = me.answers
  BY <1>6 DEF Transports
<1> HIDE DEF refused
<1>8. /\ attached \in [Editors -> BOOLEAN] /\ faults \in Nat
      /\ me.config = "on" /\ me.believes => attached[me.editor]
  BY <1>1, <1>6 DEF IInv, Typed, TypeOK, AttachmentStands, Done
<1>9. me.answers = Head(transport[x].tasks).by
  BY <1>6 DEF task
<1>10. CASE me.terminal
  <2>1. Ran(x, refused, FALSE) /\ UNCHANGED <<attached, faults>>
    BY <1>1, <1>10
  <2>. QED
    BY <1>1, <1>5, <1>6, <1>7, <1>8, <1>9, <2>1, RanKeeps
<1>11. CASE ~me.terminal /\ task.config = me.config
  <2>1. Reconcile(x, me, ok, FALSE)
    BY <1>1, <1>11
  <2>. QED
    BY <1>1, <1>5, <1>6, <1>9, <2>1, ReconcileKeeps
<1>12. CASE ~me.terminal /\ task.config # me.config
  <2>1. Reconfigure(x, me, task.config, ok)
    BY <1>1, <1>12
  <2>. QED
    BY <1>1, <1>4, <1>5, <1>6, <1>9, <2>1, ReconfigureKeeps
<1>. QED
  BY <1>10, <1>11, <1>12

(* The thread that waits for the answer is given it.                       *)
LEMMA AnswerKeeps ==
    ASSUME IInv, NEW x \in Ids, Answer(x)
    PROVE  IInv'
<1> DEFINE t == transport[x].answers
           r == [transport[x] EXCEPT !.step = "idle", !.answers = None]
           c == [caller[t] EXCEPT !.at = "settling", !.error = transport[x].error]
<1>1. /\ transport[x].step = "answering"
      /\ transport' = [transport EXCEPT ![x] = r]
      /\ caller' = [caller EXCEPT ![t] = c]
      /\ UNCHANGED <<workerRest, eventVars, attached, faults>>
  BY DEF Answer
<1>2. transport[x] \in Transports /\ caller \in [Threads -> Calling]
  BY TransportsTyped DEF IInv, Typed
<1>3. Answering(x) /\ t \in Threads /\ caller[t].at = "calling"
  BY <1>1, AnsweredAwaits DEF Answering
<1>4. /\ r \in Transports /\ r.step = "idle"
      /\ r.editor = transport[x].editor /\ r.terminal = transport[x].terminal
      /\ r.desired = transport[x].desired /\ r.config = transport[x].config
      /\ r.believes = transport[x].believes /\ r.tasks = transport[x].tasks
  BY <1>2 DEF Transports
<1> HIDE DEF r
<1>5. transport[x].error \in BOOLEAN
  BY <1>2 DEF Transports
<1>6. /\ c \in Calling /\ c.at = "settling" /\ c.of = caller[t].of
      /\ c.owner = caller[t].owner /\ c.on = caller[t].on
  <2>1. caller[t] \in Calling
    BY <1>2, <1>3
  <2>. QED
    BY <1>5, <2>1 DEF Calling, Places
<1> HIDE DEF c
<1>7. /\ caller' \in [Threads -> Calling] /\ caller'[t] = c
      /\ \A u \in Threads \ {t} : caller'[u] = caller[u]
  BY <1>1, <1>2, <1>3, <1>6
<1>8. /\ transport' \in Seq(Transports) /\ Len(transport') = Len(transport)
      /\ Ids' = Ids /\ transport'[x] = r
      /\ \A y \in Ids \ {x} : transport'[y] = transport[y]
  BY <1>1, <1>4, WorkEffect
<1>9. ~Done(x) /\ ~Answering(x)' /\ Works(x)
  BY <1>1, <1>4, <1>8 DEF Done, Answering, Works
<1>10. AnswersOwed'
  BY <1>3, <1>4, <1>7, <1>8, <1>9, WorkAnswered
<1>11. AttachmentStands'
  BY <1>1, <1>4, <1>8, <1>9, WorkAttached DEF IInv, AttachmentStands
<1>12. Numbered'
  BY <1>1, <1>4, <1>8, <1>9, WorkNumbered
<1>13. \A u \in Threads :
          \/ caller'[u] = caller[u]
          \/ /\ caller[u].at = "calling" /\ caller'[u].at = "settling"
             /\ caller'[u].of = caller[u].of
             /\ caller'[u].owner = caller[u].owner
             /\ caller'[u].on = caller[u].on
  BY <1>3, <1>6, <1>7
<1>. QED
  BY <1>1, <1>7, <1>8, <1>9, <1>10, <1>11, <1>12, <1>13, WorkKeeps
     DEF IInv, Typed, TypeOK, workerRest, mapVars, eventVars

(* A step within a task: the session and the threads are left alone, and   *)
(* no answer is owed that was not.                                         *)
SameDrive(x) ==
    /\ transport'[x].config = transport[x].config
    /\ transport'[x].believes = transport[x].believes
    /\ transport'[x].tasks = transport[x].tasks
    /\ transport'[x].answers = transport[x].answers
    /\ Answering(x)' => Answering(x)

LEMMA WithinTaskKeeps ==
    ASSUME IInv, NEW x \in Ids, Works(x), SameDrive(x),
           transport' \in Seq(Transports),
           Len(transport') = Len(transport),
           \/ UNCHANGED retirements
           \/ /\ Done(x)'
              /\ retirements' = [retirements EXCEPT ![transport[x].editor] =
                                   IF @ = x THEN None ELSE @],
           sequences' \in [Editors -> 0 .. MaxSequence],
           delivered' \in [Editors -> Events],
           UNCHANGED <<epochs, moduleVars, transports, callVars, attached, faults>>,
           Numbered'
    PROVE  IInv'
<1> USE DEF callVars
<1>1. AnswersOwed'
  BY WorkAnswered DEF SameDrive
<1>2. transport'[x].config = "on" /\ transport'[x].believes /\ ~Done(x)' =>
         attached[transport[x].editor]
  BY DEF IInv, AttachmentStands, SameDrive, Works
<1>3. AttachmentStands'
  BY <1>2, WorkAttached
<1>. QED
  BY <1>1, <1>3, WorkKeeps DEF IInv, Typed, TypeOK

(* A transport that goes on with its task, the event it is about changed   *)
(* or not.                                                                 *)
LEMMA GoesOn ==
    ASSUME IInv, NEW x \in Ids, ~Done(x), NEW event \in Events,
           NEW step \in {"idle", "taking", "picking", "emitting", "answering",
                         "ending", "completed", "gone"},
           step = "answering" => Answering(x),
           step \in {"taking", "picking", "emitting"} =>
              transport[x].step \in {"taking", "picking", "emitting"},
           transport' =
              [transport EXCEPT ![x] =
                  [transport[x] EXCEPT !.step = step, !.event = event]]
    PROVE  /\ Works(x) /\ SameDrive(x)
           /\ transport' \in Seq(Transports) /\ Len(transport') = Len(transport)
           /\ transport'[x].step = step /\ transport'[x].event = event
<1> DEFINE r == [transport[x] EXCEPT !.step = step, !.event = event]
<1>1. transport[x] \in Transports
  BY TransportsTyped DEF IInv
<1>2. /\ r \in Transports /\ r.step = step /\ r.event = event
      /\ r.editor = transport[x].editor /\ r.terminal = transport[x].terminal
      /\ r.desired = transport[x].desired /\ r.config = transport[x].config
      /\ r.believes = transport[x].believes /\ r.tasks = transport[x].tasks
      /\ r.answers = transport[x].answers /\ r.follows = transport[x].follows
  BY <1>1 DEF Transports
<1>3. transport' = [transport EXCEPT ![x] = r]
  OBVIOUS
<1> HIDE DEF r
<1>4. /\ transport' \in Seq(Transports) /\ Len(transport') = Len(transport)
      /\ Ids' = Ids /\ transport'[x] = r
      /\ \A y \in Ids \ {x} : transport'[y] = transport[y]
  BY <1>2, <1>3, WorkEffect
<1>5. Works(x)
  BY <1>2, <1>4 DEF Works
<1>6. Answering(x)' => Answering(x)
  BY <1>2, <1>4 DEF Answering
<1>7. SameDrive(x)
  BY <1>2, <1>4, <1>6 DEF SameDrive
<1>. QED
  BY <1>2, <1>4, <1>5, <1>7

(* What a transport does once its event is through.                        *)
LEMMA Follows ==
    ASSUME IInv, NEW x \in Ids
    PROVE  /\ transport[x].event \in Events /\ NoEvent \in Events
           /\ transport[x].editor \in Editors
           /\ transport[x].follows \in {"idle", "answering", "ending"}
           /\ transport[x].step \in {"taking", "picking", "emitting"} =>
                 /\ ~Done(x)
                 /\ transport[x].follows = "answering" => Answering(x)
<1>1. NoEvent \in Events
  BY DEF NoEvent, Events, None
<1>2. transport[x] \in Transports
  BY TransportsTyped DEF IInv
<1>. QED
  BY <1>1, <1>2 DEF Transports, Done, Answering

LEMMA CompleteKeeps ==
    ASSUME IInv, NEW x \in Ids, Complete(x)
    PROVE  IInv'
<1> DEFINE event == transport[x].event
<1>1. /\ transport[x].step = "ending" /\ ~Done(x)
      /\ UNCHANGED <<workerRest, caller, eventVars, attached, faults>>
  BY DEF Complete, Done
<1>2. event \in Events /\ transport[x] \in Transports
  BY TransportsTyped, Follows DEF IInv
<1>3. transport' = [transport EXCEPT ![x] =
                      [transport[x] EXCEPT !.step = "completed", !.event = event]]
  BY <1>2 DEF Complete, Transports
<1> HIDE DEF event
<1>4. /\ Works(x) /\ SameDrive(x)
      /\ transport' \in Seq(Transports) /\ Len(transport') = Len(transport)
      /\ transport'[x].step = "completed"
  BY <1>1, <1>2, <1>3, GoesOn
<1>5. Numbered'
  BY <1>1, <1>4, WorkNumbered
<1>. QED
  BY <1>1, <1>4, <1>5, WithinTaskKeeps
     DEF IInv, Typed, TypeOK, workerRest, mapVars, callVars, eventVars

LEMMA ForgetKeeps ==
    ASSUME IInv, NEW x \in Ids, Forget(x)
    PROVE  IInv'
<1> DEFINE r == [transport[x] EXCEPT !.step = "gone"]
<1>1. /\ transport[x].step = "completed" /\ Done(x)
      /\ transport' = [transport EXCEPT ![x] = r]
      /\ retirements' = [retirements EXCEPT ![transport[x].editor] =
                           IF @ = x THEN None ELSE @]
      /\ UNCHANGED <<moduleVars, transports, callVars, eventVars, attached, faults>>
  BY DEF Forget, Done
<1>2. transport[x] \in Transports
  BY TransportsTyped DEF IInv
<1>3. /\ r \in Transports /\ r.step = "gone"
      /\ r.editor = transport[x].editor /\ r.terminal = transport[x].terminal
      /\ r.desired = transport[x].desired /\ r.config = transport[x].config
      /\ r.believes = transport[x].believes /\ r.tasks = transport[x].tasks
      /\ r.answers = transport[x].answers
  BY <1>2 DEF Transports
<1> HIDE DEF r
<1>4. /\ transport' \in Seq(Transports) /\ Len(transport') = Len(transport)
      /\ Ids' = Ids /\ transport'[x] = r
      /\ \A y \in Ids \ {x} : transport'[y] = transport[y]
  BY <1>1, <1>3, WorkEffect
<1>5. Works(x) /\ Done(x)' /\ SameDrive(x)
  BY <1>3, <1>4 DEF Works, Done, SameDrive, Answering
<1>6. Numbered'
  BY <1>1, <1>3, <1>4, <1>5, WorkNumbered
<1>. QED
  BY <1>1, <1>4, <1>5, <1>6, WithinTaskKeeps
     DEF IInv, Typed, TypeOK, eventVars

(* A callback of the socket or of a timer begins an event of its own.      *)
LEMMA RaiseKeeps ==
    ASSUME IInv, NEW x \in Ids, Raise(x)
    PROVE  IInv'
<1> DEFINE r == [transport[x] EXCEPT !.step = "taking", !.follows = "idle"]
<1>1. /\ transport[x].step = "idle"
      /\ transport' = [transport EXCEPT ![x] = r]
      /\ UNCHANGED <<eventRest, eventVars>>
  BY DEF Raise
<1>2. transport[x] \in Transports
  BY TransportsTyped DEF IInv
<1>3. /\ r \in Transports /\ r.step = "taking" /\ r.follows = "idle"
      /\ r.editor = transport[x].editor /\ r.terminal = transport[x].terminal
      /\ r.desired = transport[x].desired /\ r.config = transport[x].config
      /\ r.believes = transport[x].believes /\ r.tasks = transport[x].tasks
      /\ r.answers = transport[x].answers
  BY <1>2 DEF Transports
<1> HIDE DEF r
<1>4. /\ transport' \in Seq(Transports) /\ Len(transport') = Len(transport)
      /\ Ids' = Ids /\ transport'[x] = r
      /\ \A y \in Ids \ {x} : transport'[y] = transport[y]
  BY <1>1, <1>3, WorkEffect
<1>5. Works(x) /\ SameDrive(x)
  BY <1>1, <1>3, <1>4 DEF Works, Done, SameDrive, Answering
<1>6. Numbered'
  BY <1>1, <1>3, <1>4, <1>5, WorkNumbered
<1>. QED
  BY <1>1, <1>4, <1>5, <1>6, WithinTaskKeeps
     DEF IInv, Typed, TypeOK, eventRest, workerRest, mapVars, callVars, eventVars

(* An event that is not given is forgotten.                                *)
LEMMA DroppedKeeps ==
    ASSUME IInv, NEW x \in Ids, NEW event \in Events,
           transport[x].step \in {"taking", "picking", "emitting"},
           transport' =
              [transport EXCEPT ![x] =
                  [transport[x] EXCEPT !.step = transport[x].follows,
                                       !.event = event]],
           UNCHANGED <<eventRest, eventVars>>
    PROVE  IInv'
<1> DEFINE r == [transport[x] EXCEPT !.step = transport[x].follows,
                                     !.event = event]
<1>1. /\ transport[x].follows \in {"idle", "answering", "ending"} /\ ~Done(x)
      /\ transport[x].follows = "answering" => Answering(x)
  BY Follows
<1>2. transport[x] \in Transports
  BY TransportsTyped DEF IInv
<1>3. /\ r \in Transports /\ r.step = transport[x].follows
      /\ r.editor = transport[x].editor /\ r.terminal = transport[x].terminal
      /\ r.desired = transport[x].desired /\ r.config = transport[x].config
      /\ r.believes = transport[x].believes /\ r.tasks = transport[x].tasks
      /\ r.answers = transport[x].answers
  BY <1>1, <1>2 DEF Transports
<1>4. transport' = [transport EXCEPT ![x] = r]
  OBVIOUS
<1> HIDE DEF r
<1>5. /\ transport' \in Seq(Transports) /\ Len(transport') = Len(transport)
      /\ Ids' = Ids /\ transport'[x] = r
      /\ \A y \in Ids \ {x} : transport'[y] = transport[y]
  BY <1>3, <1>4, WorkEffect
<1>6. Works(x)
  BY <1>1, <1>3, <1>5 DEF Works
<1>7. Answering(x)' => Answering(x)
  BY <1>1, <1>3, <1>5 DEF Answering
<1>8. SameDrive(x)
  BY <1>3, <1>5, <1>7 DEF SameDrive
<1>9. Numbered'
  BY <1>1, <1>3, <1>5, <1>6, WorkNumbered
<1>. QED
  BY <1>5, <1>6, <1>8, <1>9, WithinTaskKeeps
     DEF IInv, Typed, TypeOK, eventRest, workerRest, mapVars, callVars, eventVars

(* Of an editor, only the transport that is not done has an event on its   *)
(* way.                                                                    *)
LEMMA OnlyOneRaises ==
    ASSUME IInv, NEW x \in Ids, ~Done(x), Works(x)
    PROVE  \A y \in Ids \ {x} :
              transport'[y].step \in {"picking", "emitting"} =>
                 /\ transport[y].step \in {"picking", "emitting"}
                 /\ transport'[y].event = transport[y].event
                 /\ transport'[y].editor = transport[y].editor
                 /\ transport[y].editor # transport[x].editor
<1>1. OneTransportPerEditor
  BY OneTransport DEF IInv
<1>. QED
  BY <1>1 DEF OneTransportPerEditor, Done, Works

(* The number of an event is taken by the transport in the map.            *)
LEMMA TakeSequenceKeeps ==
    ASSUME IInv, NEW x \in Ids, TakeSequence(x)
    PROVE  IInv'
<1> DEFINE e == transport[x].editor
           next == sequences[e] + 1
           event == [epoch |-> epochs[e], sequence |-> next, to |-> None]
<1>1. transport[x].step = "taking"
  BY DEF TakeSequence
<1>2. /\ transport[x] \in Transports /\ e \in Editors /\ ~Done(x)
      /\ transport[x].event \in Events
  BY <1>1, TransportsTyped, Follows DEF IInv
<1>3. /\ sequences \in [Editors -> 0 .. MaxSequence]
      /\ epochs \in [Editors -> Nat]
      /\ delivered \in [Editors -> Events]
      /\ MaxSequence \in Nat
  BY RegistryAssumption DEF IInv, Typed, TypeOK, RegistryBounds
<1>4. CASE transports[e] # x \/ next > MaxSequence
  <2>1. /\ transport' = [transport EXCEPT ![x].step = transport[x].follows]
        /\ UNCHANGED <<eventRest, eventVars>>
    BY <1>4 DEF TakeSequence, eventVars
  <2>2. transport' = [transport EXCEPT ![x] =
                        [transport[x] EXCEPT !.step = transport[x].follows,
                                             !.event = transport[x].event]]
    BY <1>2, <2>1 DEF Transports
  <2>. QED
    BY <1>1, <1>2, <2>1, <2>2, DroppedKeeps
<1>5. CASE transports[e] = x /\ ~(next > MaxSequence)
  <2>1. /\ sequences' = [sequences EXCEPT ![e] = next]
        /\ transport' = [transport EXCEPT ![x] =
                           [transport[x] EXCEPT !.step = "picking",
                                                !.event = event]]
        /\ UNCHANGED <<eventRest, epochs, delivered>>
    BY <1>5 DEF TakeSequence
  <2>2. /\ next \in 0 .. MaxSequence /\ next = sequences[e] + 1
        /\ epochs[e] \in Nat /\ sequences[e] \in Nat
    BY <1>2, <1>3, <1>5
  <2>3. /\ event \in Events /\ event.epoch = epochs[e]
        /\ event.sequence = next
    BY <2>2 DEF Events, None
  <2> HIDE DEF event, next
  <2>4. /\ Works(x) /\ SameDrive(x)
        /\ transport' \in Seq(Transports) /\ Len(transport') = Len(transport)
        /\ transport'[x].step = "picking" /\ transport'[x].event = event
    BY <1>1, <1>2, <2>1, <2>3, GoesOn
  <2>5. sequences' \in [Editors -> 0 .. MaxSequence]
    BY <1>2, <1>3, <2>1, <2>2
  <2>6. /\ sequences'[e] = next
        /\ \A f \in Editors : f # e => sequences'[f] = sequences[f]
    BY <1>2, <1>3, <2>1
  <2>7. /\ delivered[e] \in Events
        /\ ~Earlier(Latest(e), delivered[e])
    BY <1>2, <1>3 DEF IInv, Numbered
  <2>8. /\ Earlier(delivered[e], event)
        /\ \/ epochs[e] > delivered[e].epoch
           \/ epochs[e] = delivered[e].epoch /\ ~(next < delivered[e].sequence)
    BY <2>2, <2>3, <2>7 DEF Earlier, Latest, Events
  <2>9. \A f \in Editors : ~Earlier(Latest(f)', delivered'[f])
    <3>1. ASSUME NEW f \in Editors
          PROVE  /\ ~(epochs[f] < delivered[f].epoch)
                 /\ ~(epochs[f] = delivered[f].epoch
                        /\ sequences'[f] < delivered[f].sequence)
      <4>1. CASE f = e
        BY <2>2, <2>6, <2>7, <2>8, <4>1 DEF Events
      <4>2. CASE f # e
        BY <2>6, <4>2 DEF IInv, Numbered, Earlier, Latest
      <4>. QED
        BY <4>1, <4>2
    <3>. QED
      BY <2>1, <3>1 DEF Earlier, Latest
  <2>10. ASSUME NEW y \in Ids, transport'[y].step \in {"picking", "emitting"},
                NEW f \in Editors, f = transport'[y].editor
         PROVE  /\ Earlier(delivered'[f], transport'[y].event)
                /\ ~Earlier(Latest(f)', transport'[y].event)
    <3>1. CASE y = x
      <4>1. f = e /\ transport'[y].event = event
        BY <2>4, <2>10, <3>1 DEF Works
      <4>2. ~Earlier(Latest(f)', event)
        BY <2>1, <2>2, <2>3, <2>6, <4>1 DEF Earlier, Latest
      <4>. QED
        BY <2>1, <2>8, <4>1, <4>2
    <3>2. CASE y # x
      <4>1. /\ transport[y].step \in {"picking", "emitting"}
            /\ transport'[y].event = transport[y].event
            /\ transport[y].editor = f /\ f # e
        BY <1>2, <2>4, <2>10, <3>2, OnlyOneRaises
      <4>2. /\ Earlier(delivered[f], transport[y].event)
            /\ ~Earlier(Latest(f), transport[y].event)
        BY <4>1 DEF IInv, Numbered
      <4>. QED
        BY <2>1, <2>6, <4>1, <4>2 DEF Earlier, Latest
    <3>. QED
      BY <3>1, <3>2
  <2>11. Ids' = Ids /\ \A y \in Ids : transport'[y].editor \in Editors
    BY <2>4, TransportsTyped DEF IInv, Works, Transports
  <2>12. Numbered'
    BY <2>9, <2>10, <2>11 DEF Numbered, Earlier, Latest
  <2>. QED
    BY <1>3, <2>1, <2>4, <2>5, <2>12, WithinTaskKeeps
       DEF eventRest, workerRest, mapVars, callVars
<1>. QED
  BY <1>4, <1>5

LEMMA PickEmitterKeeps ==
    ASSUME IInv, NEW x \in Ids, PickEmitter(x)
    PROVE  IInv'
<1> DEFINE me == transport[x]
           event == [me.event EXCEPT !.to = emitter]
<1>1. me.step = "picking" /\ UNCHANGED <<eventRest, eventVars>>
  BY DEF PickEmitter
<1>2. me \in Transports /\ ~Done(x) /\ me.event \in Events /\ NoEvent \in Events
  BY <1>1, TransportsTyped, Follows DEF IInv
<1>3. CASE transports[me.editor] = x /\ emitter # None
  <2>1. transport' = [transport EXCEPT ![x] =
                        [me EXCEPT !.step = "emitting", !.event = event]]
    BY <1>2, <1>3 DEF PickEmitter, Transports
  <2>2. emitter \in Nat
    BY RegistryAssumption DEF IInv, Typed, TypeOK, RegistryBounds
  <2>3. /\ event \in Events /\ event.epoch = me.event.epoch
        /\ event.sequence = me.event.sequence
    BY <1>2, <2>2 DEF Events
  <2> HIDE DEF event
  <2>4. /\ Works(x) /\ SameDrive(x)
        /\ transport' \in Seq(Transports) /\ Len(transport') = Len(transport)
        /\ transport'[x].event = event
    BY <1>1, <1>2, <2>1, <2>3, GoesOn
  <2>5. Numbered'
    BY <1>1, <2>3, <2>4, WorkNumbered
  <2>. QED
    BY <1>1, <2>4, <2>5, WithinTaskKeeps
       DEF IInv, Typed, TypeOK, eventRest, workerRest, mapVars, callVars, eventVars
<1>4. CASE ~(transports[me.editor] = x /\ emitter # None)
  <2>1. transport' = [transport EXCEPT ![x] =
                        [me EXCEPT !.step = me.follows, !.event = NoEvent]]
    BY <1>4 DEF PickEmitter
  <2>. QED
    BY <1>1, <1>2, <2>1, DroppedKeeps
<1>. QED
  BY <1>3, <1>4

LEMMA LosePayloadKeeps ==
    ASSUME IInv, NEW x \in Ids, LosePayload(x)
    PROVE  IInv'
<1>1. NoEvent \in Events
  BY Follows
<1>2. transport' = [transport EXCEPT ![x] =
                      [transport[x] EXCEPT !.step = transport[x].follows,
                                           !.event = NoEvent]]
  BY DEF LosePayload
<1>. QED
  BY <1>1, <1>2, DroppedKeeps DEF LosePayload

(* The event given is the latest given, and nobody has another on its way. *)
LEMMA EmitKeeps ==
    ASSUME IInv, NEW x \in Ids, Emit(x)
    PROVE  IInv'
<1> DEFINE e == transport[x].editor
           event == transport[x].event
           step == transport[x].follows
<1>1. /\ transport[x].step = "emitting"
      /\ delivered' = [delivered EXCEPT ![e] = event]
      /\ transport' = [transport EXCEPT ![x] =
                         [transport[x] EXCEPT !.step = step, !.event = NoEvent]]
      /\ UNCHANGED <<eventRest, sequences, epochs>>
  BY DEF Emit
<1>2. /\ e \in Editors /\ event \in Events /\ NoEvent \in Events /\ ~Done(x)
      /\ step \in {"idle", "answering", "ending"}
      /\ step = "answering" => Answering(x)
  BY <1>1, Follows
<1>3. ~Earlier(Latest(e), event)
  BY <1>1 DEF IInv, Numbered
<1> HIDE DEF event, step
<1>4. /\ Works(x) /\ SameDrive(x)
      /\ transport' \in Seq(Transports) /\ Len(transport') = Len(transport)
      /\ transport'[x].step = step
  BY <1>1, <1>2, GoesOn
<1>5. /\ delivered' \in [Editors -> Events] /\ delivered'[e] = event
      /\ \A f \in Editors : f # e => delivered'[f] = delivered[f]
  BY <1>1, <1>2 DEF IInv, Typed
<1>6. ASSUME NEW f \in Editors
      PROVE  ~Earlier(Latest(f), delivered'[f])
  BY <1>3, <1>5 DEF IInv, Numbered
<1>7. ASSUME NEW y \in Ids, transport'[y].step \in {"picking", "emitting"},
             NEW f \in Editors, f = transport'[y].editor
      PROVE  /\ Earlier(delivered'[f], transport'[y].event)
             /\ ~Earlier(Latest(f), transport'[y].event)
  <2>1. y # x
    BY <1>2, <1>4, <1>7
  <2>2. /\ transport[y].step \in {"picking", "emitting"}
        /\ transport'[y].event = transport[y].event
        /\ transport[y].editor = f /\ f # e
    BY <1>2, <1>4, <1>7, <2>1, OnlyOneRaises
  <2>. QED
    BY <1>5, <2>2 DEF IInv, Numbered
<1>8. Ids' = Ids /\ \A y \in Ids : transport'[y].editor \in Editors
  BY <1>4, TransportsTyped DEF IInv, Works, Transports
<1>9. Numbered'
  BY <1>1, <1>6, <1>7, <1>8 DEF Numbered, Earlier, Latest
<1>. QED
  BY <1>1, <1>4, <1>5, <1>9, WithinTaskKeeps
     DEF IInv, Typed, TypeOK, eventRest, workerRest, mapVars, callVars

-----------------------------------------------------------------------------
(* The theorems *)

LEMMA StepIInv ==
    ASSUME IInv, [Next]_vars
    PROVE  IInv'
<1>1. CASE UNCHANGED vars
  <2> USE <1>1 DEF vars
  <2>1. Ids' = Ids /\ \A x \in Ids : Done(x)' <=> Done(x)
    BY DEF Ids, Done
  <2>2. Typed' /\ StripesHeld' /\ CallsStand' /\ Owned'
    BY <2>1 DEF IInv, Typed, TypeOK, StripesHeld, CallsStand, IsOwner, Owned,
                DestroyedRuntimeHoldsNothing
  <2>3. StateTold' /\ AttachmentStands' /\ Numbered' /\ CreationsCounted'
    BY <2>1 DEF IInv, StateTold, AttachmentStands, Numbered, Latest,
                CreationsCounted, Creators
  <2>4. \A x \in Ids : TasksAwaited(x)' /\ AnswerAwaited(x)'
    BY DEF IInv, AnswersOwed, TasksAwaited, AnswerAwaited, Answering, Awaits
  <2>. QED
    BY <2>1, <2>2, <2>3, <2>4, Together DEF AnswersOwed
<1>2. CASE \E t \in Threads :
              \/ \E e \in Editors :
                   \/ \E wants \in {"none", "off", "on"} : Configure(t, e, wants)
                   \/ Destroy(t, e)
              \/ Call(t)
  <2> PICK t \in Threads :
              \/ \E e \in Editors :
                   \/ \E wants \in {"none", "off", "on"} : Configure(t, e, wants)
                   \/ Destroy(t, e)
              \/ Call(t)
    BY <1>2
  <2>1. ASSUME NEW e \in Editors, NEW wants \in {"none", "off", "on"},
               Configure(t, e, wants)
        PROVE  IInv'
    BY <2>1, ConfigureKeeps
  <2>2. ASSUME NEW e \in Editors, Destroy(t, e)
        PROVE  IInv'
    BY <2>2, DestroyKeeps
  <2>3. CASE Call(t)
    BY <2>3, EnterKeeps, AdmitKeeps, RemoveKeeps, AwaitRetirementKeeps,
       WaitKeeps, GetOrCreateKeeps, SubmitKeeps, SettleKeeps, AbandonKeeps
       DEF Call
  <2>. QED
    BY <2>1, <2>2, <2>3
<1>3. CASE ActivateRuntime
  BY <1>3, ActivateRuntimeKeeps
<1>4. CASE \E s \in {"foreground", "background"} : RequestHostState(s)
  BY <1>4, RequestHostStateKeeps
<1>5. CASE \E r \in 1 .. MaxRuntimes : DestroyRuntime(r)
  BY <1>5, DestroyRuntimeKeeps
<1>6. CASE Lifecycle
  BY <1>6, SetEventEmitterKeeps, AttachHostKeeps, TellKeeps, ToldKeeps
     DEF Lifecycle
<1>7. CASE \E x \in Ids : Work(x) \/ Raise(x)
  BY <1>7, RunHostKeeps, RunConfigureKeeps, RunDestroyKeeps, AnswerKeeps,
     CompleteKeeps, ForgetKeeps, RaiseKeeps, TakeSequenceKeeps,
     PickEmitterKeeps, LosePayloadKeeps, EmitKeeps DEF Work
<1>. QED
  BY <1>1, <1>2, <1>3, <1>4, <1>5, <1>6, <1>7 DEF Next

LEMMA Invariant == Spec => []IInv
<1>. QED
  BY InitIInv, StepIInv, PTL DEF Spec

(* The registry never has two live transports on one session, leaves none  *)
(* behind for a runtime that is gone, tells each the state last requested  *)
(* and finds the session attached where a transport means it to be.        *)
THEOREM TransportsOwned == Spec => []TransportsAreOwned
<1>. QED
  BY Invariant, InvariantImplies, PTL

(* An event is given only by a transport that has one on its way.          *)
LEMMA StepEventsInOrder ==
    ASSUME IInv, [Next]_vars
    PROVE  [\A e \in Editors :
               delivered'[e] # delivered[e] =>
                  Earlier(delivered[e], delivered'[e])]_vars
<1>1. CASE UNCHANGED delivered
  BY <1>1
<1>2. ASSUME NEW x \in Ids, Emit(x), NEW e \in Editors,
             delivered'[e] # delivered[e]
      PROVE  Earlier(delivered[e], delivered'[e])
  <2>1. delivered \in [Editors -> Events]
    BY DEF IInv, Typed
  <2>2. /\ delivered' = [delivered EXCEPT ![transport[x].editor] = transport[x].event]
        /\ transport[x].step = "emitting"
    BY <1>2 DEF Emit
  <2>3. e = transport[x].editor /\ delivered'[e] = transport[x].event
    BY <1>2, <2>1, <2>2
  <2>. QED
    BY <2>2, <2>3 DEF IInv, Numbered
<1>3. CASE \E t \in Threads :
              \/ \E e \in Editors :
                   \/ \E wants \in {"none", "off", "on"} : Configure(t, e, wants)
                   \/ Destroy(t, e)
              \/ Call(t)
  <2>. UNCHANGED delivered
    BY <1>3 DEF Configure, Destroy, Renumber, Call, Enter, Admit, Remove,
                AwaitRetirement, Wait, GetOrCreate, Submit, Settle, Abandon,
                eventVars
  <2>. QED
    BY <1>1
<1>4. CASE \/ ActivateRuntime
           \/ \E s \in {"foreground", "background"} : RequestHostState(s)
           \/ \E r \in 1 .. MaxRuntimes : DestroyRuntime(r)
           \/ Lifecycle
  <2>. UNCHANGED delivered
    BY <1>4 DEF ActivateRuntime, RequestHostState, Request, DestroyRuntime,
                Renumber, Lifecycle, SetEventEmitter, AttachHost, Tell, Told,
                moduleRest, eventVars
  <2>. QED
    BY <1>1
<1>5. CASE \E x \in Ids : Work(x) \/ Raise(x)
  <2> PICK x \in Ids : Work(x) \/ Raise(x)
    BY <1>5
  <2>1. Emit(x) \/ UNCHANGED delivered
    BY DEF Work, Raise, RunHost, RunConfigure, RunDestroy, Answer, Complete,
           Forget, TakeSequence, PickEmitter, LosePayload, eventVars
  <2>. QED
    BY <1>1, <1>2, <2>1
<1>. QED
  BY <1>1, <1>3, <1>4, <1>5 DEF Next, vars

(* The events of an editor reach its listener in the order of their        *)
(* numbers, whichever transports raised them.                              *)
THEOREM EventsOrdered == Spec => EventsInOrder
<1>. QED
  BY Invariant, StepEventsInOrder, PTL DEF Spec, EventsInOrder

=============================================================================
