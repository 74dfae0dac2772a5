------------------------- MODULE TransportRegistry -------------------------
(***************************************************************************)
(* The registry of the Android host's collaboration transports             *)
(* (NativeCollaborationTransportRegistry.kt): JavaScript threads configure *)
(* and remove the transport of an editor while the module activates and    *)
(* destroys its runtimes, the activity moves, and every transport runs its *)
(* tasks and raises its events on a worker thread of its own.              *)
(*                                                                         *)
(* A step is one block under `lock` or `submissionLock`, one wait, or one  *)
(* task of a worker.  Of a transport (TransportHost has the rest) only     *)
(* what the registry and the native session see is kept: its desired host  *)
(* state, and whether it believes the session attached.                    *)
(***************************************************************************)
EXTENDS Integers, Sequences

CONSTANTS
    Editors,
    StripeOf,       \* editor -> its lock among configureLocks
    Threads,
    MaxRuntimes,    \* bound: runtimes activated
    MaxCalls,       \* bound: calls to configure
    MaxSequence,    \* bound: events numbered in one numbering, then dropped
    MaxFaults,      \* bound: calls to the session that fail
    MaxMoves        \* bound: moves of the activity

RegistryBounds ==
    /\ {MaxRuntimes, MaxCalls, MaxSequence, MaxFaults, MaxMoves}
          \subseteq Nat
    /\ DOMAIN StripeOf = Editors

ASSUME RegistryAssumption == RegistryBounds

None == 0
Stripes == {StripeOf[e] : e \in Editors}
HostStates == {"foreground", "background", "detached"}

VARIABLES
    runtime,      \* runtimeToken, None while runtimeActive is false
    activated,    \* the runtimes activated so far
    hostState,
    emitter,      \* the runtime whose eventEmitter is set
    transports,   \* editor -> its transport
    retirements,  \* editor -> the transport whose completion is kept
    sequences,    \* eventSequences
    epochs,       \* history: the numberings begun for each editor
    lockedBy,     \* the thread inside each of configureLocks
    transport,    \* the transports created, in order
    attached,     \* is the native session of the editor attached
    caller,       \* the call each thread is in
    module,       \* the lifecycle callback in progress
    delivered,    \* history: the last event given to the listener of an editor
    calls,        \* the calls to configure so far
    faults,
    moves

vars == <<runtime, activated, hostState, emitter, transports, retirements,
          sequences, epochs, lockedBy, transport, attached, caller, module,
          delivered, calls, faults, moves>>

callVars == <<lockedBy, caller, calls>>
mapVars == <<transports, retirements>>
eventVars == <<sequences, epochs, delivered>>
moduleVars == <<runtime, activated, hostState, emitter, module, moves>>

NoEvent == [epoch |-> 0, sequence |-> 0, to |-> None]
NoCall == [at |-> "idle", owner |-> None, of |-> None, wants |-> "none",
           on |-> None, created |-> FALSE, error |-> FALSE]
AtRest == [at |-> "idle", owner |-> None, pending |-> {}]

(* tasks is the queue of the worker; step is where it is in its task, and  *)
(* follows what it does once the event it raises is through.               *)
NewTransport(e) ==
    [editor |-> e, terminal |-> FALSE, config |-> "none",
     desired |-> hostState, believes |-> TRUE,
     tasks |-> <<[does |-> "host"]>>, step |-> "idle", follows |-> "idle",
     event |-> NoEvent, answers |-> None, error |-> FALSE]

Ids == 1 .. Len(transport)
Done(x) == transport[x].step \in {"completed", "gone"}
Goes(t, place) == caller' = [caller EXCEPT ![t].at = place]
IsOwner(t) == runtime = caller[t].owner

Init ==
    /\ runtime = None /\ activated = 0
    /\ hostState = "foreground"
    /\ emitter = None
    /\ transports = [e \in Editors |-> None]
    /\ retirements = [e \in Editors |-> None]
    /\ sequences = [e \in Editors |-> 0]
    /\ epochs = [e \in Editors |-> 1]
    /\ lockedBy = [s \in Stripes |-> {}]
    /\ transport = <<>>
    /\ attached = [e \in Editors |-> FALSE]
    /\ caller = [t \in Threads |-> NoCall]
    /\ module = AtRest
    /\ delivered = [e \in Editors |-> NoEvent]
    /\ calls = 0 /\ faults = 0 /\ moves = 0

-----------------------------------------------------------------------------
(* Retirement: destroyAsync under the registry's lock.                     *)

(* The transports once those in xs were asked to destroy themselves.       *)
Retired(xs) ==
    [x \in Ids |->
        IF x \in xs
          THEN [transport[x] EXCEPT !.terminal = TRUE, !.desired = "detached",
                                    !.tasks = Append(@, [does |-> "destroy"])]
          ELSE transport[x]]

Retire(e) ==
    IF transports[e] = None
      THEN UNCHANGED <<transport, transports, retirements>>
      ELSE /\ transport' = Retired({transports[e]})
           /\ retirements' = [retirements EXCEPT ![e] = transports[e]]
           /\ transports' = [transports EXCEPT ![e] = None]

(* The numbering of the events of es begins anew.                          *)
Renumber(es) ==
    /\ sequences' = [e \in Editors |-> IF e \in es THEN 0 ELSE sequences[e]]
    /\ epochs' = [e \in Editors |->
                    IF e \in es /\ sequences[e] > 0 THEN epochs[e] + 1
                    ELSE epochs[e]]
    /\ UNCHANGED delivered

-----------------------------------------------------------------------------
(* configure                                                               *)

Configure(t, e, wants) ==
    /\ caller[t].at = "idle"
    /\ runtime # None
    /\ calls < MaxCalls
    /\ calls' = calls + 1
    /\ caller' = [caller EXCEPT ![t] =
                    [NoCall EXCEPT !.at = "contending", !.owner = runtime,
                                   !.of = e, !.wants = wants]]
    /\ UNCHANGED <<moduleVars, mapVars, eventVars, lockedBy, transport,
                   attached, faults>>

Enter(t) ==
    LET s == StripeOf[caller[t].of] IN
    /\ caller[t].at = "contending"
    /\ lockedBy[s] = {}
    /\ lockedBy' = [lockedBy EXCEPT ![s] = {t}]
    /\ Goes(t, "admitting")
    /\ UNCHANGED <<calls, moduleVars, mapVars, eventVars, transport, attached,
                   faults>>

(* The call returns and leaves the lock.                                   *)
Leave(t) ==
    /\ lockedBy' = [lockedBy EXCEPT ![StripeOf[caller[t].of]] = {}]
    /\ caller' = [caller EXCEPT ![t] = NoCall]

(* On to the next place, or out if the runtime is no longer the owner's.   *)
OwnerGoes(t, place) ==
    IF IsOwner(t) THEN Goes(t, place) /\ UNCHANGED lockedBy ELSE Leave(t)

Admit(t) ==
    /\ caller[t].at = "admitting"
    /\ OwnerGoes(t, IF caller[t].wants = "none" THEN "removing" ELSE "awaiting")
    /\ UNCHANGED <<calls, moduleVars, mapVars, eventVars, transport, attached,
                   faults>>

Remove(t) ==
    /\ caller[t].at = "removing"
    /\ Retire(caller[t].of)
    /\ Leave(t)
    /\ UNCHANGED <<calls, moduleVars, eventVars, attached, faults>>

(* A mutation: the retirement of the previous transport is not awaited.    *)
AwaitNothing(t) ==
    /\ caller[t].at = "awaiting"
    /\ Goes(t, "creating")
    /\ UNCHANGED <<calls, moduleVars, mapVars, eventVars, lockedBy, transport,
                   attached, faults>>

AwaitRetirement(t) ==
    LET x == retirements[caller[t].of] IN
    /\ caller[t].at = "awaiting"
    /\ caller' = [caller EXCEPT ![t].at = IF x = None THEN "creating"
                                          ELSE "waiting",
                                ![t].on = x]
    /\ UNCHANGED <<calls, moduleVars, mapVars, eventVars, lockedBy, transport,
                   attached, faults>>

Wait(t) ==
    /\ caller[t].at = "waiting"
    /\ Done(caller[t].on)
    /\ Goes(t, "awaiting")
    /\ UNCHANGED <<calls, moduleVars, mapVars, eventVars, lockedBy, transport,
                   attached, faults>>

GetOrCreate(t) ==
    LET e == caller[t].of
        x == Len(transport) + 1 IN
    /\ caller[t].at = "creating"
    /\ IF ~IsOwner(t)
         THEN Leave(t) /\ UNCHANGED <<transport, transports>>
         ELSE IF transports[e] # None
         THEN /\ caller' = [caller EXCEPT ![t].at = "submitting",
                                          ![t].on = transports[e]]
              /\ UNCHANGED <<lockedBy, transport, transports>>
         ELSE /\ transport' = Append(transport, NewTransport(e))
              /\ transports' = [transports EXCEPT ![e] = x]
              /\ caller' = [caller EXCEPT ![t].at = "submitting",
                                          ![t].on = x, ![t].created = TRUE]
              /\ UNCHANGED lockedBy
    /\ UNCHANGED <<calls, moduleVars, retirements, eventVars, attached, faults>>

(* transport.configure, outside the registry's lock: refused by a terminal *)
(* transport, a task of the worker otherwise.                              *)
Submit(t) ==
    LET x == caller[t].on IN
    /\ caller[t].at = "submitting"
    /\ IF transport[x].terminal
         THEN /\ caller' = [caller EXCEPT ![t].at = "settling", ![t].error = TRUE]
              /\ UNCHANGED transport
         ELSE /\ Goes(t, "calling")
              /\ transport' =
                   [transport EXCEPT ![x].tasks =
                       Append(@, [does |-> "configure", by |-> t,
                                  config |-> caller[t].wants])]
    /\ UNCHANGED <<calls, moduleVars, mapVars, eventVars, lockedBy, attached,
                   faults>>

(* A transport that was created for the call and refused it goes again.    *)
Settle(t) ==
    LET c == caller[t] IN
    /\ c.at = "settling"
    /\ IF IsOwner(t) /\ transports[c.of] = c.on /\ c.error /\ c.created
         THEN Goes(t, "abandoning") /\ UNCHANGED lockedBy
         ELSE Leave(t)
    /\ UNCHANGED <<calls, moduleVars, mapVars, eventVars, transport, attached,
                   faults>>

Abandon(t) ==
    /\ caller[t].at = "abandoning"
    /\ IF transports[caller[t].of] = caller[t].on
         THEN Retire(caller[t].of)
         ELSE UNCHANGED <<mapVars, transport>>
    /\ Leave(t)
    /\ UNCHANGED <<calls, moduleVars, eventVars, attached, faults>>

(* destroy, once the editor itself was destroyed.                          *)
Destroy(t, e) ==
    /\ caller[t].at = "idle"
    /\ lockedBy[StripeOf[e]] = {}
    /\ Retire(e)
    /\ Renumber({e})
    /\ UNCHANGED <<moduleVars, callVars, attached, faults>>

-----------------------------------------------------------------------------
(* The module's lifecycle callbacks, one after the other.                  *)

moduleRest == <<mapVars, callVars, eventVars, transport, attached, faults>>

(* OnCreate: activateRuntime, setEventEmitter, attachHost.                 *)
ActivateRuntime ==
    /\ module.at = "idle"
    /\ activated < MaxRuntimes
    /\ activated' = activated + 1
    /\ runtime' = activated + 1
    /\ module' = [AtRest EXCEPT !.at = "created", !.owner = activated + 1]
    /\ UNCHANGED <<moduleRest, hostState, emitter, moves>>

SetEventEmitter ==
    /\ module.at = "created"
    /\ emitter' = module.owner
    /\ module' = [module EXCEPT !.at = "listening"]
    /\ UNCHANGED <<moduleRest, runtime, activated, hostState, moves>>

(* requestHostState: the state is set and the transports listed under the  *)
(* lock; each is told after it.  To a transport, the background and the    *)
(* detached state are the same.                                            *)
Request(s) ==
    /\ hostState' = s
    /\ module' = [AtRest EXCEPT !.at = "telling",
                                !.pending = {transports[e] : e \in Editors}
                                              \ {None}]
    /\ UNCHANGED <<moduleRest, runtime, activated, emitter>>

AttachHost == module.at = "listening" /\ Request("foreground") /\ UNCHANGED moves

RequestHostState(s) ==
    /\ module.at = "idle"
    /\ runtime # None
    /\ moves < MaxMoves
    /\ moves' = moves + 1
    /\ Request(s)

Tell(x) ==
    /\ module.at = "telling"
    /\ x \in module.pending
    /\ module' = [module EXCEPT !.pending = @ \ {x}]
    /\ transport' =
         IF transport[x].terminal THEN transport
         ELSE [transport EXCEPT ![x].desired = hostState,
                                ![x].tasks = Append(@, [does |-> "host"])]
    /\ UNCHANGED <<mapVars, callVars, eventVars, attached, faults, runtime,
                   activated, hostState, emitter, moves>>

Told ==
    /\ module.at = "telling"
    /\ module.pending = {}
    /\ module' = AtRest
    /\ UNCHANGED <<moduleRest, runtime, activated, hostState, emitter, moves>>

(* OnDestroy: only the runtime that is current destroys anything.          *)
DestroyRuntime(r) ==
    /\ module.at = "idle"
    /\ runtime # None
    /\ r = runtime
    /\ runtime' = None
    /\ emitter' = None
    /\ hostState' = "detached"
    /\ LET es == {e \in Editors : transports[e] # None} IN
       /\ transport' = Retired({transports[e] : e \in es})
       /\ retirements' = [e \in Editors |->
                            IF e \in es THEN transports[e] ELSE retirements[e]]
    /\ transports' = [e \in Editors |-> None]
    /\ Renumber(Editors)
    /\ UNCHANGED <<callVars, attached, faults, activated, module, moves>>

-----------------------------------------------------------------------------
(* The worker of a transport.                                              *)

workerRest == <<moduleVars, mapVars, lockedBy, calls>>

Runs(x, does) ==
    /\ transport[x].step = "idle"
    /\ transport[x].tasks # <<>>
    /\ Head(transport[x].tasks).does = does

(* The task leaves me behind, and raises an event first or not.            *)
Ran(x, me, raises) ==
    transport' = [transport EXCEPT ![x] =
        [me EXCEPT !.tasks = Tail(@),
                   !.step = IF raises THEN "taking" ELSE me.follows]]

(* A call to the native session, which may fail and then changes nothing.  *)
Calls(x, to, ok) ==
    LET e == transport[x].editor IN
    IF ok THEN attached' = [attached EXCEPT ![e] = to] /\ UNCHANGED faults
    ELSE faults < MaxFaults /\ faults' = faults + 1 /\ UNCHANGED attached

(* reconcileDesiredState by a transport that ends as `me`; its error is    *)
(* raised by a host task and answered by a configure task.                 *)
Reconcile(x, me, ok, raises) ==
    LET to == me.desired = "foreground" IN
    IF me.terminal \/ me.believes = to \/ (to /\ me.config # "on")
      THEN ok /\ Ran(x, me, FALSE) /\ UNCHANGED <<attached, faults>>
      ELSE /\ Calls(x, to, ok)
           /\ Ran(x, [me EXCEPT !.believes = IF ok THEN to ELSE @, !.error = ~ok],
                  raises /\ ~ok)

RunHost(x, ok) ==
    /\ Runs(x, "host")
    /\ Reconcile(x, [transport[x] EXCEPT !.follows = "idle"], ok, TRUE)
    /\ UNCHANGED <<workerRest, caller, eventVars>>

(* The session is detached, then attached again if it is to be connected.  *)
Reconfigure(x, me, config, ok) ==
    LET connects == config = "on" /\ me.desired = "foreground" IN
    \/ /\ ok
       /\ attached' = [attached EXCEPT ![me.editor] =
                         IF me.believes \/ connects THEN connects ELSE @]
       /\ Ran(x, [me EXCEPT !.config = config, !.believes = connects], FALSE)
       /\ UNCHANGED faults
    \/ /\ ~ok /\ me.believes
       /\ Calls(x, FALSE, FALSE)
       /\ Ran(x, [me EXCEPT !.error = TRUE], TRUE)
    \/ /\ ~ok /\ connects
       /\ faults < MaxFaults /\ faults' = faults + 1
       /\ attached' = [attached EXCEPT ![me.editor] =
                         IF me.believes THEN FALSE ELSE @]
       /\ Ran(x, [me EXCEPT !.error = TRUE, !.believes = FALSE], TRUE)

RunConfigure(x, ok) ==
    LET config == Head(transport[x].tasks).config
        me == [transport[x] EXCEPT !.follows = "answering", !.error = FALSE,
                                   !.answers = Head(transport[x].tasks).by] IN
    /\ Runs(x, "configure")
    /\ IF me.terminal
         THEN /\ ok /\ Ran(x, [me EXCEPT !.error = TRUE], FALSE)
              /\ UNCHANGED <<attached, faults>>
         ELSE IF config = me.config THEN Reconcile(x, me, ok, FALSE)
         ELSE Reconfigure(x, me, config, ok)
    /\ UNCHANGED <<workerRest, caller, eventVars>>

(* A mutation: a session that refuses to detach leaves the task unfinished. *)
RunDestroyUnguarded(x, ok) ==
    LET me == [transport[x] EXCEPT !.follows = IF ok THEN "ending" ELSE "idle", !.config = "none",
                                   !.believes = ~ok] IN
    /\ Runs(x, "destroy")
    /\ IF transport[x].believes
         THEN Calls(x, FALSE, ok) /\ Ran(x, me, ~ok)
         ELSE ok /\ Ran(x, me, FALSE) /\ UNCHANGED <<attached, faults>>
    /\ UNCHANGED <<workerRest, caller, eventVars>>

(* The last task: the future is completed whatever the session answers.    *)
RunDestroy(x, ok) ==
    LET me == [transport[x] EXCEPT !.follows = "ending", !.config = "none",
                                   !.believes = ~ok] IN
    /\ Runs(x, "destroy")
    /\ IF transport[x].believes
         THEN Calls(x, FALSE, ok) /\ Ran(x, me, ~ok)
         ELSE ok /\ Ran(x, me, FALSE) /\ UNCHANGED <<attached, faults>>
    /\ UNCHANGED <<workerRest, caller, eventVars>>

Answer(x) ==
    LET t == transport[x].answers IN
    /\ transport[x].step = "answering"
    /\ transport' = [transport EXCEPT ![x].step = "idle", ![x].answers = None]
    /\ caller' = [caller EXCEPT ![t].at = "settling",
                                ![t].error = transport[x].error]
    /\ UNCHANGED <<workerRest, eventVars, attached, faults>>

Complete(x) ==
    /\ transport[x].step = "ending"
    /\ transport' = [transport EXCEPT ![x].step = "completed"]
    /\ UNCHANGED <<workerRest, caller, eventVars, attached, faults>>

(* The callback on the completion: a later retirement is not forgotten.    *)
Forget(x) ==
    LET e == transport[x].editor IN
    /\ transport[x].step = "completed"
    /\ transport' = [transport EXCEPT ![x].step = "gone"]
    /\ retirements' = [retirements EXCEPT ![e] = IF @ = x THEN None ELSE @]
    /\ UNCHANGED <<moduleVars, transports, callVars, eventVars, attached, faults>>

-----------------------------------------------------------------------------
(* enqueueEvent, on the worker.                                            *)

eventRest == <<workerRest, caller, attached, faults>>

(* A callback of the socket or of a timer drives the session.              *)
Raise(x) ==
    LET me == transport[x] IN
    /\ me.step = "idle"
    /\ ~me.terminal
    /\ me.desired = "foreground" /\ me.believes /\ me.config = "on"
    /\ sequences[me.editor] < MaxSequence
    /\ transport' = [transport EXCEPT ![x].step = "taking",
                                      ![x].follows = "idle"]
    /\ UNCHANGED <<eventRest, eventVars>>

TakeSequence(x) ==
    LET me == transport[x]
        e == me.editor
        next == sequences[e] + 1 IN
    /\ me.step = "taking"
    /\ IF transports[e] # x \/ next > MaxSequence
         THEN /\ transport' = [transport EXCEPT ![x].step = me.follows]
              /\ UNCHANGED sequences
         ELSE /\ sequences' = [sequences EXCEPT ![e] = next]
              /\ transport' =
                   [transport EXCEPT ![x].step = "picking",
                                     ![x].event = [epoch |-> epochs[e],
                                                   sequence |-> next,
                                                   to |-> None]]
    /\ UNCHANGED <<eventRest, epochs, delivered>>

(* The payload is read, or cannot be, without a lock; then the emitter is  *)
(* taken if the transport is still the editor's.                           *)
PickEmitter(x) ==
    LET me == transport[x] IN
    /\ me.step = "picking"
    /\ transport' =
         IF transports[me.editor] = x /\ emitter # None
           THEN [transport EXCEPT ![x].step = "emitting", ![x].event.to = emitter]
           ELSE [transport EXCEPT ![x].step = me.follows, ![x].event = NoEvent]
    /\ UNCHANGED <<eventRest, eventVars>>

LosePayload(x) ==
    /\ transport[x].step = "picking"
    /\ transport' = [transport EXCEPT ![x].step = transport[x].follows,
                                      ![x].event = NoEvent]
    /\ UNCHANGED <<eventRest, eventVars>>

Emit(x) ==
    LET me == transport[x] IN
    /\ me.step = "emitting"
    /\ delivered' = [delivered EXCEPT ![me.editor] = me.event]
    /\ transport' = [transport EXCEPT ![x].step = me.follows, ![x].event = NoEvent]
    /\ UNCHANGED <<eventRest, sequences, epochs>>

-----------------------------------------------------------------------------

Call(t) ==
    \/ Enter(t)
    \/ Admit(t)
    \/ Remove(t)
    \/ AwaitRetirement(t)
    \/ Wait(t)
    \/ GetOrCreate(t)
    \/ Submit(t)
    \/ Settle(t)
    \/ Abandon(t)

Work(x) ==
    \/ \E ok \in BOOLEAN :
         RunHost(x, ok) \/ RunConfigure(x, ok) \/ RunDestroy(x, ok)
    \/ Answer(x)
    \/ Complete(x)
    \/ Forget(x)
    \/ TakeSequence(x)
    \/ PickEmitter(x)
    \/ LosePayload(x)
    \/ Emit(x)

Lifecycle ==
    \/ SetEventEmitter
    \/ AttachHost
    \/ \E x \in module.pending : Tell(x)
    \/ Told

Next ==
    \/ \E t \in Threads :
         \/ \E e \in Editors :
              \/ \E wants \in {"none", "off", "on"} : Configure(t, e, wants)
              \/ Destroy(t, e)
         \/ Call(t)
    \/ ActivateRuntime
    \/ \E s \in {"foreground", "background"} : RequestHostState(s)
    \/ \E r \in 1 .. MaxRuntimes : DestroyRuntime(r)
    \/ Lifecycle
    \/ \E x \in Ids : Work(x) \/ Raise(x)

Spec == Init /\ [][Next]_vars

(* Threads and workers that have something to do are scheduled.            *)
FairSpec ==
    /\ Spec
    /\ WF_vars(Lifecycle)
    /\ \A t \in Threads : WF_vars(Call(t))
    /\ \A x \in 1 .. MaxCalls : WF_vars(x \in Ids /\ Work(x))

-----------------------------------------------------------------------------
(* Properties *)

(* Types of the variables.                                                 *)
TypeOK ==
    /\ runtime \in 0 .. activated
    /\ activated \in 0 .. MaxRuntimes
    /\ hostState \in HostStates
    /\ emitter \in 0 .. activated
    /\ transports \in [Editors -> 0 .. Len(transport)]
    /\ retirements \in [Editors -> 0 .. Len(transport)]
    /\ sequences \in [Editors -> 0 .. MaxSequence]
    /\ lockedBy \in [Stripes -> SUBSET Threads]
    /\ attached \in [Editors -> BOOLEAN]
    /\ Len(transport) <= MaxCalls
    /\ \A x \in Ids :
          /\ transport[x].config \in {"none", "off", "on"}
          /\ transport[x].step \in {"idle", "taking", "picking", "emitting",
                                    "answering", "ending", "completed", "gone"}

(* configure and destroyRuntime: an editor's session is never driven by    *)
(* two transports at once; the next is created only when the worker of     *)
(* the last has done its last task, whoever retired it and however many    *)
(* threads configure the editor.                                           *)
OneTransportPerEditor ==
    \A x, y \in Ids :
        x # y /\ transport[x].editor = transport[y].editor => Done(x) \/ Done(y)

(* A transport that means to keep its session attached finds it so: none   *)
(* before it detaches the session later.                                   *)
AttachmentStands ==
    \A x \in Ids :
        transport[x].config = "on" /\ transport[x].believes /\ ~Done(x) =>
            attached[transport[x].editor]

(* A runtime that was destroyed leaves no transport behind, not even one   *)
(* whose creation had begun.                                               *)
DestroyedRuntimeHoldsNothing ==
    runtime = None => \A e \in Editors : transports[e] = None

(* requestHostState and the creation of a transport: once every transport  *)
(* was told, each holds the state last requested.                          *)
HostStateReaches ==
    module.at # "telling" =>
        \A e \in Editors :
            transports[e] # None => transport[transports[e]].desired = hostState

(* What the registry promises of its transports at any moment, together.   *)
TransportsAreOwned ==
    /\ TypeOK
    /\ OneTransportPerEditor
    /\ AttachmentStands
    /\ DestroyedRuntimeHoldsNothing
    /\ HostStateReaches

Earlier(event, other) ==
    \/ event.epoch < other.epoch
    \/ event.epoch = other.epoch /\ event.sequence < other.sequence

(* YjsCollaboration.ts drops an event that is not newer than the last: the *)
(* events of an editor are given in the order of their numbers, and none   *)
(* of an earlier numbering after one of a later, though they are raised    *)
(* on the threads of several transports and given outside the lock.        *)
EventsInOrder ==
    [][\A e \in Editors :
          delivered'[e] # delivered[e] => Earlier(delivered[e], delivered'[e])]_vars

(* Every call to configure returns, though it waits for the lock of its    *)
(* stripe, for a retirement and for a worker while runtimes come and go.   *)
CallsReturn ==
    \A t \in Threads : caller[t].at # "idle" ~> caller[t].at = "idle"

(* A transport that was retired is gone in the end, and its session was    *)
(* detached unless the session refused.                                    *)
RetirementsEnd ==
    \A e \in Editors : retirements[e] # None ~> retirements[e] = None

=============================================================================
