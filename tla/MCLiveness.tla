----------------------------- MODULE MCLiveness -----------------------------
(***************************************************************************)
(* What must happen in the end, in the parts that promise it, each under   *)
(* the fairness its own module states: the transport state machine, whose  *)
(* constants and properties are those of this module, the registry of      *)
(* sessions and the one of native transports, the prelude of a protocol    *)
(* adapter, the image loader, the native view and the prepared layouts.  A *)
(* behaviour is one of the part that `scenario' names, while the others    *)
(* rest.                                                                   *)
(***************************************************************************)
EXTENDS Transport, FiniteSets

CONSTANTS t1, t2, t3,  \* threads
          e1, e2,      \* editors
          s1, s2,      \* images
          Scenarios

(* Three delays: two that grow and a final one that repeats.               *)
SmallDelays == <<1, 2, 3>>

(* Three threads and two sessions; no operation panics.                    *)
VARIABLES next_id, registry, registry_lock, lifecycle, session_lock, poisoned,
          teardowns, at, of

Sessions ==
    INSTANCE SessionRegistry WITH
        Threads <- {t1, t2, t3}, MaxSessionId <- 2, Panics <- FALSE

(* Two editors that share a lock; and one whose session may refuse a call. *)
VARIABLES runtime, activated, hostState, emitter, transports, retirements,
          sequences, epochs, lockedBy, handles, attached, caller, module,
          delivered, configured, failed, moves

Bindings ==
    INSTANCE TransportRegistry WITH
        calls <- configured, faults <- failed, transport <- handles,
        Editors <- {e1, e2}, StripeOf <- [e \in {e1, e2} |-> 1],
        Threads <- {t1, t2}, MaxRuntimes <- 1, MaxCalls <- 2,
        MaxSequence <- 0, MaxFaults <- 0, MaxMoves <- 0

Refused ==
    INSTANCE TransportRegistry WITH
        calls <- configured, faults <- failed, transport <- handles,
        Editors <- {e1}, StripeOf <- [e \in {e1} |-> 1],
        Threads <- {t1, t2}, MaxRuntimes <- 1, MaxCalls <- 2,
        MaxSequence <- 0, MaxFaults <- 1, MaxMoves <- 0

(* An adapter that need not answer, and frames behind it.                  *)
VARIABLES host, room, foreground, attempts, socket, queue, asked, sent, heard,
          ready

Prelude ==
    INSTANCE ProtocolAdapter WITH
        session <- room,
        MAXIMUM_PRE_READY_FRAMES <- 2, MaxAttempts <- 1, MaxFrames <- 3

(* Two loads with one slot, and a decoder that need not return.            *)
VARIABLES l, calls, cache, rejections, posted, thread, refs, dead, cachedTimers

Images ==
    INSTANCE ImageLoader WITH
        Loads <- 1 .. 2, Sources <- {s1, s2}, Visible <- {2},
        MaxConcurrent <- 1, MaxPending <- 1, AdmissionLimit <- 2,
        QueueCapacity <- 2, Workers <- {"w1"}, RejectionLimit <- 1,
        Mortal <- {1, 2}, Fickle <- {}

(* A view none of whose calls fails.                                       *)
VARIABLES session, adapter, view, task, noticed, edit, faults

Viewed ==
    INSTANCE NativeView WITH
        Owners <- {1, 2}, MaxRevision <- 4, MaxFaults <- 0, Resets <- TRUE,
        Reads <- TRUE, Epochless <- TRUE

(* The first tree of a viewer, whose layout is evicted once.               *)
VARIABLES lease, layouts, pins, jobs, inFlight, notices, main, shown, family,
          pressure

Layouts ==
    INSTANCE FabricLeases WITH
        cache <- layouts, posted <- notices, view <- shown,
        Generations <- {1}, Widths <- {1, 2}, Workers <- {1},
        MaxLayouts <- 1, MaxPressure <- 1, Unmeasured <- FALSE,
        Unnames <- FALSE

ASSUME InstanceAssumption ==
    /\ Bindings!RegistryBounds /\ Refused!RegistryBounds /\ Prelude!AdapterBounds
    /\ Images!LoaderAssumption /\ Images!ThreadsAssumption
    /\ Viewed!ViewAssumption /\ Layouts!LeaseBounds

-----------------------------------------------------------------------------

VARIABLE scenario

sessionVars ==
    <<next_id, registry, registry_lock, lifecycle, session_lock, poisoned,
      teardowns, at, of>>

bindingVars ==
    <<runtime, activated, hostState, emitter, transports, retirements,
      sequences, epochs, lockedBy, handles, attached, caller, module,
      delivered, configured, failed, moves>>

preludeVars ==
    <<host, room, foreground, attempts, socket, queue, asked, sent, heard,
      ready>>

imageVars ==
    <<l, calls, cache, rejections, posted, thread, refs, dead, cachedTimers>>

viewVars == <<session, adapter, view, task, noticed, edit, faults>>

layoutVars ==
    <<lease, layouts, pins, jobs, inFlight, notices, main, shown, family,
      pressure>>

transportVars == vars

allVars ==
    <<scenario, transportVars, sessionVars, bindingVars, preludeVars, imageVars, viewVars,
      layoutVars>>

(* The variables of a part that is not running are empty; the state        *)
(* machine rests as one without a room begins.                             *)
NoSessions ==
    /\ next_id = {} /\ registry = {} /\ registry_lock = {} /\ lifecycle = {}
    /\ session_lock = {} /\ poisoned = {} /\ teardowns = {} /\ at = {}
    /\ of = {}

NoBindings ==
    /\ runtime = {} /\ activated = {} /\ hostState = {} /\ emitter = {}
    /\ transports = {} /\ retirements = {} /\ sequences = {} /\ epochs = {}
    /\ lockedBy = {} /\ handles = {} /\ attached = {} /\ caller = {}
    /\ module = {} /\ delivered = {} /\ configured = {} /\ failed = {}
    /\ moves = {}

NoPrelude ==
    /\ host = {} /\ room = {} /\ foreground = {} /\ attempts = {}
    /\ socket = {} /\ queue = {} /\ asked = {} /\ sent = {} /\ heard = {}
    /\ ready = {}

NoImages ==
    /\ l = {} /\ calls = {} /\ cache = {} /\ rejections = {} /\ posted = {}
    /\ thread = {} /\ refs = {} /\ dead = {} /\ cachedTimers = {}

NoViewed ==
    /\ session = {} /\ adapter = {} /\ view = {} /\ task = {} /\ noticed = {}
    /\ edit = {} /\ faults = {}

NoLayouts ==
    /\ lease = {} /\ layouts = {} /\ pins = {} /\ jobs = {} /\ inFlight = {}
    /\ notices = {} /\ main = {} /\ shown = {} /\ family = {}
    /\ pressure = {}

MCInit ==
    /\ scenario \in Scenarios
    /\ Init /\ (scenario = "Transport" \/ ~ room_bound)
    /\ IF scenario = "Sessions" THEN Sessions!Init ELSE NoSessions
    /\ CASE scenario = "Bindings" -> Bindings!Init
         [] scenario = "Refused" -> Refused!Init
         [] OTHER -> NoBindings
    /\ IF scenario = "Prelude" THEN Prelude!Init ELSE NoPrelude
    /\ IF scenario = "Images" THEN Images!Init ELSE NoImages
    /\ IF scenario = "Viewed" THEN Viewed!Init ELSE NoViewed
    /\ IF scenario = "Layouts" THEN Layouts!Init ELSE NoLayouts

MCNext ==
    /\ UNCHANGED scenario
    /\ \/ /\ scenario = "Transport" /\ Next
          /\ UNCHANGED <<sessionVars, bindingVars, preludeVars, imageVars,
                         viewVars, layoutVars>>
       \/ /\ scenario = "Sessions" /\ Sessions!Next
          /\ UNCHANGED <<transportVars, bindingVars, preludeVars, imageVars,
                         viewVars, layoutVars>>
       \/ /\ \/ scenario = "Bindings" /\ Bindings!Next
             \/ scenario = "Refused" /\ Refused!Next
          /\ UNCHANGED <<transportVars, sessionVars, preludeVars, imageVars,
                         viewVars, layoutVars>>
       \/ /\ scenario = "Prelude" /\ Prelude!Next
          /\ UNCHANGED <<transportVars, sessionVars, bindingVars, imageVars,
                         viewVars, layoutVars>>
       \/ /\ scenario = "Images" /\ Images!Next
          /\ UNCHANGED <<transportVars, sessionVars, bindingVars, preludeVars,
                         viewVars, layoutVars>>
       \/ /\ scenario = "Viewed" /\ Viewed!Next
          /\ UNCHANGED <<transportVars, sessionVars, bindingVars, preludeVars,
                         imageVars, layoutVars>>
       \/ /\ scenario = "Layouts" /\ Layouts!Next
          /\ UNCHANGED <<transportVars, sessionVars, bindingVars, preludeVars,
                         imageVars, viewVars>>

(* The fairness of each part, as its own module states it.                 *)
Fairness ==
    /\ WF_transportVars(scenario = "Transport" /\ Tick)
    /\ WF_transportVars(scenario = "Transport" /\ DriveCall)
    /\ \A t \in {t1, t2, t3} :
          WF_sessionVars(scenario = "Sessions" /\ Sessions!Continue(t))
    /\ WF_bindingVars(\/ scenario = "Bindings" /\ Bindings!Lifecycle
                      \/ scenario = "Refused" /\ Refused!Lifecycle)
    /\ \A t \in {t1, t2} :
          WF_bindingVars(\/ scenario = "Bindings" /\ Bindings!Call(t)
                         \/ scenario = "Refused" /\ Refused!Call(t))
    /\ \A x \in 1 .. 2 :
          WF_bindingVars(\/ /\ scenario = "Bindings"
                            /\ x \in Bindings!Ids /\ Bindings!Work(x)
                         \/ /\ scenario = "Refused"
                            /\ x \in Refused!Ids /\ Refused!Work(x))
    /\ WF_preludeVars(scenario = "Prelude" /\ Prelude!RunTask)
    /\ WF_preludeVars(scenario = "Prelude" /\ Prelude!TimeOut)
    /\ WF_imageVars(scenario = "Images" /\ Images!MainStep)
    /\ WF_imageVars(scenario = "Images" /\ Images!TimerStep)
    /\ \A c \in 1 .. 2 :
          WF_imageVars(scenario = "Images" /\ Images!Deadline(c))
    /\ WF_imageVars(scenario = "Images" /\ Images!WorkerStep("w1"))
    /\ WF_viewVars(scenario = "Viewed" /\ Viewed!Step)
    /\ SF_viewVars(scenario = "Viewed" /\ Viewed!Notice)
    /\ WF_layoutVars(scenario = "Layouts" /\ \E w \in 1 .. 2 : Layouts!Issue(w))
    /\ \A j \in 0 .. 1 :
          WF_layoutVars(/\ scenario = "Layouts"
                        /\ \/ Layouts!Own(j) \/ Layouts!Pin(j)
                           \/ Layouts!Build(j) \/ Layouts!TakeLease(j)
                           \/ Layouts!PublishTicket(j))
    /\ WF_layoutVars(scenario = "Layouts" /\ (Layouts!Report(1) \/ Layouts!Complete(1)))
    /\ WF_layoutVars(scenario = "Layouts" /\ Layouts!MainStep)
    /\ WF_layoutVars(scenario = "Layouts" /\ Layouts!Mount)

MCSpec == MCInit /\ [][MCNext]_allVars /\ Fairness

-----------------------------------------------------------------------------
(* Properties, of the part that is running; those of the state machine are *)
(* Transport's.  A behaviour is one of a single part, so one formula       *)
(* speaks of two parts.  What these parts begin is bounded, so that all of *)
(* it has ended in some state if each of it ends, and each of it has ended *)
(* in a state in which all of it has.                                      *)

Destroying ==
    scenario = "Sessions" /\ \E s \in 1 .. 2 : lifecycle[s] = "destroying"

Calling ==
    /\ scenario \in {"Bindings", "Refused"}
    /\ caller[t1].at # "idle" \/ retirements[e1] # 0

(* destroy, configure, retire: a destruction that was begun ends, though   *)
(* other threads hold handles and contend for the lock; every call returns *)
(* that waits for the lock of its stripe, for a retirement and for a       *)
(* worker; and a transport that was retired is gone in the end.  The       *)
(* threads are alike, and the editors.                                     *)
CallsEnd == Destroying \/ Calling ~> ~ Destroying /\ ~ Calling

InPrelude == scenario = "Prelude" /\ Prelude!InPrelude

(* The timer of the prelude: it ends though the adapter never answers.     *)
PreludeEnds == InPrelude ~> ~ InPrelude

Loading ==
    /\ scenario = "Images"
    /\ \E c \in 1 .. 2 : calls[c].source # 0 /\ ~ calls[c].finished

(* The deadlines of the loader: every load finishes, though its decoder    *)
(* may never return.                                                       *)
LoadsFinish == Loading ~> ~ Loading

Noticed == scenario = "Viewed" /\ noticed
Refreshed == scenario = "Viewed" => view.text = session.revision

Committed == scenario = "Layouts" /\ family.commit = 1
Shown ==
    scenario = "Layouts" =>
        \/ shown.shown.generation = 1
        \/ family.commit \notin {0, 1}
        \/ ~ family.tree \/ family.stopped

(* The notices of the view and prepareForFabricMount: changes by others    *)
(* are on the screen in the end, and so is a committed tree, unless        *)
(* another one or the end of the view comes first.                         *)
ChangesAreShown == Noticed \/ Committed ~> Refreshed /\ Shown

=============================================================================
