------------------------------ MODULE MCClients ------------------------------
(***************************************************************************)
(* The clients of a session, next to each other: the prepared layouts of a *)
(* viewer, the native view, the image loader, the controller of a room in  *)
(* JavaScript and the external composition.  They share no state here, so  *)
(* a behaviour is one of a single part, on one of its instances, which     *)
(* `scenario' names, while the others rest.                                *)
(***************************************************************************)
EXTENDS FabricLeases, Sequences

CONSTANTS s1, s2, s3,  \* images
          Scenarios

(* A view that two bindings claim, with every intent, reads that are not   *)
(* shown, resets and calls that fail; and one without these reads and      *)
(* resets, whose user acts while the adapter holds an epoch.               *)
VARIABLES session, adapter, screen, task, noticed, edit, faults

Viewed ==
    INSTANCE NativeView WITH
        view <- screen, Owners <- {1, 2}, MaxRevision <- 4, MaxFaults <- 2, Resets <- TRUE,
        Reads <- TRUE, Epochless <- TRUE

Pointed ==
    INSTANCE NativeView WITH
        view <- screen, Owners <- {1, 2}, MaxRevision <- 4, MaxFaults <- 1, Resets <- FALSE,
        Reads <- FALSE, Epochless <- FALSE

(* Three loads with one slot, one of which is cancelled, or runs out of    *)
(* time; and three with more slots than the queue of the executor has      *)
(* places.                                                                 *)
VARIABLES l, calls, bitmaps, rejections, outcomes, thread, refs, dead, cachedTimers

Images ==
    INSTANCE ImageLoader WITH
        cache <- bitmaps, posted <- outcomes,
        Loads <- 1 .. 3, Sources <- {s1, s2}, Visible <- {3},
        MaxConcurrent <- 1, MaxPending <- 1, AdmissionLimit <- 2,
        QueueCapacity <- 2, Workers <- {"w1"}, RejectionLimit <- 1,
        Mortal <- {}, Fickle <- {1}

Deadlines ==
    INSTANCE ImageLoader WITH
        cache <- bitmaps, posted <- outcomes,
        Loads <- 1 .. 3, Sources <- {s1, s2}, Visible <- {3},
        MaxConcurrent <- 1, MaxPending <- 1, AdmissionLimit <- 2,
        QueueCapacity <- 2, Workers <- {"w1"}, RejectionLimit <- 1,
        Mortal <- {1}, Fickle <- {}

Executor ==
    INSTANCE ImageLoader WITH
        cache <- bitmaps, posted <- outcomes,
        Loads <- 1 .. 3, Sources <- {s1, s2, s3}, Visible <- {3},
        MaxConcurrent <- 3, MaxPending <- 1, AdmissionLimit <- 3,
        QueueCapacity <- 2, Workers <- {"w1"}, RejectionLimit <- 1,
        Mortal <- {}, Fickle <- {}

(* The prepared layouts of two generations have the constants of this      *)
(* module; those of a view that is mounted before it is measured are these.*)
Unsized ==
    INSTANCE FabricLeases WITH
        Generations <- {1, 2}, Widths <- {1}, Workers <- {1},
        MaxLayouts <- 1, MaxPressure <- 1, Unmeasured <- TRUE, Unnames <- FALSE

(* A document that is edited, with numbers of two digits; and a presence   *)
(* that two users and two carets compete for.                              *)
VARIABLES native, presence, queue, controller, spent

Document ==
    INSTANCE YjsController WITH
        Users <- {}, Carets <- {}, MaxRevision <- 2, MaxEvents <- 4,
        MaxControllers <- 2, MaxFaults <- 0, Radix <- 2

People ==
    INSTANCE YjsController WITH
        Users <- {"u", "v"}, Carets <- {"a", "b"}, MaxRevision <- 1,
        MaxEvents <- 1, MaxControllers <- 2, MaxFaults <- 1, Radix <- 2

(* Two sessions of a manager, with two texts each; and one session with    *)
(* three, two of which wait for the first.                                 *)
VARIABLES manager, compositions, requests, replies, events, input, uses

Composing ==
    INSTANCE ExternalComposition WITH
        session <- compositions, calls <- requests, spent <- uses,
        MaxSessions <- 2, MaxTexts <- 2, MaxCloses <- 1, MaxFaults <- 1

Coalescing ==
    INSTANCE ExternalComposition WITH
        session <- compositions, calls <- requests, spent <- uses,
        MaxSessions <- 1, MaxTexts <- 3, MaxCloses <- 2, MaxFaults <- 1

ASSUME InstanceAssumption ==
    /\ Viewed!ViewAssumption /\ Pointed!ViewAssumption
    /\ Images!LoaderAssumption /\ Images!ThreadsAssumption
    /\ Deadlines!LoaderAssumption /\ Deadlines!ThreadsAssumption
    /\ Executor!LoaderAssumption /\ Executor!ThreadsAssumption
    /\ Unsized!LeaseBounds
    /\ Document!ControllerAssumption /\ People!ControllerAssumption
    /\ Composing!CompositionAssumption /\ Coalescing!CompositionAssumption

-----------------------------------------------------------------------------

VARIABLE scenario

layoutVars == vars

viewVars == <<session, adapter, screen, task, noticed, edit, faults>>

imageVars ==
    <<l, calls, bitmaps, rejections, outcomes, thread, refs, dead, cachedTimers>>

controllerVars == <<native, presence, queue, controller, spent>>

compositionVars ==
    <<manager, compositions, requests, replies, events, input, uses>>

allVars ==
    <<scenario, layoutVars, viewVars, imageVars, controllerVars, compositionVars>>

(* The variables of a part that is not running are empty; the prepared     *)
(* layouts rest as they begin, which is the same for both of theirs.       *)
NoView ==
    /\ session = {} /\ adapter = {} /\ screen = {} /\ task = {} /\ noticed = {}
    /\ edit = {} /\ faults = {}

NoImages ==
    /\ l = {} /\ calls = {} /\ bitmaps = {} /\ rejections = {} /\ outcomes = {}
    /\ thread = {} /\ refs = {} /\ dead = {} /\ cachedTimers = {}

NoController ==
    /\ native = {} /\ presence = {} /\ queue = {} /\ controller = {}
    /\ spent = {}

NoComposition ==
    /\ manager = {} /\ compositions = {} /\ requests = {} /\ replies = {}
    /\ events = {} /\ input = {} /\ uses = {}

MCInit ==
    /\ scenario \in Scenarios
    /\ Init
    /\ CASE scenario = "Viewed" -> Viewed!Init
         [] scenario = "Pointed" -> Pointed!Init
         [] OTHER -> NoView
    /\ CASE scenario = "Images" -> Images!Init
         [] scenario = "Deadlines" -> Deadlines!Init
         [] scenario = "Executor" -> Executor!Init
         [] OTHER -> NoImages
    /\ CASE scenario = "Document" -> Document!Init
         [] scenario = "People" -> People!Init
         [] OTHER -> NoController
    /\ CASE scenario = "Composing" -> Composing!Init
         [] scenario = "Coalescing" -> Coalescing!Init
         [] OTHER -> NoComposition

MCNext ==
    /\ UNCHANGED scenario
    /\ \/ /\ \/ scenario = "Layouts" /\ Next
             \/ scenario = "Unsized" /\ Unsized!Next
          /\ UNCHANGED <<viewVars, imageVars, controllerVars, compositionVars>>
       \/ /\ \/ scenario = "Viewed" /\ Viewed!Next
             \/ scenario = "Pointed" /\ Pointed!Next
          /\ UNCHANGED <<layoutVars, imageVars, controllerVars, compositionVars>>
       \/ /\ \/ scenario = "Images" /\ Images!Next
             \/ scenario = "Deadlines" /\ Deadlines!Next
             \/ scenario = "Executor" /\ Executor!Next
          /\ UNCHANGED <<layoutVars, viewVars, controllerVars, compositionVars>>
       \/ /\ \/ scenario = "Document" /\ Document!Next
             \/ scenario = "People" /\ People!Next
          /\ UNCHANGED <<layoutVars, viewVars, imageVars, compositionVars>>
       \/ /\ \/ scenario = "Composing" /\ Composing!Next
             \/ scenario = "Coalescing" /\ Coalescing!Next
          /\ UNCHANGED <<layoutVars, viewVars, imageVars, controllerVars>>

MCSpec == MCInit /\ [][MCNext]_allVars

-----------------------------------------------------------------------------
(* Properties, of the instance that is running; FabricKept and NoWayBack   *)
(* are those of FabricLeases, which hold of its other instance too.        *)

OfView(viewed, pointed) ==
    /\ scenario = "Viewed" => viewed
    /\ scenario = "Pointed" => pointed

OfImages(images, deadlines, executor) ==
    /\ scenario = "Images" => images
    /\ scenario = "Deadlines" => deadlines
    /\ scenario = "Executor" => executor

OfController(doc, people) ==
    /\ scenario = "Document" => doc
    /\ scenario = "People" => people

OfComposition(composing, coalescing) ==
    /\ scenario = "Composing" => composing
    /\ scenario = "Coalescing" => coalescing

(* EditorV2Adapter.adopt and refreshInternal, pin_position_epoch: a live   *)
(* epoch names the positions of the frame the adapter installed, the       *)
(* cached selection is that frame's, a second fetch gets a full frame, an  *)
(* intent reported as applied is in the installed frame, and between tasks *)
(* the session keeps a cursor and an epoch for the current binding alone.  *)
FrameIsOne ==
    OfView(/\ Viewed!TypeOK
           /\ Viewed!EpochShowsFrame
           /\ Viewed!SelectionOnItsFrame
           /\ Viewed!RefetchIsFull
           /\ Viewed!EditIsInstalled
           /\ Viewed!OnlyOwnerIsKept,
           /\ Pointed!TypeOK
           /\ Pointed!EpochShowsFrame
           /\ Pointed!SelectionOnItsFrame
           /\ Pointed!RefetchIsFull
           /\ Pointed!EditIsInstalled
           /\ Pointed!OnlyOwnerIsKept)

(* EditorV2Adapter.performNativeIntent, EditorEditText's application of    *)
(* frames: the positions of an intent are resolved in the document they    *)
(* were taken from.  Where nothing is read without being shown, no reset   *)
(* is refused and an epoch is held, that is so at any moment, and a live   *)
(* epoch names the positions of the text on the screen.  Everywhere (Tab   *)
(* and Shift+Enter read first) it is so unless a change by others waits to *)
(* be shown or a call has failed.                                          *)
InputIsMapped ==
    OfView(Viewed!SettledIsMapped, Pointed!InputIsMapped /\ Pointed!EpochShowsText)

(* RenderImageLoader.releaseAdmission, releaseRequestSlotLocked and        *)
(* drainSubmissions, DecodedBitmapBudget: the admissions and the slots     *)
(* counted are those in use, a request that is ready has a drain to come,  *)
(* no bitmap in use is given back, and a replaced or evicted one is        *)
(* closed.                                                                 *)
NothingLeaks ==
    OfImages(/\ Images!TypeOK
             /\ Images!AdmissionExact
             /\ Images!SlotsExact
             /\ Images!ReadyIsDrained
             /\ Images!LeasesAreOpen
             /\ Images!KeptByOneHolder,
             /\ Deadlines!TypeOK
             /\ Deadlines!AdmissionExact
             /\ Deadlines!SlotsExact
             /\ Deadlines!ReadyIsDrained
             /\ Deadlines!LeasesAreOpen
             /\ Deadlines!KeptByOneHolder,
             /\ Executor!TypeOK
             /\ Executor!AdmissionExact
             /\ Executor!SlotsExact
             /\ Executor!ReadyIsDrained
             /\ Executor!LeasesAreOpen
             /\ Executor!KeptByOneHolder)

(* loadInternal, claimRequestOutcome, deliverCallback, LoadHandle.cancel:  *)
(* a source has one live request, a load is called back at most once, and  *)
(* not after it was cancelled.                                             *)
AnsweredOnce ==
    [][/\ OfImages(/\ Images!AnsweredOnce
                   /\ Images!OneRequestPerSource,
                   /\ Deadlines!AnsweredOnce
                   /\ Deadlines!OneRequestPerSource,
                   /\ Executor!AnsweredOnce
                   /\ Executor!OneRequestPerSource)'
       /\ OfImages(Images!SilentStep, Deadlines!SilentStep, Executor!SilentStep)]_allVars

(* YjsCollaborationControllerImpl's projection of events: no document is   *)
(* older than its revision, and when nothing is on its way the state shown *)
(* is the session's.                                                       *)
CatchesUp ==
    OfController(/\ Document!TypeOK
                 /\ Document!DocumentCoversRevision
                 /\ Document!CatchesUp,
                 /\ People!TypeOK
                 /\ People!DocumentCoversRevision
                 /\ People!CatchesUp)

(* publishAwareness, updateLocalAwareness, the construction: what is taken *)
(* for published is what is held, there is no presence without a user, and *)
(* a predecessor's presence is withdrawn.                                  *)
PublishedIsHeld ==
    OfController(/\ Document!PublishedIsHeld
                 /\ Document!NeverAnonymous
                 /\ Document!WithdrawnIsGone,
                 /\ People!PublishedIsHeld
                 /\ People!NeverAnonymous
                 /\ People!WithdrawnIsGone)

(* ExternalTextCompositionSession.commit, update, handleNativeEnd: a       *)
(* commit that resolved put its text into the document and one that was    *)
(* rejected did not, the end that is told is the one that happened, and an *)
(* update that resolved was shown, or a later one was.                     *)
PromisesAreTrue ==
    OfComposition(/\ Composing!TypeOK
                  /\ Composing!CommitIsTrue
                  /\ Composing!RejectedCommitInsertsNothing
                  /\ Composing!EndIsTrue
                  /\ Composing!UpdateWasShown,
                  /\ Coalescing!TypeOK
                  /\ Coalescing!CommitIsTrue
                  /\ Coalescing!RejectedCommitInsertsNothing
                  /\ Coalescing!EndIsTrue
                  /\ Coalescing!UpdateWasShown)

(* raceWithTerminal, beginSerialized, update: when nothing is on its way   *)
(* no promise is open, both sides have one session, and the latest text is *)
(* shown.                                                                  *)
BothSidesSettle ==
    OfComposition(/\ Composing!NobodyWaits
                  /\ Composing!SidesAgree
                  /\ Composing!LatestIsShown,
                  /\ Coalescing!NobodyWaits
                  /\ Coalescing!SidesAgree
                  /\ Coalescing!LatestIsShown)

=============================================================================
