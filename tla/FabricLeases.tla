---------------------------- MODULE FabricLeases ----------------------------
(***************************************************************************)
(* The prepared layouts of one viewer on Android: PreparedProseLayout-     *)
(* Registry and the leases of PreparedProseLayoutCache, between a layout   *)
(* thread that measures shadow trees, the main thread that mounts them,    *)
(* worker threads that prepare a layout again, and the native state family *)
(* whose destructor ends the lease.                                        *)
(*                                                                         *)
(* A generation names what is shown (source, theme, revisions); a final    *)
(* layout of it has a revision and a width, and leaves a ticket from which *)
(* the view takes the prepared artifact.  Each step below holds one lock:  *)
(* the lease lock, the compiler's, or the cache's.  Widths differ by more  *)
(* than the rounding of the pixel grid; staged table geometry and the      *)
(* artifacts nobody leases are left out.                                   *)
(***************************************************************************)
EXTENDS Integers, FiniteSets

CONSTANTS Generations,  \* generations of the viewer, positive
          Widths,       \* widths of final layouts, positive
          Workers,      \* worker threads, positive
          MaxLayouts,   \* bound of the model: layout passes
          MaxPressure,  \* bound of the model: times memory runs short
          Unmeasured,   \* whether a view may be mounted that was never measured
          Unnames       \* whether a view may lose its source

LeaseBounds ==
    /\ Generations \subseteq Nat \ {0} /\ Widths \subseteq Nat \ {0}
    /\ Workers \subseteq Nat \ {0} /\ Unmeasured \in BOOLEAN /\ Unnames \in BOOLEAN
    /\ MaxLayouts \in Nat /\ MaxPressure \in Nat

ASSUME LeaseAssumption == LeaseBounds

VARIABLES
    lease,    \* the family's record, its permitted generation, specs, tickets
    cache,    \* the layouts pending and mounted for the family
    pins,     \* generations whose compiled document is kept
    jobs,     \* the layout thread, Yoga, and the workers
    inFlight, \* by generation, the worker preparing it, or None
    posted,   \* generations whose preparation was reported to the view
    main,     \* what the main thread is doing
    view,     \* the generation the view adopted, and what it shows
    family,   \* the shadow tree: its commit to mount, and how it ends
    pressure  \* times memory ran short

vars == <<lease, cache, pins, jobs, inFlight, posted, main, view, family, pressure>>

None == 0
Yoga == 0
NoSpec == [revision |-> 0, width |-> 0]
NoLayout == [generation |-> None, width |-> 0]

Specs == {NoSpec} \union [revision : 1..MaxLayouts, width : Widths]
Layouts == {NoLayout} \union [generation : Generations, width : Widths]

Idle == [step |-> "idle", kind |-> "probe", generation |-> None, spec |-> NoSpec]
Resting == [step |-> "idle", generation |-> None, ticket |-> NoSpec, again |-> FALSE]

Init ==
    /\ lease = [record |-> "absent", permitted |-> None, revision |-> 0,
                specs   |-> [g \in Generations |-> NoSpec],
                tickets |-> [g \in Generations |-> NoSpec]]
    /\ cache = [pending |-> NoLayout, mounted |-> NoLayout]
    /\ pins = {}
    /\ jobs = [j \in Workers \union {Yoga} |-> Idle]
    /\ inFlight = [g \in Generations |-> None]
    /\ posted = {}
    /\ main = Resting
    /\ view = [state |-> "none", generation |-> None, shown |-> NoLayout, revision |-> 0]
    /\ family = [tree |-> TRUE, bound |-> FALSE, commit |-> None, stopped |-> FALSE,
                 end |-> "none"]
    /\ pressure = 0

-----------------------------------------------------------------------------

(* isLeaseActive: before the first mount any generation may be prepared,    *)
(* after it only the one that was mounted.                                 *)
Active(g) == lease.record = "active" /\ lease.permitted \in {None, g}

LayoutOf(job) == [generation |-> job.generation, width |-> job.spec.width]

Step(j, step) == jobs' = [jobs EXCEPT ![j].step = step]

(* A layout pass is over and its tree waits to be mounted.                  *)
PassEnds(j) ==
    IF j = Yoga
    THEN /\ family' = [family EXCEPT !.commit = jobs[j].generation]
         /\ jobs' = [jobs EXCEPT ![j] = Idle]
    ELSE /\ UNCHANGED family
         /\ Step(j, "report")

(* A measurement is over: a probe is followed by the final layout.          *)
MeasureEnds(j, published) ==
    IF jobs[j].kind = "probe" THEN Step(j, "issue") /\ UNCHANGED family
    ELSE IF published THEN Step(j, "publish") /\ UNCHANGED family
    ELSE PassEnds(j)

(* registerFabricLease: the record of a dead family is left as it is.       *)
(* A mutation: a late binding revives it.                                   *)
BoundRevived == [lease EXCEPT !.record = "active"]

Bound == [lease EXCEPT !.record = IF @ = "absent" THEN "active" ELSE @]

(* The layout thread lays out a tree: it binds the family on the way, and   *)
(* may measure at other widths, or at none, before the final layout.       *)
Begin(g, kind, w) ==
    /\ family.tree /\ jobs[Yoga].step = "idle"
    /\ lease.revision < MaxLayouts
    /\ lease' = Bound
    /\ family' = [family EXCEPT !.bound = TRUE]
    /\ jobs' = [jobs EXCEPT ![Yoga] =
                   [step |-> IF kind = "final" THEN "issue" ELSE "own", kind |-> kind,
                    generation |-> g, spec |-> [revision |-> 0, width |-> w]]]
    /\ UNCHANGED <<cache, pins, inFlight, posted, main, view, pressure>>

(* A view that starts with no width has a final layout that binds nothing.  *)
BeginUnmeasured(g) ==
    /\ Unmeasured /\ family.tree /\ jobs[Yoga].step = "idle"
    /\ ~ family.bound /\ view.state = "none"
    /\ family' = [family EXCEPT !.commit = g]
    /\ UNCHANGED <<lease, cache, pins, jobs, inFlight, posted, main, view, pressure>>

(* prepareFinalLayout.                                                      *)
Issue(w) ==
    LET g    == jobs[Yoga].generation
        spec == [revision |-> lease.revision + 1, width |-> w]
    IN  /\ jobs[Yoga].step = "issue"
        /\ lease' = [lease EXCEPT !.revision = @ + 1,
                                  !.specs[g] = IF Active(g) THEN spec ELSE @]
        /\ jobs' = [jobs EXCEPT ![Yoga].step = "own", ![Yoga].kind = "final",
                                ![Yoga].spec = spec]
        /\ UNCHANGED <<cache, pins, inFlight, posted, main, view, family, pressure>>

(* measure: only an active generation owns what it prepares; a width that   *)
(* cannot be laid out retires its pending handoff.                         *)
Own(j) ==
    LET g == jobs[j].generation
    IN  /\ jobs[j].step = "own"
        /\ IF jobs[j].kind = "collapsed"
           THEN /\ cache' = IF Active(g) /\ cache.pending.generation = g
                            THEN [cache EXCEPT !.pending = NoLayout] ELSE cache
                /\ Step(j, "issue")
                /\ UNCHANGED family
           ELSE /\ UNCHANGED cache
                /\ IF Active(g) THEN Step(j, "pin") /\ UNCHANGED family
                   ELSE MeasureEnds(j, TRUE)
        /\ UNCHANGED <<lease, pins, inFlight, posted, main, view, pressure>>

(* preparedDocument.                                                        *)
Pin(j) ==
    LET g == jobs[j].generation
    IN  /\ jobs[j].step = "pin"
        /\ pins' = IF Active(g) THEN pins \union {g} ELSE pins
        /\ Step(j, "build")
        /\ UNCHANGED <<lease, cache, inFlight, posted, main, view, family, pressure>>

Build(j) ==
    /\ jobs[j].step = "build"
    /\ IF Active(jobs[j].generation) THEN Step(j, "lease") /\ UNCHANGED family
       ELSE MeasureEnds(j, FALSE)
    /\ UNCHANGED <<lease, cache, pins, inFlight, posted, main, view, pressure>>

Eligible(job, faulty) ==
    /\ Active(job.generation)
    /\ job.kind = "final" /\ ~ faulty => lease.specs[job.generation] = job.spec

(* The prepared layout becomes the family's only pending one, unless it is  *)
(* the mounted one.  One that says what is wrong with the source is taken   *)
(* though it is not of the last final layout.                              *)
TakeLease(j) ==
    /\ jobs[j].step = "lease"
    /\ \E faulty \in BOOLEAN :
          cache' = IF Eligible(jobs[j], faulty)
                   THEN [cache EXCEPT !.pending = IF cache.mounted = LayoutOf(jobs[j])
                                                  THEN NoLayout ELSE LayoutOf(jobs[j])]
                   ELSE cache
    /\ MeasureEnds(j, TRUE)
    /\ UNCHANGED <<lease, pins, inFlight, posted, main, view, pressure>>

PublishTicket(j) ==
    LET g == jobs[j].generation
    IN  /\ jobs[j].step = "publish"
        /\ lease' = IF Active(g) /\ lease.specs[g] = jobs[j].spec
                    THEN [lease EXCEPT !.tickets[g] = jobs[j].spec] ELSE lease
        /\ PassEnds(j)
        /\ UNCHANGED <<cache, pins, inFlight, posted, main, view, pressure>>

(* The worker looks whether its final layout still is the last, and its     *)
(* future, unless cancelled, tells the view.                               *)
Report(j) ==
    LET g == jobs[j].generation
    IN  /\ jobs[j].step = "report"
        /\ jobs' = [jobs EXCEPT ![j].step =
              IF Active(g) /\ lease.specs[g] = jobs[j].spec /\ lease.tickets[g] = jobs[j].spec
              THEN "prepared" ELSE "missed"]
        /\ UNCHANGED <<lease, cache, pins, inFlight, posted, main, view, family, pressure>>

Complete(j) ==
    LET g == jobs[j].generation
    IN  /\ jobs[j].step \in {"prepared", "missed"}
        /\ inFlight' = IF inFlight[g] = j THEN [inFlight EXCEPT ![g] = None] ELSE inFlight
        /\ posted' = IF inFlight[g] = j /\ jobs[j].step = "prepared"
                     THEN posted \union {g} ELSE posted
        /\ jobs' = [jobs EXCEPT ![j] = Idle]
        /\ UNCHANGED <<lease, cache, pins, main, view, family, pressure>>

-----------------------------------------------------------------------------
(* The main thread.                                                        *)

Goto(step) == main' = [main EXCEPT !.step = step]

(* installCachedLayout for a tree that was committed ...                    *)
Mount ==
    /\ main.step = "idle" /\ ~ family.stopped /\ view.state # "gone"
    /\ family.commit # None
    /\ main' = [Resting EXCEPT !.step = "activate", !.generation = family.commit,
                               !.again = TRUE]
    /\ family' = [family EXCEPT !.commit = None]
    /\ view' = [view EXCEPT !.state = "mounted"]
    /\ UNCHANGED <<lease, cache, pins, jobs, inFlight, posted, pressure>>

(* ... or once more, because the view was attached or resized.              *)
Remount ==
    /\ main.step = "idle" /\ ~ family.stopped /\ view.state = "mounted"
    /\ view.generation # None
    /\ main' = [Resting EXCEPT !.step = "activate", !.generation = view.generation,
                               !.again = TRUE]
    /\ UNCHANGED <<lease, cache, pins, jobs, inFlight, posted, view, family, pressure>>

(* activateFabricGeneration: from here on only this generation may prepare, *)
(* and the others lose their specs and tickets ...                         *)
Activate ==
    LET g == main.generation
        Only(specs) == [h \in Generations |-> IF h = g THEN specs[h] ELSE NoSpec]
    IN  /\ main.step = "activate"
        /\ IF lease.record = "active"
           THEN /\ lease' = [lease EXCEPT !.permitted = g, !.specs = Only(@), !.tickets = Only(@)]
                /\ Goto("unpin")
           ELSE UNCHANGED lease /\ Goto("adopt")
        /\ UNCHANGED <<cache, pins, jobs, inFlight, posted, view, family, pressure>>

(* ... their preparations and documents ...                                 *)
Unpin ==
    LET g == main.generation
    IN  /\ main.step = "unpin"
        /\ inFlight' = [h \in Generations |-> IF h = g THEN inFlight[h] ELSE None]
        /\ pins' = pins \intersect {g}
        /\ Goto("supersede")
        /\ UNCHANGED <<lease, cache, jobs, posted, view, family, pressure>>

(* ... and their pending layouts; a mounted one stays until it is replaced. *)
Supersede ==
    /\ main.step = "supersede"
    /\ cache' = [cache EXCEPT !.pending = IF @.generation = main.generation THEN @ ELSE NoLayout]
    /\ Goto("adopt")
    /\ UNCHANGED <<lease, pins, jobs, inFlight, posted, view, family, pressure>>

(* ViewState.adopt: releasing the previous generation has no effect, as it  *)
(* is not active any more.                                                 *)
Adopt ==
    /\ main.step = "adopt"
    /\ view' = [view EXCEPT !.generation = main.generation]
    /\ Goto("ticket")
    /\ UNCHANGED <<lease, cache, pins, jobs, inFlight, posted, family, pressure>>

Missed == Goto(IF main.again THEN "prepare" ELSE "idle")

(* acquirePreparedMountTicket.                                              *)
ReadTicket ==
    LET ticket == IF Active(main.generation) THEN lease.tickets[main.generation] ELSE NoSpec
    IN  /\ main.step = "ticket"
        /\ IF ticket = NoSpec THEN Missed
           ELSE main' = [main EXCEPT !.step = "take", !.ticket = ticket]
        /\ UNCHANGED <<lease, cache, pins, jobs, inFlight, posted, view, family, pressure>>

TicketStands == Active(main.generation) /\ lease.tickets[main.generation] = main.ticket

(* The artifact, and with it the view, is taken if it is leased for the     *)
(* generation at the ticket's width and the ticket still stands.           *)
Take ==
    LET layout == [generation |-> main.generation, width |-> main.ticket.width]
    IN  /\ main.step = "take"
        /\ IF layout \in {cache.pending, cache.mounted} /\ TicketStands
           THEN /\ cache' = [pending |-> IF cache.mounted = layout THEN cache.pending ELSE NoLayout,
                             mounted |-> layout]
                /\ view' = [view EXCEPT !.shown = layout, !.revision = main.ticket.revision]
                /\ Goto("idle")
           ELSE UNCHANGED <<cache, view>> /\ Missed
        /\ UNCHANGED <<lease, pins, jobs, inFlight, posted, family, pressure>>

(* prepareForFabricMount: a worker prepares the last final layout again,    *)
(* or one that is on it already answers for both.                          *)
Prepare ==
    LET g == main.generation
    IN  /\ main.step = "prepare"
        /\ IF Active(g) /\ lease.specs[g] # NoSpec /\ inFlight[g] = None
           THEN \E j \in Workers :
                   /\ jobs[j].step = "idle"
                   /\ jobs' = [jobs EXCEPT ![j] = [step |-> "own", kind |-> "final",
                                                   generation |-> g, spec |-> lease.specs[g]]]
                   /\ inFlight' = [inFlight EXCEPT ![g] = j]
           ELSE UNCHANGED <<jobs, inFlight>>
        /\ Goto("idle")
        /\ UNCHANGED <<lease, cache, pins, posted, view, family, pressure>>

(* A mutation: the view waits for the next layout instead.                  *)
PreparedForgotten(g) ==
    /\ main.step = "idle" /\ g \in posted
    /\ posted' = posted \ {g}
    /\ UNCHANGED <<lease, cache, pins, jobs, inFlight, main, view, family, pressure>>

(* The posted end of a preparation: the ticket is tried once more.          *)
Prepared(g) ==
    /\ main.step = "idle" /\ g \in posted
    /\ posted' = posted \ {g}
    /\ main' = IF view.state = "mounted" /\ view.generation = g
               THEN [Resting EXCEPT !.step = "ticket", !.generation = g] ELSE main
    /\ UNCHANGED <<lease, cache, pins, jobs, inFlight, view, family, pressure>>

-----------------------------------------------------------------------------
(* The ends of a generation, of a view and of the family.                  *)

NoSpecs == [g \in Generations |-> NoSpec]

(* releaseGeneration: the view's properties stop naming a generation.       *)
Unname ==
    /\ Unnames /\ main.step = "idle" /\ view.state = "mounted" /\ view.generation # None
    /\ main' = [Resting EXCEPT !.step = "release", !.generation = view.generation]
    /\ UNCHANGED <<lease, cache, pins, jobs, inFlight, posted, view, family, pressure>>

Unshown == view' = [view EXCEPT !.generation = None, !.shown = NoLayout, !.revision = 0]

ReleaseSpecs ==
    LET g == main.generation
    IN  /\ main.step = "release"
        /\ IF Active(g)
           THEN /\ lease' = [lease EXCEPT !.specs[g] = NoSpec, !.tickets[g] = NoSpec]
                /\ Goto("releaseLeases")
                /\ UNCHANGED view
           ELSE UNCHANGED lease /\ Goto("idle") /\ Unshown
        /\ UNCHANGED <<cache, pins, jobs, inFlight, posted, family, pressure>>

ReleaseLeases ==
    LET g == main.generation
        Without(layout) == IF layout.generation = g THEN NoLayout ELSE layout
    IN  /\ main.step = "releaseLeases"
        /\ inFlight' = [inFlight EXCEPT ![g] = None]
        /\ cache' = [pending |-> Without(cache.pending), mounted |-> Without(cache.mounted)]
        /\ Goto("releasePins")
        /\ UNCHANGED <<lease, pins, jobs, posted, view, family, pressure>>

ReleasePins ==
    /\ main.step = "releasePins"
    /\ pins' = pins \ {main.generation}
    /\ Goto("idle")
    /\ Unshown
    /\ UNCHANGED <<lease, cache, jobs, inFlight, posted, family, pressure>>

(* React removes the component: nothing lays it out any more.               *)
Remove ==
    /\ family.tree /\ jobs[Yoga].step = "idle"
    /\ family' = [family EXCEPT !.tree = FALSE]
    /\ UNCHANGED <<lease, cache, pins, jobs, inFlight, posted, main, view, pressure>>

(* The view is dropped.  Its family is deactivated, with a record that      *)
(* keeps a late binding out, if the view ever adopted a generation.        *)
Drop ==
    /\ main.step = "idle" /\ view.state = "mounted"
    /\ ~ family.tree \/ family.stopped
    /\ family' = [family EXCEPT !.commit = None]
    /\ IF view.generation = None
       THEN view' = [view EXCEPT !.state = "gone"] /\ UNCHANGED main
       ELSE UNCHANGED view /\ Goto("off")
    /\ UNCHANGED <<lease, cache, pins, jobs, inFlight, posted, pressure>>

Deactivate ==
    /\ main.step = "off"
    /\ lease' = [lease EXCEPT !.record = "inactive"]
    /\ Goto("sweepSpecs")
    /\ UNCHANGED <<cache, pins, jobs, inFlight, posted, view, family, pressure>>

(* The surface stops, whatever is being laid out for it: its families are   *)
(* deactivated, if they have a record, and swept, and a view of it that     *)
(* adopted a generation deactivates its own if that has not been done.     *)
StopSurface ==
    /\ main.step = "idle" /\ ~ family.stopped /\ view.state # "gone"
    /\ lease' = [lease EXCEPT !.record = IF @ = "active" THEN "inactive" ELSE @,
                              !.specs = NoSpecs, !.tickets = NoSpecs]
    /\ family' = [family EXCEPT !.stopped = TRUE, !.commit = None]
    /\ Goto("sweepLeases")
    /\ UNCHANGED <<cache, pins, jobs, inFlight, posted, view, pressure>>

(* sweepFabricOwner, by the main thread or by the family's destructor.      *)
SweepSpecs == lease' = [lease EXCEPT !.specs = NoSpecs, !.tickets = NoSpecs]

(* A mutation: the sweep forgets the mounted layout.                        *)
SweepPendingOnly ==
    /\ inFlight' = [g \in Generations |-> None]
    /\ cache' = [cache EXCEPT !.pending = NoLayout]

SweepLeases ==
    /\ inFlight' = [g \in Generations |-> None]
    /\ cache' = [pending |-> NoLayout, mounted |-> NoLayout]

MainSweeps ==
    \/ /\ main.step = "sweepSpecs" /\ SweepSpecs /\ Goto("sweepLeases")
       /\ UNCHANGED <<cache, pins, inFlight, view>>
    \/ /\ main.step = "sweepLeases" /\ SweepLeases /\ Goto("sweepPins")
       /\ UNCHANGED <<lease, pins, view>>
    \/ /\ main.step = "sweepPins" /\ pins' = {}
       /\ IF lease.record = "inactive" \/ view.generation = None
          THEN /\ view' = [state |-> IF view.state = "none" THEN "none" ELSE "gone",
                           generation |-> None, shown |-> NoLayout, revision |-> 0]
               /\ Goto("idle")
          ELSE UNCHANGED view /\ Goto("off")
       /\ UNCHANGED <<lease, cache, inFlight>>

MainSweep == MainSweeps /\ UNCHANGED <<jobs, posted, family, pressure>>

(* The last snapshot of the family's state dies: its destructor finalizes   *)
(* the lease if a measurement ever bound it.                               *)
Finalize ==
    /\ family.end = "none"
    /\ ~ family.tree /\ view.state # "mounted" /\ jobs[Yoga].step = "idle"
    /\ IF family.bound
       THEN /\ lease' = [lease EXCEPT !.record = "absent", !.permitted = None]
            /\ family' = [family EXCEPT !.commit = None, !.end = "specs"]
       ELSE family' = [family EXCEPT !.commit = None, !.end = "ended"] /\ UNCHANGED lease
    /\ UNCHANGED <<cache, pins, jobs, inFlight, posted, main, view, pressure>>

FamilyEnds(end) == family' = [family EXCEPT !.end = end]

FinalSweep ==
    /\ \/ /\ family.end = "specs" /\ SweepSpecs /\ FamilyEnds("leases")
          /\ UNCHANGED <<cache, pins, inFlight>>
       \/ /\ family.end = "leases" /\ SweepLeases /\ FamilyEnds("pins")
          /\ UNCHANGED <<lease, pins>>
       \/ /\ family.end = "pins" /\ pins' = {} /\ FamilyEnds("ended")
          /\ UNCHANGED <<lease, cache, inFlight>>
    /\ UNCHANGED <<jobs, posted, main, view, pressure>>

(* Memory runs short, or other viewers' layouts fill the budget: a pending  *)
(* layout is disposable.                                                   *)
Pressure ==
    /\ pressure < MaxPressure
    /\ pressure' = pressure + 1
    /\ cache' = [cache EXCEPT !.pending = NoLayout]
    /\ pins' \in {pins, {}}
    /\ UNCHANGED <<lease, jobs, inFlight, posted, main, view, family>>

JobStep ==
    \/ \E w \in Widths : Issue(w)
    \/ \E j \in Workers \union {Yoga} :
          Own(j) \/ Pin(j) \/ Build(j) \/ TakeLease(j) \/ PublishTicket(j)
    \/ \E j \in Workers : Report(j) \/ Complete(j)

MainStep ==
    \/ Activate \/ Unpin \/ Supersede \/ Adopt \/ ReadTicket \/ Take \/ Prepare
    \/ ReleaseSpecs \/ ReleaseLeases \/ ReleasePins \/ Deactivate \/ MainSweep
    \/ \E g \in Generations : Prepared(g)

Next ==
    \/ \E g \in Generations, kind \in {"probe", "final", "collapsed"}, w \in Widths :
          Begin(g, kind, w)
    \/ \E g \in Generations : BeginUnmeasured(g)
    \/ JobStep \/ MainStep
    \/ Mount \/ Remount \/ Unname \/ Remove \/ Drop \/ StopSurface
    \/ Finalize \/ FinalSweep \/ Pressure

Spec == Init /\ [][Next]_vars

(* Threads go on with what they began, and a committed tree is mounted.     *)
FairSpec ==
    /\ Spec
    /\ WF_vars(\E w \in Widths : Issue(w))
    /\ \A j \in Workers \union {Yoga} :
          WF_vars(Own(j) \/ Pin(j) \/ Build(j) \/ TakeLease(j) \/ PublishTicket(j))
    /\ \A j \in Workers : WF_vars(Report(j) \/ Complete(j))
    /\ WF_vars(MainStep) /\ WF_vars(Mount)

-----------------------------------------------------------------------------

TypeOK ==
    /\ lease \in [record : {"absent", "active", "inactive"},
                  permitted : Generations \union {None}, revision : 0..MaxLayouts,
                  specs : [Generations -> Specs], tickets : [Generations -> Specs]]
    /\ cache \in [pending : Layouts, mounted : Layouts]
    /\ pins \subseteq Generations /\ posted \subseteq Generations
    /\ inFlight \in [Generations -> Workers \union {None}]
    /\ view \in [state : {"none", "mounted", "gone"}, generation : Generations \union {None},
                 shown : Layouts, revision : 0..MaxLayouts]
    /\ pressure \in 0..MaxPressure

Sweeping ==
    \/ main.step \in {"sweepSpecs", "sweepLeases", "sweepPins"}
    \/ family.end \in {"specs", "leases", "pins"}

(* Once the family's lease is inactive or finalized and swept, nothing is   *)
(* left of it or comes back, though measurements and preparations for it   *)
(* may still be running.                                                   *)
SweptForGood ==
    lease.record # "active" /\ ~ Sweeping =>
        /\ cache.pending = NoLayout /\ cache.mounted = NoLayout
        /\ pins = {}
        /\ lease.specs = NoSpecs /\ lease.tickets = NoSpecs

(* What is kept for mounting belongs to the generation that was mounted     *)
(* last: work for older ones, however late, leaves nothing behind.         *)
OnlyPermittedKept ==
    /\ lease.record = "active" /\ lease.permitted # None
    /\ main.step \notin {"unpin", "supersede"}
    => /\ cache.pending.generation \in {None, lease.permitted}
       /\ pins \subseteq {lease.permitted}
       /\ \A g \in Generations \ {lease.permitted} :
             lease.specs[g] = NoSpec /\ lease.tickets[g] = NoSpec

(* What the view shows is what the cache counts as mounted, so that it is   *)
(* neither evicted nor charged to the budget: an older artifact stays      *)
(* mounted while its replacement is prepared.                              *)
ShownIsMounted ==
    view.shown # NoLayout /\ ~ Sweeping /\ main.step # "releasePins" =>
        cache.mounted = view.shown

(* A family that a measurement bound leaves no record behind.              *)
NoTombstones ==
    family.end = "ended" /\ family.bound => lease.record = "absent"

(* sweepFabricOwner, activateFabricGeneration, PreparedProseLayoutCache,   *)
(* finalizeFabricLease: nothing is left of a family that was deactivated   *)
(* or finalized and swept, whatever still runs for it, nor its record once *)
(* it ended; what is kept belongs to the last generation mounted; and what *)
(* is shown is counted as mounted.                                         *)
FabricKept ==
    TypeOK /\ SweptForGood /\ OnlyPermittedKept /\ ShownIsMounted /\ NoTombstones

(* Of one generation the view never goes back to the geometry of an older  *)
(* final layout.                                                           *)
AdvancingStep ==
    view.shown.generation = view'.shown.generation => view'.revision >= view.revision

(* A family that was deactivated or finalized never prepares again: a late *)
(* binding does not bring it back.                                         *)
DeadStep ==
    lease.record = "inactive" \/ family.end # "none" => lease'.record # "active"

(* prepareFinalLayout, registerFabricLease: there is no way back to older  *)
(* geometry, nor to a lease that ended.                                    *)
NoWayBack == [][AdvancingStep /\ DeadStep]_vars

(* A committed tree is shown in the end, unless another one or the end of   *)
(* the view comes first.                                                   *)
CommitIsShown ==
    \A g \in Generations :
        family.commit = g ~>
            \/ view.shown.generation = g
            \/ family.commit \notin {None, g}
            \/ ~ family.tree \/ family.stopped

=============================================================================
