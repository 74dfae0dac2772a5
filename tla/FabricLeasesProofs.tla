------------------------- MODULE FabricLeasesProofs -------------------------
EXTENDS FabricLeases, TLAPS

(* What the parts of the invariant range over.                             *)
Jobs == Workers \union {Yoga}

JobSteps ==
    {"idle", "issue", "own", "pin", "build", "lease", "publish", "report",
     "prepared", "missed"}

JobRecords ==
    [step : JobSteps, kind : {"probe", "final", "collapsed"},
     generation : Generations \union {None},
     spec : [revision : 0..MaxLayouts, width : Widths \union {0}]]

(* The steps of the main thread for a generation of the view ...            *)
Mounting == {"activate", "unpin", "supersede", "adopt"}
Fetching == {"ticket", "take", "prepare"}
Releasing == {"release", "releaseLeases", "releasePins"}

(* ... and for its family.                                                  *)
MainSweeping == {"sweepSpecs", "sweepLeases", "sweepPins"}

MainSteps ==
    {"idle", "off"} \union Mounting \union Fetching \union Releasing
       \union MainSweeping

MainRecords ==
    [step : MainSteps, generation : Generations \union {None},
     ticket : Specs, again : BOOLEAN]

FamilyRecords ==
    [tree : BOOLEAN, bound : BOOLEAN, commit : Generations \union {None},
     stopped : BOOLEAN, end : {"none", "specs", "leases", "pins", "ended"}]

LeaseRecords ==
    [record : {"absent", "active", "inactive"},
     permitted : Generations \union {None}, revision : 0..MaxLayouts,
     specs : [Generations -> Specs], tickets : [Generations -> Specs]]

CacheRecords == [pending : Layouts, mounted : Layouts]

ViewRecords ==
    [state : {"none", "mounted", "gone"}, generation : Generations \union {None},
     shown : Layouts, revision : 0..MaxLayouts]

Typed ==
    /\ TypeOK
    /\ jobs \in [Jobs -> JobRecords]
    /\ main \in MainRecords
    /\ family \in FamilyRecords

(* A job has a generation and a width; the layout thread alone issues      *)
(* final layouts, and only while one more may be issued.                   *)
JobsStand ==
    /\ \A j \in Jobs : jobs[j].step # "idle" =>
          jobs[j].generation \in Generations /\ jobs[j].spec.width \in Widths
    /\ \A j \in Workers :
          jobs[j].step # "issue" /\ (jobs[j].step # "idle" => jobs[j].kind = "final")
    /\ jobs[Yoga].step \notin {"report", "prepared", "missed"}
    /\ jobs[Yoga].step # "idle" /\ (jobs[Yoga].step = "issue" \/ jobs[Yoga].kind # "final")
       => lease.revision < MaxLayouts

(* The main thread works for the mounted view and the generation it has.   *)
MainStands ==
    /\ main.step \in Mounting \union Fetching \union Releasing =>
          main.generation \in Generations /\ view.state = "mounted"
    /\ main.step \in Fetching \union Releasing => view.generation = main.generation
    /\ main.step = "take" => main.ticket # NoSpec
    /\ main.step = "off" => view.state = "mounted" /\ view.generation # None
    /\ view.generation # None => view.state = "mounted"

(* A lease that is active was bound by a measurement, and a family that    *)
(* ended has no active lease and nothing left that could bind or mount it. *)
FamilyStands ==
    /\ lease.record = "absent" => lease.permitted = None
    /\ lease.record = "active" => family.bound
    /\ family.end # "none" =>
          /\ ~ family.tree /\ family.commit = None
          /\ view.state # "mounted" /\ jobs[Yoga].step = "idle"
          /\ lease.record # "active"
          /\ family.bound => lease.record = "absent"

(* Whoever made the lease inactive sweeps, and what is swept stays so.     *)
SpecsGone ==
    lease.record # "active" /\ main.step # "sweepSpecs" /\ family.end # "specs" =>
        lease.specs = NoSpecs /\ lease.tickets = NoSpecs

LeasesGone ==
    lease.record # "active" /\ main.step \notin {"sweepSpecs", "sweepLeases"}
    /\ family.end \notin {"specs", "leases"} =>
        cache.pending = NoLayout /\ cache.mounted = NoLayout

PinsGone ==
    lease.record # "active" /\ main.step \notin MainSweeping
    /\ family.end \notin {"specs", "leases", "pins"} => pins = {}

(* Activation leaves nothing of other generations, one lock after another. *)
Permitting == lease.record = "active" /\ lease.permitted # None

Permitted ==
    /\ main.step \in {"unpin", "supersede"} =>
          lease.record = "active" /\ lease.permitted = main.generation
    /\ Permitting =>
          \A g \in Generations \ {lease.permitted} :
              lease.specs[g] = NoSpec /\ lease.tickets[g] = NoSpec
    /\ Permitting /\ main.step # "unpin" => pins \subseteq {lease.permitted}
    /\ Permitting /\ main.step \notin {"unpin", "supersede"} =>
          cache.pending.generation \in {None, lease.permitted}

(* What is shown was mounted under a lease, and is kept by it.             *)
ShownStands ==
    /\ view.shown # NoLayout =>
          /\ view.state = "mounted" /\ view.generation # None
          /\ lease.record # "absent"
    /\ main.step \in MainSweeping /\ lease.record = "active" => view.shown = NoLayout
    /\ ShownIsMounted

(* Revisions grow from what is shown to the ticket to the final layout.    *)
RevisionsGrow ==
    /\ view.revision <= lease.revision
    /\ view.shown = NoLayout => view.revision = 0
    /\ \A g \in Generations :
          /\ lease.specs[g].revision <= lease.revision
          /\ lease.tickets[g] # NoSpec =>
                lease.specs[g] # NoSpec /\ lease.tickets[g].revision <= lease.specs[g].revision
          /\ view.shown.generation = g /\ lease.specs[g] # NoSpec =>
                view.revision <= lease.specs[g].revision
          /\ view.shown.generation = g /\ lease.tickets[g] # NoSpec =>
                view.revision <= lease.tickets[g].revision

(* Where no view is mounted unmeasured, the family of one that shows       *)
(* anything was bound, and a family that ended has no record.              *)
Measured ==
    ~ Unmeasured =>
        /\ family.commit # None => family.bound
        /\ view.generation # None => family.bound
        /\ main.generation # None => family.bound
        /\ jobs[Yoga].step # "idle" => family.bound
        /\ lease.record # "absent" => family.bound
        /\ family.end # "none" => lease.record = "absent"

IInv ==
    /\ Typed /\ JobsStand /\ MainStands /\ FamilyStands
    /\ SpecsGone /\ LeasesGone /\ PinsGone
    /\ Permitted /\ ShownStands /\ RevisionsGrow /\ Measured
-----------------------------------------------------------------------------

USE DEF None, Yoga, NoSpec, NoLayout

(* A job goes on to another step.                                           *)
LEMMA JobMoves ==
    ASSUME IInv, NEW j \in Jobs, NEW s \in JobSteps, Step(j, s)
    PROVE  /\ jobs' \in [Jobs -> JobRecords]
           /\ jobs'[j].step = s /\ jobs'[j].kind = jobs[j].kind
           /\ jobs'[j].generation = jobs[j].generation
           /\ jobs'[j].spec = jobs[j].spec
           /\ \A i \in Jobs : i # j => jobs'[i] = jobs[i]
<1>1. jobs[j] \in JobRecords
  BY DEF IInv, Typed
<1>2. [jobs[j] EXCEPT !.step = s] \in JobRecords
  BY <1>1 DEF JobRecords
<1>. QED
  BY <1>1, <1>2 DEF IInv, Typed, Step, JobRecords

(* A job is replaced.                                                       *)
LEMMA JobPut ==
    ASSUME IInv, NEW j \in Jobs, NEW r \in JobRecords,
           jobs' = [jobs EXCEPT ![j] = r]
    PROVE  /\ jobs' \in [Jobs -> JobRecords]
           /\ jobs'[j] = r
           /\ \A i \in Jobs : i # j => jobs'[i] = jobs[i]
BY DEF IInv, Typed

LEMMA YogaIsNoWorker == Yoga \in Jobs /\ Yoga \notin Workers
BY LeaseAssumption DEF LeaseBounds, Jobs

LEMMA IdleTyped == Idle \in JobRecords
BY LeaseAssumption DEF LeaseBounds, Idle, JobRecords, JobSteps

(* The parts of the invariant about jobs, for a step of a job that leaves  *)
(* the lease's record and the view alone.                                  *)
LEMMA PassEndsKeeps ==
    ASSUME IInv, NEW j \in Jobs, jobs[j].step \notin {"idle", "issue"},
           PassEnds(j), UNCHANGED <<main, view>>,
           lease'.record = lease.record, lease'.permitted = lease.permitted,
           lease'.revision = lease.revision
    PROVE  /\ jobs' \in [Jobs -> JobRecords] /\ family' \in FamilyRecords
           /\ family'.end = family.end
           /\ JobsStand' /\ FamilyStands' /\ Measured'
<1>1. CASE j = Yoga
  <2>1. /\ family' = [family EXCEPT !.commit = jobs[Yoga].generation]
        /\ jobs' = [jobs EXCEPT ![Yoga] = Idle]
    BY <1>1 DEF PassEnds
  <2>2. jobs[Yoga].generation \in Generations /\ family.end = "none"
    BY <1>1 DEF IInv, JobsStand, FamilyStands
  <2>3. /\ family' \in FamilyRecords
        /\ family'.tree = family.tree /\ family'.bound = family.bound
        /\ family'.commit = jobs[Yoga].generation
        /\ family'.stopped = family.stopped /\ family'.end = family.end
    BY <2>1, <2>2 DEF IInv, Typed, FamilyRecords
  <2>4. /\ jobs' \in [Jobs -> JobRecords] /\ jobs'[Yoga] = Idle
        /\ \A i \in Jobs : i # Yoga => jobs'[i] = jobs[i]
    BY <1>1, <2>1, IdleTyped, JobPut
  <2>5. JobsStand'
    BY <2>4, LeaseAssumption DEF IInv, JobsStand, Idle, Jobs, LeaseBounds
  <2>6. FamilyStands'
    BY <2>2, <2>3 DEF IInv, FamilyStands
  <2>7. Measured'
    BY <1>1, <2>2, <2>3, <2>4 DEF IInv, Measured, Idle
  <2>. QED
    BY <2>3, <2>4, <2>5, <2>6, <2>7
<1>2. CASE j # Yoga
  <2>1. j \in Workers /\ UNCHANGED family /\ Step(j, "report")
    BY <1>2 DEF PassEnds, Jobs
  <2>2. /\ jobs' \in [Jobs -> JobRecords]
        /\ jobs'[j].step = "report" /\ jobs'[j].kind = jobs[j].kind
        /\ jobs'[j].generation = jobs[j].generation
        /\ jobs'[j].spec = jobs[j].spec
        /\ \A i \in Jobs : i # j => jobs'[i] = jobs[i]
    BY <2>1, JobMoves DEF JobSteps
  <2>3. jobs'[Yoga] = jobs[Yoga]
    BY <1>2, <2>2 DEF Jobs
  <2>4. JobsStand'
    BY <2>2, <2>3 DEF IInv, JobsStand, Jobs
  <2>5. FamilyStands' /\ Measured'
    BY <2>1, <2>3 DEF IInv, FamilyStands, Measured
  <2>. QED
    BY <2>1, <2>2, <2>4, <2>5 DEF IInv, Typed
<1>. QED
  BY <1>1, <1>2

(* A job that is not over goes on; only the layout thread, after a probe,  *)
(* goes on to issue a final layout.                                        *)
LEMMA JobGoesOn ==
    ASSUME IInv, NEW j \in Jobs, jobs[j].step \notin {"idle", "issue"},
           NEW s \in {"issue", "pin", "build", "lease", "publish"},
           s = "issue" => jobs[j].kind # "final",
           Step(j, s), UNCHANGED <<main, view, family>>,
           lease'.record = lease.record, lease'.permitted = lease.permitted,
           lease'.revision = lease.revision
    PROVE  /\ jobs' \in [Jobs -> JobRecords]
           /\ JobsStand' /\ FamilyStands' /\ Measured'
<1>1. /\ jobs' \in [Jobs -> JobRecords]
      /\ jobs'[j].step = s /\ jobs'[j].kind = jobs[j].kind
      /\ jobs'[j].generation = jobs[j].generation
      /\ jobs'[j].spec = jobs[j].spec
      /\ \A i \in Jobs : i # j => jobs'[i] = jobs[i]
  BY JobMoves DEF JobSteps
<1>2. jobs'[Yoga].step = "idle" <=> jobs[Yoga].step = "idle"
  BY <1>1 DEF Jobs
<1>3. JobsStand'
  BY <1>1 DEF IInv, JobsStand, Jobs
<1>4. FamilyStands' /\ Measured'
  BY <1>2 DEF IInv, FamilyStands, Measured
<1>. QED
  BY <1>1, <1>3, <1>4

LEMMA MeasureEndsKeeps ==
    ASSUME IInv, NEW j \in Jobs, jobs[j].step \in {"own", "pin", "build", "lease"},
           NEW published, MeasureEnds(j, published),
           UNCHANGED <<main, view, lease>>
    PROVE  /\ jobs' \in [Jobs -> JobRecords] /\ family' \in FamilyRecords
           /\ family'.end = family.end
           /\ JobsStand' /\ FamilyStands' /\ Measured'
<1>1. CASE jobs[j].kind = "probe"
  BY <1>1, JobGoesOn DEF MeasureEnds, IInv, Typed
<1>2. CASE jobs[j].kind # "probe" /\ published
  BY <1>2, JobGoesOn DEF MeasureEnds, IInv, Typed
<1>3. CASE jobs[j].kind # "probe" /\ ~ published
  BY <1>3, PassEndsKeeps DEF MeasureEnds
<1>. QED
  BY <1>1, <1>2, <1>3

(* What a step of a job leaves alone.                                      *)
LEMMA OthersRest ==
    ASSUME IInv, UNCHANGED <<lease, cache, pins, main, view>>,
           family'.end = family.end
    PROVE  /\ MainStands' /\ SpecsGone' /\ LeasesGone' /\ PinsGone'
           /\ Permitted' /\ ShownStands' /\ RevisionsGrow'
<1>1. MainStands' /\ RevisionsGrow'
  BY DEF IInv, MainStands, RevisionsGrow
<1>2. SpecsGone' /\ LeasesGone' /\ PinsGone'
  BY DEF IInv, SpecsGone, LeasesGone, PinsGone
<1>3. Permitted' /\ ShownStands'
  BY DEF IInv, Permitted, Permitting, ShownStands, ShownIsMounted, Sweeping
<1>. QED
  BY <1>1, <1>2, <1>3

-----------------------------------------------------------------------------
(* The layout thread and the workers *)

LEMMA BeginKeeps ==
    ASSUME IInv, NEW g \in Generations, NEW w \in Widths,
           NEW kind \in {"probe", "final", "collapsed"}, Begin(g, kind, w)
    PROVE  IInv'
<1> DEFINE job == [step |-> IF kind = "final" THEN "issue" ELSE "own", kind |-> kind,
                   generation |-> g, spec |-> [revision |-> 0, width |-> w]]
<1>1. /\ lease' = Bound /\ lease.revision < MaxLayouts
      /\ family.tree /\ family' = [family EXCEPT !.bound = TRUE]
      /\ jobs[Yoga].step = "idle" /\ jobs' = [jobs EXCEPT ![Yoga] = job]
      /\ UNCHANGED <<cache, pins, inFlight, posted, main, view, pressure>>
  BY DEF Begin
<1>2. job \in JobRecords
  BY LeaseAssumption DEF LeaseBounds, JobRecords, JobSteps
<1>3. /\ jobs' \in [Jobs -> JobRecords] /\ jobs'[Yoga] = job
      /\ \A i \in Jobs : i # Yoga => jobs'[i] = jobs[i]
  BY <1>1, <1>2, JobPut DEF Jobs
<1>4. /\ lease' = [lease EXCEPT !.record = IF lease.record = "absent" THEN "active"
                                           ELSE lease.record]
      /\ lease'.permitted = lease.permitted /\ lease'.revision = lease.revision
      /\ lease'.specs = lease.specs /\ lease'.tickets = lease.tickets
      /\ lease'.record = IF lease.record = "absent" THEN "active" ELSE lease.record
  BY <1>1 DEF IInv, Typed, TypeOK, Bound
<1>5. lease.record = "absent" => lease.permitted = None
  BY DEF IInv, FamilyStands
<1>6. /\ family' \in FamilyRecords
      /\ family'.tree /\ family'.bound
      /\ family'.commit = family.commit
      /\ family'.stopped = family.stopped /\ family'.end = family.end
  BY <1>1 DEF IInv, Typed, FamilyRecords
<1>7. family.end = "none"
  BY <1>1 DEF IInv, FamilyStands
<1>8. Typed'
  BY <1>1, <1>3, <1>4, <1>6 DEF IInv, Typed, TypeOK
<1>9. JobsStand'
  <2>1. /\ job.generation \in Generations /\ job.spec.width \in Widths
        /\ job.step \notin {"report", "prepared", "missed"}
    OBVIOUS
  <2> HIDE DEF job
  <2>. QED
    BY <1>1, <1>3, <1>4, <2>1, YogaIsNoWorker DEF IInv, JobsStand, Jobs
<1>10. MainStands' /\ FamilyStands' /\ Measured'
  BY <1>1, <1>4, <1>6, <1>7 DEF IInv, MainStands, FamilyStands, Measured
<1>11. SpecsGone' /\ LeasesGone' /\ PinsGone'
  BY <1>1, <1>4, <1>6 DEF IInv, SpecsGone, LeasesGone, PinsGone
<1>12. Permitted'
  <2>1. CASE lease.record = "absent"
    BY <1>1, <1>4, <1>5, <2>1 DEF IInv, Permitted, Permitting
  <2>2. CASE lease.record # "absent"
    BY <1>1, <1>4, <2>2 DEF IInv, Permitted, Permitting
  <2>. QED
    BY <2>1, <2>2
<1>13. ShownStands' /\ RevisionsGrow'
  BY <1>1, <1>4, <1>6 DEF IInv, ShownStands, ShownIsMounted, Sweeping, RevisionsGrow
<1>. QED
  BY <1>8, <1>9, <1>10, <1>11, <1>12, <1>13 DEF IInv

LEMMA BeginUnmeasuredKeeps ==
    ASSUME IInv, NEW g \in Generations, BeginUnmeasured(g)
    PROVE  IInv'
<1>1. /\ family' \in FamilyRecords
      /\ family'.tree = family.tree /\ family'.bound = family.bound
      /\ family'.commit = g /\ family'.end = family.end
  BY DEF IInv, Typed, FamilyRecords, BeginUnmeasured
<1>2. Typed' /\ JobsStand' /\ FamilyStands' /\ Measured'
  BY <1>1 DEF IInv, BeginUnmeasured, Typed, TypeOK, JobsStand, FamilyStands, Measured
<1>. QED
  BY <1>1, <1>2, OthersRest DEF IInv, BeginUnmeasured

LEMMA IssueKeeps ==
    ASSUME IInv, NEW w \in Widths, Issue(w)
    PROVE  IInv'
<1> DEFINE g == jobs[Yoga].generation
           spec == [revision |-> lease.revision + 1, width |-> w]
           job == [jobs[Yoga] EXCEPT !.step = "own", !.kind = "final", !.spec = spec]
<1>1. /\ jobs[Yoga].step = "issue"
      /\ lease' = [lease EXCEPT !.revision = lease.revision + 1,
                                !.specs[g] = IF Active(g) THEN spec ELSE lease.specs[g]]
      /\ jobs' = [jobs EXCEPT ![Yoga] = job]
      /\ UNCHANGED <<cache, pins, inFlight, posted, main, view, family, pressure>>
  BY DEF Issue, IInv, Typed, JobRecords, Jobs
<1>2. /\ g \in Generations /\ lease.revision < MaxLayouts /\ lease.revision \in Nat
      /\ MaxLayouts \in Nat /\ Yoga \in Jobs /\ Yoga \notin Workers
  BY <1>1, LeaseAssumption DEF IInv, Typed, TypeOK, JobsStand, Jobs, LeaseBounds
<1>3. spec \in Specs /\ spec # NoSpec
  BY <1>2 DEF Specs
<1>4. /\ job \in JobRecords /\ job.step = "own" /\ job.kind = "final"
      /\ job.generation = g /\ job.spec = spec
  <2>1. jobs[Yoga] \in JobRecords
    BY <1>2 DEF IInv, Typed
  <2>2. spec \in [revision : 0..MaxLayouts, width : Widths \union {0}]
    BY <1>2
  <2>. QED
    BY <2>1, <2>2 DEF JobRecords, JobSteps
<1>5. /\ jobs' \in [Jobs -> JobRecords] /\ jobs'[Yoga] = job
      /\ \A i \in Jobs : i # Yoga => jobs'[i] = jobs[i]
  BY <1>1, <1>2, <1>4, JobPut
<1>6. /\ lease'.record = lease.record /\ lease'.permitted = lease.permitted
      /\ lease'.revision = lease.revision + 1 /\ lease'.tickets = lease.tickets
      /\ lease'.specs \in [Generations -> Specs]
      /\ lease'.specs[g] = IF Active(g) THEN spec ELSE lease.specs[g]
      /\ \A h \in Generations : h # g => lease'.specs[h] = lease.specs[h]
      /\ ~ Active(g) => lease'.specs = lease.specs
  BY <1>1, <1>2, <1>3 DEF IInv, Typed, TypeOK
<1>7. Typed'
  <2>1. lease.revision + 1 \in 0..MaxLayouts
    BY <1>2
  <2>2. lease' \in [record : {"absent", "active", "inactive"},
                    permitted : Generations \union {None}, revision : 0..MaxLayouts,
                    specs : [Generations -> Specs], tickets : [Generations -> Specs]]
    BY <1>1, <1>6, <2>1 DEF IInv, Typed, TypeOK
  <2>. QED
    BY <1>1, <1>5, <2>2 DEF IInv, Typed, TypeOK
<1>8. JobsStand'
  <2>1. job.spec.width \in Widths
    BY <1>4
  <2> HIDE DEF job, spec
  <2>. QED
    BY <1>2, <1>4, <1>5, <2>1 DEF IInv, JobsStand, Jobs
<1>9. MainStands' /\ FamilyStands' /\ Measured'
  BY <1>1, <1>4, <1>5, <1>6 DEF IInv, MainStands, FamilyStands, Measured
<1>10. SpecsGone' /\ LeasesGone' /\ PinsGone'
  BY <1>1, <1>6 DEF IInv, Active, SpecsGone, LeasesGone, PinsGone
<1>11. Permitted' /\ ShownStands'
  BY <1>1, <1>6 DEF IInv, Active, Permitted, Permitting, ShownStands, ShownIsMounted, Sweeping
<1>12. RevisionsGrow'
  <2>1. /\ \A h \in Generations : lease.specs[h].revision \in Nat
        /\ view.revision \in Nat /\ spec.revision = lease.revision + 1
    BY <1>2 DEF IInv, Typed, TypeOK, Specs
  <2>2. \A h \in Generations : lease.tickets[h].revision \in Nat
    BY <1>2 DEF IInv, Typed, TypeOK, Specs
  <2>3. lease'.specs[g] \in {spec, lease.specs[g]}
    BY <1>6
  <2> HIDE DEF g, spec
  <2>4. /\ view'.revision <= lease'.revision
        /\ view'.shown = NoLayout => view'.revision = 0
    BY <1>1, <1>2, <1>6, <2>1 DEF IInv, RevisionsGrow
  <2>5. ASSUME NEW h \in Generations, lease'.specs[h] = lease.specs[h]
        PROVE  /\ lease'.specs[h].revision <= lease'.revision
               /\ lease'.tickets[h] # NoSpec =>
                     /\ lease'.specs[h] # NoSpec
                     /\ lease'.tickets[h].revision <= lease'.specs[h].revision
               /\ view'.shown.generation = h /\ lease'.specs[h] # NoSpec =>
                     view'.revision <= lease'.specs[h].revision
    BY <1>1, <1>2, <1>6, <2>1, <2>2, <2>5 DEF IInv, RevisionsGrow
  <2>6. ASSUME lease'.specs[g] = spec
        PROVE  /\ lease'.specs[g].revision <= lease'.revision
               /\ lease'.tickets[g] # NoSpec =>
                     /\ lease'.specs[g] # NoSpec
                     /\ lease'.tickets[g].revision <= lease'.specs[g].revision
               /\ view'.shown.generation = g /\ lease'.specs[g] # NoSpec =>
                     view'.revision <= lease'.specs[g].revision
    BY <1>1, <1>2, <1>3, <1>6, <2>1, <2>2, <2>6 DEF IInv, RevisionsGrow
  <2>7. \A h \in Generations :
           view'.shown.generation = h /\ lease'.tickets[h] # NoSpec =>
              view'.revision <= lease'.tickets[h].revision
    BY <1>1, <1>6 DEF IInv, RevisionsGrow
  <2>. QED
    BY <1>6, <2>3, <2>4, <2>5, <2>6, <2>7 DEF RevisionsGrow
<1>. QED
  BY <1>7, <1>8, <1>9, <1>10, <1>11, <1>12 DEF IInv

LEMMA OwnKeeps ==
    ASSUME IInv, NEW j \in Jobs, Own(j)
    PROVE  IInv'
<1> DEFINE g == jobs[j].generation
<1>1. /\ jobs[j].step = "own" /\ g \in Generations
      /\ UNCHANGED <<lease, pins, inFlight, posted, main, view, pressure>>
  BY DEF Own, IInv, JobsStand
<1>2. CASE jobs[j].kind = "collapsed"
  <2>1. /\ cache' \in {cache, [cache EXCEPT !.pending = NoLayout]}
        /\ Step(j, "issue") /\ UNCHANGED family
    BY <1>2 DEF Own
  <2>2. jobs' \in [Jobs -> JobRecords] /\ JobsStand' /\ FamilyStands' /\ Measured'
    BY <1>1, <1>2, <2>1, JobGoesOn
  <2>3. /\ cache'.pending \in {cache.pending, NoLayout} /\ cache'.mounted = cache.mounted
        /\ cache' \in [pending : Layouts, mounted : Layouts]
    BY <2>1 DEF IInv, Typed, TypeOK, Layouts
  <2>4. Typed'
    BY <1>1, <2>1, <2>2, <2>3 DEF IInv, Typed, TypeOK
  <2>5. MainStands' /\ RevisionsGrow' /\ SpecsGone' /\ PinsGone'
    BY <1>1, <2>1 DEF IInv, MainStands, RevisionsGrow, SpecsGone, PinsGone
  <2>6. LeasesGone' /\ Permitted' /\ ShownStands'
    BY <1>1, <2>1, <2>3
       DEF IInv, LeasesGone, Permitted, Permitting, ShownStands, ShownIsMounted, Sweeping
  <2>. QED
    BY <2>2, <2>4, <2>5, <2>6 DEF IInv
<1>3. CASE jobs[j].kind # "collapsed"
  <2>1. UNCHANGED cache /\ ((Step(j, "pin") /\ UNCHANGED family) \/ MeasureEnds(j, TRUE))
    BY <1>3 DEF Own
  <2>2. /\ jobs' \in [Jobs -> JobRecords] /\ family' \in FamilyRecords
        /\ family'.end = family.end
        /\ JobsStand' /\ FamilyStands' /\ Measured'
    <3>1. CASE Step(j, "pin") /\ UNCHANGED family
      BY <1>1, <3>1, JobGoesOn DEF IInv, Typed
    <3>2. CASE MeasureEnds(j, TRUE)
      BY <1>1, <3>2, MeasureEndsKeeps
    <3>. QED
      BY <2>1, <3>1, <3>2
  <2>3. Typed'
    BY <1>1, <2>1, <2>2 DEF IInv, Typed, TypeOK
  <2>. QED
    BY <1>1, <2>1, <2>2, <2>3, OthersRest DEF IInv
<1>. QED
  BY <1>2, <1>3

LEMMA PinKeeps ==
    ASSUME IInv, NEW j \in Jobs, Pin(j)
    PROVE  IInv'
<1> DEFINE g == jobs[j].generation
<1>1. /\ jobs[j].step = "pin" /\ g \in Generations /\ Step(j, "build")
      /\ pins' = IF Active(g) THEN pins \union {g} ELSE pins
      /\ UNCHANGED <<lease, cache, inFlight, posted, main, view, family, pressure>>
  BY DEF Pin, IInv, JobsStand
<1>2. jobs' \in [Jobs -> JobRecords] /\ JobsStand' /\ FamilyStands' /\ Measured'
  BY <1>1, JobGoesOn
<1>3. Typed'
  BY <1>1, <1>2 DEF IInv, Typed, TypeOK
<1>4. MainStands' /\ RevisionsGrow' /\ SpecsGone' /\ LeasesGone' /\ ShownStands'
  BY <1>1 DEF IInv, MainStands, RevisionsGrow, SpecsGone, LeasesGone, ShownStands,
              ShownIsMounted, Sweeping
<1>5. PinsGone' /\ Permitted'
  BY <1>1 DEF IInv, Active, PinsGone, Permitted, Permitting
<1>. QED
  BY <1>2, <1>3, <1>4, <1>5 DEF IInv

LEMMA BuildKeeps ==
    ASSUME IInv, NEW j \in Jobs, Build(j)
    PROVE  IInv'
<1>1. /\ jobs[j].step = "build"
      /\ (Step(j, "lease") /\ UNCHANGED family) \/ MeasureEnds(j, FALSE)
      /\ UNCHANGED <<lease, cache, pins, inFlight, posted, main, view, pressure>>
  BY DEF Build
<1>2. /\ jobs' \in [Jobs -> JobRecords] /\ family' \in FamilyRecords
      /\ family'.end = family.end
      /\ JobsStand' /\ FamilyStands' /\ Measured'
  <2>1. CASE Step(j, "lease") /\ UNCHANGED family
    BY <1>1, <2>1, JobGoesOn DEF IInv, Typed
  <2>2. CASE MeasureEnds(j, FALSE)
    BY <1>1, <2>2, MeasureEndsKeeps
  <2>. QED
    BY <1>1, <2>1, <2>2
<1>3. Typed'
  BY <1>1, <1>2 DEF IInv, Typed, TypeOK
<1>. QED
  BY <1>1, <1>2, <1>3, OthersRest DEF IInv

LEMMA TakeLeaseKeeps ==
    ASSUME IInv, NEW j \in Jobs, TakeLease(j)
    PROVE  IInv'
<1> DEFINE g == jobs[j].generation
           layout == LayoutOf(jobs[j])
<1>1. /\ jobs[j].step = "lease" /\ g \in Generations /\ jobs[j].spec.width \in Widths
      /\ MeasureEnds(j, TRUE)
      /\ UNCHANGED <<lease, pins, inFlight, posted, main, view, pressure>>
  BY DEF TakeLease, IInv, JobsStand
<1>2. layout \in Layouts /\ layout.generation = g
  BY <1>1 DEF LayoutOf, Layouts
<1>3. /\ jobs' \in [Jobs -> JobRecords] /\ family' \in FamilyRecords
      /\ family'.end = family.end
      /\ JobsStand' /\ FamilyStands' /\ Measured'
  BY <1>1, MeasureEndsKeeps
<1>4. /\ cache' \in [pending : Layouts, mounted : Layouts]
      /\ cache'.mounted = cache.mounted
      /\ \/ cache'.pending \in {cache.pending, NoLayout}
         \/ Active(g) /\ cache'.pending = layout
  <2> DEFINE pending == IF cache.mounted = layout THEN NoLayout ELSE layout
  <2>1. \/ cache' = cache
        \/ Active(g) /\ cache' = [cache EXCEPT !.pending = pending]
    BY DEF TakeLease, Eligible
  <2>2. pending \in Layouts
    BY <1>2 DEF Layouts
  <2>. cache \in [pending : Layouts, mounted : Layouts]
    BY DEF IInv, Typed, TypeOK
  <2> HIDE DEF pending, layout
  <2>3. CASE cache' = cache
    BY <2>3
  <2>4. CASE Active(g) /\ cache' = [cache EXCEPT !.pending = pending]
    <3>1. pending \in {NoLayout, layout}
      BY DEF pending
    <3>. QED
      BY <2>2, <2>4, <3>1
  <2>. QED
    BY <2>1, <2>3, <2>4
<1>5. Typed'
  BY <1>1, <1>3, <1>4 DEF IInv, Typed, TypeOK
<1>6. MainStands' /\ RevisionsGrow' /\ SpecsGone' /\ PinsGone'
  BY <1>1, <1>3 DEF IInv, MainStands, RevisionsGrow, SpecsGone, PinsGone
<1>7. LeasesGone' /\ ShownStands'
  BY <1>1, <1>3, <1>4
     DEF IInv, Active, LeasesGone, ShownStands, ShownIsMounted, Sweeping
<1>8. Permitted'
  BY <1>1, <1>2, <1>3, <1>4 DEF IInv, Active, Permitted, Permitting
<1>. QED
  BY <1>3, <1>5, <1>6, <1>7, <1>8 DEF IInv

LEMMA PublishTicketKeeps ==
    ASSUME IInv, NEW j \in Jobs, PublishTicket(j)
    PROVE  IInv'
<1> DEFINE g == jobs[j].generation
<1>1. /\ jobs[j].step = "publish" /\ g \in Generations /\ PassEnds(j)
      /\ UNCHANGED <<cache, pins, inFlight, posted, main, view, pressure>>
  BY DEF PublishTicket, IInv, JobsStand
<1>2. /\ lease' \in [record : {"absent", "active", "inactive"},
                     permitted : Generations \union {None}, revision : 0..MaxLayouts,
                     specs : [Generations -> Specs], tickets : [Generations -> Specs]]
      /\ lease'.record = lease.record /\ lease'.permitted = lease.permitted
      /\ lease'.revision = lease.revision /\ lease'.specs = lease.specs
      /\ \A h \in Generations : h # g => lease'.tickets[h] = lease.tickets[h]
      /\ \/ lease'.tickets = lease.tickets
         \/ Active(g) /\ lease'.tickets[g] = lease.specs[g]
  <2>1. \/ lease' = lease
        \/ Active(g) /\ lease' = [lease EXCEPT !.tickets[g] = lease.specs[g]]
    BY DEF PublishTicket
  <2>2. lease.specs[g] \in Specs
    BY <1>1 DEF IInv, Typed, TypeOK
  <2>. QED
    BY <1>1, <2>1, <2>2 DEF IInv, Typed, TypeOK
<1>3. /\ jobs' \in [Jobs -> JobRecords] /\ family' \in FamilyRecords
      /\ family'.end = family.end
      /\ JobsStand' /\ FamilyStands' /\ Measured'
  BY <1>1, <1>2, PassEndsKeeps
<1>4. Typed'
  BY <1>1, <1>2, <1>3 DEF IInv, Typed, TypeOK
<1>5. MainStands' /\ LeasesGone' /\ PinsGone' /\ ShownStands'
  BY <1>1, <1>2, <1>3
     DEF IInv, MainStands, LeasesGone, PinsGone, ShownStands, ShownIsMounted, Sweeping
<1>6. SpecsGone'
  BY <1>1, <1>2, <1>3 DEF IInv, Active, SpecsGone
<1>7. Permitted'
  BY <1>1, <1>2 DEF IInv, Active, Permitted, Permitting
<1>8. RevisionsGrow'
  <2>1. \A h \in Generations :
           lease.specs[h].revision \in Nat /\ lease.tickets[h].revision \in Nat
    BY LeaseAssumption DEF IInv, Typed, TypeOK, Specs, LeaseBounds
  <2>. QED
    BY <1>1, <1>2, <2>1 DEF IInv, RevisionsGrow
<1>. QED
  BY <1>3, <1>4, <1>5, <1>6, <1>7, <1>8 DEF IInv

LEMMA ReportKeeps ==
    ASSUME IInv, NEW j \in Workers, Report(j)
    PROVE  IInv'
<1>1. /\ j \in Jobs /\ j # Yoga /\ jobs[j].step = "report"
      /\ UNCHANGED <<lease, cache, pins, inFlight, posted, main, view, family, pressure>>
  BY LeaseAssumption DEF Report, Jobs, LeaseBounds
<1>2. PICK s \in {"prepared", "missed"} : Step(j, s)
  BY DEF Report, Step
<1>3. /\ jobs' \in [Jobs -> JobRecords]
      /\ jobs'[j].step = s /\ jobs'[j].kind = jobs[j].kind
      /\ jobs'[j].generation = jobs[j].generation
      /\ jobs'[j].spec = jobs[j].spec
      /\ \A i \in Jobs : i # j => jobs'[i] = jobs[i]
  BY <1>1, <1>2, JobMoves DEF JobSteps
<1>4. jobs'[Yoga] = jobs[Yoga]
  BY <1>1, <1>3 DEF Jobs
<1>5. Typed' /\ JobsStand' /\ FamilyStands' /\ Measured'
  BY <1>1, <1>3, <1>4
     DEF IInv, Typed, TypeOK, JobsStand, FamilyStands, Measured, Jobs
<1>. QED
  BY <1>1, <1>5, OthersRest DEF IInv

LEMMA CompleteKeeps ==
    ASSUME IInv, NEW j \in Workers, Complete(j)
    PROVE  IInv'
<1> DEFINE g == jobs[j].generation
<1>1. /\ j \in Jobs /\ j # Yoga /\ g \in Generations
      /\ jobs' = [jobs EXCEPT ![j] = Idle]
      /\ UNCHANGED <<lease, cache, pins, main, view, family, pressure>>
  BY LeaseAssumption DEF Complete, Jobs, LeaseBounds, IInv, JobsStand
<1>2. /\ jobs' \in [Jobs -> JobRecords] /\ jobs'[j] = Idle
      /\ \A i \in Jobs : i # j => jobs'[i] = jobs[i]
  BY <1>1, IdleTyped, JobPut
<1>3. jobs'[Yoga] = jobs[Yoga]
  BY <1>1, <1>2 DEF Jobs
<1>4. inFlight' \in [Generations -> Workers \union {None}] /\ posted' \subseteq Generations
  BY <1>1 DEF Complete, IInv, Typed, TypeOK
<1>5. Typed' /\ JobsStand' /\ FamilyStands' /\ Measured'
  BY <1>1, <1>2, <1>3, <1>4
     DEF IInv, Typed, TypeOK, JobsStand, FamilyStands, Measured, Jobs, Idle
<1>. QED
  BY <1>1, <1>5, OthersRest DEF IInv

-----------------------------------------------------------------------------
(* The main thread *)

(* The main thread goes on to another step.                                 *)
LEMMA MainMoves ==
    ASSUME IInv, NEW s \in MainSteps, Goto(s)
    PROVE  /\ main' \in MainRecords
           /\ main'.step = s /\ main'.generation = main.generation
           /\ main'.ticket = main.ticket
BY DEF IInv, Typed, MainRecords, Goto

(* The main thread begins with a generation.                                *)
LEMMA MainBegins ==
    ASSUME NEW s \in MainSteps, NEW g \in Generations, NEW b \in BOOLEAN,
           main' = [Resting EXCEPT !.step = s, !.generation = g, !.again = b]
    PROVE  /\ main' \in MainRecords
           /\ main'.step = s /\ main'.generation = g
<1>1. NoSpec \in Specs
  BY DEF Specs
<1>. QED
  BY <1>1 DEF Resting, MainRecords

(* The jobs, while the layout thread issues nothing.                        *)
LEMMA JobsRest ==
    ASSUME IInv, UNCHANGED jobs, lease'.revision = lease.revision
    PROVE  JobsStand'
BY DEF IInv, JobsStand

(* A step of the main thread that changes nothing but its place, outside   *)
(* the steps that take things away.                                        *)
LEMMA MainGoesOn ==
    ASSUME IInv, UNCHANGED <<lease, cache, pins, posted, view, family, pressure>>,
           jobs' \in [Jobs -> JobRecords], jobs'[Yoga] = jobs[Yoga],
           inFlight' \in [Generations -> Workers \union {None}],
           main' \in MainRecords, MainStands',
           main.step \notin {"unpin", "supersede", "releasePins"} \union MainSweeping,
           main'.step \notin {"unpin", "supersede"} \union MainSweeping,
           ~ Unmeasured /\ main'.generation # None => family.bound
    PROVE  /\ Typed' /\ FamilyStands' /\ Measured'
           /\ SpecsGone' /\ LeasesGone' /\ PinsGone'
           /\ Permitted' /\ ShownStands' /\ RevisionsGrow'
<1>1. Typed'
  BY DEF IInv, Typed, TypeOK
<1>2. FamilyStands' /\ Measured' /\ RevisionsGrow'
  BY DEF IInv, FamilyStands, Measured, RevisionsGrow
<1>3. SpecsGone' /\ LeasesGone' /\ PinsGone'
  BY DEF IInv, SpecsGone, LeasesGone, PinsGone, MainSweeping
<1>4. Permitted' /\ ShownStands'
  BY DEF IInv, Permitted, Permitting, ShownStands, ShownIsMounted, Sweeping, MainSweeping
<1>. QED
  BY <1>1, <1>2, <1>3, <1>4

LEMMA ActivateKeeps ==
    ASSUME IInv, Activate
    PROVE  IInv'
<1> DEFINE g == main.generation
<1>1. /\ main.step = "activate" /\ g \in Generations
      /\ view.state = "mounted" /\ family.end = "none"
      /\ UNCHANGED <<cache, pins, jobs, inFlight, posted, view, family, pressure>>
  BY DEF Activate, IInv, MainStands, FamilyStands, Mounting
<1>2. CASE lease.record = "active"
  <2> DEFINE Only(specs) == [h \in Generations |-> IF h = g THEN specs[h] ELSE NoSpec]
  <2>1. /\ lease' = [lease EXCEPT !.permitted = g, !.specs = Only(lease.specs),
                                  !.tickets = Only(lease.tickets)]
        /\ Goto("unpin")
    BY <1>2 DEF Activate
  <2>2. /\ main' \in MainRecords /\ main'.step = "unpin" /\ main'.generation = g
    BY <2>1, MainMoves DEF MainSteps, Mounting
  <2>3. Only(lease.specs) \in [Generations -> Specs]
        /\ Only(lease.tickets) \in [Generations -> Specs]
    BY DEF IInv, Typed, TypeOK, Specs
  <2>4. /\ lease' \in LeaseRecords
        /\ lease'.record = "active" /\ lease'.permitted = g
        /\ lease'.revision = lease.revision
        /\ lease'.specs = Only(lease.specs) /\ lease'.tickets = Only(lease.tickets)
    BY <1>1, <1>2, <2>1, <2>3 DEF IInv, Typed, TypeOK, LeaseRecords
  <2>5. /\ lease'.specs[g] = lease.specs[g] /\ lease'.tickets[g] = lease.tickets[g]
        /\ \A h \in Generations \ {g} :
              lease'.specs[h] = NoSpec /\ lease'.tickets[h] = NoSpec
    BY <1>1, <2>4
  <2> HIDE DEF Only
  <2>6. Typed'
    BY <1>1, <2>2, <2>4 DEF IInv, Typed, TypeOK, LeaseRecords
  <2>7. JobsStand'
    BY <1>1, <2>4, JobsRest
  <2>8. MainStands' /\ FamilyStands' /\ Measured'
    BY <1>1, <1>2, <2>2, <2>4
       DEF IInv, MainStands, FamilyStands, Measured, Mounting, Fetching, Releasing
  <2>9. SpecsGone' /\ LeasesGone' /\ PinsGone'
    BY <2>4 DEF SpecsGone, LeasesGone, PinsGone
  <2>10. Permitted'
    BY <1>1, <2>2, <2>4, <2>5 DEF Permitted, Permitting
  <2>11. ShownStands'
    BY <1>1, <1>2, <2>2, <2>4
       DEF IInv, ShownStands, ShownIsMounted, Sweeping, MainSweeping
  <2>12. RevisionsGrow'
    <3>1. lease.revision \in Nat /\ NoSpec.revision = 0
      BY LeaseAssumption DEF IInv, Typed, TypeOK, LeaseBounds
    <3>. QED
      BY <1>1, <2>4, <2>5, <3>1 DEF IInv, RevisionsGrow
  <2>. QED
    BY <2>6, <2>7, <2>8, <2>9, <2>10, <2>11, <2>12 DEF IInv
<1>3. CASE lease.record # "active"
  <2>1. UNCHANGED lease /\ Goto("adopt")
    BY <1>3 DEF Activate
  <2>2. /\ main' \in MainRecords /\ main'.step = "adopt" /\ main'.generation = g
    BY <2>1, MainMoves DEF MainSteps, Mounting
  <2>3. MainStands' /\ JobsStand'
    BY <1>1, <2>1, <2>2, JobsRest DEF MainStands, Mounting, Fetching, Releasing
  <2>4. ~ Unmeasured /\ main'.generation # None => family.bound
    BY <2>2 DEF IInv, Measured
  <2>. QED
    BY <1>1, <2>1, <2>2, <2>3, <2>4, MainGoesOn DEF IInv, Typed, TypeOK, MainSweeping
<1>. QED
  BY <1>2, <1>3

LEMMA UnpinKeeps ==
    ASSUME IInv, Unpin
    PROVE  IInv'
<1>1. /\ main.step = "unpin" /\ Goto("supersede")
      /\ pins' = pins \intersect {main.generation}
      /\ inFlight' = [h \in Generations |-> IF h = main.generation THEN inFlight[h] ELSE None]
      /\ UNCHANGED <<lease, cache, jobs, posted, view, family, pressure>>
  BY DEF Unpin
<1>2. /\ main' \in MainRecords /\ main'.step = "supersede"
      /\ main'.generation = main.generation
  BY <1>1, MainMoves DEF MainSteps, Mounting
<1>3. lease.record = "active" /\ lease.permitted = main.generation
  BY <1>1 DEF IInv, Permitted
<1>4. Typed'
  <2>1. pins' \subseteq Generations /\ inFlight' \in [Generations -> Workers \union {None}]
    BY <1>1 DEF IInv, Typed, TypeOK
  <2>. QED
    BY <1>1, <1>2, <2>1 DEF IInv, Typed, TypeOK
<1>5. JobsStand'
  BY <1>1, JobsRest
<1>6. MainStands' /\ FamilyStands' /\ Measured' /\ RevisionsGrow'
  BY <1>1, <1>2
     DEF IInv, MainStands, FamilyStands, Measured, RevisionsGrow, Mounting, Fetching,
         Releasing
<1>7. SpecsGone' /\ LeasesGone' /\ PinsGone'
  BY <1>1, <1>3 DEF SpecsGone, LeasesGone, PinsGone
<1>8. Permitted' /\ ShownStands'
  BY <1>1, <1>2, <1>3
     DEF IInv, Permitted, Permitting, ShownStands, ShownIsMounted, Sweeping, MainSweeping
<1>. QED
  BY <1>4, <1>5, <1>6, <1>7, <1>8 DEF IInv

LEMMA SupersedeKeeps ==
    ASSUME IInv, Supersede
    PROVE  IInv'
<1>1. /\ main.step = "supersede" /\ Goto("adopt")
      /\ UNCHANGED <<lease, pins, jobs, inFlight, posted, view, family, pressure>>
  BY DEF Supersede
<1>2. /\ main' \in MainRecords /\ main'.step = "adopt"
      /\ main'.generation = main.generation
  BY <1>1, MainMoves DEF MainSteps, Mounting
<1>3. lease.record = "active" /\ lease.permitted = main.generation
  BY <1>1 DEF IInv, Permitted
<1>4. /\ cache' \in CacheRecords /\ cache'.mounted = cache.mounted
      /\ cache'.pending = IF cache.pending.generation = main.generation THEN cache.pending
                          ELSE NoLayout
  BY DEF Supersede, IInv, Typed, TypeOK, CacheRecords, Layouts
<1>5. Typed'
  BY <1>1, <1>2, <1>4 DEF IInv, Typed, TypeOK, CacheRecords
<1>6. JobsStand'
  BY <1>1, JobsRest
<1>7. MainStands' /\ FamilyStands' /\ Measured' /\ RevisionsGrow'
  BY <1>1, <1>2
     DEF IInv, MainStands, FamilyStands, Measured, RevisionsGrow, Mounting, Fetching,
         Releasing
<1>8. SpecsGone' /\ LeasesGone' /\ PinsGone'
  BY <1>1, <1>3 DEF SpecsGone, LeasesGone, PinsGone
<1>9. Permitted' /\ ShownStands'
  BY <1>1, <1>2, <1>3, <1>4
     DEF IInv, Permitted, Permitting, ShownStands, ShownIsMounted, Sweeping, MainSweeping
<1>. QED
  BY <1>5, <1>6, <1>7, <1>8, <1>9 DEF IInv

LEMMA AdoptKeeps ==
    ASSUME IInv, Adopt
    PROVE  IInv'
<1>1. /\ main.step = "adopt" /\ Goto("ticket") /\ main.generation \in Generations
      /\ view.state = "mounted"
      /\ view' = [view EXCEPT !.generation = main.generation]
      /\ UNCHANGED <<lease, cache, pins, jobs, inFlight, posted, family, pressure>>
  BY DEF Adopt, IInv, MainStands, Mounting
<1>2. /\ main' \in MainRecords /\ main'.step = "ticket"
      /\ main'.generation = main.generation
  BY <1>1, MainMoves DEF MainSteps, Fetching
<1>3. /\ view' \in ViewRecords /\ view'.generation = main.generation
      /\ view'.state = view.state /\ view'.shown = view.shown
      /\ view'.revision = view.revision
  BY <1>1 DEF IInv, Typed, TypeOK, ViewRecords
<1>4. Typed'
  BY <1>1, <1>2, <1>3 DEF IInv, Typed, TypeOK, ViewRecords
<1>5. JobsStand'
  BY <1>1, JobsRest
<1>6. MainStands' /\ FamilyStands' /\ Measured'
  BY <1>1, <1>2, <1>3
     DEF IInv, MainStands, FamilyStands, Measured, Mounting, Fetching, Releasing
<1>7. SpecsGone' /\ LeasesGone' /\ PinsGone' /\ Permitted'
  BY <1>1, <1>2
     DEF IInv, SpecsGone, LeasesGone, PinsGone, MainSweeping, Permitted, Permitting
<1>8. ShownStands' /\ RevisionsGrow'
  <2>1. main.generation # None
    BY <1>1, LeaseAssumption DEF LeaseBounds
  <2>. QED
    BY <1>1, <1>2, <1>3, <2>1
       DEF IInv, ShownStands, ShownIsMounted, Sweeping, MainSweeping, RevisionsGrow
<1>. QED
  BY <1>4, <1>5, <1>6, <1>7, <1>8 DEF IInv

LEMMA ReadTicketKeeps ==
    ASSUME IInv, ReadTicket
    PROVE  IInv'
<1> DEFINE ticket == IF Active(main.generation) THEN lease.tickets[main.generation]
                     ELSE NoSpec
<1>1. /\ main.step = "ticket" /\ main.generation \in Generations
      /\ view.state = "mounted" /\ view.generation = main.generation
      /\ UNCHANGED <<lease, cache, pins, jobs, inFlight, posted, view, family, pressure>>
  BY DEF ReadTicket, IInv, MainStands, Fetching
<1>2. ticket \in Specs
  BY <1>1 DEF IInv, Typed, TypeOK, Specs
<1>3. /\ main' \in MainRecords /\ main'.generation = main.generation
      /\ \/ main'.step \in {"idle", "prepare"}
         \/ main'.step = "take" /\ main'.ticket # NoSpec
  <2>1. CASE ticket = NoSpec
    <3>1. PICK s \in {"prepare", "idle"} : Goto(s)
      BY <2>1 DEF ReadTicket, Missed
    <3>. QED
      BY <3>1, MainMoves DEF MainSteps, Fetching
  <2>2. CASE ticket # NoSpec
    <3>1. main' = [main EXCEPT !.step = "take", !.ticket = ticket]
      BY <2>2 DEF ReadTicket
    <3> HIDE DEF ticket
    <3>. QED
      BY <1>2, <2>2, <3>1 DEF IInv, Typed, MainRecords, MainSteps, Fetching
  <2>. QED
    BY <2>1, <2>2
<1>4. MainStands' /\ JobsStand'
  BY <1>1, <1>3, JobsRest DEF MainStands, Mounting, Fetching, Releasing
<1>5. ~ Unmeasured /\ main'.generation # None => family.bound
  BY <1>3 DEF IInv, Measured
<1>. QED
  BY <1>1, <1>3, <1>4, <1>5, MainGoesOn DEF IInv, Typed, TypeOK, MainSweeping

LEMMA TakeKeeps ==
    ASSUME IInv, Take
    PROVE  IInv'
<1> DEFINE g == main.generation
           layout == [generation |-> g, width |-> main.ticket.width]
<1>1. /\ main.step = "take" /\ g \in Generations /\ main.ticket # NoSpec
      /\ view.state = "mounted" /\ view.generation = g
      /\ UNCHANGED <<lease, pins, jobs, inFlight, posted, family, pressure>>
  BY DEF Take, IInv, MainStands, Fetching
<1>2. CASE layout \in {cache.pending, cache.mounted} /\ TicketStands
  <2>1. /\ cache' = [pending |-> IF cache.mounted = layout THEN cache.pending ELSE NoLayout,
                     mounted |-> layout]
        /\ view' = [view EXCEPT !.shown = layout, !.revision = main.ticket.revision]
        /\ Goto("idle")
    BY <1>2 DEF Take
  <2>2. /\ lease.record = "active" /\ lease.permitted \in {None, g}
        /\ lease.tickets[g] = main.ticket
    BY <1>2 DEF TicketStands, Active
  <2>3. /\ main.ticket \in [revision : 1..MaxLayouts, width : Widths]
        /\ main.ticket.revision \in 0..MaxLayouts
        /\ layout \in Layouts /\ layout # NoLayout /\ layout.generation = g
    <3>1. main.ticket \in Specs
      BY DEF IInv, Typed, MainRecords
    <3>2. main.ticket \in [revision : 1..MaxLayouts, width : Widths]
      BY <1>1, <3>1 DEF Specs
    <3>3. g # None /\ main.ticket.revision \in 0..MaxLayouts
      BY <1>1, <3>2, LeaseAssumption DEF LeaseBounds
    <3>. QED
      BY <1>1, <3>2, <3>3 DEF Layouts
  <2> HIDE DEF layout
  <2>4. /\ main' \in MainRecords /\ main'.step = "idle" /\ main'.generation = g
    BY <2>1, MainMoves DEF MainSteps
  <2>5. /\ cache' \in CacheRecords /\ cache'.mounted = layout
        /\ cache'.pending \in {cache.pending, NoLayout}
    BY <2>1, <2>3 DEF IInv, Typed, TypeOK, CacheRecords, Layouts
  <2>6. /\ view' \in ViewRecords /\ view'.state = "mounted" /\ view'.generation = g
        /\ view'.shown = layout /\ view'.revision = main.ticket.revision
    BY <1>1, <2>1, <2>3 DEF IInv, Typed, TypeOK, ViewRecords
  <2>7. Typed'
    BY <1>1, <2>4, <2>5, <2>6 DEF IInv, Typed, TypeOK, CacheRecords, ViewRecords
  <2>8. JobsStand'
    BY <1>1, JobsRest
  <2>9. MainStands' /\ FamilyStands' /\ Measured'
    BY <1>1, <2>4, <2>6
       DEF IInv, MainStands, FamilyStands, Measured, Mounting, Fetching, Releasing
  <2>10. SpecsGone' /\ LeasesGone' /\ PinsGone'
    BY <1>1, <2>2 DEF SpecsGone, LeasesGone, PinsGone
  <2>11. Permitted'
    BY <1>1, <2>2, <2>4, <2>5 DEF IInv, Permitted, Permitting
  <2>12. ShownStands'
    <3>1. g # None
      BY <1>1, LeaseAssumption DEF LeaseBounds
    <3>. QED
      BY <1>1, <2>2, <2>3, <2>4, <2>5, <2>6, <3>1
         DEF ShownStands, ShownIsMounted, MainSweeping
  <2>13. RevisionsGrow'
    <3>1. /\ \A h \in Generations :
                lease.specs[h].revision \in Nat /\ lease.tickets[h].revision \in Nat
          /\ lease.revision \in Nat
      BY LeaseAssumption DEF IInv, Typed, TypeOK, Specs, LeaseBounds
    <3>2. /\ lease.tickets[g] # NoSpec
          /\ lease.tickets[g].revision <= lease.specs[g].revision
          /\ lease.specs[g].revision <= lease.revision
      BY <1>1, <2>2 DEF IInv, RevisionsGrow
    <3>. QED
      BY <1>1, <2>2, <2>3, <2>6, <3>1, <3>2 DEF IInv, RevisionsGrow
  <2>. QED
    BY <2>7, <2>8, <2>9, <2>10, <2>11, <2>12, <2>13 DEF IInv
<1>3. CASE ~ (layout \in {cache.pending, cache.mounted} /\ TicketStands)
  <2>1. UNCHANGED <<cache, view>> /\ Missed
    BY <1>3 DEF Take
  <2>2. PICK s \in {"prepare", "idle"} : Goto(s)
    BY <2>1 DEF Missed
  <2>3. /\ main' \in MainRecords /\ main'.step = s /\ main'.generation = g
    BY <2>2, MainMoves DEF MainSteps, Fetching
  <2>4. MainStands' /\ JobsStand'
    BY <1>1, <2>1, <2>3, JobsRest DEF MainStands, Mounting, Fetching, Releasing
  <2>5. ~ Unmeasured /\ main'.generation # None => family.bound
    BY <2>3 DEF IInv, Measured
  <2>. QED
    BY <1>1, <2>1, <2>3, <2>4, <2>5, MainGoesOn DEF IInv, Typed, TypeOK, MainSweeping
<1>. QED
  BY <1>2, <1>3

LEMMA PrepareKeeps ==
    ASSUME IInv, Prepare
    PROVE  IInv'
<1> DEFINE g == main.generation
<1>1. /\ main.step = "prepare" /\ g \in Generations /\ Goto("idle")
      /\ UNCHANGED <<lease, cache, pins, posted, view, family, pressure>>
  BY DEF Prepare, IInv, MainStands, Fetching
<1>2. /\ main' \in MainRecords /\ main'.step = "idle" /\ main'.generation = g
  BY <1>1, MainMoves DEF MainSteps
<1>3. /\ jobs' \in [Jobs -> JobRecords] /\ jobs'[Yoga] = jobs[Yoga] /\ JobsStand'
      /\ inFlight' \in [Generations -> Workers \union {None}]
  <2>1. CASE Active(g) /\ lease.specs[g] # NoSpec /\ inFlight[g] = None
    <3> DEFINE job == [step |-> "own", kind |-> "final", generation |-> g,
                       spec |-> lease.specs[g]]
    <3>1. PICK j \in Workers : /\ jobs' = [jobs EXCEPT ![j] = job]
                               /\ inFlight' = [inFlight EXCEPT ![g] = j]
      BY <2>1 DEF Prepare
    <3>2. lease.specs[g] \in [revision : 1..MaxLayouts, width : Widths]
      BY <1>1, <2>1 DEF IInv, Typed, TypeOK, Specs
    <3>3. /\ job \in JobRecords
          /\ job.generation \in Generations /\ job.spec.width \in Widths
          /\ job.step = "own" /\ job.kind = "final"
      BY <1>1, <3>2, LeaseAssumption DEF JobRecords, JobSteps, LeaseBounds
    <3>4. j \in Jobs /\ j # Yoga
      BY YogaIsNoWorker DEF Jobs
    <3> HIDE DEF job
    <3>5. /\ jobs' \in [Jobs -> JobRecords] /\ jobs'[j] = job
          /\ \A i \in Jobs : i # j => jobs'[i] = jobs[i]
      BY <3>1, <3>3, <3>4, JobPut
    <3>6. JobsStand'
      BY <1>1, <3>3, <3>4, <3>5 DEF IInv, JobsStand, Jobs
    <3>7. inFlight' \in [Generations -> Workers \union {None}]
      BY <3>1 DEF IInv, Typed, TypeOK
    <3>. QED
      BY <3>4, <3>5, <3>6, <3>7, YogaIsNoWorker
  <2>2. CASE ~ (Active(g) /\ lease.specs[g] # NoSpec /\ inFlight[g] = None)
    <3>1. UNCHANGED <<jobs, inFlight>>
      BY <2>2 DEF Prepare
    <3>. QED
      BY <1>1, <3>1, JobsRest DEF IInv, Typed, TypeOK
  <2>. QED
    BY <2>1, <2>2
<1>4. MainStands'
  BY <1>1, <1>2 DEF IInv, MainStands, Mounting, Fetching, Releasing
<1>5. ~ Unmeasured /\ main'.generation # None => family.bound
  BY <1>2 DEF IInv, Measured
<1>. QED
  BY <1>1, <1>2, <1>3, <1>4, <1>5, MainGoesOn DEF IInv, MainSweeping

(* The posted end of a preparation.                                         *)
LEMMA PreparedKeeps ==
    ASSUME IInv, NEW g \in Generations, Prepared(g)
    PROVE  IInv'
<1>1. /\ main.step = "idle" /\ posted' \subseteq Generations
      /\ UNCHANGED <<lease, cache, pins, jobs, inFlight, view, family, pressure>>
  BY DEF Prepared, IInv, Typed, TypeOK
<1>2. /\ main' \in MainRecords
      /\ \/ main' = main
         \/ /\ view.state = "mounted" /\ view.generation = g
            /\ main'.step = "ticket" /\ main'.generation = g
  <2>1. CASE main' = main
    BY <2>1 DEF IInv, Typed
  <2>2. CASE /\ view.state = "mounted" /\ view.generation = g
             /\ main' = [Resting EXCEPT !.step = "ticket", !.generation = g]
    <3>1. NoSpec \in Specs
      BY DEF Specs
    <3>. QED
      BY <2>2, <3>1 DEF Resting, MainRecords, MainSteps, Fetching
  <2>. QED
    BY <2>1, <2>2 DEF Prepared
<1>3. MainStands' /\ JobsStand'
  BY <1>1, <1>2, JobsRest DEF IInv, MainStands, Mounting, Fetching, Releasing
<1>4. main'.step \in {"idle", "ticket"}
  BY <1>1, <1>2
<1>5. Typed'
  BY <1>1, <1>2 DEF IInv, Typed, TypeOK
<1>6. FamilyStands' /\ Measured' /\ RevisionsGrow'
  BY <1>1, <1>2 DEF IInv, FamilyStands, Measured, RevisionsGrow
<1>7. SpecsGone' /\ LeasesGone' /\ PinsGone'
  BY <1>1, <1>4 DEF IInv, SpecsGone, LeasesGone, PinsGone, MainSweeping
<1>8. Permitted' /\ ShownStands'
  BY <1>1, <1>4
     DEF IInv, Permitted, Permitting, ShownStands, ShownIsMounted, Sweeping, MainSweeping
<1>. QED
  BY <1>3, <1>5, <1>6, <1>7, <1>8 DEF IInv

LEMMA MountKeeps ==
    ASSUME IInv, Mount
    PROVE  IInv'
<1>1. /\ main.step = "idle" /\ family.commit \in Generations
      /\ view.state # "gone" /\ family.end = "none"
      /\ family' = [family EXCEPT !.commit = None]
      /\ view' = [view EXCEPT !.state = "mounted"]
      /\ UNCHANGED <<lease, cache, pins, jobs, inFlight, posted, pressure>>
  BY DEF Mount, IInv, Typed, FamilyRecords, FamilyStands
<1>2. /\ main' \in MainRecords /\ main'.step = "activate"
      /\ main'.generation = family.commit
  BY <1>1, MainBegins DEF Mount, MainSteps, Mounting
<1>3. /\ family' \in FamilyRecords /\ family'.end = "none" /\ family'.commit = None
      /\ family'.bound = family.bound
  BY <1>1 DEF IInv, Typed, FamilyRecords
<1>4. /\ view' \in ViewRecords /\ view'.state = "mounted"
      /\ view'.generation = view.generation
      /\ view'.shown = view.shown /\ view'.revision = view.revision
  BY <1>1 DEF IInv, Typed, TypeOK, ViewRecords
<1>5. Typed'
  BY <1>1, <1>2, <1>3, <1>4 DEF IInv, Typed, TypeOK, ViewRecords
<1>6. JobsStand'
  BY <1>1, JobsRest
<1>7. MainStands' /\ FamilyStands' /\ RevisionsGrow'
  BY <1>1, <1>2, <1>3, <1>4
     DEF IInv, MainStands, FamilyStands, RevisionsGrow, Mounting, Fetching, Releasing
<1>8. family.commit # None
  BY <1>1, LeaseAssumption DEF LeaseBounds
<1>9. Measured'
  BY <1>1, <1>2, <1>3, <1>4, <1>8 DEF IInv, Measured
<1>10. SpecsGone' /\ LeasesGone' /\ PinsGone'
  BY <1>1, <1>2, <1>3
     DEF IInv, SpecsGone, LeasesGone, PinsGone, MainSweeping
<1>11. Permitted' /\ ShownStands'
  BY <1>1, <1>2, <1>3, <1>4
     DEF IInv, Permitted, Permitting, ShownStands, ShownIsMounted, Sweeping, MainSweeping
<1>. QED
  BY <1>5, <1>6, <1>7, <1>9, <1>10, <1>11 DEF IInv

LEMMA RemountKeeps ==
    ASSUME IInv, Remount
    PROVE  IInv'
<1>1. /\ main.step = "idle" /\ view.state = "mounted" /\ view.generation \in Generations
      /\ UNCHANGED <<lease, cache, pins, jobs, inFlight, posted, view, family, pressure>>
  BY DEF Remount, IInv, Typed, TypeOK
<1>2. /\ main' \in MainRecords /\ main'.step = "activate"
      /\ main'.generation = view.generation
  BY <1>1, MainBegins DEF Remount, MainSteps, Mounting
<1>3. MainStands' /\ JobsStand'
  BY <1>1, <1>2, JobsRest DEF MainStands, Mounting, Fetching, Releasing
<1>4. ~ Unmeasured /\ main'.generation # None => family.bound
  BY <1>2 DEF IInv, Measured
<1>. QED
  BY <1>1, <1>2, <1>3, <1>4, MainGoesOn DEF IInv, Typed, TypeOK, MainSweeping

LEMMA UnnameKeeps ==
    ASSUME IInv, Unname
    PROVE  IInv'
<1>1. /\ main.step = "idle" /\ view.state = "mounted" /\ view.generation \in Generations
      /\ main' = [Resting EXCEPT !.step = "release", !.generation = view.generation]
      /\ UNCHANGED <<lease, cache, pins, jobs, inFlight, posted, view, family, pressure>>
  BY DEF Unname, IInv, Typed, TypeOK
<1>2. /\ main' \in MainRecords /\ main'.step = "release"
      /\ main'.generation = view.generation
  <2>1. NoSpec \in Specs
    BY DEF Specs
  <2>. QED
    BY <1>1, <2>1 DEF Resting, MainRecords, MainSteps, Releasing
<1>3. MainStands' /\ JobsStand'
  BY <1>1, <1>2, JobsRest DEF MainStands, Mounting, Fetching, Releasing
<1>4. ~ Unmeasured /\ main'.generation # None => family.bound
  BY <1>2 DEF IInv, Measured
<1>. QED
  BY <1>1, <1>2, <1>3, <1>4, MainGoesOn DEF IInv, Typed, TypeOK, MainSweeping

-----------------------------------------------------------------------------
(* The ends *)

(* The view forgets what it shows.                                          *)
LEMMA ViewForgets ==
    ASSUME IInv, Unshown
    PROVE  /\ view' \in ViewRecords /\ view'.state = view.state
           /\ view'.generation = None /\ view'.shown = NoLayout
           /\ view'.revision = 0
<1>1. NoLayout \in Layouts /\ 0 \in 0..MaxLayouts
  BY LeaseAssumption DEF Layouts, LeaseBounds
<1>. QED
  BY <1>1 DEF IInv, Typed, TypeOK, ViewRecords, Unshown

LEMMA ReleaseSpecsKeeps ==
    ASSUME IInv, ReleaseSpecs
    PROVE  IInv'
<1> DEFINE g == main.generation
<1>1. /\ main.step = "release" /\ g \in Generations
      /\ view.state = "mounted" /\ view.generation = g /\ family.end = "none"
      /\ UNCHANGED <<cache, pins, jobs, inFlight, posted, family, pressure>>
  BY DEF ReleaseSpecs, IInv, MainStands, FamilyStands, Releasing
<1>2. lease.revision \in Nat /\ NoSpec \in Specs
  BY LeaseAssumption DEF IInv, Typed, TypeOK, LeaseBounds, Specs
<1>3. CASE Active(g)
  <2>1. /\ lease' = [lease EXCEPT !.specs[g] = NoSpec, !.tickets[g] = NoSpec]
        /\ Goto("releaseLeases") /\ UNCHANGED view
    BY <1>3 DEF ReleaseSpecs
  <2>2. /\ main' \in MainRecords /\ main'.step = "releaseLeases"
        /\ main'.generation = g
    BY <2>1, MainMoves DEF MainSteps, Releasing
  <2>3. /\ lease' \in LeaseRecords
        /\ lease'.record = "active" /\ lease'.permitted = lease.permitted
        /\ lease'.revision = lease.revision
        /\ lease'.specs[g] = NoSpec /\ lease'.tickets[g] = NoSpec
        /\ \A h \in Generations \ {g} :
              lease'.specs[h] = lease.specs[h] /\ lease'.tickets[h] = lease.tickets[h]
    BY <1>1, <1>2, <1>3, <2>1 DEF IInv, Typed, TypeOK, LeaseRecords, Active
  <2>4. Typed'
    BY <1>1, <2>1, <2>2, <2>3 DEF IInv, Typed, TypeOK, LeaseRecords
  <2>5. JobsStand'
    BY <1>1, <2>3, JobsRest
  <2>6. MainStands' /\ FamilyStands' /\ Measured'
    BY <1>1, <1>3, <2>1, <2>2, <2>3
       DEF IInv, MainStands, FamilyStands, Measured, Active, Mounting, Fetching, Releasing
  <2>7. SpecsGone' /\ LeasesGone' /\ PinsGone'
    BY <2>3 DEF SpecsGone, LeasesGone, PinsGone
  <2>8. Permitted' /\ ShownStands'
    BY <1>1, <1>3, <2>1, <2>2, <2>3
       DEF IInv, Permitted, Permitting, ShownStands, ShownIsMounted, Sweeping,
           MainSweeping, Active
  <2>9. RevisionsGrow'
    BY <1>1, <1>2, <2>1, <2>3 DEF IInv, RevisionsGrow
  <2>. QED
    BY <2>4, <2>5, <2>6, <2>7, <2>8, <2>9 DEF IInv
<1>4. CASE ~ Active(g)
  <2>1. UNCHANGED lease /\ Goto("idle") /\ Unshown
    BY <1>4 DEF ReleaseSpecs
  <2>2. /\ main' \in MainRecords /\ main'.step = "idle" /\ main'.generation = g
    BY <2>1, MainMoves DEF MainSteps
  <2>3. /\ view' \in ViewRecords /\ view'.state = view.state
        /\ view'.generation = None /\ view'.shown = NoLayout /\ view'.revision = 0
    BY <2>1, ViewForgets
  <2>4. Typed'
    BY <1>1, <2>1, <2>2, <2>3 DEF IInv, Typed, TypeOK, ViewRecords
  <2>5. JobsStand'
    BY <1>1, <2>1, JobsRest
  <2>6. MainStands' /\ FamilyStands' /\ Measured'
    BY <1>1, <2>1, <2>2, <2>3
       DEF IInv, MainStands, FamilyStands, Measured, Mounting, Fetching, Releasing
  <2>7. SpecsGone' /\ LeasesGone' /\ PinsGone'
    BY <1>1, <2>1, <2>2 DEF IInv, SpecsGone, LeasesGone, PinsGone, MainSweeping
  <2>8. Permitted' /\ ShownStands'
    BY <1>1, <2>1, <2>2, <2>3
       DEF IInv, Permitted, Permitting, ShownStands, ShownIsMounted, MainSweeping
  <2>9. RevisionsGrow'
    <3>1. \A h \in Generations : view'.shown.generation # h
      BY <2>3, LeaseAssumption DEF LeaseBounds
    <3>. QED
      BY <1>2, <2>1, <2>3, <3>1 DEF IInv, RevisionsGrow
  <2>. QED
    BY <2>4, <2>5, <2>6, <2>7, <2>8, <2>9 DEF IInv
<1>. QED
  BY <1>3, <1>4

LEMMA ReleaseLeasesKeeps ==
    ASSUME IInv, ReleaseLeases
    PROVE  IInv'
<1> DEFINE g == main.generation
<1>1. /\ main.step = "releaseLeases" /\ g \in Generations /\ Goto("releasePins")
      /\ view.state = "mounted" /\ family.end = "none"
      /\ inFlight' = [inFlight EXCEPT ![g] = None]
      /\ UNCHANGED <<lease, pins, jobs, posted, view, family, pressure>>
  BY DEF ReleaseLeases, IInv, MainStands, FamilyStands, Releasing
<1>2. /\ main' \in MainRecords /\ main'.step = "releasePins"
      /\ main'.generation = g
  BY <1>1, MainMoves DEF MainSteps, Releasing
<1>3. /\ cache' \in CacheRecords
      /\ cache'.pending \in {cache.pending, NoLayout}
      /\ cache'.mounted \in {cache.mounted, NoLayout}
  BY DEF ReleaseLeases, IInv, Typed, TypeOK, CacheRecords, Layouts
<1>4. Typed'
  <2>1. inFlight' \in [Generations -> Workers \union {None}]
    BY <1>1 DEF IInv, Typed, TypeOK
  <2>. QED
    BY <1>1, <1>2, <1>3, <2>1 DEF IInv, Typed, TypeOK, CacheRecords
<1>5. JobsStand'
  BY <1>1, JobsRest
<1>6. MainStands' /\ FamilyStands' /\ Measured' /\ RevisionsGrow'
  BY <1>1, <1>2
     DEF IInv, MainStands, FamilyStands, Measured, RevisionsGrow, Mounting, Fetching,
         Releasing
<1>7. SpecsGone' /\ LeasesGone' /\ PinsGone'
  BY <1>1, <1>2, <1>3
     DEF IInv, SpecsGone, LeasesGone, PinsGone, MainSweeping
<1>8. Permitted' /\ ShownStands'
  BY <1>1, <1>2, <1>3
     DEF IInv, Permitted, Permitting, ShownStands, ShownIsMounted, MainSweeping
<1>. QED
  BY <1>4, <1>5, <1>6, <1>7, <1>8 DEF IInv

LEMMA ReleasePinsKeeps ==
    ASSUME IInv, ReleasePins
    PROVE  IInv'
<1>1. /\ main.step = "releasePins" /\ Goto("idle") /\ Unshown
      /\ pins' = pins \ {main.generation}
      /\ UNCHANGED <<lease, cache, jobs, inFlight, posted, family, pressure>>
  BY DEF ReleasePins
<1>2. /\ main' \in MainRecords /\ main'.step = "idle"
      /\ main'.generation = main.generation
  BY <1>1, MainMoves DEF MainSteps
<1>3. /\ view' \in ViewRecords /\ view'.state = view.state
      /\ view'.generation = None /\ view'.shown = NoLayout /\ view'.revision = 0
  BY <1>1, ViewForgets
<1>4. Typed'
  BY <1>1, <1>2, <1>3 DEF IInv, Typed, TypeOK, ViewRecords
<1>5. JobsStand'
  BY <1>1, JobsRest
<1>6. MainStands' /\ FamilyStands' /\ Measured'
  BY <1>1, <1>2, <1>3
     DEF IInv, MainStands, FamilyStands, Measured, Mounting, Fetching, Releasing
<1>7. SpecsGone' /\ LeasesGone' /\ PinsGone'
  BY <1>1, <1>2 DEF IInv, SpecsGone, LeasesGone, PinsGone, MainSweeping
<1>8. Permitted' /\ ShownStands'
  BY <1>1, <1>2, <1>3
     DEF IInv, Permitted, Permitting, ShownStands, ShownIsMounted, MainSweeping
<1>9. RevisionsGrow'
  <2>1. \A h \in Generations : view'.shown.generation # h
    BY <1>3, LeaseAssumption DEF LeaseBounds
  <2>2. 0 <= lease.revision
    BY LeaseAssumption DEF LeaseBounds, IInv, Typed, TypeOK
  <2>. QED
    BY <1>1, <1>3, <2>1, <2>2 DEF IInv, RevisionsGrow
<1>. QED
  BY <1>4, <1>5, <1>6, <1>7, <1>8, <1>9 DEF IInv

LEMMA DeactivateKeeps ==
    ASSUME IInv, Deactivate
    PROVE  IInv'
<1>1. /\ main.step = "off" /\ Goto("sweepSpecs")
      /\ view.state = "mounted" /\ view.generation # None /\ family.end = "none"
      /\ lease' = [lease EXCEPT !.record = "inactive"]
      /\ UNCHANGED <<cache, pins, jobs, inFlight, posted, view, family, pressure>>
  BY DEF Deactivate, IInv, MainStands, FamilyStands
<1>2. /\ main' \in MainRecords /\ main'.step = "sweepSpecs"
      /\ main'.generation = main.generation
  BY <1>1, MainMoves DEF MainSteps, MainSweeping
<1>3. /\ lease' \in LeaseRecords /\ lease'.record = "inactive"
      /\ lease'.permitted = lease.permitted /\ lease'.revision = lease.revision
      /\ lease'.specs = lease.specs /\ lease'.tickets = lease.tickets
  BY <1>1 DEF IInv, Typed, TypeOK, LeaseRecords
<1>4. Typed'
  BY <1>1, <1>2, <1>3 DEF IInv, Typed, TypeOK, LeaseRecords
<1>5. JobsStand'
  BY <1>1, <1>3, JobsRest
<1>6. MainStands' /\ FamilyStands' /\ Measured' /\ RevisionsGrow'
  BY <1>1, <1>2, <1>3
     DEF IInv, MainStands, FamilyStands, Measured, RevisionsGrow, Mounting, Fetching,
         Releasing, MainSweeping
<1>7. SpecsGone' /\ LeasesGone' /\ PinsGone'
  BY <1>2 DEF SpecsGone, LeasesGone, PinsGone, MainSweeping
<1>8. Permitted' /\ ShownStands'
  BY <1>1, <1>2, <1>3
     DEF IInv, Permitted, Permitting, ShownStands, ShownIsMounted, Sweeping
<1>. QED
  BY <1>4, <1>5, <1>6, <1>7, <1>8 DEF IInv

LEMMA NoSpecsTyped ==
    /\ NoSpecs \in [Generations -> Specs]
    /\ \A g \in Generations : NoSpecs[g] = NoSpec /\ NoSpecs[g].revision = 0
BY DEF NoSpecs, Specs

LEMMA StopSurfaceKeeps ==
    ASSUME IInv, StopSurface
    PROVE  IInv'
<1>1. /\ main.step = "idle" /\ Goto("sweepLeases")
      /\ lease' = [lease EXCEPT
                      !.record = IF lease.record = "active" THEN "inactive" ELSE lease.record,
                      !.specs = NoSpecs, !.tickets = NoSpecs]
      /\ family' = [family EXCEPT !.stopped = TRUE, !.commit = None]
      /\ UNCHANGED <<cache, pins, jobs, inFlight, posted, view, pressure>>
  BY DEF StopSurface
<1>2. /\ main' \in MainRecords /\ main'.step = "sweepLeases"
      /\ main'.generation = main.generation
  BY <1>1, MainMoves DEF MainSteps, MainSweeping
<1>3. /\ lease' \in LeaseRecords /\ lease'.record # "active"
      /\ lease'.record = "absent" <=> lease.record = "absent"
      /\ lease'.permitted = lease.permitted /\ lease'.revision = lease.revision
      /\ lease'.specs = NoSpecs /\ lease'.tickets = NoSpecs
  BY <1>1, NoSpecsTyped DEF IInv, Typed, TypeOK, LeaseRecords
<1>4. /\ family' \in FamilyRecords
      /\ family'.tree = family.tree /\ family'.bound = family.bound
      /\ family'.commit = None /\ family'.end = family.end
  BY <1>1 DEF IInv, Typed, FamilyRecords
<1>5. Typed'
  BY <1>1, <1>2, <1>3, <1>4 DEF IInv, Typed, TypeOK, LeaseRecords
<1>6. JobsStand'
  BY <1>1, <1>3, JobsRest
<1>7. MainStands' /\ FamilyStands' /\ Measured'
  BY <1>1, <1>2, <1>3, <1>4
     DEF IInv, MainStands, FamilyStands, Measured, Mounting, Fetching, Releasing
<1>8. SpecsGone' /\ LeasesGone' /\ PinsGone'
  BY <1>2, <1>3 DEF SpecsGone, LeasesGone, PinsGone, MainSweeping
<1>9. Permitted' /\ ShownStands'
  BY <1>1, <1>2, <1>3
     DEF IInv, Permitted, Permitting, ShownStands, ShownIsMounted, Sweeping
<1>10. RevisionsGrow'
  <2>1. 0 <= lease.revision
    BY LeaseAssumption DEF LeaseBounds, IInv, Typed, TypeOK
  <2>. QED
    BY <1>1, <1>3, <2>1, NoSpecsTyped DEF IInv, RevisionsGrow
<1>. QED
  BY <1>5, <1>6, <1>7, <1>8, <1>9, <1>10 DEF IInv

(* The specs and tickets of a lease are swept.                              *)
LEMMA SpecsSwept ==
    ASSUME IInv, SweepSpecs
    PROVE  /\ lease' \in LeaseRecords /\ lease'.record = lease.record
           /\ lease'.permitted = lease.permitted /\ lease'.revision = lease.revision
           /\ lease'.specs = NoSpecs /\ lease'.tickets = NoSpecs
BY NoSpecsTyped DEF IInv, Typed, TypeOK, LeaseRecords, SweepSpecs

(* The artifacts of a lease are swept.                                      *)
LEMMA LeasesSwept ==
    ASSUME SweepLeases
    PROVE  /\ cache' \in CacheRecords
           /\ cache'.pending = NoLayout /\ cache'.mounted = NoLayout
           /\ inFlight' \in [Generations -> Workers \union {None}]
BY DEF SweepLeases, CacheRecords, Layouts

(* With nothing specified any more, revisions stand.                        *)
LEMMA RevisionsStand ==
    ASSUME IInv, lease'.specs = NoSpecs, lease'.tickets = NoSpecs,
           lease'.revision = lease.revision, UNCHANGED view
    PROVE  RevisionsGrow'
<1>1. 0 <= lease.revision
  BY LeaseAssumption DEF LeaseBounds, IInv, Typed, TypeOK
<1>. QED
  BY <1>1, NoSpecsTyped DEF IInv, RevisionsGrow

LEMMA MainSweepKeeps ==
    ASSUME IInv, MainSweep
    PROVE  IInv'
<1>1. MainSweeps /\ UNCHANGED <<jobs, posted, family, pressure>>
  BY DEF MainSweep
<1>2. CASE /\ main.step = "sweepSpecs" /\ SweepSpecs /\ Goto("sweepLeases")
           /\ UNCHANGED <<cache, pins, inFlight, view>>
  <2>1. /\ main' \in MainRecords /\ main'.step = "sweepLeases"
        /\ main'.generation = main.generation
    BY <1>2, MainMoves DEF MainSteps, MainSweeping
  <2>2. /\ lease' \in LeaseRecords /\ lease'.record = lease.record
        /\ lease'.permitted = lease.permitted /\ lease'.revision = lease.revision
        /\ lease'.specs = NoSpecs /\ lease'.tickets = NoSpecs
    BY <1>2, SpecsSwept
  <2>3. Typed'
    BY <1>1, <1>2, <2>1, <2>2 DEF IInv, Typed, TypeOK, LeaseRecords
  <2>4. JobsStand' /\ RevisionsGrow'
    BY <1>1, <1>2, <2>2, JobsRest, RevisionsStand
  <2>5. MainStands' /\ FamilyStands' /\ Measured'
    BY <1>1, <1>2, <2>1, <2>2
       DEF IInv, MainStands, FamilyStands, Measured, Mounting, Fetching, Releasing
  <2>6. SpecsGone' /\ LeasesGone' /\ PinsGone'
    BY <2>1, <2>2 DEF SpecsGone, LeasesGone, PinsGone, MainSweeping
  <2>7. Permitted'
    BY <1>2, <2>1, <2>2, NoSpecsTyped DEF IInv, Permitted, Permitting
  <2>8. ShownStands'
    BY <1>2, <2>1, <2>2
       DEF IInv, ShownStands, ShownIsMounted, Sweeping, MainSweeping
  <2>. QED
    BY <2>3, <2>4, <2>5, <2>6, <2>7, <2>8 DEF IInv
<1>3. CASE /\ main.step = "sweepLeases" /\ SweepLeases /\ Goto("sweepPins")
           /\ UNCHANGED <<lease, pins, view>>
  <2>1. /\ main' \in MainRecords /\ main'.step = "sweepPins"
        /\ main'.generation = main.generation
    BY <1>3, MainMoves DEF MainSteps, MainSweeping
  <2>2. /\ cache' \in CacheRecords
        /\ cache'.pending = NoLayout /\ cache'.mounted = NoLayout
        /\ inFlight' \in [Generations -> Workers \union {None}]
    BY <1>3, LeasesSwept
  <2>3. Typed'
    BY <1>1, <1>3, <2>1, <2>2 DEF IInv, Typed, TypeOK, CacheRecords
  <2>4. JobsStand'
    BY <1>1, <1>3, JobsRest
  <2>5. MainStands' /\ FamilyStands' /\ Measured' /\ RevisionsGrow'
    BY <1>1, <1>3, <2>1
       DEF IInv, MainStands, FamilyStands, Measured, RevisionsGrow, Mounting, Fetching,
           Releasing
  <2>6. SpecsGone' /\ LeasesGone' /\ PinsGone'
    BY <1>1, <1>3, <2>1, <2>2
       DEF IInv, SpecsGone, LeasesGone, PinsGone, MainSweeping
  <2>7. Permitted' /\ ShownStands'
    BY <1>3, <2>1, <2>2
       DEF IInv, Permitted, Permitting, ShownStands, ShownIsMounted, Sweeping,
           MainSweeping
  <2>. QED
    BY <2>3, <2>4, <2>5, <2>6, <2>7 DEF IInv
<1>4. CASE /\ main.step = "sweepPins" /\ pins' = {}
           /\ IF lease.record = "inactive" \/ view.generation = None
              THEN /\ view' = [state |-> IF view.state = "none" THEN "none" ELSE "gone",
                               generation |-> None, shown |-> NoLayout, revision |-> 0]
                   /\ Goto("idle")
              ELSE UNCHANGED view /\ Goto("off")
           /\ UNCHANGED <<lease, cache, inFlight>>
  <2>1. /\ main' \in MainRecords /\ main'.step \in {"idle", "off"}
        /\ main'.generation = main.generation
        /\ main'.step = "off" => view.generation # None /\ UNCHANGED view
    <3>1. CASE Goto("idle")
      BY <3>1, MainMoves DEF MainSteps
    <3>2. CASE Goto("off") /\ view.generation # None /\ UNCHANGED view
      BY <3>2, MainMoves DEF MainSteps
    <3>. QED
      BY <1>4, <3>1, <3>2
  <2>2. /\ view' \in ViewRecords
        /\ view'.state \in {"none", "gone", view.state}
        /\ view'.generation \in {None, view.generation}
        /\ view'.shown = NoLayout /\ view'.revision = 0
    <3>1. CASE lease.record = "inactive" \/ view.generation = None
      <4>1. view' = [state |-> IF view.state = "none" THEN "none" ELSE "gone",
                     generation |-> None, shown |-> NoLayout, revision |-> 0]
        BY <1>4, <3>1
      <4>2. NoLayout \in Layouts /\ 0 \in 0..MaxLayouts
        BY LeaseAssumption DEF Layouts, LeaseBounds
      <4>. QED
        BY <4>1, <4>2 DEF ViewRecords
    <3>2. CASE ~ (lease.record = "inactive" \/ view.generation = None)
      <4>1. UNCHANGED view
        BY <1>4, <3>2
      <4>2. view.shown = NoLayout
        BY <1>4, <3>2 DEF IInv, Typed, TypeOK, ShownStands, MainSweeping
      <4>3. view.revision = 0
        BY <4>2 DEF IInv, RevisionsGrow
      <4>. QED
        BY <4>1, <4>2, <4>3 DEF IInv, Typed, TypeOK, ViewRecords
    <3>. QED
      BY <3>1, <3>2
  <2>3. Typed'
    BY <1>1, <1>4, <2>1, <2>2 DEF IInv, Typed, TypeOK, ViewRecords
  <2>4. JobsStand'
    BY <1>1, <1>4, JobsRest
  <2>5. MainStands' /\ FamilyStands' /\ Measured'
    BY <1>1, <1>4, <2>1, <2>2
       DEF IInv, MainStands, FamilyStands, Measured, Mounting, Fetching, Releasing
  <2>6. SpecsGone' /\ LeasesGone' /\ PinsGone'
    BY <1>1, <1>4, <2>1
       DEF IInv, SpecsGone, LeasesGone, PinsGone, MainSweeping
  <2>7. Permitted' /\ ShownStands'
    BY <1>4, <2>1, <2>2
       DEF IInv, Permitted, Permitting, ShownStands, ShownIsMounted, MainSweeping
  <2>8. RevisionsGrow'
    <3>1. \A h \in Generations : view'.shown.generation # h
      BY <2>2, LeaseAssumption DEF LeaseBounds
    <3>2. 0 <= lease.revision
      BY LeaseAssumption DEF LeaseBounds, IInv, Typed, TypeOK
    <3>. QED
      BY <1>4, <2>2, <3>1, <3>2 DEF IInv, RevisionsGrow
  <2>. QED
    BY <2>3, <2>4, <2>5, <2>6, <2>7, <2>8 DEF IInv
<1>. QED
  BY <1>1, <1>2, <1>3, <1>4 DEF MainSweeps

(* React removes the component.                                             *)
LEMMA RemoveKeeps ==
    ASSUME IInv, Remove
    PROVE  IInv'
<1>1. /\ family' = [family EXCEPT !.tree = FALSE]
      /\ UNCHANGED <<lease, cache, pins, jobs, inFlight, posted, main, view, pressure>>
  BY DEF Remove
<1>2. /\ family' \in FamilyRecords /\ family'.tree = FALSE
      /\ family'.bound = family.bound
      /\ family'.commit = family.commit /\ family'.end = family.end
  BY <1>1 DEF IInv, Typed, FamilyRecords
<1>3. Typed'
  BY <1>1, <1>2 DEF IInv, Typed, TypeOK
<1>4. JobsStand' /\ FamilyStands' /\ Measured'
  BY <1>1, <1>2, JobsRest DEF IInv, FamilyStands, Measured
<1>. QED
  BY <1>1, <1>2, <1>3, <1>4, OthersRest DEF IInv

LEMMA DropKeeps ==
    ASSUME IInv, Drop
    PROVE  IInv'
<1>1. /\ main.step = "idle" /\ view.state = "mounted" /\ family.end = "none"
      /\ family' = [family EXCEPT !.commit = None]
      /\ UNCHANGED <<lease, cache, pins, jobs, inFlight, posted, pressure>>
  BY DEF Drop, IInv, FamilyStands
<1>2. /\ family' \in FamilyRecords /\ family'.tree = family.tree
      /\ family'.bound = family.bound
      /\ family'.commit = None /\ family'.end = family.end
  BY <1>1 DEF IInv, Typed, FamilyRecords
<1>3. /\ view' \in ViewRecords /\ view'.generation = view.generation
      /\ view'.shown = view.shown /\ view'.revision = view.revision
      /\ main' \in MainRecords /\ main'.generation = main.generation
      /\ \/ main'.step = "idle" /\ view.generation = None
         \/ main'.step = "off" /\ view'.state = "mounted" /\ view.generation # None
  <2>1. CASE view.generation = None
    <3>1. view' = [view EXCEPT !.state = "gone"] /\ UNCHANGED main
      BY <2>1 DEF Drop
    <3>. QED
      BY <1>1, <2>1, <3>1 DEF IInv, Typed, TypeOK, ViewRecords
  <2>2. CASE view.generation # None
    <3>1. UNCHANGED view /\ Goto("off")
      BY <2>2 DEF Drop
    <3>2. /\ main' \in MainRecords /\ main'.step = "off"
          /\ main'.generation = main.generation
      BY <3>1, MainMoves DEF MainSteps
    <3>. QED
      BY <1>1, <2>2, <3>1, <3>2 DEF IInv, Typed, TypeOK, ViewRecords
  <2>. QED
    BY <2>1, <2>2
<1>4. Typed'
  BY <1>1, <1>2, <1>3 DEF IInv, Typed, TypeOK, ViewRecords
<1>5. JobsStand'
  BY <1>1, JobsRest
<1>6. MainStands' /\ FamilyStands' /\ Measured' /\ RevisionsGrow'
  BY <1>1, <1>2, <1>3
     DEF IInv, MainStands, FamilyStands, Measured, RevisionsGrow, Mounting, Fetching,
         Releasing
<1>7. SpecsGone' /\ LeasesGone' /\ PinsGone'
  BY <1>1, <1>2, <1>3 DEF IInv, SpecsGone, LeasesGone, PinsGone, MainSweeping
<1>8. Permitted' /\ ShownStands'
  BY <1>1, <1>2, <1>3
     DEF IInv, Permitted, Permitting, ShownStands, ShownIsMounted, Sweeping, MainSweeping
<1>. QED
  BY <1>4, <1>5, <1>6, <1>7, <1>8 DEF IInv

-----------------------------------------------------------------------------
(* The family's destructor, and memory *)

(* A view that is not mounted shows nothing.                                *)
LEMMA NothingShown ==
    ASSUME IInv, view.state # "mounted"
    PROVE  view.shown = NoLayout
BY DEF IInv, ShownStands

LEMMA FinalizeKeeps ==
    ASSUME IInv, Finalize
    PROVE  IInv'
<1>1. /\ family.end = "none" /\ ~ family.tree
      /\ view.state # "mounted" /\ jobs[Yoga].step = "idle"
      /\ UNCHANGED <<cache, pins, jobs, inFlight, posted, main, view, pressure>>
  BY DEF Finalize
<1>2. main.step \notin Mounting \union Fetching \union Releasing \union {"off"}
  BY <1>1 DEF IInv, MainStands
<1>3. view.shown = NoLayout
  BY <1>1, NothingShown
<1>4. JobsStand' /\ MainStands'
  <2>1. lease'.revision = lease.revision
    BY DEF Finalize, IInv, Typed, TypeOK
  <2>. QED
    BY <1>1, <2>1, JobsRest DEF IInv, MainStands
<1>5. CASE family.bound
  <2>1. /\ lease' = [lease EXCEPT !.record = "absent", !.permitted = None]
        /\ family' = [family EXCEPT !.commit = None, !.end = "specs"]
    BY <1>5 DEF Finalize
  <2>2. /\ lease' \in LeaseRecords /\ lease'.record = "absent"
        /\ lease'.permitted = None /\ lease'.revision = lease.revision
        /\ lease'.specs = lease.specs /\ lease'.tickets = lease.tickets
    BY <2>1 DEF IInv, Typed, TypeOK, LeaseRecords
  <2>3. /\ family' \in FamilyRecords /\ family'.tree = family.tree
        /\ family'.bound = family.bound
        /\ family'.commit = None /\ family'.end = "specs"
    BY <2>1 DEF IInv, Typed, FamilyRecords
  <2>4. Typed'
    BY <1>1, <2>2, <2>3 DEF IInv, Typed, TypeOK, LeaseRecords
  <2>5. FamilyStands' /\ Measured' /\ RevisionsGrow'
    BY <1>1, <1>5, <2>2, <2>3 DEF IInv, FamilyStands, Measured, RevisionsGrow
  <2>6. SpecsGone' /\ LeasesGone' /\ PinsGone'
    BY <2>3 DEF SpecsGone, LeasesGone, PinsGone
  <2>7. Permitted' /\ ShownStands'
    BY <1>1, <1>2, <1>3, <2>2
       DEF Permitted, Permitting, ShownStands, ShownIsMounted, Mounting
  <2>. QED
    BY <1>4, <2>4, <2>5, <2>6, <2>7 DEF IInv
<1>6. CASE ~ family.bound
  <2>1. /\ family' = [family EXCEPT !.commit = None, !.end = "ended"] /\ UNCHANGED lease
    BY <1>6 DEF Finalize
  <2>2. /\ family' \in FamilyRecords /\ family'.tree = family.tree
        /\ family'.bound = family.bound
        /\ family'.commit = None /\ family'.end = "ended"
    BY <2>1 DEF IInv, Typed, FamilyRecords
  <2>3. lease.record # "active"
    BY <1>6 DEF IInv, FamilyStands
  <2>4. Typed'
    BY <1>1, <2>1, <2>2 DEF IInv, Typed, TypeOK
  <2>5. FamilyStands' /\ Measured' /\ RevisionsGrow'
    BY <1>1, <1>6, <2>1, <2>2, <2>3 DEF IInv, FamilyStands, Measured, RevisionsGrow
  <2>6. SpecsGone' /\ LeasesGone' /\ PinsGone'
    BY <1>1, <2>1, <2>2 DEF IInv, SpecsGone, LeasesGone, PinsGone
  <2>7. Permitted' /\ ShownStands'
    BY <1>1, <1>2, <1>3, <2>1, <2>3
       DEF Permitted, Permitting, ShownStands, ShownIsMounted, Mounting
  <2>. QED
    BY <1>4, <2>4, <2>5, <2>6, <2>7 DEF IInv
<1>. QED
  BY <1>5, <1>6

LEMMA FinalSweepKeeps ==
    ASSUME IInv, FinalSweep
    PROVE  IInv'
<1>1. UNCHANGED <<jobs, posted, main, view, pressure>>
  BY DEF FinalSweep
<1>2. PICK end \in {"leases", "pins", "ended"} :
        /\ FamilyEnds(end)
        /\ \/ /\ family.end = "specs" /\ SweepSpecs /\ end = "leases"
              /\ UNCHANGED <<cache, pins, inFlight>>
           \/ /\ family.end = "leases" /\ SweepLeases /\ end = "pins"
              /\ UNCHANGED <<lease, pins>>
           \/ /\ family.end = "pins" /\ pins' = {} /\ end = "ended"
              /\ UNCHANGED <<lease, cache, inFlight>>
  BY DEF FinalSweep
<1>3. /\ family.end # "none" /\ lease.record # "active" /\ view.state # "mounted"
      /\ family.commit = None
  BY <1>2 DEF IInv, FamilyStands
<1>4. /\ family' \in FamilyRecords /\ family'.tree = family.tree
      /\ family'.bound = family.bound
      /\ family'.commit = family.commit /\ family'.end = end
  BY <1>2 DEF IInv, Typed, FamilyRecords, FamilyEnds
<1>5. main.step \notin Mounting /\ view.shown = NoLayout
  BY <1>3, NothingShown DEF IInv, MainStands
<1>6. /\ lease' \in LeaseRecords /\ lease'.record = lease.record
      /\ lease'.permitted = lease.permitted /\ lease'.revision = lease.revision
      /\ \/ lease'.specs = NoSpecs /\ lease'.tickets = NoSpecs
         \/ lease'.specs = lease.specs /\ lease'.tickets = lease.tickets
  BY <1>2, SpecsSwept DEF IInv, Typed, TypeOK, LeaseRecords
<1>7. /\ cache' \in CacheRecords /\ pins' \subseteq Generations
      /\ inFlight' \in [Generations -> Workers \union {None}]
  BY <1>2, LeasesSwept DEF IInv, Typed, TypeOK, CacheRecords
<1>8. Typed'
  BY <1>1, <1>4, <1>6, <1>7 DEF IInv, Typed, TypeOK, LeaseRecords, CacheRecords
<1>9. JobsStand' /\ MainStands'
  BY <1>1, <1>6, JobsRest DEF IInv, MainStands
<1>10. FamilyStands' /\ Measured'
  BY <1>1, <1>3, <1>4, <1>6 DEF IInv, FamilyStands, Measured
<1>11. Permitted' /\ ShownStands'
  BY <1>1, <1>3, <1>5, <1>6
     DEF Permitted, Permitting, ShownStands, ShownIsMounted, Mounting
<1>12. RevisionsGrow'
  <2>1. CASE lease'.specs = NoSpecs /\ lease'.tickets = NoSpecs
    BY <1>1, <1>6, <2>1, RevisionsStand
  <2>2. CASE lease'.specs = lease.specs /\ lease'.tickets = lease.tickets
    BY <1>1, <1>6, <2>2 DEF IInv, RevisionsGrow
  <2>. QED
    BY <1>6, <2>1, <2>2
<1>13. SpecsGone'
  <2>1. CASE SweepSpecs
    BY <2>1, SpecsSwept DEF SpecsGone
  <2>2. CASE family.end # "specs" /\ UNCHANGED lease
    BY <1>1, <2>2 DEF IInv, SpecsGone
  <2>. QED
    BY <1>2, <2>1, <2>2
<1>14. LeasesGone'
  <2>1. CASE end = "leases"
    BY <1>4, <2>1 DEF LeasesGone
  <2>2. CASE SweepLeases
    BY <2>2, LeasesSwept DEF LeasesGone
  <2>3. CASE family.end = "pins" /\ UNCHANGED <<lease, cache>>
    BY <1>1, <2>3 DEF IInv, LeasesGone
  <2>. QED
    BY <1>2, <2>1, <2>2, <2>3
<1>15. PinsGone'
  BY <1>2, <1>4 DEF PinsGone
<1>. QED
  BY <1>8, <1>9, <1>10, <1>11, <1>12, <1>13, <1>14, <1>15 DEF IInv

LEMMA PressureKeeps ==
    ASSUME IInv, Pressure
    PROVE  IInv'
<1>1. /\ pressure < MaxPressure /\ pressure' = pressure + 1
      /\ cache' = [cache EXCEPT !.pending = NoLayout] /\ pins' \in {pins, {}}
      /\ UNCHANGED <<lease, jobs, inFlight, posted, main, view, family>>
  BY DEF Pressure
<1>2. /\ cache' \in CacheRecords /\ cache'.pending = NoLayout
      /\ cache'.mounted = cache.mounted
  BY <1>1 DEF IInv, Typed, TypeOK, CacheRecords, Layouts
<1>3. pressure' \in 0..MaxPressure
  BY <1>1, LeaseAssumption DEF IInv, Typed, TypeOK, LeaseBounds
<1>4. Typed'
  BY <1>1, <1>2, <1>3 DEF IInv, Typed, TypeOK, CacheRecords
<1>5. JobsStand' /\ MainStands' /\ FamilyStands' /\ Measured' /\ RevisionsGrow'
  BY <1>1, JobsRest DEF IInv, MainStands, FamilyStands, Measured, RevisionsGrow
<1>6. SpecsGone' /\ LeasesGone' /\ PinsGone'
  BY <1>1, <1>2 DEF IInv, SpecsGone, LeasesGone, PinsGone
<1>7. Permitted' /\ ShownStands'
  BY <1>1, <1>2
     DEF IInv, Permitted, Permitting, ShownStands, ShownIsMounted, Sweeping
<1>. QED
  BY <1>4, <1>5, <1>6, <1>7 DEF IInv

-----------------------------------------------------------------------------

LEMMA InitIInv == Init => IInv
<1> SUFFICES ASSUME Init PROVE IInv
  OBVIOUS
<1>1. NoSpec \in Specs /\ NoLayout \in Layouts
  BY DEF Specs, Layouts
<1>2. 0 \in 0..MaxLayouts /\ 0 \in 0..MaxPressure
  BY LeaseAssumption DEF LeaseBounds
<1>3. lease = [record |-> "absent", permitted |-> None, revision |-> 0,
               specs |-> NoSpecs, tickets |-> NoSpecs]
  BY DEF Init, NoSpecs
<1>4. Typed
  <2>1. Resting \in MainRecords
    BY <1>1 DEF Resting, MainRecords, MainSteps
  <2>2. jobs \in [Jobs -> JobRecords] /\ main \in MainRecords
    BY <2>1, IdleTyped DEF Init, Jobs
  <2>3. family \in FamilyRecords
    BY DEF Init, FamilyRecords
  <2>4. TypeOK
    <3>1. /\ lease.record = "absent" /\ lease \in LeaseRecords
      BY <1>2, <1>3, NoSpecsTyped DEF LeaseRecords
    <3>2. cache \in CacheRecords /\ view \in ViewRecords
      BY <1>1, <1>2 DEF Init, CacheRecords, ViewRecords
    <3>3. inFlight \in [Generations -> Workers \union {None}]
      BY DEF Init
    <3>4. pins \subseteq Generations /\ posted \subseteq Generations
          /\ pressure \in 0..MaxPressure
      BY <1>2 DEF Init
    <3>. QED
      BY <3>1, <3>2, <3>3, <3>4 DEF TypeOK, LeaseRecords, CacheRecords, ViewRecords
  <2>. QED
    BY <2>2, <2>3, <2>4 DEF Typed
<1>5. JobsStand
  BY DEF Init, JobsStand, Idle, Jobs
<1>6. main.step = "idle" /\ main.generation = None
  BY DEF Init, Resting
<1>7. MainStands
  BY <1>6 DEF Init, MainStands, Mounting, Fetching, Releasing
<1>8. FamilyStands /\ Measured
  BY <1>6 DEF Init, FamilyStands, Measured, Idle
<1>9. SpecsGone /\ LeasesGone /\ PinsGone
  BY <1>3 DEF Init, SpecsGone, LeasesGone, PinsGone
<1>10. Permitted /\ ShownStands
  BY <1>3, <1>6 DEF Init, Permitted, Permitting, ShownStands, ShownIsMounted
<1>11. RevisionsGrow
  <2>1. /\ lease.revision = 0 /\ view.revision = 0
        /\ \A g \in Generations : lease.specs[g] = NoSpec /\ lease.tickets[g] = NoSpec
    BY <1>3, NoSpecsTyped DEF Init
  <2>. QED
    BY <2>1 DEF RevisionsGrow
<1>. QED
  BY <1>4, <1>5, <1>7, <1>8, <1>9, <1>10, <1>11 DEF IInv

LEMMA JobStepKeeps ==
    ASSUME IInv, JobStep
    PROVE  IInv'
<1>1. CASE \E w \in Widths : Issue(w)
  BY <1>1, IssueKeeps
<1>2. ASSUME NEW j \in Workers \union {Yoga},
             Own(j) \/ Pin(j) \/ Build(j) \/ TakeLease(j) \/ PublishTicket(j)
      PROVE  IInv'
  BY <1>2, OwnKeeps, PinKeeps, BuildKeeps, TakeLeaseKeeps, PublishTicketKeeps DEF Jobs
<1>3. ASSUME NEW j \in Workers, Report(j) \/ Complete(j)
      PROVE  IInv'
  BY <1>3, ReportKeeps, CompleteKeeps
<1>. QED
  BY <1>1, <1>2, <1>3 DEF JobStep

LEMMA MainStepKeeps ==
    ASSUME IInv, MainStep
    PROVE  IInv'
<1>1. CASE Activate \/ Unpin \/ Supersede \/ Adopt
  BY <1>1, ActivateKeeps, UnpinKeeps, SupersedeKeeps, AdoptKeeps
<1>2. CASE ReadTicket \/ Take \/ Prepare \/ (\E g \in Generations : Prepared(g))
  BY <1>2, ReadTicketKeeps, TakeKeeps, PrepareKeeps, PreparedKeeps
<1>3. CASE ReleaseSpecs \/ ReleaseLeases \/ ReleasePins \/ Deactivate \/ MainSweep
  BY <1>3, ReleaseSpecsKeeps, ReleaseLeasesKeeps, ReleasePinsKeeps, DeactivateKeeps,
     MainSweepKeeps
<1>. QED
  BY <1>1, <1>2, <1>3 DEF MainStep

LEMMA StutterKeeps ==
    ASSUME IInv, UNCHANGED vars
    PROVE  IInv'
<1>1. UNCHANGED <<lease, cache, pins, jobs, inFlight, posted, main, view, family, pressure>>
  BY DEF vars
<1>2. Typed'
  BY <1>1 DEF IInv, Typed, TypeOK
<1>3. JobsStand' /\ FamilyStands' /\ Measured'
  BY <1>1 DEF IInv, JobsStand, FamilyStands, Measured
<1>. QED
  BY <1>1, <1>2, <1>3, OthersRest DEF IInv

LEMMA StepIInv == IInv /\ [Next]_vars => IInv'
<1> SUFFICES ASSUME IInv, [Next]_vars PROVE IInv'
  OBVIOUS
<1>1. CASE \E g \in Generations, kind \in {"probe", "final", "collapsed"}, w \in Widths :
              Begin(g, kind, w)
  BY <1>1, BeginKeeps
<1>2. CASE \E g \in Generations : BeginUnmeasured(g)
  BY <1>2, BeginUnmeasuredKeeps
<1>3. CASE JobStep
  BY <1>3, JobStepKeeps
<1>4. CASE MainStep
  BY <1>4, MainStepKeeps
<1>5. CASE Mount \/ Remount \/ Unname
  BY <1>5, MountKeeps, RemountKeeps, UnnameKeeps
<1>6. CASE Remove \/ Drop \/ StopSurface
  BY <1>6, RemoveKeeps, DropKeeps, StopSurfaceKeeps
<1>7. CASE Finalize \/ FinalSweep \/ Pressure
  BY <1>7, FinalizeKeeps, FinalSweepKeeps, PressureKeeps
<1>8. CASE UNCHANGED vars
  BY <1>8, StutterKeeps
<1>. QED
  BY <1>1, <1>2, <1>3, <1>4, <1>5, <1>6, <1>7, <1>8 DEF Next

LEMMA Invariant == Spec => []IInv
BY InitIInv, StepIInv, PTL DEF Spec

-----------------------------------------------------------------------------

(* FabricKept: whatever the layout thread, the workers and the main thread *)
(* interleave, and whoever ends the view, its surface and its family, a    *)
(* lease that ended keeps nothing once it is swept, an active one keeps    *)
(* nothing of other generations than the mounted one, what is shown is     *)
(* counted as mounted, and a family that was bound leaves no record.       *)
THEOREM FabricIsKept == Spec => []FabricKept
<1>1. IInv => TypeOK
  BY DEF IInv, Typed
<1>2. IInv => SweptForGood
  BY DEF IInv, SpecsGone, LeasesGone, PinsGone, SweptForGood, Sweeping, MainSweeping
<1>3. IInv => OnlyPermittedKept
  BY DEF IInv, Permitted, Permitting, OnlyPermittedKept
<1>4. IInv => ShownIsMounted
  BY DEF IInv, ShownStands
<1>5. IInv => NoTombstones
  BY DEF IInv, FamilyStands, NoTombstones
<1>6. IInv => FabricKept
  BY <1>1, <1>2, <1>3, <1>4, <1>5 DEF FabricKept
<1>. QED
  BY <1>6, Invariant, PTL

(* finalizeFabricLease, deactivateFabricFamily: where every view that is   *)
(* mounted was measured, no family that ended has a record, which would be *)
(* kept with its token for good.                                           *)
THEOREM MeasuredLeaveNoRecord ==
    ~ Unmeasured => (Spec => [](family.end = "ended" => lease.record = "absent"))
<1> SUFFICES ASSUME ~ Unmeasured
             PROVE  Spec => [](family.end = "ended" => lease.record = "absent")
  OBVIOUS
<1>1. IInv => (family.end = "ended" => lease.record = "absent")
  BY DEF IInv, Measured
<1>. QED
  BY <1>1, Invariant, PTL

(* Only a binding makes a lease active, and only one that has no record.   *)
LEMMA OnlyBindingRevives ==
    ASSUME IInv, Next
    PROVE  \/ lease'.record # "active"
           \/ lease.record = "active"
           \/ lease.record = "absent" /\ family.tree
<1>1. lease \in LeaseRecords
  BY DEF IInv, Typed, TypeOK, LeaseRecords
<1>2. CASE \E g \in Generations, kind \in {"probe", "final", "collapsed"}, w \in Widths :
              Begin(g, kind, w)
  BY <1>1, <1>2 DEF Begin, Bound, LeaseRecords
<1>3. CASE JobStep
  <2>1. CASE \E w \in Widths : Issue(w)
    BY <1>1, <2>1 DEF Issue, LeaseRecords
  <2>2. ASSUME NEW j \in Jobs, PublishTicket(j)
        PROVE  lease'.record = lease.record
    BY <1>1, <2>2 DEF PublishTicket, LeaseRecords
  <2>3. ASSUME NEW j \in Jobs, Own(j) \/ Pin(j) \/ Build(j) \/ TakeLease(j)
        PROVE  lease'.record = lease.record
    BY <2>3 DEF Own, Pin, Build, TakeLease
  <2>4. ASSUME NEW j \in Workers, Report(j) \/ Complete(j)
        PROVE  lease'.record = lease.record
    BY <2>4 DEF Report, Complete
  <2>. QED
    BY <1>3, <2>1, <2>2, <2>3, <2>4 DEF JobStep, Jobs
<1>4. CASE MainStep
  <2>1. CASE Activate
    BY <1>1, <2>1 DEF Activate, LeaseRecords
  <2>2. CASE ReleaseSpecs
    BY <1>1, <2>2 DEF ReleaseSpecs, LeaseRecords
  <2>3. CASE Deactivate
    BY <1>1, <2>3 DEF Deactivate, LeaseRecords
  <2>4. CASE MainSweep
    BY <1>1, <2>4 DEF MainSweep, MainSweeps, SweepSpecs, LeaseRecords
  <2>5. CASE Unpin \/ Supersede \/ Adopt \/ ReadTicket \/ Take \/ Prepare
    BY <2>5 DEF Unpin, Supersede, Adopt, ReadTicket, Take, Prepare
  <2>6. CASE ReleaseLeases \/ ReleasePins \/ (\E g \in Generations : Prepared(g))
    BY <2>6 DEF ReleaseLeases, ReleasePins, Prepared
  <2>. QED
    BY <1>4, <2>1, <2>2, <2>3, <2>4, <2>5, <2>6 DEF MainStep
<1>5. CASE (\E g \in Generations : BeginUnmeasured(g)) \/ Mount \/ Remount \/ Unname
  BY <1>5 DEF BeginUnmeasured, Mount, Remount, Unname
<1>6. CASE Remove \/ Drop \/ Pressure
  BY <1>6 DEF Remove, Drop, Pressure
<1>7. CASE StopSurface \/ Finalize \/ FinalSweep
  BY <1>1, <1>7 DEF StopSurface, Finalize, FinalSweep, SweepSpecs, LeaseRecords
<1>. QED
  BY <1>2, <1>3, <1>4, <1>5, <1>6, <1>7 DEF Next

LEMMA DeadStays == IInv /\ [Next]_vars => [DeadStep]_vars
<1> SUFFICES ASSUME IInv, Next, lease.record = "inactive" \/ family.end # "none"
             PROVE  lease'.record # "active"
  BY DEF DeadStep
<1>1. lease.record # "active"
  BY DEF IInv, FamilyStands
<1>2. ~ (lease.record = "absent" /\ family.tree)
  BY DEF IInv, FamilyStands
<1>. QED
  BY <1>1, <1>2, OnlyBindingRevives

(* Only taking an artifact changes the revision shown, or forgetting it.   *)
LEMMA OnlyTakingAdvances ==
    ASSUME IInv, Next
    PROVE  \/ view'.revision = view.revision
           \/ view'.shown = NoLayout /\ view'.revision = 0
           \/ Take
<1>1. view \in ViewRecords
  BY DEF IInv, Typed, TypeOK, ViewRecords
<1>2. CASE \E g \in Generations, kind \in {"probe", "final", "collapsed"}, w \in Widths :
              Begin(g, kind, w)
  BY <1>2 DEF Begin
<1>3. CASE JobStep
  <2>1. CASE \E w \in Widths : Issue(w)
    BY <2>1 DEF Issue
  <2>2. ASSUME NEW j \in Jobs,
               Own(j) \/ Pin(j) \/ Build(j) \/ TakeLease(j) \/ PublishTicket(j)
        PROVE  view' = view
    BY <2>2 DEF Own, Pin, Build, TakeLease, PublishTicket
  <2>3. ASSUME NEW j \in Workers, Report(j) \/ Complete(j)
        PROVE  view' = view
    BY <2>3 DEF Report, Complete
  <2>. QED
    BY <1>3, <2>1, <2>2, <2>3 DEF JobStep, Jobs
<1>4. CASE MainStep
  <2>1. CASE Activate \/ Unpin \/ Supersede \/ ReadTicket \/ Prepare
    BY <2>1 DEF Activate, Unpin, Supersede, ReadTicket, Prepare
  <2>2. CASE Adopt
    BY <1>1, <2>2 DEF Adopt, ViewRecords
  <2>3. CASE ReleaseSpecs \/ ReleasePins
    <3>1. UNCHANGED view \/ Unshown
      BY <2>3 DEF ReleaseSpecs, ReleasePins
    <3>. QED
      BY <3>1, ViewForgets
  <2>4. CASE ReleaseLeases \/ Deactivate \/ (\E g \in Generations : Prepared(g))
    BY <2>4 DEF ReleaseLeases, Deactivate, Prepared
  <2>5. CASE MainSweep
    BY <2>5 DEF MainSweep, MainSweeps
  <2>. QED
    BY <1>4, <2>1, <2>2, <2>3, <2>4, <2>5 DEF MainStep
<1>5. CASE Mount \/ Drop
  BY <1>1, <1>5 DEF Mount, Drop, ViewRecords
<1>6. CASE (\E g \in Generations : BeginUnmeasured(g)) \/ Remount \/ Unname \/ Remove
  BY <1>6 DEF BeginUnmeasured, Remount, Unname, Remove
<1>7. CASE StopSurface \/ Finalize \/ FinalSweep \/ Pressure
  BY <1>7 DEF StopSurface, Finalize, FinalSweep, Pressure
<1>. QED
  BY <1>2, <1>3, <1>4, <1>5, <1>6, <1>7 DEF Next

LEMMA GeometryAdvances == IInv /\ [Next]_vars => [AdvancingStep]_vars
<1> SUFFICES ASSUME IInv, Next, view.shown.generation = view'.shown.generation
             PROVE  view'.revision >= view.revision
  BY DEF AdvancingStep
<1>1. view \in ViewRecords /\ view.revision \in Nat
  BY LeaseAssumption DEF IInv, Typed, TypeOK, ViewRecords, LeaseBounds
<1>2. CASE view'.revision = view.revision
  BY <1>1, <1>2
<1>3. CASE view'.shown = NoLayout /\ view'.revision = 0
  <2>1. view.shown = NoLayout
    BY <1>1, <1>3, LeaseAssumption DEF ViewRecords, Layouts, LeaseBounds
  <2>2. view.revision = 0
    BY <2>1 DEF IInv, RevisionsGrow
  <2>. QED
    BY <1>3, <2>2
<1>4. CASE Take /\ view' # view
  <2> DEFINE g == main.generation
  <2>1. /\ g \in Generations /\ main.ticket # NoSpec /\ lease.tickets[g] = main.ticket
        /\ view' = [view EXCEPT !.shown = [generation |-> g, width |-> main.ticket.width],
                                !.revision = main.ticket.revision]
    BY <1>4 DEF Take, TicketStands, IInv, MainStands, Fetching
  <2>2. view'.shown.generation = g /\ view'.revision = main.ticket.revision
    BY <1>1, <2>1 DEF ViewRecords
  <2>3. lease.tickets[g] \in Specs
    BY <2>1 DEF IInv, Typed, TypeOK
  <2>4. main.ticket.revision \in Nat
    BY <2>1, <2>3, LeaseAssumption DEF Specs, LeaseBounds
  <2>5. view.revision <= lease.tickets[g].revision
    BY <2>1, <2>2 DEF IInv, RevisionsGrow
  <2>. QED
    BY <1>1, <2>1, <2>2, <2>4, <2>5
<1>. QED
  BY <1>2, <1>3, <1>4, OnlyTakingAdvances

(* NoWayBack: what the view shows of a generation is never replaced by the *)
(* geometry of an older final layout of it, whichever of the layout        *)
(* thread's and the workers' artifacts the ticket finds; and no step makes *)
(* the lease of a family active again that was deactivated or finalized, a *)
(* late binding by a measurement included.                                 *)
THEOREM FabricHasNoWayBack == Spec => NoWayBack
<1>1. IInv /\ [Next]_vars => [AdvancingStep /\ DeadStep]_vars
  BY DeadStays, GeometryAdvances
<1>. QED
  BY <1>1, Invariant, PTL DEF Spec, NoWayBack

=============================================================================
