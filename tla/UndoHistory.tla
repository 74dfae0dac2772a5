----------------------------- MODULE UndoHistory ----------------------------
(***************************************************************************)
(* Undo and redo of the document engine (yrs_engine/history.rs,            *)
(* engine/undo_redo.rs).                                                   *)
(*                                                                         *)
(* The engine keeps the manager's stacks, and beside them a ledger: the    *)
(* document as it was when the epoch began, and every change accepted      *)
(* since.  To undo, it replays the ledger into a candidate, compares the   *)
(* candidate's document with its own, pops the candidate's stack, and puts *)
(* the candidate in its own place.  When the ledger or the stacks reach a  *)
(* limit, the epoch rolls: the stacks are emptied and the ledger begins    *)
(* again.                                                                  *)
(*                                                                         *)
(* Bytes are left out of the limits; groups, units and the number of       *)
(* events are kept.                                                        *)
(***************************************************************************)
EXTENDS HistoryOps

CONSTANTS
    MaxGroups,       \* maxUndoGroups
    MaxUnits,        \* maxUndoRetainedUnits
    EventsPerGroup,  \* EVENTS_PER_GROUP of event_ceiling
    Weights,         \* bound of the model: units of an excluded update
    Manners,         \* bound of the model: how edits follow one another
    Boxes,           \* bound of the model: whether containers are made
    Skips,           \* bound of the model: whether edits are kept out of undo
    MaxItems         \* bound of the model: items ever made

VARIABLES
    live,            \* the history, with the document it is bound to
    baseline,        \* epoch_baseline
    events,          \* replay_events
    units,           \* replay_work_units
    rebase,          \* rebase_before_next_event
    local,           \* the items made by this editor
    drained,         \* the stacks drained since the history was last replayed
    answer           \* what the last call of undo or redo answered

vars == <<live, baseline, events, units, rebase, local, drained, answer>>

Actions == {"Undo", "Redo"}

NoAnswer == "None"

Answers == {"Changed", "Undo", "Redo", NoAnswer}

HistoryAssumption ==
    /\ MaxGroups \in Nat \ {0}
    /\ MaxUnits \in Nat \ {0}
    /\ EventsPerGroup \in Nat \ {0}
    /\ Weights \subseteq Nat \ {0}
    /\ Manners \subseteq {"typed", "paused", "boundary"}
    /\ Boxes \in BOOLEAN
    /\ Skips \in BOOLEAN
    /\ MaxItems \in Nat

EventCeiling == EventsPerGroup * MaxGroups

Init ==
    /\ live = FreshHistory(EmptyDoc)
    /\ baseline = EmptyDoc
    /\ events = <<>>
    /\ units = 0
    /\ rebase = FALSE
    /\ local = {}
    /\ drained = {}
    /\ answer = NoAnswer

-----------------------------------------------------------------------------
(* The ledger.                                                             *)

(* The links of copies are not part of an encoded document.                *)
Encoded(doc) == [doc EXCEPT !.link = [i \in Ids(doc) |-> NoLink]]

CanUndo(history) == history.undo # <<>>

CanRedo(history) == history.redo # <<>>

(* An excluded update in the history: the stacks are left alone, but for   *)
(* groups a peer's removal has made useless.                               *)
Exclude(history, update, remote) ==
    LET doc  == Apply(history.doc, update)
        next == [history EXCEPT !.doc = doc]
    IN  IF remote /\ Removed(history.doc, doc) # {} THEN DropUnrevertible(next) ELSE next

(* replay_into, one event.                                                 *)
ReplayEvent(history, event) ==
    CASE event.kind = "Recorded" -> Capture(history, event.edit)
      [] event.kind = "Excluded" -> Exclude(history, event.update, event.remote)
      [] event.kind = "Action" -> Perform(history, event.action)
      [] event.kind = "Boundary" -> ForceBoundary(history)

(* seed_candidate and replay_into.                                         *)
Candidate == FoldLeft(ReplayEvent, FreshHistory(Encoded(baseline)), events)

(* roll_epoch: the ledger begins again with the document given.            *)
RollWith(doc, first, weight, pending) ==
    /\ baseline' = doc
    /\ events' = first
    /\ units' = weight
    /\ rebase' = pending
    /\ drained' = {}

Roll(doc) == RollWith(doc, <<>>, 0, FALSE)

Keep(event, weight) ==
    /\ events' = Append(events, event)
    /\ units' = units + weight
    /\ UNCHANGED <<baseline, rebase>>

(* A mutation: a pending rebase is forgotten.                              *)
EventWouldRollUnrebased(weight) ==
    units + weight > MaxUnits \/ Len(events) + 1 > EventCeiling

(* replay_event_would_roll.                                                *)
EventWouldRoll(weight) ==
    \/ rebase
    \/ units + weight > MaxUnits
    \/ Len(events) + 1 > EventCeiling

GroupUnits(group) == Cardinality(group.ins) + Cardinality(group.del)

StackUnits(stack) == FoldLeft(LAMBDA sum, group : sum + GroupUnits(group), 0, stack)

(* capture_would_roll.                                                     *)
CaptureWouldRoll(edit, weight) ==
    \/ StackUnits(live.undo) + weight > MaxUnits
    \/ Len(live.undo) + (IF Compatible(live, edit) THEN 0 ELSE 1) > MaxGroups

-----------------------------------------------------------------------------
(* Edits.                                                                  *)

Parents(boxes) == {Root} \union boxes

(* What may be inserted under the parents given.                           *)
Insertions(parents) ==
    {[parent |-> p, box |-> FALSE, made |-> TRUE] : p \in parents}
        \union {[parent |-> Root, box |-> Boxes, made |-> TRUE]}

(* Updates that change the document: an insertion, or a removal, or text   *)
(* put in the place of what is removed.                                    *)
Updates(boxes) ==
    LET text == [NoInsertion EXCEPT !.made = TRUE]
    IN  [ins : Insertions(Parents(boxes)), del : {{}}]
            \union {[ins |-> new, del |-> {i}] : new \in {NoInsertion, text}, i \in Live(live.doc)}

LocalUpdates == Updates(live.doc.boxes \ live.doc.gone)

HasRoom(doc) == Len(doc.label) <= MaxItems

ClassOf(update) ==
    IF update.del = {} THEN "Insert" ELSE IF update.ins.made THEN "Structural" ELSE "Delete"

(* An edit is typed right after another, or later, or ends a group.        *)
Edits ==
    {[update |-> u, class |-> ClassOf(u), soon |-> m = "typed",
      policy |-> IF m = "boundary" THEN "Boundary" ELSE "Auto"] :
        u \in LocalUpdates, m \in Manners}

Weight(doc, update) ==
    Cardinality(Made(doc, Apply(doc, update))) + Cardinality(Removed(doc, Apply(doc, update)))

(* pre_admit_recorded, begin_prepared_recorded, the write, finish_capture. *)
Record ==
    \E edit \in Edits :
        LET weight == Weight(live.doc, edit.update)
            rolls  == CaptureWouldRoll(edit, weight) \/ EventWouldRoll(weight)
            next   == Capture(IF rolls THEN ClearStacks(live) ELSE live, edit)
            event  == [kind |-> "Recorded", edit |-> edit]
        IN  /\ weight <= MaxUnits
            /\ HasRoom(next.doc)
            /\ live' = next
            /\ local' = local \union Made(live.doc, next.doc)
            /\ IF rolls
               THEN RollWith(live.doc, <<event>>, weight, FALSE)
               ELSE Keep(event, weight) /\ UNCHANGED drained
            /\ answer' = NoAnswer

(* finish_prepared_excluded, after the write.                              *)
Admit(update, remote, weight, invalidates) ==
    LET next  == [live EXCEPT !.doc = Apply(@, update)]
        event == [kind |-> "Excluded", update |-> update, remote |-> remote]
    IN  IF invalidates
        THEN live' = ClearStacks(next) /\ RollWith(baseline, <<>>, 0, TRUE)
        ELSE IF EventWouldRoll(weight)
        THEN live' = ClearStacks(next) /\ RollWith(live.doc, <<event>>, weight, FALSE)
        ELSE /\ live' = Exclude(live, update, remote)
             /\ Keep(event, weight)
             /\ UNCHANGED drained

(* An edit of this editor that is not to be undone.                        *)
Skip ==
    /\ Skips
    /\ \E update \in LocalUpdates, weight \in Weights :
            /\ HasRoom(Apply(live.doc, update))
            /\ Admit(update, FALSE, weight, weight > MaxUnits)
            /\ local' = local \union Made(live.doc, live'.doc)
            /\ answer' = NoAnswer

(* commit_prepared_remote_update: a peer may write into a container that   *)
(* is gone here.                                                           *)
Remote ==
    \E update \in Updates(live.doc.boxes), weight \in Weights :
        /\ HasRoom(Apply(live.doc, update))
        /\ Admit(update, TRUE, weight, weight > MaxUnits \/ rebase)
        /\ UNCHANGED local
        /\ answer' = NoAnswer

(* commit_boundary: a command that changed the selection or the marks.     *)
Boundary ==
    /\ IF Len(events) + 1 >= EventCeiling
       THEN Roll(live.doc) /\ live' = ClearStacks(live)
       ELSE Keep([kind |-> "Boundary"], 0) /\ live' = ForceBoundary(live) /\ UNCHANGED drained
    /\ UNCHANGED local
    /\ answer' = NoAnswer

(* reset_history_binding: a snapshot, or a content that replaces all.      *)
Rebind ==
    LET doc == [live.doc EXCEPT !.gone = Ids(live.doc)]
    IN  /\ live' = FreshHistory(doc)
        /\ Roll(doc)
        /\ UNCHANGED local
        /\ answer' = NoAnswer

-----------------------------------------------------------------------------
(* apply_history_pop.                                                      *)

(* verify_replayed_candidate_matches_live.                                 *)
Agrees(candidate) == Encoded(candidate.doc) = Encoded(live.doc)

(* accept_action, and the candidate in the place of the history.           *)
Accept(next, action) ==
    /\ HasRoom(next.doc)
    /\ local' = local \union Made(live.doc, next.doc)
    /\ answer' = "Changed"
    /\ IF Len(events) + 1 >= EventCeiling
       THEN Roll(next.doc) /\ live' = ClearStacks(next)
       ELSE /\ Keep([kind |-> "Action", action |-> action], 0)
            /\ live' = next
            /\ drained' = {}

Emptied(history, action) == [WithActing(history, action, <<>>) EXCEPT !.reset = TRUE]

(* HistoryPopPreparation::Drained and Unavailable: the ledger is kept.     *)
Drain(stack, action) ==
    /\ IF stack = Acting(live, action)
       THEN live' = Emptied(live, action) /\ drained' = drained \union {action}
       ELSE UNCHANGED <<live, drained>>
    /\ answer' = action
    /\ UNCHANGED <<baseline, events, units, rebase, local>>

(* A candidate that disagrees is an invariant error, which changes nothing. *)
PopFrom(candidate, action) ==
    /\ Agrees(candidate)
    /\ IF Actionable(candidate, action) # {}
       THEN Accept(Perform(candidate, action), action)
       ELSE /\ Acting(candidate, action) # <<>>
            /\ Drain(Acting(candidate, action), action)

Pop(action) ==
    /\ Acting(live, action) # <<>>
    /\ PopFrom(Candidate, action)

Undo == Pop("Undo")

Redo == Pop("Redo")

Next ==
    \/ Record
    \/ Skip
    \/ Remote
    \/ Boundary
    \/ Rebind
    \/ Undo
    \/ Redo

Spec == Init /\ [][Next]_vars

-----------------------------------------------------------------------------

Docs ==
    [label : Seq(1..MaxItems), parent : Seq(0..MaxItems), boxes : SUBSET (1..MaxItems),
     gone : SUBSET (1..MaxItems), link : Seq(0..MaxItems)]

Groups == [ins : SUBSET (1..MaxItems), del : SUBSET (1..MaxItems)]

(* Every variable keeps its type.                                          *)
TypeOK ==
    /\ live.doc \in Docs
    /\ live.undo \in Seq(Groups)
    /\ live.redo \in Seq(Groups)
    /\ baseline \in Docs
    /\ Len(events) <= EventCeiling
    /\ units \in 0..MaxUnits
    /\ rebase \in BOOLEAN
    /\ local \subseteq 1..MaxItems
    /\ drained \subseteq Actions
    /\ answer \in Answers

(* While there is something to undo or redo, the ledger replays to the     *)
(* document as it is: undo never fails because the candidate disagrees     *)
(* with the live store.  And the candidate has the groups the live stacks  *)
(* have, unless a stack was drained: what undo reverts is what the user    *)
(* was told is next.                                                       *)
Reproduces(candidate) ==
    /\ CanUndo(live) \/ CanRedo(live) => Agrees(candidate)
    /\ drained = {} => candidate.undo = live.undo /\ candidate.redo = live.redo

ReplayReproduces == Reproduces(Candidate)

(* Undo and redo never take away what a peer has made.                     *)
PeersKeepTheirContent ==
    [][answer' = "Changed" =>
        (Live(live.doc) \ local) \subseteq Live(live'.doc)]_vars

(* Redo brings back what undo took, and undo what redo brought, when       *)
(* nothing comes between.                                                  *)
RoundTrip ==
    \A action \in Actions :
        Actionable(live, action) # {} =>
            LET there == Perform(live, action)
                back  == Opposite(action)
            IN  Actionable(there, back) # {} /\ Content(there.doc) # Content(live.doc) =>
                    Content(Perform(there, back).doc) = Content(live.doc)

(* What a group removed has not been restored by another.                  *)
NothingRestoredTwice ==
    \A action \in Actions : \A n \in 1..Len(Acting(live, action)) :
        \A i \in ToRestore(Acting(live, action)[n]) : live.doc.link[i] = NoLink

(* The stacks stay within the limits.                                      *)
WithinLimits ==
    /\ Len(live.undo) + Len(live.redo) <= MaxGroups
    /\ StackUnits(live.undo) <= MaxUnits

(* As the tests say, a stack drained of what cannot be reverted does not   *)
(* report an available undo.                                               *)
DrainedIsEmpty ==
    answer \in Actions => Acting(live, answer) = <<>>

=============================================================================
