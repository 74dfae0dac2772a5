----------------------------- MODULE HistoryOps -----------------------------
(***************************************************************************)
(* The undo manager over a document, as functions on records               *)
(* (yrs_engine/history, and the undo manager of the vendored yrs).         *)
(*                                                                         *)
(* A document is made of items, numbered in the order they were made: text *)
(* of the root, containers, and text inside a container.  An item is never *)
(* forgotten, only marked as gone, and one that is restored comes back as  *)
(* a copy, to which the original keeps a link.  Where an item stands among *)
(* its siblings is left out.                                               *)
(*                                                                         *)
(* A history is a document with the two stacks of the manager, and with    *)
(* what decides whether the next edit joins the latest group.              *)
(***************************************************************************)
EXTENDS Naturals, FiniteSets, SequencesExt

NoLink == 0

Root == 0

Ids(doc) == 1..Len(doc.label)

Live(doc) == Ids(doc) \ doc.gone

(* What a reader sees: an item and its copies are the same content.        *)
Content(doc) == {doc.label[i] : i \in Live(doc)}

Children(doc, box) == {i \in Ids(doc) : doc.parent[i] = box}

EmptyDoc ==
    [label |-> <<>>, parent |-> <<>>, boxes |-> {}, gone |-> {}, link |-> <<>>]

(* follow_redone: the last copy of an item.                                *)
Follow(doc, id) ==
    LET last[i \in Ids(doc)] == IF doc.link[i] = NoLink THEN i ELSE last[doc.link[i]]
    IN  last[id]

(* Deleting a container deletes what is in it.                             *)
Closure(doc, ids) ==
    LET live == ids \ doc.gone
    IN  live \union {i \in Live(doc) : doc.parent[i] \in live}

Delete(doc, ids) == [doc EXCEPT !.gone = @ \union Closure(doc, ids)]

(* An item put under a parent that is gone is gone at once.                *)
Insert(doc, label, parent, box) ==
    LET id == Len(doc.label) + 1
    IN  [label  |-> Append(doc.label, label),
         parent |-> Append(doc.parent, parent),
         boxes  |-> IF box THEN doc.boxes \union {id} ELSE doc.boxes,
         gone   |-> IF parent \in doc.gone THEN doc.gone \union {id} ELSE doc.gone,
         link   |-> Append(doc.link, NoLink)]

(* One update: at most one item made, and items deleted with what they     *)
(* hold.                                                                   *)
NoInsertion == [parent |-> Root, box |-> FALSE, made |-> FALSE]

Apply(doc, update) ==
    LET next == Delete(doc, update.del)
        new  == update.ins
    IN  IF new.made THEN Insert(next, Len(doc.label) + 1, new.parent, new.box) ELSE next

Made(before, after) == Ids(after) \ Ids(before)

Removed(before, after) == after.gone \ before.gone

-----------------------------------------------------------------------------
(* The manager.                                                            *)

NoClass == "none"

GroupingClasses == {"Insert", "Delete"}

FreshHistory(doc) ==
    [doc |-> doc, undo |-> <<>>, redo |-> <<>>, chains |-> {},
     last |-> NoClass, boundary |-> FALSE, reset |-> TRUE]

(* capture_is_compatible: typing goes on, within the capture timeout.      *)
Compatible(history, edit) ==
    /\ edit.policy = "Auto"
    /\ ~history.boundary
    /\ edit.class \in GroupingClasses
    /\ history.last = edit.class
    /\ edit.soon

(* begin_capture, the write and the manager's handler of the transaction,  *)
(* finish_capture: a new group or the latest one grows; redo is forgotten. *)
Capture(history, edit) ==
    LET doc   == Apply(history.doc, edit.update)
        made  == Made(history.doc, doc)
        gone  == Removed(history.doc, doc)
        joins == Compatible(history, edit) /\ ~history.reset /\ history.undo # <<>>
        group == IF joins
                 THEN [ins |-> Last(history.undo).ins \union made,
                       del |-> Last(history.undo).del \union gone]
                 ELSE [ins |-> made, del |-> gone]
    IN  [history EXCEPT
            !.doc = doc,
            !.undo = Append(IF joins THEN Front(@) ELSE @, group),
            !.redo = <<>>,
            !.last = edit.class,
            !.boundary = edit.policy = "Boundary",
            !.reset = edit.policy = "Boundary"]

(* force_next_capture_boundary.                                            *)
ForceBoundary(history) == [history EXCEPT !.boundary = TRUE, !.reset = TRUE]

ResetGrouping(history) == [history EXCEPT !.last = NoClass, !.boundary = FALSE]

ClearStacks(history) ==
    [ResetGrouping(history) EXCEPT !.undo = <<>>, !.redo = <<>>, !.reset = TRUE]

-----------------------------------------------------------------------------
(* What reverting a group would do.                                        *)

(* deletion_candidates: what the group made, or its last copies.           *)
Targets(doc, group) == {Follow(doc, i) : i \in group.ins} \ doc.gone

(* A mutation: a container is reverted whatever it holds by now.           *)
ProtectedNever(doc, group) == {}

(* protected_container_ids: containers that would still hold something.    *)
Protected(doc, group) ==
    {b \in Targets(doc, group) \intersect doc.boxes :
        (Children(doc, b) \ doc.gone) \ Targets(doc, group) # {}}

(* exclude_protected_containers.                                           *)
Filtered(doc, group) ==
    [group EXCEPT !.ins = {i \in @ : Follow(doc, i) \notin Protected(doc, group)}]

ToRestore(group) == group.del \ group.ins

(* Item::redo refuses where the parent is gone and will not come back.     *)
Restorable(doc, group, id) ==
    LET parent == doc.parent[id]
    IN  \/ doc.link[id] # NoLink
        \/ parent = Root
        \/ parent \notin doc.gone
        \/ doc.link[parent] # NoLink
        \/ parent \in ToRestore(group)

(* Item::redo: a copy under the parent, or under the parent's last copy.   *)
Restore(doc, id) ==
    LET parent == doc.parent[id]
        under  == IF parent \in doc.gone THEN Follow(doc, parent) ELSE parent
        copied == Insert(doc, doc.label[id], under, id \in doc.boxes)
    IN  IF doc.link[id] # NoLink THEN doc
        ELSE [copied EXCEPT !.link[id] = Len(copied.label)]

(* try_process: restore, in the order of the ids, then delete.             *)
Revert(doc, group) ==
    LET restored == {i \in ToRestore(group) : Restorable(doc, group, i)}
    IN  Delete(FoldLeft(Restore, doc, SetToSortSeq(restored, <)), Targets(doc, group))

RevertsSomething(doc, group) ==
    \/ Targets(doc, group) # {}
    \/ \E i \in ToRestore(group) : Restorable(doc, group, i)

-----------------------------------------------------------------------------
(* Dropping what can no longer be reverted.                                *)

(* redo_can_restore, for containers that are not nested.                   *)
RedoCanRestore(doc, group, id) ==
    LET parent == doc.parent[Follow(doc, id)]
    IN  \/ parent = Root
        \/ parent \notin doc.gone
        \/ Follow(doc, parent) # parent /\ Follow(doc, parent) \notin doc.gone
        \/ parent \in group.del /\ parent \notin group.ins

Unrevertible(history, group) ==
    /\ \A chain \in history.chains :
            chain.originals \intersect (group.ins \union group.del) = {}
    /\ group.ins \subseteq history.doc.gone
    /\ ~\E i \in ToRestore(group) : RedoCanRestore(history.doc, group, i)

DropTops(history, stack) ==
    LET kept == {n \in 1..Len(stack) : ~Unrevertible(history, stack[n])}
    IN  SubSeq(stack, 1, IF kept = {} THEN 0 ELSE Max(kept))

(* drop_unrevertible_stack_tops: either stack gets a new manager.          *)
DropUnrevertible(history) ==
    LET undo == DropTops(history, history.undo)
        redo == DropTops(history, history.redo)
    IN  [history EXCEPT
            !.undo = undo,
            !.redo = redo,
            !.reset = @ \/ undo # history.undo \/ redo # history.redo]

-----------------------------------------------------------------------------
(* YrsHistory::perform.                                                    *)

Acting(history, action) == IF action = "Undo" THEN history.undo ELSE history.redo

WithActing(history, action, stack) ==
    IF action = "Undo" THEN [history EXCEPT !.undo = stack] ELSE [history EXCEPT !.redo = stack]

Opposite(action) == IF action = "Undo" THEN "Redo" ELSE "Undo"

(* The groups of a stack that would change the document.                   *)
Actionable(history, action) ==
    {n \in 1..Len(Acting(history, action)) :
        RevertsSomething(history.doc, Filtered(history.doc, Acting(history, action)[n]))}

(* What a reversal made and removed.                                       *)
Reversal(before, after) == [ins |-> Made(before, after), del |-> Removed(before, after)]

Below(stack, n) == SubSeq(stack, 1, n - 1)

(* Groups above the one that is reverted are dropped; what reverting it    *)
(* made and removed becomes a group of the other stack, unless it only     *)
(* made copies under a container that is gone.                             *)
Credited(stack, change) ==
    IF change.ins = change.del THEN stack ELSE Append(stack, change)

(* RedoneChain: the copies that came back for what the group removed.      *)
Chained(chains, group, stack) ==
    IF group.del = {} \/ stack = <<>> \/ Last(stack).ins = {} THEN chains
    ELSE chains \union {[originals |-> group.del, copies |-> Last(stack).ins]}

Popped(history, action, n, group, doc) ==
    LET other == Credited(Acting(history, Opposite(action)), Reversal(history.doc, doc))
    IN  [WithActing(WithActing(history, action, Below(Acting(history, action), n)),
                    Opposite(action), other)
            EXCEPT !.doc = doc, !.chains = Chained(@, group, other), !.reset = TRUE]

PerformGroup(history, action, n, group) ==
    DropUnrevertible(
        ResetGrouping(Popped(history, action, n, group, Revert(history.doc, group))))

PerformAt(history, action, n) ==
    PerformGroup(history, action, n, Filtered(history.doc, Acting(history, action)[n]))

Perform(history, action) == PerformAt(history, action, Max(Actionable(history, action)))

=============================================================================
