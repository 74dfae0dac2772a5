---------------------------- MODULE PositionEpochs --------------------------
(***************************************************************************)
(* Position epochs: every native view pins the positions of the document   *)
(* it shows (session/native.rs, position_epoch.rs), and an intent it sends *)
(* later is resolved from them, whatever was typed, split, joined or       *)
(* received meanwhile.  Snapshots are shared by reference counting; an     *)
(* older one is updated in place when nothing else holds it, and          *)
(* otherwise copied.                                                       *)
(*                                                                         *)
(* The identity of an Arc is its place in `heap'; an Option is a set with  *)
(* at most one element.  `pinned' is history: what each owner was shown.   *)
(***************************************************************************)
EXTENDS EpochSnapshots
LOCAL INSTANCE SequencesExt
LOCAL INSTANCE FiniteSetsExt

CONSTANTS
    Owners,          \* the native views
    InitialText,     \* the number of characters of each paragraph at first
    MaxRevision,     \* bound of the model: edits of the document
    MaxBlocks,       \* bound of the model: paragraphs alive
    MaxOwners,       \* max_owners
    MaxBoundaries,   \* max_boundaries
    MaxRetained,     \* max_retained_bytes, in boundaries
    MaxEpochId,      \* the largest epoch id (u64::MAX)
    LogCapacity      \* DOCUMENT_CHANGE_SCOPE_LOG_CAPACITY

EpochAssumption ==
    /\ IsFiniteSet(Owners)
    /\ InitialText \in Seq(Nat) /\ InitialText # <<>>
    /\ MaxEpochId \in Nat \ {0} /\ LogCapacity \in Nat \ {0}

VARIABLES
    doc,         \* the paragraphs, tombstones included
    revision,    \* the revision of the engine
    lineage,     \* the client id of the engine's document
    log,         \* change_scopes
    heap,        \* the snapshots alive
    latest,      \* latest_epoch_snapshot
    epochs,      \* epochs and owner_pins of the store, by owner
    retained,    \* retained_bytes of the store
    nextEpoch,   \* next_epoch_id
    pinned       \* history: the positions each owner was shown

document == <<doc, revision, lineage, log>>
store == <<heap, latest, epochs, retained, nextEpoch, pinned>>
vars == <<doc, revision, lineage, log, heap, latest, epochs, retained, nextEpoch, pinned>>

Arcs == 1..Cardinality(Owners) + 1

Used == {item.id : item \in UNION {{doc[b]} \union Range(doc[b].text) : b \in DOMAIN doc}}

FreshIds(n) == [i \in 1..n |-> Max(Used \union {Root}) + i]

Item(id) == [id |-> id, live |-> TRUE]

NewBlock(id, items) == [id |-> id, live |-> TRUE, text |-> items]

Init ==
    LET Before(b) == MapThenSumSet(LAMBDA c : InitialText[c] + 1, 1..b - 1)
    IN  /\ doc = [b \in DOMAIN InitialText |->
                    NewBlock(Before(b) + 1,
                             [i \in 1..InitialText[b] |-> Item(Before(b) + 1 + i)])]
        /\ revision = 0
        /\ lineage = 0
        /\ log = <<>>
        /\ heap = [a \in {} |-> 0]
        /\ latest = {}
        /\ epochs = [o \in Owners |-> {}]
        /\ retained = 0
        /\ nextEpoch = 1
        /\ pinned = [o \in Owners |-> {}]

-----------------------------------------------------------------------------
(***************************************************************************)
(* Edits.  Each commits one revision and logs its scope.                   *)
(***************************************************************************)

(* Where an item alive stands among the items of the CRDT.                 *)
PlaceOf(items, index) ==
    IF index = 0 THEN 0
    ELSE CHOOSE i \in DOMAIN items :
            /\ items[i].live
            /\ Len(Live(SubSeq(items, 1, i))) = index

InsertAfter(items, index, new) ==
    LET at == PlaceOf(items, index)
    IN  SubSeq(items, 1, at) \o new \o SubSeq(items, at + 1, Len(items))

Buried(items, from) ==
    [i \in DOMAIN items |->
        [items[i] EXCEPT !.live = @ /\ Len(Live(SubSeq(items, 1, i))) < from]]

(* The edits of the document that stay within one paragraph or change some *)
(* of them: the new document and the scope of the edit.                    *)
Edit(newDoc, scope) == [doc |-> newDoc, scope |-> scope]

Typed ==
    {LET at == PlaceOf(doc, b)
     IN  Edit([doc EXCEPT ![at].text = InsertAfter(@, i, <<Item(FreshIds(1)[1])>>)],
              Textblock(b)) :
        <<b, i>> \in {<<b, i>> \in (1..Len(Blocks(doc))) \X (0..Cardinality(Used)) :
                        i <= Len(Text(Blocks(doc)[b]))}}

Deleted ==
    {LET at == PlaceOf(doc, b)
     IN  Edit([doc EXCEPT ![at].text[PlaceOf(doc[at].text, i)].live = FALSE], Textblock(b)) :
        <<b, i>> \in {<<b, i>> \in (1..Len(Blocks(doc))) \X (1..Cardinality(Used)) :
                        i <= Len(Text(Blocks(doc)[b]))}}

(* A split moves the rest of a paragraph to a new one, as copies.          *)
Split ==
    {LET count == Len(Blocks(doc))
         at == PlaceOf(doc, b)
         moved == Len(Text(doc[at])) - i
         ids == FreshIds(moved + 1)
     IN  Edit(SubSeq(doc, 1, at - 1)
              \o <<[doc[at] EXCEPT !.text = Buried(@, i + 1)],
                   NewBlock(ids[1], [k \in 1..moved |-> Item(ids[k + 1])])>>
              \o SubSeq(doc, at + 1, Len(doc)),
              RootWindow(b, b + 1, b + 2, count, count + 1)) :
        <<b, i>> \in {<<b, i>> \in (1..Len(Blocks(doc))) \X (0..Cardinality(Used)) :
                        i <= Len(Text(Blocks(doc)[b])) /\ Len(Blocks(doc)) < MaxBlocks}}

(* A join copies a paragraph to the end of the one before it.              *)
Joined ==
    {LET count == Len(Blocks(doc))
         left == PlaceOf(doc, b)
         right == PlaceOf(doc, b + 1)
         moved == Len(Text(doc[right]))
         ids == FreshIds(moved)
     IN  Edit([doc EXCEPT
                 ![left].text = InsertAfter(@, Len(Text(doc[left])),
                                            [k \in 1..moved |-> Item(ids[k])]),
                 ![right].live = FALSE],
              RootWindow(b, b + 2, b + 1, count, count - 1)) :
        b \in 1..Len(Blocks(doc)) - 1}

(* A whole paragraph is deleted.                                           *)
Removed ==
    {LET count == Len(Blocks(doc))
     IN  Edit([doc EXCEPT ![PlaceOf(doc, b)].live = FALSE],
              RootWindow(b, b + 1, b, count, count - 1)) :
        b \in {b \in 1..Len(Blocks(doc)) : Len(Blocks(doc)) > 1}}

RecordDocumentChange(scope) ==
    log' = Append(IF Len(log) = LogCapacity THEN Tail(log) ELSE log,
                  [revision |-> revision + 1, scope |-> scope])

Commit(newDoc, scope) ==
    /\ revision < MaxRevision
    /\ doc' = newDoc
    /\ revision' = revision + 1
    /\ RecordDocumentChange(scope)

(* Typing, splitting and joining on this device.                           *)
LocalEdit ==
    /\ \E edit \in Typed \union Deleted \union Split \union Joined \union Removed :
          Commit(edit.doc, edit.scope)
    /\ UNCHANGED lineage
    /\ UNCHANGED store

(* A remote update, an undo or a redo: the same changes, of unknown scope. *)
ForeignEdit ==
    /\ \E edit \in Typed \union Deleted \union Split \union Joined \union Removed :
          Commit(edit.doc, DocumentScope)
    /\ UNCHANGED lineage
    /\ UNCHANGED store

(* An import replaces the document under a new client id.                  *)
NewDocument ==
    LET ids == FreshIds(2) IN <<NewBlock(ids[1], <<Item(ids[2])>>)>>

Import ==
    /\ Commit(NewDocument, DocumentScope)
    /\ lineage' = lineage + 1
    /\ UNCHANGED store

(* Restoring a snapshot forgets every epoch.                               *)
Restore ==
    /\ Commit(NewDocument, DocumentScope)
    /\ lineage' = lineage + 1
    /\ heap' = [a \in {} |-> 0]
    /\ latest' = {}
    /\ epochs' = [o \in Owners |-> {}]
    /\ retained' = 0
    /\ pinned' = [o \in Owners |-> {}]
    /\ UNCHANGED nextEpoch

-----------------------------------------------------------------------------
(***************************************************************************)
(* Pinning.                                                                *)
(***************************************************************************)

(* change_scopes_since: the scopes of all revisions after one, if the log  *)
(* still holds each of them.                                               *)
ChangeScopesSince(since) ==
    LET later == SelectSeq(log, LAMBDA entry : entry.revision > since)
    IN  IF \A e \in DOMAIN later : later[e].revision = since + e
           /\ since + Len(later) = revision
        THEN {[e \in DOMAIN later |-> later[e].scope]}
        ELSE {}

PinnedBytes(o) == IF epochs[o] = {} THEN 0 ELSE (CHOOSE e \in epochs[o] : TRUE).retained_bytes

NextRetained(o, bytes) == retained - PinnedBytes(o) + bytes

(* prepare_install                                                         *)
CanInstall(o, boundaries, bytes) ==
    /\ boundaries <= MaxBoundaries
    /\ epochs[o] # {} \/ Cardinality({p \in Owners : epochs[p] # {}}) < MaxOwners
    /\ NextRetained(o, bytes) <= MaxRetained
    /\ nextEpoch < MaxEpochId

Holds(o, arc) == \E e \in epochs[o] : e.snapshot = arc

(* Strong references of a snapshot once the epochs of some owners are out. *)
Shared(arc, without) == \E o \in Owners \ without : Holds(o, arc)

FreeArc == CHOOSE a \in Arcs : a \notin DOMAIN heap

(* commit_install: the snapshot is in place, old ones nobody holds go.     *)
InstallEpoch(o, newHeap, arc) ==
    LET bytes == newHeap[arc].retained_bytes
        kept == {arc} \union
                {a \in DOMAIN newHeap : \E p \in Owners \ {o} : Holds(p, a)}
    IN  /\ epochs' = [epochs EXCEPT ![o] =
                        {[id |-> nextEpoch, editor_lineage |-> lineage,
                          snapshot |-> arc, retained_bytes |-> bytes]}]
        /\ heap' = [a \in kept |-> newHeap[a]]
        /\ latest' = {arc}
        /\ retained' = NextRetained(o, bytes)
        /\ nextEpoch' = nextEpoch + 1
        /\ pinned' = [pinned EXCEPT ![o] = {FreshChunks(doc)}]

With(arc, snapshot) == [a \in DOMAIN heap \union {arc} |->
                          IF a = arc THEN snapshot ELSE heap[a]]

(* install_update: in place when only the owner's old epoch held it.       *)
(* A mutation: another owner's epoch does not stop the update in place.    *)
ArcAfterUpdateUnchecked(o, arc) == IF Holds(o, arc) THEN arc ELSE FreeArc

ArcAfterUpdate(o, arc) ==
    IF Holds(o, arc) /\ ~Shared(arc, {o}) THEN arc ELSE FreeArc

Behind == {a \in latest : heap[a].document_revision # revision}

Pin(o) ==
    LET blocks == Blocks(doc)
        Since(a) == ChangeScopesSince(heap[a].document_revision)
        updatable == {a \in Behind : \E s \in Since(a) : CanUpdate(heap[a], s, blocks)}
        spliceable == {a \in Behind : \E s \in Since(a) : CanSplice(heap[a], s, blocks)}
        current == latest \ Behind
        Scopes(a) == CHOOSE s \in Since(a) : TRUE
        Install(newHeap, arc) ==
            /\ CanInstall(o, BoundaryCount(newHeap[arc]), newHeap[arc].retained_bytes)
            /\ InstallEpoch(o, newHeap, arc)
    IN  /\ IF updatable # {}
           THEN \E a \in updatable :
                  LET arc == ArcAfterUpdate(o, a)
                  IN  Install(With(arc, Update(heap[a], Scopes(a), blocks, revision)), arc)
           ELSE IF spliceable # {}
           THEN \E a \in spliceable :
                  Install(With(FreeArc, Splice(heap[a], Scopes(a), blocks, revision)),
                          FreeArc)
           ELSE IF current # {}
           THEN \E a \in current : Install(heap, a)
           ELSE Install(With(FreeArc, BuildSnapshot(doc, revision)), FreeArc)
        /\ UNCHANGED document

ReleasedBytes(o) == retained - PinnedBytes(o)

(* release_position_epoch_owner                                            *)
Release(o) ==
    LET kept == {a \in DOMAIN heap : \E p \in Owners \ {o} : Holds(p, a)}
    IN  /\ epochs[o] # {}
        /\ epochs' = [epochs EXCEPT ![o] = {}]
        /\ pinned' = [pinned EXCEPT ![o] = {}]
        /\ retained' = ReleasedBytes(o)
        /\ latest' = latest \intersect kept
        /\ heap' = [a \in kept |-> heap[a]]
        /\ UNCHANGED nextEpoch
        /\ UNCHANGED document

Next ==
    \/ LocalEdit \/ ForeignEdit \/ Import \/ Restore
    \/ \E o \in Owners : Pin(o) \/ Release(o)

Spec == Init /\ [][Next]_vars

-----------------------------------------------------------------------------
(***************************************************************************)
(* Resolving an intent of a view.                                          *)
(***************************************************************************)

(* The epoch an intent of the owner may still name.                        *)
LiveEpochs(o) == {e \in epochs[o] : e.editor_lineage = lineage}

(* resolve_epoch_range for a caret at a boundary.                          *)
ResolveCaret(epoch, index) ==
    IF heap[epoch.snapshot].document_revision = revision
    THEN [offset |-> index, fallback |-> FALSE]
    ELSE ResolveBoundary(doc, Boundary(heap[epoch.snapshot], index), FALSE, index)

-----------------------------------------------------------------------------
(***************************************************************************)
(* Properties.                                                             *)
(***************************************************************************)

(* The type invariant.                                                     *)
TypeOK ==
    /\ revision \in 0..MaxRevision
    /\ Len(log) <= LogCapacity
    /\ DOMAIN heap \subseteq Arcs
    /\ latest \subseteq DOMAIN heap /\ Cardinality(latest) <= 1
    /\ \A o \in Owners :
          /\ Cardinality(epochs[o]) <= 1 /\ Cardinality(pinned[o]) <= 1
          /\ \A e \in epochs[o] : e.id < nextEpoch /\ e.snapshot \in DOMAIN heap
    /\ nextEpoch \in 1..MaxEpochId

(* An epoch resolves by the positions its view was shown when it pinned    *)
(* it: however the snapshot was made, and whatever other views pinned      *)
(* since, its paragraphs and starts are those of the document of then      *)
(* (pin_position_epoch, install_update, try_apply_exclusive).              *)
EpochsAreAsShown ==
    \A o \in Owners : \A e \in epochs[o] :
        LET snapshot == heap[e.snapshot]
        IN  /\ pinned[o] = {snapshot.chunks}
            /\ snapshot = SnapshotOf(snapshot.document_revision, snapshot.chunks)

(* The store counts the bytes of every snapshot it keeps, once per epoch,  *)
(* and holds none that no epoch pins: memory stays within the limit        *)
(* (prepare_install, release_owner, release_position_epoch_owner).         *)
AccountingExact ==
    /\ retained = MapThenSumSet(PinnedBytes, Owners)
    /\ retained <= MaxRetained
    /\ \A o \in Owners : \A e \in epochs[o] :
          e.retained_bytes = heap[e.snapshot].retained_bytes
    /\ \A a \in DOMAIN heap : \E o \in Owners : Holds(o, a)

(* A caret keeps its place in the text: it is still before the character   *)
(* it stood before, or after the one it stood after, and it is in its      *)
(* paragraph as long as the paragraph is in the document; only when the    *)
(* paragraph is gone is the position a guess, and says so                  *)
(* (resolve_epoch_range, resolve_position_epoch_boundary).                 *)
CaretKeepsItsPlace ==
    \A o \in Owners : \A e \in LiveEpochs(o) : \A shown \in pinned[o] :
      \A b \in DOMAIN shown : \A i \in DOMAIN shown[b].anchors :
        LET index == MapThenSumSet(LAMBDA c : Len(shown[c].anchors), 1..b - 1) + i - 1
            caret == ResolveCaret(e, index)
            anchors == shown[b].anchors[i]
            blocks == Blocks(doc)
            ItemsOf(k) == {blocks[k].id} \union {item.id : item \in Range(blocks[k].text)}
            home == {k \in DOMAIN blocks : anchors.after.id \in ItemsOf(k)}
            Alive(k, id) == Has(Text(blocks[k]), id)
            Place(k, id) == ScalarStart(blocks, k) + StickyOffset(Text(blocks[k]), Sticky(id, "After"))
        IN  /\ caret.offset \in 0..TotalScalars(doc)
            /\ caret.fallback = (home = {})
            /\ \A k \in home :
                 /\ caret.offset - ScalarStart(blocks, k) \in 0..Len(Text(blocks[k]))
                 /\ (anchors.after.side = "After" /\ Alive(k, anchors.after.id)) =>
                       caret.offset = Place(k, anchors.after.id)
                 /\ (anchors.before.side = "Before" /\ Alive(k, anchors.before.id)) =>
                       caret.offset > Place(k, anchors.before.id)

=============================================================================
