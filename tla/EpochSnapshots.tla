---------------------------- MODULE EpochSnapshots --------------------------
(***************************************************************************)
(* Position epochs, the values: the positions of a document as anchors on  *)
(* the characters and paragraphs of the CRDT (position_epoch.rs and the    *)
(* walk of yrs_engine/position.rs), and the three ways an engine makes a   *)
(* snapshot of them: from the document, from an older snapshot and the     *)
(* paragraphs edited since, or by splicing rebuilt windows into an older   *)
(* one (yrs_engine/engine.rs).                                             *)
(*                                                                         *)
(* A document is a sequence of paragraphs, each a sequence of characters;  *)
(* an id names a character or a paragraph for ever, and what is deleted    *)
(* stays in its place as a tombstone, as in the CRDT.  Tables, void blocks *)
(* and nesting are left out: a position has one ancestor.  The state epoch *)
(* of the engine moves with its revision.                                  *)
(***************************************************************************)
EXTENDS Integers, Sequences, FiniteSets
LOCAL INSTANCE SequencesExt
LOCAL INSTANCE FiniteSetsExt

Live(items) == SelectSeq(items, LAMBDA item : item.live)

Blocks(doc) == Live(doc)

Text(block) == Live(block.text)

(* The scalar position of the start of a paragraph: every paragraph before *)
(* it counts its characters and one break.                                 *)
ScalarStart(blocks, index) ==
    MapThenSumSet(LAMBDA b : Len(Text(blocks[b])) + 1, 1..index - 1)

TotalScalars(doc) ==
    LET blocks == Blocks(doc) IN ScalarStart(blocks, Len(blocks) + 1) - 1

-----------------------------------------------------------------------------
(***************************************************************************)
(* Anchors.  A sticky index sticks to an item, seen from before or after   *)
(* it, or to the start of a branch; 0 is the fragment.                     *)
(***************************************************************************)

Root == 0

Sticky(id, side) == [id |-> id, side |-> side]

(* Where a boundary has no item on one side it sticks to the other side.   *)
StickyBefore(branch, items, offset) ==
    IF offset = 0 THEN Sticky(branch, "Start") ELSE Sticky(items[offset].id, "Before")

StickyAfter(branch, items, offset) ==
    IF offset < Len(items) THEN Sticky(items[offset + 1].id, "After")
    ELSE StickyBefore(branch, items, offset)

BoundaryAnchors(block, offset) ==
    [before |-> StickyBefore(block.id, Text(block), offset),
     after  |-> StickyAfter(block.id, Text(block), offset)]

AncestorAnchors(blocks, index) ==
    [before |-> StickyBefore(Root, blocks, index - 1),
     after  |-> StickyAfter(Root, blocks, index)]

Chunk(block, ancestor) ==
    [anchors  |-> [i \in 1..Len(Text(block)) + 1 |-> BoundaryAnchors(block, i - 1)],
     ancestor |-> ancestor]

FreshChunk(blocks, index) == Chunk(blocks[index], AncestorAnchors(blocks, index))

FreshChunks(doc) ==
    LET blocks == Blocks(doc) IN [b \in 1..Len(blocks) |-> FreshChunk(blocks, b)]

RetainedBytes(chunk) == Len(chunk.anchors) + 1

SnapshotOf(revision, chunks) ==
    [document_revision |-> revision,
     chunks            |-> chunks,
     scalar_starts     |-> [b \in 1..Len(chunks) |->
                              MapThenSumSet(LAMBDA c : Len(chunks[c].anchors), 1..b - 1)],
     retained_bytes    |-> MapThenSumSet(LAMBDA c : RetainedBytes(chunks[c]),
                                         DOMAIN chunks)]

BuildSnapshot(doc, revision) == SnapshotOf(revision, FreshChunks(doc))

BoundaryCount(snapshot) ==
    LET last == Len(snapshot.chunks)
    IN  IF last = 0 THEN 0
        ELSE snapshot.scalar_starts[last] + Len(snapshot.chunks[last].anchors)

(* The boundary at a scalar position of the snapshot, with its ancestor.   *)
Boundary(snapshot, index) ==
    LET block == Cardinality({b \in DOMAIN snapshot.chunks :
                                 snapshot.scalar_starts[b] <= index})
    IN  [anchors  |-> snapshot.chunks[block].anchors
                         [index - snapshot.scalar_starts[block] + 1],
         ancestor |-> snapshot.chunks[block].ancestor]

-----------------------------------------------------------------------------
(***************************************************************************)
(* What an edit did to the paragraphs, as the engine logs it.              *)
(***************************************************************************)

Textblock(index) == [type |-> "Textblock", block |-> index]

DocumentScope == [type |-> "Document"]

(* The paragraphs from..oldTo-1 became from..newTo-1; a neighbour on each  *)
(* side is rebuilt with them because its ancestor sticks to theirs.        *)
RootWindow(from, oldTo, newTo, oldCount, newCount) ==
    [type        |-> "RootWindow",
     first       |-> Max({from - 1, 1}),
     previousEnd |-> Min({oldTo + 1, oldCount + 1}),
     nextEnd     |-> Min({newTo + 1, newCount + 1})]

ScopeTypes(scopes) == {scopes[s].type : s \in DOMAIN scopes}

-----------------------------------------------------------------------------
(***************************************************************************)
(* EpochSnapshotUpdate: only the text of some paragraphs changed.          *)
(***************************************************************************)

CanUpdate(previous, scopes, blocks) ==
    /\ scopes # <<>>
    /\ ScopeTypes(scopes) = {"Textblock"}
    /\ Len(blocks) = Len(previous.chunks)

Update(previous, scopes, blocks, revision) ==
    LET edited == {scopes[s].block : s \in DOMAIN scopes}
        chunks == [b \in DOMAIN previous.chunks |->
                     IF b \in edited THEN Chunk(blocks[b], previous.chunks[b].ancestor)
                     ELSE previous.chunks[b]]
        Delta(b) == Len(chunks[b].anchors) - Len(previous.chunks[b].anchors)
        Grown(b) == RetainedBytes(chunks[b]) - RetainedBytes(previous.chunks[b])
    IN  [document_revision |-> revision,
         chunks            |-> chunks,
         scalar_starts     |-> [b \in DOMAIN chunks |->
                                  previous.scalar_starts[b] +
                                  MapThenSumSet(Delta, {e \in edited : e < b})],
         retained_bytes    |-> previous.retained_bytes + MapThenSumSet(Grown, edited)]

-----------------------------------------------------------------------------
(***************************************************************************)
(* The splice: windows of paragraphs were replaced.  Every paragraph of    *)
(* the new document is taken over from the older snapshot, rebuilt alone   *)
(* or rebuilt with its window.                                             *)
(***************************************************************************)

Reuse(index) == [how |-> "Reuse", of |-> index]
RebuildBlock(index) == [how |-> "RebuildBlock", of |-> index]
RebuildWindow == [how |-> "RebuildWindow", of |-> 0]

(* The sources after one more scope; none when the scope does not fit.     *)
Spliced(sources, scope) ==
    IF sources = {} THEN {}
    ELSE LET now == CHOOSE s \in sources : TRUE
         IN  CASE scope.type = "Textblock" ->
                    IF scope.block > Len(now) THEN {}
                    ELSE {[b \in DOMAIN now |->
                             IF b = scope.block /\ now[b].how = "Reuse"
                             THEN RebuildBlock(now[b].of) ELSE now[b]]}
               [] scope.type = "RootWindow" ->
                    IF \/ scope.first > scope.previousEnd \/ scope.first > scope.nextEnd
                       \/ scope.previousEnd > Len(now) + 1
                    THEN {}
                    ELSE {SubSeq(now, 1, scope.first - 1)
                          \o [w \in 1..scope.nextEnd - scope.first |-> RebuildWindow]
                          \o SubSeq(now, scope.previousEnd, Len(now))}
               [] OTHER -> {}

Sources(previous, scopes) ==
    FoldLeft(Spliced, {[b \in 1..Len(previous.chunks) |-> Reuse(b)]}, scopes)

CanSplice(previous, scopes, blocks) ==
    /\ "RootWindow" \in ScopeTypes(scopes)
    /\ \E sources \in Sources(previous, scopes) : Len(sources) = Len(blocks)

Splice(previous, scopes, blocks, revision) ==
    LET sources == CHOOSE s \in Sources(previous, scopes) : TRUE
        Taken(b) ==
            CASE sources[b].how = "Reuse" -> previous.chunks[sources[b].of]
              [] sources[b].how = "RebuildBlock" ->
                   Chunk(blocks[b], previous.chunks[sources[b].of].ancestor)
              [] OTHER -> FreshChunk(blocks, b)
    IN  SnapshotOf(revision, [b \in 1..Len(blocks) |-> Taken(b)])

-----------------------------------------------------------------------------
(***************************************************************************)
(* Resolving an anchor in a later document: a position or, when the branch *)
(* the anchor lies in is gone, none.                                       *)
(***************************************************************************)

(* What a sticky index finds among items: an offset among those alive.     *)
StickyOffset(items, sticky) ==
    LET at == CHOOSE i \in DOMAIN items : items[i].id = sticky.id
    IN  Len(Live(SubSeq(items, 1, at - 1)))
        + (IF sticky.side = "Before" /\ items[at].live THEN 1 ELSE 0)

Has(items, id) == \E i \in DOMAIN items : items[i].id = id

(* A position between two paragraphs is the end of the one before it.      *)
GapPosition(doc, gap) ==
    IF gap = 0 THEN 0 ELSE ScalarStart(Blocks(doc), gap + 1) - 1

StickyPosition(doc, sticky) ==
    LET blocks == Blocks(doc)
    IN  IF sticky.id = Root THEN {GapPosition(doc, 0)}
        ELSE IF Has(doc, sticky.id) /\ sticky.side # "Start"
             THEN {GapPosition(doc, StickyOffset(doc, sticky))}
        ELSE UNION {IF sticky.side = "Start" /\ blocks[b].id = sticky.id
                    THEN {ScalarStart(blocks, b)}
                    ELSE IF sticky.side # "Start" /\ Has(blocks[b].text, sticky.id)
                    THEN {ScalarStart(blocks, b) + StickyOffset(blocks[b].text, sticky)}
                    ELSE {} : b \in DOMAIN blocks}

(* A mutation: the paragraph is tried before the character.                *)
ResolveOuterFirst(doc, boundary, leadingBefore, original) ==
    LET Side(anchors, before) == IF before THEN anchors.before ELSE anchors.after
        candidates ==
            <<StickyPosition(doc, Side(boundary.ancestor, leadingBefore)),
              StickyPosition(doc, Side(boundary.anchors, leadingBefore)),
              {IF original < TotalScalars(doc) THEN original ELSE TotalScalars(doc)}>>
        first == Min({c \in DOMAIN candidates : candidates[c] # {}})
    IN  [offset   |-> CHOOSE p \in candidates[first] : TRUE,
         fallback |-> first # 1]

(* resolve_position_epoch_boundary: the character on the leading side, the *)
(* paragraph on that side, then the other side of both.                    *)
ResolveBoundary(doc, boundary, leadingBefore, original) ==
    LET Side(anchors, before) == IF before THEN anchors.before ELSE anchors.after
        candidates ==
            <<StickyPosition(doc, Side(boundary.anchors, leadingBefore)),
              StickyPosition(doc, Side(boundary.ancestor, leadingBefore)),
              StickyPosition(doc, Side(boundary.anchors, ~leadingBefore)),
              StickyPosition(doc, Side(boundary.ancestor, ~leadingBefore)),
              {IF original < TotalScalars(doc) THEN original ELSE TotalScalars(doc)}>>
        first == Min({c \in DOMAIN candidates : candidates[c] # {}})
    IN  [offset   |-> CHOOSE p \in candidates[first] : TRUE,
         fallback |-> first # 1]

=============================================================================
