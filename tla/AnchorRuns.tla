------------------------------ MODULE AnchorRuns ----------------------------
(***************************************************************************)
(* The compressed anchors of a paragraph (CharacterRunAnchors in           *)
(* position_epoch.rs).  A paragraph has an anchor on either side of every  *)
(* boundary between two characters; where the characters were typed in     *)
(* one go their ids follow one another, and one run stands for all the     *)
(* boundaries among them, with a flag for the trailing edge.  Boundaries   *)
(* no run covers are kept explicitly.                                      *)
(*                                                                         *)
(* The machine is the loop of `compress' over the boundaries of one        *)
(* paragraph; `boundary' looks one up in what the loop has made so far.    *)
(* Boundaries are numbered from 0.                                         *)
(***************************************************************************)
EXTENDS Integers, Sequences

CONSTANTS
    Clients,         \* client ids
    MaxClock,        \* bound of the model: clocks of character ids
    MaxBoundaries,   \* bound of the model: boundaries of a paragraph
    Given            \* the boundaries a paragraph may be made of

VARIABLES
    anchors,         \* the boundaries given, a sequence
    index,           \* the number of boundaries processed
    runs,            \* the runs made so far
    explicit         \* the boundaries kept as they are, by number

runsVars == <<anchors, index, runs, explicit>>

Ids == [client : Clients, clock : 0..MaxClock]

Sides == {"Before", "After"}

Stickies == [id : Ids, side : Sides]

Sticky(client, clock, side) == [id |-> [client |-> client, clock |-> clock], side |-> side]

(* A boundary: what it sticks to on either side, and whether its ancestor  *)
(* is that of the paragraph's first boundary.                              *)
Boundaries == [before : Stickies, after : Stickies, shared : BOOLEAN]

CharacterRuns ==
    [first : Nat, count : Nat, trailing : BOOLEAN, following : Ids]

ASSUME RunsAssumption ==
    /\ MaxClock \in Nat
    /\ MaxBoundaries \in Nat
    /\ Given \subseteq Boundaries

-----------------------------------------------------------------------------

(* following_character: the boundary lies between two successive ids.      *)
BetweenSuccessive(boundary) ==
    LET following == boundary.after.id
    IN  /\ boundary.after.side = "After"
        /\ following.clock >= 1
        /\ boundary.before = Sticky(following.client, following.clock - 1, "Before")

StartingAt(first, following) ==
    [first |-> first, count |-> 1, trailing |-> FALSE, following |-> following]

NextBoundary(run) == run.first + run.count

LastClock(run) == run.following.clock + run.count - 1

Extends(run, boundary, following) ==
    /\ ~run.trailing
    /\ run.following.client = following.client
    /\ NextBoundary(run) = boundary
    /\ run.following.clock + run.count = following.clock

(* A mutation: only the preceding side of the edge is compared.            *)
ClosesWithOneSide(run, boundary, its) ==
    /\ ~run.trailing
    /\ NextBoundary(run) = boundary
    /\ its.before = Sticky(run.following.client, LastClock(run), "Before")

ClosesWith(run, boundary, its) ==
    LET edge == Sticky(run.following.client, LastClock(run), "Before")
    IN  /\ ~run.trailing
        /\ NextBoundary(run) = boundary
        /\ its.before = edge /\ its.after = edge

BoundarySpan(run) == run.count + (IF run.trailing THEN 1 ELSE 0)

(* The anchors a run stands for at an offset; the ancestor is shared.      *)
RunAnchors(run, offset) ==
    IF offset = run.count
    THEN LET edge == Sticky(run.following.client, LastClock(run), "Before")
         IN  [before |-> edge, after |-> edge, shared |-> TRUE]
    ELSE LET clock == run.following.clock + offset
         IN  [before |-> Sticky(run.following.client, clock - 1, "Before"),
              after  |-> Sticky(run.following.client, clock, "After"),
              shared |-> TRUE]

-----------------------------------------------------------------------------

RunsInit ==
    /\ anchors \in UNION {[1..n -> Given] : n \in 0..MaxBoundaries}
    /\ anchors # <<>> => anchors[1].shared
    /\ index = 0
    /\ runs = <<>>
    /\ explicit = [b \in {} |-> 0]

Current == anchors[index + 1]

HasRun == runs # <<>>

LastRun == runs[Len(runs)]

Follows == Current.shared /\ BetweenSuccessive(Current)

ExtendRun ==
    /\ Follows /\ HasRun /\ Extends(LastRun, index, Current.after.id)
    /\ runs' = [runs EXCEPT ![Len(runs)].count = @ + 1]
    /\ UNCHANGED explicit

StartRun ==
    /\ Follows /\ ~(HasRun /\ Extends(LastRun, index, Current.after.id))
    /\ runs' = Append(runs, StartingAt(index, Current.after.id))
    /\ UNCHANGED explicit

Closes == Current.shared /\ HasRun /\ ClosesWith(LastRun, index, Current)

CloseRun ==
    /\ ~Follows /\ Closes
    /\ runs' = [runs EXCEPT ![Len(runs)].trailing = TRUE]
    /\ UNCHANGED explicit

KeepExplicit ==
    /\ ~Follows /\ ~Closes
    /\ explicit' = [b \in DOMAIN explicit \union {index} |->
                      IF b = index THEN Current ELSE explicit[b]]
    /\ UNCHANGED runs

RunsNext ==
    /\ index < Len(anchors)
    /\ index' = index + 1
    /\ UNCHANGED anchors
    /\ ExtendRun \/ StartRun \/ CloseRun \/ KeepExplicit

RunsSpec == RunsInit /\ [][RunsNext]_runsVars

-----------------------------------------------------------------------------
(***************************************************************************)
(* The lookup.                                                             *)
(***************************************************************************)

(* The run a boundary is looked up in: the last that starts at or before.  *)
CandidateRuns(b) ==
    {r \in DOMAIN runs : runs[r].first <= b /\ \A s \in DOMAIN runs : s > r => runs[s].first > b}

CoveringRuns(b) == {r \in CandidateRuns(b) : b - runs[r].first < BoundarySpan(runs[r])}

(* The boundary found: at most one.                                        *)
Lookup(b) ==
    IF CoveringRuns(b) # {}
    THEN {RunAnchors(runs[r], b - runs[r].first) : r \in CoveringRuns(b)}
    ELSE {explicit[e] : e \in DOMAIN explicit \intersect {b}}

(* The type invariant.  The clocks a run stands for are clocks of ids, so  *)
(* that the unchecked additions and subtractions of `anchors' and          *)
(* `last_character' neither overflow nor underflow.                        *)
RunsTypeOK ==
    /\ anchors \in Seq(Boundaries)
    /\ index \in 0..Len(anchors)
    /\ runs \in Seq(CharacterRuns)
    /\ \A r \in DOMAIN runs : runs[r].following.clock >= 1 /\ LastClock(runs[r]) <= MaxClock
    /\ DOMAIN explicit \subseteq Nat
    /\ \A e \in DOMAIN explicit : explicit[e] \in Boundaries

(* What was compressed is found again, ancestors included: every boundary  *)
(* processed so far is looked up as it was given (compress, boundary), and *)
(* no clock leaves its range.                                              *)
CompressionIsLossless ==
    /\ RunsTypeOK
    /\ \A b \in 0..index - 1 : Lookup(b) = {anchors[b + 1]}

=============================================================================
