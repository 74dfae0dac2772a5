----------------------------- MODULE MCDocument -----------------------------
(***************************************************************************)
(* The parts of a document session, next to each other: the ledger of the  *)
(* native requests, the position epochs, the anchors they compress and the *)
(* undo history.  They share no state here, so a behaviour is one of a     *)
(* single part, on one of its instances, which `scenario' names, while the *)
(* others rest in their initial state.                                     *)
(***************************************************************************)
EXTENDS NativeRequests, AnchorRuns
LOCAL INSTANCE TLC

CONSTANTS
    v1, v2,    \* views
    Scenarios

(* Either view may be the first.                                           *)
ViewSymmetry == Permutations({v1, v2})

(* Two views of two paragraphs, and one view through more edits than the   *)
(* log of changes holds.                                                   *)
VARIABLES doc, version, lineage, log, heap, latest, epochs, retained,
          nextEpoch, pinned

TwoViews ==
    INSTANCE PositionEpochs WITH
        revision <- version, Owners <- {v1, v2}, InitialText <- <<1, 1>>, MaxRevision <- 2,
        MaxBlocks <- 4, MaxOwners <- 2, MaxBoundaries <- 7, MaxRetained <- 19,
        MaxEpochId <- 4, LogCapacity <- 2

LongLog ==
    INSTANCE PositionEpochs WITH
        revision <- version, Owners <- {v1}, InitialText <- <<1>>, MaxRevision <- 3,
        MaxBlocks <- 3, MaxOwners <- 1, MaxBoundaries <- 7, MaxRetained <- 19,
        MaxEpochId <- 4, LogCapacity <- 2

(* Paragraphs whose boundaries lie between successive characters, at an    *)
(* end, or between characters that do not belong together.                 *)
Successive ==
    {[before |-> Sticky(c, k - 1, "Before"), after |-> Sticky(c, k, "After"),
      shared |-> s] :
        c \in Clients, k \in 1 .. MaxClock, s \in BOOLEAN}

Ends ==
    {[before |-> Sticky(c, k, "Before"), after |-> Sticky(c, k, "Before"),
      shared |-> s] :
        c \in Clients, k \in 0 .. MaxClock, s \in BOOLEAN}

Strangers ==
    {[before |-> Sticky("c1", 0, "Before"), after |-> Sticky("c2", 1, "After"),
      shared |-> TRUE],
     [before |-> Sticky("c1", 1, "Before"), after |-> Sticky("c1", 0, "After"),
      shared |-> TRUE]}

ParagraphBoundaries == Successive \union Ends \union Strangers

(* Groups of several edits, and containers a peer writes in.               *)
VARIABLES live, baseline, events, units, rebase, local, drained, result

Typing ==
    INSTANCE UndoHistory WITH
        answer <- result,
        MaxGroups <- 2, MaxUnits <- 4, EventsPerGroup <- 3, Weights <- {1, 5},
        Manners <- {"typed", "paused"}, Boxes <- FALSE, Skips <- TRUE,
        MaxItems <- 2

Containers ==
    INSTANCE UndoHistory WITH
        answer <- result,
        MaxGroups <- 2, MaxUnits <- 4, EventsPerGroup <- 2, Weights <- {1},
        Manners <- {"typed"}, Boxes <- TRUE, Skips <- FALSE, MaxItems <- 3

ASSUME InstanceAssumption ==
    /\ TwoViews!EpochAssumption /\ LongLog!EpochAssumption
    /\ Typing!HistoryAssumption /\ Containers!HistoryAssumption

-----------------------------------------------------------------------------

VARIABLE scenario

epochVars ==
    <<doc, version, lineage, log, heap, latest, epochs, retained, nextEpoch,
      pinned>>

historyVars ==
    <<live, baseline, events, units, rebase, local, drained, result>>

allVars == <<scenario, ledgerVars, epochVars, runsVars, historyVars>>

NoParagraph ==
    /\ anchors = << >> /\ index = 0 /\ runs = << >> /\ explicit = << >>

MCInit ==
    /\ scenario \in Scenarios
    /\ LedgerInit
    /\ IF scenario = "LongLog" THEN LongLog!Init ELSE TwoViews!Init
    /\ IF scenario = "Paragraph" THEN RunsInit ELSE NoParagraph
    /\ IF scenario = "Containers" THEN Containers!Init ELSE Typing!Init

MCNext ==
    /\ UNCHANGED scenario
    /\ \/ /\ scenario = "Requests" /\ LedgerNext
          /\ UNCHANGED <<epochVars, runsVars, historyVars>>
       \/ /\ \/ scenario = "TwoViews" /\ TwoViews!Next
             \/ scenario = "LongLog" /\ LongLog!Next
          /\ UNCHANGED <<ledgerVars, runsVars, historyVars>>
       \/ /\ scenario = "Paragraph" /\ RunsNext
          /\ UNCHANGED <<ledgerVars, epochVars, historyVars>>
       \/ /\ \/ scenario = "Typing" /\ Typing!Next
             \/ scenario = "Containers" /\ Containers!Next
          /\ UNCHANGED <<ledgerVars, epochVars, runsVars>>

MCSpec == MCInit /\ [][MCNext]_allVars

-----------------------------------------------------------------------------
(* Properties, of the instance that is running; LedgerIsFaithful and       *)
(* AnswersAreTheirs are those of NativeRequests, CompressionIsLossless is  *)
(* that of AnchorRuns.                                                     *)

OfEpochs(two, long) == IF scenario = "LongLog" THEN long ELSE two

OfHistory(typing, containers) ==
    IF scenario = "Containers" THEN containers ELSE typing

(* pin_position_epoch, install_update, try_apply_exclusive: an epoch       *)
(* resolves by the positions its view was shown when it pinned it, however *)
(* the snapshot was made and whatever other views pinned since; and the    *)
(* store counts the bytes of every snapshot it keeps, and keeps none that  *)
(* no epoch pins.                                                          *)
EpochsAreAsShown ==
    OfEpochs(/\ TwoViews!TypeOK
             /\ TwoViews!EpochsAreAsShown
             /\ TwoViews!AccountingExact,
             /\ LongLog!TypeOK
             /\ LongLog!EpochsAreAsShown
             /\ LongLog!AccountingExact)

(* resolve_epoch_range: a caret keeps its place in the text, and only when *)
(* its paragraph is gone is its position a guess, which says so.           *)
CaretKeepsItsPlace ==
    OfEpochs(TwoViews!CaretKeepsItsPlace, LongLog!CaretKeepsItsPlace)

(* replay_into: while there is something to undo or redo, the ledger       *)
(* replays to the document as it is, with the groups the live stacks have, *)
(* so that what undo reverts is what the user was told is next.  Redo      *)
(* brings back what undo took, and undo what redo brought, when nothing    *)
(* comes between; what a group removed was not restored by another group;  *)
(* and the stacks stay within the groups and units allowed.                *)
UndoIsFaithful ==
    OfHistory(/\ Typing!TypeOK
              /\ Typing!ReplayReproduces
              /\ Typing!RoundTrip
              /\ Typing!NothingRestoredTwice
              /\ Typing!WithinLimits,
              /\ Containers!TypeOK
              /\ Containers!ReplayReproduces
              /\ Containers!RoundTrip
              /\ Containers!NothingRestoredTwice
              /\ Containers!WithinLimits)

(* undo, redo: neither takes away what a peer has made.                    *)
PeersKeepTheirContent == Containers!PeersKeepTheirContent

=============================================================================
