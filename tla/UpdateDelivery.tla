--------------------------- MODULE UpdateDelivery ---------------------------
(***************************************************************************)
(* What a session promises for the document updates of its user: the host  *)
(* confirms them in the order they were committed, each exactly once, and  *)
(* skips none.                                                             *)
(***************************************************************************)
EXTENDS Sequences, Naturals

VARIABLES
    accepted,  \* the updates committed, in order
    delivered  \* the updates whose handoff was confirmed, in order

dvars == <<accepted, delivered>>

DInit == accepted = << >> /\ delivered = << >>

Accept ==
    /\ Len(accepted') = Len(accepted) + 1
    /\ SubSeq(accepted', 1, Len(accepted)) = accepted
    /\ UNCHANGED delivered

Deliver ==
    /\ Len(delivered) < Len(accepted)
    /\ delivered' = Append(delivered, accepted[Len(delivered) + 1])
    /\ UNCHANGED accepted

DNext == Accept \/ Deliver

DSpec == DInit /\ [][DNext]_dvars

=============================================================================
