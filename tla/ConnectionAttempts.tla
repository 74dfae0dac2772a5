------------------------- MODULE ConnectionAttempts -------------------------
(***************************************************************************)
(* What a session promises about its connection attempts: at most one is   *)
(* in flight, each is issued a generation exactly one above the previous   *)
(* one, and a generation that was retired never comes back.                *)
(***************************************************************************)
EXTENDS Naturals

CONSTANT MaxGeneration

VARIABLES
    issued,  \* the last generation handed out, 0 before the first
    live     \* the generation in flight: at most one

avars == <<issued, live>>

AInit == issued = 0 /\ live = {}

Issue ==
    /\ live = {}
    /\ issued < MaxGeneration
    /\ issued' = issued + 1
    /\ live' = {issued + 1}

Retire ==
    /\ live # {}
    /\ live' = {}
    /\ UNCHANGED issued

ANext == Issue \/ Retire

ASpec == AInit /\ [][ANext]_avars

=============================================================================
