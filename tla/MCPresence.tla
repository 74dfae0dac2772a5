------------------------------ MODULE MCPresence ----------------------------
(***************************************************************************)
(* A session with a peer, and an outbox that never refuses; MCSession has  *)
(* one that an edit fills.                                                 *)
(***************************************************************************)
EXTENDS Presence

OneDelay == <<1>>
OneClock == {1}

=============================================================================
