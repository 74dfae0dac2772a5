----------------------------- MODULE SessionLife ----------------------------
(***************************************************************************)
(* What the registry promises of every session: calls work on it one at a  *)
(* time and only if they were admitted while it was open; it closes once,  *)
(* and is torn down once, after the last admitted call has left it.        *)
(***************************************************************************)
CONSTANTS Threads, SessionIds

VARIABLES
    status,    \* absent, open, closing or closed, of each session
    admitted   \* the thread working on each session, if any

Init ==
    /\ status = [s \in SessionIds |-> "absent"]
    /\ admitted = [s \in SessionIds |-> {}]

Move(s, from, to) == status[s] = from /\ status' = [status EXCEPT ![s] = to]

Open(s) == Move(s, "absent", "open") /\ UNCHANGED admitted

Close(s) == Move(s, "open", "closing") /\ UNCHANGED admitted

Finish(s) ==
    /\ admitted[s] = {}
    /\ Move(s, "closing", "closed")
    /\ UNCHANGED admitted

Admit(s, t) ==
    /\ status[s] = "open"
    /\ admitted[s] = {}
    /\ admitted' = [admitted EXCEPT ![s] = {t}]
    /\ UNCHANGED status

Leave(s, t) ==
    /\ admitted[s] = {t}
    /\ admitted' = [admitted EXCEPT ![s] = {}]
    /\ UNCHANGED status

Next ==
    \E s \in SessionIds :
        \/ Open(s)
        \/ Close(s)
        \/ Finish(s)
        \/ \E t \in Threads : Admit(s, t) \/ Leave(s, t)

LSpec == Init /\ [][Next]_<<status, admitted>>

=============================================================================
