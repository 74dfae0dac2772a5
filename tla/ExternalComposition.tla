------------------------- MODULE ExternalComposition -------------------------
(***************************************************************************)
(* External text composition: ExternalTextCompositionManager and its       *)
(* sessions in JavaScript, and the Android text input they drive.          *)
(*                                                                         *)
(* A call is executed by the input in the order it was made and answered   *)
(* by a promise.  The input also ends a session by itself, on an           *)
(* interaction, a change of the document or the end of the view.  Every    *)
(* end is an event, and events and answers overtake each other.            *)
(*                                                                         *)
(* What JavaScript does in one go, up to the next answer or event, is one  *)
(* action; the promises it hands out are settled in the session's record.  *)
(* The texts of a session are numbered in the order they are given.        *)
(***************************************************************************)
EXTENDS Naturals, Sequences

CONSTANTS MaxSessions, \* bound of the model: calls of begin
          MaxTexts,    \* bound of the model: texts of a session
          MaxCloses,   \* bound of the model: calls of commit and cancel
          MaxFaults    \* bound of the model: calls that fail

CompositionAssumption == {MaxSessions, MaxTexts, MaxCloses, MaxFaults} \subseteq Nat

VARIABLES
    manager, \* the manager
    session, \* the sessions
    calls,   \* calls on their way to the input
    replies, \* their answers on the way back
    events,  \* the ends of sessions on the way back
    input,   \* the input
    spent    \* what the bounds count

vars == <<manager, session, calls, replies, events, input, spent>>

Ids == 1..MaxSessions
Texts == 1..MaxTexts
None == 0
NoResult == [outcome |-> "none", cause |-> "none", text |-> 0, error |-> FALSE]

NewSession ==
    [latest |-> 0, result |-> NoResult, closing |-> "no", sent |-> FALSE,
     flight |-> 0, flying |-> {}, next |-> 0, nexts |-> {}, folded |-> {},
     update |-> [t \in Texts |-> "none"], commit |-> "none", cancel |-> "none",
     final |-> 0]

Init ==
    /\ manager = [disposed |-> FALSE, active |-> None, pending |-> None, ended |-> FALSE,
                  stage |-> "idle", waiting |-> 0, awaited |-> None, begun |-> 0]
    /\ session = [s \in Ids |-> NewSession]
    /\ calls = <<>> /\ replies = <<>> /\ events = <<>>
    /\ input = [active |-> None, text |-> 0, shown |-> [s \in Ids |-> 0],
                inserted |-> [s \in Ids |-> 0], ended |-> [s \in Ids |-> NoResult]]
    /\ spent = [begins |-> 0, closes |-> 0, faults |-> 0]

Call(kind, s, t) == [kind |-> kind, session |-> s, text |-> t]

-----------------------------------------------------------------------------
(* A session's record.                                                     *)

Terminal(x) == x.result # NoResult

Settle(x, waiters, how) ==
    [x EXCEPT !.update = [t \in Texts |->
        IF t \in waiters /\ x.update[t] = "open" THEN how ELSE x.update[t]]]

(* explicitCommitError finds nothing wrong.                                 *)
Success(result, final) ==
    /\ result.outcome = "committed" /\ result.cause = "consumer"
    /\ result.text = final /\ ~ result.error

(* finish, with what the promises that race with the end make of it: those  *)
(* of the updates, of those folded into a commit or a cancel, and its own.  *)
Finish(x, result) ==
    LET good == x.closing = "commit" /\ Success(result, x.latest)
        how == IF good THEN "resolved" ELSE "rejected"
    IN  IF Terminal(x) THEN x
        ELSE [Settle(x, x.flying \union x.nexts \union x.folded, how) EXCEPT
                !.result = result,
                !.flight = 0, !.flying = {}, !.next = 0, !.nexts = {}, !.folded = {},
                !.commit = IF @ = "open" THEN how ELSE @,
                !.cancel = IF @ = "open" THEN "resolved" ELSE @]

(* takePendingWaiters, before the closing call is made.                     *)
Folded(x) == [x EXCEPT !.sent = TRUE, !.folded = x.nexts, !.next = 0, !.nexts = {}]

(* commit and cancel wait for the update in flight.                         *)
Closing(x, kind, final) ==
    LET closing == [x EXCEPT !.closing = kind, !.latest = final, !.final = final,
                             !.commit = IF kind = "commit" THEN "open" ELSE @,
                             !.cancel = IF kind = "cancel" THEN "open" ELSE @]
    IN  IF x.flight # 0 THEN closing ELSE Folded(closing)

(* The closing call failed: the session goes on.                            *)
Reopened(x) ==
    [Settle(x, x.folded, "rejected") EXCEPT
        !.closing = "no", !.sent = FALSE, !.folded = {},
        !.commit = IF @ = "open" THEN "rejected" ELSE @,
        !.cancel = IF @ = "open" THEN "rejected" ELSE @]

-----------------------------------------------------------------------------
(* What the application calls.                                             *)

CanMutate(s) ==
    /\ s # None /\ manager.active = s
    /\ ~ Terminal(session[s]) /\ session[s].closing = "no"

(* update: behind one in flight only the latest text waits, with every      *)
(* promise that came before it.                                            *)
Update(s) ==
    /\ CanMutate(s) /\ session[s].latest < MaxTexts
    /\ LET x == session[s]
           t == x.latest + 1
           open == [x EXCEPT !.latest = t, !.update[t] = "open"]
       IN  IF x.flight # 0
           THEN /\ session' = [session EXCEPT ![s] =
                      [open EXCEPT !.next = t, !.nexts = @ \union {t}]]
                /\ UNCHANGED calls
           ELSE /\ session' = [session EXCEPT ![s] = [open EXCEPT !.flight = t, !.flying = {t}]]
                /\ calls' = Append(calls, Call("update", s, t))
    /\ UNCHANGED <<manager, replies, events, input, spent>>

Close(s, kind, final) ==
    /\ session' = [session EXCEPT ![s] = Closing(@, kind, final)]
    /\ calls' = IF session[s].flight # 0 THEN calls ELSE Append(calls, Call(kind, s, final))

(* commit, with the latest text or another.                                 *)
Commit(s) ==
    /\ CanMutate(s) /\ spent.closes < MaxCloses
    /\ spent' = [spent EXCEPT !.closes = @ + 1]
    /\ \E final \in {session[s].latest, session[s].latest + 1} \intersect Texts :
          Close(s, "commit", final)
    /\ UNCHANGED <<manager, replies, events, input>>

(* cancel and cancelForDocumentChange, which differ in the cause they name. *)
Cancel(s) ==
    /\ CanMutate(s) /\ spent.closes < MaxCloses
    /\ spent' = [spent EXCEPT !.closes = @ + 1]
    /\ Close(s, "cancel", session[s].latest)
    /\ UNCHANGED <<manager, replies, events, input>>

-----------------------------------------------------------------------------
(* The manager.                                                            *)

(* begin queues behind those before it.                                     *)
Begin ==
    /\ spent.begins < MaxSessions
    /\ spent' = [spent EXCEPT !.begins = @ + 1]
    /\ manager' = [manager EXCEPT !.waiting = @ + 1]
    /\ UNCHANGED <<session, calls, replies, events, input>>

Asked(m) ==
    /\ manager' = [m EXCEPT !.stage = "asked", !.pending = m.begun + 1, !.ended = FALSE,
                            !.awaited = None, !.begun = @ + 1]
    /\ calls' = Append(calls, Call("begin", m.begun + 1, 0))

(* beginSerialized, up to its first wait: an active session is committed    *)
(* with its latest text, and one that is closing refuses.                   *)
BeginSerialized ==
    /\ manager.stage = "idle" /\ manager.waiting > 0
    /\ LET m == [manager EXCEPT !.waiting = @ - 1]
           s == manager.active
       IN  \/ /\ manager.disposed \/ (s # None /\ ~ CanMutate(s))
              /\ manager' = m /\ UNCHANGED <<session, calls>>
           \/ /\ ~ manager.disposed /\ CanMutate(s)
              /\ manager' = [m EXCEPT !.stage = "committing", !.awaited = s]
              /\ Close(s, "commit", session[s].latest)
           \/ /\ ~ manager.disposed /\ s = None
              /\ Asked(m) /\ UNCHANGED session
    /\ UNCHANGED <<replies, events, input, spent>>

(* The previous session was committed, or was not and begin is refused.     *)
BeginGoesOn ==
    /\ manager.stage = "committing" /\ session[manager.awaited].commit # "open"
    /\ IF session[manager.awaited].commit = "resolved" /\ ~ manager.disposed
       THEN Asked(manager)
       ELSE manager' = [manager EXCEPT !.stage = "idle", !.awaited = None] /\ UNCHANGED calls
    /\ UNCHANGED <<session, replies, events, input, spent>>

(* dispose: the active session ends here and now, and the input is told.    *)
Dispose ==
    /\ ~ manager.disposed
    /\ LET s == manager.active
       IN  /\ manager' = [manager EXCEPT !.disposed = TRUE, !.active = None]
           /\ IF s = None THEN UNCHANGED <<session, calls>>
              ELSE /\ session' = [session EXCEPT ![s] =
                          Finish(@, [outcome |-> "cancelled", cause |-> "lifecycle",
                                     text |-> @.latest, error |-> FALSE])]
                   /\ calls' = Append(calls, Call("dispose", s, 0))
    /\ UNCHANGED <<replies, events, input, spent>>

(* A mutation: an end is taken to be that of the active session.            *)
HandleAnyEnd ==
    /\ events # <<>>
    /\ events' = Tail(events)
    /\ LET s == Head(events).session
           result == Head(events).result
       IN  \/ /\ manager.active # None
              /\ session' = [session EXCEPT ![manager.active] = Finish(@, result)]
              /\ manager' = [manager EXCEPT !.active = None]
           \/ /\ manager.active = None /\ s = manager.pending /\ ~ manager.ended
              /\ session' = [session EXCEPT ![s] = Finish(@, result)]
              /\ manager' = [manager EXCEPT !.ended = TRUE]
           \/ /\ manager.active = None /\ (s # manager.pending \/ manager.ended)
              /\ UNCHANGED <<session, manager>>
    /\ UNCHANGED <<calls, replies, input, spent>>

(* handleNativeEnd: the end of the session that is active, or of the one    *)
(* whose begin is not answered yet.                                        *)
HandleNativeEnd ==
    /\ events # <<>>
    /\ events' = Tail(events)
    /\ LET s == Head(events).session
           result == Head(events).result
       IN  \/ /\ s = manager.active
              /\ session' = [session EXCEPT ![s] = Finish(@, result)]
              /\ manager' = [manager EXCEPT !.active = None]
           \/ /\ s # manager.active /\ s = manager.pending /\ ~ manager.ended
              /\ session' = [session EXCEPT ![s] = Finish(@, result)]
              /\ manager' = [manager EXCEPT !.ended = TRUE]
           \/ /\ s # manager.active /\ (s # manager.pending \/ manager.ended)
              /\ UNCHANGED <<session, manager>>
    /\ UNCHANGED <<calls, replies, input, spent>>

-----------------------------------------------------------------------------
(* What the answers do.                                                    *)

(* A mutation: a session whose begin outlived the manager is forgotten.     *)
BegunForgotten(s, ok) ==
    /\ manager' = [manager EXCEPT !.stage = "idle", !.pending = None, !.ended = FALSE,
                                  !.active = IF ok /\ ~ manager.disposed /\ ~ manager.ended
                                             THEN s ELSE @]
    /\ UNCHANGED <<calls, session>>

(* The rest of beginSerialized.                                             *)
Begun(s, ok) ==
    /\ manager' = [manager EXCEPT !.stage = "idle", !.pending = None, !.ended = FALSE,
                                  !.active = IF ok /\ ~ manager.disposed /\ ~ manager.ended
                                             THEN s ELSE @]
    /\ calls' = IF manager.disposed THEN Append(calls, Call("dispose", s, 0)) ELSE calls
    /\ UNCHANGED session

(* The rest of performUpdate, and what waited for it: the next update, or   *)
(* the closing call with the updates that were not sent.                    *)
Updated(s, ok) ==
    LET x == [Settle(session[s], session[s].flying, IF ok THEN "resolved" ELSE "rejected")
                EXCEPT !.flight = 0, !.flying = {}]
    IN  /\ \/ /\ x.closing # "no"
              /\ session' = [session EXCEPT ![s] = Folded(x)]
              /\ calls' = Append(calls, Call(x.closing, s, x.final))
           \/ /\ x.closing = "no" /\ x.next # 0
              /\ session' = [session EXCEPT ![s] =
                    [x EXCEPT !.flight = x.next, !.flying = x.nexts, !.next = 0, !.nexts = {}]]
              /\ calls' = Append(calls, Call("update", s, x.next))
           \/ /\ x.closing = "no" /\ x.next = 0
              /\ session' = [session EXCEPT ![s] = x]
              /\ UNCHANGED calls
        /\ UNCHANGED manager

(* The rest of commit and of cancelWithCause.  The updates folded into a    *)
(* cancel are settled with its own outcome.                                *)
Closed(s, ok, result) ==
    LET x == session[s]
        cancelled == IF result.error THEN "rejected" ELSE "resolved"
        told == [Settle(x, x.folded, cancelled) EXCEPT !.cancel = cancelled, !.folded = {}]
    IN  /\ IF ok
           THEN /\ session' = [session EXCEPT ![s] =
                      Finish(IF x.closing = "cancel" THEN told ELSE x, result)]
                /\ manager' = [manager EXCEPT !.active = None]
           ELSE session' = [session EXCEPT ![s] = Reopened(x)] /\ UNCHANGED manager
        /\ UNCHANGED calls

HandleReply ==
    /\ replies # <<>>
    /\ replies' = Tail(replies)
    /\ LET r == Head(replies)
       IN  \/ r.kind = "begin" /\ Begun(r.session, r.ok)
           \/ /\ r.kind = "update" /\ ~ Terminal(session[r.session])
              /\ Updated(r.session, r.ok)
           \/ /\ r.kind \in {"commit", "cancel"} /\ ~ Terminal(session[r.session])
              /\ Closed(r.session, r.ok, r.result)
           \/ /\ r.kind = "dispose" \/ (r.kind # "begin" /\ Terminal(session[r.session]))
              /\ UNCHANGED <<manager, session, calls>>
    /\ UNCHANGED <<events, input, spent>>

-----------------------------------------------------------------------------
(* The input.                                                              *)

Reply(call, ok, result) ==
    replies' = Append(replies, [kind |-> call.kind, session |-> call.session,
                                ok |-> ok, result |-> result])

(* finishExternalTextComposition: the text goes into the document, or does  *)
(* not though it should, and the end is remembered and told.                *)
Ends(s, outcome, cause, t) ==
    \E error \in IF outcome = "committed" /\ spent.faults < MaxFaults THEN BOOLEAN ELSE {FALSE} :
        LET result == [outcome |-> IF error THEN "cancelled" ELSE outcome, cause |-> cause,
                       text |-> t, error |-> error]
        IN  /\ input' = [input EXCEPT !.active = None, !.text = 0, !.ended[s] = result,
                            !.shown[s] = t,
                            !.inserted[s] = IF result.outcome = "committed" THEN t ELSE @]
            /\ events' = Append(events, [session |-> s, result |-> result])
            /\ spent' = [spent EXCEPT !.faults = IF error THEN @ + 1 ELSE @]

(* Interactions, changes of the document and the end of the view.           *)
InputEnds ==
    /\ input.active # None
    /\ \E outcome \in {"committed", "cancelled"} :
          Ends(input.active, outcome, "input", input.text)
    /\ UNCHANGED <<manager, session, calls, replies>>

(* A call on a session that is not the input's own: the end it remembers.   *)
Remembered(call) ==
    LET ended == input.ended[call.session]
    IN  Reply(call, call.kind # "update" /\ ended # NoResult, ended)

(* The four calls.  The manager never begins while the input has a session, *)
(* so that the end of a previous one at a begin is left out.                *)
Execute ==
    /\ calls # <<>>
    /\ calls' = Tail(calls)
    /\ LET call == Head(calls)
           s == call.session
           own == input.active = s
       IN  \/ /\ call.kind = "begin"
              /\ input' = [input EXCEPT !.active = s, !.text = 0]
              /\ Reply(call, TRUE, NoResult) /\ UNCHANGED <<events, spent>>
           \/ /\ call.kind = "update" /\ own
              /\ input' = [input EXCEPT !.text = call.text, !.shown[s] = call.text]
              /\ Reply(call, TRUE, NoResult) /\ UNCHANGED <<events, spent>>
           \/ /\ call.kind = "commit" /\ own
              /\ Ends(s, "committed", "consumer", call.text)
              /\ Reply(call, TRUE, input'.ended[s])
           \/ /\ call.kind \in {"cancel", "dispose"} /\ own
              /\ Ends(s, "cancelled", "consumer", input.text)
              /\ Reply(call, TRUE, input'.ended[s])
           \/ /\ call.kind # "begin" /\ ~ own
              /\ Remembered(call) /\ UNCHANGED <<input, events, spent>>
    /\ UNCHANGED <<manager, session>>

(* A call fails without an effect: the view does not take it, or refuses to *)
(* begin.  One that comes with the end of the view is not missed.           *)
CallFails ==
    /\ calls # <<>> /\ Head(calls).kind # "dispose" /\ spent.faults < MaxFaults
    /\ spent' = [spent EXCEPT !.faults = @ + 1]
    /\ calls' = Tail(calls)
    /\ Reply(Head(calls), FALSE, NoResult)
    /\ UNCHANGED <<manager, session, events, input>>

Next ==
    \/ Begin \/ BeginSerialized \/ BeginGoesOn \/ Dispose
    \/ \E s \in Ids : Update(s) \/ Commit(s) \/ Cancel(s)
    \/ HandleReply \/ HandleNativeEnd
    \/ Execute \/ CallFails \/ InputEnds

Spec == Init /\ [][Next]_vars

-----------------------------------------------------------------------------

Results == [outcome : {"none", "committed", "cancelled"},
            cause : {"none", "consumer", "input", "lifecycle"},
            text : 0..MaxTexts, error : BOOLEAN]
Promises == {"none", "open", "resolved", "rejected"}

(* An update waits only behind one in flight, and none is in flight once    *)
(* the closing call was made.                                              *)
TypeOK ==
    /\ manager \in [disposed : BOOLEAN, active : 0..MaxSessions, pending : 0..MaxSessions,
                    ended : BOOLEAN, stage : {"idle", "committing", "asked"},
                    waiting : 0..MaxSessions, awaited : 0..MaxSessions, begun : 0..MaxSessions]
    /\ \A s \in Ids :
          /\ session[s].result \in Results
          /\ session[s].closing \in {"no", "commit", "cancel"}
          /\ session[s].update \in [Texts -> Promises]
          /\ {session[s].commit, session[s].cancel} \subseteq Promises
          /\ {session[s].latest, session[s].final, session[s].flight, session[s].next}
                \subseteq 0..MaxTexts
          /\ session[s].flying \union session[s].nexts \union session[s].folded \subseteq Texts
          /\ (session[s].next # 0) <=> (session[s].nexts # {})
          /\ session[s].next # 0 => session[s].flight # 0
          /\ session[s].sent => session[s].flight = 0
          /\ input.ended[s] \in Results
    /\ input.active \in 0..MaxSessions

(* A commit that resolved put exactly its text into the document.           *)
CommitIsTrue ==
    \A s \in Ids :
        session[s].commit = "resolved" => /\ input.inserted[s] = session[s].final
                                          /\ input.ended[s].outcome = "committed"

(* One that was rejected put nothing there, unless its end was the input's  *)
(* own doing or the manager was disposed of meanwhile.                     *)
RejectedCommitInsertsNothing ==
    \A s \in Ids :
        session[s].commit = "rejected" /\ input.inserted[s] # 0 =>
            \/ input.ended[s].cause = "input"
            \/ manager.disposed
            \/ session[s].closing = "commit" /\ ~ Terminal(session[s])

(* The end the application is told of is the one that happened, whatever    *)
(* overtook what, unless the manager was disposed of.                      *)
EndIsTrue ==
    \A s \in Ids :
        Terminal(session[s]) /\ session[s].result.cause # "lifecycle" =>
            session[s].result = input.ended[s]

(* An update that resolved was shown, or a later text of its session was;   *)
(* nothing is claimed here of a session that is cancelled.                  *)
UpdateWasShown ==
    \A s \in Ids, t \in Texts :
        session[s].update[t] = "resolved" /\ session[s].cancel = "none" => input.shown[s] >= t

(* The same for every session: an update that was folded into a cancel was  *)
(* never shown and is rejected.                                            *)
CancelledUpdateIsRejected ==
    \A s \in Ids, t \in Texts :
        session[s].update[t] = "resolved" => input.shown[s] >= t

(* Nothing is on its way and nothing is about to be.                        *)
Quiet ==
    /\ calls = <<>> /\ replies = <<>> /\ events = <<>>
    /\ ~ ENABLED BeginSerialized /\ ~ ENABLED BeginGoesOn

(* When nothing is on its way no promise is open.                           *)
NobodyWaits ==
    Quiet =>
        /\ manager.stage = "idle"
        /\ \A s \in Ids :
              /\ session[s].commit # "open" /\ session[s].cancel # "open"
              /\ \A t \in Texts : session[s].update[t] # "open"

(* When nothing is on its way both sides have the same session, or none: a  *)
(* begin that a disposal overtook leaves none behind.                      *)
SidesAgree == Quiet => input.active = manager.active

(* And the input shows its latest text, unless one was refused.             *)
LatestIsShown ==
    Quiet /\ manager.active # None =>
        LET x == session[manager.active]
        IN  \/ input.text = x.latest
            \/ x.commit = "rejected"
            \/ \E t \in Texts : x.update[t] = "rejected"

=============================================================================
