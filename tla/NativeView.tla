----------------------------- MODULE NativeView -----------------------------
(***************************************************************************)
(* A native text view over a session: EditorV2Adapter fetches frames of    *)
(* the document, installs them and hands them to the view; the user acts   *)
(* on what the view shows, and the intent is resolved from the position    *)
(* epoch the adapter holds.  The adapter and the view live on the main     *)
(* thread; between any two of their calls of the session other threads may *)
(* move the document.                                                      *)
(*                                                                         *)
(* The session keeps, for each owner (a binding token of a view), the      *)
(* revision of the last frame it was given (its cursor), from which the    *)
(* next frame is a delta, and one pinned position epoch.  A document is    *)
(* its revision.  Epoch ids are used again once nobody holds them.  Calls  *)
(* that only release are taken with the step before them.                  *)
(***************************************************************************)
EXTENDS Integers, FiniteSets
LOCAL INSTANCE FiniteSetsExt

CONSTANTS Owners,       \* binding tokens
          MaxRevision,  \* bound of the model: revisions of the document
          MaxFaults,    \* bound of the model: calls of the session that fail
          Resets,       \* whether the application resets the document
          Reads,        \* whether the view reads the state without showing it
          Epochless     \* whether the user acts while the adapter has no epoch

ViewAssumption ==
    /\ IsFiniteSet(Owners) /\ MaxRevision \in Nat /\ MaxFaults \in Nat
    /\ Resets \in BOOLEAN /\ Reads \in BOOLEAN /\ Epochless \in BOOLEAN

VARIABLES
    session,  \* revision, and by owner the cursor and the pinned epoch
    adapter,  \* owner, epoch, installed frame, base revision, adopted state
    view,     \* the revision the text shows, and whether patches may apply
    task,     \* what the main thread is doing
    noticed,  \* a change by others has not been shown yet
    edit,     \* the latest applied intent: its revision, or Nothing
    faults    \* calls that failed so far

vars == <<session, adapter, view, task, noticed, edit, faults>>

Nothing == -1
Revisions == 0..MaxRevision
MaybeRevision == Revisions \union {Nothing}
NoOwner == 0
NoEpoch == 0
EpochIds == 1..Cardinality(Owners) + 2

NoPin == [epoch |-> NoEpoch, revision |-> Nothing]

(* What the main thread does next, and for whom it fetches a frame.         *)
Steps == {"idle", "fetch", "refetch", "submit", "pin", "replace", "seed", "claimPin"}
Callers == {"view", "read", "break", "before", "after", "unchanged", "reset", "none"}

(* What the user does: move the selection, type, or type through the input  *)
(* connection, which wants a full frame when nothing changed.              *)
Intents == {"select", "type", "input", "none"}

Idle == [step |-> "idle", caller |-> "none", intent |-> "none", positions |-> Nothing]

(* A view is bound whose first fetch has failed.                            *)
Init ==
    /\ session = [revision |-> 0,
                  cursors  |-> [o \in Owners |-> Nothing],
                  pins     |-> [o \in Owners |-> NoPin]]
    /\ adapter = [owner |-> NoOwner, epoch |-> NoEpoch, installed |-> Nothing,
                  base |-> Nothing, state |-> Nothing]
    /\ view = [text |-> Nothing, patchable |-> FALSE]
    /\ task = Idle
    /\ noticed = FALSE
    /\ edit = Nothing
    /\ faults = 0

-----------------------------------------------------------------------------
(* The session.                                                            *)

FreshEpoch ==
    Min(EpochIds \ ({adapter.epoch} \union {session.pins[o].epoch : o \in Owners}))

Pinned(s, o) ==
    [s EXCEPT !.pins[o] = [epoch |-> FreshEpoch, revision |-> s.revision]]

WithCursor(s, o) == [s EXCEPT !.cursors[o] = s.revision]

Released(s, o) ==
    IF o = NoOwner THEN s ELSE [s EXCEPT !.cursors[o] = Nothing, !.pins[o] = NoPin]

(* build_native_frame: a delta from the owner's cursor, or a full frame.    *)
Frame(o) ==
    LET base == IF o = NoOwner THEN Nothing ELSE session.cursors[o]
    IN  [full     |-> base = Nothing,
         base     |-> base,
         revision |-> session.revision,
         epoch    |-> IF o = NoOwner THEN NoEpoch ELSE FreshEpoch]

AfterFrame(o) == IF o = NoOwner THEN session ELSE WithCursor(Pinned(session, o), o)

EpochIsLive ==
    /\ adapter.owner # NoOwner
    /\ adapter.epoch # NoEpoch
    /\ session.pins[adapter.owner].epoch = adapter.epoch

OwnerRenderIsCurrent(o) == session.cursors[o] = session.revision

-----------------------------------------------------------------------------
(* The adapter and the view.                                               *)

Admissible(frame) == frame.full \/ frame.base = adapter.installed

Adopted(frame) ==
    [adapter EXCEPT !.installed = frame.revision, !.base = frame.revision,
                    !.state = frame.revision,
                    !.epoch = IF frame.epoch = NoEpoch THEN @ ELSE frame.epoch]

Fault == faults < MaxFaults /\ faults' = faults + 1

(* A call fails because the session refuses it, or for any other reason.    *)
Fails(refused) == (refused /\ UNCHANGED faults) \/ Fault

Fetching(caller) == task' = [task EXCEPT !.step = "fetch", !.caller = caller]

(* recoverNativeRender: with the binding's cursor forgotten the next frame  *)
(* is full.                                                                *)
RecoverFrom(s, a) ==
    /\ session' = Released(s, a.owner)
    /\ adapter' = [a EXCEPT !.epoch = NoEpoch]
    /\ Fetching("view")

(* applyUpdateJSON: a patch whose base is not what the text shows makes the *)
(* view recover.                                                           *)
Show(frame, s, a) ==
    IF frame.full \/ (view.patchable /\ frame.base = view.text)
    THEN /\ view' = [text |-> frame.revision, patchable |-> TRUE]
         /\ session' = s
         /\ adapter' = a
         /\ task' = Idle
    ELSE /\ view' = [view EXCEPT !.patchable = FALSE]
         /\ RecoverFrom(s, a)

(* An intent took effect and its render is handed back.  A selection's      *)
(* update is shown only when the revision has moved.                       *)
ShowIntent(frame, s, a) ==
    IF task.intent = "select" /\ frame.revision = task.positions
    THEN /\ session' = s
         /\ adapter' = a
         /\ task' = Idle
         /\ UNCHANGED view
    ELSE Show(frame, s, a)

(* What the caller of a refresh does with the frame it installed.           *)
Installed(frame, s, a) ==
    CASE task.caller = "view"      -> Show(frame, s, a) /\ UNCHANGED edit
      [] task.caller = "read"      ->
            /\ session' = s
            /\ adapter' = a
            /\ task' = Idle
            /\ UNCHANGED <<view, edit>>
      [] task.caller \in {"break", "before"} ->
            /\ session' = s
            /\ adapter' = a
            /\ task' = [task EXCEPT !.step = "submit"]
            /\ UNCHANGED <<view, edit>>
      [] task.caller = "after"     ->
            IF task.intent = "input" /\ edit = Nothing
            THEN /\ session' = s
                 /\ adapter' = a
                 /\ Fetching("unchanged")
                 /\ UNCHANGED <<view, edit>>
            ELSE ShowIntent(frame, s, a) /\ UNCHANGED edit
      [] task.caller = "unchanged" ->
            /\ session' = s
            /\ adapter' = a
            /\ task' = [task EXCEPT !.step = "pin"]
            /\ UNCHANGED <<view, edit>>
      [] task.caller = "reset"     ->
            \/ Show(frame, s, a) /\ UNCHANGED edit
            \/ /\ session' = s
               /\ adapter' = a
               /\ task' = [task EXCEPT !.step = "replace"]
               /\ UNCHANGED <<view, edit>>

(* A mutation: an intent whose render was lost reports its success anyway.  *)
FailedKeepsOutcome(s) ==
    /\ session' = s
    /\ adapter' = adapter
    /\ task' = Idle
    /\ UNCHANGED <<view, edit>>

(* performNativeIntent: the next call for an intent.                        *)
ForIntent(caller) ==
    [task EXCEPT !.step = IF adapter.epoch = NoEpoch THEN "fetch" ELSE "submit",
                 !.caller = caller]

(* The refresh failed: after an intent the adapter recovers, a hard break   *)
(* goes on with the node type it falls back to, otherwise the task ends    *)
(* with nothing shown.                                                     *)
Failed(s) ==
    IF task.caller \in {"after", "unchanged"}
    THEN RecoverFrom(s, adapter) /\ UNCHANGED <<view, edit>>
    ELSE /\ session' = s
         /\ adapter' = adapter
         /\ task' = IF task.caller = "break" THEN ForIntent("before") ELSE Idle
         /\ edit' = Nothing
         /\ UNCHANGED view

(* refreshInternal: a call for a frame, its error, or a frame that is       *)
(* installed or refused.  A refused delta releases the binding and asks     *)
(* once more.                                                              *)
FetchOwner == IF task.caller = "unchanged" THEN NoOwner ELSE adapter.owner

ForRefetch(s) == Released(s, FetchOwner)

Fetch ==
    /\ task.step \in {"fetch", "refetch"}
    /\ LET frame == Frame(FetchOwner)
           after == AfterFrame(FetchOwner)
       IN  \/ Fault /\ Failed(session)
           \/ Admissible(frame) /\ Installed(frame, after, Adopted(frame)) /\ UNCHANGED faults
           \/ /\ Fails(~ Admissible(frame))
              /\ IF task.step = "fetch" /\ ~ frame.full
                 THEN /\ session' = ForRefetch(after)
                      /\ task' = [task EXCEPT !.step = "refetch"]
                      /\ UNCHANGED <<adapter, view, edit>>
                 ELSE Failed(after)
    /\ UNCHANGED noticed

(* A mutation: every intent is sent after a refresh.                        *)
ActAfterRefresh ==
    /\ task = Idle
    /\ adapter.owner # NoOwner /\ view.text # Nothing
    /\ adapter.epoch = NoEpoch => Epochless
    /\ \E intent \in Intents \ {"none"} :
          task' = [step |-> "fetch", caller |-> "before", intent |-> intent,
                   positions |-> view.text]
    /\ edit' = Nothing
    /\ UNCHANGED <<session, adapter, view, noticed, faults>>

(* performNativeIntent, from what the view shows.                           *)
Act ==
    /\ task = Idle
    /\ adapter.owner # NoOwner /\ view.text # Nothing
    /\ adapter.epoch = NoEpoch => Epochless
    /\ \E intent \in Intents \ {"none"} :
          task' = [ForIntent("before") EXCEPT !.intent = intent, !.positions = view.text]
    /\ edit' = Nothing
    /\ UNCHANGED <<session, adapter, view, noticed, faults>>

(* Tab asks whether the selection is in a list and Shift+Enter which node   *)
(* breaks a line, of the document as it is now, and both then act on the   *)
(* selection in the text.                                                  *)
ActReading ==
    /\ Reads
    /\ task = Idle
    /\ adapter.owner # NoOwner /\ view.text # Nothing
    /\ \E caller \in {"break", "before"} :
          task' = [step |-> "fetch", caller |-> caller, intent |-> "type",
                   positions |-> view.text]
    /\ edit' = Nothing
    /\ UNCHANGED <<session, adapter, view, noticed, faults>>

(* The toolbar, the start of an external composition, or a Tab outside a    *)
(* list, reads the state and shows nothing of the frame it comes with.     *)
Read ==
    /\ Reads
    /\ task = Idle
    /\ Fetching("read")
    /\ edit' = Nothing
    /\ UNCHANGED <<session, adapter, view, noticed, faults>>

(* The session refuses an intent whose epoch it has forgotten, and the      *)
(* adapter shows the document as it is now.                                *)
SubmitStale ==
    /\ task.step = "submit" /\ ~ EpochIsLive
    /\ Fetching("view")
    /\ UNCHANGED <<session, adapter, view, noticed, edit, faults>>

SubmitRefused ==
    /\ task.step = "submit" /\ EpochIsLive
    /\ task' = Idle
    /\ UNCHANGED <<session, adapter, view, noticed, edit, faults>>

(* adoptSelectionState: the answer of a selection carries the state of the  *)
(* selection when the session knows the owner's frame to be current.       *)
SubmitSelection ==
    /\ task.step = "submit" /\ EpochIsLive /\ task.intent = "select"
    /\ IF OwnerRenderIsCurrent(adapter.owner) /\ adapter.base = adapter.installed
       THEN /\ adapter' = [adapter EXCEPT !.state = session.revision]
            /\ task' = Idle
       ELSE /\ UNCHANGED adapter
            /\ Fetching("after")
    /\ edit' = Nothing
    /\ UNCHANGED <<session, view, noticed, faults>>

SubmitEdit ==
    /\ task.step = "submit" /\ EpochIsLive /\ task.intent \in {"type", "input"}
    /\ \/ /\ session.revision < MaxRevision
          /\ session' = [session EXCEPT !.revision = @ + 1]
          /\ edit' = session.revision + 1
       \/ UNCHANGED session /\ edit' = Nothing
    /\ Fetching("after")
    /\ UNCHANGED <<adapter, view, noticed, faults>>

(* refreshUnchangedNativeOutcome: an ownerless full frame carries no epoch; *)
(* it is pinned, if the document has not moved on.                         *)
PinUnchanged ==
    /\ task.step = "pin"
    /\ \/ /\ session.revision = adapter.base
          /\ Show([full |-> TRUE, base |-> Nothing, revision |-> adapter.installed],
                  Pinned(session, adapter.owner), [adapter EXCEPT !.epoch = FreshEpoch])
          /\ UNCHANGED <<edit, faults>>
       \/ /\ Fails(session.revision # adapter.base)
          /\ RecoverFrom(session, adapter)
          /\ UNCHANGED <<view, edit>>
    /\ UNCHANGED noticed

-----------------------------------------------------------------------------
(* Bindings, notices and the application.                                  *)

(* claimNativeBinding: the displaced binding is released, and the frame     *)
(* already installed becomes the new owner's, if it is still the document. *)
Claim(o) ==
    /\ task = Idle
    /\ adapter.owner # o
    /\ session' = Released(session, adapter.owner)
    /\ adapter' = [adapter EXCEPT !.owner = o, !.epoch = NoEpoch]
    /\ task' = IF adapter.installed # Nothing /\ adapter.installed = adapter.base
               THEN [Idle EXCEPT !.step = "seed"] ELSE Idle
    /\ edit' = Nothing
    /\ UNCHANGED <<view, noticed, faults>>

Seed ==
    /\ task.step = "seed"
    /\ \/ /\ session.revision = adapter.installed
          /\ session' = WithCursor(session, adapter.owner)
          /\ task' = [task EXCEPT !.step = "claimPin"]
          /\ UNCHANGED faults
       \/ /\ Fails(session.revision # adapter.installed)
          /\ task' = Idle
          /\ UNCHANGED session
    /\ UNCHANGED <<adapter, view, noticed, edit>>

ClaimPin ==
    /\ task.step = "claimPin"
    /\ \/ /\ session.revision = adapter.installed
          /\ session' = Pinned(session, adapter.owner)
          /\ adapter' = [adapter EXCEPT !.epoch = FreshEpoch]
          /\ UNCHANGED faults
       \/ /\ Fails(session.revision # adapter.installed)
          /\ UNCHANGED <<session, adapter>>
    /\ task' = Idle
    /\ UNCHANGED <<view, noticed, edit>>

(* releaseNativeBindingOwner.                                               *)
Unclaim ==
    /\ task = Idle
    /\ adapter.owner # NoOwner
    /\ session' = Released(session, adapter.owner)
    /\ adapter' = [adapter EXCEPT !.owner = NoOwner, !.epoch = NoEpoch]
    /\ edit' = Nothing
    /\ UNCHANGED <<view, task, noticed, faults>>

(* A view is bound to the editor: it starts from a full frame.              *)
Bind ==
    /\ task = Idle
    /\ view' = [view EXCEPT !.patchable = FALSE]
    /\ RecoverFrom(session, adapter)
    /\ edit' = Nothing
    /\ UNCHANGED <<noticed, faults>>

(* A new theme, or text that is not the authorized one: the state is read   *)
(* and shown.                                                              *)
Redraw ==
    /\ task = Idle
    /\ Fetching("view")
    /\ edit' = Nothing
    /\ UNCHANGED <<session, adapter, view, noticed, faults>>

(* performMutation: a command of the adapter's own, refused unless it is    *)
(* based on the session's revision.                                        *)
Mutate ==
    /\ task = Idle
    /\ adapter.base # Nothing
    /\ \/ /\ session.revision = adapter.base /\ session.revision < MaxRevision
          /\ session' = [session EXCEPT !.revision = @ + 1]
          /\ adapter' = [adapter EXCEPT !.base = session.revision + 1]
       \/ session.revision # adapter.base /\ UNCHANGED <<session, adapter>>
    /\ Fetching("view")
    /\ edit' = Nothing
    /\ UNCHANGED <<view, noticed, faults>>

(* Another thread changes the document; the view is told.                   *)
OthersCommit ==
    /\ session.revision < MaxRevision
    /\ session' = [session EXCEPT !.revision = @ + 1]
    /\ noticed' = TRUE
    /\ UNCHANGED <<adapter, view, task, edit, faults>>

(* adoptExternalRender.                                                     *)
Notice ==
    /\ task = Idle
    /\ noticed
    /\ noticed' = FALSE
    /\ Fetching("view")
    /\ edit' = Nothing
    /\ UNCHANGED <<session, adapter, view, faults>>

(* adoptExternalReset: the document as it is now is installed, and may then *)
(* be replaced; the replacement may be refused.                            *)
Reset ==
    /\ Resets
    /\ task = Idle
    /\ Fetching("reset")
    /\ edit' = Nothing
    /\ UNCHANGED <<session, adapter, view, noticed, faults>>

Replace ==
    /\ task.step = "replace"
    /\ \/ /\ session.revision < MaxRevision
          /\ session' = [session EXCEPT !.revision = @ + 1]
          /\ Fetching("view")
       \/ UNCHANGED session /\ task' = Idle
    /\ UNCHANGED <<adapter, view, noticed, edit, faults>>

Step ==
    \/ Fetch
    \/ SubmitStale \/ SubmitRefused \/ SubmitSelection \/ SubmitEdit
    \/ PinUnchanged \/ Seed \/ ClaimPin \/ Replace

Next ==
    \/ Step
    \/ Act \/ ActReading \/ Read \/ Redraw
    \/ Mutate \/ Bind \/ Unclaim \/ Notice \/ Reset
    \/ \E o \in Owners : Claim(o)
    \/ OthersCommit

Spec == Init /\ [][Next]_vars

(* The main thread goes on with its task, and its looper, a queue, comes to *)
(* a notice posted between two tasks however many are posted after it.     *)
FairSpec == Spec /\ WF_vars(Step) /\ SF_vars(Notice)

-----------------------------------------------------------------------------

TypeOK ==
    /\ session \in [revision : Revisions, cursors : [Owners -> MaybeRevision],
                    pins : [Owners -> [epoch : EpochIds \union {NoEpoch},
                                       revision : MaybeRevision]]]
    /\ adapter \in [owner : Owners \union {NoOwner}, epoch : EpochIds \union {NoEpoch},
                    installed : MaybeRevision, base : MaybeRevision, state : MaybeRevision]
    /\ view \in [text : MaybeRevision, patchable : BOOLEAN]
    /\ task \in [step : Steps, caller : Callers, intent : Intents, positions : MaybeRevision]
    /\ noticed \in BOOLEAN /\ edit \in MaybeRevision /\ faults \in 0..MaxFaults

(* An epoch the session still honours names the positions of the frame the  *)
(* adapter has installed, whenever the user may act on it.                 *)
EpochShowsFrame ==
    task.step \in {"idle", "submit"} /\ EpochIsLive =>
        session.pins[adapter.owner].revision = adapter.installed

(* An epoch the session still honours names the positions of the text on    *)
(* the screen: what the user points at is what the intent changes.         *)
EpochShowsText ==
    task.step = "idle" /\ EpochIsLive /\ view.text # Nothing =>
        session.pins[adapter.owner].revision = view.text

(* An intent is resolved from the document its positions were taken from.   *)
InputIsMapped ==
    task.step = "submit" /\ EpochIsLive =>
        session.pins[adapter.owner].revision = task.positions

(* As long as no call failed, that is so of every intent, whatever was read *)
(* before it, unless a change by others waits to be shown.                 *)
SettledIsMapped ==
    task.step = "submit" /\ EpochIsLive /\ ~ noticed /\ faults = 0 =>
        session.pins[adapter.owner].revision = task.positions

(* The state of the selection the adapter caches, with its scalar length    *)
(* and its document positions, is that of the frame it has installed.      *)
SelectionOnItsFrame == adapter.state = adapter.installed

(* A second fetch always gets a full frame: a frame of the wrong base costs *)
(* one more call and no error.                                             *)
RefetchIsFull == task.step = "refetch" => Frame(FetchOwner).full

(* Between tasks the session keeps a cursor and an epoch for the current    *)
(* binding alone; those of replaced and released ones do not pile up until *)
(* the session's limit refuses the view.                                   *)
OnlyOwnerIsKept ==
    task = Idle => \A o \in Owners \ {adapter.owner} :
                      session.cursors[o] = Nothing /\ session.pins[o] = NoPin

(* When an intent is reported as applied, the installed frame has it.       *)
EditIsInstalled == task = Idle /\ edit # Nothing => adapter.installed >= edit

(* If no call fails, the text shows every change of the document in the     *)
(* end.                                                                    *)
TextCatchesUp == noticed ~> view.text = session.revision

=============================================================================
