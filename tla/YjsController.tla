---------------------------- MODULE YjsController ----------------------------
(***************************************************************************)
(* YjsCollaborationControllerImpl: the JavaScript side of a room.  It      *)
(* projects the transport's events onto a state with the document, and     *)
(* hands connection intents and local presence to the native side.         *)
(*                                                                         *)
(* JavaScript runs one call at a time.  The native side is an environment: *)
(* a document that others edit, a transport that wakes and owes an event,  *)
(* a caret that the native view moves by itself.  An event is numbered,    *)
(* reads the native state when it is emitted and waits in a queue; the     *)
(* controller reads the document only when it handles the event.  A        *)
(* controller may be followed by another one on the same handle, which     *)
(* hears what is left in the queue.                                        *)
(***************************************************************************)
EXTENDS Integers, Sequences

CONSTANTS Users,          \* users who may be published
          Carets,         \* positions of the caret
          MaxRevision,    \* bound of the model: edits of the document
          MaxEvents,      \* bound of the model: events emitted
          MaxControllers, \* bound of the model: controllers, one after the other
          MaxFaults,      \* bound of the model: native calls refused
          Radix           \* of the numerals; ten in the code

ControllerAssumption ==
    /\ MaxRevision \in Nat /\ MaxEvents \in Nat /\ MaxControllers \in Nat
    /\ MaxFaults \in Nat /\ Radix \in Nat \ {0, 1}

VARIABLES
    native,     \* the document's revision, 0 when awaited, and its transport
    presence,   \* the local presence the session holds
    queue,      \* events on their way to JavaScript
    controller, \* the controller
    spent       \* controllers begun and calls refused

vars == <<native, presence, queue, controller, spent>>

Nobody == "nobody"
Omitted == "omitted"
NoCaret == "none"
NoPresence == [user |-> Nobody, focused |-> FALSE, caret |-> NoCaret]
NoIntent == [user |-> Nobody, focused |-> FALSE, selection |-> Omitted]
NoSequence == <<>>

Gone == [alive |-> FALSE, connect |-> FALSE, desired |-> NoIntent, published |-> NoIntent,
         last |-> NoSequence, status |-> "Detached", revision |-> 0, json |-> 0,
         error |-> FALSE]

Init ==
    /\ native = [revision |-> 0, transport |-> "none", status |-> "Detached",
                 owed |-> FALSE, events |-> 0]
    /\ presence = NoPresence
    /\ queue = <<>>
    /\ controller = Gone
    /\ spent = [controllers |-> 0, faults |-> 0]

(* A native call fails, within the bound, and is counted.                   *)
Refused == spent.faults < MaxFaults /\ spent' = [spent EXCEPT !.faults = @ + 1]

-----------------------------------------------------------------------------
(* The native side, as far as it can be seen here.                         *)

(* The document changes.  Only a transport that is on reports it.           *)
DocumentChanges ==
    /\ native.revision < MaxRevision
    /\ native' = [native EXCEPT !.revision = @ + 1, !.owed = @ \/ native.transport = "on"]
    /\ UNCHANGED <<presence, queue, controller, spent>>

TransportMoves ==
    /\ native.transport = "on"
    /\ \E s \in {"Disconnected", "Synchronized"} \ {native.status} :
          native' = [native EXCEPT !.status = s, !.owed = TRUE]
    /\ UNCHANGED <<presence, queue, controller, spent>>

(* The view publishes its caret, if there is a presence to carry it.        *)
CaretMoves(c) ==
    /\ presence # NoPresence /\ presence.caret # c
    /\ presence' = [presence EXCEPT !.caret = c]
    /\ UNCHANGED <<native, queue, controller, spent>>

Numeral[n \in 0..MaxEvents] ==
    IF n < Radix THEN <<n>> ELSE Numeral[n \div Radix] \o <<n % Radix>>

(* The worker emits a state event for what happened, or an error.           *)
Emit ==
    /\ native.transport # "none" /\ native.events < MaxEvents
    /\ \E kind \in IF native.owed THEN {"state"} ELSE {"error"} :
          queue' = Append(queue, [kind |-> kind, sequence |-> Numeral[native.events + 1],
                                  status |-> native.status, revision |-> native.revision])
    /\ native' = [native EXCEPT !.events = @ + 1, !.owed = FALSE]
    /\ UNCHANGED <<presence, controller, spent>>

(* configureCollaborationTransport, as the registry carries it out.         *)
Configured(transport) ==
    [native EXCEPT !.transport = transport,
                   !.status = IF transport = "none" THEN "Detached"
                              ELSE IF native.transport = transport THEN @
                              ELSE "Disconnected",
                   !.owed = transport # "none"]

-----------------------------------------------------------------------------
(* What the native side is told of the local user.                         *)

(* A selection that is not stated leaves the caret alone.                   *)
Published(intent) ==
    [user |-> intent.user, focused |-> intent.focused,
     caret |-> IF intent.selection = Omitted THEN presence.caret ELSE intent.selection]

(* A mutation: what was desired counts as published though it was refused.  *)
PublishAhead(intent) ==
    \/ /\ intent = controller.published
       /\ UNCHANGED <<presence, controller, spent>>
    \/ /\ intent # controller.published
       /\ presence' = Published(intent)
       /\ controller' = [controller EXCEPT !.desired = intent, !.published = intent]
       /\ UNCHANGED spent
    \/ /\ intent # controller.published
       /\ Refused
       /\ controller' = [controller EXCEPT !.desired = intent, !.error = TRUE]
       /\ UNCHANGED presence

(* publishAwareness: an intent identical to the last one accepted is        *)
(* skipped; a refusal is reported and the candidate discarded.              *)
PublishAwareness(intent) ==
    \/ /\ intent = controller.published
       /\ UNCHANGED <<presence, controller, spent>>
    \/ /\ intent # controller.published
       /\ presence' = Published(intent)
       /\ controller' = [controller EXCEPT !.desired = intent, !.published = intent]
       /\ UNCHANGED spent
    \/ /\ intent # controller.published
       /\ Refused
       /\ controller' = [controller EXCEPT !.error = TRUE]
       /\ UNCHANGED presence

(* mergeAwarenessPartial: user and focus are kept unless they are stated, a *)
(* selection is passed on only when it is.                                  *)
Merged(base, partial) ==
    [user      |-> IF partial.user = Nobody THEN base.user ELSE partial.user,
     focused   |-> IF partial.focused = Omitted THEN base.focused ELSE partial.focused = "yes",
     selection |-> partial.selection]

(* updateLocalAwareness: without a presence only a user begins one.         *)
UpdateLocalAwareness(partial) ==
    /\ controller.alive
    /\ controller.desired # NoIntent \/ partial.user # Nobody
    /\ PublishAwareness(Merged(controller.desired, partial))
    /\ UNCHANGED <<native, queue>>

Partials ==
    [user : {Nobody} \union Users, focused : {Omitted, "yes", "no"},
     selection : {Omitted, NoCaret} \union Carets]

(* applyLocalAwarenessOption(undefined).                                    *)
Withdraw ==
    /\ controller.alive
    /\ \/ /\ presence' = NoPresence
          /\ controller' = [controller EXCEPT !.desired = NoIntent, !.published = NoIntent]
          /\ UNCHANGED spent
       \/ /\ Refused
          /\ controller' = [controller EXCEPT !.error = TRUE]
          /\ UNCHANGED presence

(* applyLocalAwarenessOption(user).                                         *)
ApplyUser(user) ==
    /\ controller.alive
    /\ PublishAwareness([user |-> user, focused |-> controller.desired.focused,
                         selection |-> Omitted])

ApplyOption(user) ==
    /\ IF user = Nobody THEN Withdraw ELSE ApplyUser(user)
    /\ UNCHANGED <<native, queue>>

-----------------------------------------------------------------------------
(* The projection of the transport's state.                                *)

(* A mutation: numerals are compared as the strings they are.               *)
NewerString(candidate, current) ==
    \/ current = NoSequence
    \/ /\ Len(candidate) > Len(current)
       /\ current = SubSeq(candidate, 1, Len(current))
    \/ \E i \in DOMAIN candidate \intersect DOMAIN current :
          /\ candidate[i] > current[i]
          /\ \A j \in 1..(i - 1) : candidate[j] = current[j]

(* isStrictlyNewerSequence: longer numerals are greater, and those of one   *)
(* length compare as strings.                                               *)
Newer(candidate, current) ==
    \/ current = NoSequence
    \/ Len(candidate) > Len(current)
    \/ /\ Len(candidate) = Len(current)
       /\ \E i \in DOMAIN candidate :
             /\ candidate[i] > current[i]
             /\ \A j \in 1..(i - 1) : candidate[j] = current[j]

(* readEngineState: the document of a revision already shown is kept, that  *)
(* of another is read as it is now.                                         *)
DocumentAt(c, revision) ==
    IF revision = 0 THEN 0
    ELSE IF c.revision = revision /\ c.json # 0 THEN c.json
    ELSE native.revision

Reads(c, revision) == revision # 0 /\ ~ (c.revision = revision /\ c.json # 0)

Shown(c, status, revision) ==
    [c EXCEPT !.status = status, !.revision = revision, !.json = DocumentAt(c, revision),
              !.error = FALSE]

HandleTransportEvent ==
    LET event == Head(queue)
        heard == [controller EXCEPT !.last = event.sequence]
    IN  /\ queue # <<>>
        /\ queue' = Tail(queue)
        /\ IF ~ controller.alive \/ ~ Newer(event.sequence, controller.last)
           THEN UNCHANGED <<controller, spent>>
           ELSE IF event.kind = "error"
           THEN controller' = [heard EXCEPT !.error = TRUE] /\ UNCHANGED spent
           ELSE \/ controller' = Shown(heard, event.status, event.revision) /\ UNCHANGED spent
                \/ /\ Reads(controller, event.revision) /\ Refused
                   /\ controller' = [heard EXCEPT !.error = TRUE]
        /\ UNCHANGED <<native, presence>>

-----------------------------------------------------------------------------
(* The life of controllers.                                                *)

(* The constructor: it reads the state, listens, applies the option and     *)
(* configures the transport; a refusal at the end leaves no controller,     *)
(* though the presence was handed on.  An awareness refusal only reports.   *)
Construct(user, connect) ==
    LET begun == Shown([Gone EXCEPT !.alive = TRUE, !.connect = connect],
                       native.status, native.revision)
        intent == [user |-> user, focused |-> FALSE, selection |-> Omitted]
        given == IF user = Nobody THEN NoIntent ELSE intent
        transport == IF connect THEN "on" ELSE "off"
    IN  /\ ~ controller.alive /\ spent.controllers < MaxControllers
        /\ \/ /\ controller' = [begun EXCEPT !.desired = given, !.published = given]
              /\ presence' = IF user = Nobody THEN NoPresence ELSE Published(intent)
              /\ native' = Configured(transport)
              /\ spent' = [spent EXCEPT !.controllers = @ + 1]
           \/ /\ spent.faults < MaxFaults
              /\ spent' = [controllers |-> spent.controllers + 1, faults |-> spent.faults + 1]
              /\ \/ /\ controller' = [begun EXCEPT !.error = TRUE]
                    /\ native' = Configured(transport)
                    /\ UNCHANGED presence
                 \/ /\ presence' = IF user = Nobody THEN NoPresence ELSE Published(intent)
                    /\ UNCHANGED <<controller, native>>
        /\ UNCHANGED queue

(* connect and disconnect: the intent is kept though it may be refused.     *)
SetConnectionEnabled(connect) ==
    /\ controller.alive
    /\ controller' = [controller EXCEPT !.connect = connect]
    /\ \/ native' = Configured(IF connect THEN "on" ELSE "off") /\ UNCHANGED spent
       \/ Refused /\ UNCHANGED native
    /\ UNCHANGED <<presence, queue>>

(* reconnect: off and on again; either half may be refused.                 *)
Reconnect ==
    /\ controller.alive
    /\ \/ /\ controller' = [controller EXCEPT !.connect = TRUE]
          /\ native' = [Configured("on") EXCEPT !.status = "Disconnected"]
          /\ UNCHANGED spent
       \/ Refused /\ UNCHANGED <<controller, native>>
       \/ /\ Refused
          /\ controller' = [controller EXCEPT !.connect = TRUE]
          /\ native' = Configured("off")
    /\ UNCHANGED <<presence, queue>>

Destroy ==
    /\ controller.alive
    /\ controller' = Gone
    /\ \/ native' = Configured("none") /\ UNCHANGED spent
       \/ Refused /\ UNCHANGED native
    /\ UNCHANGED <<presence, queue>>

Next ==
    \/ DocumentChanges \/ TransportMoves \/ Emit
    \/ \E c \in Carets : CaretMoves(c)
    \/ \E p \in Partials : UpdateLocalAwareness(p)
    \/ \E u \in {Nobody} \union Users : ApplyOption(u)
    \/ HandleTransportEvent
    \/ \E u \in {Nobody} \union Users, c \in BOOLEAN : Construct(u, c)
    \/ \E c \in BOOLEAN : SetConnectionEnabled(c)
    \/ Reconnect \/ Destroy

Spec == Init /\ [][Next]_vars

-----------------------------------------------------------------------------

Statuses == {"Detached", "Disconnected", "Synchronized"}
Intents == [user : {Nobody} \union Users, focused : BOOLEAN,
            selection : {Omitted, NoCaret} \union Carets]

TypeOK ==
    /\ native \in [revision : 0..MaxRevision, transport : {"none", "off", "on"},
                   status : Statuses, owed : BOOLEAN, events : 0..MaxEvents]
    /\ presence \in [user : {Nobody} \union Users, focused : BOOLEAN,
                     caret : {NoCaret} \union Carets]
    /\ controller.desired \in Intents /\ controller.published \in Intents
    /\ controller.status \in Statuses
    /\ controller.revision \in 0..MaxRevision /\ controller.json \in 0..MaxRevision
    /\ spent \in [controllers : 0..MaxControllers, faults : 0..MaxFaults]

(* The document is shown with a revision no newer than it, and is absent    *)
(* exactly when the room's document is awaited: an editor that reads the    *)
(* revision may take the document for at least that.                       *)
DocumentCoversRevision ==
    /\ controller.json >= controller.revision
    /\ controller.json = 0 <=> controller.revision = 0

(* Once the transport has nothing more to say, what the application sees is *)
(* what the session holds, unless the last event failed: no event is taken  *)
(* for an old one, and no document kept for a new one.                     *)
CatchesUp ==
    controller.alive /\ native.transport = "on" /\ ~ native.owed /\ queue = <<>>
    /\ ~ controller.error
    => /\ controller.status = native.status
       /\ controller.revision = native.revision
       /\ controller.json = native.revision

(* What the controller takes for published is what the session publishes    *)
(* for it, whatever was refused: user and focus, the caret being the view's *)
(* own.                                                                    *)
PublishedIsHeld ==
    controller.published # NoIntent =>
        /\ controller.desired = controller.published
        /\ presence.user = controller.published.user
        /\ presence.focused = controller.published.focused

(* No presence without a user: once it was withdrawn, a change of focus or  *)
(* selection does not bring it back.                                       *)
NeverAnonymous == presence # NoPresence => presence.user # Nobody

(* Withdrawing ends the presence, a predecessor's too, unless it is refused *)
(* and the refusal reported.                                               *)
WithdrawnIsGone ==
    controller.alive /\ controller.desired = NoIntent /\ spent.faults = 0 =>
        presence = NoPresence

(* A caret the application states, and that is not refused, is the one the  *)
(* session publishes: skipping an intent loses nothing.                    *)
StatedCaretIsPublished ==
    [][\A p \in Partials :
          p.selection # Omitted /\ UpdateLocalAwareness(p) /\ spent' = spent
          => presence'.caret = p.selection]_vars

=============================================================================
