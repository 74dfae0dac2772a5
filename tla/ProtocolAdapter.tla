--------------------------- MODULE ProtocolAdapter --------------------------
(***************************************************************************)
(* The prelude of a connection: before any Yjs traffic an adapter in       *)
(* JavaScript answers the opening of the socket and each frame of the      *)
(* peer, asynchronously, while the Android host buffers what arrives, a    *)
(* timer runs, and the socket may be closed, replaced and opened again     *)
(* (AndroidCollaborationTransport.kt, NativeEditorDocumentBridge.ts).      *)
(*                                                                         *)
(* A handler of the worker is one step.  The session is kept as the state  *)
(* of its transport; TransportHost has the rest.  An attempt stands for    *)
(* the generation, the socket token and the attempt id, which are issued   *)
(* together.                                                               *)
(***************************************************************************)
EXTENDS Integers, Sequences

CONSTANTS
    MAXIMUM_PRE_READY_FRAMES,
    MaxAttempts,  \* bound: sockets opened
    MaxFrames     \* bound: frames of the peer on one socket

AdapterBounds ==
    /\ {MAXIMUM_PRE_READY_FRAMES, MaxAttempts, MaxFrames} \subseteq Nat \ {0}

Attempts == 1 .. MaxAttempts
NoAttempt == 0
NoEvent == 0

VARIABLES
    host,       \* the fields of the transport that concern the prelude
    session,    \* the state of the session's transport
    foreground, \* the host may drive
    attempts,   \* sockets opened so far
    socket,     \* the network's side of each attempt
    queue,      \* the tasks of the worker
    asked,      \* the callbacks of the adapter that have not answered
    sent,       \* history: the frames the peer sent on each attempt
    heard,      \* history: who was given each of them, in order
    ready       \* history: the attempts whose adapter answered ready

vars == <<host, session, foreground, attempts, socket, queue, asked, sent,
          heard, ready>>

Idle ==
    [attempt |-> NoAttempt, networkSocketOpened |-> FALSE,
     socketOpened |-> FALSE, pending |-> NoEvent, events |-> 0,
     buffer |-> <<>>, timer |-> FALSE]

Init ==
    /\ host = Idle
    /\ session = "Disconnected"
    /\ foreground = TRUE
    /\ attempts = 0
    /\ socket = [a \in Attempts |-> "none"]
    /\ queue = <<>>
    /\ asked = {}
    /\ sent = [a \in Attempts |-> <<>>]
    /\ heard = [a \in Attempts |-> <<>>]
    /\ ready = {}

InPrelude == host.networkSocketOpened /\ ~host.socketOpened

-----------------------------------------------------------------------------
(* What a handler does, as parts of a step.                                *)

(* failCurrentSocket and reportCurrentSocketClose: the session parks on a  *)
(* policy violation and retries after any other end.                       *)
Close(disposition) ==
    /\ host' = Idle
    /\ session' = disposition
    /\ socket' = [socket EXCEPT ![host.attempt] = "ended"]
    /\ UNCHANGED <<asked, heard>>

Refuse == Close("Incompatible")

Buffer(frame) ==
    IF Len(host.buffer) >= MAXIMUM_PRE_READY_FRAMES - 1
      THEN Refuse
      ELSE /\ host' = [host EXCEPT !.buffer = Append(@, frame)]
           /\ UNCHANGED <<session, socket, asked, heard>>

(* emitProtocolAdapterEvent, from a host that has no event pending.        *)
Ask(h) ==
    /\ host' = [h EXCEPT !.events = @ + 1, !.pending = h.events + 1]
    /\ asked' = asked \union {[attempt |-> h.attempt, event |-> h.events + 1]}
    /\ UNCHANGED <<session, socket>>

Hears(frames, by) ==
    heard' = [heard EXCEPT ![host.attempt] =
                @ \o [i \in 1 .. Len(frames) |->
                         [frame |-> frames[i], by |-> by]]]

-----------------------------------------------------------------------------
(* The handlers of the worker.                                             *)

(* drive of a disconnected session whose retry is due, and openSocket.     *)
OpenSocket ==
    /\ foreground
    /\ session = "Disconnected"
    /\ attempts < MaxAttempts
    /\ attempts' = attempts + 1
    /\ host' = [Idle EXCEPT !.attempt = attempts + 1]
    /\ session' = "Connecting"
    /\ socket' = [socket EXCEPT ![attempts + 1] = "connecting"]
    /\ UNCHANGED <<foreground, queue, asked, sent, heard, ready>>

(* A mutation: the prelude is not timed.                                   *)
SocketDidOpenUntimed(task) ==
    IF host.attempt = task.attempt /\ ~host.networkSocketOpened
      THEN /\ Ask([host EXCEPT !.networkSocketOpened = TRUE])
           /\ UNCHANGED heard
      ELSE UNCHANGED <<host, session, socket, asked, heard>>

SocketDidOpen(task) ==
    IF host.attempt = task.attempt /\ ~host.networkSocketOpened
      THEN /\ Ask([host EXCEPT !.networkSocketOpened = TRUE, !.timer = TRUE])
           /\ UNCHANGED heard
      ELSE UNCHANGED <<host, session, socket, asked, heard>>

(* socketDidReceive and socketDidReceiveText: the session may refuse a     *)
(* message and the host one that is too large, and the adapter is asked    *)
(* about one frame at a time.                                              *)
SocketDidReceive(task, accepted) ==
    IF host.attempt # task.attempt
      THEN UNCHANGED <<host, session, socket, asked, heard>>
    ELSE IF ~accepted THEN Refuse
    ELSE IF host.socketOpened
      THEN IF task.frame.type = "binary"
             THEN /\ Hears(<<task.frame>>, "yjs")
                  /\ UNCHANGED <<host, session, socket, asked>>
             ELSE Refuse
    ELSE IF host.pending # NoEvent THEN Buffer(task.frame)
    ELSE Ask(host) /\ Hears(<<task.frame>>, "adapter")

SocketDidClose(task) ==
    IF host.attempt = task.attempt
      THEN Close(IF task.terminal THEN "Incompatible" ELSE "Disconnected")
      ELSE UNCHANGED <<host, session, socket, asked, heard>>

(* emitNextBufferedProtocolFrame                                           *)
Continue(h) ==
    IF h.buffer = <<>>
      THEN host' = h /\ UNCHANGED <<session, socket, asked, heard>>
      ELSE /\ Ask([h EXCEPT !.buffer = Tail(@)])
           /\ Hears(<<Head(h.buffer)>>, "adapter")

Opened(h) ==
    [h EXCEPT !.socketOpened = TRUE, !.timer = FALSE, !.buffer = <<>>]

(* activateYjs and drainBufferedFramesAfterReady: the session takes the    *)
(* first of the buffered frames, up to one that is text or is refused; it  *)
(* may refuse to open at all.                                              *)
Ready(h, taken) ==
    \/ /\ taken <= Len(h.buffer)
       /\ \A i \in 1 .. taken : h.buffer[i].type = "binary"
       /\ LET passed == Hears(SubSeq(h.buffer, 1, taken), "yjs") IN
          IF taken = Len(h.buffer)
            THEN /\ host' = Opened(h)
                 /\ session' = "Open"
                 /\ passed
                 /\ UNCHANGED <<socket, asked>>
            ELSE /\ host' = Idle
                 /\ session' = "Incompatible"
                 /\ passed
                 /\ socket' = [socket EXCEPT ![h.attempt] = "ended"]
                 /\ UNCHANGED asked
    \/ taken = 0 /\ Refuse

(* A mutation: the attempt an answer is for is not compared.               *)
ConcernsAnyAttempt(task) == host.attempt # NoAttempt /\ host.pending = task.event

Concerns(task) == host.attempt = task.attempt /\ host.pending = task.event

(* resolveProtocolAdapter: the frames of the answer are sent first.        *)
Resolve(task, sends, taken) ==
    LET h == [host EXCEPT !.pending = NoEvent] IN
    IF ~Concerns(task) THEN UNCHANGED <<host, session, socket, asked, heard>>
    ELSE \/ ~sends /\ Close("Disconnected")
         \/ sends /\ task.action = "continue" /\ Continue(h)
         \/ sends /\ task.action = "ready" /\ Ready(h, taken)
         \/ sends /\ task.action = "reject" /\ Refuse

RunTask ==
    /\ queue # <<>>
    /\ queue' = Tail(queue)
    /\ LET task == Head(queue) IN
       \/ task.does = "opened" /\ SocketDidOpen(task)
       \/ /\ task.does = "received"
          /\ \E accepted \in BOOLEAN : SocketDidReceive(task, accepted)
       \/ task.does = "closed" /\ SocketDidClose(task)
       \/ /\ task.does = "resolve"
          /\ \E sends \in BOOLEAN, taken \in 0 .. Len(host.buffer) :
                Resolve(task, sends, taken)
    /\ UNCHANGED <<foreground, attempts, sent, ready>>

(* The task of scheduleProtocolAdapterTimeout.                             *)
TimeOut ==
    /\ host.timer
    /\ Refuse
    /\ UNCHANGED <<foreground, attempts, queue, sent, ready>>

(* The host leaves the foreground: retireNativeResources and a detach.     *)
Background ==
    /\ foreground
    /\ foreground' = FALSE
    /\ host' = Idle
    /\ session' = IF session = "Incompatible" THEN session ELSE "Disconnected"
    /\ socket' = IF host.attempt = NoAttempt THEN socket
                 ELSE [socket EXCEPT ![host.attempt] = "ended"]
    /\ UNCHANGED <<attempts, queue, asked, sent, heard, ready>>

Foreground ==
    /\ ~foreground
    /\ foreground' = TRUE
    /\ UNCHANGED <<host, session, attempts, socket, queue, asked, sent, heard,
                   ready>>

-----------------------------------------------------------------------------
(* The network and the adapter, which enqueue tasks.                       *)

Enqueue(task) == queue' = Append(queue, task)

NetworkOpens(a) ==
    /\ socket[a] = "connecting"
    /\ socket' = [socket EXCEPT ![a] = "open"]
    /\ Enqueue([does |-> "opened", attempt |-> a])
    /\ UNCHANGED <<host, session, foreground, attempts, asked, sent, heard, ready>>

PeerSends(a, type) ==
    LET frame == [number |-> Len(sent[a]) + 1, type |-> type] IN
    /\ socket[a] = "open"
    /\ Len(sent[a]) < MaxFrames
    /\ sent' = [sent EXCEPT ![a] = Append(@, frame)]
    /\ Enqueue([does |-> "received", attempt |-> a, frame |-> frame])
    /\ UNCHANGED <<host, session, foreground, attempts, socket, asked, heard,
                   ready>>

(* The peer closes, with a code among terminalCloseCodes or another, or    *)
(* the connection fails.                                                   *)
ConnectionEnds(a, terminal) ==
    /\ socket[a] \in {"connecting", "open"}
    /\ socket' = [socket EXCEPT ![a] = "ended"]
    /\ Enqueue([does |-> "closed", attempt |-> a, terminal |-> terminal])
    /\ UNCHANGED <<host, session, foreground, attempts, asked, sent, heard, ready>>

AdapterAnswers(question, action) ==
    /\ question \in asked
    /\ asked' = asked \ {question}
    /\ ready' = IF action = "ready" THEN ready \union {question.attempt}
                ELSE ready
    /\ Enqueue([does |-> "resolve", attempt |-> question.attempt,
                event |-> question.event, action |-> action])
    /\ UNCHANGED <<host, session, foreground, attempts, socket, sent, heard>>

Next ==
    \/ OpenSocket
    \/ RunTask
    \/ TimeOut
    \/ Background
    \/ Foreground
    \/ \E a \in Attempts :
         \/ NetworkOpens(a)
         \/ \E type \in {"text", "binary"} : PeerSends(a, type)
         \/ \E terminal \in BOOLEAN : ConnectionEnds(a, terminal)
    \/ \E question \in asked, action \in {"continue", "ready", "reject"} :
         AdapterAnswers(question, action)

Spec == Init /\ [][Next]_vars

(* The worker takes its tasks and runs its timer; nothing is assumed of    *)
(* the peer or of the adapter, which may never answer.                     *)
FairSpec == Spec /\ WF_vars(RunTask) /\ WF_vars(TimeOut)

-----------------------------------------------------------------------------
(* Properties *)

(* Types of the variables, with the limit of the buffer.                   *)
TypeOK ==
    /\ host.attempt \in 0 .. attempts
    /\ {host.networkSocketOpened, host.socketOpened, host.timer, foreground}
          \subseteq BOOLEAN
    /\ host.pending \in 0 .. host.events
    /\ Len(host.buffer) < MAXIMUM_PRE_READY_FRAMES
    /\ session \in {"Disconnected", "Connecting", "Open", "Incompatible"}
    /\ socket \in [Attempts -> {"none", "connecting", "open", "ended"}]
    /\ ready \subseteq Attempts

(* NativeEditorCollaborationTransport.ts: "Native blocks all Yjs traffic   *)
(* until onMessage returns ready".  The session is open only on an attempt *)
(* whose own adapter answered ready: an answer to an earlier attempt, with *)
(* the same event number, opens nothing.                                   *)
OpenOnlyWhenReady ==
    /\ host.socketOpened => host.attempt \in ready
    /\ session = "Open" <=> host.socketOpened

(* The frames of a peer are given in the order they were sent and each     *)
(* once, to the adapter up to its ready and to the session after it,       *)
(* however answers, buffering and arrivals are interleaved.                *)
FramesInOrder ==
    \A a \in Attempts :
        LET given == heard[a] IN
        /\ Len(given) <= Len(sent[a])
        /\ \A i \in 1 .. Len(given) :
              /\ given[i].frame = sent[a][i]
              /\ \A j \in 1 .. i : given[i].by = "adapter" => given[j].by = "adapter"

(* No frame waits in the buffer with nobody asked about the one before it. *)
BufferedIsAsked ==
    host.buffer # <<>> => host.pending # NoEvent

(* The timer runs exactly while the prelude does: it never ends a          *)
(* connection that is already open, nor an attempt that followed.          *)
PreludeIsTimed == host.timer <=> InPrelude

(* All of these: what the host buffers, asks, times and gives on is right  *)
(* for the attempt that is current, whatever late answers and frames of    *)
(* earlier attempts the worker still has to take.                          *)
PreludeStands ==
    /\ TypeOK
    /\ OpenOnlyWhenReady
    /\ FramesInOrder
    /\ BufferedIsAsked
    /\ PreludeIsTimed

(* A prelude ends, opened or closed, though its adapter never answers.     *)
PreludeEnds == InPrelude ~> ~InPrelude

=============================================================================
