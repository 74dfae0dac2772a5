------------------------------- MODULE Presence -----------------------------
(***************************************************************************)
(* One session that shows its presence in a room: the session, the worker  *)
(* of its host, the application and what the room sees.                    *)
(*                                                                         *)
(* The host is that of HostOps, reduced to what presence depends on: its   *)
(* timer, whether a wake-up is posted, and the message it is sending.  The *)
(* worker runs its tasks before time passes, so a deadline is met when it  *)
(* comes; between the lease of a message and its settlement the            *)
(* application's threads may call.  Lease ids are not told apart.          *)
(***************************************************************************)
EXTENDS PresenceOps

CONSTANTS
    PeerClocks,  \* bound: the clocks of the peers' entries
    MaxReplies,  \* bound: replies that wait when the peer queries again
    MaxChanges,  \* bound: changes of the presence the application shows
    MaxEdits,    \* bound: local edits
    MaxActs      \* bound: changes of the presence and edits together

ASSUME PresenceBoundsAssumption ==
    /\ PeerClocks \subseteq Nat
    /\ {MaxReplies, MaxChanges, MaxEdits, MaxActs} \subseteq Nat

VARIABLES
    session,      \* the EditorSession
    timer,        \* the deadline the host is armed for
    wake,         \* whether a task that drives is posted
    sending,      \* the leased message, between its lease and settlement
    now,          \* the monotonic clock
    room,         \* our entry as the room knows it
    heard,        \* history: when a peer was last heard, until it leaves
    peer_refused, \* history: the peer refused us or broke the protocol
    changes,      \* history: changes of the presence
    edits         \* history: edits

vars == <<session, timer, wake, sending, now, room, heard, peer_refused,
          changes, edits>>

Init ==
    /\ session = WithPresence(NewSession("RoomReady"))
    /\ timer = {}
    /\ wake = TRUE
    /\ sending = {}
    /\ now = 0
    /\ room = Entry(0, {})
    /\ heard = [p \in {} |-> 0]
    /\ peer_refused = FALSE
    /\ changes = 0
    /\ edits = 0

-----------------------------------------------------------------------------
(* The worker.                                                             *)

CanDriveHost(s) == s.transport.state # "Detached"

Frame(o) == LeaseFront(o, NextKind(o))

(* consumeDirective of a call that succeeded, then one message is leased.  *)
Consume(result) ==
    LET s == result.session
        sends == /\ s.transport.state \in OpenStates
                 /\ Pending(s.outbox) > 0
    IN  /\ timer' = result.deadline
        /\ session' = IF sends THEN [s EXCEPT !.outbox = LeaseNext(@)] ELSE s
        /\ sending' = IF sends THEN {Frame(s.outbox)} ELSE {}

(* failCurrentSocket and socketDidClose: the close is reported, and the    *)
(* directive it brings scheduled.                                          *)
Closed(result) ==
    /\ session' = result.session
    /\ timer' = IF result.ok THEN result.deadline ELSE {}
    /\ sending' = {}

ReportClose(s, disposition) ==
    Closed(PresenceCloseCall(s, s.transport.last_issued, disposition, now))

(* Our entry at the room after a connection: kept, dropped as it was, or   *)
(* dropped under the next clock.                                           *)
RoomAfterClose ==
    {room} \union
        IF room.state = {} THEN {}
        ELSE {Entry(room.clock, {}), Entry(room.clock + 1, {})}

(* A drive by a posted task or by the timer.                               *)
Driven(result) ==
    IF result.ok THEN Consume(result)
    ELSE /\ session' = result.session
         /\ timer' = {deadline \in timer : now < deadline}
         /\ sending' = {}

DriveHost ==
    /\ sending = {}
    /\ wake \/ \E deadline \in timer : now >= deadline
    /\ IF CanDriveHost(session)
       THEN Driven(FinishPresence(session, now))
       ELSE UNCHANGED <<session, timer, sending>>
    /\ wake' = FALSE
    /\ UNCHANGED <<now, room, heard, peer_refused, changes, edits>>

SendSucceeds ==
    /\ \E frame \in sending :
          room' = IF \E entry \in frame.id : Supersedes(entry, room)
                    THEN CHOOSE entry \in frame.id : TRUE ELSE room
    /\ session' = [session EXCEPT !.outbox =
                      [AckLease(@) EXCEPT !.next_lease_id = {1}]]
    /\ sending' = {}
    /\ wake' = TRUE
    /\ UNCHANGED <<timer, now, heard, peer_refused, changes, edits>>

SendFails ==
    /\ sending # {}
    /\ ReportClose([session EXCEPT !.outbox =
                       [NackLease(@) EXCEPT !.next_lease_id = {1}]],
                   "Retryable")
    /\ room' \in RoomAfterClose
    /\ heard' = [p \in {} |-> 0]
    /\ UNCHANGED <<wake, now, peer_refused, changes, edits>>

-----------------------------------------------------------------------------
(* The network.                                                            *)

(* A generation the session closed itself is refused the lease, and the    *)
(* close the host then reports; a call that failed is reported as refused. *)
Activated(result) ==
    IF result.ok /\ result.session.transport.state \in OpenStates
    THEN Consume(result)
    ELSE ReportClose(result.session, "Incompatible")

SocketOpens ==
    /\ sending = {}
    /\ session.transport.state = "Connecting"
    /\ Activated(PresenceOpenCall(session, session.transport.last_issued, now))
    /\ UNCHANGED <<wake, now, room, heard, peer_refused, changes, edits>>

SocketCloses(disposition) ==
    /\ sending = {}
    /\ session.transport.state \in AttemptStates
    /\ ReportClose(session, disposition)
    /\ room' \in RoomAfterClose
    /\ heard' = [p \in {} |-> 0]
    /\ peer_refused' = (peer_refused \/ disposition = "Incompatible")
    /\ UNCHANGED <<wake, now, changes, edits>>

(* Who was heard: a peer whose live entry was taken, until it leaves.      *)
Heard(m, s) ==
    IF s.transport.state \notin OpenStates THEN [p \in {} |-> 0]
    ELSE IF \E u \in m.awareness : u.client \in Peers /\ u.entry.state = {}
      THEN Without(heard, {u.client : u \in m.awareness} \ Live(s.codec.remote))
    ELSE With(heard,
              {u.client : u \in m.awareness} \intersect Live(s.codec.remote),
              now)

Noticed(m, received) ==
    /\ heard' = IF session'.transport.state \in OpenStates
                  THEN Heard(m, received) ELSE [p \in {} |-> 0]
    /\ peer_refused' =
         (peer_refused \/ received.transport.state = "Incompatible")

PeerSends(m) ==
    /\ sending = {}
    /\ session.transport.state \in OpenStates
    /\ m.queries => Len(session.outbox.protocol) < MaxReplies
    /\ Activated(PresenceReceiveCall(session, session.transport.last_issued, m,
                                     now))
    /\ room' \in IF session'.transport.state \in OpenStates
                   THEN {room} ELSE RoomAfterClose
    /\ Noticed(m, ReceivePresence(session, m, now))
    /\ UNCHANGED <<wake, now, changes, edits>>

-----------------------------------------------------------------------------
(* The application, whose threads call at any time.                        *)

(* A bound.                                                                *)
MayAct == changes + edits < MaxActs

(* A call that succeeds is followed by notifyOutboundAvailable.            *)
Changed(result) ==
    /\ MayAct
    /\ changes < MaxChanges
    /\ changes' = changes + 1
    /\ session' = result.session
    /\ wake' = (wake \/ result.ok)
    /\ UNCHANGED <<timer, sending, now, room, heard, peer_refused, edits>>

SetAwareness(state) == Changed(SetDesired(session, state))

ClearAwareness == Changed(ClearDesired(session))

Edit ==
    /\ MayAct
    /\ edits < MaxEdits
    /\ Admits(session.outbox, "DocumentUpdate", 1, 1)
    /\ session' = [session EXCEPT !.outbox =
                      Install(@, "DocumentUpdate",
                              <<[kind |-> "DocumentUpdate", id |-> {},
                                 bytes |-> 1]>>)]
    /\ edits' = edits + 1
    /\ wake' = TRUE
    /\ UNCHANGED <<timer, sending, now, room, heard, peer_refused, changes>>

(* The application leaves the foreground and returns.                      *)
Background ==
    /\ sending = {}
    /\ session.transport.state # "Detached"
    /\ session' = DetachPresence(session)
    /\ timer' = {}
    /\ room' \in RoomAfterClose
    /\ heard' = [p \in {} |-> 0]
    /\ UNCHANGED <<wake, sending, now, peer_refused, changes, edits>>

Foreground ==
    /\ session.transport.state = "Detached"
    /\ session' = ReattachPresence(session)
    /\ wake' = TRUE
    /\ UNCHANGED <<timer, sending, now, room, heard, peer_refused, changes,
                   edits>>

(* Time passes once the worker is idle.                                    *)
Pass ==
    /\ now < MaxMillis
    /\ sending = {}
    /\ ~wake
    /\ \A deadline \in timer : now < deadline
    /\ now' = now + 1
    /\ UNCHANGED <<session, timer, wake, sending, room, heard, peer_refused,
                   changes, edits>>

Updates ==
    {{}} \union {{[client |-> client, entry |-> Entry(clock, state)]} :
        client \in Peers \union {Self}, clock \in PeerClocks,
        state \in {{}} \union {{x} : x \in States}}

RoomMessages ==
    {RoomMessage(FALSE, queries, step2, awareness) :
        queries \in BOOLEAN, step2 \in BOOLEAN, awareness \in Updates}

Next ==
    \/ DriveHost
    \/ SendSucceeds
    \/ SendFails
    \/ SocketOpens
    \/ \E disposition \in Dispositions : SocketCloses(disposition)
    \/ \E m \in RoomMessages : PeerSends(m)
    \/ \E state \in States : SetAwareness(state)
    \/ ClearAwareness
    \/ Edit
    \/ Background
    \/ Foreground
    \/ Pass

Spec == Init /\ [][Next]_vars

-----------------------------------------------------------------------------
(* Properties *)

Entries == [clock : 0 .. MaxAwarenessClock, state : SUBSET States]

(* Types of the variables.                                                 *)
TypeOK ==
    /\ session.transport \in Transports
    /\ session.codec.local \in Entries
    /\ \A p \in DOMAIN session.codec.remote :
          p \in Peers /\ session.codec.remote[p] \in Entries
    /\ session.awareness.desired_state \in SUBSET States
    /\ session.awareness.now_millis \in 0 .. MaxMillis
    /\ timer \in SUBSET (0 .. MaxMillis)
    /\ {wake, peer_refused} \subseteq BOOLEAN
    /\ now \in 0 .. MaxMillis
    /\ room \in Entries

Messages ==
    {session.outbox.protocol[i] : i \in DOMAIN session.outbox.protocol}
    \union {session.outbox.ordered[i] : i \in DOMAIN session.outbox.ordered}

OnItsWay(entry) == \E m \in Messages : m.id = {entry}

(* What the session last said of itself is what the room knows, or is on   *)
(* its way there: across handshakes, coalesced broadcasts, withdrawals     *)
(* made offline and the tombstones a room makes of a lost connection.      *)
PresenceSettles ==
    Synchronized(session) =>
        \/ room = session.codec.local
        \/ room.state = {} /\ session.codec.local.state = {}
        \/ OnItsWay(session.codec.local)
        \/ \E w \in session.awareness.pending_withdrawal :
              w.entry = session.codec.local

(* A presence the application withdrew does not stay at the room: while    *)
(* the room shows one, the tombstone that removes it is queued or kept for *)
(* a retry.                                                                *)
WithdrawalKept ==
    (room.state # {} /\ session.awareness.desired_state = {}) =>
        \/ \E w \in session.awareness.pending_withdrawal :
              Supersedes(w.entry, room)
        \/ \E m \in Messages : \E entry \in m.id :
              entry.state = {} /\ Supersedes(entry, room)

(* Local presence is renewed before the room expires it: while the host is *)
(* prompt, a synchronised session published it at most a renewal ago.      *)
RenewedInTime ==
    (Synchronized(session) /\ session.awareness.desired_state # {}) =>
        \/ wake \/ sending # {}
        \/ \E published \in session.awareness.last_local_publish_millis :
              now - published <= RenewalInterval

(* A peer that falls silent leaves, whatever else wakes or reschedules the *)
(* host.                                                                   *)
SilentPeersExpire ==
    \A p \in Live(session.codec.remote) :
        p \in DOMAIN heard /\ now - heard[p] <= ExpiryInterval

(* The runtime follows exactly the peers the codec shows, so that none     *)
(* stays for want of a deadline and none is expired twice.                 *)
ActivityFollowsPeers ==
    DOMAIN session.awareness.peer_activity = Live(session.codec.remote)

(* awareness.rs, tick, and yrs_engine/awareness.rs: a presence the room    *)
(* was told of is renewed before the room forgets it, a peer that is       *)
(* silent leaves at its deadline, and a deadline is kept for exactly the   *)
(* peers that are shown, whatever renewals, expiries, retries and frames   *)
(* share the one timer.                                                    *)
DeadlinesMet ==
    /\ TypeOK
    /\ RenewedInTime
    /\ SilentPeersExpire
    /\ ActivityFollowsPeers

(* awareness.rs:39: "Remote peers with no observed activity for this long  *)
(* are expired".  A peer that was heard more recently is still shown.      *)
HeardPeersShown ==
    \A p \in DOMAIN heard :
        now - heard[p] < ExpiryInterval => p \in Live(session.codec.remote)

(* awareness.rs:378: "Outbox refusals for awareness broadcasts never close *)
(* a generation".  An open connection ends as incompatible only if the     *)
(* peer refused it.                                                        *)
RefusalNeverCloses ==
    [][(/\ session.transport.state \in OpenStates
        /\ session'.transport.state = "Incompatible")
          => peer_refused']_vars

(* awareness.rs:378-380: the "renewal clock re-attempts the broadcast".    *)
(* While a presence is due to be renewed, a wake-up or a timer is set.     *)
RenewalIsArmed ==
    (Synchronized(session) /\ session.awareness.desired_state # {}) =>
        wake \/ sending # {} \/ timer # {}

=============================================================================
