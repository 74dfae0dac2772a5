----------------------------- MODULE AwarenessOps ---------------------------
(***************************************************************************)
(* Presence inside one session: the awareness codec of the engine, which   *)
(* owns clocks, tombstones and the states of the peers                     *)
(* (yrs_engine/awareness.rs), and the runtime beside it, which owns the    *)
(* desired local state, the time of its last publication, a withdrawal     *)
(* that could not be queued and the peers' activity                        *)
(* (collaboration_runtime/awareness.rs).                                   *)
(*                                                                         *)
(* Operators are functions of a session record `s', of which this module   *)
(* uses transport, outbox, awareness and codec.  The payload of a frame is *)
(* the entry it carries: a clock and a state, a tombstone having none.     *)
(* Every payload has length one, so byte ceilings count states.  An Option *)
(* of the code is a set with at most one element.                          *)
(***************************************************************************)
EXTENDS SessionOps, FiniteSets

CONSTANTS
    Peers,               \* the client ids of the peers
    States,              \* the presence states an application may show
    RenewalInterval,     \* AWARENESS_RENEWAL_INTERVAL_MILLIS
    ExpiryInterval,      \* AWARENESS_EXPIRY_MILLIS
    MaxAwarenessClock,   \* the largest clock of an entry (u32::MAX)
    MaxAwarenessPeers,   \* max_awareness_peers
    MaxAwarenessStates   \* max_awareness_bytes, in states

ASSUME AwarenessAssumption ==
    /\ RenewalInterval \in Nat \ {0}
    /\ ExpiryInterval \in Nat \ {0}
    /\ MaxAwarenessClock \in Nat \ {0}
    /\ {MaxAwarenessPeers, MaxAwarenessStates} \subseteq Nat
    /\ IsFiniteSet(Peers)

-----------------------------------------------------------------------------

NewAwareness ==
    [desired_state             |-> {},
     now_millis                |-> 0,
     last_local_publish_millis |-> {},
     pending_withdrawal        |-> {},
     peer_activity             |-> [p \in {} |-> 0]]

Entry(clock, state) == [clock |-> clock, state |-> state]

NewCodec == [local |-> Entry(0, {}), remote |-> [p \in {} |-> Entry(0, {})]]

WithPresence(s) ==
    [transport      |-> s.transport,
     outbox         |-> s.outbox,
     document_state |-> s.document_state,
     awareness      |-> NewAwareness,
     codec          |-> NewCodec]

With(f, keys, value) ==
    [k \in DOMAIN f \union keys |-> IF k \in keys THEN value ELSE f[k]]

Without(f, keys) == [k \in DOMAIN f \ keys |-> f[k]]

Live(entries) == {p \in DOMAIN entries : entries[p].state # {}}

(* Option::checked_add                                                     *)
After(millis, interval) ==
    IF millis + interval > MaxMillis THEN {} ELSE {millis + interval}

-----------------------------------------------------------------------------
(* The codec.                                                              *)

(* set_local_state leaves room for the clock of a later tombstone.         *)
CanPublish(c) ==
    /\ Cardinality(Live(c.remote)) + 1 <= MaxAwarenessStates
    /\ c.local.clock + 2 <= MaxAwarenessClock

Publish(c, state) == [c EXCEPT !.local = Entry(@.clock + 1, {state})]

(* clean_local_state_checked, for which a live state always leaves a clock *)
Withdraw(c) ==
    IF c.local.state = {} THEN c
    ELSE [c EXCEPT !.local = Entry(@.clock + 1, {})]

(* clear_transport_states                                                  *)
ClearTransportStates(c) ==
    [Withdraw(c) EXCEPT !.remote = [p \in {} |-> Entry(0, {})]]

(* remove_remote_state: the tombstone takes the next clock.                *)
RemoveRemoteStates(c, expired) ==
    [c EXCEPT !.remote =
        [p \in DOMAIN @ |-> IF p \in expired /\ @[p].state # {}
                              THEN Entry(@[p].clock + 1, {}) ELSE @[p]]]

(* The rule by which an entry replaces another, here and at every peer.    *)
Supersedes(entry, current) ==
    \/ entry.clock > current.clock
    \/ entry.clock = current.clock /\ entry.state = {} /\ current.state # {}

(* The remote entries after an update of one client: a tombstone of an     *)
(* unknown client and an echo of the local one leave them as they are.     *)
Projected(c, client, entry) ==
    IF client \notin Peers THEN c.remote
    ELSE IF client \in DOMAIN c.remote
      THEN IF Supersedes(entry, c.remote[client])
             THEN [c.remote EXCEPT ![client] = entry] ELSE c.remote
    ELSE IF entry.state = {} THEN c.remote
    ELSE With(c.remote, {client}, entry)

(* admit_update: the disposition of the close a refused update leads to,   *)
(* or "None".                                                              *)
UpdateFault(c, client, entry) ==
    LET remote == Projected(c, client, entry)
        alive == Cardinality(Live(remote))
    IN  IF \/ entry.clock > (IF client \in Peers THEN MaxAwarenessClock - 1
                                                  ELSE c.local.clock)
           \/ alive > MaxAwarenessPeers
           \/ alive + Cardinality(c.local.state) > MaxAwarenessStates
          THEN "Incompatible"
        ELSE IF Cardinality(DOMAIN remote) > 2 * MaxAwarenessPeers
          THEN "Retryable"
        ELSE "None"

-----------------------------------------------------------------------------
(* The runtime.                                                            *)

Synchronized(s) == s.transport.state = "Synchronized"

AwarenessFrame(kind, entry) == [kind |-> kind, id |-> {entry}, bytes |-> 1]

(* enqueue_awareness_broadcast: a refusal has coalesced already.           *)
InstallBroadcast(s, coalesced, frame) ==
    IF Admits(coalesced, "AwarenessBroadcast", 1, 1)
      THEN [ok |-> TRUE,
            session |-> [s EXCEPT !.outbox =
                Install(coalesced, "AwarenessBroadcast", <<frame>>)]]
      ELSE [ok |-> FALSE, session |-> [s EXCEPT !.outbox = coalesced]]

EnqueueBroadcast(s, entry) ==
    InstallBroadcast(s, CoalesceUnleasedAwareness(s.outbox),
                     AwarenessFrame("AwarenessBroadcast", entry))

MarkPublished(s) ==
    [s EXCEPT !.awareness.last_local_publish_millis = {s.awareness.now_millis}]

(* broadcast_local_update                                                  *)
MarkSent(sent) ==
    IF sent.ok THEN [sent EXCEPT !.session = MarkPublished(@)] ELSE sent

BroadcastLocal(s) == MarkSent(EnqueueBroadcast(s, s.codec.local))

(* set_desired_awareness_value, of an intent or of a moved selection.      *)
SetDesired(s, state) ==
    LET set == [s EXCEPT !.codec = Publish(@, state),
                         !.awareness.desired_state = {state},
                         !.awareness.pending_withdrawal = {}]
    IN  IF ~CanPublish(s.codec) THEN [ok |-> FALSE, session |-> s]
        ELSE IF Synchronized(s) THEN BroadcastLocal(set)
        ELSE [ok |-> TRUE, session |-> set]

AwaitWithdrawal(s) ==
    [s EXCEPT !.awareness.pending_withdrawal =
        {[entry |-> s.codec.local,
          retry |-> After(s.awareness.now_millis, RenewalInterval)]}]

(* A mutation: a withdrawal that the outbox refuses is forgotten.          *)
ClearDesiredUnretried(s) ==
    LET cleared == [s EXCEPT !.codec = Withdraw(@),
                             !.awareness.desired_state = {},
                             !.awareness.last_local_publish_millis = {}]
    IN  IF s.awareness.desired_state = {} THEN [ok |-> TRUE, session |-> s]
        ELSE IF ~Synchronized(s)
          THEN [ok |-> TRUE, session |-> AwaitWithdrawal(cleared)]
        ELSE EnqueueBroadcast(cleared, cleared.codec.local)

(* clear_desired_awareness                                                 *)
KeepRefused(sent) ==
    IF sent.ok THEN sent ELSE [sent EXCEPT !.session = AwaitWithdrawal(@)]

WithdrawDesired(cleared) ==
    IF Synchronized(cleared)
      THEN KeepRefused(EnqueueBroadcast(cleared, cleared.codec.local))
      ELSE [ok |-> TRUE, session |-> AwaitWithdrawal(cleared)]

ClearDesired(s) ==
    IF s.awareness.desired_state = {} THEN [ok |-> TRUE, session |-> s]
    ELSE WithdrawDesired([s EXCEPT !.codec = Withdraw(@),
                                   !.awareness.desired_state = {},
                                   !.awareness.last_local_publish_millis = {}])

(* clear_transport_peers, at the end of every connection.                  *)
ClearTransportPeers(s) ==
    [s EXCEPT !.codec = ClearTransportStates(@),
              !.awareness.peer_activity = [p \in {} |-> 0]]

(* apply_awareness_frame, of an update that was admitted: activity carries *)
(* the time of the latest tick, not of this message.                       *)
ApplyAwareness(s, client, entry) ==
    LET remote == Projected(s.codec, client, entry)
        touched == [s EXCEPT !.codec.remote = remote]
    IN  IF remote = s.codec.remote THEN s
        ELSE IF entry.state = {}
          THEN [touched EXCEPT !.awareness.peer_activity = Without(@, {client})]
        ELSE [touched EXCEPT !.awareness.peer_activity =
                  With(@, {client}, s.awareness.now_millis)]

-----------------------------------------------------------------------------
(* The tick, with which every directive begins.                            *)

Expired(s, now_millis) ==
    {p \in DOMAIN s.awareness.peer_activity :
        now_millis - s.awareness.peer_activity[p] >= ExpiryInterval}

ExpirePeers(s, expired) ==
    [s EXCEPT !.codec = RemoveRemoteStates(@, expired),
              !.awareness.peer_activity = Without(@, expired)]

WithdrawalDue(s, now_millis) ==
    \E w \in s.awareness.pending_withdrawal :
        \E retry \in w.retry : now_millis >= retry

RenewalDue(s, now_millis) ==
    /\ s.awareness.desired_state # {}
    /\ \A published \in s.awareness.last_local_publish_millis :
          now_millis - published >= RenewalInterval

Rescheduled(pending, sent, now_millis) ==
    [sent EXCEPT !.session.awareness.pending_withdrawal =
        IF sent.ok THEN {}
        ELSE {[pending EXCEPT !.retry = After(now_millis, RenewalInterval)]}]

RetryWithdrawal(s, now_millis) ==
    LET pending == CHOOSE w \in s.awareness.pending_withdrawal : TRUE
    IN  Rescheduled(pending, EnqueueBroadcast(s, pending.entry), now_millis)

RenewLocal(s) ==
    LET desired == CHOOSE state \in s.awareness.desired_state : TRUE
    IN  IF CanPublish(s.codec)
          THEN BroadcastLocal([s EXCEPT !.codec = Publish(@, desired)])
          ELSE [ok |-> FALSE, session |-> s]

(* tick: a refusal comes after the clock and the peers were advanced.      *)
TickLocal(s, now_millis) ==
    IF Synchronized(s) /\ WithdrawalDue(s, now_millis)
      THEN RetryWithdrawal(s, now_millis)
    ELSE IF Synchronized(s) /\ RenewalDue(s, now_millis) THEN RenewLocal(s)
    ELSE [ok |-> TRUE, session |-> s]

AwarenessTick(s, now_millis) ==
    TickLocal(ExpirePeers([s EXCEPT !.awareness.now_millis = now_millis],
                          Expired(s, now_millis)),
              now_millis)

LocalDeadline(s) ==
    IF ~Synchronized(s) THEN {}
    ELSE IF s.awareness.desired_state = {}
      THEN UNION {w.retry : w \in s.awareness.pending_withdrawal}
    ELSE IF s.awareness.last_local_publish_millis = {}
      THEN {s.awareness.now_millis}
    ELSE UNION {After(published, RenewalInterval) :
                   published \in s.awareness.last_local_publish_millis}

PeerDeadlines(s) ==
    UNION {After(s.awareness.peer_activity[p], ExpiryInterval) :
              p \in DOMAIN s.awareness.peer_activity}

(* A mutation: the renewal is not waited for.                              *)
AwarenessDeadlinesPeers(s) == PeerDeadlines(s)

(* next_deadline_millis, the earliest of these.                            *)
AwarenessDeadlines(s) == LocalDeadline(s) \union PeerDeadlines(s)

Earliest(deadlines) ==
    {deadline \in deadlines : \A other \in deadlines : deadline <= other}

=============================================================================
