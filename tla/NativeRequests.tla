--------------------------- MODULE NativeRequests ---------------------------
(***************************************************************************)
(* The ledger that makes a native intent happen once.  A native view sends *)
(* each intent with a request id; when the answer is lost it may send the  *)
(* same id again, late, or after newer ones.  For each owner (a native     *)
(* binding) the session retains the outcomes of its last CacheLimit        *)
(* requests and the highest id that succeeded: a repeat inside the window  *)
(* gets the retained outcome, an id at or below the high water but outside *)
(* the window is expired, and any other id is executed.  An intent that    *)
(* fails retains nothing, so its repeat is executed.                       *)
(*                                                                         *)
(* Each submission is one call under the session's lock.  What an intent   *)
(* does is abstracted to the revision it leaves and whether it moved the   *)
(* document; why one fails (its epoch, its range, the policy) is a choice. *)
(***************************************************************************)
EXTENDS Integers, Sequences

CONSTANTS Owners,      \* the native bindings of a session
          Requests,    \* the request ids a view may send
          CacheLimit,  \* NATIVE_REQUEST_CACHE_LIMIT
          MaxRevision  \* bounds the document's revisions

ASSUME RequestsAssumption == Requests \subseteq Nat
ASSUME LimitAssumption == CacheLimit \in Nat \ {0}
ASSUME RevisionAssumption == MaxRevision \in Nat

VARIABLES revision,   \* the engine's revision
          ledgers,    \* [Owners -> Ledger]
          executed,   \* what each owner's requests did in the life of its ledger
          answer      \* the last answer a view was given

ledgerVars == <<revision, ledgers, executed, answer>>

Revisions == 0..MaxRevision

(* A serialized outcome: the revision it left and whether it moved the      *)
(* document.                                                               *)
Outcomes == [revision : Revisions, documentChanged : BOOLEAN]

NoRequest == -1   \* an empty high water: below every id

EmptyLedger == [highWater |-> NoRequest, recent |-> <<>>, order |-> <<>>]

Entries == [request : Requests, outcome : Outcomes]

Answers == [kind : {"outcome"}, owner : Owners, request : Requests, outcome : Outcomes]
             \cup [kind : {"error", "expired"}, owner : Owners, request : Requests]
             \cup {[kind |-> "none"]}

Outcome(o, r, out) == [kind |-> "outcome", owner |-> o, request |-> r, outcome |-> out]
Fails(o, r) == [kind |-> "error", owner |-> o, request |-> r]

(* native_request_outcome: the retained outcome, an expiry, or neither.     *)
Retained(l, r) == r \in DOMAIN l.recent

(* A mutation: only the retained ids are known, the high water is ignored.  *)
ExpiredForgetsHighWater(l, r) == FALSE

Expired(l, r) == ~ Retained(l, r) /\ r <= l.highWater

Raise(high, r) == IF r > high THEN r ELSE high

(* retain_native_request_outcome: the order was within the limit, so one    *)
(* eviction is enough.                                                     *)
Retain(l, r, out) ==
    LET order  == Append(l.order, r)
        recent == [q \in DOMAIN l.recent \cup {r} |-> IF q = r THEN out ELSE l.recent[q]]
        full   == Len(order) > CacheLimit
    IN  [highWater |-> Raise(l.highWater, r),
         order     |-> IF full THEN Tail(order) ELSE order,
         recent    |-> IF full THEN [q \in DOMAIN recent \ {Head(order)} |-> recent[q]]
                               ELSE recent]

LedgerInit ==
    /\ revision = 0
    /\ ledgers = [o \in Owners |-> EmptyLedger]
    /\ executed = [o \in Owners |-> <<>>]
    /\ answer = [kind |-> "none"]

(* A mutation: the newest outcome answers every repeat.                     *)
ReplayAnswersNewest(o, r) ==
    /\ Retained(ledgers[o], r)
    /\ answer' = Outcome(o, r, ledgers[o].recent[ledgers[o].order[Len(ledgers[o].order)]])
    /\ UNCHANGED <<revision, ledgers, executed>>

(* submit_native_intent, a repeat inside the window: nothing is executed.   *)
Replay(o, r) ==
    /\ Retained(ledgers[o], r)
    /\ answer' = Outcome(o, r, ledgers[o].recent[r])
    /\ UNCHANGED <<revision, ledgers, executed>>

(* submit_native_intent, an id the window has passed.                       *)
Expire(o, r) ==
    /\ Expired(ledgers[o], r)
    /\ answer' = [kind |-> "expired", owner |-> o, request |-> r]
    /\ UNCHANGED <<revision, ledgers, executed>>

(* submit_native_intent, refused by its epoch, range, policy or command.    *)
Refuse(o, r) ==
    /\ ~ Retained(ledgers[o], r)
    /\ ~ Expired(ledgers[o], r)
    /\ answer' = Fails(o, r)
    /\ UNCHANGED <<revision, ledgers, executed>>

(* submit_native_intent, executed and retained.  The answer of an intent    *)
(* that only moved the selection may still fail, when the selection's state *)
(* is read for it after the outcome was retained.                          *)
Execute(o, r, moved) ==
    LET out == [revision |-> IF moved THEN revision + 1 ELSE revision,
                documentChanged |-> moved]
    IN  /\ ~ Retained(ledgers[o], r)
        /\ ~ Expired(ledgers[o], r)
        /\ moved => revision < MaxRevision
        /\ revision' = out.revision
        /\ ledgers' = [ledgers EXCEPT ![o] = Retain(@, r, out)]
        /\ executed' = [executed EXCEPT ![o] = Append(@, [request |-> r, outcome |-> out])]
        /\ \/ answer' = Outcome(o, r, out)
           \/ ~ moved /\ answer' = Fails(o, r)

(* Another binding, a peer or the host changes the document.                *)
OthersCommit ==
    /\ revision < MaxRevision
    /\ revision' = revision + 1
    /\ UNCHANGED <<ledgers, executed, answer>>

(* release_native_binding: the binding's epochs no longer resolve, and its  *)
(* requests are forgotten with them.                                       *)
ReleaseBinding(o) ==
    /\ ledgers' = [ledgers EXCEPT ![o] = EmptyLedger]
    /\ executed' = [executed EXCEPT ![o] = <<>>]
    /\ UNCHANGED <<revision, answer>>

Submit(o, r) ==
    \/ Replay(o, r)
    \/ Expire(o, r)
    \/ Refuse(o, r)
    \/ \E moved \in BOOLEAN : Execute(o, r, moved)

LedgerNext ==
    \/ \E o \in Owners, r \in Requests : Submit(o, r)
    \/ \E o \in Owners : ReleaseBinding(o)
    \/ OthersCommit

LedgerSpec == LedgerInit /\ [][LedgerNext]_ledgerVars

-----------------------------------------------------------------------------

IsLedger(l) ==
    /\ l.highWater \in Requests \cup {NoRequest}
    /\ l.order \in Seq(Requests)
    /\ DOMAIN l.recent \subseteq Requests
    /\ \A r \in DOMAIN l.recent : l.recent[r] \in Outcomes

(* The type invariant.                                                      *)
LedgerTypeOK ==
    /\ revision \in Revisions
    /\ DOMAIN ledgers = Owners
    /\ \A o \in Owners : IsLedger(ledgers[o])
    /\ executed \in [Owners -> Seq(Entries)]
    /\ answer \in Answers

Ordered(done) ==
    \A i, j \in DOMAIN done : i < j => done[i].request < done[j].request

(* While a binding lives, its requests are executed in the order of their   *)
(* ids and none twice, whatever is repeated, late or failed in between: a   *)
(* request that failed never takes effect behind one sent after it.        *)
ExecutedInOrder == \A o \in Owners : Ordered(executed[o])

IsWindow(l, done) ==
    LET from == Len(done) - Len(l.order)
    IN  /\ Len(l.order) = IF Len(done) < CacheLimit THEN Len(done) ELSE CacheLimit
        /\ DOMAIN l.recent = {l.order[i] : i \in DOMAIN l.order}
        /\ \A i \in DOMAIN l.order :
               /\ l.order[i] = done[from + i].request
               /\ l.recent[l.order[i]] = done[from + i].outcome

(* The window is exactly the last CacheLimit requests a binding executed:   *)
(* each is answered on repeat with what it did, and no other is retained.   *)
WindowIsLatest == \A o \in Owners : IsWindow(ledgers[o], executed[o])

(* native_request_outcome, retain_native_request_outcome: what is done is   *)
(* done once and in order, and the window tells what the latest requests    *)
(* did.                                                                     *)
LedgerIsFaithful == LedgerTypeOK /\ ExecutedInOrder /\ WindowIsLatest

(* A view is told the outcome of the request it asks about, and of no other:*)
(* a repeat's answer is the answer the execution gave or would have given.  *)
AnswersAreTheirs ==
    [][ (answer' # answer /\ answer'.kind = "outcome") =>
            \E i \in DOMAIN executed'[answer'.owner] :
                executed'[answer'.owner][i] =
                    [request |-> answer'.request, outcome |-> answer'.outcome] ]_ledgerVars

=============================================================================
