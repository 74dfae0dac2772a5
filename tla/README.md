# Verification of the rich text editor

This directory holds TLA+ models of the parts of the rich text editor in which
several actors share state: the collaboration session of `rust/editor-core`,
its presence, undo history and position epochs, the hosts that connect it on
Android and iOS, the registries through which threads reach sessions and
transports, the native view that shows a document, the loader of images, the
prepared layouts of viewers, and the JavaScript controllers of rooms and of
external text composition. TLC checks the models on small instances, TLAPS
proves the most important facts for every value of the constants.

Run TLC on a configuration with `tlc -config MCHosts.cfg MCHosts`, and
the proofs with `tlapm TransportProofs.tla`. Paths below are relative to the
repository; `core/` stands for `rust/editor-core/src/`, `android/` for
`android/src/main/java/com/apollohg/editor/`.

## The system

An editor session is a Rust object behind a process-wide registry. Views and
JavaScript reach it through foreign-function calls, each of which takes the
session's lock for its whole duration. A session of a *room* also holds a
collaboration runtime, which decides everything about a connection but opens no
socket: the native host (Kotlin, Swift) owns the socket and the timers, reports
what happens to them with the *generation* they belong to, and obeys the
*directive* each call returns (a generation to open, a deadline to wake up at).

| Component | State | Operations | Interacts with |
| --- | --- | --- | --- |
| Session registry (`core/registry.rs`) | id counter, map of slots, per slot an atomic lifecycle and a mutex | create, get, with_alive, destroy | every caller thread |
| Transport state machine (`core/collaboration_runtime/state.rs`) | state, live generation, last generation, backoff index, deadline, exhaustion | drive, socket open/close, synchronise, detach, reattach, restore, teardown | every collaboration call |
| Outbox (`core/collaboration_runtime/outbox.rs`) | ordered queue of updates and presence, queue of protocol replies, byte counters, reservation ledger, one lease | reserve, install, drop, coalesce, lease, ack, nack, release, clear | engine commits, protocol replies, awareness, host |
| Session calls (`core/session/*.rs`) | document state, runtime, transport | one per FFI entry point | all of the above |
| Sync protocol (`core/collaboration_runtime/protocol.rs`) | none of its own | receive a message: reserve the replies, apply, gate, close on failure | transport, outbox, engine |
| Awareness (`core/collaboration_runtime/awareness.rs`, `core/yrs_engine/awareness.rs`) | local presence, intents, renewal and expiry deadlines, peers | set, clear, renew, expire, publish | outbox, transport, timers |
| Android host (`android/AndroidCollaborationTransport.kt`) | current generation and socket, timer, host state, configuration, prelude of a protocol adapter | callbacks of the socket, drive, configure, host state, destroy, adapter handshake | one worker thread, session, network, JavaScript |
| iOS host (`ios/NativeCollaborationTransport*.swift`) | the same, with an asynchronous send and receive | the same | a serial queue, session, network |
| Native transport registries (`android/NativeCollaborationTransportRegistry.kt`, Swift) | owners, retirements, event sequence, activity state | configure, remove, activate and destroy a runtime, emit | hosts, JavaScript |
| Native request ledger (`core/session/native.rs`) | outcomes by request id, high water | submit, release | native text input |
| Position epochs (`core/position_epoch.rs`) | pinned snapshots, counters of owners, boundaries and memory | pin, update, splice, release, resolve | native text input, engine commits |
| Undo history (`core/yrs_engine/history*`, `core/yrs_engine/engine/undo_redo.rs`) | two stacks, replay ledger with its baseline | capture, exclude, boundary, undo, redo, roll, rebind | engine commits, peers |
| Document engine (`core/yrs_engine`) | CRDT document | stage, commit, merge | session calls |
| Native view (`android/EditorV2Adapter*.kt`) | frame, cursor, epoch, selection shown | fetch, recover, intent, claim, release, reset | session, text view |
| Image loader (`android/RenderImageLoader.kt`) | requests by source, waiting queue, slots, admissions, leases of bitmaps | load, cancel, decode, claim, deadline, drain | executor, main thread |
| Prepared layouts (`android/viewer/PreparedProse*.kt`) | leases, tickets, specs, pinned documents, guards | measure, prepare, mount, rebuild, drop, finalize | layout, main and worker threads, Fabric |
| JavaScript room controller (`src/YjsCollaboration.ts`) | state shown, published presence, sequence number | events, connect, presence, destroy | transport registry, session |
| External text composition (`src/ExternalTextComposition.ts`, Android input) | sessions, pending texts and promises | begin, update, commit, cancel, native end | native input |
| Model, schema, transforms, tables, rendering, import and export | none shared | functions of documents | engine |
| JavaScript components and views | UI state | rendering, input | sessions, hosts |

What makes it hard is not any one component but their composition:

* callbacks of an old socket arrive while a newer one is current, behind
  lifecycle tasks that were posted before or after them;
* the outbox has one front that is leased to the host while other calls coalesce,
  clear and fill the same queues;
* capacity is reserved in one step and used in a later one, which may not come;
* a call may fail after part of its effect, and the host learns of it only from
  an error or a directive;
* a retry is the product of a deadline in Rust and a timer in Kotlin, and is lost
  if either is;
* a handle may be looked up, found alive, and used only after its session was
  destroyed, and an operation may panic in the middle;
* presence is desired, published, renewed, withdrawn and expired by clocks of which
  every one may be behind, and each of these may be refused;
* what a user points at on the screen belongs to a document that others have since
  changed;
* undo rebuilds a history from a ledger that must have followed everything the live
  history did;
* an image, a layout or a promise is abandoned by one thread while another finishes it.

What makes each component correct:

* *transport*: a callback acts only on the attempt it belongs to; generations are
  never reused; backoff grows and is honoured; an exhausted clock ends it;
* *outbox*: every committed update is delivered once and in order; the lease is
  always the front; limits hold and capacity is neither lost nor invented; the
  user's edits keep headroom that presence and replies cannot take;
* *host and session*: they agree on the attempt between any two handlers, one
  socket is in use, messages that wait are woken, a retry is armed and taken, and
  a room is given up only if its peer refused it;
* *registry*: no operation runs on a torn-down session, the teardown runs once,
  lookups find only alive sessions, and a destruction ends;
* *presence*: what the session last said is known to the room or on its way, a
  withdrawal is never forgotten, silent peers leave and heard ones stay;
* *transport registry*: one transport per editor, a destroyed runtime holds nothing,
  events arrive in the order of their numbers, calls and retirements end;
* *prelude of an adapter*: the session opens only on an attempt its own adapter
  called ready, frames keep their order, and the prelude ends;
* *requests and epochs*: an intent takes effect once, and positions are resolved by
  what the view was shown;
* *undo*: the replayed candidate is the live document with its groups, redo brings
  back what undo took, and what peers wrote stays;
* *views, images, layouts*: epoch and frame agree, no slot, admission or lease is
  lost, nothing of a dead family comes back, and a commit is shown;
* *JavaScript*: the document shown is not older than its revision, what is taken for
  published is what the session holds, and every promise is settled truthfully.

## Modules

```
TransportOps ---- Transport ---- MCLiveness    OutboxOps ---- Outbox --- OutboxProofs
     |               |  \                          |    \       |
     |               |   TransportProofs           |     \
     |        (ConnectionAttempts)                 |   (UpdateDelivery)
     +---------------------- SessionOps -----------+
                            /     |     \
                 AwarenessOps     |      IosHostOps ---- IosHost
                       |          |
                 PresenceOps    HostOps ---- TransportHost ---- MCTransportHost
                       |                            |
                   Presence                TransportHostProofs [TransportProofs, OutboxProofs]
                   |      \
           MCPresence   PresenceProofs [OutboxProofs]

(SessionLife) ---- SessionRegistry ---- SessionProofs ---- NativeRequests
                                              \
                                            AnchorRuns

EpochSnapshots ---- PositionEpochs             HistoryOps ---- UndoHistory
ImageLoaderOps ---- ImageLoader                ProtocolAdapter ---- ProtocolAdapterProofs
TransportRegistry ---- TransportRegistryProofs FabricLeases ---- FabricLeasesProofs
NativeView   YjsController    ExternalComposition

MCSession     SessionRegistry, Outbox, [Presence]
MCHosts       TransportRegistry, [TransportHost], [IosHost], [ProtocolAdapter]
MCDocument    NativeRequests, AnchorRuns, [PositionEpochs], [UndoHistory]
MCClients     FabricLeases, [NativeView], [ImageLoader], [YjsController],
              [ExternalComposition]
MCLiveness    Transport, [SessionRegistry], [TransportRegistry], [ProtocolAdapter],
              [ImageLoader], [NativeView], [FabricLeases]
```

Solid lines are EXTENDS; the modules in parentheses are abstract specifications,
instantiated under a refinement mapping; those in brackets are instantiated with the
constants of a small instance, some of them several times. (A module whose theorems and
runs are to be about the same definitions is extended instead, its constants given by the
configuration.) The last five modules put
parts next to each other that share no state at the size at which each is checked. A
behaviour of such a module is one of a single instance, which the variable `scenario`
names and no step changes; the variables of the other parts are empty or rest in their
initial states. The properties are those of the instance that is running. To run one
instance alone, give `Scenarios` a single element.

**TransportOps** and **Transport** model `state.rs`. `TransportOps` has one
operator per method of `TransportStateMachine`, a function on its record; a
`Can...` operator is the admission check of that method, and a set with at most
one element is an `Option`. `Transport` composes them the way
`session/collaboration.rs`, `content.rs` and `native.rs` call them: `DriveCall`,
`OpenCallback`, `CloseCallback`, `SynchronizeCall`, `DetachCall`, `ReattachCall`,
`RestoreCall`, `TeardownCall` and the passage of time. A callback carries *any*
generation that was ever issued, so stale, repeated and reordered callbacks are
all there. **ConnectionAttempts** is what it promises: one attempt at a time,
generations consecutive, a retired one gone for good.

**OutboxOps** and **Outbox** model `outbox.rs`: the two queues, the byte counters,
the ledger, and the lease. A message is its kind, an identity and a length.
Between a reservation and its installation or drop the session lock is held, so
only those may follow (`held`). The host may acknowledge or reject any lease it
was ever given. **UpdateDelivery** is the promise made to the user: updates are
confirmed in the order they were committed, each once.

**SessionOps** composes the two into the calls of one session without presence:
the directive every call ends with, socket open, close, receive with its reply
reservation, Step 2 gate and close on failure, local edits, leases, detach and
reattach. `SynchronizationGate` and `RefusedInitialization` are the two halves of
`apply_step2_synchronization_gate`.

**HostOps** and **TransportHost** model `AndroidCollaborationTransport.kt`. Every
handler runs to its end on one worker thread, so a handler is a function of the
*world* (session, host fields, sockets, queue); `TransportHost` adds the worker
that takes tasks in order, the timer, the network with its four callbacks, edits
followed by a separate wake-up, host-state requests, configuration and
destruction from other threads. The code's socket token, in-flight lease and
`closeReported` flag are set and cleared together with the generation and are
represented by it. What `send` returns is a choice of each handler.

**SessionRegistry** models `registry.rs`, one step for each access to shared
state: the registry's mutex, a slot's atomic lifecycle, a slot's mutex and its
poisoning by a panic. **SessionLife** is its promise: a session opens, closes and
is torn down once, calls work on it one at a time, and the teardown waits for the
last of them.

**AwarenessOps**, **PresenceOps** and **Presence** add presence to `SessionOps`.
`AwarenessOps` has the codec of the engine (clocks, tombstones, states of peers) and
the runtime beside it (the desired state, the time of the last publication, a
withdrawal that could not be queued, the peers' activity). `PresenceOps` has the
collaboration calls with the awareness tick that every directive begins with, and
whose refusal fails the call. `Presence` closes them with a worker, the application,
a peer, and a room that may forget the session.

**ProtocolAdapter** models the prelude of a connection that an adapter in JavaScript
runs before any Yjs traffic: the opening and each frame are answered asynchronously
while frames are buffered, a timer runs, and the socket may be closed and replaced.
The session is reduced to the state of its transport.

**IosHostOps** and **IosHost** model the iOS transport, over the same `SessionOps`.
A send completes later, so the message in flight is host state, and one message is
received at a time. The iOS host reports a refusal of the session without a close code,
which is `Retryable`, where the Android host closes with 1008: the property
`OnlyPeerRefuses` holds on iOS even with a saturated outbox.

**TransportRegistry** models the Android registry of transports: JavaScript threads
configure and remove, the module activates and destroys runtimes, the activity moves,
and each transport has a worker. A step is one locked section, one wait, or one task.
The callbacks of the activity's lifecycle come one at a time; background and detached
are the same to a transport. Replacing a runtime without destroying it leaves its
transports, which the code does not promise to avoid.

**NativeRequests** models the ledger that makes a native intent happen once: outcomes
of the last requests of each binding, and its high water. A release forgets the ledger,
so the guarantee is for one life of a binding.

**EpochSnapshots** and **PositionEpochs** model position epochs: snapshots of the
positions of a document, shared by reference counts, updated in place when held once
and spliced into a copy otherwise, from which an intent's positions are resolved after
any number of edits. A document is a sequence of paragraphs of characters; an edit is
typed, split, joined, removed, imported, restored or remote, and records the change
scope that tells how a snapshot may follow it. Splitting and joining copy characters, as
the engine does. **AnchorRuns** models how the anchors of a paragraph are compressed
into runs: the loop that builds them, and the lookup of a boundary in them.

**HistoryOps** and **UndoHistory** model undo. A document is a set of items with
containers; an item that is restored comes back as a copy and the original keeps a link,
as in yrs. `HistoryOps` has the manager: captures and their grouping, targets of a
group, containers that would take a peer's content with them, restoring, dropping groups
that can no longer be reverted. `UndoHistory` adds the ledger: its baseline and events,
the replay into a candidate, the comparison with the live document, and the epochs that
roll at a limit.

**NativeView** models one Android adapter and its text view: fetching frames, deltas
and recoveries, intents resolved from the epoch the adapter holds, claims and releases
of bindings, notices posted to the main thread, resets. A document is its revision, and
between any two calls of the session other threads may move it. Whoever asks the adapter
for the state (`currentStateJson`, `selectionJson`, `currentSelectionState`) makes it fetch
and adopt a frame. A new theme and unauthorized text show that frame (`Redraw`); the
toolbar, the start of an external composition and a Tab outside a list drop it (`Read`); a
Tab in a list and Shift+Enter drop it too, and go on to submit positions of the text that is
still on the screen (`ActReading`).

**ImageLoaderOps** and **ImageLoader** model the loader of images: one step for each
section of its lock, each compare-and-set and each call of the executor or of the main
handler. Loads, cancellations and the consumer are on the main thread; the timer and
the workers are threads. A bitmap is named after the request that decoded it, with the
leases still open on it.

**FabricLeases** models the prepared layouts of one viewer: a layout thread measures
shadow trees and issues leases, workers prepare final layouts, the main thread mounts,
rebuilds and drops, and a finalizer ends families, while memory may run short. Each step
holds one lock.

**YjsController** models the JavaScript side of a room: the projection of numbered
events onto a state, connection intents, and presence. The queue of events is FIFO,
which `EventsInOrder` of the transport registry shows. Sequence and revision numbers are
compared as the code compares numerals, with the base `Radix`.

**ExternalComposition** models the manager and sessions of external text composition
together with the Android input. What JavaScript does between two answers or events
(including its microtasks) is one action. The causes an input may end a session for are
one cause.

Operators with the comment *A mutation* are not part of any specification. Each is
a plausible error in one operator (a dropped guard, a missing reset, a wrong
order), stands before the operator it would replace, and breaks the property that
is meant to catch it; `PROJECT.json` pairs them.

## What the runs check

Each module names its invariants one by one. The modules that put instances together
join those that answer one question into one property; the table gives its parts in
parentheses. Besides them each joined property includes the type invariants of its
instances.

| Run | Question | Properties |
| --- | --- | --- |
| `session` | Is a session ever used or torn down when it must not be? | `RegistryHoldsAlive`, `PoisonedIsLeftAlone`, `LifeSpec` |
| | Is any update lost, repeated or reordered; do limits, accounting and headroom hold? | `DeliverySpec`, `QueuesSound` (`LeasedMessageIsFront`, `NoUpdateLostOrRepeated`, `AccountingExact`, `WithinLimits`, `DocumentHeadroom`, `PresenceFollowsDocuments`, `PresenceBounded`) |
| | Is a withdrawal lost when the outbox refuses it? | `WithdrawalKept` |
| `presence` | Does the room get to know what the session last said of itself? | `PresenceSettles` |
| | Are renewals in time, and do silent peers leave? | `DeadlinesMet` (`RenewedInTime`, `SilentPeersExpire`, `ActivityFollowsPeers`) |
| `hosts` | Do host and session stay in agreement, on Android and on iOS, with every fault of the peer? | `HostsAgree` (`AttemptHasSocket`, `OneSocket`, `PendingIsWoken`, `EditsInOrder`, `OnlyPeerRefuses`; on iOS also `OneTurn`, `InFlightIsLeased`, `RetryIsArmed`) |
| | Does a session open only on an attempt its adapter called ready, and do frames keep their order? | `PreludeHolds` (`OpenOnlyWhenReady`, `PreludeIsTimed`, `FramesInOrder`, `BufferedIsAsked`) |
| | Do owners, retirements and events survive threads, runtimes and activity moves? | `EventsInOrder`, `TransportsAreOwned` (`OneTransportPerEditor`, `AttachmentStands`, `DestroyedRuntimeHoldsNothing`, `HostStateReaches`) |
| `host_retry` | Is a retry taken, and is an edit sent, while host and session stand? | `RetryIsTaken`, `EditsAreSent`, `HostStands` (`AttemptHasSocket`, `OneSocket`, `PendingIsWoken`, `EditsInOrder`) |
| `document` | Does a repeated intent take effect once and in order, and get its own answer? | `LedgerIsFaithful` (`ExecutedInOrder`, `WindowIsLatest`), `AnswersAreTheirs` |
| | Are positions resolved by what each view was shown, and memory accounted for? | `EpochsAreAsShown` (with `AccountingExact`), `CaretKeepsItsPlace`, `CompressionIsLossless` |
| | Does the undo ledger replay to the document and the groups undo was promised, and is it fair to peers? | `PeersKeepTheirContent`, `UndoIsFaithful` (`ReplayReproduces`, `RoundTrip`, `NothingRestoredTwice`, `WithinLimits`) |
| `clients` | Do epoch, selection, frame and text agree, and, where nothing is read without being shown, is an intent resolved from the text the user pointed at? | `FrameIsOne` (`EpochShowsFrame`, `SelectionOnItsFrame`, `RefetchIsFull`, `EditIsInstalled`, `OnlyOwnerIsKept`), `InputIsMapped` (with `EpochShowsText`; on the instance with such reads, `SettledIsMapped`) |
| | Is a slot, an admission, a wake-up or a bitmap in use lost, or a load answered twice or after its cancellation? | `NothingLeaks` (`AdmissionExact`, `SlotsExact`, `ReadyIsDrained`, `LeasesAreOpen`, `KeptByOneHolder`), `AnsweredOnce` (with `OneRequestPerSource`, `CancelledIsSilent`) |
| | Is anything of a dead family or an older generation left, or brought back? | `FabricKept` (`SweptForGood`, `OnlyPermittedKept`, `ShownIsMounted`, `NoTombstones`), `NoWayBack` (`AdvancingStep`, `DeadStep`) |
| | Does the state a room's controller shows follow the session, and does it know what is published? | `CatchesUp` (with `DocumentCoversRevision`), `PublishedIsHeld` (with `NeverAnonymous`, `WithdrawnIsGone`) |
| | Is every promise of a composition settled truthfully, and do both sides agree? | `PromisesAreTrue` (`CommitIsTrue`, `RejectedCommitInsertsNothing`, `EndIsTrue`, `UpdateWasShown`), `BothSidesSettle` (`NobodyWaits`, `SidesAgree`, `LatestIsShown`) |
| `liveness` | Is the state machine of the transport right by itself, under every order of calls and callbacks? | `RetryPolicy`, `BackoffHonoured`, `AttemptsSpec`, `DisconnectedIsLeft` |
| | Do destructions, calls, retirements, preludes and loads end, and are changes and commits shown? | `CallsEnd`, `PreludeEnds`, `LoadsFinish`, `ChangesAreShown` (text and commits) |
| `host_saturated` | Can the session give a room up that its peer did not refuse? | `OnlyPeerRefuses` (violated) |
| `host_fault` | Does the host always hold a timer for the session's retry? | `RetryIsArmed` (violated) |
| `input_read` | Do Tab and Shift+Enter act on the text the user pointed at? | `InputIsMapped` (violated) |
| `image_leak` | Is every bitmap that is kept held by someone? | `RetainedIsHeld` (violated) |
| `composition_cancel` | Is an update that was cancelled before it was sent rejected? | `CancelledUpdateIsRejected` (violated) |

`NoWorkAfterTeardown` and `TornDownOnce` of the registry follow from the refinement
`LifeSpec`, `LiveIsNewest` and `ExhaustedNeverIssues` of the transport from the inductive
invariant below, and are not checked separately.

### Bounds

* `session`: three threads, treated as symmetric, and three sessions, as many as two
  destructions racing a call need. The outbox has four messages and six bytes, lengths one and two, four
  installations and three leases: the queues fill on either limit, the non-document
  limits bind before the shared ones, and the lease counter runs out. For the
  withdrawal it holds two messages, one of which an edit takes, so that broadcasts are
  refused.
* `presence`: two generations, a clock of two, a renewal interval of one and an expiry
  interval of two, so that a peer may be renewed, late and expired; two changes of the
  presence, or one and an edit. A peer queries again once no reply waits for it. The outbox is ample:
  the promises to the room are not kept in a full one, see below.
* `hosts`, Android: one delay, two generations, a clock of one, four messages, two edits,
  one message of the peer, two requests, and at most one task in the queue when the
  network adds another. Two generations are what a stale callback needs; one faulty
  message reaches every branch of the receive path, since the gate, the fault and the
  reply are parts of one message. iOS: the same with two edits, which fill the outbox, and
  one request, with one edit and two requests, and with an adapter whose answers carry a
  frame. Prelude: two attempts with one frame each, for stale answers, and one attempt
  with three frames, of which two may be buffered. Registry: one editor, two
  threads, two runtimes, two calls to configure, two numbers to a numbering, one failing
  call to the session, one move of the activity: a second call meets every stage of the
  retirement of the first. Threads are interchangeable and treated as symmetric. What more
  editors, stripes and calls could add is what the theorems below are about.
* `host_retry`: as Android with faultless frames and a clock of two, so that a retry is
  both due and not yet due. The outbox is large enough that two edits and the replies fit:
  `host_saturated` makes it smaller.
* `document`: four request ids over a window of two, so that an id may be retained, expired,
  below the high water without being retained, and new. Two views, two paragraphs and two edits, or one view, three edits and a log
  of two scopes, so that a scope is missed; limits are such that a third snapshot does not
  fit. Anchors: three boundaries, two clients, three clocks: every shape of a run with a
  successor, a gap, a stranger and either end. Undo: two groups and four or six events,
  so that both limits are met, two or three items, and an excluded update that weighs one unit or more
  than the limit. Containers hold text but no containers.
* `clients`: two bindings of a view, up to four revisions, up to two failing calls. The view
  is checked twice. `Viewed` has every intent, reads, resets, input without an epoch and
  failing calls; there an intent is resolved from the text it was made on unless a change
  by others waits to be shown or a call has failed (`SettledIsMapped`), and this is all
  the code keeps. `Pointed` leaves out the reads that are not shown, resets and input
  without an epoch (`Reads`, `Resets`, `Epochless`), and shows that the rest keeps it at
  every moment; each of the three is a disagreement below. Three loads of two or three images, one of
  which may be cancelled or run out of time, one slot or three, one place to wait, an executor with two places (256 in the code; two is the least
  that can hold one task while another is refused). Two generations of a viewer, two widths
  that differ by more than the rounding the code allows, two layout passes and one time
  of pressure, or a view mounted before it is measured, with one of each. Two controllers one after the other, three revisions, four events, one failing
  call; numerals of base two, so that the length of a numeral changes. Two sessions of a
  composition with two texts each, or one with three, so that one text replaces another
  that waits; one close or two, one failing call.
* `liveness`: for the state machine of the transport three delays (two growing, one that
  repeats), five generations and a clock of eight: every entry of the schedule is reached
  and its last repeated, the generation counter runs out, and a close late in the clock
  overflows it. Of the others three threads and two sessions; two editors that share a lock, or one whose
  session may refuse a call; one attempt
  with three frames, of which two may be buffered; two loads for one slot; one generation
  of a viewer under pressure.

Deadlock is not checked where the bounded system really stops: the counters of
these configurations end, a destroyed session admits no call, and a registry whose
ids are used up has nothing left to do.

### Fairness

* `Transport` assumes that time passes and that the host keeps calling `drive`.
  The host module is where the second is earned.
* `TransportHost` assumes that the worker takes its tasks, that its timer fires
  once due, that a thread that made an edit goes on to post the wake-up, and that
  time passes. The executor is a `ScheduledThreadPoolExecutor` with one thread,
  whose tasks are run in order. Nothing is assumed of the network, the peer or the
  application. The four assumptions are written out as `[]<>` formulas because
  what enables each action is plain and TLC need not work it out: a task and a timer
  are used up when they run, so that each of these steps changes the state and the
  formulas say what weak fairness would.
* `SessionRegistry` assumes that a thread that began a call or destruction is
  scheduled and that operations return. It needs only weak fairness: a thread that
  waits for a session's mutex waits for at most the others that found the session
  before it left the registry, each of which lets go and, the session no longer
  being alive, does not take it again.
* `Presence` takes the worker to be prompt: time passes only when no task waits and no
  timer is due. Its properties are safety properties under that assumption.
* `ProtocolAdapter` assumes that the worker runs its tasks and that its timer fires.
  Nothing is assumed of the adapter.
* `TransportRegistry` assumes that threads, workers and lifecycle callbacks that began go
  on. Nothing is assumed of events or of new calls.
* `NativeView` assumes that the adapter's steps go on, and strong fairness of the posted
  notice, since the looper of the main thread is FIFO.
* `ImageLoader` assumes that the main thread, the timer, the clock and the workers go on,
  but not that a decoder returns.
* `FabricLeases` assumes that layout, worker and main threads go on and that a commit is
  mounted. The liveness run has one generation and one time of pressure; with more of
  either `CommitIsShown` fails, see below.

`MCLiveness` repeats the fairness of each part for the instance it runs.

### Disagreements found

**A saturated outbox makes a room incompatible** (`host_saturated`). Opening a
connection reserves room for Sync Step 1 in the outbox. If offline edits filled it,
`collaboration_socket_open` fails, the host closes the socket with code 1008, and
`editor_v2_collaboration_socket_close` turns 1008 into `Incompatible`: the session
parks and never retries, though draining the edits would have cured it.
`core/test_support/collaboration_protocol_test/limits.rs:127-129` says of the same
ceilings that "retry can change the result -- the close is retryable, never
Incompatible". The receive path keeps to that, the open path does not.

**A retryable fault loses its retry** (`host_fault`). When a received frame fails
retryably, the session closes the generation itself and returns a directive with the
deadline. `consumeDirective` arms the timer and then leases with the generation it
still holds; the lease is stale, `failCurrentSocket` clears the timer, and the close
it reports is stale too, so nothing arms it again. `core/collaboration_runtime/state.rs:8-10`
relies on the host to "invoke the Rust drive operation when that deadline arrives".
`host_retry` shows that without such faults a retry is taken.

**Tab and Shift+Enter act on another text** (`input_read`). `isSelectionInsideList` and
`preferredHardBreakNodeType` read the state, by which the adapter adopts the newest frame
with its epoch, and nothing shows it. `handleTabImpl` and `handleHardBreakImpl` then submit
positions of the text on the screen under that epoch. If others have changed the document
since the text was shown, the session resolves them in the changed one: what is indented or
broken is not what was pointed at. `native_transaction_bridge.rs:529-530` says "Stale native
requests reject deterministically; native code refreshes from engine state instead of
retrying against guessed positions."

**A bitmap is never closed** (`image_leak`) when its request is cancelled or expires while
its outcome is on the way to the main thread: the posted task returns early, or a worker
claims with nothing, and the bytes stay in the process-wide budget. `CHANGELOG.md:285`
promises "bounded decoded-image ownership".

**A cancelled update resolves** (`composition_cancel`) when the answer of the cancel comes
before the event of the end; in the other order it is rejected, as
`ExternalTextComposition.test.ts:592` expects.

The following have no run of their own. Each is a property that the passing runs keep
out of the way by the constants of their instances, or that no run names; a configuration
of the module with the constants given shows it violated.

* *The same lost retry on iOS*: `RetryIsArmed` of `IosHost` with `Faults` that include
  `"Retryable"`. The iOS transport arms the retry while it still holds the socket; what it
  does next with it ends in a close report that is refused as stale and that cancelled the
  timer.
* *A refused renewal fails the call it belongs to*: `RefusalNeverCloses` and
  `RenewalIsArmed` of `Presence` with an outbox of two messages and one edit. The directive
  of every call begins with an awareness tick, and when the outbox has no room for a renewal
  or a withdrawal the call fails. After a received message the Android host then closes with
  1008, which is `Incompatible`; before a drive nothing is scheduled or sent, so the edits
  that fill the outbox are not drained. `core/collaboration_runtime/awareness.rs:378-380`
  says that such refusals "never close a generation" and that "the deterministic renewal
  clock re-attempts the broadcast".
* *A heard peer is expired*: `HeardPeersShown` of `Presence` with a peer. A peer's activity
  is stamped with the time of the tick before its message, and the tombstone takes the clock
  of its next renewal. `awareness.rs:39` says that peers "with no observed activity for this
  long are expired".
* *Input without an epoch is resolved in another text*: `InputIsMapped` of `NativeView` with
  `Epochless` true. An adapter that holds no epoch fetches the document as it is and submits
  positions of the old text with the epoch of the new frame. *A refused reset leaves an
  unshown frame*, with the same effect on the next intent: `EpochShowsText` with `Resets`
  true. So does a *state that is read and dropped*, by the toolbar for one: `EpochShowsText`
  with `Reads` true. The notice of the change, when its turn comes, repairs all three.
* *A drained undo stack stays available*: `DrainedIsEmpty` of `UndoHistory`, with
  containers. When nothing of a stack can be reverted (an empty paragraph that a peer has
  written in), undo empties the live stack, but the ledger keeps its groups. Once more of
  the same, and the candidate's stack is no longer the live one, so undo does nothing and
  `can_undo` stays true until the epoch rolls. `core/yrs_engine/history/tests.rs` says that
  "a stack drained of unrevertible items must not report an available undo".
* *A commit is not shown*: `CommitIsShown` of `FabricLeases` with two generations, where the
  second is laid out while only the first is permitted and leaves no ticket, or with two
  times of pressure, where a rebuilt layout is evicted before the posted end of its
  preparation. *A record stays* for a view dropped before its family was bound: the
  statement of `MeasuredLeaveNoRecord` with `Unmeasured` true.
* *A stated caret is not published*: `StatedCaretIsPublished` of `YjsController`, when it is
  the one last accepted, though the view has moved the caret meanwhile.

Two smaller observations that no property of a run depends on. A session in which an
operation panicked stays *destroying* when it is destroyed, without a teardown, since
the destroyer panics on the poisoned mutex. And `registry.rs` admits a call by the
check it makes under the session's lock: a call admitted before a destruction began
finishes after it began, and the teardown waits for it, as
`session_lifecycle_test.rs` expects.

## What is proved

Assumptions on the constants: the retry schedule is a non-empty sequence of positive
delays, the bounds of generations and clock are naturals (`RetryDelaysAssumption`,
`TransportBoundsAssumption`); the number of sessions is a natural and `Panics` a
Boolean (`RegistryAssumption` of `SessionRegistry`); request ids are naturals and the
window is positive (`RequestsAssumption`, `LimitAssumption`); the boundaries of a paragraph
are made of ids in their range (`RunsAssumption`); the limits of the outbox
are naturals and there is at least one lease id (`OutboxBoundsAssumption`), lengths and the
number of installations are naturals (`OutboxCallsAssumption`); the bounds of the transport registry
are naturals and every editor has a stripe (`RegistryAssumption` of `TransportRegistry`);
generations, widths and workers of the prepared layouts are positive, as 0 stands for none
of them and for the layout thread, and their bounds are naturals (`LeaseAssumption`);
intervals of awareness and the last clock are positive, its limits and the bounds on what
the environment does are naturals, and peers are finitely many (`AwarenessAssumption`,
`PresenceBoundsAssumption`).
Of the prelude, whose module no run extends, the theorem itself assumes what the runs
assume of their instances: its bounds are positive (`AdapterBounds`). Nothing is assumed
of the sets of threads, bindings or editors, nor of what the peer and the application do
in `TransportHost`.

**TransportProofs** proves that `Spec` implies `[]TypeOK`, `[]LiveIsNewest`,
`[]RetryPolicy`, the action properties `BackoffHonoured` and `ExhaustedNeverIssues`,
and the refinement `AttemptsSpec`, for every schedule and both bounds. The inductive
invariant is the conjunction of the first three. None is inductive alone:
`LiveIsNewest` needs the type of the record; `RetryPolicy` needs `LiveIsNewest`,
because a close must be known to act in an attempt, where the index is not yet
exhausted and equals the number of failures, for the deadline it computes to be the
one the history predicts. Both action properties then follow from `RetryPolicy` in
the state before the step, and the refinement from `LiveIsNewest`: a step issues the
next generation when none is live, retires the live one, or changes neither.

**SessionProofs** proves of the registry `[]TypeOK`, `[]NoWorkAfterTeardown`,
`[]TornDownOnce`, `[]RegistryHoldsAlive`, `[]PoisonedIsLeftAlone` and the refinement
`LifeSpec`, for any set of threads and any number of sessions. The inductive
invariant adds what the code maintains between its steps:
`MutexHeld` (the mutex of a session is held by exactly the thread that is inside it),
`DestructionOwned` (a thread that destroys a session is the only one to, and the
lifecycle and the teardowns are what its place says), `TeardownsCounted` (the
teardowns are what the lifecycle says, and none precedes an operation at work),
`IdsFresh` (an id not yet inserted is absent, and belongs to at most one inserting
thread), and `RegistryKept` (the registry holds the alive sessions, and the one being
unregistered). `NoWorkAfterTeardown` follows because the lifecycle is read
under the mutex: a thread at work holds it, so no other is inside, and a torn-down
session cannot have been found alive by a thread that locked it afterwards.

Of the ledger of native requests it proves `[]LedgerTypeOK`, `[]ExecutedInOrder` and
`[]WindowIsLatest`, which are the parts of `LedgerIsFaithful`, and the action property
`AnswersAreTheirs`, for any set of bindings, any ids and any window. The inductive invariant says of each ledger that its high water is the
last id executed, that the executed ids ascend, and that the window is the tail of what was
executed. A new id is above the high water, so appending it keeps the order; the tail of a
tail is what eviction leaves.

Of the anchors of a paragraph it proves `CompressionIsLossless`, for any number of
boundaries and any ids. The invariant: runs follow one another without overlap
(`RunsApart`); a run stands for what was given at each of its offsets, the trailing edge
included (`RunStands`); and a boundary that no run covers is kept explicitly
(`EachIsKept`). A lookup picks the last run that starts at or before the boundary, and since
runs do not overlap that is the covering one if there is one.

**OutboxProofs** proves that the outbox keeps `QueuesSound` and
implements `DeliverySpec`, for any limits, lengths and number of leases. The counters of
the code are sums over its queues, and what it coalesces is a subsequence, so its lemmas
begin with what `Bytes` and `OfKind` give for an empty, an extended, a joined and a
split queue. Both are recursive functions on sequences; that they have a value is shown
from the definition of such a function, by induction over the lengths for which a set of
partial functions is defined, since an induction theorem that takes a predicate cannot be
applied here. The inductive invariant adds to the parts of `QueuesSound`: the shapes of
queues, ledger and lease; that at most one reservation is held and the ledger is that
reservation (`LedgerIsHeld`); the limits by counters (`Limited`); that lease ids are the
places in the history of what was handed out, so an active lease is the latest
(`LeasesAreHanded`); that ids ascend along the queue (`IdsAscend`), without which the
first document of a queue need not be the next to deliver; and that at most one broadcast
waits while another is being installed. The mapping of `DeliverySpec` is then what was
installed and what was accepted.

**TransportHostProofs** proves of `TransportHost`, the Android host with its session, the
network and the application, `[]TypeOK` and `[]HostStands`: host and session agree on the
attempt (`AttemptHasSocket`), one socket is in use (`OneSocket`), messages that wait on an
open connection are woken (`PendingIsWoken`), and the edits acknowledged and queued are the
edits made, in order (`EditsInOrder`), each of which is a theorem of its own. It holds for
any outbox (also one that fills), schedule, clock, number of generations, edits and
requests, and for every fault of the peer. A handler is a function on worlds, so the invariant
is about a world and not about variables, and has three parts. `Steady(w, e)` holds also
inside a handler, where the session may have given up an attempt of which the host still
has the socket, as after a fault: the session's attempt is its newest, no lease is active
(each is settled in the handler that took it), the edits are numbered along what was
delivered and what is queued (`Counted`), a task that reports a close is about a socket
that ended (`EndsAreTrue`), which opening a newer one leaves so, the sockets in use are the
host's, and a host with a generation is one that may connect (`Connects`), without which a
change of state could leave a socket behind. `Agrees(w)` is what every handler restores
before it returns: either it goes on with the attempt that both have, or it reports the
close and closes the socket. `Woken(w, n)` is what it must leave behind while messages
wait: an acknowledgement posts the next drive, and a drive for an older generation does
not count. The lemmas follow the calls: one for each operation of the transport and the
outbox, which are taken from `TransportProofs` and `OutboxProofs` with this module's session
for their variables, one for each call of the host, one for each task, and one for each
action. `RetryIsArmed` and `OnlyPeerRefuses` are not among the theorems because they do
not hold, see above.

**TransportRegistryProofs** proves `[]TransportsAreOwned` and `EventsInOrder` of the
registry of native transports, for any editors, stripes, threads, runtimes, calls and
faults. The inductive invariant says who owns what. `StripesHeld`: a thread inside a stripe is the only
one there. `CallsStand`: a call that is creating a transport finds no retirement of its
editor, unless its runtime is gone; it holds because whoever retires a transport either
holds or finds free the stripe (`remove`, `destroy`) or ends the runtime that owns the
call. `Owned`: a transport that is not done is its editor's or the retirement that the
editor keeps, and while one is in the map nothing of the editor is being retired; from it
`OneTransportPerEditor` follows, and from that `AttachmentStands` is kept, as no other
transport drives the session. `AnswersOwed`: a task to configure, and the answer that a
worker owes, are those of one thread that waits for them. `StateTold`: a transport in the
map holds the host state or is yet to be told. `Numbered`: no event given is later than
the last number of its editor, and the one on its way is later than the one given; only
one transport of an editor can have one on its way, so `EventsInOrder` follows although
a number is taken, the emitter picked and the event given in three steps. And
`CreationsCounted`: calls that may still create a transport count as much as transports.

**FabricLeasesProofs** proves `[]FabricKept` and `NoWayBack` of the prepared layouts, for
any generations, widths, workers and layout passes, whether or not a view may be mounted
unmeasured. Nothing of this is inductive alone, because a measurement reads whether its
generation is active, pins, builds, leases and publishes under a lock each, and every one
of these steps may come after the lease ended. The inductive invariant says where each
thread stands: `JobsStand` (a job has a generation and a width, and only the layout thread
issues final layouts), `MainStands` (the main thread works for the mounted view) and
`FamilyStands` (a lease that is active was bound; a family that ended has no tree, no
commit, no measurement and no active lease). `SpecsGone`, `LeasesGone` and `PinsGone` are
`SweptForGood` one table at a time, as a sweep empties them under three locks: what is
swept stays so, since every step that stores anything finds the lease active under the
same lock, and `OnlyBindingRevives` shows that a lease becomes active only by a binding
that finds no record, which a family that ended cannot meet. `Permitted` does the same for
an activation, which takes three locks as well. `ShownStands` adds to `ShownIsMounted` that
what is shown was mounted under a lease. `RevisionsGrow` orders the revisions: of one
generation what is shown is no newer than its ticket, the ticket no newer than the final
layout, and that no newer than the lease's counter; so a ticket that still stands when its
artifact is taken is never older than what it replaces. `Measured` gives
`MeasuredLeaveNoRecord`, which no run checks: a family that ended has a record only if its
view was mounted unmeasured.

**ProtocolAdapterProofs** proves `[]PreludeStands`, all that `PreludeHolds` says of the
Android prelude, for any number of attempts and frames and any buffer. The inductive
invariant has two parts about the tasks that the worker has yet to take. A task says what
happened (`QueueIsTrue`): a *ready* among them was answered for the attempt it names, so
comparing attempt and event is enough, and the opening of the current attempt comes before
its frames (`OpensFirst`), without which a frame could be asked about, and the session
opened, before the prelude is timed. And `FramesAreKept`: what the peer sent on the
current attempt was given, is buffered or waits among the tasks, in this order and nothing
twice, so the frame that is taken next is the one that follows the buffer. An attempt that
is given up leaves tasks behind, which no later attempt has a use for.

**PresenceProofs** proves of a session with its host, the application, its peers and the
room, for any limits of the outbox, schedule, clocks, intervals, peers and presences:

| theorem | property | hypothesis |
| --- | --- | --- |
| `WithdrawnPresenceLeaves` | `WithdrawalKept` | |
| `PeersHaveDeadlines` | `ActivityFollowsPeers` | |
| `TypesAreKept` | `TypeOK` | |
| `PresenceReachesTheRoom` | `PresenceSettles` | `Roomy` |
| `PresenceIsRenewedInTime` | `DeadlinesMet` | `Ample` |

The inductive invariant `IInv` is about a record and not about variables: `Sane` says it of
a session, the room's entry, the message being sent and the numbers of edits and changes
made, so that it can be followed through the steps within one call (the tick, the change of
the transport, the publication, the replies, the cleanup), each of which is a lemma on the
operator that models it; an action is then a composition of those lemmas. `Sane` has these
parts. `OutboxSane`: counters match queues, and the lease is of the front, which is what is
being sent. `NewestIsOwn`: the entry at the room and every entry in a queue is the session's
own or older, so what is published next beats all of them; a connection that is lost lets
the room make a tombstone one clock above what it knows, and this is where the two clocks
that a handshake may spend come from. `IntentIsShown`: without a desired state none is
shown, and a kept withdrawal is of the session's entry. `WithdrawalIsKept`: without a
desired state there is a kept withdrawal, or the session's entry is queued, or nothing that
shows is at the room or beats its entry in a queue. `PeersFollowed`: activities are those of
the live peers, and there are none without an open connection. `Bounded`: queues hold at
most the edits made, two broadcasts (one may be leased while the next is coalesced) and the
replies, of which an opening and a synchronisation make one each. With room these bounds
give that no broadcast is refused, and then `PresenceIsShown`: an online presence is at the
room or queued, and its publication has a time; and `ClockIsBounded`: the clock of the
entry is paid for by the changes made, the generations issued and the time of the latest
publication, so that it does not run out.

`TInv` adds what the host does for time. `PeersAreHeard`: a live peer was heard since its
activity was noted, which is not past its expiry. `TimersAreSet`: unless the worker has a
wake-up or a message in flight, the timer is set no later than each deadline that the clock
can reach. Time passes only when nothing is due, so no deadline is passed.

Two of the theorems need a hypothesis on the constants. `Roomy` says that the outbox has
room for `MostQueued`, the edits, broadcasts and replies of a behaviour of the model; without
it a refused renewal fails the call it belongs to and is not armed again (see the findings
above). `Ample` says in addition that the clocks of entries do not run out, as a clock at
its limit refuses a publication. The run `presence` has both (8 messages of 8, and a clock
of 10 of 30), the instance of the run `session` has neither. The number of the room's
queries (`MaxReplies`) and the other bounds on the environment are constants of the model,
and the theorems hold for each of their values.

The proofs and the runs meet in `RetryPolicy`, `BackoffHonoured`, `AttemptsSpec`,
`RegistryHoldsAlive`, `PoisonedIsLeftAlone`, `LifeSpec`, `QueuesSound`, `DeliverySpec`,
`HostStands`, `TransportsAreOwned`, `EventsInOrder`, `LedgerIsFaithful`, `AnswersAreTheirs`,
`CompressionIsLossless`, `FabricKept`, `NoWayBack`, `WithdrawalKept`, `PresenceSettles` and `DeadlinesMet`,
which are
stated by a theorem and checked on an instance, and in `PreludeStands`, which the run `hosts`
checks on two instances as a part of `PreludeHolds`.

Only model-checked: the liveness properties (`DisconnectedIsLeft`, `RetryIsTaken`,
`EditsAreSent` and those of the run `liveness`), since fairness and ENABLED are
outside what the prover handles; the undo history, whose replay is a fold over the ledger,
and other recursive definitions over data beyond those of the outbox; and the iOS host,
the native view, the loader of images, position epochs and the two JavaScript modules,
which are wide and not yet proved.

## What is not modelled

* The transport registry of iOS, which does on one serial queue what the Android one does
  with locks.
* Restoring a snapshot while a host is connected: `Transport` and `Outbox` each have the
  restore, `TransportHost` does not; the rebinding of the awareness codec after a restore.
* CRDT merge, decoding and encoding: a message says what it asks for, what it changes and
  whether it is faulty. `HistoryOps` has of the CRDT only which items exist and which are
  copies of which; the order of siblings plays no part.
* Of undo, the limits in bytes and on metadata, nested containers, the limit on remembered
  copies, and preparations that fail, which change nothing.
* Of position epochs, tables, void blocks and nested blocks.
* Of the Android host, that a handler reads `terminal` more than once: a destruction on
  another thread may set it between two of these reads, while a handler of `TransportHost`
  sees one value.
* Of the native view, deferred updates during a composition, tables, destruction, and the
  synchronisation of a selection without an owner.
* Of the image loader, the limits of `DecodedBitmapBudget` in bytes, and what a consumer
  does with its lease; the pipeline of the viewer's images.
* Of prepared layouts, staged table geometry, attachment sidecars, the budgets shared by
  viewers, and the identity of a ticket: the code compares the ticket it read with the one
  that stands as objects, the model by content, so a ticket published again with the same
  content is a miss in the code only, which prepares once more.
* In JavaScript, the React hooks that make controllers and managers, the decorations of
  peers, the iOS input of external composition, and components.
* The wrap of the id counter after 2^64 sessions: ids are bounded instead.
* Documents, schemas, transforms, tables, rendering, and the user interface: sequential
  functions of large data.

## Plan

In order of importance.

1. Proofs: for the loader of images, that admissions and slots are exact and a load is
   answered once; for the iOS host, what `HostStands` says of the Android one, where a
   message in flight is host state.
2. `TransportHost` with presence, snapshot restore and destruction of the session under the
   host, using `SessionRegistry`'s promise.
3. `NativeView` with deferred updates during a composition, composed with
   `ExternalComposition`.
4. The iOS registry and prepared layouts, as variants of the Android modules.
5. The viewer's image pipeline and the budget of bitmaps in bytes.
