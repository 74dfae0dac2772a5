------------------------------- MODULE MCHosts ------------------------------
(***************************************************************************)
(* The hosts of a session's transport, next to each other: the Android and *)
(* the iOS transport with the session, the network and the application,    *)
(* the protocol adapter of Android, and the registry of the native         *)
(* transports.  A behaviour is one of a single part, on the instance that  *)
(* `scenario' names; a variable of several parts is that part's, the       *)
(* registry rests while it is not running, and the others are empty.       *)
(***************************************************************************)
EXTENDS TransportRegistry, TLC

CONSTANTS t1, t2, Scenarios

VARIABLES
    scenario,
    session, host, sockets, queue, now, edits, unnotified, frames, requests,
    reached, desired, terminal, peer_refused, asked, verdicts, wire,
    foreground, attempts, socket, sent, heard, ready

AllFaults == {"None", "Retryable", "Incompatible"}

(* Every fault of the peer, an outbox that offline edits fill.             *)
Android ==
    INSTANCE TransportHost WITH
        delivered <- reached,
        RetryDelays <- <<1>>, MaxGeneration <- 2, MaxMillis <- 1,
        MaxMessages <- 4, MaxBytes <- 100, MaxLeaseId <- 20,
        Faults <- AllFaults, CloseCodes <- {0, 1008}, MaxEdits <- 2,
        MaxFrames <- 1, MaxRequests <- 2, MaxQueue <- 1

(* Two edits that fill the outbox, and two requests with one.              *)
Ios ==
    INSTANCE IosHost WITH
        delivered <- reached,
        RetryDelays <- <<1>>, MaxGeneration <- 2, MaxMillis <- 1,
        MaxMessages <- 2, MaxBytes <- 100, MaxLeaseId <- 20, Adapter <- FALSE,
        Faults <- AllFaults, CloseCodes <- {0, 1008}, MaxEdits <- 2,
        MaxFrames <- 1, MaxRequests <- 1, MaxAnswer <- 0, MaxQueue <- 1

IosRequests ==
    INSTANCE IosHost WITH
        delivered <- reached,
        RetryDelays <- <<1>>, MaxGeneration <- 2, MaxMillis <- 1,
        MaxMessages <- 1, MaxBytes <- 100, MaxLeaseId <- 20, Adapter <- FALSE,
        Faults <- AllFaults, CloseCodes <- {0, 1008}, MaxEdits <- 1,
        MaxFrames <- 1, MaxRequests <- 2, MaxAnswer <- 0, MaxQueue <- 1

(* With an adapter whose answers are late and carry frames.                *)
IosAdapter ==
    INSTANCE IosHost WITH
        delivered <- reached,
        RetryDelays <- <<1>>, MaxGeneration <- 2, MaxMillis <- 1,
        MaxMessages <- 6, MaxBytes <- 100, MaxLeaseId <- 20, Adapter <- TRUE,
        Faults <- {"None"}, CloseCodes <- {0}, MaxEdits <- 0,
        MaxFrames <- 2, MaxRequests <- 1, MaxAnswer <- 1, MaxQueue <- 1

(* Answers that come after the attempt they are for; and frames that fill  *)
(* the buffer of an attempt.                                               *)
Prelude ==
    INSTANCE ProtocolAdapter WITH
        MAXIMUM_PRE_READY_FRAMES <- 2, MaxAttempts <- 2, MaxFrames <- 1

PreludeFrames ==
    INSTANCE ProtocolAdapter WITH
        MAXIMUM_PRE_READY_FRAMES <- 2, MaxAttempts <- 1, MaxFrames <- 3

OneStripe == [e \in Editors |-> 1]

ASSUME InstanceAssumption ==
    Prelude!AdapterBounds /\ PreludeFrames!AdapterBounds

-----------------------------------------------------------------------------

hostVars ==
    <<session, host, sockets, queue, now, edits, unnotified, frames, requests,
      reached>>
androidVars == <<desired, terminal, peer_refused>>
iosVars == <<verdicts, wire>>
preludeVars == <<foreground, attempts, socket, sent, heard, ready>>
registryVars == vars

allVars ==
    <<scenario, hostVars, asked, androidVars, iosVars, preludeVars,
      registryVars>>

NoAndroid == desired = {} /\ terminal = {} /\ peer_refused = {}

NoIos == verdicts = {} /\ wire = {}

NoPrelude ==
    /\ foreground = {} /\ attempts = {} /\ socket = {} /\ sent = {}
    /\ heard = {} /\ ready = {}

NoSockets ==
    /\ sockets = {} /\ now = {} /\ edits = {} /\ unnotified = {}
    /\ frames = {} /\ requests = {} /\ reached = {}

MCInit ==
    /\ scenario \in Scenarios
    /\ Init
    /\ \/ /\ scenario = "Android" /\ Android!Init
          /\ asked = {} /\ NoIos /\ NoPrelude
       \/ /\ scenario = "Ios" /\ Ios!Init
          /\ NoAndroid /\ NoPrelude
       \/ /\ scenario = "IosRequests" /\ IosRequests!Init
          /\ NoAndroid /\ NoPrelude
       \/ /\ scenario = "IosAdapter" /\ IosAdapter!Init
          /\ NoAndroid /\ NoPrelude
       \/ /\ \/ scenario = "Prelude" /\ Prelude!Init
             \/ scenario = "PreludeFrames" /\ PreludeFrames!Init
          /\ NoSockets /\ NoAndroid /\ NoIos
       \/ /\ scenario = "Registry"
          /\ NoSockets /\ session = {} /\ host = {} /\ queue = {} /\ asked = {}
          /\ NoAndroid /\ NoIos /\ NoPrelude

MCNext ==
    /\ UNCHANGED scenario
    /\ \/ /\ scenario = "Android" /\ Android!Next
          /\ UNCHANGED <<asked, iosVars, preludeVars, registryVars>>
       \/ /\ \/ scenario = "Ios" /\ Ios!Next
             \/ scenario = "IosRequests" /\ IosRequests!Next
             \/ scenario = "IosAdapter" /\ IosAdapter!Next
          /\ UNCHANGED <<androidVars, preludeVars, registryVars>>
       \/ /\ \/ scenario = "Prelude" /\ Prelude!Next
             \/ scenario = "PreludeFrames" /\ PreludeFrames!Next
          /\ UNCHANGED <<sockets, now, edits, unnotified, frames, requests,
                         reached, androidVars, iosVars, registryVars>>
       \/ /\ scenario = "Registry" /\ Next
          /\ UNCHANGED <<hostVars, asked, androidVars, iosVars, preludeVars>>

MCSpec == MCInit /\ [][MCNext]_allVars

Symmetry == Permutations({t1, t2})

-----------------------------------------------------------------------------
(* Properties, of the part that is running; TransportsAreOwned and         *)
(* EventsInOrder are those of TransportRegistry.                           *)

(* Both hosts agree with the session: no attempt is left live without a    *)
(* socket and no socket kept for one given up, at most one is in use,      *)
(* while messages wait on an open connection the wake-up that sends the    *)
(* next is posted, the edits reach the peer's connection in order, each    *)
(* acknowledged once, across closes, rejected sends and reconnections, and *)
(* with room in the outbox a room is given up as incompatible only if the  *)
(* peer refused it.  On iOS one receive or one question of the adapter is  *)
(* outstanding, what is in flight is what the session leased, and without  *)
(* faulty frames a scheduled retry is armed.                               *)
HostsAgree ==
    /\ scenario = "Android" =>
          /\ Android!TypeOK
          /\ Android!HostStands
          /\ Android!OnlyPeerRefuses
    /\ scenario = "Ios" =>
          /\ Ios!TypeOK
          /\ Ios!AttemptHasSocket
          /\ Ios!OneSocket
          /\ Ios!PendingIsWoken
          /\ Ios!EditsInOrder
          /\ Ios!OnlyPeerRefuses
          /\ Ios!OneTurn
          /\ Ios!InFlightIsLeased
    /\ scenario = "IosRequests" =>
          /\ IosRequests!TypeOK
          /\ IosRequests!AttemptHasSocket
          /\ IosRequests!OneSocket
          /\ IosRequests!PendingIsWoken
          /\ IosRequests!EditsInOrder
          /\ IosRequests!OnlyPeerRefuses
          /\ IosRequests!OneTurn
          /\ IosRequests!InFlightIsLeased
    /\ scenario = "IosAdapter" =>
          /\ IosAdapter!TypeOK
          /\ IosAdapter!OneTurn
          /\ IosAdapter!RetryIsArmed

(* NativeEditorCollaborationTransport.ts, "Native blocks all Yjs traffic   *)
(* until onMessage returns ready": on either host the session is open only *)
(* on an attempt whose own adapter answered ready, and the prelude is      *)
(* timed exactly while it lasts; the frames of the peer reach the adapter  *)
(* and then the session in order, buffered only while it is asked.         *)
PreludeHolds ==
    /\ scenario = "IosAdapter" =>
          /\ IosAdapter!OpenOnlyWhenReady
          /\ IosAdapter!PreludeIsTimed
    /\ scenario = "Prelude" => Prelude!PreludeStands
    /\ scenario = "PreludeFrames" => PreludeFrames!PreludeStands

=============================================================================
