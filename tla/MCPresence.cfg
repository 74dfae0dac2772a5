SPECIFICATION Spec
CONSTANTS
    RetryDelays <- OneDelay
    MaxGeneration = 2
    MaxMillis = 2
    MaxMessages = 9
    MaxBytes = 100
    MaxLeaseId = 20
    Peers = {p1}
    States = {here}
    RenewalInterval = 1
    ExpiryInterval = 2
    MaxAwarenessClock = 30
    MaxAwarenessPeers = 1
    MaxAwarenessStates = 2
    PeerClocks <- OneClock
    MaxReplies = 1
    MaxChanges = 2
    MaxEdits = 1
    MaxActs = 2
INVARIANTS
    PresenceSettles
    DeadlinesMet
CHECK_DEADLOCK FALSE
