SPECIFICATION FairSpec
CONSTANTS
    RetryDelays <- OneDelay
    MaxGeneration = 2
    MaxMillis = 2
    MaxMessages = 6
    MaxBytes = 100
    MaxLeaseId = 20
    Faults <- NoFaults
    CloseCodes <- AnyCode
    MaxEdits = 2
    MaxFrames = 1
    MaxRequests = 2
    MaxQueue = 1
INVARIANTS
    HostStands
PROPERTIES
    RetryIsTaken
    EditsAreSent
CHECK_DEADLOCK FALSE
