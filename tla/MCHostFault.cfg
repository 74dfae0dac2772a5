SPECIFICATION Spec
CONSTANTS
    RetryDelays <- OneDelay
    MaxGeneration = 2
    MaxMillis = 1
    MaxMessages = 6
    MaxBytes = 100
    MaxLeaseId = 20
    Faults <- AllFaults
    CloseCodes <- AnyCode
    MaxEdits = 2
    MaxFrames = 1
    MaxRequests = 1
    MaxQueue = 1
INVARIANTS
    RetryIsArmed
CHECK_DEADLOCK FALSE
