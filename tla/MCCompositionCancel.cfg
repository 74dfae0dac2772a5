SPECIFICATION Spec
CONSTANTS
    MaxSessions = 1
    MaxTexts = 2
    MaxCloses = 1
    MaxFaults = 0
INVARIANTS
    CancelledUpdateIsRejected
CHECK_DEADLOCK FALSE
