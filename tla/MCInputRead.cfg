SPECIFICATION Spec
CONSTANTS
    Owners = {1}
    MaxRevision = 2
    MaxFaults = 0
    Resets = FALSE
    Reads = TRUE
    Epochless = FALSE
INVARIANTS
    InputIsMapped
CHECK_DEADLOCK FALSE
