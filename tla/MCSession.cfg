SPECIFICATION MCSpec
CONSTANTS
    t1 = t1
    t2 = t2
    t3 = t3
    here = here
    Threads <- ThreeThreads
    MaxSessionId = 3
    Panics = TRUE
    MaxMessages = 4
    MaxBytes = 6
    MaxLeaseId = 3
    Sizes <- Lengths
    MaxInstalls = 4
SYMMETRY ThreadSymmetry
INVARIANTS
    RegistryHoldsAlive
    PoisonedIsLeftAlone
    QueuesSound
    WithdrawalKept
PROPERTIES
    LifeSpec
    DeliverySpec
CHECK_DEADLOCK FALSE
