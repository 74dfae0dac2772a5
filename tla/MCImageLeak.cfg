SPECIFICATION Spec
CONSTANTS
    Loads = {1, 2, 3}
    Sources = {s1, s2}
    Visible = {3}
    MaxConcurrent = 1
    MaxPending = 1
    AdmissionLimit = 2
    QueueCapacity = 2
    Workers = {"w1"}
    RejectionLimit = 1
    Mortal = {1}
    Fickle = {2}
INVARIANT
    RetainedIsHeld
CHECK_DEADLOCK FALSE
