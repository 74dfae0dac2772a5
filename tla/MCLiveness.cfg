SPECIFICATION MCSpec
CONSTANTS
    RetryDelays <- SmallDelays
    MaxGeneration = 5
    MaxMillis = 8
    t1 = t1
    t2 = t2
    t3 = t3
    e1 = e1
    e2 = e2
    s1 = s1
    s2 = s2
    Scenarios = {"Transport", "Sessions", "Bindings", "Refused", "Prelude", "Images", "Viewed", "Layouts"}
INVARIANTS
    RetryPolicy
PROPERTIES
    BackoffHonoured
    AttemptsSpec
    DisconnectedIsLeft
    CallsEnd
    PreludeEnds
    LoadsFinish
    ChangesAreShown
CHECK_DEADLOCK FALSE
