\* The prepared layouts of two generations and widths, with one worker and two
\* layout passes; the other bounds are those of the instances.
SPECIFICATION MCSpec
CONSTANTS
    s1 = s1
    s2 = s2
    s3 = s3
    Generations = {1, 2}
    Widths = {1, 2}
    Workers = {1}
    MaxLayouts = 2
    MaxPressure = 1
    Unmeasured = FALSE
    Unnames = TRUE
    Scenarios = {"Layouts", "Unsized", "Viewed", "Pointed", "Images", "Deadlines",
                 "Executor", "Document", "People", "Composing", "Coalescing"}
INVARIANTS
    FrameIsOne
    InputIsMapped
    NothingLeaks
    FabricKept
    CatchesUp
    PublishedIsHeld
    PromisesAreTrue
    BothSidesSettle
PROPERTIES
    AnsweredOnce
    NoWayBack
CHECK_DEADLOCK FALSE
