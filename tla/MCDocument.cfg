SPECIFICATION MCSpec
CONSTANTS
    v1 = v1
    v2 = v2
    Owners = {"o1", "o2"}
    Requests = {0, 1, 2, 3}
    CacheLimit = 2
    MaxRevision = 1
    Clients = {"c1", "c2"}
    MaxClock = 3
    MaxBoundaries = 3
    Given <- ParagraphBoundaries
    Scenarios = {"Requests", "TwoViews", "LongLog", "Paragraph", "Typing", "Containers"}
SYMMETRY ViewSymmetry
INVARIANTS
    LedgerIsFaithful
    EpochsAreAsShown
    CaretKeepsItsPlace
    CompressionIsLossless
    UndoIsFaithful
PROPERTIES
    AnswersAreTheirs
    PeersKeepTheirContent
CHECK_DEADLOCK FALSE
