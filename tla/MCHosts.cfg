\* Two threads configure one editor while two runtimes come and go; the other
\* bounds are those of the instances.
SPECIFICATION MCSpec
CONSTANTS
    t1 = t1
    t2 = t2
    Editors = {"e1"}
    StripeOf <- OneStripe
    Threads = {t1, t2}
    MaxRuntimes = 2
    MaxCalls = 2
    MaxSequence = 2
    MaxFaults = 1
    MaxMoves = 1
    Scenarios = {"Android", "Ios", "IosRequests", "IosAdapter", "Prelude",
                 "PreludeFrames", "Registry"}
SYMMETRY Symmetry
INVARIANTS
    HostsAgree
    PreludeHolds
    TransportsAreOwned
PROPERTIES
    EventsInOrder
CHECK_DEADLOCK FALSE
