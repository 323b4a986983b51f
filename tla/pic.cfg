SPECIFICATION MCSpec
CONSTANTS
    NCpus = 2
    Lines = {1}
    Devs = {0, 1}
    Routes <- MCRoutes
    Priorities = {5, 15}
    Msgs = {m1}
    Words = {w1}
    MaxInFlight = 1
    Reraise = TRUE
INVARIANTS
    LinesInv
    LeftBehindOnlyIfRaisedAgain
PROPERTIES
    NoCoreTwiceInARow
    FrontIsStable
