SPECIFICATION MCSpec
CONSTANTS
    Scenarios = {"terminal"}
    NCpus = 2
    Routes <- MCDynamicRoutes
    TERMRESETTIME = 3
    RECVCHRTIME = 2
    TRANCHRTIME = 2
    Characters = {"a", "b", "newline"}
    InputLines <- MCInputLines
    MaxTyped = 2
    Faults = FALSE
    RerouteAtAnyTime = FALSE
    MAXNETQUEUE = 2
    MaxWire = 3
    Events = {e1}
    Delays = {1}
    NULL = NULL
INVARIANT
    QuietWhenAcknowledged
