SPECIFICATION MCSpec
CONSTANTS
    Scenarios = {"terminal", "ethernet", "queue"}
    NCpus = 2
    Routes <- MCFixedRoutes
    TERMRESETTIME = 3
    RECVCHRTIME = 2
    TRANCHRTIME = 1
    Characters = {"a", "b", "newline"}
    InputLines <- MCInputLines
    MaxTyped = 3
    Faults = TRUE
    RerouteAtAnyTime = FALSE
    MAXNETQUEUE = 2
    MaxWire = 3
    Events = {e1, e2, e3, e4}
    Delays = {1, 2, 3}
    NULL = NULL
INVARIANTS
    HandlerInv
    SharedSourceInv
    ReceivesWhatWasTyped
    PollingInv
    QueueInv
PROPERTIES
    ImplementsDevices
    NeitherStarves
    ImplementsDeviceOperation
    OperationEnds
    ImplementsAlarms
    ClockGoesOn
