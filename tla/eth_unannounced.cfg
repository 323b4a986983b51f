SPECIFICATION Spec
CONSTANTS
    MAXNETQUEUE = 2
    MaxWire = 3
    Faults = FALSE
INVARIANT
    WaitingIsAnnounced
