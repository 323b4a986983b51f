SPECIFICATION MCSpec
CONSTANTS
    Scenarios = {"control", "table", "firmware", "program"}
    Cores = {0, 1}
    B = 1
    UShift = 2
    Base = 2097152
    Regs = {0, 1, 2}
    Inputs <- MCInputs
    PageSize = 4
    Space = 20
    TlbFloor = 12
    KUSEGBASE = 12
    TlbSize = 2
    Backed = {4, 8}
    BootPCs = {4}
    Targets = {12, 14}
    MtvecValues = {16, 48}
    EntryHis <- MCEntryHis
    EntryLos <- MCEntryLos
    MieValues = {{}, {3, 6, 7}}
    StatusValues <- MCStatusValues
    Lines = {3, 7}
    W = 1
INVARIANTS
    PipelineInv
    BiosInv
    ShowsWhatRuns
PROPERTIES
    InterruptsAreTaken
    ImplementsHart
    RunsTheManual
CHECK_DEADLOCK FALSE
VIEW MCView
