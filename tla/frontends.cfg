SPECIFICATION MCSpec
CONSTANTS
    Scenarios = {"stoppoints", "gdb", "config", "json"}
    LastAddr = 4
    MAXASID = 1
    Cpus = {"cpu0"}
    Kinds = {"breakpoint", "suspect", "trace"}
    Ranges <- MCRanges
    Symbols <- MCSymbols
    MaxPoints = 2
    Addrs = 2
    MaxList = 3
    MaxInbox = 2
    NoConfig = NoConfig
    Off = Off
    Fields = {"num-processors", "tlb-size", "num-ram-frames"}
    Slots = {"disk0", "eth0"}
    Nets = {"eth0"}
    Names = {"plain", "with quote"}
    Quoted = {"with quote"}
    Macs = {"02:00"}
    FilesByHand <- MCFilesByHand
    Chosen <- MCChosen
    Marks = {"{", "}", "[", "]", ",", ":", "quote", "7"}
    MaxLength = 6
    Values <- MCValues
INVARIANTS
    StopPointsInv
    SessionInv
    ConfigInv
    JsonInv
PROPERTIES
    RelocationKeeps
    StopsAtBreakpoints
    HitIsReported
    DialogKeeps
CHECK_DEADLOCK FALSE
