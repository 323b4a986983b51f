SPECIFICATION StorageSpec
CONSTANTS
    NCyls = 2
    NHeads = 1
    NSects = 2
    Blocks <- MCBlocks
    Pages = {p1}
    BadPages = {bad}
    Contents = {x, y}
    Invalid = Invalid
    NoBlock = NoBlock
    Faults = TRUE
    MaxPaper = 4
    Cpus = {0}
    Words = {0, 1}
    MAXWORDVAL = 1
    BiosSize = 1
    BIOSDATABASE = 2
    MMIO_BASE = 3
    BOOTBASE = 9
    BootSize = 1
    RAMBASE = 10
    RamSize = 2
    BlockSize = 2
    MAXCYL = 3
    MAXHEAD = 2
    MAXSECT = 3
    MAXBLOCKS = 7
    Word = 20000
    Reach = 3
    FileContents = {1, 2}
    DiskArgs <- MCDiskArgs
    FlashArgs <- MCFlashArgs
    Data <- MCData
    NoFile = NoFile
    NoDevice = NoDevice
    NoCpu = NoCpu
INVARIANTS
    BufferIsTruthful
    PrintsWhatWasAsked
    ImagesInv
PROPERTIES
    ReadDelivers
    WriteLands
    ImplementsDeviceOperation
    AccessesAreHonest
SYMMETRY MCSymmetry
CHECK_DEADLOCK FALSE
