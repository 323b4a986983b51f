SPECIFICATION FlashSpec
CONSTANTS
    Blocks = {b1, b2}
    Pages = {p1}
    BadPages = {bad}
    Contents = {x, y}
    Invalid = Invalid
    NoBlock = NoBlock
    Faults = FALSE
PROPERTY
    BufferStaysValid
