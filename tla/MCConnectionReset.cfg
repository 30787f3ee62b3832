CONSTANTS
    a = a
    b = b
    Node <- MCNode
    SeqModulus = 6
    BufferSize = 2
    AckBits = 2
    MaxPackets = 2
    ChannelData = {some}
    NoChannelData = none

SPECIFICATION SpecWithReset
SYMMETRY MCSymmetry

PROPERTIES
    AckMonotonic
