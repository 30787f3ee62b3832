CONSTANTS
    a = a
    b = b
    Node <- MCNode
    SeqModulus = 6
    BufferSize = 2
    AckBits = 2
    MaxPackets = 4
    ChannelData = {some}
    NoChannelData = none

SPECIFICATION Spec
SYMMETRY MCSymmetry

INVARIANTS
    TypeOK
    AckSound

PROPERTIES
    AckComplete
