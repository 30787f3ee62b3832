CONSTANTS
    m1 = m1
    m2 = m2
    m3 = m3
    Msg <- MCMsg
    ChannelType <- MCChannelType
    SendQueueSize = 2
    MaxMessagesPerPacket = 2
    MaxPackets = 4

SPECIFICATION Spec
SYMMETRY MCSymmetry

INVARIANTS
    TypeOK
    NoUseAfterFree
    RefCountAccounts
