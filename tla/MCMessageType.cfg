CONSTANTS
    m1 = m1
    m2 = m2
    m3 = m3
    b1 = b1
    b2 = b2
    null = null
    Msg <- MCMsg
    Block <- MCBlock
    Null <- null
    NumTypes = 32769
    Types = {1, 32768}
    BlockTypes = {32768}
    MaxRefs = 2

SPECIFICATION Spec
\* Handles are never reused: once every one is created and released, and
\* every block freed, the application has nothing left to do.
CHECK_DEADLOCK FALSE

INVARIANTS
    TypeRoundTrip
