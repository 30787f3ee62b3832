------------------------------ MODULE MCMessage ------------------------------
\* TLC instance of Message: three message objects and two block buffers,
\* so that a block moves between messages and the application and two
\* messages own one each while a third waits.  The factory declares
\* 2^15 + 1 types; the application creates types 1 and 2^15, the second a
\* BlockMessage type.
EXTENDS Message, TLC

CONSTANTS m1, m2, m3, b1, b2, null

MCMsg == {m1, m2, m3}
MCBlock == {b1, b2}

=============================================================================
