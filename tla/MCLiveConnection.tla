-------------------------- MODULE MCLiveConnection --------------------------
(* Model-checking instance of LiveConnection: three messages, a reliable    *)
(* channel 0 and an unreliable channel 1.                                 *)
EXTENDS LiveConnection, TLC

CONSTANTS m1, m2, m3

MCMsg == {m1, m2, m3}

MCChannelType == 0 :> "ReliableOrdered" @@ 1 :> "UnreliableUnordered"

MCSymmetry == Permutations(MCMsg)

=============================================================================
