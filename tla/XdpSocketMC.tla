---------------------------- MODULE XdpSocketMC ----------------------------
(* The frames are alike.                                                   *)
EXTENDS XdpSocket, TLC
AnyFrame == Permutations(Frames)
=============================================================================
