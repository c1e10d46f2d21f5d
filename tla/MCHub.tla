-------------------------------- MODULE MCHub --------------------------------
(* Two pools of different blocks and one arena.                            *)
EXTENDS Hub, TLC
CONSTANTS p1, p2
MCBlockSize == p1 :> 4 @@ p2 :> 2
MCBlockCount == p1 :> 2 @@ p2 :> 1
=============================================================================
