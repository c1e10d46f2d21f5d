-------------------------------- MODULE MCNvs --------------------------------
(* Nvs with records of three words; a tombstone has two.                   *)
EXTENDS Nvs, TLC

CONSTANTS k1, k2, a, b

MCSize == [v \in Value |-> 1]

\* The two values are interchangeable, and so are the keys.
MCSymmetry == Permutations({k1, k2}) \cup Permutations({a, b})
=============================================================================
