-------------------------------- MODULE Words --------------------------------
(***************************************************************************)
(* Words as rows of bits, bit 0 the lowest.                                *)
(***************************************************************************)
EXTENDS Integers

Bit(n, k) == (n \div 2^k) % 2

\* What C and Rust write x ^ y, of words of this many bits.
Xor(x, y, bits) ==
  LET xor[k \in 0 .. bits] ==
        IF k = 0 THEN 0
        ELSE 2 * xor[k - 1] + (IF Bit(x, bits - k) = Bit(y, bits - k) THEN 0 ELSE 1)
  IN  xor[bits]
=============================================================================
