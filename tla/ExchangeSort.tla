---------------------------- MODULE ExchangeSort ----------------------------
(***************************************************************************)
(* The sort of hook.c and init.c: for each place i and each later place j, *)
(* exchange the two when they are out of order.  It is not stable.         *)
(* wrong holds the pairs that are out of order.                            *)
(***************************************************************************)
EXTENDS Integers, Sequences

Exchange(s, i, j) == [s EXCEPT ![i] = s[j], ![j] = s[i]]
Compared(s, i, j, wrong) ==
  IF <<s[i], s[j]>> \in wrong THEN Exchange(s, i, j) ELSE s

\* One i: everything behind it is compared with it in turn.
Sweep(s, i, wrong) ==
  LET upto[j \in i .. Len(s)] ==
        IF j = i THEN s ELSE Compared(upto[j - 1], i, j, wrong)
  IN  upto[Len(s)]

Sort(s, wrong) ==
  LET upto[i \in 0 .. Len(s)] ==
        IF i = 0 THEN s ELSE Sweep(upto[i - 1], i, wrong)
  IN  upto[Len(s)]
=============================================================================
