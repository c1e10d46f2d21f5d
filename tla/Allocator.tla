------------------------------ MODULE Allocator ------------------------------
(***************************************************************************)
(* What an allocator of equal blocks promises: a block handed out belongs  *)
(* to one caller until that caller returns it.  Pool and PoolIsr implement *)
(* it.                                                                     *)
(***************************************************************************)
CONSTANTS Block, Context, Nobody

VARIABLE owner   (* owner[b]: the context that holds block b, or Nobody *)

Init == owner = [b \in Block |-> Nobody]

Grant(b, c) ==
  /\ owner[b] = Nobody
  /\ owner' = [owner EXCEPT ![b] = c]

Return(b) ==
  /\ owner[b] # Nobody
  /\ owner' = [owner EXCEPT ![b] = Nobody]

Next == \E b \in Block : Return(b) \/ \E c \in Context : Grant(b, c)

Spec == Init /\ [][Next]_owner
=============================================================================
