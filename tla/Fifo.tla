-------------------------------- MODULE Fifo --------------------------------
(***************************************************************************)
(* What a byte queue between one writer and one reader promises: a chunk   *)
(* the writer offers is appended whole and unchanged, prefixes are removed *)
(* whole, and never more than Capacity bytes are held.  Spsc implements it *)
(* (see Spsc!Queue).                                                       *)
(***************************************************************************)
EXTENDS Integers, Sequences

CONSTANTS
  Byte,      (* the values a slot can hold *)
  Capacity   (* how many bytes the queue holds *)

VARIABLES
  queue,     (* the bytes put and not yet taken, oldest first *)
  offered,   (* the chunk the writer has set out to put, or <<>> *)
  taken      (* the chunk the last Take handed over *)

Init == queue = <<>> /\ offered = <<>> /\ taken = <<>>

\* The writer settles on a chunk there is room for.
Offer ==
  /\ offered = <<>> /\ offered' # <<>>
  /\ Len(queue) + Len(offered') <= Capacity
  /\ UNCHANGED <<queue, taken>>

Put ==
  /\ offered # <<>> /\ offered' = <<>>
  /\ Len(queue) + Len(offered) <= Capacity
  /\ queue' = queue \o offered
  /\ UNCHANGED taken

Take(n) ==
  /\ queue' = SubSeq(queue, n + 1, Len(queue))
  /\ taken' = SubSeq(queue, 1, n)
  /\ UNCHANGED offered

Next == Offer \/ Put \/ \E n \in 1 .. Len(queue) : Take(n)

Spec == Init /\ [][Next]_<<queue, offered, taken>>
=============================================================================
