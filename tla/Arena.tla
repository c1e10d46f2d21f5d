-------------------------------- MODULE Arena --------------------------------
(***************************************************************************)
(* The bump allocator of arena.c.  Addresses and sizes have the width of   *)
(* fw_size_t, so that a request near the top of it wraps as in the code.   *)
(* Callers release in scopes: they rewind to a mark they took and have not *)
(* rewound past since, or reset the arena, after which their marks and     *)
(* blocks are gone.                                                        *)
(***************************************************************************)
EXTENDS Integers, Sequences

CONSTANTS
  Space,      (* addresses and sizes wrap here: 2^32 or 2^64 *)
  Base,       (* address of the buffer *)
  Capacity,   (* fw_arena_t.capacity *)
  Pointer,    (* sizeof(void* ) *)
  Request,    (* sizes callers ask for *)
  Alignment,  (* alignments callers ask for: 0, powers of two and others *)
  MaxMarks    (* bound of the model: marks held at a time *)

ASSUME ArenaAssumption ==
  /\ Base \in Nat \ {0} /\ Capacity \in Nat \ {0} /\ Space \in Nat
  /\ Base + Capacity <= Space
  /\ Pointer \in 1 .. Space - 1
  /\ Request \subseteq 1 .. Space - 1
  /\ Alignment \subseteq 0 .. Space - 1
  /\ MaxMarks \in Nat

VARIABLES
  offset, peak,  (* fw_arena_t.offset and .peak_used *)
  live,          (* the blocks handed out and not released: where, how long *)
  marks          (* the marks callers hold, oldest first *)

arena == <<offset, peak, live, marks>>

ArenaInit ==
  /\ offset = 0 /\ peak = 0
  /\ live = {} /\ marks = <<>>

\* The alignment a call uses; one that is no power of two is refused.
PowerOfTwo(n) == \E k \in 0 .. n : n = 2^k
AlignmentOf(a) == IF a = 0 THEN Pointer ELSE a

AlignUp(ptr, align) ==
  LET sum == (ptr + align - 1) % Space IN sum - (sum % align)

Current == Base + offset
PaddingTo(aligned) == (aligned - Current + Space) % Space

\* Faulty variant: the sum of offset, padding and size may wrap.
FitsWrapping(padding, size) == (offset + padding + size) % Space <= Capacity
Fits(padding, size) ==
  /\ padding <= Capacity - offset
  /\ size <= Capacity - offset - padding

\* fw_arena_alloc; FW_NULL changes nothing.
Alloc(size, alignment) ==
  /\ alignment = 0 \/ PowerOfTwo(alignment)
  /\ LET at == AlignUp(Current, AlignmentOf(alignment))
         end == (offset + PaddingTo(at) + size) % Space
     IN  /\ Fits(PaddingTo(at), size)
         /\ offset' = end
         /\ peak' = IF end > peak THEN end ELSE peak
         /\ live' = live \cup {[at |-> at, size |-> size]}
  /\ UNCHANGED marks

\* fw_arena_mark.
Mark ==
  /\ Len(marks) < MaxMarks
  /\ marks' = Append(marks, offset)
  /\ UNCHANGED <<offset, peak, live>>

\* fw_arena_rewind to a mark still held: what was handed out after it goes.
Rewind(i) ==
  /\ marks[i] <= offset
  /\ offset' = marks[i]
  /\ live' = {b \in live : b.at < Base + marks[i]}
  /\ marks' = SubSeq(marks, 1, i)
  /\ UNCHANGED peak

\* fw_arena_reset.
Reset ==
  /\ offset' = 0
  /\ live' = {} /\ marks' = <<>>
  /\ UNCHANGED peak

ArenaNext ==
  \/ \E s \in Request, a \in Alignment : Alloc(s, a)
  \/ Mark \/ Reset
  \/ \E i \in 1 .. Len(marks) : Rewind(i)

ArenaSpec == ArenaInit /\ [][ArenaNext]_arena
-----------------------------------------------------------------------------
Blocks == [at : Nat, size : Nat \ {0}]

ArenaTypeOK ==
  /\ offset \in 0 .. Capacity /\ peak \in 0 .. Capacity
  /\ live \subseteq Blocks
  /\ marks \in Seq(0 .. Capacity)

\* No two blocks in use share a byte.
Apart(b, c) == b.at + b.size <= c.at \/ c.at + c.size <= b.at
Disjoint == \A b, c \in live : b # c => Apart(b, c)

\* Every block in use lies between the buffer's start and the offset, so that
\* neither the next allocation nor the poisoning of a rewind reaches it.
Inside == \A b \in live : Base <= b.at /\ b.at + b.size <= Base + offset

\* A held mark falls between blocks, never into one, and marks are in order.
MarksBetween ==
  /\ \A i \in 1 .. Len(marks) :
       /\ marks[i] <= offset
       /\ \A b \in live : b.at + b.size <= Base + marks[i] \/ Base + marks[i] <= b.at
  /\ \A i, j \in 1 .. Len(marks) : i < j => marks[i] <= marks[j]

\* What fw_arena_alloc hands out is the caller's alone until it is released,
\* by whatever sequence of allocations, scopes, rewinds and resets, with
\* sizes so large that offset and size wrap.
BlocksSafe == Disjoint /\ Inside

\* The inductive invariant of HubProofs.
ArenaInv == ArenaTypeOK /\ BlocksSafe /\ MarksBetween
=============================================================================
