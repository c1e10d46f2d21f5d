-------------------------------- MODULE Pool --------------------------------
(***************************************************************************)
(* The fixed-block pool of pool.c.  A free block's first word is the link  *)
(* to the next free block; once the block is handed out that word is the   *)
(* caller's, who may leave anything in it.  A bitmap, one bit per block,   *)
(* records what is handed out and is what fw_pool_free checks.             *)
(***************************************************************************)
EXTENDS Integers, Sequences, FiniteSets

CONSTANTS
  PoolCapacity,  (* fw_pool_t.capacity, as fw_pool_init computed it *)
  Null,          (* FW_NULL *)
  Stray,         (* an address that is not the start of one of the blocks *)
  Context,       (* who calls the pool: the main loop, an ISR *)
  Nobody

ASSUME PoolAssumption ==
  /\ PoolCapacity \in Nat \ {0}
  /\ Null \notin Nat
  /\ Stray \notin Nat
  /\ Null # Stray
  /\ Nobody \notin Context

Block == 0 .. PoolCapacity - 1
Address == Block \cup {Null, Stray}

VARIABLES
  link,       (* link[b]: the first word of block b *)
  free_list,  (* head of the intrusive list *)
  free_count,
  bitmap,     (* the blocks whose bit in alloc_bitmap is set *)
  owner       (* which context was handed each block: known to the callers *)

poolVars == <<link, free_list, free_count, bitmap, owner>>

\* fw_pool_init: the blocks are linked in address order.
PoolInit ==
  /\ link = [b \in Block |-> IF b = PoolCapacity - 1 THEN Null ELSE b + 1]
  /\ free_list = 0
  /\ free_count = PoolCapacity
  /\ bitmap = {}
  /\ owner = [b \in Block |-> Nobody]

\* fw_pool_alloc; an exhausted pool answers FW_NULL and stays as it is.  A
\* head that is not a block would be dereferenced all the same: nothing is
\* said of what happens then, and FreeListSound is that it never does.
Alloc(c) ==
  /\ free_list \in Block
  /\ free_list' = link[free_list]
  /\ free_count' = free_count - 1
  /\ bitmap' = bitmap \cup {free_list}
  /\ owner' = [owner EXCEPT ![free_list] = c]
  /\ UNCHANGED link

\* The checks of fw_pool_free: in range, at a block's start, bit set.
Accepts(p) == p \in Block /\ p \in bitmap

\* fw_pool_free of an accepted block; every other address is answered with
\* FW_ERR_INVALID_ARG and changes nothing.
Free(b) ==
  /\ Accepts(b)
  /\ bitmap' = bitmap \ {b}
  /\ link' = [link EXCEPT ![b] = free_list]
  /\ free_list' = b
  /\ free_count' = free_count + 1
  /\ owner' = [owner EXCEPT ![b] = Nobody]

\* The holder of a block writes to it.
Use(b) ==
  /\ owner[b] # Nobody
  /\ \E word \in Address : link' = [link EXCEPT ![b] = word]
  /\ UNCHANGED <<free_list, free_count, bitmap, owner>>

\* Callers free what they hold, and may also free again what they freed
\* before, or an address that is not a block: any address but one that has
\* meanwhile been handed to another caller, which no pool could tell apart.
PoolNext ==
  \/ \E c \in Context : Alloc(c)
  \/ \E p \in Address : Free(p)
  \/ \E b \in Block : Use(b)

PoolSpec == PoolInit /\ [][PoolNext]_poolVars
-----------------------------------------------------------------------------
\* The list head and every word a caller can leave in a block are addresses;
\* free_count never leaves the pool's size.
PoolTypeOK ==
  /\ link \in [Block -> Address]
  /\ free_list \in Block \cup {Null}
  /\ free_count \in 0 .. PoolCapacity
  /\ bitmap \in SUBSET Block
  /\ owner \in [Block -> Context \cup {Nobody}]

\* s is the free list: it starts at free_list, follows the links, and ends.
Chain(s) ==
  /\ free_list = IF Len(s) = 0 THEN Null ELSE s[1]
  /\ \A i \in 1 .. Len(s) :
       link[s[i]] = IF i = Len(s) THEN Null ELSE s[i + 1]

\* s holds every block whose bit is clear, and holds it once.
ListsFree(s) ==
  /\ \A i, j \in 1 .. Len(s) : s[i] = s[j] => i = j
  /\ \A b \in Block : (b \notin bitmap) <=> \E i \in 1 .. Len(s) : s[i] = b

Chains == UNION {[1 .. n -> Block] : n \in 0 .. PoolCapacity}

\* The free list has no cycle, ends, runs through exactly the blocks whose
\* bit is clear, and free_count is its length, whatever callers wrote into
\* their blocks and however often they freed: "list cycle corruption
\* mathematically impossible" (embedded-architecture.md:72).
FreeListSound ==
  \E s \in Chains : Chain(s) /\ ListsFree(s) /\ Len(s) = free_count

\* A block's bit is set exactly while a caller holds it, so a free that is
\* accepted never takes a block away from nobody, nor loses one.
BitmapIsOwnership == \A b \in Block : (b \in bitmap) <=> (owner[b] # Nobody)

\* No block is lost: each is either counted free or marked handed out.
NoneLost == free_count + Cardinality(bitmap) = PoolCapacity

\* The inductive invariant of PoolProofs.
PoolInv == PoolTypeOK /\ FreeListSound /\ BitmapIsOwnership /\ NoneLost

A == INSTANCE Allocator

\* Seen by its callers, the pool (fw_pool_alloc and fw_pool_free) hands each
\* block to one caller at a time and takes back only what it handed out.
ImplementsAllocator == A!Spec
=============================================================================
