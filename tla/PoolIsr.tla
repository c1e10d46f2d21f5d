------------------------------- MODULE PoolIsr -------------------------------
(***************************************************************************)
(* Two contexts share a pool, as pool.h's "suitable for ISR" invites: the  *)
(* main loop's calls of pool.c are cut into their loads and stores, and an *)
(* interrupt may run a whole call of its own between any two of them.      *)
(* pool.c takes no lock and masks no interrupt; Masked says whether the    *)
(* application does so around its calls.                                   *)
(***************************************************************************)
EXTENDS Pool

CONSTANTS
  Main, Isr,  (* the two contexts *)
  Masked      (* TRUE: interrupts are masked while the main loop is in a call *)

ASSUME PoolIsrAssumption ==
  /\ Context = {Main, Isr}
  /\ Main # Isr
  /\ Masked \in BOOLEAN

VARIABLES
  pc,     (* what the main loop's call does next, or "idle" *)
  node,   (* the block that call allocates or frees *)
  loaded  (* the value of the field it is about to store back, less its change *)

locals == <<pc, node, loaded>>
allVars == <<poolVars, locals>>

MainInit == PoolInit /\ pc = "idle" /\ node = Null /\ loaded = Null

At(from, to) == pc = from /\ pc' = to

(* fw_pool_alloc of the main loop *)
\* node = free_list
LoadNode ==
  /\ At("idle", "unlink")
  /\ free_list \in Block
  /\ node' = free_list
  /\ UNCHANGED <<poolVars, loaded>>
\* free_list = node->next
Unlink ==
  /\ At("unlink", "load_count")
  /\ free_list' = link[node]
  /\ UNCHANGED <<link, free_count, bitmap, owner, node, loaded>>
\* free_count--, a load and a store
LoadCount ==
  /\ At("load_count", "store_count")
  /\ loaded' = free_count
  /\ UNCHANGED <<poolVars, node>>
StoreCount ==
  /\ At("store_count", "load_bit")
  /\ free_count' = loaded - 1
  /\ UNCHANGED <<link, free_list, bitmap, owner, node, loaded>>
\* alloc_bitmap[idx >> 5] |= bit, a load and a store; the call returns node
LoadBit ==
  /\ At("load_bit", "store_bit")
  /\ loaded' = bitmap
  /\ UNCHANGED <<poolVars, node>>
StoreBit ==
  /\ At("store_bit", "idle")
  /\ bitmap' = loaded \cup {node}
  /\ owner' = [owner EXCEPT ![node] = Main]
  /\ UNCHANGED <<link, free_list, free_count, node, loaded>>

(* fw_pool_free of the main loop *)
\* the checks, which load the word of the bit; they refuse any other address
Check(b) ==
  /\ At("idle", "clear_bit")
  /\ Accepts(b)
  /\ node' = b
  /\ loaded' = bitmap
  /\ owner' = [owner EXCEPT ![b] = Nobody]
  /\ UNCHANGED <<link, free_list, free_count, bitmap>>
\* alloc_bitmap[word_idx] &= ~mask
ClearBit ==
  /\ At("clear_bit", "set_link")
  /\ bitmap' = loaded \ {node}
  /\ UNCHANGED <<link, free_list, free_count, owner, node, loaded>>
\* Faulty variant: the freed block keeps its caller's word.
SetLinkNothing ==
  /\ At("set_link", "push")
  /\ UNCHANGED <<poolVars, node, loaded>>
\* node->next = free_list
SetLink ==
  /\ At("set_link", "push")
  /\ link' = [link EXCEPT ![node] = free_list]
  /\ UNCHANGED <<free_list, free_count, bitmap, owner, node, loaded>>
\* free_list = node
PushNode ==
  /\ At("push", "load_up")
  /\ free_list' = node
  /\ UNCHANGED <<link, free_count, bitmap, owner, node, loaded>>
\* free_count++
LoadUp ==
  /\ At("load_up", "store_up")
  /\ loaded' = free_count
  /\ UNCHANGED <<poolVars, node>>
StoreUp ==
  /\ At("store_up", "idle")
  /\ free_count' = loaded + 1
  /\ UNCHANGED <<link, free_list, bitmap, owner, node, loaded>>

MainCall ==
  \/ LoadNode \/ Unlink \/ LoadCount \/ StoreCount \/ LoadBit \/ StoreBit
  \/ \E b \in Block : Check(b)
  \/ ClearBit \/ SetLink \/ PushNode \/ LoadUp \/ StoreUp

\* Faulty variant: the interrupt is not masked.
IsrCallUnmasked ==
  /\ \/ Alloc(Isr)
     \/ \E p \in Address : Free(p)
  /\ UNCHANGED locals

\* An interrupt makes a whole call: nothing interleaves with it.
IsrCall ==
  /\ Masked => pc = "idle"
  /\ \/ Alloc(Isr)
     \/ \E p \in Address : Free(p)
  /\ UNCHANGED locals

\* The main loop and the ISR use the blocks they hold.
UseBlock == (\E b \in Block : Use(b)) /\ UNCHANGED locals

IsrNext == MainCall \/ IsrCall \/ UseBlock

IsrSpec == MainInit /\ [][IsrNext]_allVars
-----------------------------------------------------------------------------
(* With interrupts masked a call of the main loop takes effect in one step, *)
(* at Unlink or at PushNode.  Until it has, and from there to its end, the  *)
(* block in transit counts as handed out and the count as already right:   *)
(* under this mapping SharedProofs shows that PoolIsr implements Pool.     *)
InTransit ==
  pc \in {"load_count", "store_count", "load_bit", "store_bit", "clear_bit", "set_link", "push"}
CountNow ==
  IF pc \in {"load_count", "store_count"} THEN free_count - 1
  ELSE IF pc \in {"load_up", "store_up"} THEN free_count + 1
  ELSE free_count
BitmapNow == IF InTransit THEN bitmap \cup {node} ELSE bitmap
OwnerNow ==
  [b \in Block |-> IF owner[b] = Nobody /\ ~(InTransit /\ b = node) THEN Nobody ELSE Main]

\* What the main loop's call relies on between its steps.
CallInv ==
  /\ owner \in [Block -> Context \cup {Nobody}] /\ bitmap \in SUBSET Block
  /\ pc \in {"idle", "unlink", "load_count", "store_count", "load_bit", "store_bit",
             "clear_bit", "set_link", "push", "load_up", "store_up"}
  /\ pc = "unlink" => node = free_list /\ node \in Block
  /\ InTransit => node \in Block /\ owner[node] = Nobody /\ (pc # "clear_bit" => node \notin bitmap)
  /\ pc \in {"store_count", "store_up"} => loaded = free_count
  /\ pc \in {"store_bit", "clear_bit"} => loaded = bitmap
  /\ pc = "push" => link[node] = free_list

\* A free block is free to no one: when no call is under way the list, the
\* bitmap and the count agree, as they do in Pool.
QuietListSound == pc = "idle" => FreeListSound
=============================================================================
