--------------------------------- MODULE Hub ---------------------------------
(***************************************************************************)
(* The memory hub of hub.c over pools and an arena, which the application  *)
(* also uses directly.  A pool counts here as its blocks (Pool.tla has its *)
(* list); the arena is that of Arena.tla, with all its operations.  The    *)
(* application registers each of them once and gives a block back the way  *)
(* it got it.  The two operation counters of the hub are left out.         *)
(***************************************************************************)
EXTENDS Arena

CONSTANTS
  Pool, ArenaHandle,  (* what can be registered *)
  BlockSize,          (* fw_pool_t.block_size of each pool *)
  BlockCount,         (* and the blocks it was initialised with *)
  ReserveBytes,       (* reserves the application asks for *)
  MaxBackends,        (* FW_MEM_HUB_MAX_BACKENDS *)
  MaxAccount          (* bound of the model: bytes charged to the arena, which
                         no rewind or reset takes back, before they wrap *)

Handle == Pool \cup {ArenaHandle}
Storage(h) == IF h \in Pool THEN BlockCount[h] * BlockSize[h] ELSE Capacity

\* A sum of natural numbers.
Total(n, of) ==
  LET total[i \in 0 .. n] == IF i = 0 THEN 0 ELSE total[i - 1] + of[i]
  IN  total[n]

\* The memory of different pools and of the arena lies apart in one address
\* space, so that all of it has fewer bytes than that.
ASSUME HubAssumption ==
  /\ ArenaHandle \notin Pool
  /\ BlockSize \in [Pool -> Nat \ {0}]
  /\ BlockCount \in [Pool -> Nat]
  /\ ReserveBytes \subseteq Nat
  /\ MaxBackends \in Nat
  /\ MaxAccount \in Nat /\ MaxAccount < Space
  /\ 4 \in Alignment
  /\ \A n \in 0 .. MaxBackends : \A h \in [1 .. n -> Handle] :
       (\A i, j \in 1 .. n : h[i] = h[j] => i = j)
         => Total(n, [i \in 1 .. n |-> Storage(h[i])]) < Space

VARIABLES
  backends,  (* fw_mem_hub_t.backends, up to backend_count *)
  lent,      (* per pool, the blocks the hub handed out *)
  direct     (* per pool, the blocks fw_pool_alloc handed to others *)

vars == <<arena, backends, lent, direct>>

\* fw_mem_hub_init of a hub, over fresh pools and a fresh arena.
Init ==
  /\ ArenaInit
  /\ backends = <<>>
  /\ lent = [p \in Pool |-> 0] /\ direct = [p \in Pool |-> 0]

Tier == {"FAST", "DMA", "BULK"}
Hint == {"DMA", "FAST", "NONE"}

Registered == {backends[i].handle : i \in 1 .. Len(backends)}

\* fw_mem_hub_register_pool and fw_mem_hub_register_arena; a full table
\* refuses.
HasRoom == Len(backends) < MaxBackends
Register(h, tier, reserve) ==
  /\ h \notin Registered
  /\ HasRoom
  /\ backends' = Append(backends,
       [handle |-> h, tier |-> tier, reserve |-> reserve,
        allocated |-> 0, peak |-> 0])
  /\ UNCHANGED <<arena, lent, direct>>

FreeCount(p) == BlockCount[p] - lent[p] - direct[p]
FreeBytes(h) ==
  IF h \in Pool THEN FreeCount(h) * BlockSize[h] ELSE Capacity - offset

\* The conditions of try_alloc_from_backend, fw_arena_alloc's included.
\* Faulty variant: the reserve is looked at before the block is taken only.
WithinReserveBefore(b, size) == FreeBytes(b.handle) > b.reserve /\ size <= FreeBytes(b.handle)
WithinReserve(b, size) ==
  /\ FreeBytes(b.handle) > b.reserve
  /\ FreeBytes(b.handle) - size >= b.reserve
Serves(b, size) ==
  IF b.handle \in Pool
    THEN size <= BlockSize[b.handle] /\ WithinReserve(b, BlockSize[b.handle])
    ELSE WithinReserve(b, size) /\ Fits(PaddingTo(AlignUp(Current, 4)), size)

\* What a backend's allocated_bytes grows by.
Charge(b, size) == IF b.handle \in Pool THEN BlockSize[b.handle] ELSE size

\* The tiers fw_mem_hub_alloc tries, in this order.
SearchOrder == [
  DMA  |-> <<"DMA">>,
  FAST |-> <<"FAST", "BULK", "DMA">>,
  NONE |-> <<"BULK", "FAST", "DMA">>]
\* Backend i comes before j in the search.
Before(hint, i, j) ==
  \E s, t \in DOMAIN SearchOrder[hint] :
    /\ SearchOrder[hint][s] = backends[i].tier
    /\ SearchOrder[hint][t] = backends[j].tier
    /\ s < t \/ (s = t /\ i < j)
Candidates(size, hint) ==
  {i \in 1 .. Len(backends) :
    /\ \E s \in DOMAIN SearchOrder[hint] : SearchOrder[hint][s] = backends[i].tier
    /\ Serves(backends[i], size)}

\* fw_mem_hub_alloc.
HubAlloc(size, hint) ==
  \E i \in Candidates(size, hint) :
    /\ \A j \in Candidates(size, hint) : j = i \/ Before(hint, i, j)
    /\ LET h == backends[i].handle
           total == backends[i].allocated + Charge(backends[i], size)
       IN  /\ backends' = [backends EXCEPT
                ![i].allocated = total,
                ![i].peak = IF total > @ THEN total ELSE @]
           /\ \/ /\ h \in Pool
                 /\ lent' = [lent EXCEPT ![h] = @ + 1]
                 /\ UNCHANGED arena
              \/ /\ h = ArenaHandle /\ total <= MaxAccount
                 /\ Alloc(size, 4)
                 /\ UNCHANGED lent
    /\ UNCHANGED direct

\* fw_mem_hub_free of a block the hub handed out, which is found by its
\* address; a block of an arena is answered with FW_ERR_NOT_FOUND.
\* Faulty variant: only a backend with more than one block out is credited.
CreditedStrictly(b) == b.allocated > BlockSize[b.handle]
Credited(b) == b.allocated >= BlockSize[b.handle]
HubFree(p) ==
  /\ lent[p] > 0
  /\ lent' = [lent EXCEPT ![p] = @ - 1]
  /\ \E i \in 1 .. Len(backends) :
       /\ backends[i].handle = p
       /\ backends' = IF Credited(backends[i])
            THEN [backends EXCEPT ![i].allocated = @ - BlockSize[p]]
            ELSE backends
  /\ UNCHANGED <<arena, direct>>

\* The application's own fw_pool_alloc and fw_pool_free.
PoolAlloc(p) ==
  /\ FreeCount(p) > 0
  /\ direct' = [direct EXCEPT ![p] = @ + 1]
  /\ UNCHANGED <<arena, backends, lent>>
PoolFree(p) ==
  /\ direct[p] > 0
  /\ direct' = [direct EXCEPT ![p] = @ - 1]
  /\ UNCHANGED <<arena, backends, lent>>

\* The application's own use of the arena, scopes and resets included.
UseArena == ArenaNext /\ UNCHANGED <<backends, lent, direct>>

\* fw_mem_hub_get_free_space of a tier.
\* Faulty variant: a reserve that is not met wraps.
SpareWrapping(b) == (FreeBytes(b.handle) + Space - b.reserve) % Space
Spare(b) == IF FreeBytes(b.handle) > b.reserve THEN FreeBytes(b.handle) - b.reserve ELSE 0
SpareIn(b, tier) == IF b.tier = tier THEN Spare(b) ELSE 0
\* total_free, in fw_size_t.
Summed(n, of) ==
  LET total[i \in 0 .. n] == IF i = 0 THEN 0 ELSE (total[i - 1] + of[i]) % Space
  IN  total[n]
FreeSpace(tier) ==
  Summed(Len(backends), [i \in 1 .. Len(backends) |-> SpareIn(backends[i], tier)])

Next ==
  \/ \E h \in Handle, t \in Tier, r \in ReserveBytes : Register(h, t, r)
  \/ \E s \in Request, hint \in Hint : HubAlloc(s, hint)
  \/ \E p \in Pool : HubFree(p) \/ PoolAlloc(p) \/ PoolFree(p)
  \/ UseArena

Spec == Init /\ [][Next]_vars
-----------------------------------------------------------------------------
Backend == [handle : Handle, tier : Tier, reserve : ReserveBytes,
            allocated : Nat, peak : Nat]

TypeOK ==
  /\ ArenaTypeOK
  /\ backends \in Seq(Backend) /\ Len(backends) <= MaxBackends
  /\ lent \in [Pool -> Nat] /\ direct \in [Pool -> Nat]
  /\ \A p \in Pool : lent[p] + direct[p] <= BlockCount[p]

\* The hub's account of a pool is what its blocks out on the hub's behalf
\* amount to, whatever the application takes from the pool directly, and the
\* account's peak was never less than the account (hub.c:77-81, 158-160).
AccountsMatch ==
  \A i \in 1 .. Len(backends) :
    LET b == backends[i] IN
    /\ b.allocated <= b.peak
    /\ b.handle \in Pool => b.allocated = lent[b.handle] * BlockSize[b.handle]

\* The most an arena's alignment padding takes.
Padding(h) == IF h \in Pool THEN 0 ELSE 3

\* An allocation of the hub never digs into the reserve of the backend it
\* takes from, up to the padding of an arena, which the code forgets; direct
\* users may, and the hub then leaves that backend alone (hub.c:72, 87).
ReserveKept ==
  [][\A i \in 1 .. Len(backends), h \in Handle :
       /\ backends[i].handle = h
       /\ backends'[i].allocated > backends[i].allocated
       => FreeBytes(h)' + Padding(h) >= backends[i].reserve]_vars

\* An allocation of the hub is paid for out of what fw_mem_hub_get_free_space
\* reports of the tier it came from, padding and reserve included.
SpacePaid ==
  [][\A i \in 1 .. Len(backends), t \in Tier :
       /\ backends[i].tier = t
       /\ backends'[i].allocated > backends[i].allocated
       => FreeSpace(t)' + (backends'[i].allocated - backends[i].allocated)
            <= FreeSpace(t)]_vars
=============================================================================
