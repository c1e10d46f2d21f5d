------------------------------ MODULE HubProofs ------------------------------
(***************************************************************************)
(* Proofs about the arena and the hub for every buffer, every width of     *)
(* fw_size_t and every set of pools.                                       *)
(***************************************************************************)
EXTENDS Hub, SequenceTheorems, WellFoundedInduction, TLAPS

(* Small moduli.                                                           *)
LEMMA Remainder ==
  ASSUME NEW n \in Nat \ {0}, NEW a \in Nat
  PROVE  /\ a % n \in 0 .. n - 1
         /\ a % n <= a
         /\ a < n => a % n = a
<1> DEFINE q == a \div n
           r == a % n
<1>1. q \in Nat /\ r \in 0 .. n - 1 /\ a = (n * q) + r
  BY SMT
<1> HIDE DEF q, r
<1>2. q >= 1 => n * q >= n
  BY <1>1
<1>3. n * q >= 0
  BY <1>1
<1>4. q = 0 => n * q = 0
  BY <1>1
<1> QED  BY <1>1, <1>2, <1>3, <1>4 DEF r

LEMMA RemainderOnce ==
  ASSUME NEW n \in Nat \ {0}, NEW a \in Nat, n <= a, a < n + n
  PROVE  a % n = a - n
<1> DEFINE q == a \div n
           r == a % n
<1>1. q \in Nat /\ r \in 0 .. n - 1 /\ a = (n * q) + r
  BY SMT
<1> HIDE DEF q, r
<1>2. q >= 2 => n * q >= n + n
  BY <1>1
<1>3. q = 0 => n * q = 0
  BY <1>1
<1>4. q = 1 => n * q = n
  BY <1>1
<1>5. q = 1
  BY <1>1, <1>2, <1>3
<1> QED  BY <1>1, <1>4, <1>5 DEF r

(* What passes the check of fw_arena_alloc lies in the buffer behind the   *)
(* offset, although none of the sums in it is protected from wrapping.     *)
LEMMA FitsMeansInside ==
  ASSUME offset \in 0 .. Capacity,
         NEW align \in 1 .. Space - 1, NEW size \in 1 .. Space - 1,
         Fits(PaddingTo(AlignUp(Current, align)), size)
  PROVE  LET at == AlignUp(Current, align)
             end == (offset + PaddingTo(at) + size) % Space
         IN  /\ at \in Nat /\ PaddingTo(at) \in Nat
             /\ at = Current + PaddingTo(at)
             /\ end = offset + PaddingTo(at) + size
             /\ end <= Capacity
             /\ PaddingTo(at) < align
<1> DEFINE whole == Current + align - 1
           sum == whole % Space
           low == sum % align
           at == AlignUp(Current, align)
           padding == PaddingTo(at)
<1>1. /\ Current \in 1 .. Space /\ Current = Base + offset
      /\ Base \in Nat \ {0} /\ Capacity \in Nat /\ Base + Capacity <= Space
      /\ Space \in Nat \ {0} /\ Capacity < Space
      /\ align \in Nat \ {0} /\ whole \in Nat /\ whole = Current + align - 1
  BY ArenaAssumption DEF Current
<1>2. at = sum - low /\ sum = whole % Space /\ low = sum % align
  BY DEF AlignUp
<1>3. padding = (at - Current + Space) % Space
  BY DEF PaddingTo
<1>4. padding <= Capacity - offset /\ size <= Capacity - offset - padding
  BY DEF Fits
<1> SUFFICES /\ at \in Nat /\ padding \in Nat /\ at = Current + padding
             /\ (offset + padding + size) % Space = offset + padding + size
             /\ offset + padding + size <= Capacity
             /\ padding < align
  BY Zenon
<1> HIDE DEF whole, sum, low, at, padding
<1>5. sum \in 0 .. Space - 1
  BY <1>1, <1>2, Remainder
<1>6. low \in 0 .. align - 1 /\ low <= sum /\ (sum < align => low = sum)
  <2>1. sum \in Nat
    BY <1>5, <1>1
  <2> QED  BY <1>1, <1>2, <2>1, Remainder
<1>7. at \in Nat /\ at - Current + Space \in Nat
  BY <1>1, <1>2, <1>5, <1>6
<1>8. padding \in Nat
  BY <1>1, <1>3, <1>7, Remainder
<1>9. CASE whole < Space
  <2>1. sum = whole
    BY <1>1, <1>2, <1>9, Remainder
  <2>2. at - Current + Space \in Space .. (Space + Space) - 1
    BY <2>1, <1>1, <1>2, <1>6
  <2>3. padding = at - Current
    <3> DEFINE lifted == at - Current + Space
    <3>1. lifted \in Nat /\ Space <= lifted /\ lifted < Space + Space
          /\ lifted - Space = at - Current /\ padding = lifted % Space
      BY <2>2, <1>1, <1>3, <1>7
    <3> HIDE DEF lifted
    <3> QED  BY <3>1, <1>1, RemainderOnce
  <2>4. offset + padding + size \in Nat /\ offset + padding + size <= Capacity
        /\ offset + padding + size < Space /\ Space \in Nat \ {0}
    BY <1>1, <1>4, <1>8
  <2>5. (offset + padding + size) % Space = offset + padding + size
    BY <2>4, Remainder, Zenon
  <2>6. padding < align
    BY <2>1, <2>3, <1>1, <1>2, <1>6
  <2> QED  BY <2>3, <2>4, <2>5, <2>6, <1>1, <1>7, <1>8
<1>10. CASE whole >= Space
  <2>1. whole % Space = whole - Space
    <3>1. whole \in Nat /\ Space <= whole /\ whole < Space + Space
      BY <1>1, <1>10
    <3> QED  BY <3>1, <1>1, RemainderOnce
  <2>2. at = 0
    BY <2>1, <1>1, <1>2, <1>6
  <2>3. CASE Current = Space
    BY <2>3, <1>1, <1>4, <1>8
  <2>4. CASE Current < Space
    <3>1. Space - Current \in Nat /\ Space - Current < Space
          /\ at - Current + Space = Space - Current
      BY <2>2, <2>4, <1>1
    <3>2. padding = Space - Current
      BY <3>1, <1>1, <1>3, Remainder
    <3> QED  BY <3>2, <1>1, <1>4
  <2> QED  BY <2>3, <2>4, <1>1
<1> QED  BY <1>9, <1>10, <1>1
-----------------------------------------------------------------------------
(* What a call of fw_arena_alloc does, in plain arithmetic.                *)
LEMMA AllocPlain ==
  ASSUME ArenaTypeOK, NEW size \in Request, NEW alignment \in Alignment,
         Alloc(size, alignment)
  PROVE  \E at, padding \in Nat :
           LET b == [at |-> at, size |-> size]
           IN  /\ b \in Blocks
               /\ at = Base + offset + padding
               /\ padding < AlignmentOf(alignment)
               /\ offset' = offset + padding + size
               /\ offset' <= Capacity /\ peak' \in 0 .. Capacity
               /\ live' = live \cup {b}
               /\ marks' = marks
<1> DEFINE align == AlignmentOf(alignment)
           place == AlignUp(Current, align)
<1>1. /\ size \in 1 .. Space - 1 /\ align \in 1 .. Space - 1
      /\ Base \in Nat /\ Capacity \in Nat
  BY ArenaAssumption DEF AlignmentOf
<1>2. offset \in 0 .. Capacity /\ peak \in 0 .. Capacity
  BY DEF ArenaTypeOK
<1>3. /\ Fits(PaddingTo(place), size)
      /\ offset' = (offset + PaddingTo(place) + size) % Space
      /\ peak' = IF (offset + PaddingTo(place) + size) % Space > peak
                   THEN (offset + PaddingTo(place) + size) % Space ELSE peak
      /\ live' = live \cup {[at |-> place, size |-> size]}
      /\ marks' = marks
  BY DEF Alloc
<1>4. /\ place \in Nat /\ PaddingTo(place) \in Nat
      /\ place = Current + PaddingTo(place)
      /\ (offset + PaddingTo(place) + size) % Space = offset + PaddingTo(place) + size
      /\ offset + PaddingTo(place) + size <= Capacity
      /\ PaddingTo(place) < align
  <2> HIDE DEF align
  <2> QED  BY <1>1, <1>2, <1>3, FitsMeansInside
<1> DEFINE padding == PaddingTo(place)
<1> HIDE DEF place, align, padding
<1>5. place = Base + offset + padding
  BY <1>1, <1>2, <1>4 DEF Current, padding
<1>6. offset' = offset + padding + size /\ offset' <= Capacity
  BY <1>3, <1>4 DEF padding
<1>7. peak' \in 0 .. Capacity
  BY <1>1, <1>2, <1>3, <1>4 DEF padding
<1>8. [at |-> place, size |-> size] \in Blocks
  BY <1>1, <1>4 DEF Blocks
<1>9. place \in Nat /\ padding \in Nat /\ padding < align
  BY <1>4 DEF padding
<1> QED  BY <1>3, <1>5, <1>6, <1>7, <1>8, <1>9 DEF align
-----------------------------------------------------------------------------
(* The arena's operations keep its invariant. *)
LEMMA AllocKeeps ==
  ASSUME ArenaInv, NEW size \in Request, NEW alignment \in Alignment,
         Alloc(size, alignment)
  PROVE  ArenaInv'
<1>1. PICK at \in Nat, padding \in Nat :
        LET b == [at |-> at, size |-> size]
        IN  /\ b \in Blocks
            /\ at = Base + offset + padding
            /\ offset' = offset + padding + size
            /\ offset' <= Capacity /\ peak' \in 0 .. Capacity
            /\ live' = live \cup {b}
            /\ marks' = marks
  BY AllocPlain DEF ArenaInv
<1> DEFINE b == [at |-> at, size |-> size]
<1>2. /\ b \in Blocks /\ b.at = at /\ b.size = size
      /\ size \in Nat \ {0} /\ Base \in Nat /\ Capacity \in Nat
      /\ offset \in 0 .. Capacity
  BY <1>1, ArenaAssumption DEF ArenaInv, ArenaTypeOK
<1>3. /\ at = Base + offset + padding
      /\ offset' = offset + padding + size /\ offset' <= Capacity
      /\ live' = live \cup {b} /\ marks' = marks /\ peak' \in 0 .. Capacity
  BY <1>1
<1>4. \A c \in live : c \in Blocks /\ c.at \in Nat /\ c.size \in Nat \ {0}
  BY DEF ArenaInv, ArenaTypeOK, Blocks
<1> HIDE DEF b
<1>5. ArenaTypeOK'
  BY <1>2, <1>3 DEF ArenaInv, ArenaTypeOK
<1>6. \A c \in live : c.at + c.size <= at
  BY <1>2, <1>3, <1>4 DEF ArenaInv, BlocksSafe, Inside
<1>7. Disjoint'
  BY <1>2, <1>3, <1>6 DEF ArenaInv, BlocksSafe, Disjoint, Apart
<1>8. Inside'
  BY <1>2, <1>3, <1>4 DEF ArenaInv, BlocksSafe, Inside
<1>9. MarksBetween'
  <2>1. \A i \in 1 .. Len(marks) : marks[i] \in 0 .. Capacity
    <3>1. marks \in Seq(0 .. Capacity)
      BY DEF ArenaInv, ArenaTypeOK
    <3> QED  BY <3>1, ElementOfSeq
  <2>2. \A i \in 1 .. Len(marks) : marks[i] <= offset' /\ Base + marks[i] <= b.at
    BY <2>1, <1>2, <1>3 DEF ArenaInv, MarksBetween
  <2> QED  BY <2>2, <1>3 DEF ArenaInv, MarksBetween
<1> QED  BY <1>5, <1>7, <1>8, <1>9 DEF ArenaInv, BlocksSafe

LEMMA MarkKeeps ==
  ASSUME ArenaInv, Mark
  PROVE  ArenaInv'
<1>1. /\ marks' = Append(marks, offset) /\ marks' \in Seq(0 .. Capacity)
      /\ UNCHANGED <<offset, peak, live>>
  BY DEF Mark, ArenaInv, ArenaTypeOK
<1>2. /\ Len(marks') = Len(marks) + 1 /\ Len(marks) \in Nat
      /\ \A i \in 1 .. Len(marks) : marks'[i] = marks[i]
      /\ marks'[Len(marks) + 1] = offset
      /\ offset \in 0 .. Capacity /\ Capacity \in Nat
  BY <1>1, ArenaAssumption DEF ArenaInv, ArenaTypeOK
<1>3. ArenaTypeOK' /\ BlocksSafe'
  BY <1>1 DEF ArenaInv, ArenaTypeOK, BlocksSafe, Disjoint, Inside
<1>4. \A i \in 1 .. Len(marks') : \/ marks'[i] = marks[i] /\ i \in 1 .. Len(marks)
                                  \/ marks'[i] = offset /\ i = Len(marks) + 1
  BY <1>2
<1>5. MarksBetween'
  BY <1>1, <1>2, <1>4 DEF ArenaInv, MarksBetween, BlocksSafe, Inside
<1> QED  BY <1>3, <1>5 DEF ArenaInv

LEMMA RewindKeeps ==
  ASSUME ArenaInv, NEW i \in 1 .. Len(marks), Rewind(i)
  PROVE  ArenaInv'
<1>1. /\ offset' = marks[i] /\ peak' = peak
      /\ live' = {b \in live : b.at < Base + marks[i]}
      /\ marks' = SubSeq(marks, 1, i)
  BY DEF Rewind
<1>2. /\ marks \in Seq(0 .. Capacity) /\ marks[i] \in 0 .. Capacity
      /\ Capacity \in Nat /\ Base \in Nat
  BY ArenaAssumption DEF ArenaInv, ArenaTypeOK
<1>3. /\ Len(marks') = i /\ marks' \in Seq(0 .. Capacity)
      /\ \A j \in 1 .. i : marks'[j] = marks[j] /\ j \in 1 .. Len(marks)
  BY <1>1, <1>2
<1>4. ArenaTypeOK'
  BY <1>1, <1>2, <1>3 DEF ArenaInv, ArenaTypeOK
<1>5. \A b \in live' : b \in live /\ b.at + b.size <= Base + offset'
  BY <1>1, <1>2 DEF ArenaInv, ArenaTypeOK, Blocks, MarksBetween
<1>6. BlocksSafe'
  BY <1>5 DEF ArenaInv, BlocksSafe, Disjoint, Inside
<1>7. MarksBetween'
  <2>1. \A j \in 1 .. i : marks'[j] <= offset'
    BY <1>1, <1>2, <1>3 DEF ArenaInv, MarksBetween
  <2> QED  BY <2>1, <1>3, <1>5 DEF ArenaInv, MarksBetween
<1> QED  BY <1>4, <1>6, <1>7 DEF ArenaInv

LEMMA ResetKeeps ==
  ASSUME ArenaInv, Reset
  PROVE  ArenaInv'
<1>1. offset' = 0 /\ live' = {} /\ marks' = <<>> /\ peak' = peak
  BY DEF Reset
<1>2. ArenaTypeOK'
  BY <1>1, ArenaAssumption DEF ArenaInv, ArenaTypeOK
<1> QED
  BY <1>1, <1>2 DEF ArenaInv, BlocksSafe, Disjoint, Inside, MarksBetween

LEMMA ArenaStarts == ArenaInit => ArenaInv
<1> SUFFICES ASSUME ArenaInit PROVE ArenaInv
  OBVIOUS
<1>1. offset = 0 /\ peak = 0 /\ live = {} /\ marks = <<>>
  BY DEF ArenaInit
<1>2. ArenaTypeOK
  BY <1>1, ArenaAssumption DEF ArenaTypeOK
<1> QED
  BY <1>1, <1>2 DEF ArenaInv, BlocksSafe, Disjoint, Inside, MarksBetween

(* The constants without what is said of all memory together.              *)
LEMMA HubConstants ==
  /\ ArenaHandle \notin Pool
  /\ BlockSize \in [Pool -> Nat \ {0}]
  /\ BlockCount \in [Pool -> Nat]
  /\ ReserveBytes \subseteq Nat
  /\ MaxBackends \in Nat /\ MaxAccount \in Nat
  /\ 4 \in Alignment
  BY HubAssumption


LEMMA ArenaStep == ArenaInv /\ [ArenaNext]_arena => ArenaInv'
<1> SUFFICES ASSUME ArenaInv, [ArenaNext]_arena
             PROVE  ArenaInv'
  OBVIOUS
<1>1. CASE \E s \in Request, a \in Alignment : Alloc(s, a)
  BY <1>1, AllocKeeps
<1>2. CASE Mark
  BY <1>2, MarkKeeps
<1>3. CASE Reset
  BY <1>3, ResetKeeps
<1>4. CASE \E i \in 1 .. Len(marks) : Rewind(i)
  BY <1>4, RewindKeeps
<1>5. CASE UNCHANGED arena
  BY <1>5 DEF arena, ArenaInv, ArenaTypeOK, BlocksSafe, Disjoint, Inside, MarksBetween
<1> QED  BY <1>1, <1>2, <1>3, <1>4, <1>5 DEF ArenaNext
-----------------------------------------------------------------------------
(* To the arena, the hub is one more caller. *)
LEMMA HubStepIsArenaStep == [Next]_vars => [ArenaNext]_arena
<1> SUFFICES ASSUME [Next]_vars PROVE [ArenaNext]_arena
  OBVIOUS
<1>1. CASE \E h \in Handle, t \in Tier, r \in ReserveBytes : Register(h, t, r)
  BY <1>1 DEF Register
<1>2. CASE \E s \in Request, hint \in Hint : HubAlloc(s, hint)
  <2>1. PICK s \in Request, hint \in Hint : HubAlloc(s, hint)
    BY <1>2
  <2>2. Alloc(s, 4) \/ UNCHANGED arena
    BY <2>1 DEF HubAlloc
  <2> QED  BY <2>2, HubConstants DEF ArenaNext
<1>3. CASE \E p \in Pool : HubFree(p) \/ PoolAlloc(p) \/ PoolFree(p)
  BY <1>3 DEF HubFree, PoolAlloc, PoolFree
<1>4. CASE UseArena
  BY <1>4 DEF UseArena
<1>5. CASE UNCHANGED vars
  BY <1>5 DEF vars
<1> QED  BY <1>1, <1>2, <1>3, <1>4, <1>5 DEF Next

(* Whatever hub, pools and application do, the arena sees legal calls of   *)
(* its own interface only (arena.c:21-83, hub.c:91).                       *)
THEOREM HubUsesArena == Spec => ArenaSpec
<1>1. Init => ArenaInit
  BY DEF Init
<1> QED  BY <1>1, HubStepIsArenaStep, PTL DEF Spec, ArenaSpec

(* No two blocks of the arena in use overlap and none leaves the part of   *)
(* the buffer below the offset, over marks, rewinds, resets, the hub's     *)
(* calls and requests near the top of fw_size_t (arena.c:21-48, 66-83).    *)
THEOREM ArenaStaysSafe == Spec => []BlocksSafe
<1>1. Init => ArenaInv
  BY ArenaStarts DEF Init
<1>2. ArenaInv /\ [Next]_vars => ArenaInv'
  BY ArenaStep, HubStepIsArenaStep
<1>3. ArenaInv => BlocksSafe
  BY DEF ArenaInv
<1> QED  BY <1>1, <1>2, <1>3, PTL DEF Spec
-----------------------------------------------------------------------------
(* The hub's accounts.  A handle is registered at most once, so that the   *)
(* search of fw_mem_hub_free ends at the backend the block was charged to. *)
OneEach ==
  \A i, j \in 1 .. Len(backends) : backends[i].handle = backends[j].handle => i = j
NoneUncharged == \A p \in Pool : p \notin Registered => lent[p] = 0
HubInv == TypeOK /\ AccountsMatch /\ OneEach /\ NoneUncharged

(* What fw_mem_hub_alloc does to hub and pools.                            *)
LEMMA HubAllocPlain ==
  ASSUME TypeOK, NEW size \in Request, NEW hint \in Hint, HubAlloc(size, hint)
  PROVE  \E i \in 1 .. Len(backends), total \in Nat :
           /\ backends' = [backends EXCEPT
                ![i].allocated = total,
                ![i].peak = IF total > @ THEN total ELSE @]
           /\ direct' = direct
           /\ \/ /\ backends[i].handle \in Pool
                 /\ total = backends[i].allocated + BlockSize[backends[i].handle]
                 /\ FreeCount(backends[i].handle) >= 1
                 /\ lent' = [lent EXCEPT ![backends[i].handle] = @ + 1]
              \/ backends[i].handle \notin Pool /\ lent' = lent
<1>1. PICK i \in Candidates(size, hint) :
        LET h == backends[i].handle
            total == backends[i].allocated + Charge(backends[i], size)
        IN  /\ backends' = [backends EXCEPT
                 ![i].allocated = total,
                 ![i].peak = IF total > @ THEN total ELSE @]
            /\ \/ h \in Pool /\ lent' = [lent EXCEPT ![h] = @ + 1]
               \/ h = ArenaHandle /\ lent' = lent
            /\ direct' = direct
  BY DEF HubAlloc
<1> DEFINE b == backends[i]
           total == b.allocated + Charge(b, size)
<1>2. i \in 1 .. Len(backends) /\ Serves(b, size)
  BY DEF Candidates
<1>3. b \in Backend
  <2>1. backends \in Seq(Backend)
    BY DEF TypeOK
  <2> QED  BY <2>1, <1>2, ElementOfSeq
<1>4. b.allocated \in Nat /\ b.reserve \in Nat /\ b.handle \in Handle
  BY <1>3, HubConstants DEF Backend
<1> HIDE DEF b
<1>5. CASE b.handle \in Pool
  <2>1. BlockSize[b.handle] \in Nat \ {0} /\ FreeCount(b.handle) \in Int
    BY <1>5, HubConstants DEF TypeOK, FreeCount
  <2>2. FreeCount(b.handle) * BlockSize[b.handle] > b.reserve
    BY <1>2, <1>5 DEF Serves, WithinReserve, FreeBytes
  <2>3. FreeCount(b.handle) >= 1
    <3> DEFINE n == FreeCount(b.handle)
               w == BlockSize[b.handle]
    <3>1. n \in Int /\ w \in Nat /\ n * w > b.reserve
      BY <2>1, <2>2
    <3> HIDE DEF n, w
    <3>2. n <= 0 => n * w <= 0
      BY <3>1
    <3> QED  BY <3>1, <3>2, <1>4 DEF n
  <2>4. total = b.allocated + BlockSize[b.handle] /\ total \in Nat
    BY <1>4, <1>5, <2>1 DEF Charge
  <2> QED  BY <1>1, <1>2, <1>5, <2>3, <2>4, HubConstants DEF b
<1>6. CASE b.handle \notin Pool
  <2>1. total \in Nat
    BY <1>4, <1>6, ArenaAssumption DEF Charge
  <2> QED  BY <1>1, <1>2, <1>6, <2>1 DEF b
<1> QED  BY <1>5, <1>6
-----------------------------------------------------------------------------
(* The pieces of the invariant that speak of a single backend and pool.    *)
LEMMA BackendType ==
  ASSUME TypeOK, NEW i \in 1 .. Len(backends)
  PROVE  /\ backends[i] \in Backend
         /\ backends[i].allocated \in Nat /\ backends[i].peak \in Nat
         /\ backends[i].handle \in Handle
         /\ backends[i].handle \in Registered
<1>1. backends \in Seq(Backend)
  BY DEF TypeOK
<1>2. backends[i] \in Backend
  BY <1>1, ElementOfSeq
<1> QED  BY <1>2 DEF Backend, Registered

LEMMA PoolArithmetic ==
  ASSUME NEW w \in Nat \ {0}, NEW n \in Nat
  PROVE  /\ (n + 1) * w = n * w + w
         /\ n >= 1 => (n - 1) * w = n * w - w /\ n * w >= w
         /\ n * w \in Nat
  BY SMT

LEMMA RegisterKeeps ==
  ASSUME HubInv, ArenaTypeOK', NEW h \in Handle, NEW t \in Tier,
         NEW r \in ReserveBytes, Register(h, t, r)
  PROVE  HubInv'
<1> DEFINE b == [handle |-> h, tier |-> t, reserve |-> r,
                 allocated |-> 0, peak |-> 0]
<1>1. /\ h \notin Registered /\ Len(backends) < MaxBackends
      /\ backends' = Append(backends, b) /\ lent' = lent /\ direct' = direct
  BY DEF Register, HasRoom
<1>2. b \in Backend /\ b.allocated = 0 /\ b.peak = 0 /\ b.handle = h
  BY DEF Backend
<1> HIDE DEF b
<1>3. backends \in Seq(Backend) /\ Len(backends) \in Nat /\ MaxBackends \in Nat
  BY HubConstants DEF HubInv, TypeOK
<1>4. /\ backends' \in Seq(Backend) /\ Len(backends') = Len(backends) + 1
      /\ \A i \in 1 .. Len(backends) : backends'[i] = backends[i]
      /\ backends'[Len(backends) + 1] = b
  BY <1>1, <1>2, <1>3
<1>5. \A i \in 1 .. Len(backends') : \/ i \in 1 .. Len(backends) /\ backends'[i] = backends[i]
                                     \/ i = Len(backends) + 1 /\ backends'[i] = b
  BY <1>3, <1>4
<1>6. TypeOK'
  BY <1>1, <1>3, <1>4 DEF HubInv, TypeOK
<1>7. AccountsMatch'
  <2>1. h \in Pool => lent[h] = 0 /\ BlockSize[h] \in Nat
    BY <1>1, HubConstants DEF HubInv, NoneUncharged
  <2>2. h \in Pool => 0 = lent[h] * BlockSize[h]
    BY <2>1
  <2> QED  BY <1>1, <1>2, <1>5, <2>2 DEF HubInv, AccountsMatch
<1>8. OneEach'
  <2>1. \A i \in 1 .. Len(backends) : backends[i].handle # h
    BY <1>1 DEF Registered
  <2> QED  BY <2>1, <1>2, <1>5 DEF HubInv, OneEach
<1>9. NoneUncharged'
  <2>1. Registered \subseteq Registered'
    BY <1>3, <1>4 DEF Registered
  <2> QED  BY <2>1, <1>1 DEF HubInv, NoneUncharged
<1> QED  BY <1>6, <1>7, <1>8, <1>9 DEF HubInv

LEMMA HubAllocKeeps ==
  ASSUME HubInv, ArenaTypeOK', NEW size \in Request, NEW hint \in Hint,
         HubAlloc(size, hint)
  PROVE  HubInv'
<1>1. PICK i \in 1 .. Len(backends), total \in Nat :
           /\ backends' = [backends EXCEPT
                ![i].allocated = total,
                ![i].peak = IF total > @ THEN total ELSE @]
           /\ direct' = direct
           /\ \/ /\ backends[i].handle \in Pool
                 /\ total = backends[i].allocated + BlockSize[backends[i].handle]
                 /\ FreeCount(backends[i].handle) >= 1
                 /\ lent' = [lent EXCEPT ![backends[i].handle] = @ + 1]
              \/ backends[i].handle \notin Pool /\ lent' = lent
  BY HubAllocPlain DEF HubInv
<1> DEFINE h == backends[i].handle
           top == IF total > backends[i].peak THEN total ELSE backends[i].peak
<1>2. /\ backends \in Seq(Backend) /\ Len(backends) \in Nat
      /\ lent \in [Pool -> Nat] /\ direct \in [Pool -> Nat]
  BY DEF HubInv, TypeOK
<1>3. backends[i] \in Backend /\ backends[i].peak \in Nat /\ h \in Registered
  BY BackendType DEF HubInv
<1>4. top \in Nat /\ total <= top
  BY <1>3
<1>5. /\ backends' \in Seq(Backend) /\ Len(backends') = Len(backends)
      /\ backends'[i].allocated = total /\ backends'[i].peak = top
      /\ backends'[i].handle = h
      /\ \A j \in 1 .. Len(backends) : j # i => backends'[j] = backends[j]
  <2> DEFINE b == [backends[i] EXCEPT !.allocated = total, !.peak = top]
  <2>1. b \in Backend /\ b.allocated = total /\ b.peak = top /\ b.handle = h
    BY <1>3, <1>4 DEF Backend
  <2>2. backends' = [backends EXCEPT ![i] = b]
    BY <1>1, <1>2, <1>3 DEF Backend
  <2> HIDE DEF b, top
  <2> QED  BY <2>1, <2>2, <1>2
<1>6. \A j \in 1 .. Len(backends) : backends'[j].handle = backends[j].handle
  BY <1>5
<1>7. Registered' = Registered
  BY <1>5, <1>6 DEF Registered
<1>8. OneEach'
  BY <1>5, <1>6 DEF HubInv, OneEach
<1> HIDE DEF top
<1>9. CASE h \in Pool /\ total = backends[i].allocated + BlockSize[h]
           /\ FreeCount(h) >= 1 /\ lent' = [lent EXCEPT ![h] = @ + 1]
  <2>1. lent' \in [Pool -> Nat] /\ lent'[h] = lent[h] + 1
        /\ \A p \in Pool : p # h => lent'[p] = lent[p]
    BY <1>2, <1>9
  <2>2. lent[h] + 1 + direct[h] <= BlockCount[h]
    <3>1. BlockCount[h] - lent[h] - direct[h] >= 1
      BY <1>9 DEF FreeCount
    <3>2. BlockCount[h] \in Nat /\ lent[h] \in Nat /\ direct[h] \in Nat
      BY <1>2, <1>9, HubConstants
    <3> HIDE DEF h
    <3> QED  BY <3>1, <3>2
  <2>3. TypeOK'
    BY <1>1, <1>2, <1>5, <2>1, <2>2 DEF HubInv, TypeOK
  <2>4. total = lent'[h] * BlockSize[h]
    <3>1. backends[i].allocated = lent[h] * BlockSize[h]
      BY <1>9 DEF HubInv, AccountsMatch
    <3>2. (lent[h] + 1) * BlockSize[h] = lent[h] * BlockSize[h] + BlockSize[h]
      BY <1>2, <1>9, HubConstants, PoolArithmetic
    <3> QED  BY <3>1, <3>2, <1>9, <2>1
  <2>5. \A j \in 1 .. Len(backends) : j # i => backends[j].handle # h
    BY DEF HubInv, OneEach
  <2>6. AccountsMatch'
    BY <1>4, <1>5, <1>9, <2>1, <2>4, <2>5 DEF HubInv, AccountsMatch
  <2>7. NoneUncharged'
    BY <1>3, <1>7, <1>9, <2>1 DEF HubInv, NoneUncharged
  <2> QED  BY <2>3, <2>6, <2>7, <1>8 DEF HubInv
<1>10. CASE h \notin Pool /\ lent' = lent
  <2>1. TypeOK'
    BY <1>1, <1>2, <1>5, <1>10 DEF HubInv, TypeOK
  <2>2. AccountsMatch'
    BY <1>4, <1>5, <1>10 DEF HubInv, AccountsMatch
  <2>3. NoneUncharged'
    BY <1>7, <1>10 DEF HubInv, NoneUncharged
  <2> QED  BY <2>1, <2>2, <2>3, <1>8 DEF HubInv
<1> QED  BY <1>1, <1>9, <1>10
-----------------------------------------------------------------------------
LEMMA HubFreeKeeps ==
  ASSUME HubInv, ArenaTypeOK', NEW p \in Pool, HubFree(p)
  PROVE  HubInv'
<1>1. PICK i \in 1 .. Len(backends) :
        /\ backends[i].handle = p
        /\ backends' = IF Credited(backends[i])
             THEN [backends EXCEPT ![i].allocated = @ - BlockSize[p]]
             ELSE backends
  BY DEF HubFree
<1>2. lent[p] > 0 /\ lent' = [lent EXCEPT ![p] = @ - 1] /\ direct' = direct
  BY DEF HubFree
<1>3. /\ backends \in Seq(Backend) /\ Len(backends) \in Nat
      /\ lent \in [Pool -> Nat] /\ direct \in [Pool -> Nat]
      /\ BlockSize[p] \in Nat \ {0} /\ BlockCount[p] \in Nat
  BY HubConstants DEF HubInv, TypeOK
<1>4. /\ backends[i] \in Backend /\ backends[i].allocated \in Nat
      /\ backends[i].peak \in Nat
  BY BackendType DEF HubInv
<1> DEFINE rest == backends[i].allocated - BlockSize[p]
           b == [backends[i] EXCEPT !.allocated = rest]
<1>5. /\ backends[i].allocated = lent[p] * BlockSize[p]
      /\ backends[i].allocated <= backends[i].peak
  BY <1>1 DEF HubInv, AccountsMatch
<1>6. /\ (lent[p] - 1) * BlockSize[p] = rest
      /\ backends[i].allocated >= BlockSize[p]
  BY <1>2, <1>3, <1>5, PoolArithmetic
<1>7. b \in Backend /\ b.allocated = rest /\ b.peak = backends[i].peak /\ b.handle = p
  <2>1. rest \in Nat
    BY <1>3, <1>4, <1>6
  <2> HIDE DEF rest
  <2> QED  BY <2>1, <1>1, <1>4 DEF Backend
<1>8. backends' = [backends EXCEPT ![i] = b]
  BY <1>1, <1>4, <1>6 DEF Credited, Backend
<1> HIDE DEF b
<1>9. /\ backends' \in Seq(Backend) /\ Len(backends') = Len(backends)
      /\ backends'[i] = b
      /\ \A j \in 1 .. Len(backends) : j # i => backends'[j] = backends[j]
  BY <1>3, <1>7, <1>8
<1>10. \A j \in 1 .. Len(backends) : backends'[j].handle = backends[j].handle
  BY <1>1, <1>7, <1>9
<1>11. /\ lent' \in [Pool -> Nat] /\ lent'[p] = lent[p] - 1
       /\ \A q \in Pool : q # p => lent'[q] = lent[q]
  BY <1>2, <1>3
<1>12. TypeOK'
  <2>1. \A q \in Pool : lent'[q] + direct[q] <= BlockCount[q]
    <3>1. \A q \in Pool : lent[q] + direct[q] <= BlockCount[q] /\ BlockCount[q] \in Nat
      BY HubConstants DEF HubInv, TypeOK
    <3>2. \A q \in Pool : lent'[q] <= lent[q] /\ lent[q] \in Nat /\ lent'[q] \in Nat
                         /\ direct[q] \in Nat
      BY <1>3, <1>11
    <3> QED  BY <3>1, <3>2
  <2> QED  BY <2>1, <1>2, <1>3, <1>9, <1>11 DEF HubInv, TypeOK
<1>13. AccountsMatch'
  <2>1. \A j \in 1 .. Len(backends) : j # i => backends[j].handle # p
    BY <1>1 DEF HubInv, OneEach
  <2>2. rest <= backends[i].peak
    BY <1>3, <1>4, <1>5
  <2> HIDE DEF rest
  <2> QED  BY <2>1, <2>2, <1>6, <1>7, <1>9, <1>11 DEF HubInv, AccountsMatch
<1>14. OneEach'
  BY <1>9, <1>10 DEF HubInv, OneEach
<1>15. NoneUncharged'
  <2>1. Registered' = Registered /\ p \in Registered
    BY <1>1, <1>9, <1>10 DEF Registered
  <2> QED  BY <2>1, <1>11 DEF HubInv, NoneUncharged
<1> QED  BY <1>12, <1>13, <1>14, <1>15 DEF HubInv

LEMMA DirectKeeps ==
  ASSUME HubInv, ArenaTypeOK', NEW p \in Pool, PoolAlloc(p) \/ PoolFree(p)
  PROVE  HubInv'
<1>1. /\ lent' = lent /\ backends' = backends
      /\ lent \in [Pool -> Nat] /\ direct \in [Pool -> Nat]
      /\ \A q \in Pool : lent[q] + direct[q] <= BlockCount[q]
  BY DEF PoolAlloc, PoolFree, HubInv, TypeOK
<1>2. /\ direct' \in [Pool -> Nat]
      /\ \A q \in Pool : lent[q] + direct'[q] <= BlockCount[q]
  BY <1>1, HubConstants DEF PoolAlloc, PoolFree, FreeCount
<1>3. TypeOK'
  BY <1>1, <1>2 DEF HubInv, TypeOK
<1> QED
  BY <1>1, <1>3 DEF HubInv, AccountsMatch, OneEach, NoneUncharged, Registered

LEMMA HubStep == HubInv /\ ArenaInv /\ [Next]_vars => HubInv'
<1> SUFFICES ASSUME HubInv, ArenaInv, [Next]_vars
             PROVE  HubInv'
  OBVIOUS
<1>1. ArenaTypeOK'
  BY ArenaStep, HubStepIsArenaStep DEF ArenaInv
<1>2. CASE \E h \in Handle, t \in Tier, r \in ReserveBytes : Register(h, t, r)
  BY <1>1, <1>2, RegisterKeeps
<1>3. CASE \E s \in Request, hint \in Hint : HubAlloc(s, hint)
  BY <1>1, <1>3, HubAllocKeeps
<1>4. CASE \E p \in Pool : HubFree(p) \/ PoolAlloc(p) \/ PoolFree(p)
  BY <1>1, <1>4, HubFreeKeeps, DirectKeeps
<1>5. CASE UNCHANGED <<backends, lent, direct>>
  BY <1>1, <1>5 DEF HubInv, TypeOK, AccountsMatch, OneEach, NoneUncharged, Registered
<1> QED  BY <1>2, <1>3, <1>4, <1>5 DEF Next, UseArena, vars

LEMMA HubStarts == Init => HubInv /\ ArenaInv
<1> SUFFICES ASSUME Init PROVE HubInv /\ ArenaInv
  OBVIOUS
<1>1. ArenaInv /\ backends = <<>>
      /\ lent = [p \in Pool |-> 0] /\ direct = [p \in Pool |-> 0]
  BY ArenaStarts DEF Init
<1>2. TypeOK
  BY <1>1, HubConstants DEF TypeOK, ArenaInv
<1> QED
  BY <1>1, <1>2 DEF HubInv, AccountsMatch, OneEach, NoneUncharged

LEMMA HubAlways == Spec => [](HubInv /\ ArenaInv)
<1>1. ArenaInv /\ [Next]_vars => ArenaInv'
  BY ArenaStep, HubStepIsArenaStep
<1> QED  BY HubStarts, HubStep, <1>1, PTL DEF Spec

(* Tables, accounts and pools keep their types, and no pool lends more     *)
(* than it has (hub.c, arena.c).                                           *)
THEOREM HubTypeCorrect == Spec => []TypeOK
<1>1. HubInv => TypeOK
  BY DEF HubInv
<1> QED  BY <1>1, HubAlways, PTL

(* allocated_bytes of a pool is what the hub has out of it, for any mix of *)
(* hub calls and direct ones (hub.c:77-81, 158-160).                       *)
THEOREM AccountsStayTrue == Spec => []AccountsMatch
<1>1. HubInv => AccountsMatch
  BY DEF HubInv
<1> QED  BY <1>1, HubAlways, PTL

(* Only fw_mem_hub_alloc charges a backend.                                *)
LEMMA OnlyAllocCharges ==
  ASSUME HubInv, [Next]_vars, NEW i \in 1 .. Len(backends),
         backends'[i].allocated > backends[i].allocated
  PROVE  \E s \in Request, hint \in Hint : HubAlloc(s, hint)
<1>1. backends \in Seq(Backend) /\ Len(backends) \in Nat
  BY DEF HubInv, TypeOK
<1>2. backends[i] \in Backend /\ backends[i].allocated \in Nat
  BY BackendType DEF HubInv
<1>3. backends' # backends
  BY <1>2
<1>4. CASE \E g \in Handle, t \in Tier, r \in ReserveBytes : Register(g, t, r)
  <2>1. backends'[i] = backends[i]
    BY <1>1, <1>4 DEF Register
  <2> QED  BY <2>1, <1>2
<1>5. CASE \E p \in Pool : HubFree(p)
  <2>1. PICK p \in Pool, j \in 1 .. Len(backends) :
          /\ backends[j].handle = p
          /\ backends' = IF Credited(backends[j])
               THEN [backends EXCEPT ![j].allocated = @ - BlockSize[p]]
               ELSE backends
    BY <1>5 DEF HubFree
  <2>2. BlockSize[p] \in Nat
    BY HubConstants
  <2>3. backends'[i] = backends[i] \/ backends'[i].allocated = backends[i].allocated - BlockSize[p]
    BY <1>1, <1>2, <2>1 DEF Backend
  <2> QED  BY <2>2, <2>3, <1>2
<1> QED
  BY <1>3, <1>4, <1>5 DEF Next, UseArena, PoolAlloc, PoolFree, vars

LEMMA AllocLeavesReserve ==
  ASSUME HubInv, ArenaInv, [Next]_vars,
         NEW i \in 1 .. Len(backends), NEW h \in Handle,
         backends[i].handle = h,
         backends'[i].allocated > backends[i].allocated
  PROVE  FreeBytes(h)' + Padding(h) >= backends[i].reserve
<1>1. backends \in Seq(Backend) /\ Len(backends) \in Nat
  BY DEF HubInv, TypeOK
<1>2. backends[i] \in Backend /\ backends[i].allocated \in Nat
  BY BackendType DEF HubInv
<1>3. PICK s \in Request, hint \in Hint : HubAlloc(s, hint)
  BY OnlyAllocCharges
<1>4. PICK j \in Candidates(s, hint) :
        /\ \E total : backends' = [backends EXCEPT
             ![j].allocated = total,
             ![j].peak = IF total > @ THEN total ELSE @]
        /\ \/ /\ backends[j].handle \in Pool
              /\ lent' = [lent EXCEPT ![backends[j].handle] = @ + 1]
           \/ backends[j].handle = ArenaHandle /\ Alloc(s, 4)
        /\ direct' = direct
  BY <1>3 DEF HubAlloc
<1>5. j \in 1 .. Len(backends) /\ Serves(backends[j], s)
  BY DEF Candidates
<1>6. i = j
  BY <1>1, <1>2, <1>4, <1>5
<1>7. backends[i].reserve \in Nat
  BY <1>2, HubConstants DEF Backend
<1>8. CASE h \in Pool /\ lent' = [lent EXCEPT ![h] = @ + 1]
  <2>1. FreeBytes(h) - BlockSize[h] >= backends[i].reserve
    BY <1>5, <1>6, <1>8 DEF Serves, WithinReserve
  <2>2. lent'[h] = lent[h] + 1
    BY <1>8 DEF HubInv, TypeOK
  <2> DEFINE n == FreeCount(h)
             w == BlockSize[h]
  <2>3. n \in Int /\ w \in Nat \ {0} /\ FreeBytes(h) = n * w
    <3>1. lent[h] \in Nat /\ direct[h] \in Nat /\ BlockCount[h] \in Nat
      BY <1>8, HubConstants DEF HubInv, TypeOK
    <3> QED  BY <3>1, <1>8, HubConstants DEF FreeCount, FreeBytes
  <2>4. FreeCount(h)' = n - 1
    <3>1. lent[h] \in Nat /\ direct[h] \in Nat /\ BlockCount[h] \in Nat
      BY <1>8, HubConstants DEF HubInv, TypeOK
    <3>2. FreeCount(h)' = BlockCount[h] - lent'[h] - direct'[h]
      BY DEF FreeCount
    <3> QED  BY <3>1, <3>2, <2>2, <1>4, SMTT(30) DEF FreeCount
  <2>5. FreeBytes(h)' = (n - 1) * w
    BY <2>4, <1>8 DEF FreeBytes
  <2> HIDE DEF n, w
  <2>6. (n - 1) * w = n * w - w
    BY <2>3
  <2> QED  BY <2>1, <2>3, <2>5, <2>6, <1>7, <1>8 DEF Padding, w
<1>9. CASE h = ArenaHandle /\ Alloc(s, 4)
  <2>1. h \notin Pool
    BY <1>9, HubConstants
  <2>2. Capacity - offset - s >= backends[i].reserve
    BY <2>1, <1>5, <1>6 DEF Serves, WithinReserve, FreeBytes
  <2>3. PICK padding \in Nat : padding < 4 /\ offset' = offset + padding + s
    <3>1. 4 \in Alignment /\ AlignmentOf(4) = 4
      BY HubConstants DEF AlignmentOf
    <3>2. ArenaTypeOK /\ Alloc(s, 4)
      BY <1>9 DEF ArenaInv
    <3> QED  BY <3>1, <3>2, AllocPlain
  <2>4. offset \in Nat /\ Capacity \in Nat /\ s \in Nat
    BY ArenaAssumption DEF ArenaInv, ArenaTypeOK
  <2>5. FreeBytes(h)' = Capacity - offset' /\ Padding(h) = 3
    BY <2>1 DEF FreeBytes, Padding
  <2> QED  BY <2>2, <2>3, <2>4, <2>5, <1>7, SMTT(30)
<1> QED  BY <1>4, <1>6, <1>8, <1>9
(* An allocation of the hub leaves the reserve of the backend it takes     *)
(* from, less at most three bytes of padding (hub.c:71-74, 86-91).         *)
THEOREM ReserveStaysKept == Spec => ReserveKept
<1>1. HubInv /\ ArenaInv /\ [Next]_vars =>
        [\A i \in 1 .. Len(backends), h \in Handle :
           /\ backends[i].handle = h
           /\ backends'[i].allocated > backends[i].allocated
           => FreeBytes(h)' + Padding(h) >= backends[i].reserve]_vars
  BY AllocLeavesReserve
<1> QED  BY <1>1, HubAlways, PTL DEF Spec, ReserveKept
-----------------------------------------------------------------------------
(* fw_mem_hub_get_free_space adds up what the backends of a tier can spare *)
(* (hub.c:174-192).                                                        *)
SumRows(n, of, f) == f = [i \in 0 .. n |-> IF i = 0 THEN 0 ELSE f[i - 1] + of[i]]

LEMMA Least ==
  ASSUME NEW T \in SUBSET Nat, T # {}
  PROVE  \E m \in T : \A k \in T : m <= k
<1>1. PICK m \in T : \A k \in T : ~ (<<k, m>> \in OpToRel(<, Nat))
  <2>1. IsWellFoundedOn(OpToRel(<, Nat), Nat)
    BY NatLessThanWellFounded
  <2> HIDE DEF OpToRel
  <2> QED
    BY <2>1, WFMin, Zenon
<1>2. \A k \in T : k \in Nat /\ m \in Nat /\ ~(k < m)
  BY <1>1 DEF OpToRel
<1> QED
  BY <1>2

LEMMA SumRowsExist ==
  ASSUME NEW n \in Nat, NEW of \in [1 .. n -> Int]
  PROVE  \E f \in [0 .. n -> Int] : SumRows(n, of, f)
<1> DEFINE Good(m) == \E f \in [0 .. m -> Int] : SumRows(m, of, f)
           Bad == {m \in 0 .. n : ~Good(m)}
<1>1. Bad = {}
  <2> SUFFICES ASSUME Bad # {} PROVE FALSE
    OBVIOUS
  <2>1. PICK m \in Bad : \A k \in Bad : m <= k
    <3>1. Bad \in SUBSET Nat
      OBVIOUS
    <3> HIDE DEF Bad
    <3> QED
      BY <3>1, Least, Zenon
  <2>2. m # 0
    <3> DEFINE z == [i \in 0 .. 0 |-> 0]
    <3>1. z \in [0 .. 0 -> Int]
      OBVIOUS
    <3>2. z = [i \in 0 .. 0 |-> IF i = 0 THEN 0 ELSE z[i - 1] + of[i]]
      OBVIOUS
    <3> HIDE DEF z
    <3>3. Good(0)
      BY <3>1, <3>2 DEF SumRows
    <3> QED
      BY <2>1, <3>3
  <2>3. PICK f \in [0 .. m - 1 -> Int] : SumRows(m - 1, of, f)
    BY <2>1, <2>2
  <2> DEFINE g == [i \in 0 .. m |-> IF i = m THEN f[m - 1] + of[m] ELSE f[i]]
  <2>4. g \in [0 .. m -> Int]
    BY <2>1, <2>2
  <2>5. SumRows(m, of, g)
    <3>1. m \in Nat \ {0} /\ m <= n
      BY <2>1, <2>2
    <3>2. f = [i \in 0 .. m - 1 |-> IF i = 0 THEN 0 ELSE f[i - 1] + of[i]]
      BY <2>3 DEF SumRows
    <3>3. \A i \in 0 .. m : g[i] = IF i = 0 THEN 0 ELSE g[i - 1] + of[i]
      <4> SUFFICES ASSUME NEW i \in 0 .. m
                   PROVE  g[i] = IF i = 0 THEN 0 ELSE g[i - 1] + of[i]
        OBVIOUS
      <4>1. CASE i = m
        BY <3>1, <4>1
      <4>2. CASE i # m
        <5>1. i \in 0 .. m - 1 /\ (i # 0 => i - 1 \in 0 .. m - 1)
          BY <3>1, <4>2
        <5>2. f[i] = IF i = 0 THEN 0 ELSE f[i - 1] + of[i]
          BY <3>2, <5>1
        <5>3. g[i] = f[i] /\ (i # 0 => g[i - 1] = f[i - 1])
          BY <3>1, <4>2, <5>1
        <5> QED
          BY <5>2, <5>3
      <4> QED
        BY <4>1, <4>2
    <3>4. DOMAIN g = 0 .. m
      OBVIOUS
    <3>5. g \in [0 .. m -> Int]
      BY <2>4
    <3> HIDE DEF g
    <3> QED
      BY <3>3, <3>4, <3>5 DEF SumRows
  <2> QED
    BY <2>1, <2>4, <2>5
<1> QED
  BY <1>1

LEMMA SumRowsUsed ==
  ASSUME NEW n \in Nat, NEW of \in [1 .. n -> Int]
  PROVE  \E f \in [0 .. n -> Int] : SumRows(n, of, f) /\ Total(n, of) = f[n]
<1> DEFINE g == CHOOSE f : f = [i \in 0 .. n |-> IF i = 0 THEN 0 ELSE f[i - 1] + of[i]]
<1>1. SumRows(n, of, g)
  BY SumRowsExist, Zenon DEF SumRows
<1>2. Total(n, of) = g[n]
  BY Zenon DEF Total
<1> HIDE DEF g
<1>3. PICK f \in [0 .. n -> Int] : SumRows(n, of, f)
  BY SumRowsExist
<1> DEFINE Bad == {i \in 0 .. n : f[i] # g[i]}
<1>4. Bad = {}
  <2> SUFFICES ASSUME Bad # {} PROVE FALSE
    OBVIOUS
  <2>1. PICK i \in Bad : \A k \in Bad : i <= k
    <3>1. Bad \in SUBSET Nat
      OBVIOUS
    <3> HIDE DEF Bad
    <3> QED
      BY <3>1, Least, Zenon
  <2>2. i # 0
    BY <1>1, <1>3 DEF SumRows
  <2>3. f[i - 1] = g[i - 1]
    BY <2>1, <2>2
  <2> QED
    BY <1>1, <1>3, <2>1, <2>2, <2>3 DEF SumRows
<1>5. f[n] = g[n]
  BY <1>4
<1> QED
  BY <1>2, <1>3, <1>5

(* A sum one of whose terms changes, changes by as much.                   *)
LEMMA SumChanges ==
  ASSUME NEW n \in Nat, NEW v \in [1 .. n -> Int], NEW w \in [1 .. n -> Int],
         NEW i \in 1 .. n, \A j \in 1 .. n : j # i => v[j] = w[j]
  PROVE  /\ Total(n, v) \in Int /\ Total(n, w) \in Int
         /\ Total(n, w) - Total(n, v) = w[i] - v[i]
<1>1. PICK f \in [0 .. n -> Int] : SumRows(n, v, f) /\ Total(n, v) = f[n]
  BY SumRowsUsed
<1>2. PICK g \in [0 .. n -> Int] : SumRows(n, w, g) /\ Total(n, w) = g[n]
  BY SumRowsUsed
<1> DEFINE Bad == {j \in 0 .. n : g[j] - f[j] # IF j < i THEN 0 ELSE w[i] - v[i]}
<1>3. Bad = {}
  <2> SUFFICES ASSUME Bad # {} PROVE FALSE
    OBVIOUS
  <2>1. PICK j \in Bad : \A k \in Bad : j <= k
    <3>1. Bad \in SUBSET Nat
      OBVIOUS
    <3> HIDE DEF Bad
    <3> QED
      BY <3>1, Least, Zenon
  <2>2. f[0] = 0 /\ g[0] = 0
    BY <1>1, <1>2 DEF SumRows
  <2>3. j \in 1 .. n
    BY <2>1, <2>2
  <2>4. f[j] = f[j - 1] + v[j] /\ g[j] = g[j - 1] + w[j]
    <3>1. j \in 0 .. n /\ j # 0
      BY <2>3
    <3>2. f[j] = f[j - 1] + v[j]
      <4>1. f = [k \in 0 .. n |-> IF k = 0 THEN 0 ELSE f[k - 1] + v[k]]
        BY <1>1 DEF SumRows
      <4> HIDE DEF Bad
      <4> QED
        BY <3>1, <4>1
    <3>3. g[j] = g[j - 1] + w[j]
      <4>1. g = [k \in 0 .. n |-> IF k = 0 THEN 0 ELSE g[k - 1] + w[k]]
        BY <1>2 DEF SumRows
      <4> HIDE DEF Bad
      <4> QED
        BY <3>1, <4>1
    <3> QED
      BY <3>2, <3>3
  <2>5. g[j - 1] - f[j - 1] = IF j - 1 < i THEN 0 ELSE w[i] - v[i]
    BY <2>1, <2>3
  <2>6. j # i => v[j] = w[j]
    BY <2>3
  <2>7. /\ v[j] \in Int /\ w[j] \in Int /\ v[i] \in Int /\ w[i] \in Int
        /\ f[j - 1] \in Int /\ g[j - 1] \in Int
    <3>1. j - 1 \in 0 .. n /\ j \in 1 .. n
      BY <2>3
    <3> HIDE DEF Bad
    <3> QED
      BY <3>1
  <2>8. g[j] - f[j] # IF j < i THEN 0 ELSE w[i] - v[i]
    BY <2>1
  <2>9. j \in Int /\ i \in Int /\ (j < i \/ j = i \/ j > i)
    BY <2>3
  <2> HIDE DEF Bad
  <2> DEFINE a == f[j - 1]  b == g[j - 1]
  <2>10. a \in Int /\ b \in Int /\ f[j] = a + v[j] /\ g[j] = b + w[j]
    BY <2>4, <2>7
  <2>11. b - a = IF j - 1 < i THEN 0 ELSE w[i] - v[i]
    BY <2>5
  <2> HIDE DEF a, b
  <2>12. CASE j < i
    <3>1. v[j] = w[j] /\ b - a = 0
      BY <2>6, <2>9, <2>11, <2>12
    <3> QED
      BY <2>7, <2>8, <2>9, <2>10, <2>12, <3>1, SMTT(30)
  <2>13. CASE j = i
    <3>1. b - a = 0
      BY <2>9, <2>11, <2>13
    <3> QED
      BY <2>7, <2>8, <2>9, <2>10, <2>13, <3>1
  <2>14. CASE j > i
    <3>1. v[j] = w[j] /\ b - a = w[i] - v[i]
      BY <2>6, <2>9, <2>11, <2>14
    <3>2. g[j] - f[j] # w[i] - v[i]
      BY <2>8, <2>9, <2>14
    <3>3. g[j] - f[j] = b - a
      BY <2>7, <2>10, <3>1, SMTT(30)
    <3> QED
      BY <3>1, <3>2, <3>3
  <2> QED
    BY <2>9, <2>12, <2>13, <2>14
<1>4. g[n] - f[n] = w[i] - v[i]
  <2>1. n \in 0 .. n /\ ~(n < i)
    OBVIOUS
  <2>2. n \notin Bad
    BY <1>3
  <2> QED
    BY <2>1, <2>2
<1> QED
  BY <1>1, <1>2, <1>4

(* The one backend an allocation of the hub charges, and what it leaves of *)
(* the others.                                                             *)
LEMMA OthersKeepFree ==
  ASSUME HubInv, ArenaInv, NEW s \in Request, NEW hint \in Hint, HubAlloc(s, hint),
         NEW i \in 1 .. Len(backends),
         backends'[i].allocated > backends[i].allocated
  PROVE  /\ Len(backends') = Len(backends)
         /\ \A j \in 1 .. Len(backends) :
              /\ backends'[j].tier = backends[j].tier
              /\ backends'[j].reserve = backends[j].reserve
              /\ backends'[j].handle = backends[j].handle
              /\ j # i => FreeBytes(backends[j].handle)' = FreeBytes(backends[j].handle)
         /\ Serves(backends[i], s)
         /\ backends'[i].allocated = backends[i].allocated + Charge(backends[i], s)
         /\ \/ /\ backends[i].handle \in Pool
               /\ FreeCount(backends[i].handle)' = FreeCount(backends[i].handle) - 1
            \/ backends[i].handle = ArenaHandle /\ Alloc(s, 4)
<1>1. PICK c \in Candidates(s, hint) :
        /\ LET total == backends[c].allocated + Charge(backends[c], s)
           IN  backends' = [backends EXCEPT
                 ![c].allocated = total,
                 ![c].peak = IF total > @ THEN total ELSE @]
        /\ \/ /\ backends[c].handle \in Pool
              /\ lent' = [lent EXCEPT ![backends[c].handle] = @ + 1]
              /\ UNCHANGED arena
           \/ /\ backends[c].handle = ArenaHandle
              /\ Alloc(s, 4)
              /\ UNCHANGED lent
        /\ direct' = direct
  BY DEF HubAlloc
<1>2. c \in 1 .. Len(backends) /\ Serves(backends[c], s)
  BY DEF Candidates
<1>3. backends \in Seq(Backend) /\ Len(backends) \in Nat
  BY DEF HubInv, TypeOK
<1>4. \A j \in 1 .. Len(backends) : backends[j] \in Backend /\ backends[j].allocated \in Nat
  BY BackendType DEF HubInv
<1>5. i = c
  BY <1>1, <1>2, <1>3, <1>4
<1>6. /\ Len(backends') = Len(backends)
      /\ \A j \in 1 .. Len(backends) :
           /\ backends'[j].tier = backends[j].tier
           /\ backends'[j].reserve = backends[j].reserve
           /\ backends'[j].handle = backends[j].handle
  BY <1>1, <1>2, <1>3, <1>4, SMTT(30) DEF Backend
<1>7. backends'[i].allocated = backends[i].allocated + Charge(backends[i], s)
  BY <1>1, <1>2, <1>3, <1>4, <1>5 DEF Backend
<1>8. \A j \in 1 .. Len(backends) : j # i => backends[j].handle # backends[i].handle
  BY DEF HubInv, OneEach
<1>9. \A j \in 1 .. Len(backends) : backends[j].handle \in Handle
  BY <1>4 DEF Backend
<1>10. lent \in [Pool -> Nat] /\ direct \in [Pool -> Nat] /\ BlockCount \in [Pool -> Nat]
  BY HubConstants DEF HubInv, TypeOK
<1>11. CASE /\ backends[i].handle \in Pool
            /\ lent' = [lent EXCEPT ![backends[i].handle] = @ + 1]
            /\ UNCHANGED arena
  <2>1. FreeCount(backends[i].handle)' = FreeCount(backends[i].handle) - 1
    BY <1>1, <1>10, <1>11, SMTT(30) DEF FreeCount
  <2>2. ASSUME NEW j \in 1 .. Len(backends), j # i
        PROVE  FreeBytes(backends[j].handle)' = FreeBytes(backends[j].handle)
    <3>1. backends'[j].handle = backends[j].handle /\ backends[j].handle # backends[i].handle
      BY <1>6, <1>8, <2>2
    <3>2. offset' = offset
      BY <1>11 DEF arena
    <3>3. CASE backends[j].handle \in Pool
      <4>1. lent'[backends[j].handle] = lent[backends[j].handle]
        BY <1>10, <1>11, <3>1, <3>3
      <4> QED
        BY <1>1, <3>1, <3>3, <4>1 DEF FreeBytes, FreeCount
    <3> QED
      BY <3>1, <3>2, <3>3 DEF FreeBytes
  <2> QED
    BY <1>2, <1>5, <1>6, <1>7, <1>11, <2>1, <2>2
<1>12. CASE backends[i].handle = ArenaHandle /\ Alloc(s, 4) /\ UNCHANGED lent
  <2>1. ASSUME NEW j \in 1 .. Len(backends), j # i
        PROVE  FreeBytes(backends[j].handle)' = FreeBytes(backends[j].handle)
    <3>1. backends[j].handle \in Pool /\ backends'[j].handle = backends[j].handle
      BY <1>6, <1>8, <1>9, <1>12, <2>1 DEF Handle
    <3> QED
      BY <1>1, <1>12, <3>1 DEF FreeBytes, FreeCount
  <2> QED
    BY <1>2, <1>5, <1>6, <1>7, <1>12, <2>1
<1> QED
  BY <1>1, <1>5, <1>11, <1>12

(* What the backend that serves can still spare, with what it gave, comes  *)
(* to no more than it could spare before.                                  *)
LEMMA SparePays ==
  ASSUME HubInv, ArenaInv, NEW s \in Request, NEW hint \in Hint, HubAlloc(s, hint),
         NEW i \in 1 .. Len(backends),
         backends'[i].allocated > backends[i].allocated
  PROVE  /\ Spare(backends[i])' + (backends'[i].allocated - backends[i].allocated)
              <= Spare(backends[i])
         /\ Spare(backends[i]) \in Nat /\ Spare(backends[i])' \in Nat
         /\ backends'[i].allocated - backends[i].allocated \in Nat
<1> DEFINE h == backends[i].handle
           r == backends[i].reserve
           before == FreeBytes(h)
           after == FreeBytes(h)'
<1>1. /\ backends'[i].handle = h /\ backends'[i].reserve = r
      /\ Serves(backends[i], s)
      /\ backends'[i].allocated = backends[i].allocated + Charge(backends[i], s)
      /\ \/ h \in Pool /\ FreeCount(h)' = FreeCount(h) - 1
         \/ h = ArenaHandle /\ Alloc(s, 4)
  BY OthersKeepFree
<1>2. r \in Nat /\ backends[i].allocated \in Nat
  <2>1. backends[i] \in Backend /\ backends[i].allocated \in Nat
    BY BackendType DEF HubInv
  <2> QED
    BY <2>1, HubConstants DEF Backend
<1>3. /\ before \in Int /\ after \in Int /\ Charge(backends[i], s) \in Nat
      /\ before > r /\ before - Charge(backends[i], s) >= r
      /\ after <= before - Charge(backends[i], s)
  <2>1. CASE h \in Pool /\ FreeCount(h)' = FreeCount(h) - 1
    <3> DEFINE n == FreeCount(h)
               w == BlockSize[h]
    <3>1. n \in Int /\ w \in Nat \ {0}
      <4>1. lent[h] \in Nat /\ direct[h] \in Nat /\ BlockCount[h] \in Nat
        BY <2>1, HubConstants DEF HubInv, TypeOK
      <4> QED
        BY <4>1, <2>1, HubConstants DEF FreeCount
    <3>2. before = n * w /\ after = (n - 1) * w /\ Charge(backends[i], s) = w
      BY <1>1, <2>1 DEF FreeBytes, Charge
    <3>3. before > r /\ before - w >= r
      BY <1>1, <2>1 DEF Serves, WithinReserve
    <3> HIDE DEF n, w, before, after
    <3>4. (n - 1) * w = n * w - w /\ n * w \in Int /\ (n - 1) * w \in Int
      BY <3>1
    <3> QED
      BY <3>1, <3>2, <3>3, <3>4
  <2>2. CASE h = ArenaHandle /\ Alloc(s, 4)
    <3>1. h \notin Pool
      BY <2>2, HubConstants
    <3>2. before > r /\ before - s >= r
      BY <1>1, <3>1 DEF Serves, WithinReserve
    <3>3. PICK padding \in Nat : offset' = offset + padding + s
      <4>1. 4 \in Alignment
        BY HubConstants
      <4>2. ArenaTypeOK /\ Alloc(s, 4)
        BY <2>2 DEF ArenaInv
      <4> QED
        BY <4>1, <4>2, AllocPlain
    <3>4. offset \in Nat /\ Capacity \in Nat /\ s \in Nat
      BY ArenaAssumption DEF ArenaInv, ArenaTypeOK
    <3>5. before = Capacity - offset /\ after = Capacity - offset' /\ Charge(backends[i], s) = s
      BY <1>1, <3>1 DEF FreeBytes, Charge
    <3> QED
      BY <3>2, <3>3, <3>4, <3>5
  <2> QED
    BY <1>1, <2>1, <2>2
<1>4. Spare(backends[i]) = before - r
  BY <1>3 DEF Spare
<1>5. Spare(backends[i])' = IF after > r THEN after - r ELSE 0
  BY <1>1 DEF Spare
<1> DEFINE charge == Charge(backends[i], s)
           held == backends[i].allocated
<1>6. backends'[i].allocated - held = charge
  <2>1. backends'[i].allocated = held + charge /\ held \in Nat /\ charge \in Nat
    BY <1>1, <1>2, <1>3
  <2> HIDE DEF held, charge
  <2> QED
    BY <2>1
<1>7. /\ before \in Int /\ after \in Int /\ r \in Nat /\ charge \in Nat
      /\ before > r /\ before - charge >= r /\ after <= before - charge
  BY <1>2, <1>3
<1> HIDE DEF before, after, r, h, charge, held
<1>8. before - r \in Nat /\ (IF after > r THEN after - r ELSE 0) \in Nat
  BY <1>7
<1>9. (IF after > r THEN after - r ELSE 0) + charge <= before - r
  BY <1>7
<1> QED
  BY <1>4, <1>5, <1>6, <1>7, <1>8, <1>9 DEF held

LEMMA FreeBytesType ==
  ASSUME HubInv, ArenaInv, NEW j \in 1 .. Len(backends)
  PROVE  FreeBytes(backends[j].handle) \in Int /\ backends[j].reserve \in Nat
<1>1. backends[j] \in Backend
  BY BackendType DEF HubInv
<1>2. offset \in Nat /\ Capacity \in Nat
  BY ArenaAssumption DEF ArenaInv, ArenaTypeOK
<1>3. CASE backends[j].handle \in Pool
  <2> DEFINE h == backends[j].handle
  <2>1. lent[h] \in Nat /\ direct[h] \in Nat /\ BlockCount[h] \in Nat /\ BlockSize[h] \in Nat
    BY <1>3, HubConstants DEF HubInv, TypeOK
  <2>2. FreeCount(h) \in Int
    BY <2>1 DEF FreeCount
  <2>3. FreeCount(h) * BlockSize[h] \in Int
    BY <2>1, <2>2
  <2> QED
    BY <1>1, <1>3, <2>3, HubConstants DEF FreeBytes, Backend
<1> QED
  <2>1. backends[j].reserve \in Nat
    BY <1>1, HubConstants DEF Backend
  <2>2. backends[j].handle \notin Pool => FreeBytes(backends[j].handle) = Capacity - offset
    BY DEF FreeBytes
  <2> QED
    BY <1>2, <1>3, <2>1, <2>2

(* A sum of natural numbers, and with it each of its parts, fits the width *)
(* of fw_size_t when the whole does, and nothing wraps.                    *)
LEMMA PartsBelow ==
  ASSUME NEW n \in Nat, NEW of \in [1 .. n -> Nat], NEW f \in [0 .. n -> Int],
         SumRows(n, of, f)
  PROVE  \A i \in 0 .. n : f[i] \in Nat /\ f[i] <= f[n]
<1>1. \A i \in 1 .. n : f[i] = f[i - 1] + of[i] /\ of[i] \in Nat /\ i - 1 \in 0 .. n
  BY DEF SumRows
<1>2. f[0] = 0 /\ \A i \in 0 .. n : f[i] \in Int
  BY DEF SumRows
<1> DEFINE Bad == {i \in 0 .. n : f[i] \notin Nat}
<1>3. Bad = {}
  <2> SUFFICES ASSUME Bad # {} PROVE FALSE
    OBVIOUS
  <2>1. PICK i \in Bad : \A k \in Bad : i <= k
    <3>1. Bad \in SUBSET Nat
      OBVIOUS
    <3> HIDE DEF Bad
    <3> QED
      BY <3>1, Least, Zenon
  <2>2. i \in 1 .. n
    BY <1>2, <2>1
  <2>3. f[i - 1] \in Nat
    BY <1>1, <2>1, <2>2
  <2>4. f[i] = f[i - 1] + of[i] /\ of[i] \in Nat /\ f[i] \notin Nat
    BY <1>1, <2>1, <2>2
  <2> HIDE DEF Bad
  <2> QED
    BY <2>3, <2>4
<1> DEFINE Over == {k \in 0 .. n : ~(f[n - k] <= f[n])}
<1>4. Over = {}
  <2> SUFFICES ASSUME Over # {} PROVE FALSE
    OBVIOUS
  <2>1. PICK k \in Over : \A m \in Over : k <= m
    <3>1. Over \in SUBSET Nat
      OBVIOUS
    <3> HIDE DEF Over
    <3> QED
      BY <3>1, Least, Zenon
  <2>2. k \in 1 .. n /\ f[n] \in Int
    BY <1>2, <2>1
  <2>3. f[n - (k - 1)] <= f[n]
    <3>1. k - 1 \in 0 .. n /\ ~(k <= k - 1)
      BY <2>2
    <3>2. k - 1 \notin Over
      BY <2>1, <3>1
    <3> QED
      BY <3>1, <3>2
  <2> DEFINE m == n - k + 1
  <2>4. m \in 1 .. n /\ m - 1 = n - k /\ m = n - (k - 1)
    BY <2>2
  <2>5. f[m] = f[m - 1] + of[m] /\ of[m] \in Nat /\ f[m - 1] \in Int
    BY <1>1, <1>2, <2>4
  <2>6. ~(f[m - 1] <= f[n]) /\ f[m] <= f[n]
    BY <2>1, <2>3, <2>4
  <2> HIDE DEF m, Over
  <2> QED
    BY <2>2, <2>5, <2>6
<1>5. ASSUME NEW i \in 0 .. n PROVE f[i] \in Nat /\ f[i] <= f[n]
  <2>1. n - i \in 0 .. n /\ n - (n - i) = i
    OBVIOUS
  <2> QED
    BY <1>3, <1>4, <2>1
<1> QED
  BY <1>5

LEMMA NoSumWraps ==
  ASSUME NEW n \in Nat, NEW of \in [1 .. n -> Nat], Total(n, of) < Space
  PROVE  Summed(n, of) = Total(n, of) /\ Total(n, of) \in Nat
<1>1. PICK f \in [0 .. n -> Int] : SumRows(n, of, f) /\ Total(n, of) = f[n]
  <2>1. of \in [1 .. n -> Int]
    OBVIOUS
  <2> QED
    BY <2>1, SumRowsUsed
<1>2. \A i \in 0 .. n : f[i] \in Nat /\ f[i] <= f[n]
  BY <1>1, PartsBelow
<1>3. \A i \in 1 .. n : f[i] = (f[i - 1] + of[i]) % Space
  <2> SUFFICES ASSUME NEW i \in 1 .. n PROVE f[i] = (f[i - 1] + of[i]) % Space
    OBVIOUS
  <2>1. f[i] = f[i - 1] + of[i]
    BY <1>1 DEF SumRows
  <2>2. f[i] \in Nat /\ f[i] < Space /\ Space \in Nat
    BY <1>1, <1>2, ArenaAssumption
  <2>3. f[i] % Space = f[i]
    <3> DEFINE a == f[i]
    <3>1. a \in Nat /\ a < Space /\ Space \in Nat
      BY <2>2
    <3> HIDE DEF a
    <3>2. a % Space = a
      BY <3>1
    <3> QED
      BY <3>2 DEF a
  <2> QED
    BY <2>1, <2>3
<1> DEFINE Wrapped(h) == h = [i \in 0 .. n |-> IF i = 0 THEN 0 ELSE (h[i - 1] + of[i]) % Space]
           g == CHOOSE h : Wrapped(h)
<1>4. Wrapped(f)
  <2>1. f[0] = 0
    BY <1>1 DEF SumRows
  <2>2. \A i \in 0 .. n : f[i] = IF i = 0 THEN 0 ELSE (f[i - 1] + of[i]) % Space
    BY <1>3, <2>1
  <2> QED
    BY <2>2
<1>5. Wrapped(g)
  BY <1>4, Zenon
<1>6. Summed(n, of) = g[n]
  BY Zenon DEF Summed
<1> HIDE DEF g
<1> DEFINE Bad == {i \in 0 .. n : f[i] # g[i]}
<1>7. Bad = {}
  <2> SUFFICES ASSUME Bad # {} PROVE FALSE
    OBVIOUS
  <2>1. PICK i \in Bad : \A k \in Bad : i <= k
    <3>1. Bad \in SUBSET Nat
      OBVIOUS
    <3> HIDE DEF Bad
    <3> QED
      BY <3>1, Least, Zenon
  <2>2. i # 0
    BY <1>4, <1>5, <2>1
  <2>3. f[i - 1] = g[i - 1]
    BY <2>1, <2>2
  <2>4. i \in 0 .. n /\ i \in 1 .. n /\ f[i] # g[i]
    BY <2>1, <2>2
  <2>5. g[i] = (g[i - 1] + of[i]) % Space
    <3> HIDE DEF Bad
    <3> QED
      BY <1>5, <2>2, <2>4
  <2>6. f[i] = (f[i - 1] + of[i]) % Space
    BY <1>3, <2>4
  <2> HIDE DEF Bad
  <2> QED
    BY <2>3, <2>4, <2>5, <2>6
<1>8. f[n] = g[n] /\ f[n] \in Nat
  BY <1>2, <1>7
<1> QED
  BY <1>1, <1>6, <1>8

(* A sum with smaller terms is smaller.                                    *)
LEMMA SumsOrdered ==
  ASSUME NEW n \in Nat, NEW v \in [1 .. n -> Int], NEW w \in [1 .. n -> Int],
         \A j \in 1 .. n : v[j] <= w[j]
  PROVE  Total(n, v) <= Total(n, w) /\ Total(n, v) \in Int /\ Total(n, w) \in Int
<1>1. PICK f \in [0 .. n -> Int] : SumRows(n, v, f) /\ Total(n, v) = f[n]
  BY SumRowsUsed
<1>2. PICK g \in [0 .. n -> Int] : SumRows(n, w, g) /\ Total(n, w) = g[n]
  BY SumRowsUsed
<1>3. /\ f[0] = 0 /\ g[0] = 0
      /\ \A i \in 1 .. n : f[i] = f[i - 1] + v[i] /\ g[i] = g[i - 1] + w[i]
  BY <1>1, <1>2 DEF SumRows
<1> DEFINE Bad == {i \in 0 .. n : ~(f[i] <= g[i])}
<1>4. Bad = {}
  <2> SUFFICES ASSUME Bad # {} PROVE FALSE
    OBVIOUS
  <2>1. PICK i \in Bad : \A k \in Bad : i <= k
    <3>1. Bad \in SUBSET Nat
      OBVIOUS
    <3> HIDE DEF Bad
    <3> QED
      BY <3>1, Least, Zenon
  <2>2. i \in 1 .. n
    BY <1>3, <2>1
  <2>3. f[i - 1] <= g[i - 1]
    BY <2>1, <2>2
  <2>4. /\ f[i - 1] \in Int /\ g[i - 1] \in Int /\ v[i] \in Int /\ w[i] \in Int
        /\ v[i] <= w[i]
    BY <2>2
  <2>5. f[i] = f[i - 1] + v[i] /\ g[i] = g[i - 1] + w[i] /\ ~(f[i] <= g[i])
    BY <1>3, <2>1, <2>2
  <2> DEFINE a == f[i - 1]  b == g[i - 1]  x == v[i]  y == w[i]
  <2>6. a \in Int /\ b \in Int /\ x \in Int /\ y \in Int /\ a <= b /\ x <= y
    BY <2>3, <2>4
  <2>7. ~(a + x <= b + y)
    BY <2>5
  <2> HIDE DEF Bad, a, b, x, y
  <2> QED
    BY <2>6, <2>7
<1>5. f[n] <= g[n] /\ f[n] \in Int /\ g[n] \in Int
  <2>1. n \in 0 .. n
    OBVIOUS
  <2>2. n \notin Bad
    BY <1>4, Zenon
  <2> QED
    BY <2>1, <2>2
<1> QED
  BY <1>1, <1>2, <1>5

(* What is spare in a pool or the arena is some of its memory.             *)
LEMMA SpareInside ==
  ASSUME HubInv, ArenaInv, NEW j \in 1 .. Len(backends), NEW t \in Tier
  PROVE  /\ backends[j].handle \in Handle
         /\ SpareIn(backends[j], t) \in Nat /\ Storage(backends[j].handle) \in Nat
         /\ SpareIn(backends[j], t) <= Storage(backends[j].handle)
<1> DEFINE h == backends[j].handle
<1>1. h \in Handle
  BY BackendType DEF HubInv, Backend
<1>2. FreeBytes(h) \in Int /\ backends[j].reserve \in Nat
  BY FreeBytesType
<1>3. Storage(h) \in Nat /\ FreeBytes(h) <= Storage(h)
  <2>1. CASE h \in Pool
    <3> DEFINE a == BlockCount[h]  b == FreeCount(h)  w == BlockSize[h]
    <3>1. a \in Nat /\ b \in Int /\ b <= a /\ w \in Nat
      BY <2>1, HubConstants DEF HubInv, TypeOK, FreeCount
    <3>2. Storage(h) = a * w /\ FreeBytes(h) = b * w
      BY <2>1 DEF Storage, FreeBytes
    <3> HIDE DEF a, b, w
    <3>3. a * w \in Nat
      BY <3>1
    <3>4. b * w <= a * w
      <4>1. (a - b) \in Nat
        BY <3>1
      <4>2. (a - b) * w \in Nat
        BY <3>1, <4>1
      <4>3. (a - b) * w = a * w - b * w
        BY <3>1
      <4>4. a * w \in Int /\ b * w \in Int
        BY <3>1
      <4> QED
        BY <4>2, <4>3, <4>4
    <3> QED
      BY <3>2, <3>3, <3>4
  <2>2. CASE h \notin Pool
    <3>1. offset \in Nat /\ Capacity \in Nat
      BY ArenaAssumption DEF ArenaInv, ArenaTypeOK
    <3> QED
      BY <2>2, <3>1 DEF Storage, FreeBytes
  <2> QED
    BY <2>1, <2>2
<1> QED
  BY <1>1, <1>2, <1>3 DEF SpareIn, Spare

(* Different backends are different memory, so what is spare in them all   *)
(* fits the address space.                                                 *)
LEMMA SpareFits ==
  ASSUME HubInv, ArenaInv, NEW t \in Tier
  PROVE  LET v == [j \in 1 .. Len(backends) |-> SpareIn(backends[j], t)]
         IN  v \in [1 .. Len(backends) -> Nat] /\ Total(Len(backends), v) < Space
<1> DEFINE n == Len(backends)
           v == [j \in 1 .. n |-> SpareIn(backends[j], t)]
           h == [j \in 1 .. n |-> backends[j].handle]
           m == [j \in 1 .. n |-> Storage(h[j])]
<1>1. n \in Nat /\ n \in 0 .. MaxBackends
  BY HubConstants DEF HubInv, TypeOK
<1>2. v \in [1 .. n -> Nat]
  BY SpareInside
<1>3. m \in [1 .. n -> Nat]
  BY SpareInside
<1>4. \A j \in 1 .. n : v[j] <= m[j]
  BY SpareInside
<1>5. Total(n, m) < Space
  <2>1. h \in [1 .. n -> Handle]
    BY SpareInside
  <2>2. \A i, j \in 1 .. n : h[i] = h[j] => i = j
    BY DEF HubInv, OneEach
  <2> HIDE DEF h, n
  <2> QED
    BY <1>1, <2>1, <2>2, HubAssumption
<1>6. v \in [1 .. n -> Int] /\ m \in [1 .. n -> Int]
  BY <1>2, <1>3
<1> HIDE DEF v, m, n
<1>7. Total(n, v) <= Total(n, m) /\ Total(n, v) \in Int /\ Total(n, m) \in Int
  BY <1>1, <1>4, <1>6, SumsOrdered
<1>8. Total(n, v) < Space
  BY <1>5, <1>7, ArenaAssumption
<1> QED
  BY <1>2, <1>8 DEF v, n

LEMMA AllocIsPaid ==
  ASSUME HubInv, ArenaInv, [Next]_vars,
         NEW i \in 1 .. Len(backends), NEW t \in Tier,
         backends[i].tier = t,
         backends'[i].allocated > backends[i].allocated
  PROVE  FreeSpace(t)' + (backends'[i].allocated - backends[i].allocated) <= FreeSpace(t)
<1>1. PICK s \in Request, hint \in Hint : HubAlloc(s, hint)
  BY OnlyAllocCharges
<1> DEFINE n == Len(backends)
           v == [j \in 1 .. n |-> SpareIn(backends[j], t)]
           w == [j \in 1 .. n |-> SpareIn(backends[j], t)']
<1>2. n \in Nat
  BY DEF HubInv, TypeOK
<1>3. FreeSpace(t) = Summed(n, v) /\ FreeSpace(t)' = Summed(n, w)
  BY <1>1, OthersKeepFree DEF FreeSpace
<1>4. \A j \in 1 .. n : SpareIn(backends[j], t) \in Int /\ SpareIn(backends[j], t)' \in Int
  <2> SUFFICES ASSUME NEW j \in 1 .. n
               PROVE  SpareIn(backends[j], t) \in Int /\ SpareIn(backends[j], t)' \in Int
    OBVIOUS
  <2>1. FreeBytes(backends[j].handle) \in Int /\ backends[j].reserve \in Nat
    BY FreeBytesType
  <2>2. Spare(backends[j]) \in Int
    BY <2>1 DEF Spare
  <2>3. j # i => Spare(backends[j])' = Spare(backends[j])
    BY <1>1, OthersKeepFree DEF Spare
  <2>4. Spare(backends[i])' \in Int
    BY <1>1, SparePays
  <2> QED
    BY <2>2, <2>3, <2>4 DEF SpareIn
<1>5. \A j \in 1 .. n : j # i => v[j] = w[j]
  BY <1>1, OthersKeepFree DEF SpareIn, Spare
<1>6. /\ w[i] + (backends'[i].allocated - backends[i].allocated) <= v[i]
      /\ w[i] \in Nat /\ v[i] \in Nat
  BY <1>1, OthersKeepFree, SparePays DEF SpareIn
<1>7. backends'[i].allocated - backends[i].allocated \in Nat
  <2>1. backends[i] \in Backend /\ backends[i].allocated \in Nat
    BY BackendType DEF HubInv
  <2>2. Charge(backends[i], s) \in Nat
    BY <2>1, ArenaAssumption, HubConstants DEF Charge, Backend
  <2>3. backends'[i].allocated = backends[i].allocated + Charge(backends[i], s)
    BY <1>1, OthersKeepFree
  <2> QED
    BY <2>1, <2>2, <2>3
<1>8. /\ Total(n, v) \in Int /\ Total(n, w) \in Int
      /\ Total(n, w) - Total(n, v) = w[i] - v[i]
  <2>1. v \in [1 .. n -> Int] /\ w \in [1 .. n -> Int]
    BY <1>4
  <2> HIDE DEF v, w, n
  <2> QED
    BY <1>2, <1>5, <2>1, SumChanges, Zenon DEF n
<1>9. v \in [1 .. n -> Nat] /\ Total(n, v) < Space
  BY SpareFits
<1>10. w \in [1 .. n -> Nat] /\ Total(n, w) < Space
  <2>1. \A j \in 1 .. n : SpareIn(backends[j], t)' \in Nat
    <3> SUFFICES ASSUME NEW j \in 1 .. n PROVE w[j] \in Nat
      OBVIOUS
    <3>1. CASE j = i
      BY <1>6, <3>1
    <3>2. CASE j # i
      BY <1>5, <1>9, <3>2
    <3> QED
      BY <3>1, <3>2
  <2>2. \A j \in 1 .. n : w[j] <= v[j]
    <3> SUFFICES ASSUME NEW j \in 1 .. n PROVE w[j] <= v[j]
      OBVIOUS
    <3>1. CASE j = i
      <4> DEFINE a == backends'[i].allocated - backends[i].allocated
                 x == w[i]
                 y == v[i]
      <4>1. x + a <= y /\ x \in Int /\ y \in Int /\ a \in Nat
        BY <1>6, <1>7
      <4> HIDE DEF a, x, y
      <4>2. x <= y
        BY <4>1
      <4> QED
        BY <3>1, <4>2 DEF x, y
    <3>2. CASE j # i
      BY <1>4, <1>5, <3>2
    <3> QED
      BY <3>1, <3>2
  <2>3. w \in [1 .. n -> Nat]
    BY <2>1
  <2>4. v \in [1 .. n -> Int] /\ w \in [1 .. n -> Int]
    BY <1>4
  <2> HIDE DEF v, w, n
  <2>5. Total(n, w) <= Total(n, v) /\ Total(n, v) \in Int /\ Total(n, w) \in Int
    BY <1>2, <2>2, <2>4, SumsOrdered
  <2> QED
    BY <1>9, <2>3, <2>5, ArenaAssumption
<1>11. Summed(n, v) = Total(n, v) /\ Summed(n, w) = Total(n, w)
  <2> HIDE DEF v, w, n
  <2> QED
    BY <1>2, <1>9, <1>10, NoSumWraps
<1> HIDE DEF v, w, n
<1> QED
  BY <1>3, <1>6, <1>7, <1>8, <1>11

(* What fw_mem_hub_get_free_space reports of a tier, the hub can give away *)
(* and no more (hub.c:64-94, 169-193).                                     *)
THEOREM SpaceIsPaid == Spec => SpacePaid
<1>1. HubInv /\ ArenaInv /\ [Next]_vars =>
        [\A i \in 1 .. Len(backends), t \in Tier :
           /\ backends[i].tier = t
           /\ backends'[i].allocated > backends[i].allocated
           => FreeSpace(t)' + (backends'[i].allocated - backends[i].allocated)
                <= FreeSpace(t)]_vars
  BY AllocIsPaid
<1> QED  BY <1>1, HubAlways, PTL DEF Spec, SpacePaid
=============================================================================
