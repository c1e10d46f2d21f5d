----------------------------- MODULE PoolProofs -----------------------------
(***************************************************************************)
(* Proofs about Pool for every number of blocks and any callers.           *)
(*                                                                         *)
(* The free list is carried through the proof as the sequence s that       *)
(* FreeListSound says exists: an allocation drops its first element, a     *)
(* free puts the block in front of it.  The overwriting of blocks by their *)
(* holders is harmless because s holds no block whose bit is set.          *)
(***************************************************************************)
EXTENDS Pool, FiniteSetTheorems, TLAPS

(* The blocks are finitely many natural numbers, and neither Null nor Stray. *)
LEMMA BlockFacts ==
  /\ PoolCapacity \in Nat \ {0}
  /\ Block \subseteq Nat
  /\ Null \notin Block /\ Stray \notin Block
  /\ IsFiniteSet(Block)
<1>1. IsFiniteSet(Block)
  BY PoolAssumption, FS_Interval DEF Block
<1> QED  BY <1>1, PoolAssumption DEF Block

(* A member of Chains is a sequence of blocks as long as its domain. *)
LEMMA ChainsAreSequences ==
  \A s \in Chains : /\ Len(s) \in 0 .. PoolCapacity
                    /\ s \in [1 .. Len(s) -> Block]
<1> SUFFICES ASSUME NEW n \in 0 .. PoolCapacity, NEW s \in [1 .. n -> Block]
             PROVE  Len(s) = n
  BY DEF Chains
<1> QED  BY BlockFacts

(* fw_pool_init chains every block once, in address order. *)
LEMMA InitInv == PoolInit => PoolInv
<1> SUFFICES ASSUME PoolInit PROVE PoolInv
  OBVIOUS
<1>1. PoolTypeOK
  BY BlockFacts DEF PoolInit, PoolTypeOK, Block, Address
<1>2. BitmapIsOwnership
  BY DEF PoolInit, BitmapIsOwnership
<1>3. NoneLost
  BY FS_EmptySet, PoolAssumption DEF PoolInit, NoneLost
<1>4. FreeListSound
  <2> DEFINE s == [i \in 1 .. PoolCapacity |-> i - 1]
  <2>1. s \in [1 .. PoolCapacity -> Block] /\ Len(s) = PoolCapacity
    BY BlockFacts DEF Block
  <2>2. s \in Chains
    BY <2>1, BlockFacts DEF Chains
  <2>3. Chain(s)
    BY <2>1, BlockFacts DEF PoolInit, Chain, Block
  <2>4. ListsFree(s)
    <3>1. ASSUME NEW b \in Block PROVE \E i \in 1 .. PoolCapacity : s[i] = b
      <4>1. b + 1 \in 1 .. PoolCapacity /\ s[b + 1] = b
        BY BlockFacts DEF Block
      <4> QED  BY <4>1
    <3> QED  BY <2>1, <3>1, BlockFacts DEF ListsFree, PoolInit
  <2> HIDE DEF s
  <2> QED  BY <2>1, <2>2, <2>3, <2>4 DEF FreeListSound, PoolInit
<1> QED  BY <1>1, <1>2, <1>3, <1>4 DEF PoolInv

(* Handing out or taking back one block keeps the tally. *)
LEMMA TallyKept ==
  ASSUME PoolTypeOK, NoneLost, NEW b \in Block
  PROVE  /\ Cardinality(bitmap) \in Nat
         /\ b \notin bitmap => Cardinality(bitmap \cup {b}) = Cardinality(bitmap) + 1
         /\ b \in bitmap => /\ Cardinality(bitmap \ {b}) = Cardinality(bitmap) - 1
                            /\ Cardinality(bitmap) # 0
<1>1. IsFiniteSet(bitmap)
  BY BlockFacts, FS_Subset DEF PoolTypeOK
<1> QED  BY <1>1, FS_CardinalityType, FS_AddElement, FS_RemoveElement, FS_EmptySet

(* fw_pool_alloc takes the head off the list; what is left is the rest of it. *)
LEMMA AllocInv == ASSUME PoolInv, NEW c \in Context, Alloc(c) PROVE PoolInv'
<1> PICK s \in Chains : Chain(s) /\ ListsFree(s) /\ Len(s) = free_count
  BY DEF PoolInv, FreeListSound
<1> DEFINE n == Len(s)
           t == [i \in 1 .. n - 1 |-> s[i + 1]]
<1>1. n \in 0 .. PoolCapacity /\ s \in [1 .. n -> Block] /\ n = free_count
  BY ChainsAreSequences
<1>2. n # 0 /\ s[1] = free_list /\ free_list \in Block
  BY BlockFacts DEF Chain, Alloc
<1>3. t \in [1 .. n - 1 -> Block] /\ Len(t) = n - 1 /\ n - 1 \in 0 .. PoolCapacity
  BY <1>1, <1>2, BlockFacts
<1>4. free_list \notin bitmap
  BY <1>1, <1>2 DEF ListsFree
<1>5. free_count' = n - 1 /\ bitmap' = bitmap \cup {free_list} /\ link' = link
  BY <1>1 DEF Alloc
<1> HIDE DEF n
<1>6. free_list' = IF n - 1 = 0 THEN Null ELSE t[1]
  <2>1. free_list' = link[s[1]] /\ 1 \in 1 .. n
    BY <1>1, <1>2 DEF Alloc
  <2>2. link[s[1]] = IF 1 = n THEN Null ELSE s[1 + 1]
    BY <2>1 DEF Chain, n
  <2>3. n - 1 # 0 => t[1] = s[1 + 1]
    BY <1>1, <1>2
  <2> QED  BY <1>1, <2>1, <2>2, <2>3
<1>7. Chain(t)'
  <2>1. ASSUME NEW i \in 1 .. n - 1
        PROVE  link[t[i]] = IF i = n - 1 THEN Null ELSE t[i + 1]
    <3>1. i + 1 \in 1 .. n /\ t[i] = s[i + 1]
      BY <1>1
    <3>2. link[s[i + 1]] = IF i + 1 = n THEN Null ELSE s[i + 1 + 1]
      BY <3>1 DEF Chain, n
    <3>3. i # n - 1 => t[i + 1] = s[i + 1 + 1]
      BY <1>1
    <3> QED  BY <1>1, <3>1, <3>2, <3>3
  <2> HIDE DEF t
  <2> QED  BY <1>3, <1>5, <1>6, <2>1 DEF Chain
<1>8. ListsFree(t)'
  <2>1. \A i, j \in 1 .. n - 1 : t[i] = t[j] => i = j
    <3> SUFFICES ASSUME NEW i \in 1 .. n - 1, NEW j \in 1 .. n - 1, t[i] = t[j]
                 PROVE  i = j
      OBVIOUS
    <3>1. i + 1 \in 1 .. n /\ j + 1 \in 1 .. n /\ s[i + 1] = s[j + 1]
      BY <1>1
    <3> QED  BY <3>1, <1>1 DEF ListsFree, n
  <2>2. ASSUME NEW b \in Block
        PROVE  (b \notin bitmap') <=> \E i \in 1 .. n - 1 : t[i] = b
    <3>1. ASSUME b \notin bitmap' PROVE \E i \in 1 .. n - 1 : t[i] = b
      <4>1. b \notin bitmap /\ b # s[1]
        BY <3>1, <1>2, <1>5
      <4>2. PICK j \in 1 .. n : s[j] = b
        BY <4>1 DEF ListsFree, n
      <4>3. j - 1 \in 1 .. n - 1 /\ t[j - 1] = b
        BY <4>1, <4>2, <1>1
      <4> QED  BY <4>3
    <3>2. ASSUME NEW i \in 1 .. n - 1, t[i] = b PROVE b \notin bitmap'
      <4>1. i + 1 \in 1 .. n /\ 1 \in 1 .. n /\ i + 1 # 1 /\ s[i + 1] = b
        BY <3>2, <1>1
      <4>2. b # s[1] /\ b \notin bitmap
        BY <4>1 DEF ListsFree, n
      <4> QED  BY <4>2, <1>2, <1>5
    <3> QED  BY <3>1, <3>2
  <2> HIDE DEF t
  <2> QED  BY <1>3, <2>1, <2>2 DEF ListsFree
<1>9. FreeListSound'
  <2>1. t \in Chains
    BY <1>3 DEF Chains
  <2> HIDE DEF t
  <2> QED  BY <2>1, <1>3, <1>5, <1>7, <1>8 DEF FreeListSound
<1>10. PoolTypeOK'
  <2>1. free_list' \in Block \cup {Null}
    <3>1. n - 1 # 0 => t[1] \in Block
      BY <1>1, <1>2, <1>3
    <3> QED  BY <3>1, <1>6
  <2>2. free_count' \in 0 .. PoolCapacity
    BY <1>3, <1>5
  <2> QED  BY <2>1, <2>2, <1>2 DEF Alloc, PoolInv, PoolTypeOK
<1>11. BitmapIsOwnership'
  BY <1>2, PoolAssumption DEF Alloc, PoolInv, BitmapIsOwnership, PoolTypeOK
<1>12. NoneLost'
  BY <1>1, <1>2, <1>4, <1>5, TallyKept, BlockFacts DEF PoolInv, NoneLost
<1> QED  BY <1>9, <1>10, <1>11, <1>12 DEF PoolInv

(* fw_pool_free puts a block back whose bit was set, so one not on the list. *)
LEMMA FreeInv == ASSUME PoolInv, NEW b \in Address, Free(b) PROVE PoolInv'
<1> PICK s \in Chains : Chain(s) /\ ListsFree(s) /\ Len(s) = free_count
  BY DEF PoolInv, FreeListSound
<1> DEFINE n == Len(s)
           t == [i \in 1 .. n + 1 |-> IF i = 1 THEN b ELSE s[i - 1]]
<1>1. n \in 0 .. PoolCapacity /\ s \in [1 .. n -> Block] /\ n = free_count
  BY ChainsAreSequences
<1>2. b \in Block /\ b \in bitmap
  BY DEF Free, Accepts
<1>3. n + 1 \in 0 .. PoolCapacity
  <2>1. Cardinality(bitmap) \in Nat /\ Cardinality(bitmap) # 0
    BY <1>2, TallyKept DEF PoolInv
  <2>2. free_count + Cardinality(bitmap) = PoolCapacity
    BY DEF PoolInv, NoneLost
  <2> HIDE DEF n
  <2> QED  BY <1>1, <2>1, <2>2, BlockFacts
<1>4. t \in [1 .. n + 1 -> Block] /\ Len(t) = n + 1
  BY <1>1, <1>2, <1>3, BlockFacts
<1>5. /\ free_count' = n + 1 /\ bitmap' = bitmap \ {b} /\ free_list' = b
      /\ link' = [link EXCEPT ![b] = free_list]
  BY <1>1 DEF Free
<1>6. \A i \in 1 .. n : s[i] # b /\ s[i] \in Block
  BY <1>1, <1>2 DEF ListsFree
<1> HIDE DEF n
<1>7. t[1] = b /\ \A i \in 1 .. n : t[i + 1] = s[i]
  BY <1>1
<1>8. Chain(t)'
  <2>1. link'[b] = IF 1 = n + 1 THEN Null ELSE t[1 + 1]
    <3>1. link'[b] = free_list
      BY <1>2, <1>5 DEF PoolInv, PoolTypeOK
    <3>2. free_list = IF n = 0 THEN Null ELSE s[1]
      BY DEF Chain, n
    <3>3. n # 0 => t[1 + 1] = s[1]
      BY <1>1, <1>7
    <3> QED  BY <3>1, <3>2, <3>3, <1>1
  <2>2. ASSUME NEW i \in 1 .. n + 1
        PROVE  link'[t[i]] = IF i = n + 1 THEN Null ELSE t[i + 1]
    <3>1. CASE i = 1
      BY <3>1, <2>1, <1>7
    <3>2. CASE i # 1
      <4>1. i - 1 \in 1 .. n /\ t[i] = s[i - 1] /\ i - 1 + 1 = i
        BY <3>2, <1>1
      <4>2. link'[s[i - 1]] = link[s[i - 1]]
        BY <4>1, <1>5, <1>6 DEF PoolInv, PoolTypeOK
      <4>3. link[s[i - 1]] = IF i - 1 = n THEN Null ELSE s[i]
        BY <4>1 DEF Chain, n
      <4>4. i # n + 1 => t[i + 1] = s[i]
        BY <1>1, <3>2
      <4> QED  BY <1>1, <4>1, <4>2, <4>3, <4>4
    <3> QED  BY <3>1, <3>2
  <2> HIDE DEF t
  <2> QED  BY <1>1, <1>4, <1>5, <1>7, <2>2 DEF Chain
<1>9. ListsFree(t)'
  <2>1. \A i, j \in 1 .. n + 1 : t[i] = t[j] => i = j
    <3> SUFFICES ASSUME NEW i \in 1 .. n + 1, NEW j \in 1 .. n + 1, t[i] = t[j]
                 PROVE  i = j
      OBVIOUS
    <3>1. CASE i = 1 /\ j # 1
      <4>1. j - 1 \in 1 .. n /\ t[j] = s[j - 1]
        BY <3>1, <1>1
      <4> QED  BY <3>1, <4>1, <1>6, <1>7
    <3>2. CASE i # 1 /\ j = 1
      <4>1. i - 1 \in 1 .. n /\ t[i] = s[i - 1]
        BY <3>2, <1>1
      <4> QED  BY <3>2, <4>1, <1>6, <1>7
    <3>3. CASE i # 1 /\ j # 1
      <4>1. i - 1 \in 1 .. n /\ j - 1 \in 1 .. n /\ s[i - 1] = s[j - 1]
        BY <3>3, <1>1
      <4>2. i - 1 = j - 1
        BY <4>1 DEF ListsFree, n
      <4> QED  BY <4>2
    <3> QED  BY <3>1, <3>2, <3>3
  <2>2. ASSUME NEW x \in Block
        PROVE  (x \notin bitmap') <=> \E i \in 1 .. n + 1 : t[i] = x
    <3>1. ASSUME x \notin bitmap' PROVE \E i \in 1 .. n + 1 : t[i] = x
      <4>1. CASE x = b
        BY <4>1, <1>1, <1>7
      <4>2. CASE x # b
        <5>1. PICK j \in 1 .. n : s[j] = x
          BY <3>1, <4>2, <1>5 DEF ListsFree, n
        <5>2. j + 1 \in 1 .. n + 1 /\ t[j + 1] = x
          BY <5>1, <1>1, <1>7
        <5> QED  BY <5>2
      <4> QED  BY <4>1, <4>2
    <3>2. ASSUME NEW i \in 1 .. n + 1, t[i] = x PROVE x \notin bitmap'
      <4>1. CASE i = 1
        BY <3>2, <4>1, <1>5, <1>7
      <4>2. CASE i # 1
        <5>1. i - 1 \in 1 .. n /\ s[i - 1] = x
          BY <3>2, <4>2, <1>1
        <5> QED  BY <5>1, <1>5 DEF ListsFree, n
      <4> QED  BY <4>1, <4>2
    <3> QED  BY <3>1, <3>2
  <2> HIDE DEF t
  <2> QED  BY <1>4, <2>1, <2>2 DEF ListsFree
<1>10. FreeListSound'
  <2>1. t \in Chains
    BY <1>3, <1>4 DEF Chains
  <2> HIDE DEF t
  <2> QED  BY <2>1, <1>4, <1>5, <1>8, <1>9 DEF FreeListSound
<1>11. PoolTypeOK'
  BY <1>2, <1>3, <1>5 DEF Free, PoolInv, PoolTypeOK, Address
<1>12. BitmapIsOwnership'
  BY <1>2, <1>5 DEF Free, PoolInv, BitmapIsOwnership, PoolTypeOK
<1>13. NoneLost'
  BY <1>1, <1>2, <1>5, TallyKept, BlockFacts DEF PoolInv, NoneLost
<1> QED  BY <1>10, <1>11, <1>12, <1>13 DEF PoolInv

(* A holder that scribbles over its block leaves the list alone. *)
LEMMA UseInv == ASSUME PoolInv, NEW b \in Block, Use(b) PROVE PoolInv'
<1> PICK s \in Chains : Chain(s) /\ ListsFree(s) /\ Len(s) = free_count
  BY DEF PoolInv, FreeListSound
<1>1. Len(s) \in Nat /\ s \in [1 .. Len(s) -> Block]
  BY ChainsAreSequences
<1>2. b \in bitmap /\ \A i \in 1 .. Len(s) : s[i] # b
  BY <1>1 DEF Use, PoolInv, BitmapIsOwnership, ListsFree
<1>3. PICK word \in Address : link' = [link EXCEPT ![b] = word]
  BY DEF Use
<1>4. Chain(s)'
  BY <1>1, <1>2, <1>3 DEF Use, Chain, PoolInv, PoolTypeOK
<1>5. ListsFree(s)'
  BY DEF Use, ListsFree
<1>6. FreeListSound'
  BY <1>4, <1>5 DEF Use, FreeListSound
<1>7. PoolTypeOK' /\ BitmapIsOwnership' /\ NoneLost'
  BY <1>3 DEF Use, PoolInv, PoolTypeOK, BitmapIsOwnership, NoneLost
<1> QED  BY <1>6, <1>7 DEF PoolInv

(* No call and no caller breaks the invariant. *)
LEMMA NextInv == PoolInv /\ [PoolNext]_poolVars => PoolInv'
<1> SUFFICES ASSUME PoolInv, [PoolNext]_poolVars PROVE PoolInv'
  OBVIOUS
<1>1. CASE UNCHANGED poolVars
  BY <1>1 DEF poolVars, PoolInv, PoolTypeOK, FreeListSound, Chain, ListsFree,
              BitmapIsOwnership, NoneLost
<1> QED  BY <1>1, AllocInv, FreeInv, UseInv DEF PoolNext

(* The pool's invariant holds whatever its callers do. *)
THEOREM InvariantHolds == PoolSpec => []PoolInv
  BY InitInv, NextInv, PTL DEF PoolSpec

(* Links, list head, count, bitmap and owners keep their types. *)
THEOREM TypeCorrect == PoolSpec => []PoolTypeOK
<1>1. PoolInv => PoolTypeOK
  BY DEF PoolInv
<1> QED  BY <1>1, InvariantHolds, PTL

(* For every capacity the free list stays acyclic and complete: the claim of
   embedded-architecture.md:72 about pool.c's bitmap check. *)
THEOREM ListStaysSound == PoolSpec => []FreeListSound
<1>1. PoolInv => FreeListSound
  BY DEF PoolInv
<1> QED  BY <1>1, InvariantHolds, PTL

(* No block is lost and none is counted twice. *)
THEOREM TallyStaysRight == PoolSpec => [](BitmapIsOwnership /\ NoneLost)
<1>1. PoolInv => BitmapIsOwnership /\ NoneLost
  BY DEF PoolInv
<1> QED  BY <1>1, InvariantHolds, PTL

(* The pool never hands a block to a second caller before the first one
   returns it. *)
THEOREM Refinement == PoolSpec => ImplementsAllocator
<1>1. PoolInit => A!Init
  BY DEF PoolInit, A!Init
<1>2. PoolInv /\ [PoolNext]_poolVars => [A!Next]_owner
  <2> SUFFICES ASSUME PoolInv, PoolNext PROVE A!Next \/ UNCHANGED owner
    BY DEF poolVars
  <2>1. ASSUME NEW c \in Context, Alloc(c) PROVE A!Next
    <3>1. PICK s \in Chains : Chain(s) /\ ListsFree(s)
      BY DEF PoolInv, FreeListSound
    <3>2. Len(s) \in Nat /\ s \in [1 .. Len(s) -> Block]
      BY <3>1, ChainsAreSequences
    <3>3. Len(s) # 0 /\ s[1] = free_list
      BY <2>1, <3>1, BlockFacts DEF Alloc, Chain
    <3>4. free_list \in Block /\ free_list \notin bitmap
      BY <2>1, <3>1, <3>2, <3>3 DEF Alloc, ListsFree
    <3>5. A!Grant(free_list, c)
      BY <2>1, <3>4 DEF Alloc, A!Grant, PoolInv, BitmapIsOwnership
    <3> QED  BY <3>4, <3>5 DEF A!Next
  <2>2. ASSUME NEW b \in Address, Free(b) PROVE A!Next
    BY <2>2 DEF Free, Accepts, PoolInv, BitmapIsOwnership, A!Next, A!Return
  <2>3. ASSUME NEW b \in Block, Use(b) PROVE UNCHANGED owner
    BY <2>3 DEF Use
  <2> QED  BY <2>1, <2>2, <2>3 DEF PoolNext
<1> QED  BY <1>1, <1>2, InvariantHolds, PTL DEF PoolSpec, ImplementsAllocator, A!Spec
=============================================================================
