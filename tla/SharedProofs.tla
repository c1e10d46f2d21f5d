----------------------------- MODULE SharedProofs -----------------------------
(***************************************************************************)
(* Proofs about what two contexts share.  A pool whose main loop masks     *)
(* interrupts during its calls is, cut into loads and stores, still the    *)
(* pool of whole calls, whose invariant it inherits by instantiation.      *)
(* Senders behind a lock are one producer.  For every set of tasks, every  *)
(* timeout and every range of the millisecond counter, the supervisor of   *)
(* watchdog.c never feeds the hardware while a task hangs, and with        *)
(* interrupts masked no heartbeat is lost.                                 *)
(***************************************************************************)
EXTENDS PoolIsr, Watchdog, RustSync, TLAPS

P == INSTANCE PoolProofs WITH
  free_count <- CountNow, bitmap <- BitmapNow, owner <- OwnerNow

(* A pool just made, and a main loop that has not called it. *)
LEMMA CallStarts == MainInit => CallInv /\ P!PoolInit
<1> SUFFICES ASSUME MainInit PROVE CallInv /\ P!PoolInit
  OBVIOUS
<1>1. ~InTransit /\ CountNow = free_count /\ BitmapNow = bitmap
  BY DEF MainInit, InTransit, CountNow, BitmapNow
<1>2. OwnerNow = [b \in Block |-> Nobody]
  BY <1>1 DEF MainInit, PoolInit, OwnerNow
<1> QED
  BY <1>1, <1>2 DEF MainInit, PoolInit, CallInv, InTransit, P!PoolInit, P!Block, Block

(* What the pool's invariant says of the fields themselves. *)
LEMMA PoolFacts ==
  ASSUME P!PoolInv
  PROVE  /\ link \in [Block -> Address] /\ free_list \in Block \cup {Null}
         /\ \A b \in Block : (b \in BitmapNow) <=> (OwnerNow[b] # Nobody)
         /\ free_list \in Block => free_list \notin BitmapNow
<1>1. link \in [Block -> Address] /\ free_list \in Block \cup {Null}
  BY DEF P!PoolInv, P!PoolTypeOK, P!Block, P!Address, Block, Address
<1>2. \A b \in Block : (b \in BitmapNow) <=> (OwnerNow[b] # Nobody)
  BY DEF P!PoolInv, P!BitmapIsOwnership, P!Block, Block
<1>3. ASSUME free_list \in Block PROVE free_list \notin BitmapNow
  <2>1. PICK s \in P!Chains : P!Chain(s) /\ P!ListsFree(s)
    BY DEF P!PoolInv, P!FreeListSound
  <2>2. Len(s) \in Nat /\ s \in [1 .. Len(s) -> Block]
    BY <2>1, P!ChainsAreSequences, PoolAssumption DEF P!Block, Block
  <2>3. Len(s) # 0 /\ s[1] = free_list
    BY <1>3, <2>1, PoolAssumption DEF P!Chain, P!Block, Block
  <2> QED
    BY <1>3, <2>1, <2>2, <2>3 DEF P!ListsFree, P!Block, Block
<1> QED
  BY <1>1, <1>2, <1>3

(* Each load and store of a masked call is a step of the pool of whole     *)
(* calls, or none at all.                                                  *)
LEMMA CallSteps ==
  ASSUME Masked, CallInv, P!PoolInv, [IsrNext]_allVars
  PROVE  CallInv' /\ [P!PoolNext]_(P!poolVars)
<1> USE PoolIsrAssumption, PoolAssumption DEF P!Block, P!Address, P!poolVars, At
<1>0. /\ link \in [Block -> Address] /\ free_list \in Block \cup {Null}
      /\ \A b \in Block : (b \in BitmapNow) <=> (OwnerNow[b] # Nobody)
      /\ free_list \in Block => free_list \notin BitmapNow
  BY PoolFacts
<1>1. CASE LoadNode
  BY <1>0, <1>1 DEF LoadNode, CallInv, InTransit, CountNow, BitmapNow, OwnerNow, poolVars
<1>2. CASE Unlink
  <2>1. /\ free_list \in Block /\ node = free_list /\ free_list \notin bitmap
        /\ owner[node] = Nobody
    BY <1>0, <1>2 DEF Unlink, CallInv, InTransit, BitmapNow, OwnerNow
  <2>2. CountNow' = CountNow - 1 /\ BitmapNow' = BitmapNow \cup {free_list}
    BY <1>2, <2>1 DEF Unlink, CountNow, BitmapNow, InTransit
  <2>3. OwnerNow' = [OwnerNow EXCEPT ![free_list] = Main]
    BY <1>2, <2>1 DEF Unlink, OwnerNow, InTransit
  <2>4. P!Alloc(Main)
    BY <1>2, <2>1, <2>2, <2>3 DEF Unlink, P!Alloc, Block
  <2>5. CallInv'
    BY <1>2, <2>1 DEF Unlink, CallInv, InTransit
  <2> QED
    BY <2>4, <2>5 DEF P!PoolNext
<1>3. CASE LoadCount \/ StoreCount \/ LoadBit
  BY <1>0, <1>3 DEF LoadCount, StoreCount, LoadBit, CallInv, InTransit, CountNow, BitmapNow, OwnerNow, poolVars
<1>4. CASE StoreBit
  <2>1. CallInv'
    BY <1>4 DEF StoreBit, CallInv, InTransit
  <2>2. CountNow' = CountNow /\ BitmapNow' = BitmapNow
    BY <1>4 DEF StoreBit, CallInv, InTransit, CountNow, BitmapNow
  <2>3. OwnerNow' = OwnerNow
    BY <1>4 DEF StoreBit, CallInv, InTransit, OwnerNow
  <2> QED
    BY <1>4, <2>1, <2>2, <2>3 DEF StoreBit
<1>5. ASSUME NEW b \in Block, Check(b) PROVE CallInv' /\ [P!PoolNext]_(P!poolVars)
  <2>1. b \in bitmap /\ owner[b] # Nobody
    BY <1>0, <1>5 DEF Check, Accepts, CallInv, InTransit, BitmapNow, OwnerNow
  <2>2. CallInv'
    BY <1>5, <2>1 DEF Check, CallInv, InTransit
  <2>3. CountNow' = CountNow /\ BitmapNow' = BitmapNow
    BY <1>5, <2>1 DEF Check, InTransit, CountNow, BitmapNow
  <2>4. OwnerNow' = OwnerNow
    BY <1>5, <2>1 DEF Check, CallInv, InTransit, OwnerNow
  <2> QED
    BY <1>5, <2>2, <2>3, <2>4 DEF Check
<1>6. CASE ClearBit
  <2>1. CallInv'
    BY <1>6 DEF ClearBit, CallInv, InTransit
  <2>2. CountNow' = CountNow /\ BitmapNow' = BitmapNow
    BY <1>0, <1>6 DEF ClearBit, CallInv, InTransit, CountNow, BitmapNow
  <2>3. OwnerNow' = OwnerNow
    BY <1>6 DEF ClearBit, CallInv, InTransit, OwnerNow
  <2> QED
    BY <1>6, <2>1, <2>2, <2>3 DEF ClearBit
<1>7. CASE SetLink
  <2>1. CountNow' = CountNow /\ BitmapNow' = BitmapNow /\ OwnerNow' = OwnerNow
    BY <1>7 DEF SetLink, CallInv, InTransit, CountNow, BitmapNow, OwnerNow
  <2>2. node \in Block /\ OwnerNow[node] # Nobody
    BY <1>7 DEF SetLink, CallInv, InTransit, OwnerNow
  <2>3. P!Use(node)
    BY <1>0, <1>7, <2>1, <2>2 DEF SetLink, P!Use, Block
  <2>4. CallInv'
    BY <1>0, <1>7 DEF SetLink, CallInv, InTransit
  <2> QED
    BY <2>2, <2>3, <2>4 DEF P!PoolNext, Block
<1>8. CASE PushNode
  <2>1. node \in Block /\ node \in BitmapNow /\ link[node] = free_list
    BY <1>8 DEF PushNode, CallInv, InTransit, BitmapNow
  <2>2. CountNow' = CountNow + 1 /\ BitmapNow' = BitmapNow \ {node}
    BY <1>8 DEF PushNode, CallInv, InTransit, CountNow, BitmapNow
  <2>3. OwnerNow' = [OwnerNow EXCEPT ![node] = Nobody]
    BY <1>8 DEF PushNode, CallInv, InTransit, OwnerNow
  <2>4. link' = [link EXCEPT ![node] = free_list]
    BY <1>0, <1>8, <2>1 DEF PushNode
  <2>5. P!Free(node)
    BY <1>8, <2>1, <2>2, <2>3, <2>4 DEF PushNode, P!Free, P!Accepts, Block
  <2>6. CallInv'
    BY <1>8 DEF PushNode, CallInv, InTransit
  <2> QED
    BY <2>1, <2>5, <2>6 DEF P!PoolNext, Block
<1>9. CASE LoadUp \/ StoreUp
  BY <1>9 DEF LoadUp, StoreUp, CallInv, InTransit, CountNow, BitmapNow, OwnerNow, poolVars
<1>10. CASE IsrCall
  <2>1. pc = "idle" /\ UNCHANGED locals /\ ~InTransit /\ ~InTransit'
    BY <1>10 DEF IsrCall, locals, InTransit
  <2>2. CountNow = free_count /\ CountNow' = free_count' /\ BitmapNow = bitmap /\ BitmapNow' = bitmap'
    BY <2>1 DEF CountNow, BitmapNow, locals
  <2>3. CASE Alloc(Isr)
    <3>1. CallInv'
      BY <2>1, <2>3 DEF Alloc, CallInv, InTransit, locals
    <3>2. OwnerNow' = [OwnerNow EXCEPT ![free_list] = Main]
      BY <2>1, <2>3 DEF Alloc, CallInv, OwnerNow
    <3>3. P!Alloc(Main)
      BY <2>2, <2>3, <3>2 DEF Alloc, P!Alloc, Block
    <3> QED
      BY <3>1, <3>3 DEF P!PoolNext
  <2>4. ASSUME NEW b \in Address, Free(b) PROVE CallInv' /\ P!PoolNext
    <3>1. b \in Block
      BY <2>4 DEF Free, Accepts
    <3>2. CallInv'
      BY <2>1, <2>4, <3>1 DEF Free, CallInv, InTransit, locals
    <3>3. OwnerNow' = [OwnerNow EXCEPT ![b] = Nobody]
      BY <2>1, <2>4, <3>1 DEF Free, CallInv, OwnerNow
    <3>4. P!Free(b)
      BY <2>2, <2>4, <3>1, <3>3 DEF Free, Accepts, P!Free, P!Accepts, Block
    <3> QED
      BY <3>1, <3>2, <3>4 DEF P!PoolNext, Block
  <2> QED
    BY <1>10, <2>3, <2>4 DEF IsrCall
<1>11. CASE UseBlock
  <2>1. PICK b \in Block : Use(b)
    BY <1>11 DEF UseBlock
  <2>2. CountNow' = CountNow /\ BitmapNow' = BitmapNow /\ OwnerNow' = OwnerNow
    BY <1>11, <2>1 DEF UseBlock, Use, locals, InTransit, CountNow, BitmapNow, OwnerNow
  <2>3. OwnerNow[b] # Nobody
    BY <2>1 DEF Use, OwnerNow
  <2>4. P!Use(b)
    BY <2>1, <2>2, <2>3 DEF Use, P!Use, Address, Block
  <2>5. CallInv'
    BY <1>0, <1>11, <2>1 DEF UseBlock, Use, CallInv, InTransit, locals
  <2> QED
    BY <2>4, <2>5 DEF P!PoolNext, Block
<1>12. CASE UNCHANGED allVars
  BY <1>12 DEF allVars, poolVars, locals, CallInv, InTransit, CountNow, BitmapNow, OwnerNow
<1> QED
  BY <1>1, <1>2, <1>3, <1>4, <1>5, <1>6, <1>7, <1>8, <1>9, <1>10, <1>11, <1>12
  DEF IsrNext, MainCall

(* With interrupts masked during the main loop's calls, a pool that it and  *)
(* an ISR share behaves as one whose calls happen at once (pool.c, and      *)
(* pool.h:8-9 on ISRs).                                                    *)
THEOREM MaskedCallsAreWhole == Masked => (IsrSpec => P!PoolSpec)
<1> SUFFICES ASSUME Masked PROVE IsrSpec => P!PoolSpec
  OBVIOUS
<1>0. P!PoolInit => P!PoolInv
  BY P!InitInv, PoolAssumption
<1>1. P!PoolInv /\ [P!PoolNext]_(P!poolVars) => P!PoolInv'
  BY P!NextInv, PoolAssumption DEF P!poolVars
<1>2. CallInv /\ P!PoolInv /\ [IsrNext]_allVars => CallInv' /\ [P!PoolNext]_(P!poolVars)
  BY CallSteps
<1> QED
  BY CallStarts, <1>0, <1>1, <1>2, PTL DEF IsrSpec, P!PoolSpec

(* The pool's invariant holds of the fields, and the call's of the locals. *)
LEMMA MaskedInvariant == Masked => (IsrSpec => [](CallInv /\ P!PoolInv))
<1> SUFFICES ASSUME Masked PROVE IsrSpec => [](CallInv /\ P!PoolInv)
  OBVIOUS
<1>1. P!PoolInit => P!PoolInv
  BY P!InitInv, PoolAssumption
<1>2. P!PoolInv /\ [P!PoolNext]_(P!poolVars) => P!PoolInv'
  BY P!NextInv, PoolAssumption DEF P!poolVars
<1>3. CallInv /\ P!PoolInv /\ [IsrNext]_allVars => CallInv' /\ [P!PoolNext]_(P!poolVars)
  BY CallSteps
<1> QED
  BY CallStarts, <1>1, <1>2, <1>3, PTL DEF IsrSpec

(* Whenever the main loop is in no call of its own, the free list is       *)
(* acyclic and complete and agrees with bitmap and count, whatever the ISR *)
(* did between calls: for every capacity, with interrupts masked.          *)
THEOREM QuietListStaysSound == Masked => (IsrSpec => []QuietListSound)
<1> SUFFICES ASSUME Masked PROVE IsrSpec => []QuietListSound
  OBVIOUS
<1>1. CallInv /\ P!PoolInv => QuietListSound
  <2> SUFFICES ASSUME P!PoolInv, pc = "idle" PROVE FreeListSound
    BY DEF QuietListSound
  <2>1. CountNow = free_count /\ BitmapNow = bitmap
    BY DEF CountNow, BitmapNow, InTransit
  <2> QED
    BY <2>1 DEF P!PoolInv, P!FreeListSound, P!Chains, P!Chain, P!ListsFree, P!Block,
                FreeListSound, Chains, Chain, ListsFree, Block
<1> QED
  BY <1>1, MaskedInvariant, PTL

(* Main loop and ISR see an allocator: no block belongs to both, and none   *)
(* is taken back that was not handed out.                                  *)
THEOREM MaskedPoolIsAllocator == Masked => (IsrSpec => ImplementsAllocator)
<1> SUFFICES ASSUME Masked PROVE IsrSpec => ImplementsAllocator
  OBVIOUS
<1>1. MainInit => A!Init
  BY DEF MainInit, PoolInit, A!Init
<1>2. CallInv /\ P!PoolInv /\ [IsrNext]_allVars => [A!Next]_owner
  <2> SUFFICES ASSUME CallInv, P!PoolInv, IsrNext PROVE A!Next \/ UNCHANGED owner
    BY DEF allVars, poolVars
  <2> USE PoolIsrAssumption, PoolAssumption DEF At, CallInv, InTransit
  <2>0. /\ \A b \in Block : (b \in BitmapNow) <=> (OwnerNow[b] # Nobody)
        /\ free_list \in Block => free_list \notin BitmapNow
    BY PoolFacts
  <2>1. CASE StoreBit
    <3>1. node \in Block /\ A!Grant(node, Main)
      BY <2>1 DEF StoreBit, A!Grant
    <3> QED
      BY <3>1 DEF A!Next
  <2>2. ASSUME NEW b \in Block, Check(b) PROVE A!Next
    <3>1. owner[b] # Nobody
      BY <2>0, <2>2 DEF Check, Accepts, BitmapNow, OwnerNow
    <3>2. A!Return(b)
      BY <2>2, <3>1 DEF Check, A!Return
    <3> QED
      BY <3>2 DEF A!Next
  <2>3. CASE IsrCall
    <3>0. pc = "idle"
      BY <2>3 DEF IsrCall
    <3>1. CASE Alloc(Isr)
      <4>1. free_list \in Block /\ owner[free_list] = Nobody
        BY <2>0, <3>0, <3>1 DEF Alloc, BitmapNow, OwnerNow
      <4>2. A!Grant(free_list, Isr)
        BY <3>1, <4>1 DEF Alloc, A!Grant
      <4> QED
        BY <4>1, <4>2 DEF A!Next
    <3>2. ASSUME NEW b \in Address, Free(b) PROVE A!Next
      <4>1. b \in Block /\ owner[b] # Nobody
        BY <2>0, <3>0, <3>2 DEF Free, Accepts, BitmapNow, OwnerNow
      <4>2. A!Return(b)
        BY <3>2, <4>1 DEF Free, A!Return
      <4> QED
        BY <4>1, <4>2 DEF A!Next
    <3> QED
      BY <2>3, <3>1, <3>2 DEF IsrCall
  <2>4. CASE UseBlock
    BY <2>4 DEF UseBlock, Use
  <2>5. CASE LoadNode \/ Unlink \/ LoadCount \/ StoreCount \/ LoadBit \/ ClearBit
             \/ SetLink \/ PushNode \/ LoadUp \/ StoreUp
    BY <2>5 DEF LoadNode, Unlink, LoadCount, StoreCount, LoadBit, ClearBit, SetLink,
                PushNode, LoadUp, StoreUp, poolVars
  <2> QED
    BY <2>1, <2>2, <2>3, <2>4, <2>5 DEF IsrNext, MainCall
<1> QED
  BY <1>1, <1>2, MaskedInvariant, PTL DEF IsrSpec, ImplementsAllocator, A!Spec
-----------------------------------------------------------------------------
(* The Rust queue with several senders and a lock is the ring of Spsc with *)
(* one producer, the sender that is let in.                                *)

NoItem == CHOOSE x : x \notin Item
(* The slice that is being filled. *)
Out == [k \in 1 .. wanted |-> IF k <= Len(got) THEN got[k] ELSE NoItem]

S == INSTANCE SpscProofs WITH
  Byte <- Item, Unset <- NoItem, Capacity <- QueueCapacity, Modulus <- UsizeRange,
  MaxCount <- SliceLimit, head <- queueHead, tail <- queueTail, buffer <- storage,
  pSrc <- Call.items, pTodo <- Call.done + 1 .. Len(Call.items), pSeen <- 0,
  cOut <- Out, cTodo <- Len(got) + 1 .. wanted, cSeen <- 0, taken <- received

(* The constants of the Rust queue are those of a ring. *)
LEMMA QueueConstants == S!SpscAssumption
<1>1. NoItem \notin Item
  BY NoSetContainsEverything DEF NoItem
<1> QED
  BY <1>1, RustSyncAssumption DEF S!SpscAssumption

(* wrapping_add and wrapping_sub are the ring's counter arithmetic. *)
LEMMA WrappingArithmetic ==
  /\ \A c \in S!Counter, n \in 0 .. QueueCapacity : Ahead(c, n) = S!Plus(c, n)
  /\ queueHead \in S!Counter /\ queueTail \in S!Counter => InQueue = S!Count
  BY RustSyncAssumption DEF Ahead, InQueue, S!Counter, S!Plus, S!Count, S!Minus

(* Masking a counter that has moved on k slots, wrapped or not, finds the   *)
(* slot the ring's two copies would.                                       *)
LEMMA MaskFindsSlot ==
  ASSUME NEW c \in S!Counter, NEW k \in 0 .. QueueCapacity - 1
  PROVE  /\ Index(c + k) = S!ChunkSlot(c, k + 1)
         /\ Index(c + k) \in 0 .. QueueCapacity - 1
<1> DEFINE C == QueueCapacity
           q == c \div C
           r == c % C
<1>1. C \in Nat \ {0} /\ c \in Nat /\ k \in 0 .. C - 1
  BY RustSyncAssumption DEF S!Counter
<1>2. q \in Nat /\ r \in 0 .. C - 1 /\ c = (C * q) + r
  BY <1>1, SMT
<1>3. S!SlotOf(c) = r
  BY DEF S!SlotOf
<1> HIDE DEF C, q, r
<1>4. CASE r + k < C
  <2>1. c + k = (C * q) + (r + k) /\ r + k \in 0 .. C - 1 /\ c + k \in Nat
    BY <1>1, <1>2, <1>4
  <2>2. (c + k) % C = r + k
    BY <1>1, <1>2, <2>1, S!RemainderUnique, QueueConstants
  <2> QED
    BY <1>1, <1>2, <1>3, <1>4, <2>2 DEF Index, S!ChunkSlot, C
<1>5. CASE ~(r + k < C)
  <2>1. c + k = (C * (q + 1)) + (r + k - C)
    BY <1>1, <1>2
  <2>2. r + k - C \in 0 .. C - 1 /\ c + k \in Nat /\ q + 1 \in Nat
    BY <1>1, <1>2, <1>5
  <2>3. (c + k) % C = r + k - C
    BY <1>1, <2>1, <2>2, S!RemainderUnique, QueueConstants
  <2> QED
    BY <1>1, <1>2, <1>3, <1>5, <2>3 DEF Index, S!ChunkSlot, C
<1> QED
  BY <1>4, <1>5

(* The sender let in is the one whose call is being written. *)
LEMMA CallOfAdmitted ==
  ASSUME OneProducer, NEW s \in admitted
  PROVE  Call = sending[s]
<1>1. CASE Busy = {}
  BY <1>1 DEF Call, Busy, OneProducer
<1>2. CASE Busy # {}
  <2> DEFINE t == CHOOSE t \in Busy : TRUE
  <2>1. t \in Busy
    BY <1>2
  <2>2. t = s
    BY <2>1 DEF OneProducer
  <2> QED
    BY <1>2, <2>2 DEF Call
<1> QED
  BY <1>1, <1>2

(* So is the one let in after a step. *)
LEMMA CallOfAdmittedNext ==
  ASSUME OneProducer', NEW s \in admitted'
  PROVE  Call' = sending'[s]
<1>1. CASE Busy' = {}
  BY <1>1 DEF Call, Busy, OneProducer
<1>2. CASE Busy' # {}
  <2> DEFINE t == CHOOSE t \in Busy' : TRUE
  <2>1. t \in Busy'
    BY <1>2
  <2>2. t = s
    BY <2>1 DEF OneProducer
  <2> QED
    BY <1>2, <2>2 DEF Call
<1> QED
  BY <1>1, <1>2

(* An empty queue, an open lock and no call. *)
LEMMA QueueStarts == QueueInit => OneProducer /\ S!Init
<1> SUFFICES ASSUME QueueInit PROVE OneProducer /\ S!Init
  OBVIOUS
<1>1. Busy = {} /\ Call = Nothing
  BY DEF QueueInit, Busy, Call
<1>2. OneProducer
  <2>1. Nothing \in [items : Seq(Item), at : Nat, done : Nat]
    BY DEF Nothing
  <2>2. sending \in [Sender -> [items : Seq(Item), at : Nat, done : Nat]]
    BY <2>1 DEF QueueInit
  <2>3. wanted \in Nat /\ got \in Seq(Item) /\ Len(got) <= wanted
    BY DEF QueueInit
  <2>4. locked \in BOOLEAN /\ admitted = {}
    BY DEF QueueInit
  <2> QED
    BY <1>1, <2>2, <2>3, <2>4 DEF OneProducer
<1>3. Out = <<>>
  BY DEF QueueInit, Out
<1>4. Call.items = <<>> /\ Call.done = 0 /\ Len(got) = 0 /\ wanted = 0
  BY <1>1 DEF QueueInit, Nothing
<1> QED
  BY <1>1, <1>2, <1>3, <1>4 DEF QueueInit, S!Init, S!Slots

(* What the ring's invariant says of the queue's own fields. *)
LEMMA RingFacts ==
  ASSUME OneProducer, S!IInv
  PROVE  /\ queueHead \in S!Counter /\ queueTail \in S!Counter
         /\ storage \in [0 .. QueueCapacity - 1 -> Item] /\ received \in Seq(Item)
         /\ InQueue = S!Count /\ InQueue \in 0 .. QueueCapacity
         /\ InQueue + Len(Call.items) <= QueueCapacity
         /\ wanted <= InQueue /\ Len(Out) = wanted
<1>1. /\ queueHead \in S!Counter /\ queueTail \in S!Counter
      /\ storage \in [0 .. QueueCapacity - 1 -> Item] /\ received \in Seq(Item)
  BY DEF S!IInv, S!TypeOK, S!Slots
<1>2. InQueue = S!Count
  BY <1>1, WrappingArithmetic
<1>3. S!Count \in 0 .. QueueCapacity
  BY S!LengthsBounded, QueueConstants DEF S!IInv
<1>4. Len(Out) = wanted
  BY DEF OneProducer, Out
<1>5. S!Count + Len(Call.items) <= QueueCapacity /\ Len(Out) <= S!Count
  BY DEF S!IInv, S!RoomForCalls
<1> QED
  BY <1>1, <1>2, <1>3, <1>4, <1>5

(* Setting and clearing the flag does not touch the ring. *)
LEMMA LockSteps ==
  ASSUME OneProducer, NEW s \in Sender, TryLock(s) \/ Unlock(s)
  PROVE  OneProducer' /\ UNCHANGED S!vars
<1>1. UNCHANGED <<queueHead, sending, storage, queueTail, wanted, got, received>>
  BY DEF TryLock, Unlock, receiveVars
<1>2. Busy' = Busy /\ Call' = Call /\ Out' = Out
  BY <1>1 DEF Busy, Call, Out
<1>3. /\ locked' \in BOOLEAN /\ admitted' \in SUBSET Sender
      /\ admitted' # {} => locked'
      /\ \A t, u \in admitted' : t = u
      /\ Busy \subseteq admitted'
  <2>1. CASE TryLock(s)
    <3>1. admitted = {} /\ admitted' = {s} /\ locked' = TRUE /\ Busy = {}
      BY <2>1 DEF TryLock, OneProducer
    <3> QED
      BY <3>1
  <2>2. CASE Unlock(s)
    <3>1. admitted' = {} /\ locked' = FALSE /\ Busy = {}
      BY <2>2 DEF Unlock, OneProducer, Busy
    <3> QED
      BY <3>1
  <2> QED
    BY <2>1, <2>2
<1>4. OneProducer'
  BY <1>1, <1>2, <1>3 DEF OneProducer
<1> QED
  BY <1>1, <1>2, <1>4 DEF S!vars, S!pvars, S!cvars

(* A call of the sender let in is the ring's call of its producer. *)
LEMMA BeginStarts ==
  ASSUME OneProducer, NEW s \in Sender, NEW items \in Seq(Item), items # <<>>,
         Begin(s, items), queueHead \in Nat
  PROVE  OneProducer' /\ S!PIdle /\ S!StartPut(items)
<1>1. Call = Nothing
  BY CallOfAdmitted DEF Begin
<1>2. sending' = [sending EXCEPT ![s] = [items |-> items, at |-> queueHead, done |-> 0]]
  BY DEF Begin
<1>3. sending'[s] = [items |-> items, at |-> queueHead, done |-> 0]
  BY <1>2 DEF OneProducer
<1>4. ASSUME NEW t \in Busy' PROVE t = s
  BY <1>2 DEF Begin, Busy, OneProducer
<1>5. OneProducer'
  <2>1. sending' \in [Sender -> [items : Seq(Item), at : Nat, done : Nat]]
    BY <1>2 DEF OneProducer
  <2>2. s \in admitted /\ UNCHANGED <<locked, admitted, queueHead, wanted, got>>
    BY DEF Begin, receiveVars
  <2>3. \A t \in Busy' : /\ t \in admitted /\ sending'[t].at = queueHead
                         /\ sending'[t].items # <<>>
                         /\ sending'[t].done <= Len(sending'[t].items)
    BY <1>3, <1>4, <2>2
  <2> QED
    BY <2>1, <2>2, <2>3 DEF OneProducer
<1>6. Call' = [items |-> items, at |-> queueHead, done |-> 0]
  <2>1. s \in admitted'
    BY DEF Begin
  <2> QED
    BY <1>3, <1>5, <2>1, CallOfAdmittedNext
<1>7. Call'.items = items /\ Call'.done + 1 = 1 /\ Call.items = <<>>
  BY <1>1, <1>6 DEF Nothing
<1> QED
  BY <1>5, <1>7 DEF Begin, S!PIdle, S!StartPut, S!cvars, Out, receiveVars

(* try_enqueue and enqueue_slice settle on items there is room for. *)
LEMMA EnqueueStarts ==
  ASSUME OneProducer, S!IInv, NEW s \in Sender,
         \/ \E i \in Item : TryEnqueue(s, i)
         \/ \E slice \in Slice : EnqueueSlice(s, slice)
  PROVE  OneProducer' /\ S!Next
<1> USE RingFacts, RustSyncAssumption
<1>0. queueHead \in Nat
  BY DEF S!Counter
<1>1. ASSUME NEW i \in Item, TryEnqueue(s, i) PROVE OneProducer' /\ S!Next
  <2>1. <<i>> \in Seq(Item) /\ <<i>> # <<>> /\ Begin(s, <<i>>)
    BY <1>1 DEF TryEnqueue
  <2>2. OneProducer' /\ S!PIdle /\ S!StartPut(<<i>>)
    BY <1>0, <2>1, BeginStarts
  <2>3. S!Push(i)
    BY <1>1, <2>2 DEF TryEnqueue, S!Push, S!Full
  <2> QED
    BY <2>2, <2>3 DEF S!Next, S!Producer
<1>2. ASSUME NEW n \in 1 .. SliceLimit, NEW slice \in [1 .. n -> Item], EnqueueSlice(s, slice)
      PROVE  OneProducer' /\ S!Next
  <2> DEFINE m == S!Least(Len(slice), S!Available)
  <2>1. slice \in Seq(Item) /\ Len(slice) = n /\ n > 0
    OBVIOUS
  <2>2. m = IF Len(slice) < QueueCapacity - InQueue THEN Len(slice) ELSE QueueCapacity - InQueue
    BY DEF S!Least, S!Available
  <2>3. m \in 0 .. n
    BY <2>1, <2>2
  <2>4. Fitting(slice, QueueCapacity - InQueue) = SubSeq(slice, 1, m)
    BY <2>2 DEF Fitting
  <2> HIDE DEF m
  <2>5. SubSeq(slice, 1, m) \in Seq(Item) /\ SubSeq(slice, 1, m) # <<>>
        /\ Begin(s, SubSeq(slice, 1, m))
    <3>1. SubSeq(slice, 1, m) \in Seq(Item)
      BY <2>1, <2>3
    <3> QED
      BY <1>2, <2>4, <3>1 DEF EnqueueSlice
  <2>6. m > 0
    BY <2>1, <2>3, <2>5
  <2>7. OneProducer' /\ S!PIdle /\ S!StartPut(SubSeq(slice, 1, m))
    BY <1>0, <2>5, BeginStarts
  <2>8. S!Write(slice)
    BY <2>1, <2>6, <2>7 DEF S!Write, m
  <2> QED
    BY <2>7, <2>8 DEF S!Next, S!Producer
<1>3. ASSUME NEW slice \in Slice, EnqueueSlice(s, slice) PROVE OneProducer' /\ S!Next
  BY <1>2, <1>3 DEF Slice
<1> QED
  BY <1>1, <1>3

(* Writing a slot copies the ring's next byte in. *)
LEMMA WriteCopies ==
  ASSUME OneProducer, S!IInv, NEW s \in Sender, WriteSlot(s)
  PROVE  OneProducer' /\ S!Next
<1> DEFINE mine == sending[s]
<1> USE RingFacts, RustSyncAssumption
<1>1. mine.items \in Seq(Item) /\ mine.done \in Nat /\ mine.done < Len(mine.items)
  BY DEF WriteSlot, OneProducer
<1>2. s \in Busy /\ s \in admitted /\ mine.at = queueHead
  <2>1. mine # Nothing
    BY <1>1 DEF Nothing
  <2> QED
    BY <2>1 DEF Busy, OneProducer
<1>3. Call = mine
  BY <1>2, CallOfAdmitted
<1>4. sending' = [sending EXCEPT ![s].done = mine.done + 1]
      /\ UNCHANGED <<locked, admitted, queueHead, queueTail, wanted, got, received>>
  BY DEF WriteSlot, receiveVars
<1>5. sending' \in [Sender -> [items : Seq(Item), at : Nat, done : Nat]]
      /\ sending'[s] = [items |-> mine.items, at |-> mine.at, done |-> mine.done + 1]
  <2> DEFINE next == [items |-> mine.items, at |-> mine.at, done |-> mine.done + 1]
  <2>1. sending[s] \in [items : Seq(Item), at : Nat, done : Nat]
    BY DEF OneProducer
  <2>2. next \in [items : Seq(Item), at : Nat, done : Nat]
    BY <1>1, <2>1
  <2>3. [sending[s] EXCEPT !.done = mine.done + 1] = next
    <3>1. PICK i \in Seq(Item), a \in Nat, d \in Nat :
            sending[s] = [items |-> i, at |-> a, done |-> d]
      BY <2>1
    <3>2. mine.items = i /\ mine.at = a /\ mine.done = d
      BY <3>1
    <3> HIDE DEF mine
    <3>3. next = [items |-> i, at |-> a, done |-> mine.done + 1]
      BY <3>2
    <3> QED
      BY <3>1, <3>3
  <2>4. sending' = [sending EXCEPT ![s] = next]
    BY <1>4, <2>3
  <2> HIDE DEF next
  <2>5. sending' \in [Sender -> [items : Seq(Item), at : Nat, done : Nat]] /\ sending'[s] = next
    BY <2>2, <2>4 DEF OneProducer
  <2> QED
    BY <2>5 DEF next
<1>6. ASSUME NEW t \in Busy' PROVE t = s
  BY <1>2, <1>4 DEF Busy, OneProducer
<1>7. OneProducer'
  <2>1. \A t \in Busy' : /\ t \in admitted' /\ sending'[t].at = queueHead'
                         /\ sending'[t].items # <<>>
                         /\ sending'[t].done <= Len(sending'[t].items)
    <3>1. mine.items # <<>> /\ mine.done + 1 <= Len(mine.items)
      BY <1>1, <1>2 DEF OneProducer
    <3> QED
      BY <1>2, <1>4, <1>5, <1>6, <3>1
  <2> QED
    BY <1>4, <1>5, <2>1 DEF OneProducer
<1>8. Call' = [items |-> mine.items, at |-> mine.at, done |-> mine.done + 1]
  BY <1>2, <1>4, <1>5, <1>7, CallOfAdmittedNext
<1>9. Index(queueHead + mine.done) = S!ChunkSlot(queueHead, mine.done + 1)
  <2>1. mine.done \in 0 .. QueueCapacity - 1
    BY <1>1, <1>3
  <2> QED
    BY <2>1, MaskFindsSlot
<1> HIDE DEF mine
<1>10. S!CopyIn(mine.done + 1)
  <2>1. mine.done + 1 \in Call.done + 1 .. Len(Call.items)
    BY <1>1, <1>3
  <2>2. storage' = [storage EXCEPT ![S!ChunkSlot(queueHead, mine.done + 1)]
                                     = Call.items[mine.done + 1]]
    BY <1>2, <1>3, <1>9 DEF WriteSlot, mine
  <2>3. Call'.done + 1 .. Len(Call'.items)
          = (Call.done + 1 .. Len(Call.items)) \ {mine.done + 1}
    BY <1>1, <1>3, <1>8
  <2>4. Call'.items = Call.items /\ Out' = Out
    BY <1>3, <1>4, <1>8 DEF Out
  <2> QED
    BY <1>4, <2>1, <2>2, <2>3, <2>4 DEF S!CopyIn, S!cvars
<1>11. mine.done + 1 \in Call.done + 1 .. Len(Call.items)
  BY <1>1, <1>3
<1> QED
  BY <1>7, <1>10, <1>11 DEF S!Next, S!Producer

(* The store of head publishes the whole call. *)
LEMMA StorePublishes ==
  ASSUME OneProducer, S!IInv, NEW s \in Sender, StoreHead(s)
  PROVE  OneProducer' /\ S!Next
<1> DEFINE mine == sending[s]
<1> USE RingFacts, RustSyncAssumption
<1>1. s \in Busy /\ s \in admitted /\ mine.at = queueHead /\ mine.items # <<>>
      /\ mine.items \in Seq(Item) /\ mine.done = Len(mine.items)
  BY DEF StoreHead, Busy, OneProducer
<1>2. Call = mine
  BY <1>1, CallOfAdmitted
<1>3. sending' = [sending EXCEPT ![s] = Nothing]
      /\ UNCHANGED <<locked, admitted, queueTail, wanted, got, received, storage>>
  BY DEF StoreHead, receiveVars
<1>4. Busy' = {}
  <2>1. ASSUME NEW t \in Sender, sending'[t] # Nothing PROVE FALSE
    <3>1. t # s /\ sending'[t] = sending[t]
      BY <1>3, <2>1 DEF OneProducer
    <3>2. t \in admitted
      BY <2>1, <3>1 DEF Busy, OneProducer
    <3> QED
      BY <1>1, <3>1, <3>2 DEF OneProducer
  <2> QED
    BY <2>1 DEF Busy
<1>5. OneProducer'
  <2>1. Nothing \in [items : Seq(Item), at : Nat, done : Nat]
    BY DEF Nothing
  <2>2. sending' \in [Sender -> [items : Seq(Item), at : Nat, done : Nat]]
    BY <1>3, <2>1 DEF OneProducer
  <2> QED
    BY <1>3, <1>4, <2>2 DEF OneProducer
<1>6. Call' = Nothing
  BY <1>4 DEF Call
<1>7. queueHead' = S!Plus(queueHead, Len(Call.items))
  <2>1. Len(Call.items) \in 0 .. QueueCapacity
    BY <1>1, <1>2
  <2>2. queueHead' = Ahead(queueHead, Len(Call.items))
    BY <1>1, <1>2 DEF StoreHead
  <2> QED
    BY <2>1, <2>2, WrappingArithmetic
<1>8. S!Publish
  <2>1. Call.items # <<>> /\ Call.done + 1 .. Len(Call.items) = {}
    BY <1>1, <1>2
  <2>2. Call'.items = <<>> /\ Call'.done + 1 .. Len(Call'.items) = {}
    BY <1>6 DEF Nothing
  <2>3. Out' = Out
    BY <1>3 DEF Out
  <2> QED
    BY <1>3, <1>7, <2>1, <2>2, <2>3 DEF S!Publish, S!PIdle, S!cvars
<1> QED
  BY <1>5, <1>8 DEF S!Next, S!Producer

(* The receiver's accesses are those of the ring's consumer. *)
LEMMA DequeueStarts ==
  ASSUME OneProducer, S!IInv, NEW n \in 1 .. SliceLimit, Dequeue(n)
  PROVE  OneProducer' /\ S!Next
<1> USE RingFacts, RustSyncAssumption
<1>1. wanted = 0 /\ Len(got) = 0 /\ InQueue \in Nat /\ InQueue > 0
  BY DEF Dequeue, OneProducer
<1>2. UNCHANGED <<locked, admitted, queueHead, sending, queueTail, got, received, storage>>
  BY DEF Dequeue, sendVars
<1>3. Busy' = Busy /\ Call' = Call
  BY <1>2 DEF Busy, Call
<1>4. wanted' = S!Least(n, S!Count) /\ wanted' \in Nat /\ wanted' > 0
  BY <1>1 DEF Dequeue, S!Least
<1>5. OneProducer'
  BY <1>1, <1>2, <1>3, <1>4 DEF OneProducer
<1>6. Out = <<>>
  BY <1>1 DEF Out
<1>7. Out' = [k \in 1 .. wanted' |-> NoItem]
  BY <1>1, <1>2, <1>4 DEF Out
<1>8. S!StartTake(wanted')
  <2>1. Len(got') + 1 .. wanted' = 1 .. wanted'
    BY <1>1, <1>2
  <2> QED
    BY <1>2, <1>3, <1>7, <2>1 DEF S!StartTake, S!pvars
<1>9. S!Read(n)
  BY <1>4, <1>6, <1>8 DEF S!Read, S!CIdle
<1> QED
  BY <1>5, <1>9 DEF S!Next, S!Consumer

(* A slot read is a byte copied out. *)
LEMMA ReadCopies == ASSUME OneProducer, S!IInv, ReadSlot PROVE OneProducer' /\ S!Next
<1> DEFINE k == Len(got)
           x == storage[Index(queueTail + k)]
<1> USE RingFacts, RustSyncAssumption
<1>1. k \in 0 .. QueueCapacity - 1 /\ k < wanted /\ wanted \in Nat
  BY DEF ReadSlot, OneProducer
<1>2. x = storage[S!ChunkSlot(queueTail, k + 1)] /\ x \in Item
  BY <1>1, MaskFindsSlot
<1>3. UNCHANGED <<locked, admitted, queueHead, sending, queueTail, wanted, received, storage>>
  BY DEF ReadSlot, sendVars
<1>4. Busy' = Busy /\ Call' = Call
  BY <1>3 DEF Busy, Call
<1>5. got \in Seq(Item) /\ got' = Append(got, x)
  BY DEF ReadSlot, OneProducer
<1> HIDE DEF x
<1>6. got' \in Seq(Item) /\ Len(got') = k + 1
      /\ \A i \in 1 .. k + 1 : got'[i] = IF i = k + 1 THEN x ELSE got[i]
  BY <1>2, <1>5
<1> HIDE DEF k
<1>7. OneProducer'
  BY <1>1, <1>3, <1>4, <1>6 DEF OneProducer
<1>8. Out' = [Out EXCEPT ![k + 1] = x]
  <2>1. Out = [i \in 1 .. wanted |-> IF i <= k THEN got[i] ELSE NoItem]
    BY DEF Out, k
  <2>2. Out' = [i \in 1 .. wanted |-> IF i <= k + 1 THEN got'[i] ELSE NoItem]
    BY <1>3, <1>6 DEF Out
  <2>3. ASSUME NEW i \in 1 .. wanted
        PROVE  Out'[i] = IF i = k + 1 THEN x ELSE Out[i]
    BY <1>1, <1>6, <2>1, <2>2
  <2>4. Out' = [i \in 1 .. wanted |-> Out'[i]]
    BY <2>2
  <2>5. [Out EXCEPT ![k + 1] = x] = [i \in 1 .. wanted |-> IF i = k + 1 THEN x ELSE Out[i]]
    BY <2>1
  <2> QED
    BY <2>3, <2>4, <2>5
<1>9. S!CopyOut(k + 1)
  <2>1. k + 1 \in Len(got) + 1 .. wanted
        /\ Len(got') + 1 .. wanted' = (Len(got) + 1 .. wanted) \ {k + 1}
    BY <1>1, <1>3, <1>6 DEF k
  <2> QED
    BY <1>2, <1>3, <1>4, <1>8, <2>1 DEF S!CopyOut, S!pvars
<1>10. k + 1 \in Len(got) + 1 .. wanted
  BY <1>1 DEF k
<1> QED
  BY <1>7, <1>9, <1>10 DEF S!Next, S!Consumer

(* The store of tail releases all that was read. *)
LEMMA StoreReleases == ASSUME OneProducer, S!IInv, StoreTail PROVE OneProducer' /\ S!Next
<1> USE RingFacts, RustSyncAssumption
<1>1. wanted \in 1 .. QueueCapacity /\ Len(got) = wanted /\ got \in Seq(Item)
  BY DEF StoreTail, OneProducer
<1>2. /\ wanted' = 0 /\ got' = <<>> /\ received' = got
      /\ UNCHANGED <<locked, admitted, queueHead, sending, storage>>
  BY DEF StoreTail, sendVars
<1>3. Busy' = Busy /\ Call' = Call
  BY <1>2 DEF Busy, Call
<1>4. OneProducer'
  BY <1>2, <1>3 DEF OneProducer
<1>5. Out = got /\ Len(Out) = wanted
  BY <1>1 DEF Out
<1>6. Out' = <<>>
  BY <1>2 DEF Out
<1>7. queueTail' = S!Plus(queueTail, wanted)
  BY <1>1, WrappingArithmetic DEF StoreTail
<1>8. Len(got) + 1 .. wanted = {} /\ Len(got') + 1 .. wanted' = {} /\ Out # <<>>
  BY <1>1, <1>2, <1>5
<1>9. S!Release
  BY <1>2, <1>3, <1>5, <1>6, <1>7, <1>8 DEF S!Release, S!CIdle, S!pvars
<1> QED
  BY <1>4, <1>9 DEF S!Next, S!Consumer

(* Whichever sender and receiver move, the ring of one producer moves, or   *)
(* nothing of it does.                                                     *)
LEMMA QueueSteps ==
  ASSUME OneProducer, S!IInv, [QueueNext]_queueVars
  PROVE  OneProducer' /\ [S!Next]_(S!vars)
<1>1. CASE TryDequeue
  <2>1. 1 \in 1 .. SliceLimit
    BY RustSyncAssumption
  <2> QED
    BY <1>1, <2>1, DequeueStarts DEF TryDequeue
<1>2. CASE UNCHANGED queueVars
  BY <1>2 DEF queueVars, sendVars, receiveVars, OneProducer, Busy, Call, Out,
              S!vars, S!pvars, S!cvars
<1> QED
  BY <1>1, <1>2, LockSteps, EnqueueStarts, WriteCopies, StorePublishes, DequeueStarts,
     ReadCopies, StoreReleases DEF QueueNext, DequeueSlice

(* The lock's invariant and the ring's hold together. *)
LEMMA QueueInvariant == QueueSpec => [](OneProducer /\ S!IInv)
<1>1. S!Init => S!IInv
  BY S!InitInv, QueueConstants
<1>2. S!IInv /\ [S!Next]_(S!vars) => S!IInv'
  BY S!NextInv, QueueConstants DEF S!vars
<1>3. OneProducer /\ S!IInv /\ [QueueNext]_queueVars => OneProducer' /\ [S!Next]_(S!vars)
  BY QueueSteps
<1> QED
  BY QueueStarts, <1>1, <1>2, <1>3, PTL DEF QueueSpec

(* With a lock around their calls any number of senders are one producer:  *)
(* for every capacity, range of the counters and length of slices the Rust *)
(* queue of zero-sync is the ring of spsc.c.                               *)
THEOREM LockedSendersAreOne == QueueSpec => S!Spec
<1>1. OneProducer /\ S!IInv /\ [QueueNext]_queueVars => [S!Next]_(S!vars)
  BY QueueSteps
<1> QED
  BY QueueStarts, QueueInvariant, <1>1, PTL DEF QueueSpec, S!Spec

(* The queue as the ring has it is the queue as the crate has it. *)
LEMMA SameQueue ==
  ASSUME OneProducer, S!IInv
  PROVE  S!Queue = QueueNow
<1> USE RingFacts, RustSyncAssumption
<1>1. ASSUME NEW i \in 1 .. InQueue
      PROVE  S!SlotOf(S!Plus(queueTail, i - 1)) = Index(queueTail + i - 1)
  <2>1. i - 1 \in 0 .. QueueCapacity - 1 /\ i - 1 + 1 = i /\ queueTail \in Nat
    BY DEF S!Counter
  <2>2. S!SlotOf(S!Plus(queueTail, i - 1)) = S!ChunkSlot(queueTail, i - 1 + 1)
    BY <2>1, S!SlotOfPlus, QueueConstants
  <2>3. Index(queueTail + (i - 1)) = S!ChunkSlot(queueTail, i - 1 + 1)
    BY <2>1, MaskFindsSlot
  <2>4. queueTail + i - 1 = queueTail + (i - 1)
    BY <2>1
  <2> QED
    BY <2>2, <2>3, <2>4
<1> QED
  BY <1>1 DEF S!Queue, QueueNow

(* Senders that enqueue only when try_lock let them in share the queue as   *)
(* if it had one producer: items come out whole, once and in the order of  *)
(* the stores of head (lib.rs of zero-sync, whose SpscQueue is Sync).      *)
THEOREM LockedQueueIsFifo == QueueSpec => RustQueueIsFifo
<1>1. S!Init => S!F!Init
  BY S!StartsEmpty, QueueConstants
<1>2. S!IInv /\ S!IInv' /\ [S!Next]_(S!vars)
        => [S!F!Next]_<<S!Queue, Call.items, received>>
  BY S!StepsShow, QueueConstants DEF S!vars
<1>3. OneProducer /\ S!IInv => S!Queue = QueueNow
  BY SameQueue
<1>4. (OneProducer /\ S!IInv)' => (S!Queue = QueueNow)'
  BY <1>3, PTL
<1>5. QueueInit /\ OneProducer /\ S!IInv => Shared!Init
  BY QueueStarts, <1>1, <1>3 DEF S!F!Init, Shared!Init, QueueNow
<1>6. /\ OneProducer /\ S!IInv /\ (OneProducer /\ S!IInv)'
      /\ [QueueNext]_queueVars
      => [Shared!Next]_<<QueueNow, Call.items, received>>
  <2> SUFFICES ASSUME OneProducer, S!IInv, (OneProducer /\ S!IInv)', [QueueNext]_queueVars
               PROVE  [Shared!Next]_<<QueueNow, Call.items, received>>
    OBVIOUS
  <2>1. [S!Next]_(S!vars)
    BY QueueSteps
  <2>2. S!Queue = QueueNow /\ S!Queue' = QueueNow'
    BY <1>3, <1>4
  <2>3. [S!F!Next]_<<S!Queue, Call.items, received>>
    BY <1>2, <2>1
  <2> QED
    BY <2>2, <2>3 DEF S!F!Next, S!F!Offer, S!F!Put, S!F!Take,
       Shared!Next, Shared!Offer, Shared!Put, Shared!Take, QueueNow
<1> QED
  BY QueueInvariant, <1>5, <1>6, PTL DEF QueueSpec, RustQueueIsFifo, Shared!Spec, QueueNow
-----------------------------------------------------------------------------
(* The counter that wraps stays in its range. *)
LEMMA MilliInRange ==
  ASSUME NEW n \in 0 .. Range - 1 PROVE (n + 1) % Range \in 0 .. Range - 1
  BY WatchdogAssumption

(* fw_wdt_init. *)
LEMMA WdtInitInv == WdtInit => WdtTypeOK /\ KickInv /\ BeatInv
<1> SUFFICES ASSUME WdtInit PROVE WdtTypeOK /\ KickInv /\ BeatInv
  OBVIOUS
<1>1. masked \in BOOLEAN /\ supervisor \in BOOLEAN
  BY Zenon DEF WdtInit
<1> QED
  BY <1>1, WatchdogAssumption DEF WdtInit, WdtTypeOK, KickInv, BeatInv, NoTask

(* The deployment is chosen once. *)
LEMMA DeploymentFixed == [WdtNext]_wdtVars => UNCHANGED deployment
  BY DEF WdtNext, Finish, wdtVars, deployment, Tick, RegisterTask, UnregisterTask, Heartbeat,
         IsrHeartbeat, StoreSet, StoreClear, Service, Kick, Reset, Wait, ServiceTask

(* No call, no interrupt and no tick breaks a type. *)
LEMMA WdtNextType == WdtTypeOK /\ [WdtNext]_wdtVars => WdtTypeOK'
<1> SUFFICES ASSUME WdtTypeOK, [WdtNext]_wdtVars PROVE WdtTypeOK'
  OBVIOUS
<1>0. masked' \in BOOLEAN /\ supervisor' \in BOOLEAN
  BY DeploymentFixed, Zenon DEF WdtTypeOK, deployment
<1> USE WatchdogAssumption, <1>0
    DEF WdtTypeOK, Goes, Task, NoTask, deployment, local, history
<1>1. CASE Tick  BY <1>1, MilliInRange DEF Tick, NextMilli
<1>2. ASSUME NEW t \in Task, RegisterTask(t) PROVE WdtTypeOK'
  BY <1>2 DEF RegisterTask
<1>3. ASSUME NEW t \in Task, UnregisterTask(t) PROVE WdtTypeOK'
  BY <1>3 DEF UnregisterTask
<1>4. ASSUME NEW t \in MainTask, Heartbeat(t) PROVE WdtTypeOK'
  BY <1>4 DEF Heartbeat
<1>5. ASSUME NEW t \in IsrTask, IsrHeartbeat(t) PROVE WdtTypeOK'
  BY <1>5 DEF IsrHeartbeat
<1>6. CASE StoreSet  BY <1>6 DEF StoreSet
<1>7. CASE StoreClear  BY <1>7 DEF StoreClear
<1>8. CASE Service  BY <1>8 DEF Service, Starving
<1>9. CASE Kick  BY <1>9 DEF Kick, Feed
<1>10. CASE Reset  BY <1>10 DEF Reset
<1>11. CASE Wait  BY <1>11 DEF Wait, WindowOver
<1>12. CASE ServiceTask  BY <1>12 DEF ServiceTask, Feed, Starving, WindowOver
<1>13. CASE UNCHANGED wdtVars  BY <1>13 DEF wdtVars
<1> QED
  BY <1>1, <1>2, <1>3, <1>4, <1>5, <1>6, <1>7, <1>8, <1>9, <1>10, <1>11, <1>12, <1>13 DEF WdtNext, Finish

(* At every kick all registered tasks have reported: only a preempting      *)
(* supervision task without masked interrupts could see it otherwise.       *)
LEMMA WdtNextKick == WdtTypeOK /\ KickInv /\ [WdtNext]_wdtVars => KickInv'
<1> SUFFICES ASSUME WdtTypeOK, KickInv, [WdtNext]_wdtVars, Protected' PROVE KickInv'
  BY DEF KickInv
<1>a. masked' = masked /\ supervisor' = supervisor
  BY DeploymentFixed DEF deployment
<1>0. Protected
  BY <1>a, Zenon DEF Protected
<1> USE <1>a, <1>0 DEF KickInv, Protected, WdtTypeOK, Goes, NoTask, deployment, local, history
<1>1. CASE Tick  BY <1>1 DEF Tick, NextMilli
<1>2. ASSUME NEW t \in Task, RegisterTask(t) PROVE KickInv'
  BY <1>2 DEF RegisterTask
<1>3. ASSUME NEW t \in Task, UnregisterTask(t) PROVE KickInv'
  BY <1>3 DEF UnregisterTask
<1>4. ASSUME NEW t \in MainTask, Heartbeat(t) PROVE KickInv'
  BY <1>4 DEF Heartbeat
<1>5. ASSUME NEW t \in IsrTask, IsrHeartbeat(t) PROVE KickInv'
  BY <1>5 DEF IsrHeartbeat
<1>6. CASE StoreSet  BY <1>6 DEF StoreSet
<1>7. CASE StoreClear  BY <1>7 DEF StoreClear
<1>8. CASE Service  BY <1>8 DEF Service, Starving
<1>9. CASE Kick  BY <1>9 DEF Kick, Feed
<1>10. CASE Reset  BY <1>10 DEF Reset
<1>11. CASE Wait  BY <1>11 DEF Wait, WindowOver
<1>12. CASE ServiceTask  BY <1>12 DEF ServiceTask, Feed, Starving, WindowOver
<1>13. CASE UNCHANGED wdtVars  BY <1>13 DEF wdtVars
<1> QED
  BY <1>1, <1>2, <1>3, <1>4, <1>5, <1>6, <1>7, <1>8, <1>9, <1>10, <1>11, <1>12, <1>13 DEF WdtNext, Finish

(* A heartbeat between two calls of the main thread reaches the mask. *)
LEMMA WdtNextBeat == WdtTypeOK /\ BeatInv /\ [WdtNext]_wdtVars => BeatInv'
<1> SUFFICES ASSUME WdtTypeOK, BeatInv, [WdtNext]_wdtVars, masked' PROVE BeatInv'
  BY DEF BeatInv
<1>0. masked
  BY DeploymentFixed DEF deployment
<1> USE <1>0 DEF BeatInv, WdtTypeOK, Goes, NoTask, deployment, local, history
<1>1. CASE Tick  BY <1>1 DEF Tick, NextMilli
<1>2. ASSUME NEW t \in Task, RegisterTask(t) PROVE BeatInv'
  BY <1>2 DEF RegisterTask
<1>3. ASSUME NEW t \in Task, UnregisterTask(t) PROVE BeatInv'
  BY <1>3 DEF UnregisterTask
<1>4. ASSUME NEW t \in MainTask, Heartbeat(t) PROVE BeatInv'
  BY <1>4 DEF Heartbeat
<1>5. ASSUME NEW t \in IsrTask, IsrHeartbeat(t) PROVE BeatInv'
  BY <1>5 DEF IsrHeartbeat
<1>6. CASE StoreSet  BY <1>6 DEF StoreSet
<1>7. CASE StoreClear  BY <1>7 DEF StoreClear
<1>8. CASE Service  BY <1>8 DEF Service, Starving
<1>9. CASE Kick  BY <1>9 DEF Kick, Feed
<1>10. CASE Reset  BY <1>10 DEF Reset
<1>11. CASE Wait  BY <1>11 DEF Wait, WindowOver
<1>12. CASE ServiceTask  BY <1>12 DEF ServiceTask, Feed, Starving, WindowOver
<1>13. CASE UNCHANGED wdtVars  BY <1>13 DEF wdtVars
<1> QED
  BY <1>1, <1>2, <1>3, <1>4, <1>5, <1>6, <1>7, <1>8, <1>9, <1>10, <1>11, <1>12, <1>13 DEF WdtNext, Finish

(* The masks hold tasks and the times stay in the range of the counter,     *)
(* wherever an interrupt or the supervisor falls between a load of          *)
(* reported_mask and its store.                                            *)
THEOREM WdtTypeCorrect == WdtSpec => []WdtTypeOK
  BY WdtInitInv, WdtNextType, PTL DEF WdtSpec

(* hw_kick_fn is called only when every registered task has reported since  *)
(* it was last called, from a superloop or, with interrupts masked, from a  *)
(* supervision task that preempts the main thread.                          *)
THEOREM KicksAreJustified == WdtSpec => []KickJustified
<1>1. KickInv => KickJustified
  BY DEF KickInv, KickJustified
<1> QED
  BY <1>1, WdtInitInv, WdtNextType, WdtNextKick, PTL DEF WdtSpec

(* With interrupts masked during the main thread's calls, no heartbeat of   *)
(* an ISR and no heartbeat of the main thread is lost.                      *)
THEOREM HeartbeatsAreKept == WdtSpec => []BeatsKept
<1>1. BeatInv => BeatsKept
  BY DEF BeatInv, BeatsKept
<1> QED
  BY <1>1, WdtInitInv, WdtNextType, WdtNextBeat, PTL DEF WdtSpec
=============================================================================
