----------------------------- MODULE SpscProofs -----------------------------
(***************************************************************************)
(* Proofs about Spsc for every capacity, counter range and byte set.       *)
(*                                                                         *)
(* The one non-linear fact is SlotOfPlus: because Capacity divides         *)
(* Modulus, walking d slots on from a counter lands where the two memcpy   *)
(* chunks put byte d + 1, also across the wrap of the counter.  Everything *)
(* else is linear arithmetic on Plus and Minus.                            *)
(***************************************************************************)
EXTENDS Spsc, SequenceTheorems, TLAPS

(* Division with remainder is unique. *)
LEMMA RemainderUnique ==
  ASSUME NEW n \in Nat \ {0}, NEW a \in Nat, NEW q \in Nat, NEW r \in 0 .. n - 1,
         a = (n * q) + r
  PROVE  a % n = r
<1> DEFINE p == a \div n
           s == a % n
<1>1. p \in Nat /\ s \in 0 .. n - 1 /\ a = (n * p) + s
  BY SMT
<1> HIDE DEF p, s
<1>2. n * (p - q) = r - s
  BY <1>1
<1>3. p - q >= 1 => n * (p - q) >= n
  BY <1>1
<1>4. p - q <= -1 => n * (p - q) <= -n
  BY <1>1
<1>5. p = q
  BY <1>1, <1>2, <1>3, <1>4
<1>6. s = r
  BY <1>5, <1>1
<1> QED  BY <1>6 DEF s

(* SlotOf always names a slot. *)
LEMMA SlotOfType == \A c \in Counter : SlotOf(c) \in Slots
  BY SpscAssumption, SMT DEF Counter, Slots, SlotOf

(* d slots on from counter c, with the counter's wrap, is byte d + 1 of a
   chunk that starts at c: masking the counter and splitting the copy in two
   agree. *)
LEMMA SlotOfPlus ==
  ASSUME NEW c \in Counter, NEW d \in 0 .. Capacity - 1
  PROVE  SlotOf(Plus(c, d)) = ChunkSlot(c, d + 1)
<1> DEFINE C == Capacity
           q == c \div C
           r == c % C
           m == Modulus \div C
<1>1. C \in Nat \ {0} /\ Modulus \in Nat /\ Modulus > C /\ Modulus % C = 0
  BY SpscAssumption
<1>2. c \in Nat /\ c < Modulus /\ d \in Nat /\ d < C
  BY <1>1 DEF Counter
<1>3. q \in Nat /\ r \in 0 .. C - 1 /\ c = (C * q) + r
  BY <1>1, <1>2, SMT
<1>4. m \in Nat /\ Modulus = C * m
  <2>1. m \in Nat /\ Modulus = (C * m) + (Modulus % C)
    BY <1>1, SMT
  <2> QED  BY <2>1, <1>1
<1>5. SlotOf(c) = r
  BY DEF SlotOf
<1> HIDE DEF C, q, r, m
<1>6. CASE c + d < Modulus
  <2>1. Plus(c, d) = c + d
    BY <1>2, <1>6, <1>1 DEF Plus
  <2>2. CASE r + d < C
    <3>1. (c + d) % C = r + d
      <4>1. c + d = (C * q) + (r + d) /\ r + d \in 0 .. C - 1 /\ c + d \in Nat
        BY <1>1, <1>2, <1>3, <2>2
      <4> QED  BY <4>1, <1>1, <1>3, RemainderUnique
    <3> QED  BY <3>1, <2>1, <1>5, <2>2, <1>2, <1>3, <1>1 DEF ChunkSlot, SlotOf, C
  <2>3. CASE ~(r + d < C)
    <3>1. (c + d) % C = r + d - C
      <4>1. c + d = (C * (q + 1)) + (r + d - C)
        BY <1>1, <1>2, <1>3
      <4>2. r + d - C \in 0 .. C - 1 /\ c + d \in Nat /\ q + 1 \in Nat
        BY <1>1, <1>2, <1>3, <2>3
      <4> QED  BY <4>1, <4>2, <1>1, RemainderUnique
    <3> QED  BY <3>1, <2>1, <1>5, <2>3, <1>2, <1>3, <1>1 DEF ChunkSlot, SlotOf, C
  <2> QED  BY <2>2, <2>3
<1>7. CASE ~(c + d < Modulus)
  <2>1. Plus(c, d) = c + d - Modulus
    BY <1>2, <1>7, <1>1 DEF Plus
  <2>2. q = m - 1
    <3>1. C * (m - q) = Modulus - c + r
      BY <1>1, <1>2, <1>3, <1>4
    <3>2. m - q >= 2 => C * (m - q) >= C + C
      BY <1>1, <1>3, <1>4
    <3>3. m - q <= 0 => C * (m - q) <= 0
      BY <1>1, <1>3, <1>4
    <3> QED  BY <3>1, <3>2, <3>3, <1>1, <1>2, <1>3, <1>4, <1>7
  <2>3. c - Modulus = r - C
    BY <2>2, <1>1, <1>2, <1>3, <1>4
  <2>4. Plus(c, d) = r + d - C /\ r + d - C \in 0 .. C - 1
    BY <2>1, <2>3, <1>1, <1>2, <1>3, <1>7
  <2>5. (r + d - C) % C = r + d - C
    <3>1. r + d - C = (C * 0) + (r + d - C) /\ r + d - C \in Nat
      BY <2>4, <1>1, <1>2, <1>3
    <3> QED  BY <3>1, <2>4, <1>1, RemainderUnique
  <2> QED  BY <2>4, <2>5, <1>5, <1>2, <1>3, <1>1 DEF ChunkSlot, SlotOf, C
<1> QED  BY <1>6, <1>7
-----------------------------------------------------------------------------
(* Two of the first Capacity positions of a chunk never share a slot. *)
LEMMA ChunkSlotInjective ==
  ASSUME NEW c \in Counter, NEW i \in 1 .. Capacity, NEW j \in 1 .. Capacity
  PROVE  /\ ChunkSlot(c, i) \in Slots
         /\ ChunkSlot(c, i) = ChunkSlot(c, j) => i = j
<1>1. SlotOf(c) \in Slots
  BY SlotOfType
<1> QED  BY <1>1, SpscAssumption DEF ChunkSlot, Slots

(* Counters a and b modulo Modulus: Minus undoes Plus, and Plus adds up. *)
LEMMA CounterArithmetic ==
  ASSUME NEW a \in Counter, NEW b \in Counter,
         NEW m \in 0 .. Capacity, NEW n \in 0 .. Capacity
  PROVE  /\ Minus(a, b) \in Counter
         /\ Plus(a, n) \in Counter
         /\ Plus(b, Minus(a, b)) = a
         /\ Minus(a, b) + n <= Capacity => Minus(Plus(a, n), b) = Minus(a, b) + n
         /\ n <= Minus(a, b) => Minus(a, Plus(b, n)) = Minus(a, b) - n
         /\ m + n <= Capacity => Plus(Plus(a, m), n) = Plus(a, m + n)
  BY SpscAssumption DEF Counter, Plus, Minus

(* Minus of two counters is a counter. *)
LEMMA MinusType == \A a, b \in Counter : Minus(a, b) \in Counter
  BY SpscAssumption DEF Counter, Minus

(* The lengths the invariant speaks of are naturals up to Capacity. *)
LEMMA LengthsBounded ==
  ASSUME TypeOK, RoomForCalls
  PROVE  /\ Count \in 0 .. Capacity
         /\ Len(pSrc) \in 0 .. Capacity
         /\ Len(cOut) \in 0 .. Count
<1>1. Count \in Counter
  BY MinusType DEF TypeOK, Count
<1>2. Count \in Nat /\ Len(pSrc) \in Nat /\ Len(cOut) \in Nat /\ Capacity \in Nat
  BY <1>1, SpscAssumption DEF TypeOK, Counter
<1> QED  BY <1>2 DEF RoomForCalls

(* Byte k of a chunk that starts n positions after counter c has the slot of
   position n + k of a chunk that starts at c. *)
LEMMA ShiftedSlot ==
  ASSUME NEW c \in Counter, NEW n \in 0 .. Capacity, NEW k \in 1 .. Capacity,
         n + k <= Capacity
  PROVE  ChunkSlot(Plus(c, n), k) = ChunkSlot(c, n + k)
<1>1. Plus(c, n) \in Counter /\ Plus(Plus(c, n), k - 1) = Plus(c, n + k - 1)
  BY SpscAssumption DEF Counter, Plus
<1>2. ChunkSlot(Plus(c, n), k) = SlotOf(Plus(Plus(c, n), k - 1))
  <2>1. k - 1 \in 0 .. Capacity - 1 /\ k - 1 + 1 = k
    BY SpscAssumption
  <2> QED  BY <1>1, <2>1, SlotOfPlus
<1>3. ChunkSlot(c, n + k) = SlotOf(Plus(c, n + k - 1))
  <2>1. n + k - 1 \in 0 .. Capacity - 1 /\ n + k - 1 + 1 = n + k
    BY SpscAssumption
  <2> QED  BY <2>1, SlotOfPlus
<1> QED  BY <1>1, <1>2, <1>3
-----------------------------------------------------------------------------
(* The next byte to take is at tail, the next to put is Count after it: seen
   from tail, a put in progress lies right behind the queue. *)
LEMMA PutBehindQueue ==
  ASSUME TypeOK, RoomForCalls, NEW k \in 1 .. Len(pSrc)
  PROVE  /\ Count + k \in 1 .. Capacity
         /\ Count \in 0 .. Capacity
         /\ ChunkSlot(head, k) = ChunkSlot(tail, Count + k)
<1>1. /\ head \in Counter /\ tail \in Counter /\ Len(pSrc) \in Nat
      /\ Capacity \in Nat
  BY SpscAssumption DEF TypeOK
<1>2. Count \in Counter /\ Plus(tail, Count) = head
  BY <1>1, CounterArithmetic, SpscAssumption DEF Count
<1>3. /\ Count \in 0 .. Capacity /\ k \in 1 .. Capacity
      /\ Count + k <= Capacity
  BY <1>1, <1>2 DEF RoomForCalls, Counter
<1>4. ChunkSlot(Plus(tail, Count), k) = ChunkSlot(tail, Count + k)
  BY <1>1, <1>3, ShiftedSlot
<1> QED  BY <1>2, <1>3, <1>4, <1>1

(* The slot of a byte still to be put is none of the queue's. *)
THEOREM SlotsDisjoint == IInv => NoSharedSlot
<1> SUFFICES ASSUME IInv, NEW k \in pTodo, NEW j \in cTodo
             PROVE  ChunkSlot(head, k) # ChunkSlot(tail, j)
  BY DEF NoSharedSlot
<1>1. k \in 1 .. Len(pSrc) /\ j \in 1 .. Len(cOut)
  BY DEF IInv, TypeOK
<1>2. /\ Count + k \in 1 .. Capacity /\ Count \in 0 .. Capacity
      /\ ChunkSlot(head, k) = ChunkSlot(tail, Count + k)
  BY <1>1, PutBehindQueue DEF IInv
<1>3. j \in 1 .. Capacity /\ Count + k # j
  BY <1>1, <1>2, SpscAssumption DEF IInv, TypeOK, RoomForCalls
<1>4. tail \in Counter
  BY DEF IInv, TypeOK
<1> QED  BY <1>2, <1>3, <1>4, ChunkSlotInjective
-----------------------------------------------------------------------------
(* fw_spsc_init leaves an empty ring that satisfies the invariant. *)
LEMMA InitInv == Init => IInv
<1> SUFFICES ASSUME Init PROVE IInv
  OBVIOUS
<1>1. Count = 0 /\ Len(pSrc) = 0 /\ Len(cOut) = 0
  BY SpscAssumption DEF Init, Count, Minus
<1>2. TypeOK
  BY SpscAssumption DEF Init, TypeOK, Counter
<1>3. RoomForCalls /\ AnswersHold /\ AnswersUsed
  BY <1>1, SpscAssumption
     DEF Init, RoomForCalls, AnswersHold, AnswersUsed, Available, PIdle, CIdle
<1>4. CopiesHold
  BY <1>1 DEF Init, CopiesHold
<1> QED  BY <1>2, <1>3, <1>4 DEF IInv

(* What StartPut does to the invariant, whichever call it starts. *)
LEMMA StartPutInv ==
  ASSUME IInv, PIdle, NEW chunk \in Seq(Byte), Len(chunk) <= Available,
         chunk # <<>>, StartPut(chunk)
  PROVE  IInv'
<1> USE DEF StartPut, cvars
<1>1. TypeOK'
  BY SpscAssumption DEF IInv, TypeOK
<1>2. Count' = Count /\ Count \in Counter
  BY CounterArithmetic, SpscAssumption DEF Count, IInv, TypeOK
<1>3. RoomForCalls'
  BY <1>2, SpscAssumption DEF IInv, RoomForCalls, Available, TypeOK, Counter
<1>4. AnswersHold'
  <2>1. (CIdle => cSeen <= Count)'
    BY <1>2 DEF IInv, AnswersHold, CIdle
  <2>2. ~PIdle'
    BY DEF PIdle
  <2> QED  BY <2>1, <2>2 DEF AnswersHold
<1>5. CopiesHold'
  BY DEF IInv, CopiesHold
<1>6. AnswersUsed'
  BY DEF IInv, AnswersUsed, PIdle, CIdle
<1> QED  BY <1>1, <1>3, <1>4, <1>5, <1>6 DEF IInv

(* fw_spsc_push starts a put of one byte, for which a ring not full has room. *)
LEMMA PushInv == ASSUME IInv, NEW b \in Byte, Push(b) PROVE IInv'
<1>1. 1 <= Available
  BY LengthsBounded, SpscAssumption DEF Push, Full, Available, IInv
<1>2. <<b>> \in Seq(Byte) /\ Len(<<b>>) = 1 /\ <<b>> # <<>>
  OBVIOUS
<1> QED  BY <1>1, <1>2, StartPutInv DEF Push

(* fw_spsc_write takes no more of its span than fw_spsc_available allows. *)
LEMMA WriteInv ==
  ASSUME IInv, NEW n \in 1 .. MaxCount, NEW span \in [1 .. n -> Byte], Write(span)
  PROVE  IInv'
<1> DEFINE m == Least(Len(span), Available)
<1>1. n \in Nat /\ span \in Seq(Byte) /\ Len(span) = n
  BY SpscAssumption
<1>2. Available \in Int
  BY LengthsBounded, SpscAssumption DEF Available, IInv
<1>3. m \in 1 .. n /\ m <= Available
  BY <1>1, <1>2 DEF Write, Least
<1>4. /\ SubSeq(span, 1, m) \in Seq(Byte)
      /\ Len(SubSeq(span, 1, m)) = m
      /\ SubSeq(span, 1, m) # <<>>
  BY <1>1, <1>3
<1> HIDE DEF m
<1>5. PIdle /\ StartPut(SubSeq(span, 1, m))
  BY DEF Write, m
<1> QED  BY <1>3, <1>4, <1>5, StartPutInv

(* A byte copied in lands in a slot no take in progress reads. *)
LEMMA CopyInInv == ASSUME IInv, NEW k \in pTodo, CopyIn(k) PROVE IInv'
<1>1. k \in 1 .. Len(pSrc) /\ pSrc[k] \in Byte
  BY DEF IInv, TypeOK
<1>2. /\ Count + k \in 1 .. Capacity /\ Count \in 0 .. Capacity
      /\ ChunkSlot(head, k) = ChunkSlot(tail, Count + k)
  BY <1>1, PutBehindQueue DEF IInv
<1>3. TypeOK'
  BY <1>1 DEF CopyIn, IInv, TypeOK, cvars
<1>4. RoomForCalls' /\ AnswersHold' /\ AnswersUsed'
  BY DEF CopyIn, IInv, RoomForCalls, AnswersHold, AnswersUsed, Count, Available,
         PIdle, CIdle, cvars
<1>5. CopiesHold'
  <2>1. ASSUME NEW j \in (1 .. Len(pSrc)) \ pTodo'
        PROVE  buffer'[ChunkSlot(head, j)] = pSrc[j]
    <3>1. CASE j = k
      BY <3>1, <1>2, ChunkSlotInjective DEF CopyIn, IInv, TypeOK
    <3>2. CASE j # k
      <4>1. /\ Count + j \in 1 .. Capacity
            /\ ChunkSlot(head, j) = ChunkSlot(tail, Count + j)
        BY PutBehindQueue DEF IInv
      <4>2. ChunkSlot(head, j) # ChunkSlot(head, k)
        <5>1. Count + j # Count + k
          BY <3>2, <1>1, <1>2
        <5> QED  BY <5>1, <4>1, <1>2, ChunkSlotInjective DEF IInv, TypeOK
      <4>3. buffer[ChunkSlot(head, j)] = pSrc[j]
        BY <3>2 DEF CopyIn, IInv, CopiesHold
      <4> QED  BY <4>2, <4>3, <4>1, <1>2, ChunkSlotInjective
               DEF CopyIn, IInv, TypeOK
    <3> QED  BY <3>1, <3>2
  <2>2. ASSUME NEW j \in (1 .. Len(cOut)) \ cTodo
        PROVE  cOut[j] = buffer'[ChunkSlot(tail, j)]
    <3>1. j \in 1 .. Capacity /\ j # Count + k
      BY <1>1, <1>2, SpscAssumption DEF IInv, TypeOK, RoomForCalls
    <3>2. ChunkSlot(tail, j) # ChunkSlot(head, k)
      BY <3>1, <1>2, ChunkSlotInjective DEF IInv, TypeOK
    <3> QED  BY <3>1, <3>2, <1>2, ChunkSlotInjective
             DEF CopyIn, IInv, TypeOK, CopiesHold
  <2> QED  BY <2>1, <2>2 DEF CopiesHold, CopyIn, cvars
<1> QED  BY <1>3, <1>4, <1>5 DEF IInv

(* The store of head turns the chunk copied in into queued bytes. *)
LEMMA PublishInv == ASSUME IInv, Publish PROVE IInv'
<1> DEFINE n == Len(pSrc)
<1>1. /\ n \in 0 .. Capacity /\ Count + n <= Capacity
      /\ head \in Counter /\ tail \in Counter /\ Count \in 0 .. Capacity
  BY LengthsBounded DEF IInv, TypeOK, RoomForCalls
<1>2. head' \in Counter /\ Count' = Count + n
  BY <1>1, CounterArithmetic, SpscAssumption DEF Publish, Count
<1>3. TypeOK'
  BY <1>2 DEF Publish, IInv, TypeOK, cvars
<1>4. RoomForCalls'
  BY <1>1, <1>2 DEF Publish, IInv, RoomForCalls, TypeOK, cvars
<1>5. AnswersHold'
  <2>1. (PIdle => pSeen <= Available)'
    BY <1>1, <1>2, SpscAssumption
       DEF Publish, IInv, AnswersUsed, PIdle, Available, TypeOK
  <2>2. (CIdle => cSeen <= Count)'
    BY <1>1, <1>2 DEF Publish, IInv, AnswersHold, CIdle, TypeOK, cvars
  <2> QED  BY <2>1, <2>2 DEF AnswersHold
<1>6. CopiesHold'
  BY DEF Publish, IInv, CopiesHold, cvars
<1>7. AnswersUsed'
  BY DEF Publish, IInv, AnswersUsed, PIdle, CIdle, cvars
<1> QED  BY <1>3, <1>4, <1>5, <1>6, <1>7 DEF IInv

(* The consumer's steps, in the same order. *)
LEMMA StartTakeInv ==
  ASSUME IInv, CIdle, NEW n \in Nat, 0 < n, n <= Count, StartTake(n)
  PROVE  IInv'
<1> USE DEF StartTake, pvars
<1>1. cOut' \in Seq(Byte \cup {Unset}) /\ Len(cOut') = n
  OBVIOUS
<1>2. TypeOK'
  BY <1>1, SpscAssumption DEF IInv, TypeOK
<1>3. Count' = Count
  BY DEF Count
<1>4. RoomForCalls'
  BY <1>1, <1>3 DEF IInv, RoomForCalls
<1>5. cOut' # <<>>
  BY <1>1
<1>6. AnswersHold' /\ AnswersUsed'
  BY <1>3, <1>5 DEF IInv, AnswersHold, AnswersUsed, PIdle, CIdle, Available
<1>7. CopiesHold'
  BY <1>1 DEF IInv, CopiesHold
<1> QED  BY <1>2, <1>4, <1>6, <1>7 DEF IInv

(* fw_spsc_pop starts a take of one byte, which a ring not empty has. *)
LEMMA PopInv == ASSUME IInv, Pop PROVE IInv'
<1>1. Count \in Nat /\ 1 <= Count
  BY LengthsBounded, SpscAssumption
     DEF Pop, Empty, Count, Minus, IInv, TypeOK, Counter
<1> QED  BY <1>1, StartTakeInv DEF Pop

(* fw_spsc_read takes no more than fw_spsc_count counts. *)
LEMMA ReadInv == ASSUME IInv, NEW max \in 1 .. MaxCount, Read(max) PROVE IInv'
<1> DEFINE n == Least(max, Count)
<1>1. n \in Nat /\ n <= Count
  BY LengthsBounded, SpscAssumption DEF Least, IInv
<1>2. n > 0 /\ StartTake(n) /\ CIdle
  BY DEF Read
<1> HIDE DEF n
<1> QED  BY <1>1, <1>2, StartTakeInv

(* A byte copied out is the one its slot holds. *)
LEMMA CopyOutInv == ASSUME IInv, NEW k \in cTodo, CopyOut(k) PROVE IInv'
<1>1. k \in 1 .. Len(cOut) /\ k \in 1 .. Capacity
  BY LengthsBounded, SpscAssumption DEF IInv, TypeOK
<1>2. buffer[ChunkSlot(tail, k)] \in Byte
  BY <1>1, ChunkSlotInjective DEF IInv, TypeOK
<1>3. cOut' \in Seq(Byte \cup {Unset}) /\ Len(cOut') = Len(cOut)
  BY <1>1, <1>2 DEF CopyOut, IInv, TypeOK
<1>4. TypeOK'
  BY <1>3 DEF CopyOut, IInv, TypeOK, pvars
<1>5. Count' = Count /\ (CIdle' <=> CIdle) /\ (PIdle' <=> PIdle)
  <2>1. Len(cOut) \in Nat /\ Len(cOut) # 0 /\ Len(cOut') # 0
    BY <1>1, <1>3 DEF IInv, TypeOK
  <2>2. cOut # <<>> /\ cOut' # <<>>
    BY <2>1
  <2> QED  BY <2>2 DEF CopyOut, Count, CIdle, PIdle, pvars
<1>6. RoomForCalls' /\ AnswersHold' /\ AnswersUsed'
  BY <1>3, <1>5 DEF CopyOut, IInv, RoomForCalls, AnswersHold, AnswersUsed,
                    Available, pvars
<1>7. CopiesHold'
  BY <1>1, <1>3 DEF CopyOut, IInv, CopiesHold, TypeOK, pvars
<1> QED  BY <1>4, <1>6, <1>7 DEF IInv

(* The store of tail frees the slots of the chunk copied out. *)
LEMMA ReleaseInv == ASSUME IInv, Release PROVE IInv'
<1> DEFINE n == Len(cOut)
<1>1. /\ n \in 0 .. Capacity /\ n <= Count
      /\ head \in Counter /\ tail \in Counter /\ Count \in 0 .. Capacity
      /\ Len(pSrc) \in 0 .. Capacity /\ Capacity \in Nat
  BY LengthsBounded, SpscAssumption DEF IInv, TypeOK
<1>2. tail' \in Counter /\ Count' = Count - n
  <2>1. tail' = Plus(tail, n) /\ head' = head
    BY DEF Release
  <2> HIDE DEF n
  <2>2. Plus(tail, n) \in Counter
    BY <1>1, CounterArithmetic
  <2>3. Minus(head, Plus(tail, n)) = Minus(head, tail) - n
    <3>1. n <= Minus(head, tail)
      BY <1>1 DEF Count
    <3> QED  BY <3>1, <1>1, SpscAssumption DEF Plus, Minus, Counter
  <2> QED  BY <2>1, <2>2, <2>3 DEF Count
<1>3. cOut \in Seq(Byte)
  <2>1. ASSUME NEW k \in 1 .. n PROVE cOut[k] \in Byte
    <3>1. cOut[k] = buffer[ChunkSlot(tail, k)] /\ k \in 1 .. Capacity
      BY <1>1 DEF Release, IInv, CopiesHold
    <3> QED  BY <3>1, <1>1, ChunkSlotInjective DEF IInv, TypeOK
  <2> QED  BY <2>1 DEF IInv, TypeOK
<1>4. TypeOK'
  BY <1>2, <1>3 DEF Release, IInv, TypeOK, pvars
<1>5. RoomForCalls' /\ AnswersHold' /\ AnswersUsed'
  <2>1. Len(cOut') = 0 /\ cSeen = 0
    BY DEF Release, IInv, AnswersUsed
  <2>2. Len(pSrc') = Len(pSrc) /\ pSeen' = pSeen /\ cSeen' = cSeen
        /\ (PIdle' <=> PIdle) /\ cOut' = <<>> /\ pSeen \in Nat
    BY <1>1 DEF Release, PIdle, pvars, IInv, TypeOK
  <2>3. RoomForCalls'
    BY <1>1, <1>2, <2>1, <2>2 DEF IInv, RoomForCalls
  <2>4. AnswersHold'
    BY <1>1, <1>2, <2>1, <2>2 DEF IInv, AnswersHold, Available
  <2> QED  BY <2>1, <2>2, <2>3, <2>4 DEF IInv, AnswersUsed, CIdle
<1>6. CopiesHold'
  BY DEF Release, IInv, CopiesHold, pvars
<1> QED  BY <1>4, <1>5, <1>6 DEF IInv

(* fw_spsc_available and fw_spsc_count change no slot and no counter. *)
LEMMA AskInv == ASSUME IInv, AskAvailable \/ AskCount PROVE IInv'
<1>1. /\ Count' = Count /\ Available' = Available
      /\ (PIdle' <=> PIdle) /\ (CIdle' <=> CIdle)
  BY DEF AskAvailable, AskCount, Count, Available, PIdle, CIdle, pvars, cvars
<1>2. Count \in 0 .. Capacity /\ Available \in 0 .. Capacity
  BY LengthsBounded, SpscAssumption DEF Available, IInv
<1>3. /\ pSeen' = pSeen \/ (PIdle /\ pSeen' = Available)
      /\ cSeen' = cSeen \/ (CIdle /\ cSeen' = Count)
      /\ UNCHANGED <<head, tail, buffer, pSrc, pTodo, cOut, cTodo, taken>>
  BY DEF AskAvailable, AskCount, pvars, cvars
<1>4. TypeOK'
  BY <1>2, <1>3 DEF IInv, TypeOK
<1>5. AnswersHold' /\ AnswersUsed'
  BY <1>1, <1>2, <1>3 DEF IInv, AnswersHold, AnswersUsed
<1>6. RoomForCalls' /\ CopiesHold'
  BY <1>1, <1>3 DEF IInv, RoomForCalls, CopiesHold
<1> QED  BY <1>4, <1>5, <1>6 DEF IInv

(* IInv is inductive. *)
LEMMA NextInv == IInv /\ [Next]_vars => IInv'
<1> SUFFICES ASSUME IInv, [Next]_vars PROVE IInv'
  OBVIOUS
<1>1. CASE Producer
  BY <1>1, PushInv, WriteInv, CopyInInv, PublishInv, AskInv DEF Producer
<1>2. CASE Consumer
  BY <1>2, PopInv, ReadInv, CopyOutInv, ReleaseInv, AskInv DEF Consumer
<1>3. CASE UNCHANGED vars
  BY <1>3 DEF vars, pvars, cvars, IInv, TypeOK, RoomForCalls, AnswersHold,
              AnswersUsed, CopiesHold, Count, Available, PIdle, CIdle
<1> QED  BY <1>1, <1>2, <1>3 DEF Next

(* The ring's invariant holds in every reachable state: types, room for the
   calls in progress, answers that stay true, copies left undisturbed. *)
THEOREM InvariantHolds == Spec => []IInv
<1> QED  BY InitInv, NextInv, PTL DEF Spec

(* Counters, slots and calls in progress keep their types. *)
THEOREM TypeCorrect == Spec => []TypeOK
<1>1. IInv => TypeOK
  BY DEF IInv
<1> QED  BY <1>1, InvariantHolds, PTL

(* A put keeps its room and a take its bytes from snapshot to publication,
   and producer and consumer never touch the same slot, whatever the other
   side does and wherever the chunks wrap. *)
THEOREM SlotsStaySafe == Spec => []SlotsSafe
<1>1. IInv => SlotsSafe
  BY SlotsDisjoint DEF IInv, SlotsSafe
<1> QED  BY <1>1, InvariantHolds, PTL

(* What fw_spsc_available and fw_spsc_count said is still so when the side
   that asked starts its call. *)
THEOREM AnswersStayTrue == Spec => []AnswersHold
<1>1. IInv => AnswersHold
  BY DEF IInv
<1> QED  BY <1>1, InvariantHolds, PTL
-----------------------------------------------------------------------------
(* Spsc implements Fifo: what the abstract queue holds is read off the slots
   from tail on. *)

(* Queue is a sequence of Count bytes, byte i in the slot of position i. *)
QueueInSlots ==
  /\ Queue \in Seq(Byte)
  /\ Len(Queue) = Count
  /\ Count \in 0 .. Capacity
  /\ \A i \in 1 .. Count : Queue[i] = buffer[ChunkSlot(tail, i)]

(* The queue's bytes lie in the slots from tail on, as one chunk would. *)
LEMMA QueueElements == IInv => QueueInSlots
<1> SUFFICES ASSUME IInv PROVE QueueInSlots
  OBVIOUS
<1>1. Count \in 0 .. Capacity /\ tail \in Counter /\ Capacity \in Nat
  BY LengthsBounded, SpscAssumption DEF IInv, TypeOK
<1>2. ASSUME NEW i \in 1 .. Count
      PROVE  /\ SlotOf(Plus(tail, i - 1)) = ChunkSlot(tail, i)
             /\ buffer[ChunkSlot(tail, i)] \in Byte
  <2>1. i \in 1 .. Capacity /\ i - 1 \in 0 .. Capacity - 1 /\ i - 1 + 1 = i
    BY <1>1
  <2>2. SlotOf(Plus(tail, i - 1)) = ChunkSlot(tail, i)
    BY <2>1, <1>1, SlotOfPlus
  <2>3. ChunkSlot(tail, i) \in Slots
    BY <2>1, <1>1, ChunkSlotInjective
  <2> QED  BY <2>2, <2>3 DEF IInv, TypeOK
<1>3. Queue \in [1 .. Count -> Byte]
  BY <1>2 DEF Queue
<1>4. Queue \in Seq(Byte) /\ Len(Queue) = Count
  BY <1>1, <1>3
<1> QED  BY <1>1, <1>2, <1>4 DEF Queue, QueueInSlots

(* So they do after a step that keeps the invariant. *)
LEMMA QueueElementsNext == IInv' => QueueInSlots'
  BY QueueElements, PTL

(* A step that moves neither counter and no slot of the queue is invisible. *)
LEMMA QueueUnmoved ==
  ASSUME IInv, IInv', UNCHANGED <<head, tail>>,
         \A i \in 1 .. Count : buffer'[ChunkSlot(tail, i)] = buffer[ChunkSlot(tail, i)]
  PROVE  Queue' = Queue
<1>1. Count' = Count
  BY DEF Count
<1>2. QueueInSlots /\ QueueInSlots'
  BY QueueElements, QueueElementsNext
<1> QED  BY <1>1, <1>2, SeqEqual DEF QueueInSlots

(* Copying a byte in stays behind the queue. *)
LEMMA CopyInInvisible ==
  ASSUME IInv, IInv', NEW k \in pTodo, CopyIn(k)
  PROVE  UNCHANGED <<Queue, pSrc, taken>>
<1>1. /\ Count + k \in 1 .. Capacity /\ Count \in 0 .. Capacity
      /\ k \in 1 .. Len(pSrc)
      /\ ChunkSlot(head, k) = ChunkSlot(tail, Count + k)
  BY PutBehindQueue DEF IInv, TypeOK
<1>2. ASSUME NEW i \in 1 .. Count
      PROVE  buffer'[ChunkSlot(tail, i)] = buffer[ChunkSlot(tail, i)]
  <2>1. i \in 1 .. Capacity /\ i # Count + k
    BY <1>1, SpscAssumption
  <2>2. /\ ChunkSlot(tail, i) # ChunkSlot(head, k)
        /\ ChunkSlot(tail, i) \in Slots
    BY <2>1, <1>1, ChunkSlotInjective DEF IInv, TypeOK
  <2> QED  BY <2>2 DEF CopyIn, IInv, TypeOK
<1>3. Queue' = Queue
  BY <1>2, QueueUnmoved DEF CopyIn
<1> QED  BY <1>3 DEF CopyIn, cvars

(* Storing head appends the chunk the caller gave. *)
LEMMA PublishPuts == ASSUME IInv, IInv', Publish PROVE F!Next
<1> DEFINE n == Len(pSrc)
<1>1. QueueInSlots /\ QueueInSlots'
  BY QueueElements, QueueElementsNext
<1>2. n \in 1 .. Capacity /\ Capacity \in Nat /\ pSrc \in Seq(Byte)
  BY LengthsBounded, SpscAssumption DEF Publish, PIdle, IInv, TypeOK
<1>3. Count' = Count + n
  <2>1. head' = Plus(head, n) /\ tail' = tail /\ Count + n <= Capacity
    BY DEF Publish, IInv, RoomForCalls
  <2>2. head \in Counter /\ tail \in Counter
    BY DEF IInv, TypeOK
  <2> HIDE DEF n
  <2>3. Minus(Plus(head, n), tail) = Minus(head, tail) + n
    BY <2>1, <2>2, <1>2, SpscAssumption DEF Count, Plus, Minus, Counter
  <2> QED  BY <2>1, <2>3 DEF Count
<1>4. Len(Queue) = Count /\ Len(Queue') = Count + n /\ Count \in Nat
      /\ Queue \in Seq(Byte) /\ Queue' \in Seq(Byte) /\ Count + n <= Capacity
  BY <1>1, <1>2, <1>3 DEF QueueInSlots
<1>5. ASSUME NEW k \in 1 .. n PROVE Queue'[Count + k] = pSrc[k]
  <2>1. buffer[ChunkSlot(head, k)] = pSrc[k]
    BY <1>5 DEF Publish, IInv, CopiesHold
  <2>2. ChunkSlot(head, k) = ChunkSlot(tail, Count + k)
    BY <1>5, PutBehindQueue DEF IInv
  <2>3. Count + k \in 1 .. Count'
    BY <1>2, <1>3, <1>4, <1>5
  <2>4. Queue'[Count + k] = buffer[ChunkSlot(tail, Count + k)]
    BY <1>1, <2>3 DEF QueueInSlots, Publish
  <2> QED  BY <2>1, <2>2, <2>4
<1>6. Queue' = Queue \o pSrc
  <2> HIDE DEF n
  <2>1. \A i \in 1 .. Count : Queue'[i] = Queue[i]
    BY <1>1, <1>2, <1>3, <1>4 DEF QueueInSlots, Publish
  <2>2. /\ Queue \o pSrc \in Seq(Byte)
        /\ Len(Queue \o pSrc) = Count + n
        /\ \A i \in 1 .. Count + n : (Queue \o pSrc)[i] =
              IF i <= Count THEN Queue[i] ELSE pSrc[i - Count]
    BY <1>2, <1>4, ConcatProperties DEF n
  <2>3. \A i \in 1 .. Count + n : (Queue \o pSrc)[i] = Queue'[i]
    <3> SUFFICES ASSUME NEW i \in 1 .. Count + n
                 PROVE  (Queue \o pSrc)[i] = Queue'[i]
      OBVIOUS
    <3>1. CASE i <= Count
      BY <3>1, <2>1, <2>2, <1>4
    <3>2. CASE ~(i <= Count)
      <4>1. i - Count \in 1 .. n /\ Count + (i - Count) = i
        BY <3>2, <1>2, <1>4
      <4> QED  BY <3>2, <4>1, <2>2, <1>5
    <3> QED  BY <3>1, <3>2
  <2> QED  BY <2>2, <2>3, <1>4, SeqEqual
<1>7. pSrc # <<>> /\ pSrc' = <<>> /\ taken' = taken
  BY DEF Publish, PIdle, cvars
<1>8. F!Put
  BY <1>2, <1>4, <1>6, <1>7 DEF F!Put
<1> QED  BY <1>8 DEF F!Next

(* A call's snapshot leaves room for the chunk it settles on. *)
LEMMA StartOffers ==
  ASSUME IInv, IInv', NEW chunk, PIdle, chunk # <<>>, StartPut(chunk)
  PROVE  F!Next
<1>1. QueueInSlots /\ Count' = Count /\ Queue' = Queue
  BY QueueElements DEF StartPut, Queue, Count
<1>2. Len(Queue) + Len(pSrc') <= Capacity
  BY <1>1 DEF QueueInSlots, IInv, RoomForCalls
<1> QED  BY <1>1, <1>2 DEF F!Next, F!Offer, StartPut, PIdle, cvars

(* Storing tail removes the chunk the call returns. *)
LEMMA ReleaseTakes == ASSUME IInv, IInv', Release PROVE F!Next
<1> DEFINE n == Len(cOut)
<1>1. QueueInSlots /\ QueueInSlots'
  BY QueueElements, QueueElementsNext
<1>2. n \in 1 .. Count /\ Count \in 0 .. Capacity /\ Capacity \in Nat
  BY LengthsBounded, SpscAssumption DEF Release, CIdle, IInv, TypeOK
<1>3. tail' = Plus(tail, n) /\ head' = head /\ buffer' = buffer
  BY DEF Release
<1>4. head \in Counter /\ tail \in Counter
  BY DEF IInv, TypeOK
<1>5. \A k \in 1 .. n : cOut[k] = Queue[k]
  BY <1>1, <1>2 DEF Release, IInv, CopiesHold, QueueInSlots
<1>6. cOut \in Seq(Byte) /\ taken' = cOut
  <2>1. taken' = cOut /\ TypeOK'
    BY DEF Release, IInv
  <2> QED  BY <2>1 DEF TypeOK
<1> HIDE DEF n
<1>7. Count' = Count - n
  <2>1. Minus(head, Plus(tail, n)) = Minus(head, tail) - n
    BY <1>2, <1>4, SpscAssumption DEF Count, Plus, Minus, Counter
  <2> QED  BY <2>1, <1>3 DEF Count
<1>8. taken' = SubSeq(Queue, 1, n)
  <2>1. \A i \in 1 .. n : Queue[i] \in Byte
    BY <1>1, <1>2 DEF QueueInSlots
  <2>2. /\ SubSeq(Queue, 1, n) \in Seq(Byte) /\ Len(SubSeq(Queue, 1, n)) = n
        /\ \A i \in 1 .. n : SubSeq(Queue, 1, n)[i] = Queue[i]
    BY <2>1, <1>2, SubSeqProperties
  <2>3. Len(cOut) = n
    BY DEF n
  <2> QED  BY <2>2, <2>3, <1>5, <1>6, SeqEqual
<1>9. Queue' = SubSeq(Queue, n + 1, Len(Queue))
  <2>1. \A i \in n + 1 .. Len(Queue) : Queue[i] \in Byte
    BY <1>1, <1>2 DEF QueueInSlots
  <2>2. Len(Queue) = Count
    BY <1>1 DEF QueueInSlots
  <2>3. /\ SubSeq(Queue, n + 1, Count) \in Seq(Byte)
        /\ Len(SubSeq(Queue, n + 1, Count)) = Count - n
        /\ \A i \in 1 .. Count - n : SubSeq(Queue, n + 1, Count)[i] = Queue[n + i]
    <3> DEFINE s == SubSeq(Queue, n + 1, Count)
    <3>1. /\ s \in Seq(Byte)
          /\ Len(s) = IF n + 1 <= Count THEN Count - (n + 1) + 1 ELSE 0
          /\ \A i \in 1 .. Count - (n + 1) + 1 : s[i] = Queue[n + 1 + i - 1]
      BY <2>1, <2>2, <1>2, SubSeqProperties
    <3> HIDE DEF s
    <3>2. Len(s) = Count - n /\ Count - (n + 1) + 1 = Count - n
      BY <3>1, <1>2
    <3>3. \A i \in 1 .. Count - n : n + 1 + i - 1 = n + i
      BY <1>2
    <3>4. \A i \in 1 .. Count - n : s[i] = Queue[n + i]
      BY <3>1, <3>2, <3>3
    <3> QED  BY <3>1, <3>2, <3>4 DEF s
  <2>4. \A i \in 1 .. Count - n : Queue'[i] = Queue[n + i]
    <3> SUFFICES ASSUME NEW i \in 1 .. Count - n
                 PROVE  Queue'[i] = Queue[n + i]
      OBVIOUS
    <3>1. n + i \in 1 .. Count /\ n \in 0 .. Capacity /\ i \in 1 .. Capacity
          /\ n + i <= Capacity
      BY <1>2
    <3>2. ChunkSlot(Plus(tail, n), i) = ChunkSlot(tail, n + i)
      BY <3>1, <1>4, ShiftedSlot
    <3>3. Queue'[i] = buffer[ChunkSlot(Plus(tail, n), i)]
      BY <1>1, <1>3, <1>7 DEF QueueInSlots
    <3> QED  BY <3>1, <3>2, <3>3, <1>1 DEF QueueInSlots
  <2>5. Queue' \in Seq(Byte) /\ Len(Queue') = Count - n
    BY <1>1, <1>7 DEF QueueInSlots
  <2> QED  BY <2>2, <2>3, <2>4, <2>5, SeqEqual
<1>10. F!Take(n)
  BY <1>8, <1>9 DEF F!Take, Release, pvars
<1>11. n \in 1 .. Len(Queue)
  BY <1>1, <1>2 DEF QueueInSlots
<1> QED  BY <1>10, <1>11 DEF F!Next

(* An empty ring is an empty queue. *)
LEMMA StartsEmpty == Init => F!Init
<1> SUFFICES ASSUME Init PROVE F!Init
  OBVIOUS
<1>1. Count = 0 /\ taken = <<>>
  BY SpscAssumption DEF Init, Count, Minus
<1>2. QueueInSlots
  BY InitInv, QueueElements
<1>3. Queue = <<>>
  BY <1>1, <1>2 DEF QueueInSlots
<1> QED  BY <1>1, <1>3 DEF F!Init, Init

(* A step of the ring puts a chunk, takes one, offers one or does not show. *)
LEMMA StepsShow ==
  IInv /\ IInv' /\ [Next]_vars => [F!Next]_<<Queue, pSrc, taken>>
<1> SUFFICES ASSUME IInv, IInv', [Next]_vars
             PROVE  F!Next \/ UNCHANGED <<Queue, pSrc, taken>>
  OBVIOUS
<1>1. ASSUME UNCHANGED <<head, tail, buffer, pSrc, taken>>
      PROVE  UNCHANGED <<Queue, pSrc, taken>>
  BY <1>1 DEF Queue, Count
<1>2. CASE Producer
  <2>1. ASSUME NEW b \in Byte, Push(b) PROVE F!Next
    BY <2>1, StartOffers DEF Push
  <2>2. ASSUME NEW n \in 1 .. MaxCount, NEW span \in [1 .. n -> Byte], Write(span)
        PROVE  F!Next
    <3>1. PICK m : m = Least(Len(span), Available) /\ m > 0
                   /\ StartPut(SubSeq(span, 1, m))
      BY <2>2 DEF Write
    <3>2. SubSeq(span, 1, m) # <<>>
      <4>1. span \in Seq(Byte) /\ Len(span) = n /\ Capacity \in Nat
        BY SpscAssumption
      <4>2. Count \in 0 .. Capacity
        BY LengthsBounded DEF IInv
      <4>3. m \in 1 .. n
        BY <3>1, <4>1, <4>2 DEF Least, Available
      <4>4. Len(SubSeq(span, 1, m)) = m
        BY <4>1, <4>3, SubSeqProperties
      <4> QED  BY <4>3, <4>4
    <3> QED  BY <2>2, <3>1, <3>2, StartOffers DEF Write
  <2>3. CASE AskAvailable
    BY <1>1, <2>3 DEF AskAvailable, cvars
  <2> QED  BY <1>2, <2>1, <2>2, <2>3, CopyInInvisible, PublishPuts DEF Producer
<1>3. CASE Consumer
  <2>1. CASE Pop
    BY <1>1, <2>1 DEF Pop, StartTake, pvars
  <2>2. ASSUME NEW max \in 1 .. MaxCount, Read(max)
        PROVE  UNCHANGED <<Queue, pSrc, taken>>
    BY <1>1, <2>2 DEF Read, StartTake, pvars
  <2>3. ASSUME NEW k \in cTodo, CopyOut(k) PROVE UNCHANGED <<Queue, pSrc, taken>>
    BY <1>1, <2>3 DEF CopyOut, pvars
  <2>4. CASE AskCount
    BY <1>1, <2>4 DEF AskCount, pvars
  <2> QED  BY <1>3, <2>1, <2>2, <2>3, <2>4, ReleaseTakes DEF Consumer
<1>4. CASE UNCHANGED vars
  BY <1>1, <1>4 DEF vars, pvars, cvars
<1> QED  BY <1>2, <1>3, <1>4 DEF Next

(* The ring implements the bounded FIFO, for every capacity and counter
   range: the refinement the runs check on rings of four slots. *)
THEOREM Refinement == Spec => ImplementsFifo
<1> QED  BY StartsEmpty, StepsShow, InvariantHolds, PTL DEF Spec, ImplementsFifo, F!Spec
=============================================================================
