--------------------------- MODULE SuperloopProofs ---------------------------
(***************************************************************************)
(* Proofs about what a superloop does between interrupts: it dispatches    *)
(* work, flushes the log, accounts for its sleeps and waits, for any       *)
(* capacity of the rings and any range of the counters.                    *)
(***************************************************************************)
EXTENDS Tasklet, Log, Power, Waits, Filter, SequenceTheorems, FiniteSetTheorems,
        WellFoundedInduction, TLAPS

(* The arithmetic of a ring whose counters run freely is proved in          *)
(* SpscProofs; only its constants and counters are needed here.            *)
R == INSTANCE SpscProofs WITH
  Byte <- Nat, Unset <- -1, MaxCount <- 1, buffer <- storage,
  pSrc <- <<>>, pTodo <- {}, pSeen <- 0, cOut <- <<>>, cTodo <- {}, cSeen <- 0,
  taken <- <<>>

(* The tasklet queue's constants are those of a ring. *)
LEMMA TaskletConstants == R!SpscAssumption
  BY TaskletAssumption DEF R!SpscAssumption

(* The step of a post or a log call changes, the rest of it stays. *)
LEMMA Retag ==
  ASSUME NEW s, NEW h, NEW w, NEW x
  PROVE  [<<s, h, w>> EXCEPT ![1] = x] = <<x, h, w>>
  OBVIOUS

(* Where the items lie: item i in the slot i places on from tail, as the    *)
(* ring's two chunks would be laid out.                                    *)
LEMMA Places ==
  ASSUME head \in Counter, tail \in Counter
  PROVE  /\ Count = R!Count /\ Count \in Nat
         /\ \A i \in 1 .. Capacity :
              /\ SlotOf((tail + i - 1) % Modulus) = R!ChunkSlot(tail, i)
              /\ R!ChunkSlot(tail, i) \in Slot
         /\ Count < Capacity => SlotOf(head) = R!ChunkSlot(tail, Count + 1)
<1> USE TaskletAssumption, TaskletConstants
<1>0. head \in R!Counter /\ tail \in R!Counter
  BY DEF Counter, R!Counter
<1>1. Count = R!Count /\ Count \in R!Counter
  BY DEF Counter, Count, R!Count, R!Minus, R!Counter
<1>2. ASSUME NEW i \in 1 .. Capacity
      PROVE  /\ SlotOf((tail + i - 1) % Modulus) = R!ChunkSlot(tail, i)
             /\ R!ChunkSlot(tail, i) \in Slot
  <2>1. (tail + i - 1) % Modulus = R!Plus(tail, i - 1)
    BY DEF Counter, R!Plus
  <2>2. i - 1 \in 0 .. Capacity - 1 /\ i - 1 + 1 = i
    OBVIOUS
  <2>3. R!SlotOf(R!Plus(tail, i - 1)) = R!ChunkSlot(tail, i)
    BY <1>0, <2>2, R!SlotOfPlus
  <2>4. R!ChunkSlot(tail, i) \in R!Slots
    BY <1>0, R!ChunkSlotInjective
  <2> QED
    BY <2>1, <2>3, <2>4 DEF SlotOf, R!SlotOf, Slot, R!Slots
<1>3. ASSUME Count < Capacity PROVE SlotOf(head) = R!ChunkSlot(tail, Count + 1)
  <2>1. Count \in 0 .. Capacity - 1 /\ R!Plus(tail, Count) = head
    BY <1>1, <1>3 DEF Counter, R!Counter, R!Count, R!Minus, R!Plus
  <2>2. R!SlotOf(R!Plus(tail, Count)) = R!ChunkSlot(tail, Count + 1)
    BY <1>0, <2>1, R!SlotOfPlus
  <2> QED
    BY <2>1, <2>2 DEF SlotOf, R!SlotOf
<1> QED
  BY <1>1, <1>2, <1>3 DEF R!Counter

(* Two items do not share a slot. *)
LEMMA PlacesApart ==
  ASSUME tail \in Counter, NEW i \in 1 .. Capacity, NEW j \in 1 .. Capacity,
         R!ChunkSlot(tail, i) = R!ChunkSlot(tail, j)
  PROVE  i = j
<1>1. tail \in R!Counter
  BY DEF Counter, R!Counter
<1> QED
  BY <1>1, R!ChunkSlotInjective, TaskletConstants

(* Item by item, what Queued is. *)
QueuedInSlots ==
  /\ Queued \in Seq(Work) /\ Len(Queued) = Count
  /\ \A i \in 1 .. Count : Queued[i] = storage[R!ChunkSlot(tail, i)]

LEMMA QueuedItems ==
  ASSUME TypeOK, Count <= Capacity
  PROVE  QueuedInSlots
<1>1. Count \in Nat
  BY Places DEF TypeOK
<1>2. ASSUME NEW i \in 1 .. Count
      PROVE  /\ SlotOf((tail + i - 1) % Modulus) = R!ChunkSlot(tail, i)
             /\ storage[R!ChunkSlot(tail, i)] \in Work
  <2>1. i \in 1 .. Capacity
    BY <1>1, TaskletAssumption
  <2> QED
    BY <2>1, Places DEF TypeOK
<1>3. Queued \in [1 .. Count -> Work]
  BY <1>2 DEF Queued
<1> QED
  BY <1>1, <1>2, <1>3 DEF QueuedInSlots, Queued

LEMMA QueuedItemsNext == TypeOK' /\ (Count <= Capacity)' => QueuedInSlots'
<1>1. TypeOK /\ Count <= Capacity => QueuedInSlots
  BY QueuedItems
<1> QED
  BY <1>1, PTL

(* A step of head makes one item more, a step of tail one less. *)
LEMMA CounterSteps ==
  ASSUME head \in Counter, tail \in Counter
  PROVE  /\ Next1(head) \in Counter /\ Next1(tail) \in Counter
         /\ Count < Capacity => (Next1(head) - tail + Modulus) % Modulus = Count + 1
         /\ Count > 0 => (head - Next1(tail) + Modulus) % Modulus = Count - 1
         /\ \A i \in 1 .. Capacity - 1 : R!ChunkSlot(Next1(tail), i) = R!ChunkSlot(tail, i + 1)
<1> USE TaskletAssumption, TaskletConstants DEF Counter
<1>1. Next1(tail) = R!Plus(tail, 1)
  BY DEF Next1, R!Plus
<1>2. \A i \in 1 .. Capacity - 1 : R!ChunkSlot(Next1(tail), i) = R!ChunkSlot(tail, i + 1)
  <2> SUFFICES ASSUME NEW i \in 1 .. Capacity - 1
               PROVE  R!ChunkSlot(R!Plus(tail, 1), i) = R!ChunkSlot(tail, 1 + i)
    BY <1>1
  <2>1. tail \in R!Counter /\ 1 \in 0 .. Capacity /\ i \in 1 .. Capacity /\ 1 + i <= Capacity
    BY DEF R!Counter
  <2> QED
    BY <2>1, R!ShiftedSlot
<1>3. Next1(head) \in Counter /\ Next1(tail) \in Counter
  BY DEF Next1
<1>4. Count < Capacity => (Next1(head) - tail + Modulus) % Modulus = Count + 1
  BY DEF Next1, Count
<1>5. Count > 0 => (head - Next1(tail) + Modulus) % Modulus = Count - 1
  BY DEF Next1, Count
<1> QED
  BY <1>2, <1>3, <1>4, <1>5

(* A new queue is empty. *)
LEMMA TaskletStarts == Init => TaskletInv
<1> SUFFICES ASSUME Init PROVE TaskletInv
  OBVIOUS
<1>1. TypeOK
  BY TaskletAssumption DEF Init, TypeOK, Counter
<1>2. Count = 0
  BY TaskletAssumption DEF Init, Count
<1>3. SlotKept
  BY <1>2, TaskletAssumption DEF Init, SlotKept
<1>4. Queued = <<>>
  BY <1>2 DEF Queued
<1>5. PostsKept
  <2>1. <<>> \o <<>> = <<>>
    BY EmptySeq, ConcatEmptySeq
  <2> QED
    BY <1>4, <2>1 DEF Init, PostsKept
<1> QED
  BY <1>1, <1>3, <1>5 DEF TaskletInv

(* A post that begins touches nothing of the queue. *)
LEMMA BeginKeeps ==
  ASSUME TaskletInv, OnePoster, NEW l \in Poster, NEW w \in Work, Begin(l, w)
  PROVE  TaskletInv'
<1>1. l \in Level /\ Count \in Nat
  BY TaskletAssumption, Places DEF Level, TaskletInv, TypeOK
<1>2. post' = [post EXCEPT ![l] = <<"write", head, w>>]
      /\ UNCHANGED <<head, tail, storage, pc, work, due>>
  BY DEF Begin, queue
<1>3. Count' = Count /\ Queued' = Queued
  BY <1>2 DEF Count, Queued
<1>4. TypeOK'
  BY <1>1, <1>2 DEF TaskletInv, TypeOK
<1>5. Count < Capacity
  BY <1>1, TaskletAssumption DEF Begin, Full, Count
<1>6. \A k \in Level : post'[k] # <<>> => k = l /\ post'[k] = <<"write", head, w>>
  BY <1>1, <1>2 DEF TaskletInv, TypeOK, SlotKept, OnePoster
<1>7. SlotKept'
  BY <1>2, <1>3, <1>5, <1>6 DEF TaskletInv, SlotKept
<1> QED
  BY <1>2, <1>3, <1>4, <1>7 DEF TaskletInv, PostsKept

(* A post in progress is that of the one poster. *)
LEMMA PostInProgress ==
  ASSUME TaskletInv, OnePoster, NEW l \in Poster, post[l] # <<>>
  PROVE  /\ l \in Level
         /\ \E w \in Work : \E s \in {"write", "publish"} : post[l] = <<s, head, w>>
         /\ \A k \in Level : k # l => post[k] = <<>>
         /\ Count < Capacity
<1>1. l \in Level
  BY TaskletAssumption DEF Level
<1>2. PICK s \in {"write", "publish"}, h \in Counter, w \in Work : post[l] = <<s, h, w>>
  BY <1>1 DEF TaskletInv, TypeOK
<1> QED
  BY <1>1, <1>2 DEF TaskletInv, SlotKept, OnePoster

(* An item is written where no queued one lies. *)
LEMMA WriteKeeps ==
  ASSUME TaskletInv, OnePoster, NEW l \in Poster, WriteItem(l)
  PROVE  TaskletInv'
<1>1. PICK w \in Work : post[l] = <<"write", head, w>>
  BY PostInProgress DEF WriteItem
<1>2. l \in Level /\ Count < Capacity /\ \A k \in Level : k # l => post[k] = <<>>
  BY PostInProgress DEF WriteItem
<1>3. post' = [post EXCEPT ![l] = <<"publish", head, w>>]
  <2>1. [post[l] EXCEPT ![1] = "publish"] = <<"publish", head, w>>
    BY <1>1, Retag
  <2> QED
    BY <2>1 DEF WriteItem
<1>4. storage' = [storage EXCEPT ![SlotOf(head)] = w]
      /\ UNCHANGED <<head, tail, pc, work, due>>
  BY <1>1 DEF WriteItem
<1>5. head \in Counter /\ tail \in Counter /\ storage \in [Slot -> Work]
  BY DEF TaskletInv, TypeOK
<1>6. Count \in Nat /\ SlotOf(head) = R!ChunkSlot(tail, Count + 1) /\ Count + 1 \in 1 .. Capacity
  BY <1>2, <1>5, Places, TaskletAssumption
<1>7. SlotOf(head) \in Slot
  BY <1>5, <1>6, Places
<1>8. TypeOK'
  BY <1>2, <1>3, <1>4, <1>7 DEF TaskletInv, TypeOK
<1>9. Count' = Count
  BY <1>4 DEF Count
<1>10. ASSUME NEW i \in 1 .. Count
       PROVE  storage'[R!ChunkSlot(tail, i)] = storage[R!ChunkSlot(tail, i)]
  <2>1. i \in 1 .. Capacity /\ i # Count + 1
    BY <1>6, TaskletAssumption
  <2>2. R!ChunkSlot(tail, i) # SlotOf(head) /\ R!ChunkSlot(tail, i) \in Slot
    BY <1>5, <1>6, <2>1, PlacesApart, Places
  <2> QED
    BY <1>4, <1>5, <2>2
<1>11. Queued' = Queued
  <2>1. Count <= Capacity /\ (Count <= Capacity)'
    BY <1>9 DEF TaskletInv, SlotKept
  <2>2. QueuedInSlots /\ QueuedInSlots'
    BY <1>8, <2>1, QueuedItems, QueuedItemsNext DEF TaskletInv
  <2> QED
    BY <1>4, <1>9, <1>10, <2>2, SeqEqual DEF QueuedInSlots
<1>12. SlotKept'
  <2>1. ASSUME pc = "advance" PROVE storage'[SlotOf(tail)] = storage[SlotOf(tail)]
    <3>1. Count > 0 /\ 1 \in 1 .. Count /\ 1 \in 1 .. Capacity
      BY <1>6, <2>1, TaskletAssumption DEF TaskletInv, SlotKept
    <3>2. (tail + 1 - 1) % Modulus = tail
      BY <1>5, TaskletAssumption DEF Counter
    <3>3. SlotOf(tail) = R!ChunkSlot(tail, 1)
      BY <1>5, <3>1, <3>2, Places
    <3> QED
      BY <1>10, <3>1, <3>3
  <2>2. \A k \in Level : post'[k] # <<>> => k = l /\ post'[k] = <<"publish", head, w>>
    BY <1>2, <1>3 DEF TaskletInv, TypeOK
  <2>3. storage'[SlotOf(head)] = w
    BY <1>4, <1>5, <1>7
  <2> QED
    BY <1>2, <1>4, <1>9, <2>1, <2>2, <2>3 DEF TaskletInv, SlotKept
<1> QED
  BY <1>4, <1>8, <1>11, <1>12 DEF TaskletInv, PostsKept

(* The store of head queues the item behind the others, as its post's       *)
(* return makes it due behind the others.                                  *)
LEMMA PublishKeeps ==
  ASSUME TaskletInv, OnePoster, NEW l \in Poster, Publish(l)
  PROVE  TaskletInv'
<1> DEFINE held == IF pc = "call" THEN work ELSE <<>>
<1>1. PICK w \in Work : post[l] = <<"publish", head, w>>
  BY PostInProgress DEF Publish
<1>2. l \in Level /\ Count < Capacity /\ \A k \in Level : k # l => post[k] = <<>>
  BY PostInProgress DEF Publish
<1>3. /\ head' = Next1(head) /\ due' = Append(due, w)
      /\ post' = [post EXCEPT ![l] = <<>>]
      /\ UNCHANGED <<tail, storage, pc, work>>
  BY <1>1 DEF Publish
<1>4. head \in Counter /\ tail \in Counter /\ storage \in [Slot -> Work]
      /\ due \in Seq(Work)
  BY DEF TaskletInv, TypeOK
<1>5. Count \in Nat /\ SlotOf(head) = R!ChunkSlot(tail, Count + 1)
  BY <1>2, <1>4, Places
<1>6. head' \in Counter /\ Count' = Count + 1
  BY <1>2, <1>3, <1>4, CounterSteps DEF Count
<1>7. due' \in Seq(Work)
  BY <1>3, <1>4, AppendProperties
<1>8. TypeOK'
  BY <1>2, <1>3, <1>6, <1>7 DEF TaskletInv, TypeOK
<1>9. Count <= Capacity /\ (Count <= Capacity)'
  BY <1>2, <1>5, <1>6, TaskletAssumption
<1>10. QueuedInSlots /\ QueuedInSlots'
  BY <1>8, <1>9, QueuedItems, QueuedItemsNext DEF TaskletInv
<1>11. storage[SlotOf(head)] = w
  BY <1>1, <1>2 DEF TaskletInv, SlotKept
<1>12. Queued' = Append(Queued, w)
  <2>1. /\ Append(Queued, w) \in Seq(Work) /\ Len(Append(Queued, w)) = Count + 1
        /\ \A i \in 1 .. Count : Append(Queued, w)[i] = Queued[i]
        /\ Append(Queued, w)[Count + 1] = w
    BY <1>10, AppendProperties DEF QueuedInSlots
  <2>2. Queued' \in Seq(Work) /\ Len(Queued') = Count + 1
        /\ \A i \in 1 .. Count + 1 : Queued'[i] = storage[R!ChunkSlot(tail, i)]
    BY <1>3, <1>6, <1>10 DEF QueuedInSlots
  <2>3. ASSUME NEW i \in 1 .. Count + 1 PROVE Queued'[i] = Append(Queued, w)[i]
    <3>1. CASE i = Count + 1
      BY <1>5, <1>11, <2>1, <2>2, <3>1
    <3>2. CASE i # Count + 1
      <4>1. i \in 1 .. Count
        BY <1>5, <3>2
      <4> QED
        BY <1>10, <2>1, <2>2, <4>1 DEF QueuedInSlots
    <3> QED
      BY <3>1, <3>2
  <2> QED
    BY <2>1, <2>2, <2>3, SeqEqual
<1>13. PostsKept'
  <2>1. held \in Seq(Work)
    <3>1. work \in {<<>>} \cup {<<v>> : v \in Work}
      BY DEF TaskletInv, TypeOK
    <3>2. <<>> \in Seq(Work) /\ \A v \in Work : <<v>> \in Seq(Work)
      OBVIOUS
    <3> QED
      BY <3>1, <3>2
  <2> HIDE DEF held
  <2>2. due = held \o Queued /\ Queued \in Seq(Work) /\ <<w>> \in Seq(Work)
    BY <1>10 DEF TaskletInv, PostsKept, QueuedInSlots, held
  <2>3. Append(held \o Queued, w) = (held \o Queued) \o <<w>>
    BY <2>1, <2>2, ConcatProperties, AppendIsConcat
  <2>4. Append(Queued, w) = Queued \o <<w>>
    BY <2>2, AppendIsConcat
  <2>5. (held \o Queued) \o <<w>> = held \o (Queued \o <<w>>)
    BY <2>1, <2>2, ConcatAssociative
  <2>6. due' = held \o Queued'
    BY <1>3, <1>12, <2>2, <2>3, <2>4, <2>5
  <2> QED
    BY <1>3, <2>6 DEF PostsKept, held
<1>14. SlotKept'
  <2>1. \A k \in Level : post'[k] = <<>>
    BY <1>2, <1>3 DEF TaskletInv, TypeOK
  <2>2. Count' > 0
    BY <1>5, <1>6
  <2> QED
    BY <1>3, <1>9, <2>1, <2>2 DEF TaskletInv, SlotKept
<1> QED
  BY <1>8, <1>13, <1>14 DEF TaskletInv

(* The superloop starts to dispatch, looks for more and returns from a      *)
(* handler without touching the queue.                                     *)
LEMMA LookKeeps ==
  ASSUME TaskletInv, DispatchAll \/ Look \/ Return
  PROVE  TaskletInv'
<1>1. /\ UNCHANGED <<head, tail, storage, post, work, due>>
      /\ pc # "call" /\ pc' \in {"idle", "look", "take"}
      /\ pc' = "take" => tail # head
  BY DEF DispatchAll, Look, Return, queue
<1>2. Count' = Count /\ Queued' = Queued
  BY <1>1 DEF Count, Queued
<1>3. tail # head => Count > 0
  <2>1. head \in Counter /\ tail \in Counter
    BY DEF TaskletInv, TypeOK
  <2> QED
    BY <2>1, TaskletAssumption DEF Counter, Count
<1> QED
  BY <1>1, <1>2, <1>3 DEF TaskletInv, TypeOK, SlotKept, PostsKept

(* The oldest item is copied out of its slot. *)
LEMMA TakeKeeps == ASSUME TaskletInv, Take PROVE TaskletInv'
<1>1. UNCHANGED <<head, tail, storage, post, due>>
      /\ pc = "take" /\ pc' = "advance" /\ work' = <<storage[SlotOf(tail)]>>
  BY DEF Take, queue
<1>2. Count' = Count /\ Queued' = Queued
  BY <1>1 DEF Count, Queued
<1>3. storage[SlotOf(tail)] \in Work
  BY TaskletAssumption DEF TaskletInv, TypeOK, Counter, Slot, SlotOf
<1> QED
  BY <1>1, <1>2, <1>3 DEF TaskletInv, TypeOK, SlotKept, PostsKept

(* The store of tail moves the oldest item from the queue into the          *)
(* superloop's hands.                                                      *)
LEMMA AdvanceKeeps == ASSUME TaskletInv, Advance PROVE TaskletInv'
<1>1. UNCHANGED <<head, storage, post, work, due>>
      /\ pc = "advance" /\ pc' = "call" /\ tail' = Next1(tail)
  BY DEF Advance
<1>2. head \in Counter /\ tail \in Counter /\ storage \in [Slot -> Work]
  BY DEF TaskletInv, TypeOK
<1>3. Count \in 1 .. Capacity
  BY <1>1, <1>2, Places, TaskletAssumption DEF TaskletInv, SlotKept
<1>4. tail' \in Counter /\ Count' = Count - 1
  BY <1>1, <1>2, <1>3, CounterSteps DEF Count
<1>5. TypeOK'
  BY <1>1, <1>4 DEF TaskletInv, TypeOK
<1>6. Count <= Capacity /\ (Count <= Capacity)'
  BY <1>3, <1>4, TaskletAssumption
<1>7. QueuedInSlots /\ QueuedInSlots'
  BY <1>5, <1>6, QueuedItems, QueuedItemsNext DEF TaskletInv
<1>8. work = <<Queued[1]>>
  <2>1. (tail + 1 - 1) % Modulus = tail
    BY <1>2, TaskletAssumption DEF Counter
  <2>2. SlotOf(tail) = R!ChunkSlot(tail, 1)
    BY <1>2, <2>1, Places, TaskletAssumption
  <2> QED
    BY <1>1, <1>3, <1>7, <2>2 DEF TaskletInv, SlotKept, QueuedInSlots
<1>9. \A i \in 1 .. Count - 1 : Queued'[i] = Queued[i + 1]
  <2> SUFFICES ASSUME NEW i \in 1 .. Count - 1 PROVE Queued'[i] = Queued[i + 1]
    OBVIOUS
  <2>1. i \in 1 .. Capacity - 1 /\ i + 1 \in 1 .. Count
    BY <1>3, TaskletAssumption
  <2>2. R!ChunkSlot(tail', i) = R!ChunkSlot(tail, i + 1)
    BY <1>1, <1>2, <2>1, CounterSteps
  <2> QED
    BY <1>1, <1>4, <1>7, <2>1, <2>2 DEF QueuedInSlots
<1>10. Queued = work \o Queued'
  <2>1. work \in Seq(Work) /\ Len(work) = 1 /\ work[1] = Queued[1]
    BY <1>3, <1>7, <1>8 DEF QueuedInSlots
  <2>2. Queued \in Seq(Work) /\ Len(Queued) = Count
        /\ Queued' \in Seq(Work) /\ Len(Queued') = Count - 1
    BY <1>4, <1>7 DEF QueuedInSlots
  <2>3. /\ work \o Queued' \in Seq(Work) /\ Len(work \o Queued') = Count
        /\ \A i \in 1 .. Count : (work \o Queued')[i] =
              IF i <= 1 THEN work[i] ELSE Queued'[i - 1]
    <3>1. Len(work) + Len(Queued') = Count
      BY <1>3, <2>1, <2>2
    <3>2. /\ work \o Queued' \in Seq(Work) /\ Len(work \o Queued') = Len(work) + Len(Queued')
          /\ \A i \in 1 .. Len(work) + Len(Queued') : (work \o Queued')[i] =
                IF i <= Len(work) THEN work[i] ELSE Queued'[i - Len(work)]
      BY <2>1, <2>2, ConcatProperties
    <3> QED
      BY <2>1, <3>1, <3>2
  <2>4. \A i \in 1 .. Count : (work \o Queued')[i] = Queued[i]
    <3> SUFFICES ASSUME NEW i \in 1 .. Count PROVE (work \o Queued')[i] = Queued[i]
      OBVIOUS
    <3>1. CASE i = 1
      BY <2>1, <2>3, <3>1
    <3>2. CASE i # 1
      <4>1. i - 1 \in 1 .. Count - 1 /\ i - 1 + 1 = i /\ ~(i <= 1)
        BY <1>3, <3>2
      <4> QED
        BY <1>9, <2>3, <4>1
    <3> QED
      BY <3>1, <3>2
  <2> QED
    BY <2>2, <2>3, <2>4, SeqEqual
<1>11. PostsKept'
  <2>1. due = <<>> \o Queued /\ <<>> \o Queued = Queued
    BY <1>1, <1>7, ConcatEmptySeq DEF TaskletInv, PostsKept, QueuedInSlots
  <2> QED
    BY <1>1, <1>10, <2>1 DEF PostsKept
<1>12. SlotKept'
  <2>1. work # <<>>
    BY <1>8
  <2>2. Count' < Capacity
    BY <1>3, <1>4, TaskletAssumption
  <2> QED
    BY <1>1, <1>6, <2>1, <2>2 DEF TaskletInv, SlotKept
<1> QED
  BY <1>5, <1>11, <1>12 DEF TaskletInv

(* The handler is called with the item taken, the oldest one due. *)
LEMMA CallKeeps == ASSUME TaskletInv, Call PROVE TaskletInv'
<1>1. UNCHANGED <<head, tail, storage, post>>
      /\ pc = "call" /\ pc' = "handler" /\ work' = <<>> /\ due' = Tail(due)
  BY DEF Call, queue
<1>2. Count' = Count /\ Queued' = Queued
  BY <1>1 DEF Count, Queued
<1>3. PICK w \in Work : work = <<w>>
  BY <1>1 DEF TaskletInv, TypeOK, SlotKept
<1>4. QueuedInSlots
  BY QueuedItems DEF TaskletInv, SlotKept
<1>5. due = <<w>> \o Queued /\ Queued \in Seq(Work) /\ <<w>> \in Seq(Work)
  BY <1>1, <1>3, <1>4 DEF TaskletInv, PostsKept, QueuedInSlots
<1>6. Tail(<<w>> \o Queued) = Queued
  <2>1. /\ <<w>> \o Queued \in Seq(Work) /\ Len(<<w>> \o Queued) = Len(Queued) + 1
        /\ \A i \in 1 .. Len(Queued) : (<<w>> \o Queued)[i + 1] = Queued[i]
    <3>1. Len(<<w>>) = 1 /\ Len(Queued) \in Nat
      BY <1>5
    <3>2. /\ <<w>> \o Queued \in Seq(Work) /\ Len(<<w>> \o Queued) = 1 + Len(Queued)
          /\ \A i \in 1 .. 1 + Len(Queued) : (<<w>> \o Queued)[i] =
                IF i <= 1 THEN <<w>>[i] ELSE Queued[i - 1]
      BY <1>5, <3>1, ConcatProperties
    <3>3. \A i \in 1 .. Len(Queued) :
            i + 1 \in 1 .. 1 + Len(Queued) /\ ~(i + 1 <= 1) /\ i + 1 - 1 = i
      BY <3>1
    <3> QED
      BY <3>1, <3>2, <3>3
  <2> DEFINE q == <<w>> \o Queued
  <2> HIDE DEF q
  <2>2. q \in Seq(Work) /\ Len(q) = Len(Queued) + 1
        /\ \A i \in 1 .. Len(Queued) : q[i + 1] = Queued[i]
    BY <2>1 DEF q
  <2>3. Len(Queued) \in Nat
    BY <1>5
  <2>4. q # <<>>
    BY <2>2, <2>3
  <2>5. /\ Tail(q) \in Seq(Work) /\ Len(Tail(q)) = Len(q) - 1
        /\ \A i \in 1 .. Len(Tail(q)) : Tail(q)[i] = q[i + 1]
    BY <2>2, <2>4, HeadTailProperties
  <2>6. Len(Tail(q)) = Len(Queued)
    BY <2>2, <2>3, <2>5
  <2>7. \A i \in 1 .. Len(Tail(q)) : Tail(q)[i] = Queued[i]
    BY <2>2, <2>5, <2>6
  <2>8. Tail(q) = Queued
    BY <1>5, <2>5, <2>6, <2>7, SeqEqual
  <2> QED
    BY <2>8 DEF q
<1>7. due' = <<>> \o Queued' /\ due' \in Seq(Work)
  BY <1>1, <1>2, <1>5, <1>6, ConcatEmptySeq
<1> QED
  BY <1>1, <1>2, <1>7 DEF TaskletInv, TypeOK, SlotKept, PostsKept

(* With one level that posts, no step disturbs the queue. *)
LEMMA TaskletSteps == OnePoster => (TaskletInv /\ [Next]_vars => TaskletInv')
<1> SUFFICES ASSUME OnePoster, TaskletInv, [Next]_vars PROVE TaskletInv'
  OBVIOUS
<1>1. CASE UNCHANGED vars
  BY <1>1 DEF vars, queue, TaskletInv, TypeOK, SlotKept, PostsKept, Count, Queued
<1> QED
  BY <1>1, BeginKeeps, WriteKeeps, PublishKeeps, LookKeeps, TakeKeeps, AdvanceKeeps, CallKeeps
  DEF Next, Main, Finish

(* Work whose post returned FW_OK runs, once and in the order posted, for   *)
(* every capacity and range of the counters, as long as posts come from    *)
(* one level only: the main thread and its handlers, or one interrupt      *)
(* (fw_tasklet_post and fw_tasklet_dispatch_one of tasklet.c).             *)
THEOREM PostsStayKept == OnePoster => (Spec => []PostsKept)
<1> SUFFICES ASSUME OnePoster PROVE Spec => []PostsKept
  OBVIOUS
<1>1. TaskletInv /\ [Next]_vars => TaskletInv'
  BY TaskletSteps
<1>2. TaskletInv => PostsKept
  BY DEF TaskletInv
<1> QED
  BY TaskletStarts, <1>1, <1>2, PTL DEF Spec
-----------------------------------------------------------------------------
(* The deferred log. *)

Wrap(a) == IF a < LogCapacity THEN a ELSE a - LogCapacity

(* A slot number less than two rounds wraps at most once. *)
LEMMA WrapsOnce == \A a \in 0 .. 2 * LogCapacity - 1 : a % LogCapacity = Wrap(a)
<1> SUFFICES ASSUME NEW a \in 0 .. 2 * LogCapacity - 1 PROVE a % LogCapacity = Wrap(a)
  OBVIOUS
<1>1. CASE a < LogCapacity
  BY <1>1, LogAssumption DEF Wrap
<1>2. CASE ~(a < LogCapacity)
  <2>1. a = (LogCapacity * 1) + (a - LogCapacity) /\ a - LogCapacity \in 0 .. LogCapacity - 1
    BY <1>2, LogAssumption
  <2> QED
    BY <1>2, <2>1, LogAssumption, TaskletConstants, R!RemainderUnique DEF Wrap
<1> QED
  BY <1>1, <1>2

(* The entries from s_tail up to s_head, and one slot that stays empty. *)
LEMMA LogPlaces ==
  ASSUME logHead \in LogSlot, logTail \in LogSlot
  PROVE  /\ LogCount \in 0 .. LogCapacity - 1
         /\ LogCount = IF logHead < logTail THEN logHead - logTail + LogCapacity
                       ELSE logHead - logTail
         /\ NextSlot(logHead) = Wrap(logHead + 1) /\ NextSlot(logHead) \in LogSlot
         /\ NextSlot(logTail) = Wrap(logTail + 1) /\ NextSlot(logTail) \in LogSlot
         /\ \A j \in 0 .. LogCapacity - 1 :
              /\ (logTail + j) % LogCapacity = Wrap(logTail + j)
              /\ Wrap(logTail + j) \in LogSlot
              /\ j < LogCount => Wrap(logTail + j) # logHead
              /\ j = LogCount => Wrap(logTail + j) = logHead
<1> USE LogAssumption DEF LogSlot
<1>1. LogCount = Wrap(logHead - logTail + LogCapacity)
  BY WrapsOnce DEF LogCount
<1>2. NextSlot(logHead) = Wrap(logHead + 1) /\ NextSlot(logTail) = Wrap(logTail + 1)
  BY WrapsOnce DEF NextSlot
<1>3. \A j \in 0 .. LogCapacity - 1 : (logTail + j) % LogCapacity = Wrap(logTail + j)
  BY WrapsOnce
<1>4. LogCount \in 0 .. LogCapacity - 1
      /\ LogCount = IF logHead < logTail THEN logHead - logTail + LogCapacity
                    ELSE logHead - logTail
  BY <1>1 DEF Wrap
<1>5. NextSlot(logHead) \in LogSlot /\ NextSlot(logTail) \in LogSlot
  BY <1>2 DEF Wrap
<1>6. ASSUME NEW j \in 0 .. LogCapacity - 1
      PROVE  /\ Wrap(logTail + j) \in LogSlot
             /\ j < LogCount => Wrap(logTail + j) # logHead
             /\ j = LogCount => Wrap(logTail + j) = logHead
  BY <1>4 DEF Wrap
<1> QED
  BY <1>2, <1>3, <1>4, <1>5, <1>6

(* So after a step. *)
LEMMA LogPlacesNext ==
  (logHead \in LogSlot /\ logTail \in LogSlot)'
    => (LogCount = IF logHead < logTail THEN logHead - logTail + LogCapacity
                   ELSE logHead - logTail)'
<1>1. logHead \in LogSlot /\ logTail \in LogSlot
        => LogCount = IF logHead < logTail THEN logHead - logTail + LogCapacity
                      ELSE logHead - logTail
  BY LogPlaces
<1> QED
  BY <1>1, PTL

(* The place of the entry that is i-th to reach the sink. *)
Place(i) == Wrap(logTail + Handed + i - 1)

(* AcceptedWait says of the i-th entry accepted that it lies there, and no  *)
(* such place is the slot s_head names.                                    *)
LEMMA AcceptedPlaces ==
  ASSUME LogTypeOK, AcceptedWait, FlushHolds
  PROVE  \A i \in 1 .. Len(accepted) :
           /\ (logTail + Handed + i - 1) % LogCapacity = Place(i)
           /\ Place(i) \in LogSlot /\ Place(i) # logHead
           /\ logEntries[Place(i)] = <<accepted[i], accepted[i]>>
<1> SUFFICES ASSUME NEW i \in 1 .. Len(accepted)
             PROVE  /\ (logTail + Handed + i - 1) % LogCapacity = Place(i)
                    /\ Place(i) \in LogSlot /\ Place(i) # logHead
                    /\ logEntries[Place(i)] = <<accepted[i], accepted[i]>>
  OBVIOUS
<1>1. logHead \in LogSlot /\ logTail \in LogSlot /\ Len(accepted) \in Nat
  BY DEF LogTypeOK
<1>2. LogCount \in 0 .. LogCapacity - 1
  BY <1>1, LogPlaces
<1>3. Handed + i - 1 \in 0 .. LogCapacity - 1 /\ Handed + i - 1 < LogCount
  BY <1>1, <1>2, LogAssumption DEF AcceptedWait, Handed
<1>4. logTail + (Handed + i - 1) = logTail + Handed + i - 1
  BY <1>1 DEF LogSlot, Handed
<1>5. /\ (logTail + (Handed + i - 1)) % LogCapacity = Wrap(logTail + (Handed + i - 1))
      /\ Wrap(logTail + (Handed + i - 1)) \in LogSlot
      /\ Wrap(logTail + (Handed + i - 1)) # logHead
  BY <1>1, <1>3, LogPlaces
<1> QED
  BY <1>4, <1>5 DEF AcceptedWait, Place

(* A new log is empty. *)
LEMMA LogStarts == LogInit => LogInv
<1> SUFFICES ASSUME LogInit PROVE LogInv
  OBVIOUS
<1>1. LogTypeOK
  BY LogAssumption DEF LogInit, LogTypeOK, LogSlot
<1>2. LogCount = 0
  BY <1>1, LogPlaces DEF LogInit, LogTypeOK
<1>3. PostHolds /\ FlushHolds
  BY DEF LogInit, PostHolds, FlushHolds, Context
<1>4. AcceptedWait
  <2>1. Len(accepted) = 0 /\ Handed = 0 /\ LogCount - Handed = 0
    <3>1. accepted = <<>> /\ flush.at = "idle"
      BY DEF LogInit
    <3> QED
      BY <1>2, <3>1, EmptySeq DEF Handed
  <2> QED
    BY <2>1 DEF AcceptedWait
<1> QED
  BY <1>1, <1>3, <1>4 DEF LogInv

(* A call that found a slot changes nothing of the ring yet. *)
LEMMA LogBeginKeeps ==
  ASSUME LogInv, MaskedPosts, NEW c \in Context, NEW m \in Message, LogBegin(c, m)
  PROVE  LogInv'
<1>1. logPost' = [logPost EXCEPT ![c] = <<1, NextSlot(logHead), m>>]
      /\ UNCHANGED <<logHead, logTail, logEntries, flush, accepted>>
  BY DEF LogBegin
<1>2. NextSlot(logHead) \in LogSlot /\ NextSlot(logHead) # logTail
  BY LogPlaces DEF LogBegin, HasSlot, LogInv, LogTypeOK
<1>3. LogTypeOK'
  BY <1>1, <1>2 DEF LogInv, LogTypeOK
<1>4. ASSUME NEW d \in Context PROVE logPost[d] = <<>>
  BY <1>4 DEF LogBegin, MayPost, MainHasCore, Context
<1>5. PostHolds'
  <2>1. \A d \in Context : logPost'[d] = IF d = c THEN <<1, NextSlot(logHead), m>> ELSE <<>>
    BY <1>1, <1>4 DEF LogInv, LogTypeOK
  <2> QED
    BY <1>1, <1>2, <2>1 DEF PostHolds, Context, NextSlot
<1>6. FlushHolds' /\ AcceptedWait'
  BY <1>1 DEF LogInv, FlushHolds, AcceptedWait, LogCount, Handed
<1> QED
  BY <1>3, <1>5, <1>6 DEF LogInv

(* A call in progress is the only one. *)
LEMMA LogCallInProgress ==
  ASSUME LogInv, NEW c \in Context, logPost[c] # <<>>
  PROVE  /\ \E part \in {1, 2, 3}, m \in Message : logPost[c] = <<part, NextSlot(logHead), m>>
         /\ \A d \in Context : d # c => logPost[d] = <<>>
         /\ NextSlot(logHead) # logTail
<1>1. PICK part \in {1, 2, 3}, n \in LogSlot, m \in Message : logPost[c] = <<part, n, m>>
  BY DEF LogInv, LogTypeOK
<1>2. logPost[c][2] = NextSlot(logHead) /\ NextSlot(logHead) # logTail
  BY DEF LogInv, PostHolds
<1>3. n = NextSlot(logHead)
  BY <1>1, <1>2
<1>4. ASSUME NEW d \in Context, d # c PROVE logPost[d] = <<>>
  BY <1>4 DEF LogInv, PostHolds, Context
<1> QED
  BY <1>1, <1>2, <1>3, <1>4

(* A part is written into the slot s_head names, where no entry waits. *)
LEMMA LogWriteKeeps ==
  ASSUME LogInv, NEW c \in Context, LogWrite(c)
  PROVE  LogInv'
<1>1. PICK part \in {1, 2} :
        /\ logPost[c] # <<>> /\ logPost[c][1] = part
        /\ logEntries' = [logEntries EXCEPT ![logHead][part] = logPost[c][3]]
        /\ logPost' = [logPost EXCEPT ![c][1] = part + 1]
  BY DEF LogWrite
<1>2. PICK m \in Message : logPost[c] = <<part, NextSlot(logHead), m>>
  BY <1>1, LogCallInProgress
<1>3. /\ \A d \in Context : d # c => logPost[d] = <<>>
      /\ NextSlot(logHead) # logTail
  BY <1>1, LogCallInProgress
<1>4. UNCHANGED <<logHead, logTail, flush, accepted>>
  BY DEF LogWrite
<1>5. logHead \in LogSlot /\ logTail \in LogSlot /\ logEntries \in [LogSlot -> Message \X Message]
      /\ logPost \in [Context -> {<<>>} \cup ({1, 2, 3} \X LogSlot \X Message)]
  BY DEF LogInv, LogTypeOK
<1>6. PICK a \in Message, b \in Message : logEntries[logHead] = <<a, b>>
  BY <1>5
<1> DEFINE entry == IF part = 1 THEN <<m, b>> ELSE <<a, m>>
           call == <<part + 1, NextSlot(logHead), m>>
<1>7. logPost' = [logPost EXCEPT ![c] = call]
  <2>1. [logPost[c] EXCEPT ![1] = part + 1] = call
    BY <1>2, Retag
  <2> QED
    BY <1>1, <2>1
<1>8. logEntries' = [logEntries EXCEPT ![logHead] = entry]
  <2>1. [logEntries[logHead] EXCEPT ![part] = m] = entry
    <3>1. [<<a, b>> EXCEPT ![1] = m] = <<m, b>> /\ [<<a, b>> EXCEPT ![2] = m] = <<a, m>>
      OBVIOUS
    <3> QED
      BY <1>6, <3>1
  <2>2. logPost[c][3] = m
    BY <1>2
  <2> HIDE DEF entry
  <2> QED
    BY <1>1, <2>1, <2>2
<1>9. /\ entry \in Message \X Message /\ entry[part] = m
      /\ part = 2 => entry[1] = a
  OBVIOUS
<1>10. call \in {1, 2, 3} \X LogSlot \X Message
  BY <1>5, LogPlaces
<1>11. part = 2 => a = m
  BY <1>2, <1>6 DEF LogInv, PostHolds
<1> HIDE DEF entry
<1>12. \A s \in LogSlot : logEntries'[s] = IF s = logHead THEN entry ELSE logEntries[s]
  BY <1>5, <1>8
<1>13. LogTypeOK'
  <2>1. logEntries' \in [LogSlot -> Message \X Message]
    <3>1. entry \in Message \X Message
      BY <1>9
    <3> QED
      BY <1>5, <1>8, <3>1, Zenon
  <2>2. logPost' \in [Context -> {<<>>} \cup ({1, 2, 3} \X LogSlot \X Message)]
    <3> HIDE DEF call
    <3> QED
      BY <1>5, <1>7, <1>10
  <2> QED
    BY <1>4, <2>1, <2>2 DEF LogInv, LogTypeOK
<1>14. PostHolds'
  <2>1. \A d \in Context : logPost'[d] = IF d = c THEN call ELSE <<>>
    BY <1>3, <1>5, <1>7
  <2>2. ASSUME NEW p \in {1, 2}, p < part + 1 PROVE entry[p] = m
    <3>1. p = part \/ (p = 1 /\ part = 2)
      BY <2>2
    <3>2. entry[part] = m /\ (part = 2 => entry[1] = m)
      BY <1>9, <1>11
    <3> QED
      BY <3>1, <3>2
  <2>3. NextSlot(logHead)' = NextSlot(logHead)
    BY <1>4 DEF NextSlot
  <2> QED
    BY <1>3, <1>4, <1>5, <1>12, <2>1, <2>2, <2>3 DEF PostHolds, Context
<1>15. FlushHolds'
  BY <1>4, <1>5, <1>12 DEF LogInv, FlushHolds
<1>16. AcceptedWait'
  <2>1. LogCount' = LogCount /\ Handed' = Handed
    BY <1>4 DEF LogCount, Handed
  <2>2. ASSUME NEW i \in 1 .. Len(accepted)
        PROVE  logEntries'[(logTail + Handed + i - 1) % LogCapacity]
                  = <<accepted[i], accepted[i]>>
    <3>1. /\ (logTail + Handed + i - 1) % LogCapacity = Place(i)
          /\ Place(i) \in LogSlot /\ Place(i) # logHead
          /\ logEntries[Place(i)] = <<accepted[i], accepted[i]>>
      BY AcceptedPlaces DEF LogInv
    <3> QED
      BY <1>12, <3>1
  <2> QED
    BY <1>4, <2>1, <2>2 DEF LogInv, AcceptedWait
<1> QED
  BY <1>13, <1>14, <1>15, <1>16 DEF LogInv

(* The store of s_head gives the flush one entry more. *)
LEMMA LogPublishKeeps ==
  ASSUME LogInv, NEW c \in Context, LogPublish(c)
  PROVE  LogInv'
<1>1. logPost[c] # <<>> /\ logPost[c][1] = 3
  BY DEF LogPublish
<1>2. PICK m \in Message : logPost[c] = <<3, NextSlot(logHead), m>>
  BY <1>1, LogCallInProgress
<1>3. /\ \A d \in Context : d # c => logPost[d] = <<>>
      /\ NextSlot(logHead) # logTail
  BY <1>1, LogCallInProgress
<1>4. /\ logHead' = NextSlot(logHead) /\ accepted' = Append(accepted, m)
      /\ logPost' = [logPost EXCEPT ![c] = <<>>]
      /\ UNCHANGED <<logTail, logEntries, flush>>
  BY <1>2 DEF LogPublish
<1>5. logHead \in LogSlot /\ logTail \in LogSlot /\ logEntries \in [LogSlot -> Message \X Message]
      /\ logPost \in [Context -> {<<>>} \cup ({1, 2, 3} \X LogSlot \X Message)]
      /\ accepted \in Seq(Message)
  BY DEF LogInv, LogTypeOK
<1>6. logHead' \in LogSlot /\ logHead' # logTail
  BY <1>3, <1>4, <1>5, LogPlaces
<1>7. /\ accepted' \in Seq(Message) /\ Len(accepted') = Len(accepted) + 1
      /\ \A i \in 1 .. Len(accepted) : accepted'[i] = accepted[i]
      /\ accepted'[Len(accepted) + 1] = m
  BY <1>4, <1>5, AppendProperties
<1>8. LogTypeOK'
  BY <1>4, <1>6, <1>7 DEF LogInv, LogTypeOK
<1>9. PostHolds'
  <2>1. \A d \in Context : logPost'[d] = <<>>
    BY <1>3, <1>4, <1>5
  <2> QED
    BY <2>1 DEF PostHolds, Context
<1>10. FlushHolds'
  BY <1>4, <1>6 DEF LogInv, FlushHolds
<1>11. LogCount' = LogCount + 1 /\ Handed' = Handed /\ LogCount \in Nat
  <2>1. LogCount' = IF logHead' < logTail THEN logHead' - logTail + LogCapacity
                    ELSE logHead' - logTail
    <3>1. logHead' \in LogSlot /\ logTail' \in LogSlot
      BY <1>4, <1>5, <1>6
    <3> QED
      BY <1>4, <3>1, LogPlacesNext
  <2>2. LogCount = IF logHead < logTail THEN logHead - logTail + LogCapacity
                   ELSE logHead - logTail
    BY <1>5, LogPlaces
  <2>3. logHead' = Wrap(logHead + 1)
    BY <1>4, <1>5, LogPlaces
  <2> QED
    BY <1>4, <1>5, <1>6, <2>1, <2>2, <2>3, LogAssumption DEF Wrap, LogSlot, Handed
<1>12. logEntries[logHead] = <<m, m>>
  <2>1. logEntries[logHead][1] = m /\ logEntries[logHead][2] = m
    BY <1>2 DEF LogInv, PostHolds
  <2> QED
    BY <1>5, <2>1
<1>13. AcceptedWait'
  <2>1. Len(accepted) = LogCount - Handed /\ Len(accepted) \in Nat /\ Handed \in {0, 1}
    BY <1>5 DEF LogInv, AcceptedWait, Handed
  <2>2. ASSUME NEW i \in 1 .. Len(accepted) + 1
        PROVE  logEntries[(logTail + Handed + i - 1) % LogCapacity]
                  = <<accepted'[i], accepted'[i]>>
    <3>1. CASE i \in 1 .. Len(accepted)
      BY <1>7, <3>1 DEF LogInv, AcceptedWait
    <3>2. CASE i = Len(accepted) + 1
      <4>1. logTail + Handed + i - 1 = logTail + LogCount
        BY <1>5, <1>11, <2>1, <3>2 DEF LogSlot
      <4>2. LogCount \in 0 .. LogCapacity - 1
        BY <1>5, LogPlaces
      <4>3. (logTail + LogCount) % LogCapacity = logHead
        BY <1>5, <4>2, LogPlaces
      <4> QED
        BY <1>7, <1>12, <3>2, <4>1, <4>3
    <3> QED
      BY <2>1, <3>1, <3>2
  <2>3. Len(accepted') = LogCount' - Handed'
    BY <1>7, <1>11, <2>1
  <2> QED
    BY <1>4, <1>7, <1>11, <2>2, <2>3 DEF AcceptedWait
<1> QED
  BY <1>8, <1>9, <1>10, <1>13 DEF LogInv

(* fw_log_flush starts, looks for an entry and reads it. *)
LEMMA FlushReads ==
  ASSUME LogInv,
         (\E n \in FlushLimits : Flush(n)) \/ LogLook \/ FormatMessage \/ FormatLine
  PROVE  LogInv'
<1>1. /\ logHead \in LogSlot /\ logTail \in LogSlot
      /\ logEntries \in [LogSlot -> Message \X Message]
      /\ flush \in [at : {"idle", "look", "message", "line", "hand", "sink"},
                    left : {Unlimited} \cup Nat, line : Seq(Message)]
  BY DEF LogInv, LogTypeOK
<1>2. PICK a \in Message, b \in Message : logEntries[logTail] = <<a, b>>
  BY <1>1
<1> DEFINE reads ==
      /\ UNCHANGED <<logHead, logTail, logEntries, logPost, accepted>>
      /\ flush' \in [at : {"idle", "look", "message", "line", "hand", "sink"},
                      left : {Unlimited} \cup Nat, line : Seq(Message)]
      /\ flush.at # "sink" /\ flush'.at # "sink"
      /\ flush'.at \notin {"idle", "look"} => logTail # logHead
      /\ flush'.at \in {"look", "message"} => flush'.line = <<>>
      /\ flush'.at = "line" => flush'.line = <<b>>
      /\ flush'.at = "hand" => flush'.line = <<b, a>>
<1>3. ASSUME NEW n \in FlushLimits, Flush(n) PROVE reads
  <2>1. n \in Nat
    BY LogAssumption
  <2>2. flush' = [at |-> "look", left |-> IF n = 0 THEN Unlimited ELSE n, line |-> <<>>]
    BY <1>3 DEF Flush
  <2>3. flush.at = "idle" /\ UNCHANGED <<logHead, logTail, logEntries, logPost, accepted>>
    BY <1>3 DEF Flush, FlushStep
  <2> QED
    BY <2>1, <2>2, <2>3 DEF Unlimited
<1>4. ASSUME LogLook PROVE reads
  <2>1. PICK to \in {"idle", "message"} :
          /\ flush' = [flush EXCEPT !.at = to]
          /\ to = "message" => logTail # logHead
    BY <1>4 DEF LogLook
  <2>2. flush.at = "look" /\ UNCHANGED <<logHead, logTail, logEntries, logPost, accepted>>
    BY <1>4 DEF LogLook, FlushStep
  <2>3. flush.line = <<>>
    BY <2>2 DEF LogInv, FlushHolds
  <2>4. /\ flush' \in [at : {"idle", "look", "message", "line", "hand", "sink"},
                        left : {Unlimited} \cup Nat, line : Seq(Message)]
        /\ flush'.at = to /\ flush'.line = <<>>
    BY <1>1, <2>1, <2>3
  <2> QED
    BY <2>1, <2>2, <2>4
<1>5. ASSUME FormatMessage PROVE reads
  <2>1. flush' = [flush EXCEPT !.at = "line", !.line = Append(flush.line, b)]
    BY <1>2, <1>5 DEF FormatMessage, Format
  <2>2. flush.at = "message" /\ UNCHANGED <<logHead, logTail, logEntries, logPost, accepted>>
    BY <1>5 DEF FormatMessage, Format, FlushStep
  <2>3. flush.line = <<>> /\ logTail # logHead
    BY <2>2 DEF LogInv, FlushHolds
  <2>4. Append(flush.line, b) = <<b>> /\ <<b>> \in Seq(Message)
    BY <2>3
  <2>5. /\ flush' \in [at : {"idle", "look", "message", "line", "hand", "sink"},
                        left : {Unlimited} \cup Nat, line : Seq(Message)]
        /\ flush'.at = "line" /\ flush'.line = <<b>>
    BY <1>1, <2>1, <2>4
  <2> QED
    BY <2>2, <2>3, <2>5
<1>6. ASSUME FormatLine PROVE reads
  <2>1. flush' = [flush EXCEPT !.at = "hand", !.line = Append(flush.line, a)]
    BY <1>2, <1>6 DEF FormatLine, Format
  <2>2. flush.at = "line" /\ UNCHANGED <<logHead, logTail, logEntries, logPost, accepted>>
    BY <1>6 DEF FormatLine, Format, FlushStep
  <2>3. flush.line = <<b>> /\ logTail # logHead
    BY <1>2, <2>2 DEF LogInv, FlushHolds
  <2>4. Append(flush.line, a) = <<b, a>> /\ <<b, a>> \in Seq(Message)
    <3>1. <<b>> \in Seq(Message) /\ <<b, a>> \in Seq(Message)
      OBVIOUS
    <3>2. Append(<<b>>, a) = <<b, a>>
      <4>1. Len(<<b>>) = 1 /\ Len(<<b, a>>) = 2
        OBVIOUS
      <4>2. /\ Append(<<b>>, a) \in Seq(Message) /\ Len(Append(<<b>>, a)) = 1 + 1
            /\ \A i \in 1 .. 1 : Append(<<b>>, a)[i] = <<b>>[i]
            /\ Append(<<b>>, a)[1 + 1] = a
        BY <3>1, <4>1, AppendProperties
      <4>3. \A i \in 1 .. 2 : Append(<<b>>, a)[i] = <<b, a>>[i]
        <5>1. Append(<<b>>, a)[1] = b /\ Append(<<b>>, a)[2] = a
          BY <4>2
        <5> QED
          BY <5>1
      <4>4. Len(Append(<<b>>, a)) = Len(<<b, a>>)
        BY <4>1, <4>2
      <4>5. \A i \in 1 .. Len(Append(<<b>>, a)) : Append(<<b>>, a)[i] = <<b, a>>[i]
        BY <4>1, <4>3, <4>4
      <4> QED
        BY <3>1, <4>2, <4>4, <4>5, SeqEqual
    <3> QED
      BY <2>3, <3>1, <3>2
  <2>5. /\ flush' \in [at : {"idle", "look", "message", "line", "hand", "sink"},
                        left : {Unlimited} \cup Nat, line : Seq(Message)]
        /\ flush'.at = "hand" /\ flush'.line = <<b, a>>
    BY <1>1, <2>1, <2>4
  <2> QED
    BY <2>2, <2>3, <2>5
<1>7. reads
  BY <1>3, <1>4, <1>5, <1>6
<1>8. LogTypeOK'
  BY <1>1, <1>7 DEF LogInv, LogTypeOK
<1>9. PostHolds'
  BY <1>7 DEF LogInv, PostHolds, NextSlot
<1>10. FlushHolds'
  BY <1>2, <1>7 DEF FlushHolds
<1>11. AcceptedWait'
  BY <1>7 DEF LogInv, AcceptedWait, LogCount, Handed
<1> QED
  BY <1>8, <1>9, <1>10, <1>11 DEF LogInv

(* A ring whose counters differ holds an entry. *)
LEMMA LogNotEmpty ==
  ASSUME logHead \in LogSlot, logTail \in LogSlot, logTail # logHead
  PROVE  LogCount \in Nat /\ LogCount > 0
<1>1. LogCount = IF logHead < logTail THEN logHead - logTail + LogCapacity
                 ELSE logHead - logTail
  BY LogPlaces
<1> QED
  BY <1>1, LogAssumption DEF LogSlot

(* The line handed to the sink is that of the oldest entry. *)
LEMMA HandKeeps == ASSUME LogInv, Hand PROVE LogInv'
<1>1. /\ UNCHANGED <<logHead, logTail, logEntries, logPost>>
      /\ flush.at = "hand" /\ flush' = [flush EXCEPT !.at = "sink", !.line = <<>>]
      /\ accepted' = Tail(accepted)
  BY DEF Hand, FlushStep
<1>2. /\ logHead \in LogSlot /\ logTail \in LogSlot /\ accepted \in Seq(Message)
      /\ flush \in [at : {"idle", "look", "message", "line", "hand", "sink"},
                    left : {Unlimited} \cup Nat, line : Seq(Message)]
  BY DEF LogInv, LogTypeOK
<1>3. /\ flush' \in [at : {"idle", "look", "message", "line", "hand", "sink"},
                      left : {Unlimited} \cup Nat, line : Seq(Message)]
      /\ flush'.at = "sink" /\ flush'.line = <<>>
  <2>1. <<>> \in Seq(Message)
    OBVIOUS
  <2> QED
    BY <1>1, <1>2, <2>1
<1>4. Handed = 0 /\ Handed' = 1 /\ LogCount' = LogCount
  BY <1>1, <1>3 DEF Handed, LogCount
<1>5. LogCount > 0 /\ Len(accepted) = LogCount
  <2>1. logTail # logHead
    BY <1>1 DEF LogInv, FlushHolds
  <2>2. LogCount > 0 /\ LogCount \in Nat
    BY <1>2, <2>1, LogNotEmpty
  <2> QED
    BY <1>4, <2>2 DEF LogInv, AcceptedWait
<1>6. /\ accepted' \in Seq(Message) /\ Len(accepted') = Len(accepted) - 1
      /\ \A i \in 1 .. Len(accepted') : accepted'[i] = accepted[i + 1]
  BY <1>1, <1>2, <1>5, HeadTailProperties
<1>7. LogTypeOK'
  BY <1>1, <1>3, <1>6 DEF LogInv, LogTypeOK
<1>8. PostHolds'
  BY <1>1 DEF LogInv, PostHolds, NextSlot
<1>9. FlushHolds'
  BY <1>1, <1>3 DEF LogInv, FlushHolds
<1>10. AcceptedWait'
  <2>1. ASSUME NEW i \in 1 .. Len(accepted')
        PROVE  logEntries[(logTail + 1 + i - 1) % LogCapacity] = <<accepted'[i], accepted'[i]>>
    <3>1. i + 1 \in 1 .. Len(accepted) /\ logTail + 0 + (i + 1) - 1 = logTail + 1 + i - 1
      BY <1>2, <1>6 DEF LogSlot
    <3> QED
      BY <1>4, <1>6, <3>1 DEF LogInv, AcceptedWait
  <2> QED
    BY <1>1, <1>4, <1>5, <1>6, <2>1 DEF AcceptedWait
<1> QED
  BY <1>7, <1>8, <1>9, <1>10 DEF LogInv

(* The slot is free once the sink has returned. *)
LEMMA FreeSlotKeeps == ASSUME LogInv, FreeSlot PROVE LogInv'
<1>1. /\ UNCHANGED <<logHead, logEntries, logPost, accepted>>
      /\ flush.at = "sink" /\ logTail' = NextSlot(logTail)
      /\ flush' = [flush EXCEPT !.at = "look", !.left = IF @ = Unlimited THEN @ ELSE @ - 1]
  BY DEF FreeSlot, FlushStep
<1>2. /\ logHead \in LogSlot /\ logTail \in LogSlot /\ accepted \in Seq(Message)
      /\ flush \in [at : {"idle", "look", "message", "line", "hand", "sink"},
                    left : {Unlimited} \cup Nat, line : Seq(Message)]
  BY DEF LogInv, LogTypeOK
<1>3. \A c \in Context : logPost[c] = <<>>
  BY DEF FreeSlot, FlushStep, MainHasCore, Context
<1>4. /\ flush' \in [at : {"idle", "look", "message", "line", "hand", "sink"},
                      left : {Unlimited} \cup Nat, line : Seq(Message)]
      /\ flush'.at = "look"
  <2>1. PICK n \in {Unlimited} \cup Nat : flush' = [flush EXCEPT !.at = "look", !.left = n]
    <3> DEFINE n == IF flush.left = Unlimited THEN flush.left ELSE flush.left - 1
    <3>1. n \in {Unlimited} \cup Nat
      BY <1>2 DEF Unlimited
    <3> QED
      BY <1>1, <3>1
  <2> QED
    BY <1>2, <2>1
<1>5. LogCount > 0 /\ LogCount \in Nat
  <2>1. logTail # logHead
    BY <1>1 DEF LogInv, FlushHolds
  <2> QED
    BY <1>2, <2>1, LogNotEmpty
<1>6. logTail' \in LogSlot /\ logTail' = Wrap(logTail + 1)
  BY <1>1, <1>2, LogPlaces
<1>7. LogCount' = LogCount - 1
  <2>1. LogCount' = IF logHead' < logTail' THEN logHead' - logTail' + LogCapacity
                    ELSE logHead' - logTail'
    <3>1. logHead' \in LogSlot /\ logTail' \in LogSlot
      BY <1>1, <1>2, <1>6
    <3> QED
      BY <3>1, LogPlacesNext
  <2>2. LogCount = IF logHead < logTail THEN logHead - logTail + LogCapacity
                   ELSE logHead - logTail
    BY <1>2, LogPlaces
  <2>3. /\ logHead \in 0 .. LogCapacity - 1 /\ logTail \in 0 .. LogCapacity - 1
        /\ logTail # logHead /\ logHead' = logHead
        /\ logTail' = IF logTail + 1 < LogCapacity THEN logTail + 1 ELSE 0
    BY <1>1, <1>2, <1>6, LogAssumption DEF LogInv, FlushHolds, LogSlot, Wrap
  <2> QED
    BY <2>1, <2>2, <2>3, LogAssumption
<1>8. Handed = 1 /\ Handed' = 0
  BY <1>1, <1>4 DEF Handed
<1>9. LogTypeOK'
  BY <1>1, <1>4, <1>6 DEF LogInv, LogTypeOK
<1>10. PostHolds'
  BY <1>1, <1>3 DEF PostHolds, Context
<1>11. FlushHolds'
  <2>1. flush.line = <<>>
    BY <1>1 DEF LogInv, FlushHolds
  <2>2. flush'.line = flush.line
    BY <1>1, <1>2
  <2> QED
    BY <1>4, <2>1, <2>2 DEF FlushHolds
<1>12. AcceptedWait'
  <2>1. Len(accepted) = LogCount - 1 /\ LogCount \in 0 .. LogCapacity - 1
    BY <1>2, <1>8, LogPlaces DEF LogInv, AcceptedWait
  <2>2. ASSUME NEW i \in 1 .. Len(accepted)
        PROVE  (logTail' + 0 + i - 1) % LogCapacity = (logTail + 1 + i - 1) % LogCapacity
    <3>1. i \in 0 .. LogCapacity - 1 /\ i - 1 \in 0 .. LogCapacity - 1
      BY <2>1, LogAssumption
    <3>2. logTail + 1 + i - 1 = logTail + i /\ logTail' + 0 + i - 1 = logTail' + (i - 1)
      BY <1>2, <1>6, <3>1 DEF LogSlot
    <3>3. logTail' + (i - 1) \in 0 .. 2 * LogCapacity - 1 /\ logTail + i \in 0 .. 2 * LogCapacity - 1
      BY <1>2, <1>6, <3>1, LogAssumption DEF LogSlot
    <3>4. (logTail' + (i - 1)) % LogCapacity = Wrap(logTail' + (i - 1))
          /\ (logTail + i) % LogCapacity = Wrap(logTail + i)
      BY <3>3, WrapsOnce
    <3>5. Wrap(logTail' + (i - 1)) = Wrap(logTail + i)
      BY <1>2, <1>6, <2>1, <3>1, LogAssumption DEF Wrap, LogSlot
    <3> QED
      BY <3>2, <3>4, <3>5
  <2>3. ASSUME NEW i \in 1 .. Len(accepted)
        PROVE  logEntries[(logTail' + 0 + i - 1) % LogCapacity] = <<accepted[i], accepted[i]>>
    BY <1>8, <2>2 DEF LogInv, AcceptedWait
  <2> QED
    BY <1>1, <1>7, <1>8, <2>1, <2>3 DEF AcceptedWait
<1> QED
  BY <1>9, <1>10, <1>11, <1>12 DEF LogInv

(* No step of the log or of those who post to it loses or mixes entries. *)
LEMMA LogSteps == MaskedPosts => (LogInv /\ [LogNext]_logVars => LogInv')
<1> SUFFICES ASSUME MaskedPosts, LogInv, [LogNext]_logVars PROVE LogInv'
  OBVIOUS
<1>1. CASE UNCHANGED logVars
  BY <1>1 DEF logVars, LogInv, LogTypeOK, PostHolds, FlushHolds, AcceptedWait, NextSlot,
              LogCount, Handed
<1> QED
  BY <1>1, LogBeginKeeps, LogWriteKeeps, LogPublishKeeps, FlushReads, HandKeeps, FreeSlotKeeps
  DEF LogNext, LogMain, FlushGoesOn, LogFinish

(* Entry by entry, what waits is what was accepted. *)
LEMMA KeptFromInv == LogInv => LogKept
<1> SUFFICES ASSUME LogInv PROVE LogKept
  OBVIOUS
<1> DEFINE pairs == [i \in DOMAIN accepted |-> <<accepted[i], accepted[i]>>]
<1>1. /\ logHead \in LogSlot /\ logTail \in LogSlot /\ accepted \in Seq(Message)
      /\ logEntries \in [LogSlot -> Message \X Message]
  BY DEF LogInv, LogTypeOK
<1>2. LogCount \in 0 .. LogCapacity - 1
  BY <1>1, LogPlaces
<1>3. Waiting \in Seq(Message \X Message) /\ Len(Waiting) = LogCount
      /\ \A i \in 1 .. LogCount : Waiting[i] = logEntries[(logTail + i - 1) % LogCapacity]
  <2>1. ASSUME NEW i \in 1 .. LogCount
        PROVE  (logTail + i - 1) % LogCapacity \in LogSlot
    <3>1. i - 1 \in 0 .. LogCapacity - 1 /\ logTail + (i - 1) = logTail + i - 1
      BY <1>1, <1>2, LogAssumption DEF LogSlot
    <3> QED
      BY <1>1, <3>1, LogPlaces
  <2>2. Waiting \in [1 .. LogCount -> Message \X Message]
    BY <1>1, <2>1 DEF Waiting
  <2> QED
    BY <1>2, <2>2 DEF Waiting
<1>4. pairs \in Seq(Message \X Message) /\ Len(pairs) = Len(accepted)
      /\ \A i \in 1 .. Len(accepted) : pairs[i] = <<accepted[i], accepted[i]>>
  <2>1. DOMAIN accepted = 1 .. Len(accepted) /\ Len(accepted) \in Nat
        /\ \A i \in 1 .. Len(accepted) : accepted[i] \in Message
    BY <1>1
  <2>2. pairs \in [1 .. Len(accepted) -> Message \X Message]
    BY <2>1
  <2> QED
    BY <2>1, <2>2
<1>5. Len(accepted) = LogCount - Handed /\ Len(accepted) \in Nat
  BY <1>1 DEF LogInv, AcceptedWait
<1> HIDE DEF pairs
<1>6. (IF flush.at = "sink" THEN Tail(Waiting) ELSE Waiting) = pairs
  <2>1. CASE flush.at = "sink"
    <3>1. Handed = 1
      BY <2>1 DEF Handed
    <3>2. Waiting # <<>>
      <4>1. logTail # logHead
        BY <2>1 DEF LogInv, FlushHolds
      <4> QED
        BY <1>1, <1>3, <4>1, LogNotEmpty
    <3>3. /\ Tail(Waiting) \in Seq(Message \X Message) /\ Len(Tail(Waiting)) = Len(Waiting) - 1
          /\ \A i \in 1 .. Len(Tail(Waiting)) : Tail(Waiting)[i] = Waiting[i + 1]
      BY <1>3, <3>2, HeadTailProperties
    <3>4. ASSUME NEW i \in 1 .. Len(Tail(Waiting)) PROVE Tail(Waiting)[i] = pairs[i]
      <4>1. i \in 1 .. Len(accepted) /\ i + 1 \in 1 .. LogCount
            /\ logTail + 1 + i - 1 = logTail + (i + 1) - 1
        BY <1>1, <1>2, <1>3, <1>5, <3>1, <3>3 DEF LogSlot
      <4>2. logEntries[(logTail + 1 + i - 1) % LogCapacity] = <<accepted[i], accepted[i]>>
        BY <3>1, <4>1 DEF LogInv, AcceptedWait
      <4> QED
        BY <1>3, <1>4, <3>3, <4>1, <4>2
    <3>5. Len(Tail(Waiting)) = Len(pairs)
      BY <1>3, <1>4, <1>5, <3>1, <3>3
    <3> QED
      BY <1>4, <2>1, <3>3, <3>4, <3>5, SeqEqual
  <2>2. CASE flush.at # "sink"
    <3>1. Handed = 0
      BY <2>2 DEF Handed
    <3>2. Len(Waiting) = Len(accepted)
      BY <1>2, <1>3, <1>5, <3>1
    <3>3. ASSUME NEW i \in 1 .. Len(Waiting) PROVE Waiting[i] = pairs[i]
      <4>1. i \in 1 .. Len(accepted) /\ logTail + 0 + i - 1 = logTail + i - 1
        BY <1>1, <3>2 DEF LogSlot
      <4>2. logEntries[(logTail + 0 + i - 1) % LogCapacity] = <<accepted[i], accepted[i]>>
        BY <3>1, <4>1 DEF LogInv, AcceptedWait
      <4> QED
        BY <1>3, <1>4, <4>1, <4>2
    <3> QED
      BY <1>3, <1>4, <2>2, <3>2, <3>3, SeqEqual
  <2> QED
    BY <2>1, <2>2
<1>7. flush.at = "hand" => flush.line = <<accepted[1], accepted[1]>>
  <2> SUFFICES ASSUME flush.at = "hand" PROVE flush.line = <<accepted[1], accepted[1]>>
    OBVIOUS
  <2>1. flush.line = <<logEntries[logTail][2], logEntries[logTail][1]>> /\ logTail # logHead
    BY DEF LogInv, FlushHolds
  <2>2. Handed = 0 /\ 1 \in 1 .. Len(accepted)
    BY <1>1, <1>5, <2>1, LogNotEmpty DEF Handed
  <2>3. (logTail + 0 + 1 - 1) % LogCapacity = logTail
    <3>1. logTail + 0 + 1 - 1 = logTail + 0 /\ logTail + 0 = logTail /\ Wrap(logTail + 0) = logTail
      BY <1>1, LogAssumption DEF Wrap, LogSlot
    <3>2. 0 \in 0 .. LogCapacity - 1
      BY LogAssumption
    <3>3. (logTail + 0) % LogCapacity = Wrap(logTail + 0)
      BY <1>1, <3>2, LogPlaces
    <3> QED
      BY <3>1, <3>3
  <2>4. logEntries[logTail] = <<accepted[1], accepted[1]>>
    <3>1. logEntries[(logTail + 0 + 1 - 1) % LogCapacity] = <<accepted[1], accepted[1]>>
      BY <2>2 DEF LogInv, AcceptedWait
    <3> QED
      BY <2>3, <3>1
  <2> QED
    BY <2>1, <2>4
<1> QED
  BY <1>6, <1>7 DEF LogKept, pairs

(* What was posted and found room reaches the sink once, in order and       *)
(* whole, for every capacity, message and limit of the flushes, over the   *)
(* wrap and with a sink that logs, when the main thread masks interrupts   *)
(* while it posts (log.c:43, 74-97).                                       *)
THEOREM LogStaysKept == MaskedPosts => (LogSpec => []LogKept)
<1> SUFFICES ASSUME MaskedPosts PROVE LogSpec => []LogKept
  OBVIOUS
<1>1. LogInv /\ [LogNext]_logVars => LogInv'
  BY LogSteps
<1> QED
  BY LogStarts, KeptFromInv, <1>1, PTL DEF LogSpec
-----------------------------------------------------------------------------
(* The accounts of the power manager. *)

(* A share of a time is never more than a thousand permille of it. *)
LEMMA ShareInPermille ==
  ASSUME NEW a \in Nat, NEW t \in Nat, t > 0, a <= t
  PROVE  (1000 * a) \div t \in 0 .. 1000
<1> DEFINE q == (1000 * a) \div t
           r == (1000 * a) % t
<1>1. q \in Nat /\ r \in 0 .. t - 1 /\ 1000 * a = (t * q) + r
  BY SMT
<1> HIDE DEF q, r
<1>2. q >= 1001 => t * q >= t * 1001
  BY <1>1
<1>3. q <= 1000
  BY <1>1, <1>2
<1> QED
  BY <1>1, <1>3 DEF q

(* Nothing is charged before fw_pm_init. *)
LEMMA PowerStarts == PowerInit => PowerInv
  BY PowerAssumption DEF PowerInit, PowerInv

(* While the millisecond counter has not wrapped, what was charged is below *)
(* the range of the clock, and no arithmetic on it wraps.                  *)
LEMMA NoWrapInside ==
  ASSUME PowerInv, ~Wrapped, NEW since, Charged(since)
  PROVE  /\ Micros \in Nat /\ MicrosSince(since) = Micros - since
         /\ (active + MicrosSince(since)) % MicroRange = active + (Micros - since)
         /\ 1000 * 1000 * period < MicroRange
<1> USE PowerAssumption
<1>1. /\ active \in Nat /\ asleep \in Nat /\ since \in Nat /\ since <= Micros
      /\ active + asleep + (Micros - since) = 1000 * period
  BY DEF Charged
<1>2. /\ millis \in 0 .. MilliRange - 1 /\ period \in 0 .. PeriodLimit
  BY DEF PowerInv
<1>3. Micros \in Nat /\ Micros < MicroRange
  BY <1>2 DEF Micros
<1>4. Micros - since \in 0 .. MicroRange - 1
  BY <1>1, <1>3
<1>5. MicrosSince(since) = Micros - since
  BY <1>4 DEF MicrosSince
<1>6. 1000 * 1000 * period < MicroRange
  BY <1>2
<1>7. active + (Micros - since) \in 0 .. MicroRange - 1
  BY <1>1, <1>2, <1>3, <1>6
<1> QED
  BY <1>3, <1>5, <1>6, <1>7

(* Ticks, sleeps and wake-ups charge each stretch to one account. *)
LEMMA PowerSteps == PowerInv /\ [PowerNext]_powerVars => PowerInv'
<1> SUFFICES ASSUME PowerInv, [PowerNext]_powerVars PROVE PowerInv'
  OBVIOUS
<1> USE PowerAssumption
<1>0. millis \in 0 .. MilliRange - 1 /\ period \in 0 .. PeriodLimit
  BY DEF PowerInv
<1>1. CASE SysTick
  <2>1. /\ millis' \in 0 .. MilliRange - 1 /\ period' \in 0 .. PeriodLimit
        /\ period' = period + 1 /\ UNCHANGED <<lastWake, active, asleep, powerPc, entered>>
    BY <1>0, <1>1 DEF SysTick
  <2>2. ~Wrapped' => ~Wrapped /\ millis' = millis + 1
    <3> SUFFICES ASSUME ~Wrapped' PROVE ~Wrapped /\ millis' = millis + 1
      OBVIOUS
    <3>1. millis' = (millis + 1) % MilliRange /\ period' = period + 1
      BY <1>1 DEF SysTick
    <3>2. CASE millis + 1 = MilliRange
      <4>1. millis' = 0
        BY <3>1, <3>2
      <4> QED
        BY <1>0, <3>1, <4>1 DEF Wrapped
    <3>3. CASE millis + 1 # MilliRange
      <4>1. millis + 1 \in 0 .. MilliRange - 1
        BY <1>0, <3>3
      <4>2. millis' = millis + 1
        BY <3>1, <4>1
      <4> QED
        BY <1>0, <3>1, <4>2 DEF Wrapped
    <3> QED
      BY <3>2, <3>3
  <2>3. ASSUME ~Wrapped', Charged(lastWake) PROVE Charged(lastWake)'
    BY <1>0, <2>1, <2>2, <2>3 DEF Charged, Micros
  <2>4. ASSUME ~Wrapped', Charged(entered) PROVE Charged(entered)'
    BY <1>0, <2>1, <2>2, <2>4 DEF Charged, Micros
  <2> QED
    BY <2>1, <2>2, <2>3, <2>4 DEF PowerInv
<1>2. CASE StartPeriod
  BY <1>0, <1>2 DEF StartPeriod, PowerInv, Charged, Micros
<1>3. CASE FallAsleep
  <2>1. /\ powerPc = "awake" /\ powerPc' = "asleep" /\ entered' = Micros
        /\ active' = (active + MicrosSince(lastWake)) % MicroRange
        /\ UNCHANGED <<millis, period, asleep>>
    BY <1>3 DEF FallAsleep, clock
  <2>2. ASSUME ~Wrapped PROVE Charged(entered)'
    <3>1. Charged(lastWake)
      BY <2>1, <2>2 DEF PowerInv
    <3>2. Micros \in Nat /\ active' = active + (Micros - lastWake)
      BY <2>1, <2>2, <3>1, NoWrapInside
    <3>3. Micros' = Micros
      BY <2>1 DEF Micros
    <3>4. /\ active \in Nat /\ asleep \in Nat /\ lastWake \in Nat /\ lastWake <= Micros
          /\ active + asleep + (Micros - lastWake) = 1000 * period
      BY <3>1 DEF Charged
    <3>5. /\ active' \in Nat /\ asleep' \in Nat /\ entered' \in Nat /\ entered' <= Micros'
          /\ active' + asleep' + (Micros' - entered') = 1000 * period'
      BY <1>0, <2>1, <3>2, <3>3, <3>4
    <3> QED
      BY <3>5 DEF Charged
  <2> QED
    BY <1>0, <2>1, <2>2 DEF PowerInv, Wrapped
<1>4. CASE WakeUp
  <2>1. /\ powerPc = "asleep" /\ powerPc' = "awake" /\ lastWake' = Micros
        /\ asleep' = asleep + Slept
        /\ UNCHANGED <<millis, period, active>>
    BY <1>4 DEF WakeUp, clock
  <2>2. ASSUME ~Wrapped PROVE Charged(lastWake)'
    <3>1. Charged(entered)
      BY <2>1, <2>2 DEF PowerInv
    <3>2. /\ active \in Nat /\ asleep \in Nat /\ entered \in Nat /\ entered <= Micros
          /\ active + asleep + (Micros - entered) = 1000 * period
      BY <3>1 DEF Charged
    <3>3. Micros \in Nat /\ Micros' = Micros
      BY <1>0, <2>1 DEF Micros
    <3>4. asleep' = asleep + (Micros - entered)
      BY <2>1, <3>2, <3>3 DEF Slept
    <3>5. /\ active' \in Nat /\ asleep' \in Nat /\ lastWake' \in Nat /\ lastWake' <= Micros'
          /\ active' + asleep' + (Micros' - lastWake') = 1000 * period'
      BY <1>0, <2>1, <3>2, <3>3, <3>4
    <3> QED
      BY <3>5 DEF Charged
  <2> QED
    BY <1>0, <2>1, <2>2 DEF PowerInv, Wrapped
<1>5. CASE UNCHANGED powerVars
  BY <1>5 DEF Wrapped, powerVars, clock, PowerInv, Charged, Micros
<1> QED
  BY <1>1, <1>2, <1>3, <1>4, <1>5 DEF PowerNext

(* Active and sleeping time add up to the time since fw_pm_init and the     *)
(* load is a number of permille, for every range of the two counters and   *)
(* however sleeps, ticks and questions interleave, until the millisecond   *)
(* counter wraps (power.c).                                                *)
THEOREM TimeStaysAccounted == PowerInit /\ [][PowerNext]_powerVars => []TimeAccounted
<1>1. PowerInv => TimeAccounted
  <2> SUFFICES ASSUME PowerInv, powerPc = "awake", ~Wrapped
               PROVE  ActiveSoFar + asleep = 1000 * period /\ Load \in 0 .. 1000
    BY DEF TimeAccounted
  <2> USE PowerAssumption
  <2>1. Charged(lastWake) /\ period \in Nat
    BY DEF PowerInv
  <2>2. /\ active \in Nat /\ asleep \in Nat /\ lastWake \in Nat /\ lastWake <= Micros
        /\ active + asleep + (Micros - lastWake) = 1000 * period
    BY <2>1 DEF Charged
  <2>3. /\ Micros \in Nat /\ ActiveSoFar = active + (Micros - lastWake)
        /\ 1000 * 1000 * period < MicroRange
    BY <2>1, NoWrapInside DEF ActiveSoFar
  <2>4. /\ ActiveSoFar \in Nat /\ ActiveSoFar + asleep = 1000 * period
        /\ ActiveSoFar <= 1000 * period
    BY <2>1, <2>2, <2>3
  <2>5. (ActiveSoFar + asleep) % MicroRange = 1000 * period
    <3>1. 1000 * period \in 0 .. MicroRange - 1
      BY <2>1, <2>3
    <3> QED
      BY <2>4, <3>1
  <2>6. (1000 * ActiveSoFar) % MicroRange = 1000 * ActiveSoFar
    <3>1. 1000 * ActiveSoFar \in 0 .. MicroRange - 1
      BY <2>1, <2>3, <2>4
    <3> QED
      BY <3>1
  <2>7. Load = IF 1000 * period > 0 THEN (1000 * ActiveSoFar) \div (1000 * period) ELSE 0
    BY <2>5, <2>6 DEF Load
  <2>8. 1000 * period \in Nat
    BY <2>1
  <2>9. 1000 * period > 0 => (1000 * ActiveSoFar) \div (1000 * period) \in 0 .. 1000
    BY <2>4, <2>8, ShareInPermille, SMTT(30)
  <2> QED
    BY <2>4, <2>7, <2>9
<1> QED
  BY PowerStarts, PowerSteps, <1>1, PTL
-----------------------------------------------------------------------------
(* The waits of the timer. *)

(* The ticks between two readings of a counter that wrapped once at most. *)
LEMMA ElapsedTicks ==
  ASSUME NEW x \in Uptime, NEW s \in Uptime
  PROVE  (x - s) % UptimeRange = IF x >= s THEN x - s ELSE x - s + UptimeRange
<1> DEFINE n == UptimeRange
           d == x - s
           q == d \div n
           r == d % n
<1>1. n \in Nat \ {0} /\ x \in 0 .. n - 1 /\ s \in 0 .. n - 1
  BY WaitsAssumption DEF Uptime
<1>2. d \in Int /\ d > -n /\ d < n
  BY <1>1
<1> HIDE DEF n, d
<1>3. q \in Int /\ r \in 0 .. n - 1 /\ d = (n * q) + r
  BY <1>1, <1>2, SMT
<1> HIDE DEF q, r
<1>4. q >= 1 => n * q >= n
  BY <1>1, <1>3
<1>5. q <= -2 => n * q <= n * (-2)
  BY <1>1, <1>3
<1>6. q = 0 \/ q = -1
  BY <1>1, <1>2, <1>3, <1>4, <1>5
<1>7. r = IF d >= 0 THEN d ELSE d + n
  BY <1>1, <1>2, <1>3, <1>6
<1>8. d >= 0 <=> x >= s
  BY <1>1 DEF d
<1> QED
  BY <1>7, <1>8 DEF n, d, r

(* A tick adds one to the ticks since any reading, before they wrap. *)
LEMMA TickAddsOne ==
  ASSUME NEW x \in Uptime, NEW s \in Uptime
  PROVE  /\ (x + 1) % UptimeRange \in Uptime
         /\ (x - s) % UptimeRange \in Uptime
         /\ ((x - s) % UptimeRange) + 1 < UptimeRange =>
              (((x + 1) % UptimeRange) - s) % UptimeRange = ((x - s) % UptimeRange) + 1
<1> USE WaitsAssumption
<1>1. (x + 1) % UptimeRange = IF x + 1 = UptimeRange THEN 0 ELSE x + 1
  BY DEF Uptime
<1>2. (x + 1) % UptimeRange \in Uptime
  BY <1>1 DEF Uptime
<1> DEFINE y == (x + 1) % UptimeRange
<1>3. (x - s) % UptimeRange = IF x >= s THEN x - s ELSE x - s + UptimeRange
  BY ElapsedTicks
<1>4. (y - s) % UptimeRange = IF y >= s THEN y - s ELSE y - s + UptimeRange
  BY <1>2, ElapsedTicks
<1> DEFINE before == (x - s) % UptimeRange
           after == (y - s) % UptimeRange
<1>5. before = IF x >= s THEN x - s ELSE x - s + UptimeRange
  BY <1>3
<1>6. after = IF y >= s THEN y - s ELSE y - s + UptimeRange
  BY <1>4
<1>7. y = IF x + 1 = UptimeRange THEN 0 ELSE x + 1
  BY <1>1
<1> HIDE DEF before, after, y
<1>8. before \in Uptime /\ (before + 1 < UptimeRange => after = before + 1)
  BY <1>5, <1>6, <1>7 DEF Uptime
<1> QED
  BY <1>2, <1>8 DEF before, after, y

(* Nothing waits at first, and what was started now is not old. *)
LEMMA WaitsStart == WaitInit => WaitsInv
<1> SUFFICES ASSUME WaitInit PROVE WaitsInv
  OBVIOUS
<1>1. uptime \in Uptime /\ 0 \in Uptime
  BY WaitsAssumption DEF WaitInit, Uptime
<1>2. Elapsed(uptime) = 0
  BY <1>1, ElapsedTicks DEF Elapsed, Uptime
<1> QED
  BY <1>1, <1>2, WaitsAssumption
     DEF WaitInit, WaitsInv, DelayOnTime, TimeoutOnTime, Timeout, Uptime

(* The ages keep up with the counter, and the loop looks in time. *)
LEMMA WaitsStep == WaitsInv /\ [WaitNext]_waitVars => WaitsInv'
<1> SUFFICES ASSUME WaitsInv, [WaitNext]_waitVars PROVE WaitsInv'
  OBVIOUS
<1> USE WaitsAssumption
<1>0. /\ uptime \in Uptime
      /\ delay \in [start : Uptime, ms : 0 .. MaxDelay, waiting : BOOLEAN,
                    age : Nat, lag : 0 .. LookLag]
      /\ delay.age <= delay.ms + delay.lag
      /\ delay.waiting => Elapsed(delay.start) = delay.age
      /\ ~delay.waiting => delay.age >= delay.ms
      /\ timeout \in [start : Uptime, duration : Uptime, age : 0 .. UptimeRange]
      /\ timeout.age < UptimeRange => Elapsed(timeout.start) = timeout.age
  BY DEF WaitsInv, DelayOnTime, TimeoutOnTime
<1> DEFINE Now(s) == (uptime - s) % UptimeRange
<1>1. Elapsed(delay.start) = Now(delay.start) /\ Elapsed(timeout.start) = Now(timeout.start)
  BY DEF Elapsed
<1>2. CASE Uptick
  <2>1. /\ uptime' = (uptime + 1) % UptimeRange
        /\ timeout' = [timeout EXCEPT !.age = Older(@)]
    BY <1>2 DEF Uptick
  <2>2. uptime' \in Uptime
    BY <1>0, <2>1, TickAddsOne
  <2>3. TimeoutOnTime'
    <3>1. /\ timeout'.start = timeout.start /\ timeout'.age = Older(timeout.age)
          /\ timeout' \in [start : Uptime, duration : Uptime, age : 0 .. UptimeRange]
      BY <1>0, <2>1 DEF Older
    <3>2. ASSUME timeout'.age < UptimeRange PROVE Elapsed(timeout.start)' = timeout'.age
      <4>1. timeout.age < UptimeRange /\ timeout'.age = timeout.age + 1
        BY <1>0, <3>1, <3>2 DEF Older
      <4>2. Now(timeout.start) = timeout.age
        BY <1>0, <1>1, <4>1
      <4>3. (((uptime + 1) % UptimeRange) - timeout.start) % UptimeRange = timeout.age + 1
        BY <1>0, <3>2, <4>1, <4>2, TickAddsOne
      <4> QED
        BY <2>1, <3>1, <4>1, <4>3 DEF Elapsed
    <3> QED
      BY <3>1, <3>2 DEF TimeoutOnTime
  <2>4. DelayOnTime'
    <3>1. CASE ~delay.waiting
      <4>1. delay' = delay
        BY <1>2, <3>1 DEF Uptick
      <4> QED
        BY <1>0, <3>1, <4>1 DEF DelayOnTime
    <3>2. CASE delay.waiting
      <4>1. /\ delay' = [delay EXCEPT !.age = @ + 1, !.lag = @ + 1]
            /\ delay.lag < LookLag
        BY <1>2, <3>2 DEF Uptick
      <4> DEFINE aged == delay.age + 1
                 lagging == delay.lag + 1
      <4>6. delay' = [delay EXCEPT !.age = aged, !.lag = lagging]
        BY <4>1
      <4>7. aged \in Nat /\ lagging \in 0 .. LookLag
        BY <1>0, <4>1
      <4> HIDE DEF aged, lagging
      <4>8. /\ delay'.start = delay.start /\ delay'.ms = delay.ms
            /\ delay'.waiting = delay.waiting
            /\ delay'.age = aged /\ delay'.lag = lagging
            /\ delay' \in [start : Uptime, ms : 0 .. MaxDelay, waiting : BOOLEAN,
                           age : Nat, lag : 0 .. LookLag]
        BY <1>0, <4>6, <4>7
      <4>2. /\ delay'.start = delay.start /\ delay'.ms = delay.ms
            /\ delay'.waiting = delay.waiting
            /\ delay'.age = delay.age + 1 /\ delay'.lag = delay.lag + 1
            /\ delay' \in [start : Uptime, ms : 0 .. MaxDelay, waiting : BOOLEAN,
                           age : Nat, lag : 0 .. LookLag]
        BY <4>8 DEF aged, lagging
      <4>3. Now(delay.start) = delay.age /\ delay.age + 1 < UptimeRange
        BY <1>0, <1>1, <3>2, <4>1
      <4>4. (((uptime + 1) % UptimeRange) - delay.start) % UptimeRange = delay.age + 1
        BY <1>0, <4>3, TickAddsOne
      <4>5. Elapsed(delay.start)' = delay'.age
        BY <2>1, <4>2, <4>4 DEF Elapsed
      <4> QED
        BY <1>0, <4>2, <4>5 DEF DelayOnTime
    <3> QED
      BY <3>1, <3>2
  <2> QED
    BY <2>2, <2>3, <2>4 DEF WaitsInv
<1>3. ASSUME NEW ms \in 0 .. UptimeRange - 1, StartTimeout(ms) PROVE WaitsInv'
  <2>1. timeout' = Timeout(ms) /\ uptime' = uptime /\ delay' = delay
    BY <1>3 DEF StartTimeout
  <2>2. (uptime - uptime) % UptimeRange = 0
    BY <1>0, ElapsedTicks DEF Uptime
  <2>3. TimeoutOnTime'
    BY <1>0, <2>1, <2>2 DEF TimeoutOnTime, Timeout, Elapsed, Uptime
  <2>4. DelayOnTime'
    BY <2>1 DEF WaitsInv, DelayOnTime, Elapsed
  <2> QED
    BY <1>0, <2>1, <2>3, <2>4 DEF WaitsInv
<1>4. ASSUME NEW ms \in 0 .. MaxDelay, StartDelay(ms) PROVE WaitsInv'
  <2>1. /\ delay' = [start |-> uptime, ms |-> ms, waiting |-> TRUE, age |-> 0, lag |-> 0]
        /\ uptime' = uptime /\ timeout' = timeout
    BY <1>4 DEF StartDelay
  <2>2. (uptime - uptime) % UptimeRange = 0
    BY <1>0, ElapsedTicks DEF Uptime
  <2>3. DelayOnTime'
    BY <1>0, <2>1, <2>2 DEF DelayOnTime, Elapsed
  <2>4. TimeoutOnTime'
    BY <2>1 DEF WaitsInv, TimeoutOnTime, Elapsed
  <2> QED
    BY <1>0, <2>1, <2>3, <2>4 DEF WaitsInv
<1>5. CASE SpinOn
  <2>1. /\ delay.waiting /\ ~(Elapsed(delay.start) >= delay.ms)
        /\ delay' = [delay EXCEPT !.lag = 0] /\ uptime' = uptime /\ timeout' = timeout
    BY <1>5 DEF SpinOn, Expired
  <2>2. /\ delay'.start = delay.start /\ delay'.ms = delay.ms /\ delay'.waiting
        /\ delay'.age = delay.age /\ delay'.lag = 0
        /\ delay' \in [start : Uptime, ms : 0 .. MaxDelay, waiting : BOOLEAN,
                       age : Nat, lag : 0 .. LookLag]
    BY <1>0, <2>1
  <2>3. Elapsed(delay.start)' = Elapsed(delay.start) /\ delay.age < delay.ms
    BY <1>0, <2>1, <2>2 DEF Elapsed
  <2>4. DelayOnTime'
    BY <1>0, <2>1, <2>2, <2>3 DEF DelayOnTime
  <2>5. TimeoutOnTime'
    BY <2>1 DEF WaitsInv, TimeoutOnTime, Elapsed
  <2> QED
    BY <1>0, <2>1, <2>4, <2>5 DEF WaitsInv
<1>6. CASE EndDelay
  <2>1. /\ delay.waiting /\ Elapsed(delay.start) >= delay.ms
        /\ delay' = [delay EXCEPT !.waiting = FALSE] /\ uptime' = uptime /\ timeout' = timeout
    BY <1>6 DEF EndDelay, Expired
  <2>2. DelayOnTime'
    BY <1>0, <2>1 DEF DelayOnTime
  <2>3. TimeoutOnTime'
    BY <2>1 DEF WaitsInv, TimeoutOnTime, Elapsed
  <2> QED
    BY <1>0, <2>1, <2>2, <2>3 DEF WaitsInv
<1>7. CASE UNCHANGED waitVars
  BY <1>7 DEF waitVars, WaitsInv, DelayOnTime, TimeoutOnTime, Elapsed
<1> QED
  BY <1>2, <1>3, <1>4, <1>5, <1>6, <1>7 DEF WaitNext

(* A delay never returns early nor later than its loop is kept from        *)
(* looking, and a timeout asked within one range of the counter knows      *)
(* whether it has expired and what is left of it, for every range, delay   *)
(* and lag, wherever the counter wraps (timer.c:119, timer.h:41).          *)
THEOREM WaitsStayRight == WaitInit /\ [][WaitNext]_waitVars => []WaitsRight
<1>1. WaitsInv => WaitsRight
  <2> SUFFICES ASSUME WaitsInv PROVE WaitsRight
    OBVIOUS
  <2>1. /\ delay.age \in Nat /\ delay.ms \in Nat /\ delay.lag \in 0 .. LookLag
        /\ delay.age <= delay.ms + delay.lag
        /\ ~delay.waiting => delay.age >= delay.ms
    BY WaitsAssumption DEF WaitsInv, DelayOnTime
  <2>2. /\ timeout.age \in Nat /\ timeout.duration \in Nat
        /\ timeout.age < UptimeRange => Elapsed(timeout.start) = timeout.age
    BY WaitsAssumption DEF WaitsInv, TimeoutOnTime, Uptime
  <2> QED
    BY <2>1, <2>2, WaitsAssumption DEF WaitsRight, Expired, Remaining
<1> QED
  BY WaitsStart, WaitsStep, <1>1, PTL
-----------------------------------------------------------------------------
(* The weight of a sample is a number that can divide. *)
LEMMA WeightIs ==
  ASSUME NEW k \in 0 .. 15
  PROVE  2^k \in Nat \ {0}
<1>1. /\ 2^0 \in Nat \ {0} /\ 2^1 \in Nat \ {0} /\ 2^2 \in Nat \ {0} /\ 2^3 \in Nat \ {0}
      /\ 2^4 \in Nat \ {0} /\ 2^5 \in Nat \ {0} /\ 2^6 \in Nat \ {0} /\ 2^7 \in Nat \ {0}
      /\ 2^8 \in Nat \ {0} /\ 2^9 \in Nat \ {0} /\ 2^10 \in Nat \ {0} /\ 2^11 \in Nat \ {0}
      /\ 2^12 \in Nat \ {0} /\ 2^13 \in Nat \ {0} /\ 2^14 \in Nat \ {0} /\ 2^15 \in Nat \ {0}
  OBVIOUS
<1>2. \/ k = 0 \/ k = 1 \/ k = 2 \/ k = 3
      \/ k = 4 \/ k = 5 \/ k = 6 \/ k = 7
      \/ k = 8 \/ k = 9 \/ k = 10 \/ k = 11
      \/ k = 12 \/ k = 13 \/ k = 14 \/ k = 15
  OBVIOUS
<1> QED
  BY <1>1, <1>2, Zenon

(* A part of a difference is no more than the difference, and not beyond 0. *)
LEMMA PartOf ==
  ASSUME NEW d \in Int, NEW w \in Nat \ {0}
  PROVE  /\ d \div w \in Int
         /\ d >= 0 => 0 <= d \div w /\ d \div w <= d
         /\ d <= 0 => d <= d \div w /\ d \div w <= 0
<1> DEFINE q == d \div w
<1>1. q \in Int /\ w * q <= d /\ d < (w * q) + w
  BY SMT
<1> HIDE DEF q
<1>2. ASSUME d >= 0 PROVE 0 <= q /\ q <= d
  <2>1. q <= -1 => w * q <= -w
    BY <1>1
  <2>2. q >= 0
    BY <1>1, <1>2, <2>1
  <2>3. w * q >= q
    BY <1>1, <2>2
  <2> QED
    BY <1>1, <2>2, <2>3
<1>3. ASSUME d <= 0 PROVE d <= q /\ q <= 0
  <2>1. q >= 1 => w * q >= w
    BY <1>1
  <2>2. q <= 0
    BY <1>1, <1>3, <2>1
  <2>3. q + 1 <= d => w * (q + 1) <= q + 1
    BY <1>1, <1>3
  <2>4. w * (q + 1) = (w * q) + w
    BY <1>1
  <2>5. d <= q
    BY <1>1, <2>3, <2>4
  <2> QED
    BY <2>2, <2>5
<1> QED
  BY <1>1, <1>2, <1>3 DEF q

LEMMA AlphaWeight == 2^AlphaShift \in Nat \ {0}
<1>1. AlphaShift \in 0 .. 15
  BY FilterAssumption
<1> QED
  BY <1>1, WeightIs, Zenon

(* The average moves towards the sample and stops there at the latest. *)
LEMMA EmaBetween ==
  ASSUME NEW current \in Nat, NEW sample \in Nat, current < 65536, sample < 65536
  PROVE  /\ Ema(current, sample) \in Nat
         /\ \/ current <= Ema(current, sample) /\ Ema(current, sample) <= sample
            \/ sample <= Ema(current, sample) /\ Ema(current, sample) <= current
<1> DEFINE d == sample - current
           w == 2^AlphaShift
           p == d \div w
           n == current + p
<1>1. w \in Nat \ {0}
  BY AlphaWeight
<1>2. d \in Int
  OBVIOUS
<1>3. Ema(current, sample) = n % 65536
  BY DEF Ema
<1> HIDE DEF w, d
<1>4. /\ p \in Int
      /\ d >= 0 => 0 <= p /\ p <= d
      /\ d <= 0 => d <= p /\ p <= 0
  BY <1>1, <1>2, PartOf
<1> HIDE DEF p
<1>5. n \in Nat /\ n < 65536
  BY <1>2, <1>4 DEF d
<1>6. (current <= n /\ n <= sample) \/ (sample <= n /\ n <= current)
  BY <1>2, <1>4 DEF d
<1>7. n % 65536 = n
  <2> HIDE DEF n
  <2> QED
    BY <1>5
<1> HIDE DEF n
<1> QED
  BY <1>3, <1>5, <1>6, <1>7
-----------------------------------------------------------------------------
(* A set within one or two elements has as many at most. *)
LEMMA AtMostTwo ==
  ASSUME NEW x, NEW y, NEW S \in SUBSET {x, y}
  PROVE  Cardinality(S) \in 0 .. 2
<1>1. IsFiniteSet({x}) /\ Cardinality({x}) = 1
  BY FS_Singleton
<1>2. IsFiniteSet({x} \cup {y}) /\ Cardinality({x} \cup {y}) \in 1 .. 2
  BY <1>1, FS_AddElement
<1>3. {x} \cup {y} = {x, y}
  OBVIOUS
<1>4. Cardinality(S) \in Nat /\ Cardinality(S) <= Cardinality({x, y})
  BY <1>2, <1>3, FS_Subset, FS_CardinalityType
<1> QED
  BY <1>2, <1>3, <1>4

LEMMA AtMostOne ==
  ASSUME NEW x, NEW S \in SUBSET {x}
  PROVE  Cardinality(S) \in 0 .. 1
<1>1. IsFiniteSet({x}) /\ Cardinality({x}) = 1
  BY FS_Singleton
<1>2. Cardinality(S) \in Nat /\ Cardinality(S) <= Cardinality({x})
  BY <1>1, FS_Subset, FS_CardinalityType
<1> QED
  BY <1>1, <1>2

(* t holds what s holds, each place of s once: place j of t holds place p[j]. *)
Rearranged(t, s) ==
  /\ t \in [1 .. 5 -> Nat]
  /\ \E p \in [1 .. 5 -> 1 .. 5] :
       /\ \A i \in 1 .. 5 : \E j \in 1 .. 5 : p[j] = i
       /\ \A j \in 1 .. 5 : t[j] = s[p[j]]

(* An exchange puts the smaller first and loses nothing. *)
LEMMA Exchange ==
  ASSUME NEW s, NEW t, Rearranged(t, s), NEW a \in 1 .. 5, NEW b \in 1 .. 5, a # b
  PROVE  LET u == SwapIfGreater(t, <<a, b>>)
         IN  /\ Rearranged(u, s)
             /\ \A j \in 1 .. 5 : j # a /\ j # b => u[j] = t[j]
             /\ \/ t[a] <= t[b] /\ u[a] = t[a] /\ u[b] = t[b]
                \/ t[b] < t[a] /\ u[a] = t[b] /\ u[b] = t[a]
<1> DEFINE v == [t EXCEPT ![a] = t[b], ![b] = t[a]]
<1>1. PICK p \in [1 .. 5 -> 1 .. 5] :
        /\ \A i \in 1 .. 5 : \E j \in 1 .. 5 : p[j] = i
        /\ \A j \in 1 .. 5 : t[j] = s[p[j]]
  BY DEF Rearranged
<1>2. t \in [1 .. 5 -> Nat]
  BY DEF Rearranged
<1>3. SwapIfGreater(t, <<a, b>>) = IF t[a] > t[b] THEN v ELSE t
  BY DEF SwapIfGreater
<1>4. /\ v \in [1 .. 5 -> Nat] /\ v[a] = t[b] /\ v[b] = t[a]
      /\ \A j \in 1 .. 5 : j # a /\ j # b => v[j] = t[j]
  BY <1>2
<1>5. Rearranged(v, s)
  <2> DEFINE q == [p EXCEPT ![a] = p[b], ![b] = p[a]]
  <2>1. /\ q \in [1 .. 5 -> 1 .. 5] /\ q[a] = p[b] /\ q[b] = p[a]
        /\ \A j \in 1 .. 5 : j # a /\ j # b => q[j] = p[j]
    BY <1>1
  <2> HIDE DEF q, v
  <2>2. ASSUME NEW j \in 1 .. 5 PROVE v[j] = s[q[j]]
    <3>1. CASE j = a
      BY <1>1, <1>4, <2>1, <3>1, ZenonT(30)
    <3>2. CASE j = b
      BY <1>1, <1>4, <2>1, <3>2, Zenon
    <3>3. CASE j # a /\ j # b
      <4>1. v[j] = t[j] /\ q[j] = p[j] /\ t[j] = s[p[j]]
        BY <1>1, <1>4, <2>1, <3>3, Zenon
      <4> QED
        BY <4>1
    <3> QED
      BY <3>1, <3>2, <3>3
  <2>3. \A i \in 1 .. 5 : \E j \in 1 .. 5 : q[j] = i
    <3> SUFFICES ASSUME NEW i \in 1 .. 5 PROVE \E j \in 1 .. 5 : q[j] = i
      OBVIOUS
    <3>1. PICK j \in 1 .. 5 : p[j] = i
      BY <1>1
    <3> QED
      BY <2>1, <3>1, Zenon
  <2> QED
    BY <1>4, <2>1, <2>2, <2>3, Zenon DEF Rearranged
<1> HIDE DEF v
<1>6. CASE t[a] > t[b]
  <2>1. SwapIfGreater(t, <<a, b>>) = v
    BY <1>3, <1>6
  <2>2. t[b] < t[a]
    BY <1>2, <1>6
  <2> QED
    BY <1>4, <1>5, <2>1, <2>2, Zenon
<1>7. CASE ~(t[a] > t[b])
  <2>1. SwapIfGreater(t, <<a, b>>) = t
    BY <1>3, <1>7
  <2>2. t[a] <= t[b]
    BY <1>2, <1>7
  <2> QED
    BY <2>1, <2>2, Zenon
<1> QED
  BY <1>6, <1>7

(* The network sorts the middle of five to the third place and the others   *)
(* to their side of it.                                                    *)
NetworkRows(s, f) ==
  f = [k \in 0 .. Len(Network) |->
        IF k = 0 THEN s ELSE SwapIfGreater(f[k - 1], Network[k])]

LEMMA LeastNumber ==
  ASSUME NEW T \in SUBSET Nat, T # {}
  PROVE  \E m \in T : \A k \in T : m <= k
<1>1. PICK m \in T : \A k \in T : ~ (<<k, m>> \in OpToRel(<, Nat))
  <2>1. IsWellFoundedOn(OpToRel(<, Nat), Nat)
    BY NatLessThanWellFounded
  <2> HIDE DEF OpToRel
  <2> QED
    BY <2>1, WFMin, Zenon
<1>2. \A k \in T : k \in Nat /\ m \in Nat /\ ~(k < m)
  BY <1>1 DEF OpToRel
<1> QED
  BY <1>2

LEMMA NetworkIs ==
  /\ Len(Network) = 9
  /\ Network[1] = <<1, 2>>
  /\ Network[2] = <<3, 4>>
  /\ Network[3] = <<1, 3>>
  /\ Network[4] = <<2, 4>>
  /\ Network[5] = <<2, 3>>
  /\ Network[6] = <<1, 5>>
  /\ Network[7] = <<2, 5>>
  /\ Network[8] = <<3, 5>>
  /\ Network[9] = <<3, 4>>
  BY DEF Network

(* The exchanges in their order have a result each. *)
LEMMA NetworkRowsExist ==
  ASSUME NEW s
  PROVE  \E f : NetworkRows(s, f)
<1> DEFINE n == Len(Network)
           Rows(m, f) == f = [k \in 0 .. m |->
                              IF k = 0 THEN s ELSE SwapIfGreater(f[k - 1], Network[k])]
<1>1. n \in Nat
  BY NetworkIs
<1> HIDE DEF n
<1> DEFINE Bad == {m \in Nat : ~\E f : Rows(m, f)}
<1>2. Bad = {}
  <2> SUFFICES ASSUME Bad # {} PROVE FALSE
    OBVIOUS
  <2>1. PICK m \in Bad : \A k \in Bad : m <= k
    <3>1. Bad \in SUBSET Nat
      OBVIOUS
    <3> HIDE DEF Bad
    <3> QED
      BY <3>1, LeastNumber, Zenon
  <2>2. m # 0
    <3>1. Rows(0, [k \in 0 .. 0 |-> s])
      OBVIOUS
    <3> QED
      BY <2>1, <3>1
  <2>3. PICK f : Rows(m - 1, f)
    BY <2>1, <2>2
  <2>4. Rows(m, [k \in 0 .. m |->
              IF k = m THEN SwapIfGreater(f[m - 1], Network[m]) ELSE f[k]])
    BY <2>1, <2>2, <2>3
  <2> QED
    BY <2>1, <2>4
<1>3. \E f : Rows(n, f)
  BY <1>1, <1>2
<1> QED
  BY <1>3 DEF NetworkRows, n

(* Median5 is the third place of the last of them. *)
LEMMA NetworkRowsUsed ==
  ASSUME NEW s
  PROVE  \E f : /\ Median5(s) = f[9][3]
                /\ f[0] = s
                /\ \A k \in 1 .. 9 : f[k] = SwapIfGreater(f[k - 1], Network[k])
<1> DEFINE g == CHOOSE after : after = [k \in 0 .. Len(Network) |->
                  IF k = 0 THEN s ELSE SwapIfGreater(after[k - 1], Network[k])]
<1>1. NetworkRows(s, g)
  BY NetworkRowsExist, Zenon DEF NetworkRows
<1>2. Median5(s) = g[Len(Network)][3]
  BY Zenon DEF Median5
<1>3. Len(Network) = 9
  BY NetworkIs
<1> HIDE DEF g
<1>4. g = [k \in 0 .. 9 |-> IF k = 0 THEN s ELSE SwapIfGreater(g[k - 1], Network[k])]
  BY <1>1, <1>3, Zenon DEF NetworkRows
<1>5. g[0] = s
  BY <1>4
<1>6. \A k \in 1 .. 9 : g[k] = SwapIfGreater(g[k - 1], Network[k])
  BY <1>4
<1> QED
  BY <1>2, <1>3, <1>5, <1>6, Zenon

LEMMA SameArrangement ==
  ASSUME NEW s \in [1 .. 5 -> Nat]
  PROVE  Rearranged(s, s)
<1> DEFINE p == [j \in 1 .. 5 |-> j]
<1>1. p \in [1 .. 5 -> 1 .. 5] /\ \A j \in 1 .. 5 : p[j] = j
  OBVIOUS
<1> HIDE DEF p
<1> QED
  BY <1>1, Zenon DEF Rearranged

LEMMA NetworkSorts ==
  ASSUME NEW s \in [1 .. 5 -> Nat]
  PROVE  \E t : /\ Median5(s) = t[3] /\ Rearranged(t, s)
                /\ t[1] <= t[3] /\ t[2] <= t[3] /\ t[3] <= t[4] /\ t[3] <= t[5]
<1>0. PICK f : /\ Median5(s) = f[9][3] /\ f[0] = s
               /\ \A k \in 1 .. 9 : f[k] = SwapIfGreater(f[k - 1], Network[k])
  BY NetworkRowsUsed
<1>10. Rearranged(f[0], s)
  BY <1>0, SameArrangement
<1>11. /\ Rearranged(f[1], s)
      /\ f[1][1] <= f[1][2]
  <2>1. f[1] = SwapIfGreater(f[0], <<1, 2>>)
    BY <1>0, NetworkIs
  <2>2. /\ Rearranged(f[1], s)
        /\ f[1][3] = f[0][3] /\ f[1][4] = f[0][4] /\ f[1][5] = f[0][5]
        /\ \/ f[0][1] <= f[0][2] /\ f[1][1] = f[0][1] /\ f[1][2] = f[0][2]
           \/ f[0][2] < f[0][1] /\ f[1][1] = f[0][2] /\ f[1][2] = f[0][1]
    BY <1>10, <2>1, Exchange
  <2>3. f[0][1] \in Nat /\ f[0][2] \in Nat /\ f[0][3] \in Nat /\ f[0][4] \in Nat /\ f[0][5] \in Nat
    BY <1>10 DEF Rearranged
  <2> QED
    BY <1>10, <2>2, <2>3
<1>12. /\ Rearranged(f[2], s)
      /\ f[2][1] <= f[2][2] /\ f[2][3] <= f[2][4]
  <2>1. f[2] = SwapIfGreater(f[1], <<3, 4>>)
    BY <1>0, NetworkIs
  <2>2. /\ Rearranged(f[2], s)
        /\ f[2][1] = f[1][1] /\ f[2][2] = f[1][2] /\ f[2][5] = f[1][5]
        /\ \/ f[1][3] <= f[1][4] /\ f[2][3] = f[1][3] /\ f[2][4] = f[1][4]
           \/ f[1][4] < f[1][3] /\ f[2][3] = f[1][4] /\ f[2][4] = f[1][3]
    BY <1>11, <2>1, Exchange
  <2>3. f[1][1] \in Nat /\ f[1][2] \in Nat /\ f[1][3] \in Nat /\ f[1][4] \in Nat /\ f[1][5] \in Nat
    BY <1>11 DEF Rearranged
  <2> QED
    BY <1>11, <2>2, <2>3
<1>13. /\ Rearranged(f[3], s)
      /\ f[3][1] <= f[3][2] /\ f[3][1] <= f[3][3] /\ f[3][1] <= f[3][4]
      /\ (f[3][3] <= f[3][2] \/ f[3][3] <= f[3][4])
  <2>1. f[3] = SwapIfGreater(f[2], <<1, 3>>)
    BY <1>0, NetworkIs
  <2>2. /\ Rearranged(f[3], s)
        /\ f[3][2] = f[2][2] /\ f[3][4] = f[2][4] /\ f[3][5] = f[2][5]
        /\ \/ f[2][1] <= f[2][3] /\ f[3][1] = f[2][1] /\ f[3][3] = f[2][3]
           \/ f[2][3] < f[2][1] /\ f[3][1] = f[2][3] /\ f[3][3] = f[2][1]
    BY <1>12, <2>1, Exchange
  <2>3. f[2][1] \in Nat /\ f[2][2] \in Nat /\ f[2][3] \in Nat /\ f[2][4] \in Nat /\ f[2][5] \in Nat
    BY <1>12 DEF Rearranged
  <2> QED
    BY <1>12, <2>2, <2>3
<1>14. /\ Rearranged(f[4], s)
      /\ f[4][1] <= f[4][2] /\ f[4][1] <= f[4][3] /\ f[4][2] <= f[4][4] /\ f[4][3] <= f[4][4]
  <2>1. f[4] = SwapIfGreater(f[3], <<2, 4>>)
    BY <1>0, NetworkIs
  <2>2. /\ Rearranged(f[4], s)
        /\ f[4][1] = f[3][1] /\ f[4][3] = f[3][3] /\ f[4][5] = f[3][5]
        /\ \/ f[3][2] <= f[3][4] /\ f[4][2] = f[3][2] /\ f[4][4] = f[3][4]
           \/ f[3][4] < f[3][2] /\ f[4][2] = f[3][4] /\ f[4][4] = f[3][2]
    BY <1>13, <2>1, Exchange
  <2>3. f[3][1] \in Nat /\ f[3][2] \in Nat /\ f[3][3] \in Nat /\ f[3][4] \in Nat /\ f[3][5] \in Nat
    BY <1>13 DEF Rearranged
  <2> QED
    BY <1>13, <2>2, <2>3
<1>15. /\ Rearranged(f[5], s)
      /\ f[5][1] <= f[5][2] /\ f[5][2] <= f[5][3] /\ f[5][3] <= f[5][4]
  <2>1. f[5] = SwapIfGreater(f[4], <<2, 3>>)
    BY <1>0, NetworkIs
  <2>2. /\ Rearranged(f[5], s)
        /\ f[5][1] = f[4][1] /\ f[5][4] = f[4][4] /\ f[5][5] = f[4][5]
        /\ \/ f[4][2] <= f[4][3] /\ f[5][2] = f[4][2] /\ f[5][3] = f[4][3]
           \/ f[4][3] < f[4][2] /\ f[5][2] = f[4][3] /\ f[5][3] = f[4][2]
    BY <1>14, <2>1, Exchange
  <2>3. f[4][1] \in Nat /\ f[4][2] \in Nat /\ f[4][3] \in Nat /\ f[4][4] \in Nat /\ f[4][5] \in Nat
    BY <1>14 DEF Rearranged
  <2> QED
    BY <1>14, <2>2, <2>3
<1>16. /\ Rearranged(f[6], s)
      /\ f[6][1] <= f[6][2] /\ f[6][2] <= f[6][3] /\ f[6][3] <= f[6][4] /\ f[6][1] <= f[6][5]
  <2>1. f[6] = SwapIfGreater(f[5], <<1, 5>>)
    BY <1>0, NetworkIs
  <2>2. /\ Rearranged(f[6], s)
        /\ f[6][2] = f[5][2] /\ f[6][3] = f[5][3] /\ f[6][4] = f[5][4]
        /\ \/ f[5][1] <= f[5][5] /\ f[6][1] = f[5][1] /\ f[6][5] = f[5][5]
           \/ f[5][5] < f[5][1] /\ f[6][1] = f[5][5] /\ f[6][5] = f[5][1]
    BY <1>15, <2>1, Exchange
  <2>3. f[5][1] \in Nat /\ f[5][2] \in Nat /\ f[5][3] \in Nat /\ f[5][4] \in Nat /\ f[5][5] \in Nat
    BY <1>15 DEF Rearranged
  <2> QED
    BY <1>15, <2>2, <2>3
<1>17. /\ Rearranged(f[7], s)
      /\ f[7][1] <= f[7][2] /\ f[7][2] <= f[7][3] /\ f[7][3] <= f[7][4] /\ f[7][2] <= f[7][5]
  <2>1. f[7] = SwapIfGreater(f[6], <<2, 5>>)
    BY <1>0, NetworkIs
  <2>2. /\ Rearranged(f[7], s)
        /\ f[7][1] = f[6][1] /\ f[7][3] = f[6][3] /\ f[7][4] = f[6][4]
        /\ \/ f[6][2] <= f[6][5] /\ f[7][2] = f[6][2] /\ f[7][5] = f[6][5]
           \/ f[6][5] < f[6][2] /\ f[7][2] = f[6][5] /\ f[7][5] = f[6][2]
    BY <1>16, <2>1, Exchange
  <2>3. f[6][1] \in Nat /\ f[6][2] \in Nat /\ f[6][3] \in Nat /\ f[6][4] \in Nat /\ f[6][5] \in Nat
    BY <1>16 DEF Rearranged
  <2> QED
    BY <1>16, <2>2, <2>3
<1>18. /\ Rearranged(f[8], s)
      /\ f[8][1] <= f[8][2] /\ f[8][2] <= f[8][3] /\ f[8][3] <= f[8][4] /\ f[8][3] <= f[8][5]
  <2>1. f[8] = SwapIfGreater(f[7], <<3, 5>>)
    BY <1>0, NetworkIs
  <2>2. /\ Rearranged(f[8], s)
        /\ f[8][1] = f[7][1] /\ f[8][2] = f[7][2] /\ f[8][4] = f[7][4]
        /\ \/ f[7][3] <= f[7][5] /\ f[8][3] = f[7][3] /\ f[8][5] = f[7][5]
           \/ f[7][5] < f[7][3] /\ f[8][3] = f[7][5] /\ f[8][5] = f[7][3]
    BY <1>17, <2>1, Exchange
  <2>3. f[7][1] \in Nat /\ f[7][2] \in Nat /\ f[7][3] \in Nat /\ f[7][4] \in Nat /\ f[7][5] \in Nat
    BY <1>17 DEF Rearranged
  <2> QED
    BY <1>17, <2>2, <2>3
<1>19. /\ Rearranged(f[9], s)
      /\ f[9][1] <= f[9][2] /\ f[9][2] <= f[9][3] /\ f[9][3] <= f[9][4] /\ f[9][3] <= f[9][5]
  <2>1. f[9] = SwapIfGreater(f[8], <<3, 4>>)
    BY <1>0, NetworkIs
  <2>2. /\ Rearranged(f[9], s)
        /\ f[9][1] = f[8][1] /\ f[9][2] = f[8][2] /\ f[9][5] = f[8][5]
        /\ \/ f[8][3] <= f[8][4] /\ f[9][3] = f[8][3] /\ f[9][4] = f[8][4]
           \/ f[8][4] < f[8][3] /\ f[9][3] = f[8][4] /\ f[9][4] = f[8][3]
    BY <1>18, <2>1, Exchange
  <2>3. f[8][1] \in Nat /\ f[8][2] \in Nat /\ f[8][3] \in Nat /\ f[8][4] \in Nat /\ f[8][5] \in Nat
    BY <1>18 DEF Rearranged
  <2> QED
    BY <1>18, <2>2, <2>3
<1>20. f[9][1] \in Nat /\ f[9][2] \in Nat /\ f[9][3] \in Nat
  BY <1>19 DEF Rearranged
<1>21. f[9][1] <= f[9][3]
  BY <1>19, <1>20
<1> QED
  BY <1>0, <1>19, <1>21, Zenon

(* No more than two of five places hold less than the third of a sorted     *)
(* rearrangement, and no more than two hold more.                          *)
LEMMA MiddleOfFive ==
  ASSUME NEW s \in [1 .. 5 -> Nat]
  PROVE  /\ \E i \in 1 .. 5 : s[i] = Median5(s)
         /\ Cardinality({i \in 1 .. 5 : s[i] < Median5(s)}) \in 0 .. 2
         /\ Cardinality({i \in 1 .. 5 : s[i] > Median5(s)}) \in 0 .. 2
<1> DEFINE m == Median5(s)
<1> HIDE DEF m
<1>1. PICK t : /\ m = t[3] /\ Rearranged(t, s)
               /\ t[1] <= t[3] /\ t[2] <= t[3] /\ t[3] <= t[4] /\ t[3] <= t[5]
  BY NetworkSorts DEF m
<1>2. PICK p \in [1 .. 5 -> 1 .. 5] :
        /\ \A i \in 1 .. 5 : \E j \in 1 .. 5 : p[j] = i
        /\ \A j \in 1 .. 5 : t[j] = s[p[j]]
  BY <1>1 DEF Rearranged
<1>3. t \in [1 .. 5 -> Nat]
  BY <1>1 DEF Rearranged
<1>4. p[3] \in 1 .. 5 /\ s[p[3]] = m
  BY <1>1, <1>2
<1>5. {i \in 1 .. 5 : s[i] < m} \in SUBSET {p[1], p[2]}
  <2> SUFFICES ASSUME NEW i \in 1 .. 5, s[i] < m PROVE i = p[1] \/ i = p[2]
    OBVIOUS
  <2>1. PICK j \in 1 .. 5 : p[j] = i
    BY <1>2
  <2>2. t[j] < t[3]
    BY <1>1, <1>2, <2>1
  <2>3. j = 1 \/ j = 2
    BY <1>1, <1>3, <2>2
  <2> QED
    BY <2>1, <2>3
<1>6. {i \in 1 .. 5 : s[i] > m} \in SUBSET {p[4], p[5]}
  <2> SUFFICES ASSUME NEW i \in 1 .. 5, s[i] > m PROVE i = p[4] \/ i = p[5]
    OBVIOUS
  <2>1. PICK j \in 1 .. 5 : p[j] = i
    BY <1>2
  <2>2. t[j] > t[3]
    BY <1>1, <1>2, <2>1
  <2>3. j = 4 \/ j = 5
    BY <1>1, <1>3, <2>2
  <2> QED
    BY <2>1, <2>3
<1>7. Cardinality({i \in 1 .. 5 : s[i] < m}) \in 0 .. 2
  BY <1>5, AtMostTwo, Zenon
<1>8. Cardinality({i \in 1 .. 5 : s[i] > m}) \in 0 .. 2
  BY <1>6, AtMostTwo, Zenon
<1> QED
  BY <1>4, <1>7, <1>8, Zenon DEF m

(* The comparisons of three find one that has one smaller and one larger at *)
(* most.                                                                   *)
LEMMA MiddleOfThree ==
  ASSUME NEW s \in [1 .. 3 -> Nat]
  PROVE  LET m == Median3(s[1], s[2], s[3])
         IN  /\ \E i \in 1 .. 3 : s[i] = m
             /\ Cardinality({i \in 1 .. 3 : s[i] < m}) \in 0 .. 1
             /\ Cardinality({i \in 1 .. 3 : s[i] > m}) \in 0 .. 1
<1> DEFINE m == Median3(s[1], s[2], s[3])
<1>1. \E i \in 1 .. 3 : s[i] = m
  BY DEF Median3
<1>2. \E x : {i \in 1 .. 3 : s[i] < m} \in SUBSET {x}
  <2>1. \/ ~(s[1] < m) /\ ~(s[2] < m)
        \/ ~(s[1] < m) /\ ~(s[3] < m)
        \/ ~(s[2] < m) /\ ~(s[3] < m)
    BY DEF Median3
  <2> HIDE DEF m
  <2> QED
    BY <2>1
<1>3. \E x : {i \in 1 .. 3 : s[i] > m} \in SUBSET {x}
  <2>1. \/ ~(s[1] > m) /\ ~(s[2] > m)
        \/ ~(s[1] > m) /\ ~(s[3] > m)
        \/ ~(s[2] > m) /\ ~(s[3] > m)
    BY DEF Median3
  <2> HIDE DEF m
  <2> QED
    BY <2>1
<1> HIDE DEF m
<1> QED
  BY <1>1, <1>2, <1>3, AtMostOne, Zenon DEF m
-----------------------------------------------------------------------------
(* The inductive invariant. Of the pin: the last counter levels differ from *)
(* the debounced state, and the one before them, which put the counter at   *)
(* zero, is that state. Of the sensor: the average lies between two samples *)
(* that can be read.                                                       *)
PinInv ==
  /\ counter \in 0 .. Needed - 1 /\ stable \in BOOLEAN /\ settledOn = stable
  /\ recent \in [1 .. Needed -> BOOLEAN]
  /\ recent[Needed - counter] = stable
  /\ \A i \in Needed - counter + 1 .. Needed : recent[i] # stable

SensorInv ==
  /\ window \in Seq(Reading) /\ Len(window) = 5
  /\ ema \in Nat /\ \E low, high \in Reading : low <= ema /\ ema <= high

FilterInv == PinInv /\ SensorInv

LEMMA NeededIs == Needed \in Nat /\ Needed >= 1
  BY FilterAssumption DEF Needed

(* A sample is a number of sixteen bits. *)
LEMMA ReadingIs ==
  ASSUME NEW r \in Reading
  PROVE  r \in Nat /\ r < 65536
<1>1. r \in Nat /\ FitsUint16(r)
  BY FilterAssumption, Zenon
<1>2. 2^16 = 65536
  OBVIOUS
<1> QED
  BY <1>1, <1>2 DEF FitsUint16

(* The history of the pin drops its oldest level for the new one. *)
LEMMA RecentShifts ==
  ASSUME recent \in [1 .. Needed -> BOOLEAN], NEW raw \in BOOLEAN, Observe(raw)
  PROVE  /\ recent' \in [1 .. Needed -> BOOLEAN]
         /\ recent'[Needed] = raw
         /\ \A i \in 1 .. Needed - 1 : recent'[i] = recent[i + 1]
         /\ (\A i \in 1 .. Needed : recent'[i] = raw) => settledOn' = raw
         /\ (\E i \in 1 .. Needed : recent'[i] # raw) => settledOn' = settledOn
<1>1. Needed \in Nat /\ Needed >= 1
  BY NeededIs
<1>2. recent' = Append(Tail(recent), raw)
  BY Zenon DEF Observe
<1>3. /\ (\A i \in 1 .. Needed : recent'[i] = raw) => settledOn' = raw
      /\ (\E i \in 1 .. Needed : recent'[i] # raw) => settledOn' = settledOn
  BY Zenon DEF Observe
<1> DEFINE n == Needed
<1> HIDE DEF n
<1>4. n \in Nat /\ n >= 1 /\ recent \in [1 .. n -> BOOLEAN]
  BY <1>1 DEF n
<1>5. recent \in Seq(BOOLEAN) /\ Len(recent) = n
  BY <1>4
<1>6. Tail(recent) \in Seq(BOOLEAN) /\ Len(Tail(recent)) = n - 1
      /\ \A i \in 1 .. n - 1 : Tail(recent)[i] = recent[i + 1]
  BY <1>4, <1>5
<1>7. /\ recent' \in [1 .. n -> BOOLEAN]
      /\ recent'[n] = raw
      /\ \A i \in 1 .. n - 1 : recent'[i] = recent[i + 1]
  <2> DEFINE rest == Tail(recent)
             all == Append(rest, raw)
  <2>1. /\ rest \in Seq(BOOLEAN) /\ Len(rest) = n - 1
        /\ \A i \in 1 .. n - 1 : rest[i] = recent[i + 1]
    BY <1>6
  <2> HIDE DEF rest
  <2>2. /\ all \in Seq(BOOLEAN) /\ Len(all) = Len(rest) + 1
        /\ \A i \in 1 .. Len(rest) : all[i] = rest[i]
        /\ all[Len(rest) + 1] = raw
    BY <2>1, AppendProperties
  <2>3. recent' = all
    BY <1>2 DEF rest
  <2> HIDE DEF all
  <2>4. Len(all) = n /\ all[n] = raw /\ \A i \in 1 .. n - 1 : all[i] = recent[i + 1]
    BY <1>4, <2>1, <2>2
  <2>5. all \in [1 .. n -> BOOLEAN]
    BY <1>4, <2>2, <2>4
  <2> QED
    BY <2>3, <2>4, <2>5
<1> QED
  BY <1>3, <1>7 DEF n

LEMMA FilterStart == FilterInit => FilterInv
<1> SUFFICES ASSUME FilterInit PROVE FilterInv
  OBVIOUS
<1>1. Needed \in Nat /\ Needed >= 1
  BY NeededIs
<1>2. PinInv
  <2>1. /\ counter = 0 /\ stable \in BOOLEAN /\ settledOn = stable
        /\ recent = [i \in 1 .. Needed |-> stable]
    BY DEF FilterInit
  <2> DEFINE n == Needed
  <2> HIDE DEF n
  <2>2. n \in Nat /\ n >= 1 /\ recent = [i \in 1 .. n |-> stable]
    BY <1>1, <2>1 DEF n
  <2>3. \A i \in 1 .. n : recent[i] = stable
    BY <2>2
  <2>4. n - counter \in 1 .. n
    BY <2>1, <2>2
  <2>5. recent \in [1 .. n -> BOOLEAN] /\ recent[n - counter] = stable
    BY <2>1, <2>2, <2>3, <2>4, Zenon
  <2>6. counter \in 0 .. n - 1 /\ \A i \in n - counter + 1 .. n : recent[i] # stable
    BY <2>1, <2>2
  <2> QED
    BY <2>1, <2>5, <2>6 DEF PinInv, n
<1>3. SensorInv
  <2>1. PICK r \in Reading : window = <<r, r, r, r, r>> /\ ema = r
    BY DEF FilterInit
  <2>2. r \in Nat
    BY ReadingIs
  <2> QED
    BY <2>1, <2>2 DEF SensorInv
<1> QED
  BY <1>2, <1>3 DEF FilterInv

LEMMA MeasureKeeps ==
  ASSUME FilterInv, NEW r \in Reading, Measure(r)
  PROVE  FilterInv'
<1>1. PinInv'
  BY DEF FilterInv, Measure, pin, PinInv
<1>2. window' \in Seq(Reading) /\ Len(window') = 5
  BY DEF FilterInv, SensorInv, Measure
<1>3. PICK low \in Reading, high \in Reading : low <= ema /\ ema <= high
  BY DEF FilterInv, SensorInv
<1>4. /\ ema \in Nat /\ low \in Nat /\ high \in Nat /\ r \in Nat
      /\ high < 65536 /\ r < 65536
  BY ReadingIs DEF FilterInv, SensorInv
<1>5. ema < 65536
  BY <1>3, <1>4
<1> DEFINE e == Ema(ema, r)
<1>6. /\ e \in Nat
      /\ \/ ema <= e /\ e <= r
         \/ r <= e /\ e <= ema
  BY <1>4, <1>5, EmaBetween
<1>7. ema' = e
  BY DEF Measure
<1> HIDE DEF e
<1>8. \/ low <= e /\ e <= high
      \/ low <= e /\ e <= r
      \/ r <= e /\ e <= high
  BY <1>3, <1>4, <1>6
<1>9. \E lower, higher \in Reading : lower <= e /\ e <= higher
  BY <1>8, Zenon
<1>10. SensorInv'
  BY <1>2, <1>6, <1>7, <1>9 DEF SensorInv
<1> QED
  BY <1>1, <1>10 DEF FilterInv

LEMMA ObserveKeeps ==
  ASSUME FilterInv, NEW raw \in BOOLEAN, Agree(raw) \/ CountOther(raw) \/ Flip(raw)
  PROVE  FilterInv'
<1>1. SensorInv'
  BY DEF FilterInv, Agree, CountOther, Flip, sensor, SensorInv
<1>2. /\ counter \in 0 .. Needed - 1 /\ stable \in BOOLEAN /\ settledOn = stable
      /\ recent \in [1 .. Needed -> BOOLEAN]
      /\ recent[Needed - counter] = stable
      /\ \A i \in Needed - counter + 1 .. Needed : recent[i] # stable
  BY DEF FilterInv, PinInv
<1>3. Observe(raw)
  BY DEF Agree, CountOther, Flip
<1>4. /\ recent' \in [1 .. Needed -> BOOLEAN]
      /\ recent'[Needed] = raw
      /\ \A i \in 1 .. Needed - 1 : recent'[i] = recent[i + 1]
      /\ (\A i \in 1 .. Needed : recent'[i] = raw) => settledOn' = raw
      /\ (\E i \in 1 .. Needed : recent'[i] # raw) => settledOn' = settledOn
  BY <1>2, <1>3, RecentShifts
<1> DEFINE n == Needed
<1>5. n \in Nat /\ n >= 1
  BY NeededIs
<1> HIDE DEF n
<1>6. CASE Agree(raw)
  <2>1. raw = stable /\ counter' = 0 /\ stable' = stable
    BY <1>6 DEF Agree
  <2>2. settledOn' = stable
    BY <1>2, <1>4, <2>1, Zenon
  <2>3. /\ counter' \in 0 .. n - 1 /\ n - counter' = n
        /\ \A i \in n - counter' + 1 .. n : recent'[i] # stable'
    BY <1>5, <2>1
  <2>4. recent'[n - counter'] = stable'
    BY <1>4, <2>1, <2>3, Zenon DEF n
  <2>5. PinInv'
    BY <1>2, <1>4, <2>1, <2>2, <2>3, <2>4, Zenon DEF PinInv, n, Needed
  <2> QED
    BY <1>1, <2>5 DEF FilterInv
<1>7. CASE CountOther(raw)
  <2>1. /\ raw # stable /\ counter + 1 < n /\ counter' = counter + 1 /\ stable' = stable
    BY <1>7 DEF CountOther, n
  <2>2. /\ counter \in Nat /\ counter' \in 0 .. n - 1 /\ n - counter' \in 1 .. n - 1
        /\ (n - counter') + 1 = n - counter
    BY <1>2, <1>5, <2>1 DEF n
  <2>3. recent'[n - counter'] = stable
    BY <1>2, <1>4, <2>2 DEF n
  <2>4. settledOn' = stable
    <3>1. n - counter' \in 1 .. n /\ recent'[n - counter'] # raw
      BY <1>5, <2>1, <2>2, <2>3
    <3> QED
      BY <1>2, <1>4, <3>1, Zenon DEF n
  <2>5. \A i \in n - counter' + 1 .. n : recent'[i] # stable
    <3> SUFFICES ASSUME NEW i \in n - counter' + 1 .. n PROVE recent'[i] # stable
      OBVIOUS
    <3>1. i = n \/ (i \in 1 .. n - 1 /\ i + 1 \in n - counter + 1 .. n)
      BY <1>5, <2>1, <2>2
    <3> QED
      BY <1>2, <1>4, <2>1, <3>1, Zenon DEF n
  <2>6. PinInv'
    BY <1>2, <1>4, <2>1, <2>2, <2>3, <2>4, <2>5, Zenon DEF PinInv, n, Needed
  <2> QED
    BY <1>1, <2>6 DEF FilterInv
<1>8. CASE Flip(raw)
  <2>1. raw # stable /\ counter + 1 >= n /\ counter' = 0 /\ stable' = raw
    BY <1>8 DEF Flip, n
  <2>2. counter = n - 1 /\ n - counter = 1
    BY <1>2, <1>5, <2>1 DEF n
  <2>3. \A i \in 1 .. n : recent'[i] = raw
    <3> SUFFICES ASSUME NEW i \in 1 .. n PROVE recent'[i] = raw
      OBVIOUS
    <3>1. i = n \/ (i \in 1 .. n - 1 /\ i + 1 \in n - counter + 1 .. n /\ i + 1 \in 1 .. n)
      BY <1>5, <2>2
    <3>2. CASE i = n
      BY <1>4, <3>2 DEF n
    <3>3. CASE i \in 1 .. n - 1 /\ i + 1 \in n - counter + 1 .. n /\ i + 1 \in 1 .. n
      <4>1. recent[i + 1] # stable /\ recent[i + 1] \in BOOLEAN
        BY <1>2, <3>3 DEF n
      <4>2. recent'[i] = recent[i + 1]
        BY <1>4, <3>3 DEF n
      <4> QED
        BY <1>2, <2>1, <4>1, <4>2
    <3> QED
      BY <3>1, <3>2, <3>3
  <2>4. settledOn' = raw
    BY <1>4, <2>3, Zenon DEF n
  <2>5. /\ counter' \in 0 .. n - 1 /\ n - counter' = n
        /\ \A i \in n - counter' + 1 .. n : recent'[i] # stable'
    BY <1>5, <2>1
  <2>6. recent'[n - counter'] = stable'
    BY <1>4, <2>1, <2>5, Zenon DEF n
  <2>7. PinInv'
    BY <1>4, <2>1, <2>4, <2>5, <2>6, Zenon DEF PinInv, n, Needed
  <2> QED
    BY <1>1, <2>7 DEF FilterInv
<1> QED
  BY <1>6, <1>7, <1>8

LEMMA FilterStep == FilterInv /\ [FilterNext]_filterVars => FilterInv'
<1> SUFFICES ASSUME FilterInv, [FilterNext]_filterVars PROVE FilterInv'
  OBVIOUS
<1>1. CASE \E r \in Reading : Measure(r)
  BY <1>1, MeasureKeeps
<1>2. CASE \E raw \in BOOLEAN : Agree(raw) \/ CountOther(raw) \/ Flip(raw)
  BY <1>2, ObserveKeeps
<1>3. CASE UNCHANGED filterVars
  BY <1>3 DEF FilterInv, PinInv, SensorInv, filterVars, sensor, pin
<1> QED
  BY <1>1, <1>2, <1>3 DEF FilterNext

(* The first three of five samples. *)
LEMMA FirstThree ==
  ASSUME NEW w \in [1 .. 5 -> Nat]
  PROVE  LET s == SubSeq(w, 1, 3)
         IN  /\ s \in [1 .. 3 -> Nat] /\ DOMAIN s = 1 .. 3 /\ Len(s) = 3
             /\ s[1] = w[1] /\ s[2] = w[2] /\ s[3] = w[3]
<1> DEFINE s == SubSeq(w, 1, 3)
<1>1. \A i \in 1 .. 3 : w[i] \in Nat
  OBVIOUS
<1>2. /\ s \in Seq(Nat)
      /\ Len(s) = IF 1 <= 3 THEN 3 - 1 + 1 ELSE 0
      /\ \A i \in 1 .. 3 - 1 + 1 : s[i] = w[1 + i - 1]
  BY <1>1, SubSeqProperties
<1> HIDE DEF s
<1>3. Len(s) = 3 /\ s[1] = w[1] /\ s[2] = w[2] /\ s[3] = w[3]
  BY <1>2
<1>4. s \in [1 .. 3 -> Nat]
  BY <1>2, <1>3, LenProperties
<1> QED
  BY <1>3, <1>4 DEF s

(* Whatever bounces between, the debounced state is the last level the pin  *)
(* held Threshold times in a row; the medians are middle samples; and the   *)
(* average stays between samples that can be read, so that uint16_t holds   *)
(* it (filter.c, filter.h).                                                *)
THEOREM FiltersAreRight == FilterSpec => []FiltersRight
<1>1. FilterInv => FiltersRight
  <2> SUFFICES ASSUME FilterInv PROVE FiltersRight
    OBVIOUS
  <2>1. stable = settledOn /\ \E low, high \in Reading : low <= ema /\ ema <= high
    BY DEF FilterInv, PinInv, SensorInv
  <2>2. Reading \subseteq Nat
    BY FilterAssumption, Zenon
  <2>3. window \in [1 .. 5 -> Nat] /\ DOMAIN window = 1 .. 5 /\ Len(window) = 5
    <3>1. window \in Seq(Reading) /\ Len(window) = 5
      BY DEF FilterInv, SensorInv
    <3>2. window \in [1 .. 5 -> Reading]
      BY <3>1, LenProperties
    <3> QED
      BY <2>2, <3>1, <3>2
  <2>4. IsMiddle(Median5(window), window)
    <3> DEFINE m == Median5(window)
               smaller == Cardinality({i \in 1 .. 5 : window[i] < m})
               larger == Cardinality({i \in 1 .. 5 : window[i] > m})
    <3>1. (\E i \in 1 .. 5 : window[i] = m) /\ smaller \in 0 .. 2 /\ larger \in 0 .. 2
      BY <2>3, MiddleOfFive, Zenon
    <3> HIDE DEF smaller, larger, m
    <3>2. 2 * smaller < 5 /\ 2 * larger < 5
      BY <3>1
    <3> QED
      BY <2>3, <3>1, <3>2, Zenon DEF IsMiddle, smaller, larger, m
  <2>5. IsMiddle(Median3(window[1], window[2], window[3]), SubSeq(window, 1, 3))
    <3> DEFINE s == SubSeq(window, 1, 3)
    <3>1. /\ s \in [1 .. 3 -> Nat] /\ DOMAIN s = 1 .. 3 /\ Len(s) = 3
          /\ s[1] = window[1] /\ s[2] = window[2] /\ s[3] = window[3]
      BY <2>3, FirstThree
    <3> HIDE DEF s
    <3> DEFINE m == Median3(s[1], s[2], s[3])
               smaller == Cardinality({i \in 1 .. 3 : s[i] < m})
               larger == Cardinality({i \in 1 .. 3 : s[i] > m})
    <3>2. (\E i \in 1 .. 3 : s[i] = m) /\ smaller \in 0 .. 1 /\ larger \in 0 .. 1
      BY <3>1, MiddleOfThree, Zenon
    <3>3. m = Median3(window[1], window[2], window[3])
      BY <3>1, Zenon
    <3> HIDE DEF smaller, larger, m
    <3>4. 2 * smaller < 3 /\ 2 * larger < 3
      BY <3>2
    <3>5. IsMiddle(m, s)
      BY <3>1, <3>2, <3>4, Zenon DEF IsMiddle, smaller, larger
    <3> QED
      BY <3>3, <3>5, Zenon DEF s
  <2> QED
    BY <2>1, <2>4, <2>5 DEF FiltersRight
<1> QED
  BY FilterStart, FilterStep, <1>1, PTL DEF FilterSpec
=============================================================================
