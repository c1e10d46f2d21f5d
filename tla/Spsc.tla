-------------------------------- MODULE Spsc --------------------------------
(***************************************************************************)
(* The lock-free single-producer single-consumer ring of spsc.c, with the  *)
(* producer (an ISR) and the consumer (the main loop) interleaved at every *)
(* access to what they share: the two counters and the slots.  A call      *)
(* takes its snapshot of the other side's counter, copies byte by byte in  *)
(* any order (memcpy promises none), and publishes its own counter last.   *)
(*                                                                         *)
(* head and tail run freely and wrap at Modulus, the range of fw_size_t.   *)
(***************************************************************************)
EXTENDS Integers, Sequences, FiniteSets

CONSTANTS
  Byte,       (* the values a slot can hold *)
  Unset,      (* what a destination buffer holds before it is written *)
  Capacity,   (* fw_spsc_t.capacity *)
  Modulus,    (* counters are computed modulo this: 2^32 or 2^64 in the code *)
  MaxCount    (* the longest span one call of write or read is given *)

\* fw_spsc_init refuses a capacity that is not a power of two, so it divides
\* the range of the counters; a capacity as large as that range could not be
\* the size of a buffer.
ASSUME SpscAssumption ==
  /\ Capacity \in Nat \ {0}
  /\ Modulus \in Nat
  /\ Modulus > Capacity
  /\ Modulus % Capacity = 0
  /\ MaxCount \in Nat \ {0}
  /\ Byte # {}
  /\ Unset \notin Byte

VARIABLES
  head,    (* bytes ever published, modulo Modulus: written by the producer *)
  tail,    (* bytes ever released, modulo Modulus: written by the consumer *)
  buffer,  (* the slots *)
  pSrc,    (* the chunk the producer's call in progress puts, or <<>> *)
  pTodo,   (* the offsets of that chunk not yet copied in *)
  pSeen,   (* what fw_spsc_available last told the producer *)
  cOut,    (* the chunk the consumer's call in progress takes, or <<>> *)
  cTodo,   (* the offsets of that chunk not yet copied out *)
  cSeen,   (* what fw_spsc_count last told the consumer *)
  taken    (* the chunk the last finished call handed to the consumer *)

pvars == <<pSrc, pTodo, pSeen>>
cvars == <<cOut, cTodo, cSeen, taken>>
vars == <<head, tail, buffer, pvars, cvars>>

Counter == 0 .. Modulus - 1
Slots == 0 .. Capacity - 1

\* Arithmetic of fw_size_t: unsigned, wrapping at Modulus.
Plus(a, n) == IF a + n >= Modulus THEN a + n - Modulus ELSE a + n
Minus(a, b) == IF a >= b THEN a - b ELSE a - b + Modulus

Least(a, b) == IF a < b THEN a ELSE b

\* counter & mask
SlotOf(c) == c % Capacity

\* Faulty variant: what wraps goes one slot too far.
ChunkSlotPast(c, k) ==
  LET i == SlotOf(c) + k - 1
  IN  IF i < Capacity THEN i ELSE (i + 1) % Capacity

\* The slot of byte k (from 1) of a chunk that starts at counter c, as the
\* two memcpy calls lay it out: up to the end of the buffer, then from 0.
ChunkSlot(c, k) ==
  LET i == SlotOf(c) + k - 1
  IN  IF i < Capacity THEN i ELSE i - Capacity

Count == Minus(head, tail)

Available == Capacity - Count

Full == Count >= Capacity
Empty == tail = head

PIdle == pSrc = <<>>
CIdle == cOut = <<>>

\* fw_spsc_init; the buffer keeps whatever it held.
Init ==
  /\ head = 0
  /\ tail = 0
  /\ buffer \in [Slots -> Byte]
  /\ pSrc = <<>>
  /\ pTodo = {}
  /\ pSeen = 0
  /\ cOut = <<>>
  /\ cTodo = {}
  /\ cSeen = 0
  /\ taken = <<>>
-----------------------------------------------------------------------------
(* The producer: fw_spsc_push, fw_spsc_write and fw_spsc_available.        *)

\* The call has read both counters and found room for chunk.
StartPut(chunk) ==
  /\ pSrc' = chunk
  /\ pTodo' = 1 .. Len(chunk)
  /\ pSeen' = 0
  /\ UNCHANGED <<head, tail, buffer, cvars>>

\* fw_spsc_push of one byte; FW_ERR_BUFFER_OVERFLOW when full.
Push(b) ==
  /\ PIdle
  /\ ~Full
  /\ StartPut(<<b>>)

\* fw_spsc_write takes what fits of the span it is given, from its start;
\* 0 when nothing fits.
Write(span) ==
  /\ PIdle
  /\ Len(span) > 0
  /\ LET n == Least(Len(span), Available)
     IN  /\ n > 0
         /\ StartPut(SubSeq(span, 1, n))

\* One byte of the chunk goes into its slot.
CopyIn(k) ==
  /\ k \in pTodo
  /\ buffer' = [buffer EXCEPT ![ChunkSlot(head, k)] = pSrc[k]]
  /\ pTodo' = pTodo \ {k}
  /\ UNCHANGED <<head, tail, pSrc, pSeen, cvars>>

\* Faulty variant: head is stored while bytes are still to be copied.
PublishEarly ==
  /\ ~PIdle
  /\ head' = Plus(head, Len(pSrc))
  /\ pSrc' = <<>>
  /\ pTodo' = {}
  /\ UNCHANGED <<tail, buffer, pSeen, cvars>>

\* FW_MEMORY_BARRIER, then the store of head.
Publish ==
  /\ ~PIdle
  /\ pTodo = {}
  /\ head' = Plus(head, Len(pSrc))
  /\ pSrc' = <<>>
  /\ UNCHANGED <<tail, buffer, pTodo, pSeen, cvars>>

\* Faulty variant: bytes being taken are counted as gone.
AskAvailableAhead ==
  /\ PIdle
  /\ pSeen' = Available + Len(cOut)
  /\ UNCHANGED <<head, tail, buffer, pSrc, pTodo, cvars>>

AskAvailable ==
  /\ PIdle
  /\ pSeen' = Available
  /\ UNCHANGED <<head, tail, buffer, pSrc, pTodo, cvars>>

Producer ==
  \/ \E b \in Byte : Push(b)
  \/ \E n \in 1 .. MaxCount : \E span \in [1 .. n -> Byte] : Write(span)
  \/ \E k \in pTodo : CopyIn(k)
  \/ Publish
  \/ AskAvailable
-----------------------------------------------------------------------------
(* The consumer: fw_spsc_pop, fw_spsc_read and fw_spsc_count.              *)

\* The call has read both counters and found n bytes to take.
StartTake(n) ==
  /\ cOut' = [k \in 1 .. n |-> Unset]
  /\ cTodo' = 1 .. n
  /\ cSeen' = 0
  /\ UNCHANGED <<head, tail, buffer, taken, pvars>>

\* fw_spsc_pop; FW_ERR_NOT_FOUND when empty.
Pop ==
  /\ CIdle
  /\ ~Empty
  /\ StartTake(1)

\* fw_spsc_read of at most max bytes; 0 when there are none.
Read(max) ==
  /\ CIdle
  /\ max > 0
  /\ LET n == Least(max, Count)
     IN  n > 0 /\ StartTake(n)

\* One byte of the chunk leaves its slot.
CopyOut(k) ==
  /\ k \in cTodo
  /\ cOut' = [cOut EXCEPT ![k] = buffer[ChunkSlot(tail, k)]]
  /\ cTodo' = cTodo \ {k}
  /\ UNCHANGED <<head, tail, buffer, cSeen, taken, pvars>>

\* Faulty variant: tail is not stored.
ReleaseNothing ==
  /\ ~CIdle
  /\ cTodo = {}
  /\ taken' = cOut
  /\ cOut' = <<>>
  /\ UNCHANGED <<head, tail, buffer, cTodo, cSeen, pvars>>

\* FW_MEMORY_BARRIER, then the store of tail; the call returns its chunk.
Release ==
  /\ ~CIdle
  /\ cTodo = {}
  /\ tail' = Plus(tail, Len(cOut))
  /\ taken' = cOut
  /\ cOut' = <<>>
  /\ UNCHANGED <<head, buffer, cTodo, cSeen, pvars>>

AskCount ==
  /\ CIdle
  /\ cSeen' = Count
  /\ UNCHANGED <<head, tail, buffer, cOut, cTodo, taken, pvars>>

Consumer ==
  \/ Pop
  \/ \E max \in 1 .. MaxCount : Read(max)
  \/ \E k \in cTodo : CopyOut(k)
  \/ Release
  \/ AskCount

Next == Producer \/ Consumer

Spec == Init /\ [][Next]_vars
-----------------------------------------------------------------------------
(* Fairness.  A call in progress finishes: neither copy loop blocks, and   *)
(* an ISR that preempts the consumer returns.  The consumer's main loop    *)
(* keeps polling; nothing is assumed of how often the producer is called.  *)

FinishPut == (\E k \in pTodo : CopyIn(k)) \/ Publish
FinishTake == (\E k \in cTodo : CopyOut(k)) \/ Release
Poll == Pop \/ \E max \in 1 .. MaxCount : Read(max)

FairSpec ==
  Spec /\ WF_vars(FinishPut) /\ WF_vars(FinishTake) /\ WF_vars(Poll)
-----------------------------------------------------------------------------
(* Properties.                                                             *)

\* The slots of the calls in progress and the bytes they still have to move
\* stay within what their snapshots promised.
TypeOK ==
  /\ head \in Counter
  /\ tail \in Counter
  /\ buffer \in [Slots -> Byte]
  /\ pSrc \in Seq(Byte)
  /\ pTodo \in SUBSET (1 .. Len(pSrc))
  /\ pSeen \in 0 .. Capacity
  /\ cOut \in Seq(Byte \cup {Unset})
  /\ cTodo \in SUBSET (1 .. Len(cOut))
  /\ cSeen \in 0 .. Capacity
  /\ taken \in Seq(Byte)

\* Whatever the two sides do between a call's snapshot and its publication,
\* the chunk it settled on still fits: the queue never holds more than its
\* slots, a put in progress has room, a take in progress has its bytes.
\* (spsc.c reads the other counter once, early, and never again.)
RoomForCalls ==
  /\ Count + Len(pSrc) <= Capacity
  /\ Len(cOut) <= Count

\* The producer never writes a slot the consumer is about to read: the
\* copies need no lock, also where either chunk wraps past the end.
NoSharedSlot ==
  \A k \in pTodo, j \in cTodo : ChunkSlot(head, k) # ChunkSlot(tail, j)

\* No lock is needed: each call has the room or the bytes its snapshot told it,
\* and the two sides never touch the same slot, for as long as a call runs.
SlotsSafe == RoomForCalls /\ NoSharedSlot

\* A byte once copied stays: no step of the consumer disturbs what a put in
\* progress has stored, and no step of the producer what a take in progress
\* is reading.
CopiesHold ==
  /\ \A k \in (1 .. Len(pSrc)) \ pTodo : buffer[ChunkSlot(head, k)] = pSrc[k]
  /\ \A k \in (1 .. Len(cOut)) \ cTodo : cOut[k] = buffer[ChunkSlot(tail, k)]

\* What fw_spsc_available and fw_spsc_count answer their own side stays true
\* until that side acts on it, however the other side has moved since.
AnswersHold ==
  /\ PIdle => pSeen <= Available
  /\ CIdle => cSeen <= Count

\* A call that starts uses up the answer its side was given.
AnswersUsed ==
  /\ ~PIdle => pSeen = 0
  /\ ~CIdle => cSeen = 0

\* The inductive invariant of SpscProofs.
IInv == TypeOK /\ RoomForCalls /\ AnswersHold /\ AnswersUsed /\ CopiesHold

\* The bytes published and not yet released, oldest first.
Queue == [i \in 1 .. Count |-> buffer[SlotOf(Plus(tail, i - 1))]]

F == INSTANCE Fifo WITH queue <- Queue, offered <- pSrc

\* The ring is a bounded FIFO of bytes: a put appends the caller's chunk,
\* whole and unchanged, when head is stored, a take removes and returns the
\* oldest bytes when tail is stored, and no other step of fw_spsc_write or
\* fw_spsc_read, the wrap of a counter included, shows.
ImplementsFifo == F!Spec

\* Bytes that were published are taken: a main loop that keeps polling
\* never leaves tail for good where it is behind head.
Drains == []<>Empty \/ []<><<Release>>_tail
=============================================================================
