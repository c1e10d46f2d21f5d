------------------------------ MODULE RustSync ------------------------------
(***************************************************************************)
(* The queue and the spin lock of the Rust crate zero-sync.  The queue is  *)
(* Sync, so that any number of senders can hold it; one that gets the lock *)
(* enqueues and unlocks.  Senders and the receiver are interleaved at each *)
(* access to the lock, the counters and the slots.                         *)
(***************************************************************************)
EXTENDS Integers, Sequences

CONSTANTS
  Item,           (* T *)
  QueueCapacity,  (* CAPACITY *)
  UsizeRange,     (* counters wrap here *)
  Sender,
  SliceLimit      (* the longest slice a call is given *)

\* SpscQueue::new takes a power of two as capacity, which divides the range of
\* the counters.  A T without values has nothing to enqueue.
ASSUME RustSyncAssumption ==
  /\ QueueCapacity \in Nat \ {0} /\ SliceLimit \in Nat \ {0}
  /\ UsizeRange \in Nat
  /\ UsizeRange > QueueCapacity /\ UsizeRange % QueueCapacity = 0
  /\ Item # {}

VARIABLES
  locked,                  (* SpinLockFlag.locked *)
  queueHead, queueTail, storage,
  admitted, (* senders between try_lock and unlock *)
  sending,  (* per sender the items its call writes, from which head, and how many it has *)
  wanted, got,             (* the receiver's call: how many items, and those it has read *)
  received                 (* history: what the last call handed over *)

sendVars == <<locked, queueHead, admitted, sending>>
receiveVars == <<queueTail, wanted, got, received>>
queueVars == <<sendVars, receiveVars, storage>>

Nothing == [items |-> <<>>, at |-> 0, done |-> 0]

QueueInit ==
  /\ locked = FALSE /\ admitted = {}
  /\ queueHead = 0 /\ queueTail = 0
  /\ storage \in [0 .. QueueCapacity - 1 -> Item]
  /\ sending = [s \in Sender |-> Nothing]
  /\ wanted = 0 /\ got = <<>> /\ received = <<>>

\* Wrapping arithmetic and the mask.
Ahead(counter, n) == (counter + n) % UsizeRange
InQueue == (queueHead - queueTail + UsizeRange) % UsizeRange
Index(counter) == counter % QueueCapacity
Fitting(slice, room) == SubSeq(slice, 1, IF Len(slice) < room THEN Len(slice) ELSE room)

\* Faulty variant: the flag is set without a look at what it was.
TryLockBlind(s) ==
  /\ s \notin admitted
  /\ locked' = TRUE /\ admitted' = admitted \cup {s}
  /\ UNCHANGED <<queueHead, sending, storage, receiveVars>>
\* A try_lock that finds the flag set returns false and has changed nothing.
TryLock(s) ==
  /\ s \notin admitted /\ ~locked
  /\ locked' = TRUE /\ admitted' = admitted \cup {s}
  /\ UNCHANGED <<queueHead, sending, storage, receiveVars>>
Unlock(s) ==
  /\ s \in admitted /\ sending[s] = Nothing
  /\ locked' = FALSE /\ admitted' = admitted \ {s}
  /\ UNCHANGED <<queueHead, sending, storage, receiveVars>>

\* Both counters are loaded and there is room for these items.
Begin(s, items) ==
  /\ s \in admitted /\ sending[s] = Nothing
  /\ sending' = [sending EXCEPT ![s] = [items |-> items, at |-> queueHead, done |-> 0]]
  /\ UNCHANGED <<locked, admitted, queueHead, storage, receiveVars>>
TryEnqueue(s, item) == InQueue < QueueCapacity /\ Begin(s, <<item>>)
EnqueueSlice(s, slice) ==
  LET items == Fitting(slice, QueueCapacity - InQueue)
  IN  items # <<>> /\ Begin(s, items)
WriteSlot(s) ==
  LET call == sending[s] IN
  /\ call.done < Len(call.items)
  /\ storage' = [storage EXCEPT ![Index(call.at + call.done)] = call.items[call.done + 1]]
  /\ sending' = [sending EXCEPT ![s].done = @ + 1]
  /\ UNCHANGED <<locked, admitted, queueHead, receiveVars>>
StoreHead(s) ==
  LET call == sending[s] IN
  /\ call # Nothing /\ call.done = Len(call.items)
  /\ queueHead' = Ahead(call.at, Len(call.items))
  /\ sending' = [sending EXCEPT ![s] = Nothing]
  /\ UNCHANGED <<locked, admitted, storage, receiveVars>>

\* Both counters are loaded; as many items are taken as there are, up to n.
Dequeue(n) ==
  /\ wanted = 0 /\ InQueue > 0
  /\ wanted' = IF n < InQueue THEN n ELSE InQueue
  /\ UNCHANGED <<queueTail, got, received, sendVars, storage>>
TryDequeue == Dequeue(1)
DequeueSlice(room) == Dequeue(room)
ReadSlot ==
  /\ Len(got) < wanted
  /\ got' = Append(got, storage[Index(queueTail + Len(got))])
  /\ UNCHANGED <<queueTail, wanted, received, sendVars, storage>>
StoreTail ==
  /\ wanted > 0 /\ Len(got) = wanted
  /\ queueTail' = Ahead(queueTail, wanted)
  /\ received' = got
  /\ wanted' = 0 /\ got' = <<>>
  /\ UNCHANGED <<sendVars, storage>>

Slice == UNION {[1 .. n -> Item] : n \in 1 .. SliceLimit}
QueueNext ==
  \/ \E s \in Sender :
       \/ TryLock(s) \/ Unlock(s) \/ WriteSlot(s) \/ StoreHead(s)
       \/ \E i \in Item : TryEnqueue(s, i)
       \/ \E slice \in Slice : EnqueueSlice(s, slice)
  \/ TryDequeue \/ \E room \in 1 .. SliceLimit : DequeueSlice(room)
  \/ ReadSlot \/ StoreTail

QueueSpec == QueueInit /\ [][QueueNext]_queueVars
-----------------------------------------------------------------------------
Busy == {s \in Sender : sending[s] # Nothing}
\* The call that is being written, if any.
Call == IF Busy = {} THEN Nothing ELSE sending[CHOOSE s \in Busy : TRUE]

\* The inductive invariant of SharedProofs, with that of the ring: the flag is
\* set while a sender is let in, at most one is, and a call starts at the
\* head that will be stored; the receiver has read no more than it wanted.
OneProducer ==
  /\ locked \in BOOLEAN /\ admitted \in SUBSET Sender
  /\ admitted # {} => locked
  /\ \A s, t \in admitted : s = t
  /\ sending \in [Sender -> [items : Seq(Item), at : Nat, done : Nat]]
  /\ \A s \in Busy :
       /\ s \in admitted /\ sending[s].at = queueHead
       /\ sending[s].items # <<>> /\ sending[s].done <= Len(sending[s].items)
  /\ wanted \in Nat /\ got \in Seq(Item) /\ Len(got) <= wanted

\* The items between the counters, oldest first.
QueueNow == [i \in 1 .. InQueue |-> storage[Index(queueTail + i - 1)]]

Shared == INSTANCE Fifo WITH
  Byte <- Item, Capacity <- QueueCapacity,
  queue <- QueueNow,
  offered <- Call.items,
  taken <- received

\* Senders that enqueue only when try_lock let them in share the queue as if
\* it had one producer: items come out whole, once and in the order of the
\* stores of head, over the wrap of slots and counters (the single-producer
\* contract of SpscQueue, which its Sync leaves to the callers).
RustQueueIsFifo == Shared!Spec
=============================================================================
