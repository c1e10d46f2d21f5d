------------------------------- MODULE Tasklet -------------------------------
(***************************************************************************)
(* The deferred work queue of tasklet.c on one core.  Interrupt levels     *)
(* post; the superloop dispatches, and a handler it runs may post too.  A  *)
(* higher level preempts the ones below it between any two of their steps. *)
(* A post reads the counters, fills its slot and then stores head.         *)
(***************************************************************************)
EXTENDS Integers, Sequences

CONSTANTS
  Work,      (* handlers with their arguments *)
  Capacity,  (* fw_tasklet_queue_t.capacity *)
  Modulus,   (* counters are computed modulo this *)
  Poster,    (* the levels that post: 0 the main thread, 1 and up interrupts *)
  Levels     (* the highest interrupt level *)

ASSUME TaskletAssumption ==
  /\ Capacity \in Nat \ {0} /\ Modulus \in Nat
  /\ Modulus > Capacity /\ Modulus % Capacity = 0
  /\ Levels \in Nat /\ Poster \subseteq 0 .. Levels

Level == 0 .. Levels
Slot == 0 .. Capacity - 1
Counter == 0 .. Modulus - 1

VARIABLES
  head, tail, storage,  (* fw_tasklet_queue_t *)
  post,   (* post[l]: <<step, the head it read, the work>> of level l, or <<>> *)
  pc,     (* the superloop: "idle", or a step of fw_tasklet_dispatch_all *)
  work,   (* what it has taken, or <<>> *)
  due     (* the work whose post returned FW_OK and that has not run, in order *)

queue == <<head, tail, storage>>
vars == <<queue, post, pc, work, due>>

Init ==
  /\ head = 0 /\ tail = 0
  /\ storage \in [Slot -> Work]
  /\ post = [l \in Level |-> <<>>]
  /\ pc = "idle" /\ work = <<>>
  /\ due = <<>>

Next1(c) == (c + 1) % Modulus
SlotOf(c) == c % Capacity
\* Faulty variant: one item too many.
FullLate == (head - tail + Modulus) % Modulus > Capacity
Full == (head - tail + Modulus) % Modulus >= Capacity

\* Level l has the core.
Runs(l) == \A m \in Level : m > l => post[m] = <<>>
-----------------------------------------------------------------------------
(* fw_tasklet_post                                                         *)

\* A level posts once at a time; level 0 from a handler it runs, or between
\* two dispatches.
Begin(l, w) ==
  /\ Runs(l) /\ post[l] = <<>>
  /\ l = 0 => pc \in {"idle", "handler"}
  /\ ~Full
  /\ post' = [post EXCEPT ![l] = <<"write", head, w>>]
  /\ UNCHANGED <<queue, pc, work, due>>

WriteItem(l) ==
  /\ Runs(l) /\ post[l] # <<>> /\ post[l][1] = "write"
  /\ storage' = [storage EXCEPT ![SlotOf(post[l][2])] = post[l][3]]
  /\ post' = [post EXCEPT ![l][1] = "publish"]
  /\ UNCHANGED <<head, tail, pc, work, due>>

\* The store of head; the call returns FW_OK.
Publish(l) ==
  /\ Runs(l) /\ post[l] # <<>> /\ post[l][1] = "publish"
  /\ head' = Next1(post[l][2])
  /\ post' = [post EXCEPT ![l] = <<>>]
  /\ due' = Append(due, post[l][3])
  /\ UNCHANGED <<tail, storage, pc, work>>
-----------------------------------------------------------------------------
(* fw_tasklet_dispatch_all and fw_tasklet_dispatch_one in the superloop    *)

DispatchAll ==
  /\ Runs(0) /\ post[0] = <<>> /\ pc = "idle" /\ pc' = "look"
  /\ UNCHANGED <<queue, post, work, due>>

\* Faulty variant: slots are compared, so a full queue looks empty.
LookAtSlots ==
  /\ Runs(0) /\ pc = "look"
  /\ pc' = IF SlotOf(tail) = SlotOf(head) THEN "idle" ELSE "take"
  /\ UNCHANGED <<queue, post, work, due>>
\* An empty queue ends the loop.
Look ==
  /\ Runs(0) /\ pc = "look"
  /\ pc' = IF tail = head THEN "idle" ELSE "take"
  /\ UNCHANGED <<queue, post, work, due>>

Take ==
  /\ Runs(0) /\ pc = "take" /\ pc' = "advance"
  /\ work' = <<storage[SlotOf(tail)]>>
  /\ UNCHANGED <<queue, post, due>>

\* The slot is free from here on.
Advance ==
  /\ Runs(0) /\ pc = "advance" /\ pc' = "call"
  /\ tail' = Next1(tail)
  /\ UNCHANGED <<head, storage, post, work, due>>

Call ==
  /\ Runs(0) /\ pc = "call" /\ pc' = "handler"
  /\ work' = <<>>
  /\ due' = Tail(due)
  /\ UNCHANGED <<queue, post>>

\* The handler returns.
Return ==
  /\ Runs(0) /\ pc = "handler" /\ post[0] = <<>>
  /\ pc' = "look"
  /\ UNCHANGED <<queue, post, work, due>>
-----------------------------------------------------------------------------
Main == DispatchAll \/ Look \/ Take \/ Advance \/ Call \/ Return
Finish(l) == WriteItem(l) \/ Publish(l)

Next ==
  \/ Main
  \/ \E l \in Poster : Finish(l) \/ \E w \in Work : Begin(l, w)

Spec == Init /\ [][Next]_vars

\* The superloop runs and calls that began end; nothing is assumed of how
\* often anything is posted.
FairSpec == Spec /\ WF_vars(Main) /\ \A l \in Poster : WF_vars(Finish(l))
-----------------------------------------------------------------------------
\* The counters keep their width and every slot holds work.
TypeOK ==
  /\ head \in Counter /\ tail \in Counter
  /\ storage \in [Slot -> Work]
  /\ post \in [Level -> {<<>>} \cup ({"write", "publish"} \X Counter \X Work)]
  /\ pc \in {"idle", "look", "take", "advance", "call", "handler"}
  /\ work \in {<<>>} \cup {<<w>> : w \in Work}
  /\ due \in Seq(Work)

Count == (head - tail + Modulus) % Modulus
Queued == [i \in 1 .. Count |-> storage[SlotOf((tail + i - 1) % Modulus)]]

\* Work whose post returned FW_OK runs, once and in the order posted: it is
\* in the queue until the superloop has taken it, and then in its hands.
PostsKept == due = (IF pc = "call" THEN work ELSE <<>>) \o Queued

\* With one level that posts, a post holds the head it read until it stores
\* it, and its slot is none the superloop can take: with PostsKept the
\* inductive invariant of SuperloopProofs.
OnePoster == \A l, m \in Poster : l = m
SlotKept ==
  /\ Count <= Capacity
  /\ \A l \in Level : post[l] # <<>> =>
       /\ l \in Poster
       /\ post[l][2] = head /\ Count < Capacity
       /\ post[l][1] = "publish" => storage[SlotOf(head)] = post[l][3]
  /\ pc \in {"take", "advance"} => Count > 0
  /\ pc = "advance" => work = <<storage[SlotOf(tail)]>>
  /\ pc = "call" => work # <<>>
TaskletInv == TypeOK /\ SlotKept /\ PostsKept

\* Queued work is taken sooner or later, however fast more is posted.
Drains == \A c \in Counter : (tail = c /\ head # c) ~> tail # c
=============================================================================
