-------------------------------- MODULE Hook --------------------------------
(***************************************************************************)
(* The hook table of hook.c.  Callbacks run in the middle of a dispatch    *)
(* and may register, unregister and dispatch themselves; the dispatch      *)
(* walks the entries it matched at its start and reads each of them again  *)
(* when its turn comes.  Cookies and statistics are left out.              *)
(***************************************************************************)
EXTENDS ExchangeSort, FiniteSets

CONSTANTS
  Event, Callback, Priority,
  MaxEntries,  (* FW_HOOK_MAX_ENTRIES *)
  MaxDepth     (* bound of the model: dispatches inside one another *)

ASSUME HookAssumption ==
  /\ MaxEntries \in Nat /\ Priority \subseteq Nat
  /\ Event # {} /\ Callback # {} /\ Priority # {}

VARIABLES
  entries,  (* fw_hook_table_t.entries; an inactive one keeps its fields *)
  frames    (* the dispatches under way, innermost last: the event, the slots
               matched, the next one's place, whether a callback runs; and as
               history the callbacks registered when it began, how often it
               called each, and whether a slot it matched was reused since *)

hookVars == <<entries, frames>>

Slot == 1 .. MaxEntries

\* fw_hook_table_init; an entry never used reads as zeros.
HookInit ==
  /\ entries = [s \in Slot |->
       [event |-> CHOOSE e \in Event : TRUE, callback |-> CHOOSE c \in Callback : TRUE,
        priority |-> CHOOSE p \in Priority : TRUE, active |-> FALSE]]
  /\ frames = <<>>

IsFor(s, e, c) == entries[s].active /\ entries[s].event = e /\ entries[s].callback = c
FreeSlots == {s \in Slot : ~entries[s].active}

Top == Len(frames)
\* The application's turn: outside every dispatch or inside a callback.
Turn == frames # <<>> => frames[Top].running

Reuse(s) ==
  [f \in 1 .. Top |->
    [frames[f] EXCEPT !.reused = @ \/ \E k \in 1 .. Len(frames[f].matched) : frames[f].matched[k] = s]]

\* fw_hook_register; a full table refuses and changes nothing.
Known(e, c) == {s \in Slot : IsFor(s, e, c)}
Reprioritise(e, c, p) ==
  /\ Turn
  /\ \E s \in Known(e, c) :
       /\ \A t \in Known(e, c) : s <= t
       /\ entries' = [entries EXCEPT ![s].priority = p]
  /\ UNCHANGED frames
Register(e, c, p) ==
  /\ Turn
  /\ Known(e, c) = {}
  /\ \E s \in FreeSlots :
       /\ \A t \in FreeSlots : s <= t
       /\ entries' = [entries EXCEPT ![s] =
            [event |-> e, callback |-> c, priority |-> p, active |-> TRUE]]
       /\ frames' = Reuse(s)

\* fw_hook_unregister.
Unregister(e, c) ==
  /\ Turn
  /\ \E s \in Slot :
       /\ IsFor(s, e, c)
       /\ \A t \in Slot : IsFor(t, e, c) => s <= t
       /\ entries' = [entries EXCEPT ![s].active = FALSE]
  /\ UNCHANGED frames

\* The entries a dispatch collects and sorts.
\* Faulty variant: inactive entries count.
MatchesStale(s, e) == entries[s].event = e
Matches(s, e) == entries[s].active /\ entries[s].event = e
Collect(found, s, e) == IF Matches(s, e) THEN Append(found, s) ELSE found
Collected(e) ==
  LET upto[s \in 0 .. MaxEntries] == IF s = 0 THEN <<>> ELSE Collect(upto[s - 1], s, e)
  IN  upto[MaxEntries]
Later == {p \in Slot \X Slot : entries[p[1]].priority > entries[p[2]].priority}
Matched(e) == Sort(Collected(e), Later)

RegisteredFor(e) == {c \in Callback : \E s \in Slot : IsFor(s, e, c)}

\* fw_hook_dispatch begins.
Dispatch(e) ==
  /\ Turn
  /\ Top < MaxDepth
  /\ frames' = Append(frames,
       [event |-> e, matched |-> Matched(e), next |-> 1, running |-> FALSE,
        atStart |-> RegisteredFor(e), calls |-> [c \in Callback |-> 0], reused |-> FALSE])
  /\ UNCHANGED entries

\* It calls what the next slot holds now.
Called(f) == entries[frames[f].matched[frames[f].next]].callback
Call ==
  /\ ~Turn
  /\ frames[Top].next <= Len(frames[Top].matched)
  /\ frames' = [frames EXCEPT
       ![Top].calls[Called(Top)] = @ + 1,
       ![Top].next = @ + 1,
       ![Top].running = TRUE]
  /\ UNCHANGED entries

\* The callback returns FW_HOOK_CONTINUE.
Continue ==
  /\ Top > 0 /\ frames[Top].running
  /\ frames' = [frames EXCEPT ![Top].running = FALSE]
  /\ UNCHANGED entries

\* The dispatch returns: all are through, or the callback said FW_HOOK_STOP.
Return ==
  /\ Top > 0
  /\ frames[Top].running \/ frames[Top].next > Len(frames[Top].matched)
  /\ frames' = SubSeq(frames, 1, Top - 1)
  /\ UNCHANGED entries

HookNext ==
  \/ \E e \in Event, c \in Callback, p \in Priority : Reprioritise(e, c, p) \/ Register(e, c, p)
  \/ \E e \in Event, c \in Callback : Unregister(e, c)
  \/ \E e \in Event : Dispatch(e)
  \/ Call \/ Continue \/ Return

HookSpec == HookInit /\ [][HookNext]_hookVars
-----------------------------------------------------------------------------
\* A dispatch that runs to its end has called each hook that was registered
\* when it began exactly once and no other, although callbacks register,
\* unregister and dispatch in between.  The code owes this to nobody reusing
\* a slot it has matched (hook.c:114-117): then it calls a stranger.
EachHookOnce ==
  \A f \in 1 .. Top :
    ~frames[f].reused =>
      \A c \in Callback :
        LET due == IF c \in frames[f].atStart THEN 1 ELSE 0 IN
        /\ frames[f].calls[c] <= due
        /\ (frames[f].next > Len(frames[f].matched)) => frames[f].calls[c] = due

\* A dispatch starts with its slots in order of priority, equals in any
\* order (hook.c:103-111).
SnapshotSorted ==
  Top > 0 /\ frames[Top].next = 1 =>
    \A i, j \in 1 .. Len(frames[Top].matched) :
      i < j => entries[frames[Top].matched[i]].priority
                 <= entries[frames[Top].matched[j]].priority

\* Every dispatch serves all it owes a call, by priority and once
\* (fw_hook_dispatch).
HooksOnceInOrder == EachHookOnce /\ SnapshotSorted
=============================================================================
