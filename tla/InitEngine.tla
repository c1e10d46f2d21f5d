----------------------------- MODULE InitEngine -----------------------------
(***************************************************************************)
(* The initialisation engine of init.c.  Initialisers run in the middle of *)
(* a pass over the levels; they may fail, and they may register others,    *)
(* which the loops see because they read the count afresh.  They do not    *)
(* start a pass themselves.                                                *)
(***************************************************************************)
EXTENDS ExchangeSort

CONSTANTS
  InitFn, InitPriority,
  Levels,   (* FW_INIT_LEVEL_COUNT *)
  MaxInits  (* FW_INIT_MAX_ENTRIES *)

ASSUME InitAssumption == Levels \in Nat \ {0} /\ InitPriority \subseteq Nat

VARIABLES
  table,     (* s_init_entries up to s_init_count *)
  executed,  (* the levels with s_level_executed set *)
  pass       (* the run under way: its level, the index of the loop, whether
                an initialiser runs, whether more levels follow; and as
                history the initialisers called in it, those that returned
                FW_OK, the entries registered when the level began, and the
                initialisers registered too late for their level *)

initVars == <<table, executed, pass>>

Idle == [level |-> 0, next |-> 1, stage |-> "idle", all |-> FALSE,
         calls |-> [f \in InitFn |-> 0], done |-> {}, present |-> {}, late |-> {}]

EngineInit == table = <<>> /\ executed = {} /\ pass = Idle

Entries == {table[i] : i \in 1 .. Len(table)}

\* fw_init_register, before a pass or from an initialiser.  An initialiser
\* already known, or a full table, changes nothing.
IsNew(fn) == \A i \in 1 .. Len(table) : table[i].fn # fn
InitRegister(fn, level, priority) ==
  /\ pass.stage \in {"idle", "call"}
  /\ Len(table) < MaxInits
  /\ IsNew(fn)
  /\ table' = Append(table, [fn |-> fn, level |-> level, priority |-> priority])
  /\ pass' = IF pass.stage = "call" /\ level < pass.level
               THEN [pass EXCEPT !.late = @ \cup {fn}] ELSE pass
  /\ UNCHANGED executed

\* fw_init_level sorts the entries of its level among themselves.
Swapped(level) ==
  {p \in Entries \X Entries :
    p[1].level = level /\ p[2].level = level /\ p[1].priority > p[2].priority}
SortLevel(level) ==
  table' = Sort(table, Swapped(level))

\* fw_init_all and fw_init_level begin.
StartAll ==
  /\ pass.stage = "idle"
  /\ SortLevel(0)
  /\ pass' = [Idle EXCEPT !.stage = "loop", !.all = TRUE, !.present = Entries]
  /\ UNCHANGED executed
StartLevel(level) ==
  /\ pass.stage = "idle"
  /\ SortLevel(level)
  /\ pass' = [Idle EXCEPT !.stage = "loop", !.level = level, !.present = Entries]
  /\ UNCHANGED executed

\* The loop over the table, which grows while it runs.
ToRun(i) == i >= pass.next /\ i <= Len(table) /\ table[i].level = pass.level
CallInit ==
  /\ pass.stage = "loop"
  /\ \E i \in 1 .. Len(table) :
       /\ ToRun(i) /\ \A j \in 1 .. i - 1 : ~ToRun(j)
       /\ pass' = [pass EXCEPT !.stage = "call", !.next = i + 1,
                     !.calls[table[i].fn] = @ + 1]
  /\ UNCHANGED <<table, executed>>

RunningEntry == table[pass.next - 1]

ReturnOk ==
  /\ pass.stage = "call"
  /\ pass' = [pass EXCEPT !.stage = "loop", !.done = @ \cup {RunningEntry.fn}]
  /\ UNCHANGED <<table, executed>>
\* A failure ends the pass; the application may start another one.
\* Faulty variant: the pass goes on.
ReturnErrorIgnored ==
  /\ pass.stage = "call"
  /\ pass' = [pass EXCEPT !.stage = "loop"]
  /\ UNCHANGED <<table, executed>>
ReturnError ==
  /\ pass.stage = "call"
  /\ pass' = Idle
  /\ UNCHANGED <<table, executed>>

\* The level is through; fw_init_all takes the next one.
EndLevel ==
  /\ pass.stage = "loop"
  /\ \A i \in 1 .. Len(table) : ~ToRun(i)
  /\ executed' = executed \cup {pass.level}
  /\ IF pass.all /\ pass.level + 1 < Levels
       THEN /\ SortLevel(pass.level + 1)
            /\ pass' = [pass EXCEPT !.level = @ + 1, !.next = 1, !.present = Entries]
       ELSE /\ pass' = Idle
            /\ UNCHANGED table

\* fw_init_reset.
EngineReset ==
  /\ pass.stage = "idle"
  /\ table' = <<>> /\ executed' = {}
  /\ UNCHANGED pass

EngineNext ==
  \/ \E f \in InitFn, l \in 0 .. Levels - 1, p \in InitPriority : InitRegister(f, l, p)
  \/ StartAll \/ \E l \in 0 .. Levels - 1 : StartLevel(l)
  \/ CallInit \/ ReturnOk \/ ReturnError \/ EndLevel \/ EngineReset

EngineSpec == EngineInit /\ [][EngineNext]_initVars
-----------------------------------------------------------------------------
\* Nothing runs twice in one pass, although sorting moves entries and
\* initialisers register others, themselves included (init.c:18-22, 52).
NoSecondCall == \A f \in InitFn : pass.calls[f] <= 1

\* What runs finds the levels below it complete: each initialiser of theirs
\* has returned FW_OK in this pass, save those registered when their level
\* was over (init.c:53-57, 66-71).
LowerLevelsDone ==
  pass.stage = "call" /\ pass.all =>
    \A e \in Entries :
      e.level < pass.level /\ e.fn \notin pass.late => e.fn \in pass.done

\* What runs finds everything of its level that was registered when the
\* level began and has a smaller number done (init.c:38-48).
PriorityHeld ==
  pass.stage = "call" =>
    \A e \in pass.present :
      e.level = pass.level /\ e.priority < RunningEntry.priority => e.fn \in pass.done

\* One pass is one start of the device: nothing twice, everything after what it
\* may rely on, whatever initialisers register or report on the way.
StartsInOrder == NoSecondCall /\ LowerLevelsDone /\ PriorityHeld
=============================================================================
