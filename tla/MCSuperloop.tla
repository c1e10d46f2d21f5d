----------------------------- MODULE MCSuperloop -----------------------------
(* What a superloop does between interrupts: it dispatches the work they   *)
(* have posted, flushes what was logged, sleeps, waits, filters what it    *)
(* samples, and talks over a UART.  The six share nothing, so that each    *)
(* behaviour lets one run.  In frames that carry a start of frame as data  *)
(* and with corrupted packets a slice cuts what follows the first frame.   *)
EXTENDS Tasklet, Log, Power, Waits, Filter, Node

VARIABLE part
all == <<part, vars, logVars, powerVars, waitVars, filterVars, nodeVars>>

MCPayload == [m \in {Ping, Telemetry} |-> IF m = Ping THEN <<80>> ELSE <<SOF1, 80>>]
MCPong == <<79>>
MCGarbage == <<SOF0, SOF1, 1, 153, 2, 0, 222, 173, 0, 0, 0, 0>>

TaskletPart(A) == part = "tasklet" /\ A
  /\ UNCHANGED <<part, logVars, powerVars, waitVars, filterVars, nodeVars>>
LogPart(A) == part = "log" /\ A
  /\ UNCHANGED <<part, vars, powerVars, waitVars, filterVars, nodeVars>>
PowerPart(A) == part = "power" /\ A
  /\ UNCHANGED <<part, vars, logVars, waitVars, filterVars, nodeVars>>
WaitPart(A) == part = "wait" /\ A
  /\ UNCHANGED <<part, vars, logVars, powerVars, filterVars, nodeVars>>
FilterPart(A) == part = "filter" /\ A
  /\ UNCHANGED <<part, vars, logVars, powerVars, waitVars, nodeVars>>
NodePart(A) == part = "node" /\ A
  /\ UNCHANGED <<part, vars, logVars, powerVars, waitVars, filterVars>>

PartsInit ==
  /\ part \in {"tasklet", "log", "power", "wait", "filter", "node"}
  /\ Init /\ LogInit /\ PowerInit /\ WaitInit /\ FilterInit /\ NodeInit
  /\ part # "tasklet" => storage = [s \in Slot |-> CHOOSE w \in Work : TRUE]
  /\ part # "log" => logEntries[1][1] = CHOOSE m \in Message : TRUE
  /\ part # "power" => millis = 0
  /\ part # "wait" => uptime = 0
  /\ part # "filter" => stable = FALSE /\ ema = 0
  /\ part # "node" => autoStep = 0
PartsNext ==
  \/ TaskletPart(Next) \/ LogPart(LogNext) \/ PowerPart(PowerNext)
  \/ WaitPart(WaitNext) \/ FilterPart(FilterNext) \/ NodePart(NodeNext)

PartsSpec ==
  /\ PartsInit /\ [][PartsNext]_all
  /\ WF_all(TaskletPart(Main)) /\ \A l \in Poster : WF_all(TaskletPart(Finish(l)))
  /\ WF_all(LogPart(LogMain)) /\ \A c \in Context : WF_all(LogPart(LogFinish(c)))
  /\ WF_turn(part = "node" /\ GoesOn)
=============================================================================
