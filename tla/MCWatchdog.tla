------------------------------ MODULE MCWatchdog ------------------------------
(* An application that registers all its tasks before any of them runs and *)
(* unregisters none: what is preempted later is a heartbeat, or the        *)
(* superloop's own service.                                                *)
EXTENDS Watchdog

SetUp == \E t \in Task \ registered : RegisterTask(t)
Run ==
  /\ registered = Task
  /\ \/ Tick
     \/ \E t \in MainTask : Heartbeat(t)
     \/ \E t \in IsrTask : IsrHeartbeat(t)
     \/ Service \/ ServiceTask
SteadySpec == WdtInit /\ [][SetUp \/ Run \/ Finish]_wdtVars
=============================================================================
