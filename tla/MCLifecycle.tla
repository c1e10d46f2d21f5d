----------------------------- MODULE MCLifecycle -----------------------------
(* Lifecycle with words of eight bits: magic number and seed are the low   *)
(* ones of FW_CRASH_DUMP_MAGIC and 0xA5A55A5A.  What the application runs  *)
(* in between calls back: initialisers, hooks and state machines.  The     *)
(* four share nothing, so that each behaviour lets one run.                *)
EXTENDS Lifecycle, Hook, Fsm, InitEngine

VARIABLE part
all == <<part, deviceVars, hookVars, fsmVars, initVars>>

MCFault == {<<1, 1>>, <<2, 8>>}
Row(from, event, guarded, to) ==
  [from |-> from, event |-> event, guarded |-> guarded, to |-> to]
MCTransitions == <<
  Row("A", "go", TRUE, "B"), Row("A", "go", FALSE, "C"), Row("B", "go", FALSE, "C"),
  Row("C", "go", FALSE, "C"), Row("ANY", "reset", FALSE, "A")>>

PartsInit ==
  /\ part \in {"device", "hook", "fsm", "init"}
  /\ DeviceInit /\ HookInit /\ FsmInit /\ EngineInit
  /\ part # "fsm" => current_state = "A"

DevicePart == part = "device" /\ DeviceNext /\ UNCHANGED <<part, hookVars, fsmVars, initVars>>
HookPart == part = "hook" /\ HookNext /\ UNCHANGED <<part, deviceVars, fsmVars, initVars>>
FsmPart == part = "fsm" /\ FsmNext /\ UNCHANGED <<part, deviceVars, hookVars, initVars>>
InitPart == part = "init" /\ EngineNext /\ UNCHANGED <<part, deviceVars, hookVars, fsmVars>>

PartsNext == DevicePart \/ HookPart \/ FsmPart \/ InitPart
PartsSpec == PartsInit /\ [][PartsNext]_all
=============================================================================
