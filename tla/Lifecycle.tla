------------------------------ MODULE Lifecycle ------------------------------
(***************************************************************************)
(* A device over its resets.  The bootloader reads the firmware metadata   *)
(* and starts an image; the application passes the boot guard, reports and *)
(* clears the crash dump of an earlier run, and then downloads, confirms,  *)
(* rolls back, or reports success, in any order.  Anywhere in it a fault   *)
(* may send the CPU into the handler that captures a dump, a watchdog may  *)
(* reset it, or the power may fail.  The metadata is in flash, the guard   *)
(* in registers with a battery, the dump in RAM that a reset leaves alone. *)
(***************************************************************************)
EXTENDS Ota, BootGuard, CrashDump

deviceVars == <<vars, guardVars, dumpVars>>

DeviceInit == Init /\ GuardInit /\ DumpInit

Running == phase = "application" /\ pc = "idle" /\ dumpPc = "idle"

Boot ==
  /\ phase = "bootloader"
  /\ OtaInit \/ MarkPendingVerify \/ Jump
  /\ UNCHANGED <<guardVars, dumpVars>>

PassGuard ==
  /\ Running
  /\ GuardNext
  /\ UNCHANGED <<vars, dumpVars>>

Update ==
  /\ Running /\ guardPc = "up"
  /\ (\E i \in Image : Stage(i)) \/ Confirm \/ Rollback
  /\ UNCHANGED <<guardVars, dumpVars>>

\* fw_ota_set_desc goes on, unless the handler has taken over.
Flash ==
  /\ dumpPc = "idle"
  /\ EraseSector \/ WriteSector \/ Fail
  /\ UNCHANGED <<guardVars, dumpVars>>

ClearDump ==
  /\ Running /\ guardPc = "up"
  /\ Clear
  /\ UNCHANGED <<vars, guardVars>>

DumpStep ==
  /\ (\E i \in todo : CopyWord(i)) \/ Cleared \/ StoreMagic \/ StoreSum
  /\ UNCHANGED <<vars, guardVars>>

HardFault ==
  /\ phase = "application" /\ pc \in CutAt
  /\ \E f \in Fault : Capture(f)
  /\ UNCHANGED <<vars, guardVars>>

CpuReset == Cut /\ GuardReset /\ DumpReset
PowerCut == Cut /\ GuardReset /\ DumpLost

DeviceNext ==
  \/ Boot \/ PassGuard \/ Update \/ Flash
  \/ ClearDump \/ DumpStep \/ HardFault
  \/ CpuReset \/ PowerCut

DeviceSpec == DeviceInit /\ [][DeviceNext]_deviceVars
=============================================================================
