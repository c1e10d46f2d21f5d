-------------------------------- MODULE Ota --------------------------------
(***************************************************************************)
(* The firmware metadata of ota.c: one descriptor in a flash sector of its *)
(* own, a copy of it in RAM, and fw_ota_set_desc, which erases the sector  *)
(* and then writes it.  Power may fail, and a watchdog may reset the CPU,  *)
(* between any two steps.  The callers are outside src/: a bootloader that *)
(* marks a new image pending before it jumps into it, and an application   *)
(* that confirms or rolls back as the user guide shows, or hangs.          *)
(***************************************************************************)
EXTENDS Integers

CONSTANTS
  Image,         (* downloaded images: version, size and CRC *)
  Factory,       (* the defaults fw_ota_init writes *)
  AttemptLimit,  (* bound of the model: no more boots are counted *)
  Blank,         (* a sector without the magic number; an unset RAM copy *)
  CutAt,         (* where power may fail or the CPU be reset: values of pc *)
  FailAt         (* where the flash driver may report an error *)

ASSUME OtaAssumption ==
  /\ Factory \notin Image
  /\ AttemptLimit \in Nat

VARIABLES
  sector,   (* the descriptor in flash, or Blank *)
  current,  (* fw_ota_t.current_desc, or Blank before fw_ota_init *)
  pc,       (* "off", "idle", or the flash operation under way *)
  phase,    (* who runs: "bootloader" or "application" *)
  target,   (* the descriptor being written *)
  settled,  (* what the last fw_ota_set_desc of a caller that returned FW_OK wrote *)
  boots     (* boots of the image marked pending since it was staged *)

vars == <<sector, current, pc, phase, target, settled, boots>>
history == <<settled, boots>>

State == {"EMPTY", "DOWNLOADED", "PENDING_VERIFY", "CONFIRMED", "ROLLBACK"}
Desc == [image : Image \cup {Factory}, state : State, attempts : 0 .. AttemptLimit]

ASSUME BlankAssumption == Blank \notin Desc

Defaults == [image |-> Factory, state |-> "EMPTY", attempts |-> 0]

Init ==
  /\ sector = Blank /\ current = Blank
  /\ pc = "off" /\ phase = "bootloader"
  /\ target = Defaults /\ settled = Defaults
  /\ boots = 0

OtaInit ==
  /\ pc = "off"
  /\ \/ /\ sector # Blank
        /\ current' = sector
        /\ pc' = "idle"
        /\ UNCHANGED target
     \/ /\ sector = Blank
        /\ target' = Defaults
        /\ pc' = "erase"
        /\ UNCHANGED current
  /\ UNCHANGED <<sector, phase, history>>

\* fw_ota_set_desc sets out to write d.
SetDesc(d) ==
  /\ pc = "idle" /\ pc' = "erase"
  /\ target' = d
  /\ UNCHANGED <<sector, current, history>>

\* The application has downloaded and checked an image.
Stage(i) ==
  /\ phase = "application"
  /\ SetDesc([image |-> i, state |-> "DOWNLOADED", attempts |-> 0])
  /\ UNCHANGED phase

\* Faulty variant: the boot is not counted.
PendingUncounted == [current EXCEPT !.state = "PENDING_VERIFY"]
\* The descriptor fw_ota_mark_pending_verify writes.
Pending == [current EXCEPT !.state = "PENDING_VERIFY", !.attempts = @ + 1]

ToTest == current.state \in {"DOWNLOADED", "PENDING_VERIFY"}

\* The bootloader marks an image under test and jumps into it.
MarkPendingVerify ==
  /\ phase = "bootloader" /\ pc = "idle" /\ ToTest
  /\ current.attempts < AttemptLimit
  /\ SetDesc(Pending)
  /\ phase' = "application"

\* It jumps into any other image as it is.
Jump ==
  /\ phase = "bootloader" /\ pc = "idle" /\ ~ToTest
  /\ phase' = "application"
  /\ UNCHANGED <<sector, current, pc, target, history>>

\* The application asks for the state and confirms, or rolls back.
SelfTest(d) ==
  /\ phase = "application" /\ pc = "idle"
  /\ current.state = "PENDING_VERIFY"
  /\ SetDesc(d)
  /\ UNCHANGED phase

Confirm == SelfTest([current EXCEPT !.state = "CONFIRMED", !.attempts = 0])
Rollback == SelfTest([current EXCEPT !.state = "ROLLBACK"])

EraseSector ==
  /\ pc = "erase" /\ pc' = "write"
  /\ sector' = Blank
  /\ UNCHANGED <<current, phase, target, history>>

Boots ==
  IF target.state = "PENDING_VERIFY" THEN boots + 1
  ELSE IF target.state = "DOWNLOADED" THEN 0 ELSE boots

\* The defaults fw_ota_init writes replace nothing that was asked for.
Settled == IF current = Blank THEN settled ELSE target

\* Faulty variant: the copy in RAM is left as it was.
WriteSectorOnly ==
  /\ pc = "write" /\ pc' = "idle"
  /\ sector' = target
  /\ settled' = Settled /\ boots' = Boots
  /\ UNCHANGED <<current, phase, target>>
\* The sector is written, then the copy in RAM; the call returns FW_OK.
WriteSector ==
  /\ pc = "write" /\ pc' = "idle"
  /\ sector' = target
  /\ current' = target
  /\ settled' = Settled /\ boots' = Boots
  /\ UNCHANGED <<phase, target>>

\* Power fails or the CPU is reset.
Cut ==
  /\ pc \in CutAt
  /\ pc' = "off" /\ phase' = "bootloader"
  /\ current' = Blank
  /\ UNCHANGED <<sector, target, history>>

\* The driver reports an error and FW_CHECK returns it; fw_ota_init is
\* called again.
Fail ==
  /\ pc \in FailAt
  /\ pc' = (IF current = Blank THEN "off" ELSE "idle")
  /\ UNCHANGED <<sector, current, phase, target, history>>

Next ==
  \/ OtaInit
  \/ \E i \in Image : Stage(i)
  \/ MarkPendingVerify \/ Jump
  \/ Confirm \/ Rollback
  \/ EraseSector \/ WriteSector
  \/ Cut \/ Fail

Spec == Init /\ [][Next]_vars
-----------------------------------------------------------------------------
\* Between calls, current_desc holds a descriptor: never a sector without
\* the magic number (fw_ota_init).
TypeOK ==
  /\ sector \in Desc \cup {Blank}
  /\ current \in Desc \cup {Blank} /\ (pc = "idle" => current \in Desc)
  /\ pc \in {"off", "idle", "erase", "write"}
  /\ phase \in {"bootloader", "application"}
  /\ target \in Desc /\ settled \in Desc
  /\ boots \in Nat

\* Between calls fw_ota_get_desc answers with what the last fw_ota_set_desc
\* that returned FW_OK wrote, across resets and failed erases too: what was
\* confirmed stays confirmed.
Remembered == pc = "idle" => current = settled /\ sector = settled

\* boot_attempts counts every boot fw_ota_mark_pending_verify has recorded
\* since the image was staged, whatever resets came in between: a bootloader
\* that compares it with max_attempts is not misled.
BootsCounted ==
  pc = "idle" /\ current.state = "PENDING_VERIFY" => current.attempts = boots

Writing == pc \in {"erase", "write"} /\ current # Blank

\* The inductive invariant of LifecycleProofs, for cuts and errors no later than the
\* erase: until then flash holds what was settled, or nothing because nothing
\* was ever asked for.
OtaInv ==
  /\ TypeOK
  /\ current # Blank => current = settled
  /\ sector = settled \/ (sector = Blank /\ (pc = "write" \/ (settled = Defaults /\ current = Blank)))
  /\ pc = "off" => current = Blank
  /\ pc \in {"erase", "write"} /\ current = Blank => settled = Defaults /\ target = Defaults
  /\ settled.state \in {"DOWNLOADED", "PENDING_VERIFY"} => settled.attempts = boots
  /\ Writing /\ target.state = "PENDING_VERIFY" => target.attempts = boots + 1
  /\ Writing /\ target.state = "DOWNLOADED" => target.attempts = 0
=============================================================================
