------------------------------ MODULE BootGuard ------------------------------
(***************************************************************************)
(* The boot guard of boot_guard.c: a structure in memory that survives     *)
(* resets.  A reset may fall between any two of the stores of a call, and  *)
(* nothing is undone then.                                                 *)
(***************************************************************************)
EXTENDS Integers

CONSTANTS
  MaxCrashes,  (* what fw_boot_guard_init is told, 0 for its default *)
  BootLimit    (* bound of the model: no more boots *)

ASSUME BootGuardAssumption == MaxCrashes \in Nat /\ BootLimit \in Nat

VARIABLES
  attempts, crashes, safe,  (* boot_attempts, consecutive_crashes, safe_mode_active *)
  guardPc,   (* "off" until fw_boot_guard_init is called, "up" between calls *)
  streak,    (* history: boots that have got through it since the last success *)
  override,  (* history: safe mode set by hand, "on" or "off", or "none" *)
  settledAt  (* history: boot_attempts when the last success was recorded *)

guard == <<attempts, crashes, safe>>
guardHistory == <<streak, override, settledAt>>
guardVars == <<guard, guardPc, guardHistory>>

Allowed == IF MaxCrashes = 0 THEN 3 ELSE MaxCrashes

GuardInit ==
  /\ attempts = 0 /\ crashes = 0 /\ safe = FALSE
  /\ guardPc = "off"
  /\ streak = 0 /\ override = "none" /\ settledAt = 0

GuardAt(from, to) == guardPc = from /\ guardPc' = to

\* fw_boot_guard_init, one store at a time.
CountAttempt ==
  /\ GuardAt("off", "count") /\ attempts < BootLimit
  /\ attempts' = attempts + 1
  /\ UNCHANGED <<crashes, safe, guardHistory>>

CountCrash ==
  /\ GuardAt("count", "compare")
  /\ crashes' = crashes + 1
  /\ UNCHANGED <<attempts, safe, guardHistory>>

\* Faulty variant: safe mode comes one crash late.
CompareLate ==
  /\ GuardAt("compare", "up")
  /\ safe' = (safe \/ crashes > Allowed)
  /\ streak' = streak + 1
  /\ override' = IF override = "off" THEN "none" ELSE override
  /\ UNCHANGED <<attempts, crashes, settledAt>>
Compare ==
  /\ GuardAt("compare", "up")
  /\ safe' = (safe \/ crashes >= Allowed)
  /\ streak' = streak + 1
  /\ override' = IF override = "off" THEN "none" ELSE override
  /\ UNCHANGED <<attempts, crashes, settledAt>>

\* fw_boot_guard_mark_success, one store at a time.
MarkSuccess ==
  /\ GuardAt("up", "stable")
  /\ crashes' = 0 /\ streak' = 0
  /\ UNCHANGED <<attempts, safe, override, settledAt>>

LeaveSafeMode ==
  /\ GuardAt("stable", "up")
  /\ safe' = FALSE
  /\ override' = "none" /\ settledAt' = attempts
  /\ UNCHANGED <<attempts, crashes, streak>>

SetSafeMode(enable) ==
  /\ GuardAt("up", "up")
  /\ safe' = enable
  /\ override' = IF enable THEN "on" ELSE "off"
  /\ UNCHANGED <<attempts, crashes, streak, settledAt>>

GuardReset == guardPc' = "off" /\ UNCHANGED <<guard, guardHistory>>

GuardNext ==
  \/ CountAttempt \/ CountCrash \/ Compare
  \/ MarkSuccess \/ LeaveSafeMode
  \/ \E enable \in BOOLEAN : SetSafeMode(enable)

GuardSpec == GuardInit /\ [][GuardNext \/ GuardReset]_guardVars
-----------------------------------------------------------------------------
\* The guard's counters follow the boots, also over calls cut short.
GuardTypeOK ==
  /\ attempts \in 0 .. BootLimit /\ crashes \in 0 .. attempts /\ safe \in BOOLEAN
  /\ guardPc \in {"off", "count", "compare", "up", "stable"}
  /\ streak \in 0 .. crashes
  /\ override \in {"none", "on", "off"} /\ settledAt \in 0 .. attempts

\* A device that has booted max_allowed_crashes times without a success is in
\* safe mode, unless that was cleared by hand in this very boot; and it is
\* never in safe mode otherwise, unless that was forced - wherever resets cut
\* fw_boot_guard_init and fw_boot_guard_mark_success short.
SafeModeRight ==
  guardPc = "up" =>
    /\ streak >= Allowed /\ override # "off" => safe
    /\ safe /\ override # "on" => attempts - settledAt >= Allowed

\* The inductive invariant of LifecycleProofs: the counters run ahead of each other
\* by the store between them, and a success under way leaves no crash counted.
GuardInv ==
  /\ GuardTypeOK /\ SafeModeRight
  /\ guardPc = "compare" => streak < crashes
  /\ crashes <= attempts - settledAt
  /\ guardPc = "count" => crashes < attempts - settledAt
  /\ guardPc = "stable" => crashes = 0
  /\ safe /\ override # "on" => attempts - settledAt >= Allowed
=============================================================================
