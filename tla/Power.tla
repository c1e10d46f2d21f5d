-------------------------------- MODULE Power --------------------------------
(***************************************************************************)
(* The duty-cycle accounts of power.c on the clock of timer.c without an   *)
(* operating system: SysTick counts milliseconds in 32 bits, microseconds  *)
(* are that count times 1000 in 64 bits, and WFI returns with the next     *)
(* interrupt, whichever it is and whatever sleep was asked for.            *)
(***************************************************************************)
EXTENDS Integers

CONSTANTS
  MilliRange,   (* 2^32 in the code *)
  MicroRange,   (* 2^64 in the code *)
  PeriodLimit,  (* bound of the model: ms from fw_pm_init to the next *)
  SleepLimit    (* bound of the model: sleeps between them *)

ASSUME PowerAssumption ==
  /\ MilliRange \in Nat \ {0} /\ PeriodLimit \in Nat /\ SleepLimit \in Nat
  /\ MicroRange \in Nat
  /\ MicroRange >= 1000 * MilliRange /\ MicroRange > 1000 * 1000 * PeriodLimit

VARIABLES
  millis,    (* s_embedded_millis *)
  lastWake,  (* s_last_wake_us *)
  active, asleep, sleeps,  (* s_total_active_us, s_total_sleep_us, s_sleep_count *)
  powerPc,   (* "unset" until fw_pm_init, "awake", "asleep" in WFI *)
  entered,   (* enter_us *)
  period     (* history: ms since fw_pm_init *)

clock == <<millis, period>>
powerVars == <<clock, lastWake, active, asleep, sleeps, powerPc, entered>>

Micros == 1000 * millis
MicrosSince(start) == (Micros - start) % MicroRange

PowerInit ==
  /\ millis \in 0 .. MilliRange - 1
  /\ lastWake = 0 /\ active = 0 /\ asleep = 0 /\ sleeps = 0
  /\ powerPc = "unset" /\ entered = 0
  /\ period = 0

\* fw_timer_systick_tick, in the SysTick interrupt.
SysTick ==
  /\ period < PeriodLimit
  /\ millis' = (millis + 1) % MilliRange
  /\ period' = period + 1
  /\ UNCHANGED <<lastWake, active, asleep, sleeps, powerPc, entered>>

\* fw_pm_init, or fw_pm_reset_metrics later.
StartPeriod ==
  /\ powerPc # "asleep" /\ powerPc' = "awake"
  /\ lastWake' = Micros
  /\ active' = 0 /\ asleep' = 0 /\ sleeps' = 0
  /\ period' = 0
  /\ UNCHANGED <<millis, entered>>

\* fw_pm_enter_sleep reads the clock and waits for an interrupt ...
FallAsleep ==
  /\ powerPc = "awake" /\ sleeps < SleepLimit
  /\ powerPc' = "asleep"
  /\ entered' = Micros
  /\ active' = (active + MicrosSince(lastWake)) % MicroRange
  /\ UNCHANGED <<clock, lastWake, asleep, sleeps>>

\* ... reads the clock again and charges the sleep.
Slept == IF Micros >= entered THEN Micros - entered ELSE 0
\* Faulty variant: the next active stretch is counted from before the sleep.
WakeUpEarly ==
  /\ powerPc = "asleep" /\ powerPc' = "awake"
  /\ asleep' = asleep + Slept
  /\ sleeps' = sleeps + 1
  /\ lastWake' = entered /\ entered' = 0
  /\ UNCHANGED <<clock, active>>
WakeUp ==
  /\ powerPc = "asleep" /\ powerPc' = "awake"
  /\ asleep' = asleep + Slept
  /\ sleeps' = sleeps + 1
  /\ lastWake' = Micros /\ entered' = 0
  /\ UNCHANGED <<clock, active>>

PowerNext == SysTick \/ StartPeriod \/ FallAsleep \/ WakeUp

\* What fw_pm_get_metrics answers.
ActiveSoFar == (active + MicrosSince(lastWake)) % MicroRange
Load ==
  LET total == (ActiveSoFar + asleep) % MicroRange
  IN  IF total > 0 THEN ((1000 * ActiveSoFar) % MicroRange) \div total ELSE 0
-----------------------------------------------------------------------------
\* The accounts are times, below the range of the clock.
PowerTypeOK ==
  /\ millis \in 0 .. MilliRange - 1
  /\ {lastWake, active, asleep, entered} \subseteq 0 .. MicroRange - 1
  /\ sleeps \in 0 .. SleepLimit
  /\ powerPc \in {"unset", "awake", "asleep"}
  /\ period \in 0 .. PeriodLimit

\* The counter has wrapped since fw_pm_init: it tells less than has passed.
Wrapped == millis < period

\* Until the counter wraps, all time since fw_pm_init is charged but that since
\* the last change of state: the inductive invariant of SuperloopProofs.
Charged(since) ==
  /\ {active, asleep, since} \subseteq Nat /\ since <= Micros
  /\ active + asleep + (Micros - since) = 1000 * period
PowerInv ==
  /\ millis \in 0 .. MilliRange - 1 /\ period \in 0 .. PeriodLimit
  /\ powerPc = "awake" /\ ~Wrapped => Charged(lastWake)
  /\ powerPc = "asleep" /\ ~Wrapped => Charged(entered)

\* Active and sleeping time add up to the time since fw_pm_init, no stretch
\* lost or counted twice however sleeps, ticks and questions interleave, and
\* the load is a number of permille - until the millisecond counter wraps.
TimeAccounted ==
  powerPc = "awake" /\ ~Wrapped =>
    /\ ActiveSoFar + asleep = 1000 * period
    /\ Load \in 0 .. 1000
=============================================================================
