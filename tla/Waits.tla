-------------------------------- MODULE Waits --------------------------------
(***************************************************************************)
(* The waits of timer.h and timer.c on a counter that wraps: a delay spins *)
(* until enough milliseconds have passed since it began, a timeout is      *)
(* asked from time to time.  Interrupts may keep the loop of a delay from  *)
(* looking at the counter for a while.                                     *)
(***************************************************************************)
EXTENDS Integers

CONSTANTS
  UptimeRange,  (* 2^32 in the code *)
  MaxDelay,     (* the longest delay asked for *)
  LookLag       (* ticks at most between two looks of the loop *)

ASSUME WaitsAssumption ==
  /\ {MaxDelay, LookLag} \subseteq Nat
  /\ UptimeRange \in Nat /\ MaxDelay + LookLag < UptimeRange

VARIABLES
  uptime,  (* s_embedded_millis *)
  delay,   (* fw_delay_millis: ms, start, whether it waits; as history the ticks
              since it began and since the loop last looked *)
  timeout  (* fw_timeout_t; as history the ticks since it was started *)

waitVars == <<uptime, delay, timeout>>

\* Faulty variant: the counter is compared with the time of expiry.
ExpiredAt(start, ms) == uptime >= (start + ms) % UptimeRange
\* now - start >= ms, in unsigned arithmetic.
Elapsed(start) == (uptime - start) % UptimeRange
Expired(start, ms) == Elapsed(start) >= ms

Remaining ==
  IF Expired(timeout.start, timeout.duration) THEN 0
  ELSE timeout.duration - Elapsed(timeout.start)

\* fw_timeout_start, with a given duration; an age beyond the range is as old as
\* any.
Timeout(duration) == [start |-> uptime, duration |-> duration, age |-> 0]
Older(age) == IF age = UptimeRange THEN age ELSE age + 1

WaitInit ==
  /\ uptime \in 0 .. UptimeRange - 1
  /\ delay = [start |-> uptime, ms |-> 0, waiting |-> FALSE, age |-> 0, lag |-> 0]
  /\ timeout = Timeout(0)

Uptick ==
  /\ delay.waiting => delay.lag < LookLag
  /\ uptime' = (uptime + 1) % UptimeRange
  /\ timeout' = [timeout EXCEPT !.age = Older(@)]
  /\ delay' = IF delay.waiting THEN [delay EXCEPT !.age = @ + 1, !.lag = @ + 1] ELSE delay

StartTimeout(duration) ==
  /\ timeout' = Timeout(duration)
  /\ UNCHANGED <<uptime, delay>>

StartDelay(ms) ==
  /\ ~delay.waiting
  /\ delay' = [start |-> uptime, ms |-> ms, waiting |-> TRUE, age |-> 0, lag |-> 0]
  /\ UNCHANGED <<uptime, timeout>>

\* The loop looks at the counter, and goes on or returns.
SpinOn ==
  /\ delay.waiting /\ ~Expired(delay.start, delay.ms)
  /\ delay' = [delay EXCEPT !.lag = 0]
  /\ UNCHANGED <<uptime, timeout>>
EndDelay ==
  /\ delay.waiting /\ Expired(delay.start, delay.ms)
  /\ delay' = [delay EXCEPT !.waiting = FALSE]
  /\ UNCHANGED <<uptime, timeout>>

WaitNext ==
  \/ Uptick
  \/ \E ms \in 0 .. UptimeRange - 1 : StartTimeout(ms)
  \/ \E ms \in 0 .. MaxDelay : StartDelay(ms)
  \/ SpinOn \/ EndDelay
-----------------------------------------------------------------------------
\* The ages are what the counter tells, and the loop has looked not long ago:
\* the inductive invariant of SuperloopProofs.
Uptime == 0 .. UptimeRange - 1
DelayOnTime ==
  /\ delay \in [start : Uptime, ms : 0 .. MaxDelay, waiting : BOOLEAN,
                age : Nat, lag : 0 .. LookLag]
  /\ delay.age <= delay.ms + delay.lag
  /\ IF delay.waiting THEN Elapsed(delay.start) = delay.age
                      ELSE delay.age >= delay.ms
TimeoutOnTime ==
  /\ timeout \in [start : Uptime, duration : Uptime, age : 0 .. UptimeRange]
  /\ timeout.age < UptimeRange => Elapsed(timeout.start) = timeout.age
WaitsInv == uptime \in Uptime /\ DelayOnTime /\ TimeoutOnTime

\* A delay never returns before its time and never later than the loop can be
\* kept from looking; a timeout has expired when its duration is over and
\* answers what is left of it before, whenever it is asked within one range of
\* the counter - wherever the counter wraps (timer.c:119, timer.h:41).
WaitsRight ==
  /\ ~delay.waiting => delay.age >= delay.ms
  /\ delay.age <= delay.ms + LookLag
  /\ timeout.age < UptimeRange =>
       /\ Expired(timeout.start, timeout.duration) <=> timeout.age >= timeout.duration
       /\ Remaining > 0 => Remaining + timeout.age = timeout.duration
=============================================================================
