------------------------------ MODULE Watchdog ------------------------------
(***************************************************************************)
(* The supervisor of watchdog.c.  The main thread registers tasks, reports *)
(* the heartbeats of its own tasks and services the watchdog; an ISR       *)
(* reports the heartbeats of others.  reported_mask |= bit is a load and a *)
(* store, so an interrupt may fall between them, as it may between the     *)
(* steps of fw_wdt_service.                                                *)
(***************************************************************************)
EXTENDS Integers

CONSTANTS
  MainTask, IsrTask,  (* tasks that report from the main thread, from an ISR *)
  Range,              (* fw_timer_get_millis wraps here (2^32) *)
  Timeout,            (* timeout_ms *)
  MaxLag              (* ms between two calls of fw_wdt_service *)

Task == MainTask \cup IsrTask

ASSUME WatchdogAssumption ==
  /\ MainTask \cap IsrTask = {}
  /\ Timeout \in Nat \ {0} /\ MaxLag \in Nat \ {0} /\ Range \in Nat
  /\ Timeout + 2 * MaxLag <= Range  \* a call may itself take up to MaxLag

VARIABLES
  masked,      (* the application masks interrupts during the main thread's calls *)
  supervisor,  (* it runs fw_wdt_service in a task that preempts the main thread *)
  registered, reported, lastKick,  (* fw_wdt_supervisor_t *)
  now,       (* fw_timer_get_millis *)
  lag,       (* ms since the last call of fw_wdt_service *)
  call, task,  (* the main thread's call and its argument *)
  mask,      (* the value of reported_mask it has loaded *)
  seen,      (* the time fw_wdt_service has read *)
  beaten,    (* the tasks that have reported since the hardware was last fed *)
  missed,    (* registered tasks that had not, when it was *)
  verdict    (* how the last fw_wdt_service ended *)

deployment == <<masked, supervisor>>  \* chosen once
local == <<call, task, mask, seen>>
history == <<beaten, missed, verdict>>
wdtVars == <<deployment, registered, reported, lastKick, now, lag, local, history>>

NoTask == {}

WdtInit ==
  /\ masked \in BOOLEAN /\ supervisor \in BOOLEAN
  /\ registered = {} /\ reported = {}
  /\ now \in 0 .. Range - 1 /\ lastKick = now
  /\ lag = 0
  /\ call = "idle" /\ task = NoTask /\ mask = {} /\ seen = 0
  /\ beaten = {} /\ missed = {} /\ verdict = "none"

Goes(from, to) == call = from /\ call' = to

NextMilli == (now + 1) % Range

\* Time passes; fw_wdt_service is called "periodically".
Tick ==
  /\ lag < MaxLag
  /\ lag' = lag + 1
  /\ now' = NextMilli
  /\ UNCHANGED <<deployment, registered, reported, lastKick, local, history>>
-----------------------------------------------------------------------------
(* reported_mask |= bit and reported_mask &= ~bit                          *)

\* fw_wdt_register_task changes registered_mask first.
RegisterTask(t) ==
  /\ Goes("idle", "set")
  /\ registered' = registered \cup {t}
  /\ task' = {t}
  /\ mask' = reported
  /\ UNCHANGED <<deployment, reported, lastKick, now, lag, seen, history>>

UnregisterTask(t) ==
  /\ Goes("idle", "clear")
  /\ registered' = registered \ {t}
  /\ task' = {t}
  /\ mask' = reported
  /\ UNCHANGED <<deployment, reported, lastKick, now, lag, seen, history>>

\* fw_wdt_heartbeat from the main thread.
Heartbeat(t) ==
  /\ Goes("idle", "set")
  /\ task' = {t}
  /\ mask' = reported
  /\ UNCHANGED <<deployment, registered, reported, lastKick, now, lag, seen, history>>

StoreSet ==
  /\ Goes("set", "idle")
  /\ reported' = mask \cup task
  /\ beaten' = beaten \cup task
  /\ task' = NoTask /\ mask' = {}
  /\ UNCHANGED <<deployment, registered, lastKick, now, lag, seen, missed, verdict>>

StoreClear ==
  /\ Goes("clear", "idle")
  /\ reported' = mask \ task
  /\ beaten' = beaten \ task
  /\ task' = NoTask /\ mask' = {}
  /\ UNCHANGED <<deployment, registered, lastKick, now, lag, seen, missed, verdict>>

\* Faulty variant: the mask is not respected.
IsrHeartbeatAnywhere(t) ==
  /\ reported' = reported \cup {t}
  /\ beaten' = beaten \cup {t}
  /\ UNCHANGED <<deployment, registered, lastKick, now, lag, local, missed, verdict>>

\* fw_wdt_heartbeat from an ISR: nothing interleaves with it.
IsrHeartbeat(t) ==
  /\ masked => call = "idle"
  /\ reported' = reported \cup {t}
  /\ beaten' = beaten \cup {t}
  /\ UNCHANGED <<deployment, registered, lastKick, now, lag, local, missed, verdict>>
-----------------------------------------------------------------------------
(* fw_wdt_service                                                          *)

Starving == registered \ reported
\* Faulty variant: the two times are compared without wrapping.
WindowOverUnwrapped(at) == at - lastKick >= Timeout
WindowOver(at) == (at - lastKick + Range) % Range >= Timeout

\* The hardware is fed: a new window begins.
Feed ==
  /\ missed' = registered \ beaten
  /\ beaten' = {}
  /\ verdict' = "fed"

\* The mask of starving tasks is computed and the time read first ...
Service ==
  /\ ~supervisor
  /\ Goes("idle", IF Starving = {} THEN "kick" ELSE "wait")
  /\ lag' = 0
  /\ seen' = now
  /\ UNCHANGED <<deployment, registered, reported, lastKick, now, task, mask, history>>

\* ... none: hw_kick_fn is called ...
Kick ==
  /\ Goes("kick", "reset")
  /\ Feed
  /\ UNCHANGED <<deployment, registered, reported, lastKick, now, lag, task, mask, seen>>

\* Faulty variant: what was reported counts for the next window too.
ResetTimeOnly ==
  /\ Goes("reset", "idle")
  /\ lastKick' = seen /\ seen' = 0
  /\ UNCHANGED <<deployment, registered, reported, now, lag, task, mask, history>>
\* ... and the window is opened anew.
Reset ==
  /\ Goes("reset", "idle")
  /\ reported' = {}
  /\ lastKick' = seen /\ seen' = 0
  /\ UNCHANGED <<deployment, registered, now, lag, task, mask, history>>

\* Some: fault_fn is called once the window has passed.
Wait ==
  /\ Goes("wait", "idle")
  /\ seen' = 0
  /\ verdict' = IF WindowOver(seen) THEN "fault" ELSE "waiting"
  /\ UNCHANGED <<deployment, registered, reported, lastKick, now, lag, task, mask, beaten, missed>>

\* fw_wdt_service as a whole, preempting the main thread.
ServiceTask ==
  /\ supervisor
  /\ masked => call = "idle"
  /\ lag' = 0
  /\ IF Starving = {}
     THEN Feed /\ reported' = {} /\ lastKick' = now
     ELSE /\ verdict' = IF WindowOver(now) THEN "fault" ELSE "waiting"
          /\ UNCHANGED <<reported, lastKick, beaten, missed>>
  /\ UNCHANGED <<deployment, registered, now, local>>
-----------------------------------------------------------------------------
Finish == StoreSet \/ StoreClear \/ Kick \/ Reset \/ Wait

WdtNext ==
  \/ Tick
  \/ \E t \in Task : RegisterTask(t) \/ UnregisterTask(t)
  \/ \E t \in MainTask : Heartbeat(t)
  \/ \E t \in IsrTask : IsrHeartbeat(t)
  \/ Service \/ ServiceTask
  \/ Finish

WdtSpec == WdtInit /\ [][WdtNext]_wdtVars

\* Time passes, calls end, and the superloop or the supervision task keeps
\* servicing the watchdog, as watchdog.h asks.
WdtFairSpec ==
  /\ WdtSpec
  /\ WF_wdtVars(Tick) /\ WF_wdtVars(Finish)
  /\ SF_wdtVars(Service) /\ SF_wdtVars(ServiceTask)
-----------------------------------------------------------------------------
\* The masks hold tasks; a call of the main thread has one argument.
WdtTypeOK ==
  /\ masked \in BOOLEAN /\ supervisor \in BOOLEAN
  /\ registered \subseteq Task /\ reported \subseteq Task
  /\ lastKick \in 0 .. Range - 1 /\ now \in 0 .. Range - 1 /\ lag \in 0 .. MaxLag
  /\ call \in {"idle", "set", "clear", "kick", "reset", "wait"}
  /\ IF call \in {"set", "clear"} THEN \E t \in Task : task = {t} ELSE task = NoTask /\ mask = {}
  /\ mask \subseteq Task /\ seen \in 0 .. Range - 1
  /\ beaten \subseteq Task /\ missed \subseteq Task
  /\ verdict \in {"none", "fed", "waiting", "fault"}

\* fw_wdt_service falls between two calls of the main thread.
Protected == masked \/ ~supervisor

\* The hardware is fed only when every registered task has reported since it
\* was last fed (hw_kick_fn in fw_wdt_service): one task that hangs stops it.
\* A supervision task that preempts unmasked calls cannot promise that.
KickJustified == Protected => missed = {}

\* With interrupts masked no heartbeat is lost: between the main thread's
\* calls, a task that has reported since the hardware was last fed has its bit
\* in reported_mask, wherever among those calls the ISR came.
BeatsKept == masked /\ call = "idle" => beaten \subseteq reported

\* A registered task that stops reporting for good is found out: sooner or
\* later a window passes and fw_wdt_service calls fault_fn, also when the
\* millisecond counter wraps in between.
HangCaught ==
  Protected => \A t \in Task :
    <>[](t \in registered /\ t \notin beaten) => []<>(verdict = "fault")

\* The inductive invariants of SharedProofs.  A bit set in reported_mask, or
\* loaded from it, is that of a task which has reported, but between hw_kick_fn
\* and the reset, and hw_kick_fn is called when all of them have ...
KickInv ==
  Protected =>
    /\ missed = {}
    /\ call # "reset" => reported \subseteq beaten
    /\ mask \subseteq beaten
    /\ call = "kick" => registered \subseteq beaten

\* ... and with interrupts masked every task which has reported has its bit.
BeatInv ==
  masked =>
    /\ call \in {"idle", "kick", "wait"} => beaten \subseteq reported
    /\ call \in {"set", "clear"} => beaten \subseteq mask
    /\ call = "reset" => beaten = {}

\* What watchdog.h:7 and watchdog.h:58 promise without asking for a mask, from
\* "superloop or supervision task": the hardware is never fed unjustly.
KickAlwaysJustified == missed = {}
=============================================================================
