------------------------------- MODULE MCShared -------------------------------
(* What two contexts share: a ring, a pool and the masks of the watchdog   *)
(* with an ISR, the Rust queue with several senders.  They share nothing   *)
(* with each other, so that each behaviour lets one run.                   *)
EXTENDS Spsc, PoolIsr, Watchdog, RustSync

VARIABLE part
all == <<part, vars, allVars, wdtVars, queueVars>>

RingPart(Do) == part = "ring" /\ Do /\ UNCHANGED <<part, allVars, wdtVars, queueVars>>
PoolPart(Do) == part = "pool" /\ Do /\ UNCHANGED <<part, vars, wdtVars, queueVars>>
WdtPart(Do) == part = "watchdog" /\ Do /\ UNCHANGED <<part, vars, allVars, queueVars>>
QueuePart(Do) == part = "queue" /\ Do /\ UNCHANGED <<part, vars, allVars, wdtVars>>

SharedInit ==
  /\ part \in {"ring", "pool", "watchdog", "queue"}
  /\ Init /\ MainInit /\ WdtInit /\ QueueInit
  /\ part # "ring" => \A s \in Slots : buffer[s] = CHOOSE x \in Byte : TRUE
  /\ part # "watchdog" => now = 0 /\ ~masked /\ ~supervisor
  /\ part # "queue" => \A i \in DOMAIN storage : storage[i] = CHOOSE x \in Item : TRUE
SharedNext == RingPart(Next) \/ PoolPart(IsrNext) \/ WdtPart(WdtNext) \/ QueuePart(QueueNext)

SharedSpec ==
  /\ SharedInit /\ [][SharedNext]_all
  /\ WF_all(RingPart(FinishPut)) /\ WF_all(RingPart(FinishTake)) /\ WF_all(RingPart(Poll))
  /\ WF_all(WdtPart(Tick)) /\ WF_all(WdtPart(Finish))
  /\ SF_all(WdtPart(Service)) /\ SF_all(WdtPart(ServiceTask))
=============================================================================
