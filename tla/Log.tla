---------------------------------- MODULE Log ----------------------------------
(***************************************************************************)
(* The deferred log of log.c.  An interrupt and the main thread post, the  *)
(* superloop flushes: it formats an entry where it lies in the ring, in    *)
(* two reads, hands the line to the sink and only then frees the slot.     *)
(* s_head and s_tail are slots, so that one slot always stays empty.  Of   *)
(* an entry two parts count: time, level and tag, written first and read   *)
(* second, and the message with its arguments.  Both carry here what is    *)
(* logged.                                                                 *)
(***************************************************************************)
EXTENDS Integers, Sequences

CONSTANTS
  Message,      (* what is logged *)
  LogCapacity,  (* s_capacity *)
  MaskedPosts,  (* whether the main thread masks interrupts while it posts *)
  FlushLimits   (* max_entries of the flushes; 0 is no limit *)

ASSUME LogAssumption ==
  /\ LogCapacity \in Nat /\ LogCapacity >= 2
  /\ MaskedPosts \in BOOLEAN
  /\ FlushLimits \subseteq Nat

VARIABLES
  logHead, logTail, logEntries,  (* s_head, s_tail, s_entries *)
  logPost,  (* per context the call it is in: step, next_head, message *)
  flush,    (* fw_log_flush: its step, how many more it may take, what it has
               read of the entry it formats *)
  accepted  (* history: what was posted and not yet handed to the sink *)

logVars == <<logHead, logTail, logEntries, logPost, flush, accepted>>

Context == {"main", "isr"}
LogSlot == 0 .. LogCapacity - 1
Unlimited == -1

\* fw_log_init; the storage holds what it held.
LogInit ==
  /\ logHead = 0 /\ logTail = 0
  /\ \E m \in Message : logEntries = [i \in LogSlot |-> <<m, m>>]
  /\ logPost = [c \in Context |-> <<>>]
  /\ flush = [at |-> "idle", left |-> 0, line |-> <<>>]
  /\ accepted = <<>>

NextSlot(i) == (i + 1) % LogCapacity

\* The interrupt's call runs to its end before the main thread goes on.
MainHasCore == logPost["isr"] = <<>>
-----------------------------------------------------------------------------
(* fw_log_post_fast; a full ring drops the entry.  The main thread posts   *)
(* between two flushes, or from the sink.                                  *)

MayPost(c) ==
  IF c = "main" THEN MainHasCore /\ flush.at \in {"idle", "sink"}
                ELSE MaskedPosts => logPost["main"] = <<>>

\* Faulty variant: the slot that must stay empty is given away.
HasSlotLast == Len(accepted) < LogCapacity
HasSlot == NextSlot(logHead) # logTail

LogBegin(c, m) ==
  /\ logPost[c] = <<>> /\ MayPost(c)
  /\ HasSlot
  /\ logPost' = [logPost EXCEPT ![c] = <<1, NextSlot(logHead), m>>]
  /\ UNCHANGED <<logHead, logTail, logEntries, flush, accepted>>

\* The two parts of the entry, into the slot s_head names.
LogWrite(c) ==
  /\ c = "main" => MainHasCore
  /\ \E part \in {1, 2} :
       /\ logPost[c] # <<>> /\ logPost[c][1] = part
       /\ logEntries' = [logEntries EXCEPT ![logHead][part] = logPost[c][3]]
       /\ logPost' = [logPost EXCEPT ![c][1] = part + 1]
  /\ UNCHANGED <<logHead, logTail, flush, accepted>>

LogPublish(c) ==
  /\ c = "main" => MainHasCore
  /\ logPost[c] # <<>> /\ logPost[c][1] = 3
  /\ logHead' = logPost[c][2]
  /\ logPost' = [logPost EXCEPT ![c] = <<>>]
  /\ accepted' = Append(accepted, logPost[c][3])
  /\ UNCHANGED <<logTail, logEntries, flush>>
-----------------------------------------------------------------------------
(* fw_log_flush in the superloop                                           *)

\* The main thread goes from one step of the call to the next.
FlushStep(from) ==
  /\ MainHasCore /\ logPost["main"] = <<>>
  /\ flush.at = from
  /\ UNCHANGED <<logHead, logEntries, logPost>>

\* Faulty variant: no limit is a limit of none.
FlushLiteral(limit) ==
  /\ FlushStep("idle")
  /\ flush' = [at |-> "look", left |-> limit, line |-> <<>>]
  /\ UNCHANGED <<logTail, accepted>>
Flush(limit) ==
  /\ FlushStep("idle")
  /\ flush' = [at |-> "look", left |-> IF limit = 0 THEN Unlimited ELSE limit, line |-> <<>>]
  /\ UNCHANGED <<logTail, accepted>>

\* An empty ring or the limit ends the call.
LogLook ==
  /\ FlushStep("look")
  /\ flush' = [flush EXCEPT
       !.at = IF logTail = logHead \/ flush.left = 0 THEN "idle" ELSE "message"]
  /\ UNCHANGED <<logTail, accepted>>

\* The message is formatted, then the line around it.
Format(from, part, to) ==
  /\ FlushStep(from)
  /\ flush' = [flush EXCEPT !.at = to, !.line = Append(@, logEntries[logTail][part])]
  /\ UNCHANGED <<logTail, accepted>>

FormatMessage == Format("message", 2, "line")
FormatLine == Format("line", 1, "hand")

\* The line goes to the sink, which may take its time and log.
Hand ==
  /\ FlushStep("hand")
  /\ flush' = [flush EXCEPT !.at = "sink", !.line = <<>>]
  /\ accepted' = Tail(accepted)
  /\ UNCHANGED logTail

\* The sink returns and the slot is free.
FreeSlot ==
  /\ FlushStep("sink")
  /\ logTail' = NextSlot(logTail)
  /\ flush' = [flush EXCEPT !.at = "look", !.left = IF @ = Unlimited THEN @ ELSE @ - 1]
  /\ UNCHANGED accepted
-----------------------------------------------------------------------------
FlushGoesOn == LogLook \/ FormatMessage \/ FormatLine \/ Hand \/ FreeSlot
LogMain == FlushGoesOn \/ \E n \in FlushLimits : Flush(n)
LogFinish(c) == LogWrite(c) \/ LogPublish(c)

LogNext ==
  \/ LogMain
  \/ \E c \in Context : LogFinish(c) \/ \E m \in Message : LogBegin(c, m)

\* The superloop flushes again and again and calls that began end; nothing is
\* assumed of how often anything is logged.
LogFair == WF_logVars(LogMain) /\ \A c \in Context : WF_logVars(LogFinish(c))
LogSpec == LogInit /\ [][LogNext]_logVars /\ LogFair
-----------------------------------------------------------------------------
LogCount == (logHead - logTail + LogCapacity) % LogCapacity
Waiting == [i \in 1 .. LogCount |-> logEntries[(logTail + i - 1) % LogCapacity]]

\* What was posted and found room reaches the sink once, in order and whole:
\* the ring holds both parts of each entry until the line is formatted, over
\* the wrap and with a sink that logs (log.c:43, 74-97).
LogKept ==
  LET unsent == IF flush.at = "sink" THEN Tail(Waiting) ELSE Waiting IN
  /\ unsent = [i \in DOMAIN accepted |-> <<accepted[i], accepted[i]>>]
  /\ flush.at = "hand" => flush.line = <<accepted[1], accepted[1]>>

\* The types of the fields, and what the inductive invariant of
\* SuperloopProofs adds: a post holds the slot it reads head as and has written
\* its parts in turn, one context posts at a time, the flush has read what
\* lies at tail, and the entries waiting are those accepted, in order.
LogTypeOK ==
  /\ logHead \in LogSlot /\ logTail \in LogSlot
  /\ logEntries \in [LogSlot -> Message \X Message]
  /\ logPost \in [Context -> {<<>>} \cup ({1, 2, 3} \X LogSlot \X Message)]
  /\ flush \in [at : {"idle", "look", "message", "line", "hand", "sink"},
                left : {Unlimited} \cup Nat, line : Seq(Message)]
  /\ accepted \in Seq(Message)
PostHolds ==
  /\ logPost["main"] = <<>> \/ logPost["isr"] = <<>>
  /\ \A c \in Context : logPost[c] # <<>> =>
       /\ logPost[c][2] = NextSlot(logHead) /\ NextSlot(logHead) # logTail
       /\ \A part \in {1, 2} :
            part < logPost[c][1] => logEntries[logHead][part] = logPost[c][3]
FlushHolds ==
  LET entry == logEntries[logTail] IN
  /\ flush.at \notin {"idle", "look"} => logTail # logHead
  /\ flush.at \in {"look", "message", "sink"} => flush.line = <<>>
  /\ flush.at = "line" => flush.line = <<entry[2]>>
  /\ flush.at = "hand" => flush.line = <<entry[2], entry[1]>>
Handed == IF flush.at = "sink" THEN 1 ELSE 0
AcceptedWait ==
  /\ Len(accepted) = LogCount - Handed
  /\ \A i \in 1 .. Len(accepted) :
       logEntries[(logTail + Handed + i - 1) % LogCapacity] = <<accepted[i], accepted[i]>>
LogInv == LogTypeOK /\ PostHolds /\ FlushHolds /\ AcceptedWait

\* What waits in the ring goes to the sink sooner or later, however fast more
\* is posted and however short the flushes are.
LogDrains == \A i \in LogSlot : (logTail = i /\ logHead # i) ~> logTail # i
=============================================================================
