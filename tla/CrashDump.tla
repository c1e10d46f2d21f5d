------------------------------ MODULE CrashDump ------------------------------
(***************************************************************************)
(* The crash dump of crash_dump.c in RAM that survives a reset: the magic  *)
(* number, the registers, the checksum.  The fault handler captures, a     *)
(* later boot reads and clears; a watchdog may reset the CPU in the middle *)
(* of either.  memcpy and memset promise no order.                         *)
(***************************************************************************)
EXTENDS Words, Sequences

CONSTANTS
  WordBits,   (* 32 in the code *)
  Magic,      (* FW_CRASH_DUMP_MAGIC, of that width *)
  Seed,       (* what the checksum starts from *)
  Registers,  (* how many words lie between the magic number and the checksum *)
  Fault,      (* what faults leave in them *)
  None

VARIABLES
  retained,  (* *s_retention_ptr, word by word *)
  dumpPc,    (* "idle", "copy", "sum", "done" or "clear" *)
  source,    (* what is copied: the handler's dump, or zeros *)
  todo,      (* the words still to be copied *)
  kept       (* history: what was captured whole and not touched since, or None *)

dumpVars == <<retained, dumpPc, source, todo, kept>>

WordRange == 2^WordBits
Size == Registers + 2
Zeros == [i \in 1 .. Size |-> 0]

\* calculate_checksum: every word shifts the sum by a bit, so that the top bits
\* of early words leave no trace.
SumOf(dump) ==
  LET sum[i \in 0 .. Size - 1] ==
        IF i = 0 THEN Seed ELSE Xor((2 * sum[i - 1]) % WordRange, dump[i], WordBits)
  IN  sum[Size - 1]

\* The handler fills in the registers of a dump that is zero elsewhere.
DumpOf(registers) == <<0>> \o registers \o <<0>>
RegistersOf(dump) == SubSeq(dump, 2, Size - 1)

HasValid(dump) == dump[1] = Magic /\ dump[Size] = SumOf(dump)

\* The dump of a fault captured whole, and what dumps that overwrite each other
\* in part, captures and clears cut short, can leave behind.
Whole(registers) ==
  LET marked == [DumpOf(registers) EXCEPT ![1] = Magic]
  IN  [marked EXCEPT ![Size] = SumOf(marked)]
Leftovers ==
  LET words == {0} \cup {Whole(f)[i] : f \in Fault, i \in 1 .. Size}
  IN  {dump \in [1 .. Size -> words] :
        \A i \in 1 .. Size : dump[i] = 0 \/ \E f \in Fault : dump[i] = Whole(f)[i]}

\* A checksum of one word is no proof: dumps may differ in bits that cancel
\* out or are shifted away.  The faults of the model do not.
ASSUME CrashDumpAssumption ==
  /\ Fault \subseteq [1 .. Registers -> 0 .. WordRange - 1]
  /\ WordBits \in Nat /\ Registers \in Nat
  /\ Magic \in 1 .. WordRange - 1
  /\ \A dump \in Leftovers : HasValid(dump) => \E f \in Fault : dump = Whole(f)

DumpInit ==
  /\ retained = Zeros
  /\ dumpPc = "idle" /\ source = Zeros /\ todo = {}
  /\ kept = None

Overwrite(words, to) ==
  /\ dumpPc' = to
  /\ source' = words /\ todo' = 1 .. Size
  /\ kept' = None
  /\ UNCHANGED retained

\* fw_crash_dump_capture in the fault handler; the handler never returns.
Capture(registers) ==
  /\ dumpPc \in {"idle", "clear"}
  /\ Overwrite(DumpOf(registers), "copy")

\* fw_crash_dump_clear, once the dump has been reported.
Clear == dumpPc = "idle" /\ Overwrite(Zeros, "clear")

CopyWord(i) ==
  /\ i \in todo
  /\ retained' = [retained EXCEPT ![i] = source[i]]
  /\ todo' = todo \ {i}
  /\ UNCHANGED <<dumpPc, source, kept>>

Cleared ==
  /\ dumpPc = "clear" /\ todo = {}
  /\ dumpPc' = "idle"
  /\ UNCHANGED <<retained, source, todo, kept>>

StoreMagic ==
  /\ dumpPc = "copy" /\ todo = {}
  /\ dumpPc' = "sum"
  /\ retained' = [retained EXCEPT ![1] = Magic]
  /\ UNCHANGED <<source, todo, kept>>

\* Faulty variant: the sum of the handler's dump, before it was marked.
StoreSumOfSource ==
  /\ dumpPc = "sum"
  /\ dumpPc' = "done"
  /\ retained' = [retained EXCEPT ![Size] = SumOf(source)]
  /\ kept' = RegistersOf(source)
  /\ UNCHANGED <<source, todo>>
StoreSum ==
  /\ dumpPc = "sum"
  /\ dumpPc' = "done"
  /\ retained' = [retained EXCEPT ![Size] = SumOf(retained)]
  /\ kept' = RegistersOf(source)
  /\ UNCHANGED <<source, todo>>

\* A reset leaves the memory as it is.
DumpReset ==
  /\ dumpPc' = "idle" /\ source' = Zeros /\ todo' = {}
  /\ UNCHANGED <<retained, kept>>

\* Without power the memory is lost.
DumpLost ==
  /\ dumpPc' = "idle" /\ source' = Zeros /\ todo' = {}
  /\ retained' = Zeros /\ kept' = None
-----------------------------------------------------------------------------
\* The buffer holds words of its width.
DumpTypeOK ==
  /\ retained \in [1 .. Size -> 0 .. WordRange - 1]
  /\ dumpPc \in {"idle", "copy", "sum", "done", "clear"}
  /\ todo \subseteq 1 .. Size
  /\ kept \in Fault \cup {None}

\* After a reset fw_crash_dump_get hands out what the fault handler captured,
\* until it is cleared or the next fault comes; and what it hands out is some
\* fault's registers whole, never a capture or a clear that was cut short.
DumpTrue ==
  dumpPc = "idle" =>
    /\ kept # None => HasValid(retained) /\ RegistersOf(retained) = kept
    /\ HasValid(retained) => RegistersOf(retained) \in Fault
=============================================================================
