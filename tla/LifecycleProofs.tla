--------------------------- MODULE LifecycleProofs ---------------------------
(***************************************************************************)
(* Proofs about what a device runs from reset to reset.  What it knows     *)
(* after any number of them: the boot guard for every limit, the firmware  *)
(* metadata for every set of images, as long as power cuts and driver      *)
(* errors come no later than the erase of the sector, the crash dump for   *)
(* every set of faults, and the three in one device.  What calls the       *)
(* application back in between, for every table and every number of        *)
(* callbacks: the initialisation engine starts everything once and in      *)
(* order, a dispatch of hooks calls each by priority and once, a state     *)
(* machine pairs on_enter with on_exit.                                    *)
(***************************************************************************)
EXTENDS Lifecycle, Hook, Fsm, InitEngine, SequenceTheorems, WellFoundedInduction, TLAPS

(* Induction, as the least element of a set of numbers. *)
LEMMA Least ==
  ASSUME NEW T \in SUBSET Nat, T # {}
  PROVE  \E m \in T : \A k \in T : m <= k
<1>1. PICK m \in T : \A k \in T : ~ (<<k, m>> \in OpToRel(<, Nat))
  <2>1. IsWellFoundedOn(OpToRel(<, Nat), Nat)
    BY NatLessThanWellFounded
  <2> HIDE DEF OpToRel
  <2> QED
    BY <2>1, WFMin, Zenon
<1>2. \A k \in T : k \in Nat /\ m \in Nat /\ ~(k < m)
  BY <1>1 DEF OpToRel
<1> QED
  BY <1>2
-----------------------------------------------------------------------------
(* fw_boot_guard_init allows at least one crash. *)
LEMMA AllowedIsPositive == Allowed \in Nat \ {0}
  BY BootGuardAssumption DEF Allowed

(* Fresh memory counts nothing. *)
LEMMA GuardInitInv == GuardInit => GuardInv
<1> SUFFICES ASSUME GuardInit PROVE GuardInv
  OBVIOUS
<1>1. ~safe /\ safe \in BOOLEAN
  BY Zenon DEF GuardInit
<1>2. streak < Allowed
  BY AllowedIsPositive DEF GuardInit
<1> QED
  BY <1>1, <1>2, BootGuardAssumption
  DEF GuardInit, GuardInv, GuardTypeOK, SafeModeRight

(* No store of the guard's calls and no reset between them breaks the       *)
(* invariant.                                                              *)
LEMMA GuardNextInv == GuardInv /\ [GuardNext \/ GuardReset]_guardVars => GuardInv'
<1> SUFFICES ASSUME GuardInv, [GuardNext \/ GuardReset]_guardVars
             PROVE  GuardInv'
  OBVIOUS
<1> USE BootGuardAssumption, AllowedIsPositive
    DEF GuardInv, GuardTypeOK, SafeModeRight, GuardAt, guard, guardHistory
<1>1. CASE CountAttempt  BY <1>1 DEF CountAttempt
<1>2. CASE CountCrash  BY <1>2 DEF CountCrash
<1>3. CASE Compare
  <2>1. safe' <=> safe \/ crashes >= Allowed
    BY <1>3, Zenon DEF Compare
  <2>2. safe' \in BOOLEAN
    BY <1>3, Zenon DEF Compare
  <2> QED  BY <1>3, <2>1, <2>2 DEF Compare
<1>4. CASE MarkSuccess  BY <1>4 DEF MarkSuccess
<1>5. CASE LeaveSafeMode
  <2>1. ~safe' /\ safe' \in BOOLEAN
    BY <1>5, Zenon DEF LeaveSafeMode
  <2> QED  BY <1>5, <2>1 DEF LeaveSafeMode
<1>6. ASSUME NEW enable \in BOOLEAN, SetSafeMode(enable) PROVE GuardInv'
  BY <1>6 DEF SetSafeMode
<1>7. CASE GuardReset  BY <1>7 DEF GuardReset
<1>8. CASE UNCHANGED guardVars  BY <1>8 DEF guardVars
<1> QED
  BY <1>1, <1>2, <1>3, <1>4, <1>5, <1>6, <1>7, <1>8 DEF GuardNext

(* Whatever boots and resets come, a device is in safe mode when             *)
(* fw_boot_guard_init has counted enough failures in a row, and otherwise   *)
(* only if it was forced.                                                  *)
THEOREM SafeModeIsRight == GuardSpec => []SafeModeRight
<1>1. GuardInv => SafeModeRight
  BY DEF GuardInv
<1> QED
  BY <1>1, GuardInitInv, GuardNextInv, PTL DEF GuardSpec
-----------------------------------------------------------------------------
(* The defaults are a descriptor, and a sector without the magic number is  *)
(* none.                                                                   *)
LEMMA DefaultsAreDesc == Defaults \in Desc /\ Blank \notin Desc
  BY OtaAssumption, BlankAssumption DEF Defaults, Desc, State

(* A descriptor with another state, or another count, is a descriptor. *)
LEMMA WithState ==
  ASSUME NEW c \in Desc, NEW s \in State
  PROVE  LET e == [c EXCEPT !.state = s]
         IN  e \in Desc /\ e.state = s /\ e.attempts = c.attempts
BY DEF Desc

LEMMA WithAttempts ==
  ASSUME NEW c \in Desc, NEW n \in 0 .. AttemptLimit
  PROVE  LET e == [c EXCEPT !.attempts = n]
         IN  e \in Desc /\ e.state = c.state /\ e.attempts = n
BY DEF Desc

(* A blank sector before the first boot. *)
LEMMA OtaInitInv == Init => OtaInv
  BY DefaultsAreDesc
  DEF Init, OtaInv, TypeOK, Writing, Defaults

(* What the callers ask fw_ota_set_desc to write is a descriptor. *)
LEMMA SetDescInv ==
  ASSUME OtaInv, NEW d \in Desc, SetDesc(d), phase' \in {"bootloader", "application"},
         d.state = "PENDING_VERIFY" => d.attempts = boots + 1,
         d.state = "DOWNLOADED" => d.attempts = 0
  PROVE  OtaInv'
BY DefaultsAreDesc DEF OtaInv, TypeOK, SetDesc, Writing, history

(* No flash operation, and no cut or error before the sector is erased,     *)
(* breaks the invariant.                                                   *)
LEMMA OtaNextInv ==
  ASSUME CutAt \subseteq {"off", "idle", "erase"}, FailAt \subseteq {"erase"},
         OtaInv, [Next]_vars
  PROVE  OtaInv'
<1> USE DefaultsAreDesc
<1>1. CASE OtaInit  BY <1>1 DEF OtaInit, OtaInv, TypeOK, Writing, history
<1>2. ASSUME NEW i \in Image, Stage(i) PROVE OtaInv'
  <2> DEFINE d == [image |-> i, state |-> "DOWNLOADED", attempts |-> 0]
  <2>1. d \in Desc  BY OtaAssumption DEF Desc, State
  <2> QED  BY <1>2, <2>1, SetDescInv DEF Stage, OtaInv, TypeOK
<1>3. CASE MarkPendingVerify
  <2>1. current \in Desc /\ current = settled
    BY <1>3 DEF MarkPendingVerify, OtaInv, TypeOK
  <2>2. /\ current.attempts \in 0 .. AttemptLimit /\ current.attempts < AttemptLimit
        /\ current.attempts = boots
    BY <1>3, <2>1 DEF MarkPendingVerify, ToTest, OtaInv, Desc
  <2>3. Pending \in Desc /\ Pending.state = "PENDING_VERIFY" /\ Pending.attempts = boots + 1
    <3> DEFINE c == [current EXCEPT !.state = "PENDING_VERIFY"]
    <3>1. c \in Desc /\ c.state = "PENDING_VERIFY" /\ c.attempts = current.attempts
      BY <2>1, WithState DEF State
    <3>2. current.attempts + 1 \in 0 .. AttemptLimit
      BY <2>2, OtaAssumption
    <3>3. Pending = [c EXCEPT !.attempts = current.attempts + 1]
      BY DEF Pending
    <3> HIDE DEF c
    <3> QED  BY <2>2, <3>1, <3>2, <3>3, WithAttempts
  <2> QED  BY <1>3, <2>3, SetDescInv DEF MarkPendingVerify
<1>4. CASE Jump  BY <1>4 DEF Jump, OtaInv, TypeOK, Writing, history
<1>5. CASE Confirm
  <2> DEFINE d == [current EXCEPT !.state = "CONFIRMED", !.attempts = 0]
  <2>1. current \in Desc
    BY <1>5 DEF Confirm, SelfTest, SetDesc, OtaInv, TypeOK
  <2>2. d \in Desc /\ d.state = "CONFIRMED"
    <3> DEFINE c == [current EXCEPT !.state = "CONFIRMED"]
    <3>1. c \in Desc /\ c.state = "CONFIRMED"
      BY <2>1, WithState DEF State
    <3>2. d = [c EXCEPT !.attempts = 0]
      OBVIOUS
    <3> HIDE DEF c, d
    <3> QED  BY <3>1, <3>2, WithAttempts, OtaAssumption
  <2>3. SetDesc(d) /\ phase' = "application"
    BY <1>5 DEF Confirm, SelfTest
  <2> QED  BY <2>2, <2>3, SetDescInv
<1>6. CASE Rollback
  <2> DEFINE d == [current EXCEPT !.state = "ROLLBACK"]
  <2>1. current \in Desc
    BY <1>6 DEF Rollback, SelfTest, SetDesc, OtaInv, TypeOK
  <2>2. d \in Desc /\ d.state = "ROLLBACK"
    BY <2>1, WithState DEF State
  <2>3. SetDesc(d) /\ phase' = "application"
    BY <1>6 DEF Rollback, SelfTest
  <2> QED  BY <2>2, <2>3, SetDescInv
<1>7. CASE EraseSector  BY <1>7 DEF EraseSector, OtaInv, TypeOK, Writing, history
<1>8. CASE WriteSector
  BY <1>8 DEF WriteSector, OtaInv, TypeOK, Writing, Settled, Boots, Defaults
<1>9. CASE Cut  BY <1>9 DEF Cut, OtaInv, TypeOK, Writing, history
<1>10. CASE Fail  BY <1>10 DEF Fail, OtaInv, TypeOK, Writing, history
<1>11. CASE UNCHANGED vars  BY <1>11 DEF vars, OtaInv, TypeOK, Writing
<1> QED
  BY <1>1, <1>2, <1>3, <1>4, <1>5, <1>6, <1>7, <1>8, <1>9, <1>10, <1>11 DEF Next

(* What fw_ota_set_desc has acknowledged is what flash and RAM hold between  *)
(* calls, over every sequence of resets and failed erases.                  *)
THEOREM DescriptorRemembered ==
  ASSUME CutAt \subseteq {"off", "idle", "erase"}, FailAt \subseteq {"erase"}
  PROVE  Spec => []Remembered
<1>1. OtaInv /\ [Next]_vars => OtaInv'
  BY OtaNextInv
<1>2. OtaInv => Remembered
  BY DefaultsAreDesc DEF OtaInv, TypeOK, Remembered
<1> QED
  BY <1>1, <1>2, OtaInitInv, PTL DEF Spec

(* boot_attempts is the number of boots fw_ota_mark_pending_verify has       *)
(* recorded since the image was staged.                                    *)
THEOREM BootsAreCounted ==
  ASSUME CutAt \subseteq {"off", "idle", "erase"}, FailAt \subseteq {"erase"}
  PROVE  Spec => []BootsCounted
<1>1. OtaInv /\ [Next]_vars => OtaInv'
  BY OtaNextInv
<1>2. OtaInv => BootsCounted
  BY DefaultsAreDesc DEF OtaInv, TypeOK, BootsCounted
<1> QED
  BY <1>1, <1>2, OtaInitInv, PTL DEF Spec
-----------------------------------------------------------------------------
(* The sum of a dump, word by word. *)
SumRows(dump, f) ==
  f = [i \in 0 .. Size - 1 |->
        IF i = 0 THEN Seed ELSE Xor((2 * f[i - 1]) % WordRange, dump[i], WordBits)]

(* A dump is a magic number, registers and a checksum. *)
LEMMA SizeFacts == Size \in Nat /\ Size >= 2 /\ Registers = Size - 2
  BY CrashDumpAssumption DEF Size

(* The recursion of the checksum has a solution. *)
LEMMA SumRowsExist ==
  ASSUME NEW dump
  PROVE  \E f : SumRows(dump, f)
<1> DEFINE Rows(m, f) == f = [i \in 0 .. m |->
              IF i = 0 THEN Seed ELSE Xor((2 * f[i - 1]) % WordRange, dump[i], WordBits)]
           Bad == {m \in Nat : ~\E f : Rows(m, f)}
<1>1. Bad = {}
  <2> SUFFICES ASSUME Bad # {} PROVE FALSE
    OBVIOUS
  <2>1. PICK m \in Bad : \A k \in Bad : m <= k
    BY Least, Zenon
  <2>2. m # 0
    <3>1. Rows(0, [i \in 0 .. 0 |-> Seed])
      OBVIOUS
    <3> QED
      BY <2>1, <3>1
  <2>3. PICK f : Rows(m - 1, f)
    BY <2>1, <2>2
  <2>4. Rows(m, [i \in 0 .. m |->
          IF i = m THEN Xor((2 * f[m - 1]) % WordRange, dump[m], WordBits) ELSE f[i]])
    BY <2>2, <2>3
  <2> QED
    BY <2>1, <2>4
<1>2. Size - 1 \in Nat
  BY SizeFacts
<1> QED
  BY <1>1, <1>2 DEF SumRows

(* calculate_checksum reads its result off those rows. *)
LEMMA SumRowsUsed ==
  ASSUME NEW dump
  PROVE  \E f : SumRows(dump, f) /\ SumOf(dump) = f[Size - 1]
<1> DEFINE g == CHOOSE f : f = [i \in 0 .. Size - 1 |->
                  IF i = 0 THEN Seed ELSE Xor((2 * f[i - 1]) % WordRange, dump[i], WordBits)]
<1>1. \E f : SumRows(dump, f)
  BY SumRowsExist
<1>2. SumRows(dump, g)
  BY <1>1, Zenon DEF SumRows
<1>3. SumOf(dump) = g[Size - 1]
  BY Zenon DEF SumOf
<1> QED
  BY <1>2, <1>3, Zenon

(* The checksum is of the words before it (crash_dump.c:13-22). *)
LEMMA SumIgnoresItself ==
  ASSUME NEW d, NEW e, \A i \in 1 .. Size - 1 : d[i] = e[i]
  PROVE  SumOf(d) = SumOf(e)
<1>1. PICK f : SumRows(d, f) /\ SumOf(d) = f[Size - 1]
  BY SumRowsUsed
<1>2. PICK g : SumRows(e, g) /\ SumOf(e) = g[Size - 1]
  BY SumRowsUsed
<1> DEFINE Bad == {i \in 0 .. Size - 1 : f[i] # g[i]}
<1>3. Bad = {}
  <2> SUFFICES ASSUME Bad # {} PROVE FALSE
    OBVIOUS
  <2>1. PICK i \in Bad : \A k \in Bad : i <= k
    <3>1. Bad \in SUBSET Nat
      OBVIOUS
    <3> HIDE DEF Bad
    <3> QED
      BY <3>1, Least, Zenon
  <2>2. f[0] = Seed /\ g[0] = Seed
    BY <1>1, <1>2, SizeFacts DEF SumRows
  <2>3. i \in 1 .. Size - 1 /\ f[i - 1] = g[i - 1]
    BY <2>1, <2>2, SizeFacts
  <2>4. f[i] = Xor((2 * f[i - 1]) % WordRange, d[i], WordBits)
    BY <1>1, <2>3, SizeFacts DEF SumRows
  <2>5. g[i] = Xor((2 * g[i - 1]) % WordRange, e[i], WordBits)
    BY <1>2, <2>3, SizeFacts DEF SumRows
  <2> QED
    BY <2>1, <2>3, <2>4, <2>5
<1> QED
  BY <1>1, <1>2, <1>3, SizeFacts

(* Word by word, what the handler leaves of a fault. *)
LEMMA WholeIs ==
  ASSUME NEW f \in Fault
  PROVE  /\ DumpOf(f) \in [1 .. Size -> {0} \cup {f[i] : i \in 1 .. Registers}]
         /\ DumpOf(f)[1] = 0 /\ DumpOf(f)[Size] = 0
         /\ \A i \in 2 .. Size - 1 : DumpOf(f)[i] = f[i - 1]
         /\ DOMAIN Whole(f) = 1 .. Size
         /\ Whole(f)[1] = Magic
         /\ \A i \in 2 .. Size - 1 : Whole(f)[i] = DumpOf(f)[i]
         /\ Whole(f)[Size] = SumOf(Whole(f))
         /\ Whole(f) = [[DumpOf(f) EXCEPT ![1] = Magic]
                          EXCEPT ![Size] = SumOf([DumpOf(f) EXCEPT ![1] = Magic])]
<1> DEFINE S == {0} \cup {f[i] : i \in 1 .. Registers}
<1>1. f \in [1 .. Registers -> 0 .. WordRange - 1] /\ Registers \in Nat
  BY CrashDumpAssumption
<1>2. f \in Seq(S) /\ Len(f) = Registers
  BY <1>1
<1>3. <<0>> \in Seq(S) /\ Len(<<0>>) = 1 /\ <<0>>[1] = 0
  OBVIOUS
<1> HIDE DEF S
<1> DEFINE a == <<0>> \o f
<1>4. /\ a \in Seq(S) /\ Len(a) = Registers + 1
      /\ \A i \in 1 .. Registers + 1 : a[i] = IF i <= 1 THEN 0 ELSE f[i - 1]
  BY <1>1, <1>2, <1>3, ConcatProperties
<1> HIDE DEF a
<1> DEFINE d == a \o <<0>>
<1>5. /\ d \in Seq(S) /\ Len(d) = Registers + 2
      /\ \A i \in 1 .. Registers + 2 : d[i] = IF i <= Registers + 1 THEN a[i] ELSE 0
  BY <1>1, <1>3, <1>4, ConcatProperties
<1>6. d = DumpOf(f)
  BY DEF DumpOf, d, a
<1> HIDE DEF d
<1>7. /\ d \in [1 .. Size -> S] /\ d[1] = 0 /\ d[Size] = 0
      /\ \A i \in 2 .. Size - 1 : d[i] = f[i - 1]
  BY <1>1, <1>4, <1>5 DEF Size
<1> DEFINE m == [d EXCEPT ![1] = Magic]
           w == [m EXCEPT ![Size] = SumOf(m)]
<1>8. /\ DOMAIN w = 1 .. Size /\ w[1] = Magic /\ w[Size] = SumOf(m)
      /\ \A i \in 1 .. Size - 1 : w[i] = m[i]
      /\ \A i \in 2 .. Size - 1 : m[i] = d[i]
  BY <1>7, SizeFacts
<1>9. SumOf(m) = SumOf(w)
  BY <1>8, SumIgnoresItself
<1>10. Whole(f) = w
  BY <1>6 DEF Whole
<1>11. Whole(f) = [[DumpOf(f) EXCEPT ![1] = Magic]
                     EXCEPT ![Size] = SumOf([DumpOf(f) EXCEPT ![1] = Magic])]
  BY DEF Whole
<1>12. DumpOf(f) \in [1 .. Size -> {0} \cup {f[i] : i \in 1 .. Registers}]
  BY <1>6, <1>7 DEF S
<1> HIDE DEF w, m
<1>13. /\ DOMAIN Whole(f) = 1 .. Size /\ Whole(f)[1] = Magic
       /\ \A i \in 2 .. Size - 1 : Whole(f)[i] = DumpOf(f)[i]
       /\ Whole(f)[Size] = SumOf(Whole(f))
  <2>1. \A i \in 2 .. Size - 1 : i \in 1 .. Size - 1
    BY SizeFacts
  <2> QED
    BY <1>6, <1>8, <1>9, <1>10, <2>1
<1> QED
  BY <1>6, <1>7, <1>11, <1>12, <1>13

(* The registers of a whole dump are the fault's. *)
LEMMA WholeHasValid ==
  ASSUME NEW f \in Fault
  PROVE  HasValid(Whole(f)) /\ RegistersOf(Whole(f)) = f
<1>1. HasValid(Whole(f))
  BY WholeIs DEF HasValid
<1> DEFINE T == 0 .. WordRange - 1
<1>2. f \in [1 .. Registers -> T] /\ Registers \in Nat
  BY CrashDumpAssumption
<1> HIDE DEF T
<1>3. f \in Seq(T) /\ Len(f) = Registers
  BY <1>2
<1>4. \A i \in 2 .. Size - 1 : Whole(f)[i] = f[i - 1] /\ Whole(f)[i] \in T
  <2> TAKE i \in 2 .. Size - 1
  <2>1. i - 1 \in 1 .. Registers
    BY SizeFacts
  <2>2. Whole(f)[i] = f[i - 1]
    BY WholeIs
  <2> QED
    BY <1>2, <2>1, <2>2
<1> DEFINE r == SubSeq(Whole(f), 2, Size - 1)
<1>5. /\ r \in Seq(T) /\ Len(r) = Registers
      /\ \A i \in 1 .. Registers : r[i] = Whole(f)[i + 1]
  <2>1. /\ r \in Seq(T)
        /\ Len(r) = IF 2 <= Size - 1 THEN (Size - 1) - 2 + 1 ELSE 0
        /\ \A i \in 1 .. (Size - 1) - 2 + 1 : r[i] = Whole(f)[2 + i - 1]
    BY <1>4, SizeFacts, SubSeqProperties
  <2> HIDE DEF r
  <2> QED
    BY <2>1, SizeFacts
<1> HIDE DEF r
<1>6. \A i \in 1 .. Registers : r[i] = f[i]
  BY <1>4, <1>5, SizeFacts
<1>7. r = f
  BY <1>3, <1>5, <1>6, SeqEqual
<1> QED
  BY <1>1, <1>7 DEF RegistersOf, r

\* The retained memory holds words of captures or cleared ones; between the
\* copy and the checksum it is the dump of one fault; and what was captured
\* whole is still there until the next write.
DumpInv ==
  /\ retained \in Leftovers
  /\ dumpPc \in {"idle", "copy", "sum", "done", "clear"}
  /\ todo \subseteq 1 .. Size
  /\ dumpPc \in {"idle", "sum", "done"} => todo = {}
  /\ dumpPc \in {"copy", "sum", "clear"} => kept = None
  /\ dumpPc = "copy" =>
       \E f \in Fault : source = DumpOf(f) /\ \A i \in (1 .. Size) \ todo : retained[i] = source[i]
  /\ dumpPc = "sum" =>
       \E f \in Fault : source = DumpOf(f) /\ retained = [source EXCEPT ![1] = Magic]
  /\ dumpPc = "clear" => source = Zeros
  /\ kept # None => kept \in Fault /\ retained = Whole(kept)

(* What may be left behind, word by word. *)
LEMMA LeftoversAre ==
  ASSUME NEW dump
  PROVE  dump \in Leftovers <=>
           /\ dump = [i \in 1 .. Size |-> dump[i]]
           /\ \A i \in 1 .. Size : dump[i] = 0 \/ \E f \in Fault : dump[i] = Whole(f)[i]
<1> DEFINE words == {0} \cup {Whole(f)[i] : f \in Fault, i \in 1 .. Size}
<1>1. (\A i \in 1 .. Size : dump[i] = 0 \/ \E f \in Fault : dump[i] = Whole(f)[i])
        => \A i \in 1 .. Size : dump[i] \in words
  OBVIOUS
<1>2. Leftovers = {d \in [1 .. Size -> words] :
                     \A i \in 1 .. Size : d[i] = 0 \/ \E f \in Fault : d[i] = Whole(f)[i]}
  BY DEF Leftovers
<1> HIDE DEF words
<1> QED
  BY <1>1, <1>2
(* Fresh memory is taken to be zero. *)
LEMMA DumpInitInv == DumpInit => DumpInv
<1> SUFFICES ASSUME DumpInit PROVE DumpInv
  OBVIOUS
<1>1. retained \in Leftovers
  <2>1. retained = [i \in 1 .. Size |-> 0]
    BY DEF DumpInit, Zeros
  <2> QED
    BY <2>1, LeftoversAre
<1> QED
  BY <1>1 DEF DumpInit, DumpInv

(* A word that is cleared, or that a capture of some fault leaves, keeps    *)
(* the memory a mixture.                                                   *)
LEMMA StoredWord ==
  ASSUME retained \in Leftovers, NEW i \in 1 .. Size, NEW w,
         w = 0 \/ \E f \in Fault : w = Whole(f)[i]
  PROVE  /\ [retained EXCEPT ![i] = w] \in Leftovers
         /\ [retained EXCEPT ![i] = w][i] = w
         /\ \A j \in 1 .. Size : j # i => [retained EXCEPT ![i] = w][j] = retained[j]
<1> DEFINE e == [retained EXCEPT ![i] = w]
<1>1. retained = [j \in 1 .. Size |-> retained[j]]
  BY LeftoversAre
<1>2. e[i] = w /\ \A j \in 1 .. Size : j # i => e[j] = retained[j]
  BY <1>1
<1>3. e = [j \in 1 .. Size |-> e[j]]
  BY <1>1
<1> HIDE DEF e
<1>4. \A j \in 1 .. Size : e[j] = 0 \/ \E f \in Fault : e[j] = Whole(f)[j]
  BY <1>2, LeftoversAre
<1>5. e \in Leftovers
  BY <1>3, <1>4, LeftoversAre
<1> QED
  BY <1>2, <1>5 DEF e

\* Any step of the dump, as the device takes them.
DumpNext ==
  \/ \E f \in Fault : Capture(f)
  \/ Clear \/ \E i \in todo : CopyWord(i)
  \/ Cleared \/ StoreMagic \/ StoreSum \/ DumpReset \/ DumpLost

(* No word stored, and no reset between two, breaks the invariant. *)
LEMMA DumpNextInv == DumpInv /\ [DumpNext]_dumpVars => DumpInv'
<1> SUFFICES ASSUME DumpInv, [DumpNext]_dumpVars PROVE DumpInv'
  OBVIOUS
<1>0. Zeros \in Leftovers
  BY LeftoversAre DEF Zeros
<1>1. ASSUME NEW f \in Fault, Capture(f) PROVE DumpInv'
  BY <1>1 DEF Capture, Overwrite, DumpInv
<1>2. CASE Clear
  BY <1>2 DEF Clear, Overwrite, DumpInv
<1>3. ASSUME NEW i \in todo, CopyWord(i) PROVE DumpInv'
  <2>1. /\ i \in 1 .. Size /\ dumpPc \in {"copy", "clear"} /\ kept = None
        /\ retained' = [retained EXCEPT ![i] = source[i]] /\ todo' = todo \ {i}
        /\ dumpPc' = dumpPc /\ source' = source /\ kept' = kept
    BY <1>3 DEF CopyWord, DumpInv
  <2>2. source[i] = 0 \/ \E f \in Fault : source[i] = Whole(f)[i]
    <3>1. CASE dumpPc = "clear"
      BY <2>1, <3>1 DEF DumpInv, Zeros
    <3>2. CASE dumpPc = "copy"
      <4>1. PICK f \in Fault : source = DumpOf(f)
        BY <3>2 DEF DumpInv
      <4>2. i = 1 \/ i = Size \/ i \in 2 .. Size - 1
        BY <2>1, SizeFacts
      <4> QED
        BY <4>1, <4>2, WholeIs
    <3> QED
      BY <2>1, <3>1, <3>2
  <2>3. /\ retained' \in Leftovers /\ retained'[i] = source[i]
        /\ \A j \in 1 .. Size : j # i => retained'[j] = retained[j]
    <3> DEFINE w == source[i]
    <3>1. w = 0 \/ \E f \in Fault : w = Whole(f)[i]
      BY <2>2
    <3>2. retained' = [retained EXCEPT ![i] = w] /\ i \in 1 .. Size /\ retained \in Leftovers
      BY <2>1 DEF DumpInv
    <3> HIDE DEF w
    <3>3. /\ [retained EXCEPT ![i] = w] \in Leftovers
          /\ [retained EXCEPT ![i] = w][i] = w
          /\ \A j \in 1 .. Size : j # i => [retained EXCEPT ![i] = w][j] = retained[j]
      BY <3>1, <3>2, StoredWord
    <3> QED
      BY <3>2, <3>3 DEF w
  <2>4. dumpPc = "copy" =>
          \E f \in Fault : source = DumpOf(f) /\ \A j \in (1 .. Size) \ (todo \ {i}) : retained'[j] = source[j]
    BY <2>3 DEF DumpInv
  <2> QED
    BY <2>1, <2>3, <2>4 DEF DumpInv
<1>4. CASE Cleared
  BY <1>4 DEF Cleared, DumpInv
<1>5. CASE StoreMagic
  <2>1. PICK f \in Fault : source = DumpOf(f) /\ \A i \in 1 .. Size : retained[i] = source[i]
    BY <1>5 DEF StoreMagic, DumpInv
  <2>2. 1 \in 1 .. Size
    BY SizeFacts
  <2>3. Magic = Whole(f)[1]
    BY WholeIs
  <2>4. retained = source
    <3>1. retained = [i \in 1 .. Size |-> retained[i]]
      BY LeftoversAre DEF DumpInv
    <3>2. source = [i \in 1 .. Size |-> source[i]]
      BY <2>1, WholeIs
    <3> QED
      BY <2>1, <3>1, <3>2
  <2>5. retained' \in Leftovers
    BY <1>5, <2>2, <2>3, StoredWord DEF StoreMagic, DumpInv
  <2> QED
    BY <1>5, <2>1, <2>4, <2>5 DEF StoreMagic, DumpInv
<1>6. CASE StoreSum
  <2>1. PICK f \in Fault : source = DumpOf(f) /\ retained = [source EXCEPT ![1] = Magic]
    BY <1>6 DEF StoreSum, DumpInv
  <2>2. retained' = Whole(f)
    BY <1>6, <2>1, WholeIs DEF StoreSum
  <2>3. kept' = f
    <3>1. RegistersOf(DumpOf(f)) = RegistersOf(Whole(f))
      <4>1. \A i \in 2 .. Size - 1 : DumpOf(f)[i] = Whole(f)[i]
        BY WholeIs
      <4> QED
        BY <4>1, SizeFacts DEF RegistersOf, SubSeq
    <3> QED
      BY <1>6, <2>1, <3>1, WholeHasValid DEF StoreSum
  <2>4. Whole(f) \in Leftovers
    BY WholeIs, LeftoversAre
  <2> QED
    BY <1>6, <2>2, <2>3, <2>4 DEF StoreSum, DumpInv
<1>7. CASE DumpReset
  BY <1>7 DEF DumpReset, DumpInv
<1>8. CASE DumpLost
  BY <1>0, <1>8 DEF DumpLost, DumpInv
<1>9. CASE UNCHANGED dumpVars
  BY <1>9 DEF dumpVars, DumpInv
<1> QED
  BY <1>1, <1>2, <1>3, <1>4, <1>5, <1>6, <1>7, <1>8, <1>9 DEF DumpNext

(* Each step of the device is a step of the metadata, one of the guard and  *)
(* one of the dump, or leaves them alone.                                  *)
LEMMA DeviceSteps ==
  ASSUME [DeviceNext]_deviceVars
  PROVE  [Next]_vars /\ [GuardNext \/ GuardReset]_guardVars /\ [DumpNext]_dumpVars
<1> USE DEF Next, DumpNext
<1>1. CASE Boot  BY <1>1 DEF Boot
<1>2. CASE PassGuard  BY <1>2 DEF PassGuard
<1>3. CASE Update  BY <1>3 DEF Update
<1>4. CASE Flash  BY <1>4 DEF Flash
<1>5. CASE ClearDump  BY <1>5 DEF ClearDump
<1>6. CASE DumpStep  BY <1>6 DEF DumpStep
<1>7. CASE HardFault  BY <1>7 DEF HardFault
<1>8. CASE CpuReset  BY <1>8 DEF CpuReset
<1>9. CASE PowerCut  BY <1>9 DEF PowerCut
<1>10. CASE UNCHANGED deviceVars  BY <1>10 DEF deviceVars
<1> QED
  BY <1>1, <1>2, <1>3, <1>4, <1>5, <1>6, <1>7, <1>8, <1>9, <1>10 DEF DeviceNext

(* After any faults, resets and power cuts, what fw_crash_dump_get hands    *)
(* out is what a fault handler captured whole, and it hands it out until it *)
(* is cleared or overwritten (crash_dump.c:32-58).                         *)
THEOREM DumpStaysTrue == DeviceSpec => []DumpTrue
<1>1. DumpInv => DumpTrue
  <2> SUFFICES ASSUME DumpInv PROVE DumpTrue
    OBVIOUS
  <2>1. kept # None => HasValid(retained) /\ RegistersOf(retained) = kept
    BY WholeHasValid DEF DumpInv
  <2>2. HasValid(retained) => \E f \in Fault : retained = Whole(f)
    BY CrashDumpAssumption DEF DumpInv
  <2>3. HasValid(retained) => RegistersOf(retained) \in Fault
    BY <2>2, WholeHasValid
  <2> QED
    BY <2>1, <2>3 DEF DumpTrue
<1>2. DeviceInit => DumpInv
  BY DumpInitInv DEF DeviceInit
<1>3. DumpInv /\ [DeviceNext]_deviceVars => DumpInv'
  BY DeviceSteps, DumpNextInv
<1> QED
  BY <1>1, <1>2, <1>3, PTL DEF DeviceSpec

(* In a device that also updates its firmware and captures dumps, safe mode *)
(* is right, however resets and faults cut its calls.                      *)
THEOREM DeviceSafeModeIsRight == DeviceSpec => []SafeModeRight
<1>1. GuardInv => SafeModeRight
  BY DEF GuardInv
<1>2. DeviceInit => GuardInv
  BY GuardInitInv DEF DeviceInit
<1>3. GuardInv /\ [DeviceNext]_deviceVars => GuardInv'
  BY DeviceSteps, GuardNextInv
<1> QED
  BY <1>1, <1>2, <1>3, PTL DEF DeviceSpec

(* In that device the descriptor is remembered and boots are counted, as    *)
(* long as power cuts, resets and errors come no later than the erase; a    *)
(* fault whose handler takes over a flash operation included.              *)
THEOREM DeviceRemembers ==
  ASSUME CutAt \subseteq {"off", "idle", "erase"}, FailAt \subseteq {"erase"}
  PROVE  DeviceSpec => [](Remembered /\ BootsCounted)
<1>1. OtaInv => Remembered /\ BootsCounted
  BY DefaultsAreDesc DEF OtaInv, TypeOK, Remembered, BootsCounted
<1>2. DeviceInit => OtaInv
  BY OtaInitInv DEF DeviceInit
<1>3. OtaInv /\ [DeviceNext]_deviceVars => OtaInv'
  BY DeviceSteps, OtaNextInv
<1> QED
  BY <1>1, <1>2, <1>3, PTL DEF DeviceSpec
-----------------------------------------------------------------------------
(* The rows the two loops of the sort write, up to the m-th. *)
SweepRows(s, i, wrong, m, f) ==
  f = [j \in i .. m |-> IF j = i THEN s ELSE Compared(f[j - 1], i, j, wrong)]
SortRows(s, wrong, m, f) ==
  f = [i \in 0 .. m |-> IF i = 0 THEN s ELSE Sweep(f[i - 1], i, wrong)]

(* The recursion of one sweep has a solution, row by row. *)
LEMMA SweepRowsExist ==
  ASSUME NEW s, NEW i \in Nat, NEW wrong, NEW n \in Nat, i <= n
  PROVE  \E f : SweepRows(s, i, wrong, n, f)
<1> DEFINE Bad == {m \in Nat : i <= m /\ ~\E f : SweepRows(s, i, wrong, m, f)}
<1> SUFFICES ASSUME Bad # {} PROVE FALSE
  OBVIOUS
<1>1. PICK m \in Bad : \A k \in Bad : m <= k
  BY Least, Zenon
<1>2. m # i
  <2>1. SweepRows(s, i, wrong, i, [j \in i .. i |-> s])
    BY DEF SweepRows
  <2> QED
    BY <2>1, <1>1
<1>3. PICK f : SweepRows(s, i, wrong, m - 1, f)
  BY <1>1, <1>2
<1>4. SweepRows(s, i, wrong, m,
        [j \in i .. m |-> IF j = m THEN Compared(f[m - 1], i, m, wrong) ELSE f[j]])
  BY <1>2, <1>3 DEF SweepRows
<1> QED
  BY <1>1, <1>4

(* Sweep reads its result off those rows. *)
LEMMA SweepRowsUsed ==
  ASSUME NEW s, NEW i \in Nat, NEW wrong, Len(s) \in Nat, i <= Len(s)
  PROVE  \E f : SweepRows(s, i, wrong, Len(s), f) /\ Sweep(s, i, wrong) = f[Len(s)]
<1> DEFINE g == CHOOSE f : f = [j \in i .. Len(s) |->
                  IF j = i THEN s ELSE Compared(f[j - 1], i, j, wrong)]
<1>1. \E f : SweepRows(s, i, wrong, Len(s), f)
  BY SweepRowsExist
<1>2. SweepRows(s, i, wrong, Len(s), g)
  BY <1>1, Zenon DEF SweepRows
<1>3. Sweep(s, i, wrong) = g[Len(s)]
  BY Zenon DEF Sweep
<1> QED
  BY <1>2, <1>3, Zenon

(* So has the recursion over the sweeps. *)
LEMMA SortRowsExist ==
  ASSUME NEW s, NEW wrong, NEW n \in Nat
  PROVE  \E f : SortRows(s, wrong, n, f)
<1> DEFINE Bad == {m \in Nat : ~\E f : SortRows(s, wrong, m, f)}
<1> SUFFICES ASSUME Bad # {} PROVE FALSE
  OBVIOUS
<1>1. PICK m \in Bad : \A k \in Bad : m <= k
  BY Least, Zenon
<1>2. m # 0
  <2>1. SortRows(s, wrong, 0, [i \in 0 .. 0 |-> s])
    BY DEF SortRows
  <2> QED
    BY <2>1, <1>1
<1>3. PICK f : SortRows(s, wrong, m - 1, f)
  BY <1>1, <1>2
<1>4. SortRows(s, wrong, m,
        [i \in 0 .. m |-> IF i = m THEN Sweep(f[m - 1], m, wrong) ELSE f[i]])
  BY <1>2, <1>3 DEF SortRows
<1> QED
  BY <1>1, <1>4

(* Sort reads its result off those rows. *)
LEMMA SortRowsUsed ==
  ASSUME NEW s, NEW wrong, Len(s) \in Nat
  PROVE  \E f : SortRows(s, wrong, Len(s), f) /\ Sort(s, wrong) = f[Len(s)]
<1> DEFINE g == CHOOSE f : f = [i \in 0 .. Len(s) |->
                  IF i = 0 THEN s ELSE Sweep(f[i - 1], i, wrong)]
<1>1. \E f : SortRows(s, wrong, Len(s), f)
  BY SortRowsExist
<1>2. SortRows(s, wrong, Len(s), g)
  BY <1>1, Zenon DEF SortRows
<1>3. Sort(s, wrong) = g[Len(s)]
  BY Zenon DEF Sort
<1> QED
  BY <1>2, <1>3, Zenon

(* The rearrangements of n places that leave those before the m-th alone. *)
Moves(n, m) ==
  {p \in [1 .. n -> 1 .. n] :
    /\ \A a, b \in 1 .. n : p[a] = p[b] => a = b
    /\ \A b \in 1 .. n : \E a \in 1 .. n : p[a] = b
    /\ \A a \in 1 .. n : a < m => p[a] = a}
Rearranges(t, s, n, m) == \E p \in Moves(n, m) : t = [a \in 1 .. n |-> s[p[a]]]

(* To leave all as it is is a rearrangement. *)
LEMMA NothingMoved ==
  ASSUME NEW S, NEW n \in Nat, NEW m \in Nat, NEW s \in [1 .. n -> S]
  PROVE  Rearranges(s, s, n, m)
<1>1. [a \in 1 .. n |-> a] \in Moves(n, m)
  BY DEF Moves
<1> QED
  BY <1>1 DEF Rearranges

(* One rearrangement after another is one. *)
LEMMA MovesCompose ==
  ASSUME NEW n \in Nat, NEW m \in Nat, NEW s, NEW t, NEW u,
         Rearranges(t, s, n, m), Rearranges(u, t, n, m)
  PROVE  Rearranges(u, s, n, m)
<1>1. PICK p \in Moves(n, m) : t = [a \in 1 .. n |-> s[p[a]]]
  BY DEF Rearranges
<1>2. PICK q \in Moves(n, m) : u = [a \in 1 .. n |-> t[q[a]]]
  BY DEF Rearranges
<1> DEFINE r == [a \in 1 .. n |-> p[q[a]]]
<1>3. p \in [1 .. n -> 1 .. n] /\ q \in [1 .. n -> 1 .. n]
  BY DEF Moves
<1>4. r \in [1 .. n -> 1 .. n]
  BY <1>3
<1>5. \A b \in 1 .. n : \E a \in 1 .. n : r[a] = b
  <2> TAKE b \in 1 .. n
  <2>1. PICK c \in 1 .. n : p[c] = b
    BY DEF Moves
  <2>2. PICK a \in 1 .. n : q[a] = c
    BY DEF Moves
  <2> QED
    BY <2>1, <2>2
<1>6. \A a, b \in 1 .. n : r[a] = r[b] => a = b
  BY <1>3 DEF Moves
<1>7. \A a \in 1 .. n : a < m => r[a] = a
  BY <1>3 DEF Moves
<1>8. r \in Moves(n, m)
  BY <1>4, <1>5, <1>6, <1>7 DEF Moves
<1>9. u = [a \in 1 .. n |-> s[r[a]]]
  BY <1>1, <1>2, <1>3
<1> QED
  BY <1>8, <1>9 DEF Rearranges

(* What one comparison does to the places it compares. *)
LEMMA ComparedMoves ==
  ASSUME NEW S, NEW n \in Nat, NEW s \in [1 .. n -> S], NEW wrong,
         NEW i \in 1 .. n, NEW j \in 1 .. n, i < j
  PROVE  /\ Compared(s, i, j, wrong) \in [1 .. n -> S]
         /\ Rearranges(Compared(s, i, j, wrong), s, n, i)
<1>1. CASE <<s[i], s[j]>> \notin wrong
  <2>1. Compared(s, i, j, wrong) = s
    BY <1>1 DEF Compared
  <2>2. Rearranges(s, s, n, i)
    <3>1. i \in Nat
      OBVIOUS
    <3> QED
      BY <3>1, NothingMoved
  <2> QED
    BY <2>1, <2>2
<1>2. CASE <<s[i], s[j]>> \in wrong
  <2> DEFINE p == [a \in 1 .. n |-> IF a = i THEN j ELSE IF a = j THEN i ELSE a]
  <2>1. p \in Moves(n, i)
    <3>1. \A b \in 1 .. n : p[p[b]] = b /\ p[b] \in 1 .. n
      OBVIOUS
    <3> QED
      BY <3>1 DEF Moves
  <2>2. Compared(s, i, j, wrong) = [a \in 1 .. n |-> s[p[a]]]
    BY <1>2 DEF Compared, Exchange
  <2>3. Compared(s, i, j, wrong) \in [1 .. n -> S]
    BY <2>2
  <2> QED
    BY <2>1, <2>2, <2>3 DEF Rearranges
<1> QED
  BY <1>1, <1>2

(* A strict order, as far as it is known. *)
Strict(wrong) ==
  /\ \A x, y : <<x, y>> \in wrong => <<y, x>> \notin wrong
  /\ \A x, y, z : <<x, y>> \in wrong /\ <<y, z>> \in wrong => <<x, z>> \in wrong

(* After a sweep nothing behind the place i should precede what it holds. *)
LEMMA SweepRight ==
  ASSUME NEW S, NEW n \in Nat, NEW s \in [1 .. n -> S], Len(s) = n, NEW wrong, Strict(wrong),
         NEW i \in 1 .. n
  PROVE  LET t == Sweep(s, i, wrong) IN
         /\ t \in [1 .. n -> S] /\ Rearranges(t, s, n, i)
         /\ \A b \in i + 1 .. n : <<t[i], t[b]>> \notin wrong
<1>1. PICK f : SweepRows(s, i, wrong, n, f) /\ Sweep(s, i, wrong) = f[n]
  BY SweepRowsUsed
<1> DEFINE Right(t, j) == /\ t \in [1 .. n -> S] /\ Rearranges(t, s, n, i)
                          /\ \A b \in i + 1 .. j : <<t[i], t[b]>> \notin wrong
           Bad == {j \in i .. n : ~Right(f[j], j)}
<1>2. f[i] = s /\ \A j \in i + 1 .. n : f[j] = Compared(f[j - 1], i, j, wrong)
  BY <1>1 DEF SweepRows
<1>3. Bad = {}
  <2> SUFFICES ASSUME Bad # {} PROVE FALSE
    OBVIOUS
  <2>1. PICK j \in Bad : \A k \in Bad : j <= k
    <3>1. Bad \in SUBSET Nat
      OBVIOUS
    <3> HIDE DEF Bad
    <3> QED
      BY <3>1, Least, Zenon
  <2>a. j \in i .. n /\ ~Right(f[j], j) /\ \A k \in i .. n : k < j => Right(f[k], k)
    BY <2>1
  <2>b. Right(s, i)
    <3>1. i \in Nat
      OBVIOUS
    <3>2. Rearranges(s, s, n, i)
      BY <3>1, NothingMoved
    <3> QED
      BY <3>2
  <2> HIDE DEF Bad, Right
  <2>2. j # i
    BY <1>2, <2>a, <2>b
  <2> DEFINE t == f[j - 1]
             u == f[j]
  <2>3. Right(t, j - 1)
    BY <2>a, <2>2
  <2>4. u = Compared(t, i, j, wrong)
    BY <1>2, <2>a, <2>2
  <2>c. ~Right(u, j)
    BY <2>a
  <2> HIDE DEF t, u
  <2>d. j \in 1 .. n /\ i < j /\ t \in [1 .. n -> S]
    BY <2>a, <2>2, <2>3 DEF Right
  <2>5. u \in [1 .. n -> S] /\ Rearranges(u, t, n, i)
    BY <2>d, <2>4, ComparedMoves
  <2>6. Rearranges(u, s, n, i)
    BY <2>3, <2>5, MovesCompose DEF Right
  <2>7. ASSUME NEW b \in i + 1 .. j PROVE <<u[i], u[b]>> \notin wrong
    <3>1. \A c \in i + 1 .. j - 1 : <<t[i], t[c]>> \notin wrong
      BY <2>3 DEF Right
    <3>2. CASE <<t[i], t[j]>> \notin wrong
      BY <2>d, <2>4, <2>7, <3>1, <3>2 DEF Compared
    <3>3. CASE <<t[i], t[j]>> \in wrong
      <4>1. u[i] = t[j] /\ u[j] = t[i] /\ \A c \in i + 1 .. j - 1 : u[c] = t[c]
        BY <2>d, <2>4, <3>3 DEF Compared, Exchange
      <4>2. CASE b = j  BY <3>3, <4>1, <4>2 DEF Strict
      <4>3. CASE b # j
        <5>1. b \in i + 1 .. j - 1
          BY <2>d, <2>7, <4>3
        <5> QED
          BY <3>1, <3>3, <4>1, <5>1 DEF Strict
      <4> QED
        BY <4>2, <4>3
    <3> QED
      BY <3>2, <3>3
  <2> QED
    BY <2>c, <2>5, <2>6, <2>7 DEF Right
<1> QED
  BY <1>1, <1>3

(* The sort rearranges and leaves no pair out of order (hook.c:103-111,    *)
(* init.c:38-48).                                                          *)
THEOREM SortRight ==
  ASSUME NEW S, NEW n \in Nat, NEW s \in [1 .. n -> S], Len(s) = n, NEW wrong, Strict(wrong)
  PROVE  LET t == Sort(s, wrong) IN
         /\ t \in [1 .. n -> S] /\ Rearranges(t, s, n, 1)
         /\ \A a, b \in 1 .. n : a < b => <<t[a], t[b]>> \notin wrong
<1>1. PICK f : SortRows(s, wrong, n, f) /\ Sort(s, wrong) = f[n]
  BY SortRowsUsed
<1> DEFINE Right(t, i) == /\ t \in [1 .. n -> S] /\ Rearranges(t, s, n, 1)
                          /\ \A a \in 1 .. i : \A b \in 1 .. n : a < b => <<t[a], t[b]>> \notin wrong
           Bad == {i \in 0 .. n : ~Right(f[i], i)}
<1>2. f[0] = s /\ \A i \in 1 .. n : f[i] = Sweep(f[i - 1], i, wrong)
  BY <1>1 DEF SortRows
<1>3. Bad = {}
  <2> SUFFICES ASSUME Bad # {} PROVE FALSE
    OBVIOUS
  <2>1. PICK i \in Bad : \A k \in Bad : i <= k
    <3>1. Bad \in SUBSET Nat
      OBVIOUS
    <3> HIDE DEF Bad
    <3> QED
      BY <3>1, Least, Zenon
  <2>a. i \in 0 .. n /\ ~Right(f[i], i) /\ \A k \in 0 .. n : k < i => Right(f[k], k)
    BY <2>1
  <2>b. Right(s, 0)
    <3>1. Rearranges(s, s, n, 1)
      BY NothingMoved
    <3> QED
      BY <3>1
  <2> HIDE DEF Bad, Right
  <2>2. i # 0
    BY <1>2, <2>a, <2>b
  <2> DEFINE t == f[i - 1]
             u == f[i]
  <2>3. Right(t, i - 1)
    BY <2>a, <2>2
  <2>4. u = Sweep(t, i, wrong)
    BY <1>2, <2>a, <2>2
  <2>c. ~Right(u, i)
    BY <2>a
  <2> HIDE DEF t, u
  <2>d. i \in 1 .. n /\ t \in [1 .. n -> S]
    BY <2>a, <2>2, <2>3 DEF Right
  <2>5. Len(t) = n
    BY <2>d
  <2>6. /\ u \in [1 .. n -> S] /\ Rearranges(u, t, n, i)
        /\ \A b \in i + 1 .. n : <<u[i], u[b]>> \notin wrong
    BY <2>d, <2>4, <2>5, SweepRight
  <2>7. PICK p \in Moves(n, i) : u = [a \in 1 .. n |-> t[p[a]]]
    BY <2>6 DEF Rearranges
  <2>8. \A a \in 1 .. n : a < i => p[a] = a
    BY DEF Moves
  <2>9. ASSUME NEW a \in 1 .. n, NEW b \in 1 .. n, a < i, a < b
        PROVE  p[b] \in 1 .. n /\ a < p[b]
    <3>1. p[b] \in 1 .. n
      BY DEF Moves
    <3>2. p[b] < i => p[b] = b
      BY <3>1, <2>8 DEF Moves
    <3> QED
      BY <3>1, <3>2, <2>9, <2>d
  <2>10. Rearranges(u, t, n, 1)
    <3>1. p \in Moves(n, 1)
      BY <2>d, SMTT(30) DEF Moves
    <3> QED
      BY <2>7, <3>1 DEF Rearranges
  <2>11. Rearranges(u, s, n, 1)
    BY <2>3, <2>10, MovesCompose DEF Right
  <2>12. ASSUME NEW a \in 1 .. i, NEW b \in 1 .. n, a < b PROVE <<u[a], u[b]>> \notin wrong
    <3>1. CASE a = i
      BY <2>d, <2>6, <2>12, <3>1
    <3>2. CASE a # i
      <4>1. a \in 1 .. n /\ a < i
        BY <2>d, <3>2
      <4>2. u[a] = t[a] /\ u[b] = t[p[b]] /\ p[b] \in 1 .. n /\ a < p[b]
        BY <2>7, <2>8, <2>9, <2>12, <4>1
      <4> QED
        BY <2>3, <2>d, <4>1, <4>2 DEF Right
    <3> QED
      BY <3>1, <3>2
  <2> QED
    BY <2>c, <2>6, <2>11, <2>12 DEF Right
<1> QED
  BY <1>1, <1>3

(* What a sequence holds after a push. *)
LEMMA TopOfPushed ==
  ASSUME NEW S, NEW s \in Seq(S), NEW x \in S
  PROVE  /\ Append(s, x) \in Seq(S) /\ Append(s, x) # <<>> /\ Len(Append(s, x)) = Len(s) + 1
         /\ Append(s, x)[Len(s) + 1] = x /\ \A f \in 1 .. Len(s) : Append(s, x)[f] = s[f]
  BY AppendProperties

(* What it holds after the last element is taken away. *)
LEMMA RestOfPopped ==
  ASSUME NEW S, NEW s \in Seq(S), s # <<>>
  PROVE  LET r == SubSeq(s, 1, Len(s) - 1) IN
         /\ r \in Seq(S) /\ Len(r) = Len(s) - 1 /\ \A f \in 1 .. Len(s) - 1 : r[f] = s[f]
         /\ r # <<>> => Len(r) \in 1 .. Len(s) - 1
<1>1. Len(s) \in Nat /\ Len(s) # 0
  BY EmptySeq
<1> DEFINE r == SubSeq(s, 1, Len(s) - 1)
<1>2. /\ r \in Seq(S) /\ Len(r) = Len(s) - 1
      /\ \A f \in 1 .. Len(s) - 1 : r[f] = s[f]
  <2>1. \A f \in 1 .. Len(s) - 1 : s[f] \in S
    BY <1>1
  <2>2. /\ r \in Seq(S) /\ Len(r) = IF 1 <= Len(s) - 1 THEN Len(s) - 1 - 1 + 1 ELSE 0
        /\ \A f \in 1 .. Len(s) - 1 - 1 + 1 : r[f] = s[1 + f - 1]
    <3> HIDE DEF r
    <3>1. 1 \in Int /\ Len(s) - 1 \in Int
      BY <1>1
    <3> QED
      BY <2>1, <3>1, SubSeqProperties DEF r
  <2> HIDE DEF r
  <2>3. Len(r) = Len(s) - 1
    <3> DEFINE n == Len(s)
    <3>1. n \in Nat /\ n # 0 /\ Len(r) = IF 1 <= n - 1 THEN n - 1 - 1 + 1 ELSE 0
      BY <1>1, <2>2, Zenon
    <3> HIDE DEF n
    <3>2. Len(r) = n - 1
      BY <3>1
    <3> QED
      BY <3>2 DEF n
  <2>4. ASSUME NEW f \in 1 .. Len(s) - 1 PROVE r[f] = s[f]
    <3>1. f \in 1 .. Len(s) - 1 - 1 + 1 /\ 1 + f - 1 = f
      BY <1>1
    <3>2. r[f] = s[1 + f - 1]
      BY <2>2, <3>1, Zenon
    <3> QED
      BY <3>1, <3>2, Zenon
  <2> QED
    BY <2>2, <2>3, <2>4
<1>3. r # <<>> => Len(r) # 0
  BY <1>2, EmptySeq
<1> QED
  BY <1>1, <1>2, <1>3
-----------------------------------------------------------------------------
\* A dispatch of events under way, and the balance of entries and exits while
\* the machine is in current_state or in no state.
Frame == [to : FsmState, changing : BOOLEAN, at : {"exit", "action", "enter", "done"}]
Home == [s \in FsmState |-> IF s = current_state THEN 1 ELSE 0]
Nowhere == [s \in FsmState |-> 0]

\* The machine is between two states while a dispatch that changes the state
\* has called on_exit and not yet on_enter, which only the innermost one has.
FsmInv ==
  /\ current_state \in FsmState /\ calls \in Seq(Frame)
  /\ \A f \in 1 .. Len(calls) - 1 : calls[f].at = "enter"
  /\ calls # <<>> /\ Deepest.at = "exit" => Deepest.changing
  /\ calls # <<>> /\ Deepest.at \in {"exit", "action"} => 
       (Deepest.changing <=> current_state # Deepest.to)
  /\ inside = IF calls # <<>> /\ Deepest.at \in {"exit", "action"} /\ Deepest.changing
                THEN Nowhere ELSE Home

(* fw_fsm_init. *)
LEMMA FsmInitInv == FsmInit => FsmInv
  BY DEF FsmInit, FsmInv, Home

(* Every callback of a dispatch keeps the balance of entries and exits,    *)
(* if only on_enter dispatches again.                                      *)
LEMMA FsmNextInv == Nested \subseteq {"enter"} /\ FsmInv /\ [FsmNext]_fsmVars => FsmInv'
<1> SUFFICES ASSUME Nested \subseteq {"enter"}, FsmInv, [FsmNext]_fsmVars PROVE FsmInv'
  OBVIOUS
<1>0. /\ current_state \in FsmState /\ calls \in Seq(Frame) /\ Len(calls) \in Nat
      /\ calls # <<>> => Nesting \in 1 .. Len(calls) /\ Deepest \in Frame
  BY EmptySeq DEF FsmInv, Nesting, Deepest
<1>1. ASSUME NEW e \in FsmEvent, FsmDispatch(e) PROVE FsmInv'
  <2>1. calls # <<>> => Deepest.at = "enter"
    BY <1>1 DEF FsmDispatch
  <2>2. inside = Home
    BY <2>1 DEF FsmInv
  <2>3. PICK i \in DOMAIN Transitions :
          LET to == Transitions[i].to IN
          /\ calls' = Append(calls, [to |-> to, changing |-> current_state # to,
                                  at |-> IF current_state # to THEN "exit" ELSE "action"])
          /\ inside' = [s \in FsmState |-> IF s = Exited(to) THEN inside[s] - 1 ELSE inside[s]]
    BY <1>1 DEF FsmDispatch
  <2> DEFINE to == Transitions[i].to
             c == [to |-> to, changing |-> current_state # to,
                   at |-> IF current_state # to THEN "exit" ELSE "action"]
  <2>4. c \in Frame
    BY FsmAssumption DEF Frame
  <2>5. /\ calls' \in Seq(Frame) /\ calls' # <<>> /\ Len(calls') = Len(calls) + 1
        /\ Deepest' = c /\ \A f \in 1 .. Len(calls) : calls'[f] = calls[f]
    BY <1>0, <2>3, <2>4, TopOfPushed DEF Deepest, Nesting
  <2>6. current_state' = current_state
    BY <1>1 DEF FsmDispatch
  <2>7. \A f \in 1 .. Len(calls') - 1 : calls'[f].at = "enter"
    BY <1>0, <2>1, <2>5 DEF FsmInv, Deepest, Nesting
  <2>8. CASE current_state = to
    <3>1. inside' = Home
      BY <2>2, <2>3, <2>8, FsmAssumption DEF Exited, Home
    <3> QED
      BY <1>0, <2>5, <2>6, <2>7, <2>8, <3>1 DEF FsmInv, Home
  <2>9. CASE current_state # to
    <3>1. inside' = Nowhere
      BY <2>2, <2>3, <2>9 DEF Exited, Home, Nowhere
    <3> QED
      BY <1>0, <2>5, <2>6, <2>7, <2>9, <3>1 DEF FsmInv
  <2> QED
    BY <2>8, <2>9
<1>2. CASE Act
  <2>1. /\ calls' \in Seq(Frame) /\ Len(calls') = Len(calls) /\ calls' # <<>>
        /\ Deepest' = [Deepest EXCEPT !.at = "action"]
        /\ \A f \in 1 .. Len(calls) - 1 : calls'[f] = calls[f]
    BY <1>0, <1>2 DEF Act, Proceed, Deepest, Nesting, Frame
  <2> QED
    BY <1>0, <1>2, <2>1 DEF Act, FsmInv, Home, Nowhere, Frame
<1>3. CASE Store
  <2>1. Deepest.at = "action" /\ calls # <<>> /\ Deepest.to \in FsmState
    BY <1>0, <1>3 DEF Store, Frame
  <2>2. current_state' = Deepest.to
    BY <1>3 DEF Store
  <2>3. CASE Deepest.changing
    <3>1. /\ calls' \in Seq(Frame) /\ Len(calls') = Len(calls) /\ calls' # <<>>
          /\ Deepest' = [Deepest EXCEPT !.at = "enter"]
          /\ \A f \in 1 .. Len(calls) - 1 : calls'[f] = calls[f]
      BY <1>0, <1>3, <2>3, SMTT(30) DEF Store, Proceed, Deepest, Nesting, Frame
    <3>2. inside' = [s \in FsmState |-> IF s = Deepest.to THEN 1 ELSE 0]
      BY <1>3, <2>1, <2>3 DEF Store, FsmInv, Nowhere
    <3> QED
      BY <1>0, <2>1, <2>2, <3>1, <3>2 DEF FsmInv, Home, Frame
  <2>4. CASE ~Deepest.changing
    <3>1. /\ calls' \in Seq(Frame) /\ Len(calls') = Len(calls) /\ calls' # <<>>
          /\ Deepest' = [Deepest EXCEPT !.at = "done"]
          /\ \A f \in 1 .. Len(calls) - 1 : calls'[f] = calls[f]
      BY <1>0, <1>3, <2>4 DEF Store, Proceed, Deepest, Nesting, Frame
    <3>2. current_state' = current_state
      BY <2>1, <2>2, <2>4 DEF FsmInv
    <3>3. inside' = Home
      BY <1>3, <2>1, <2>4 DEF Store, FsmInv
    <3> QED
      BY <1>0, <2>1, <3>1, <3>2, <3>3 DEF FsmInv, Home, Frame
  <2> QED
    BY <2>3, <2>4
<1>4. CASE FsmReturn
  <2>1. calls # <<>> /\ Deepest.at \in {"enter", "done"} /\ inside = Home
    BY <1>4 DEF FsmReturn, FsmInv
  <2>2. /\ calls' \in Seq(Frame) /\ Len(calls') = Len(calls) - 1
        /\ \A f \in 1 .. Len(calls) - 1 : calls'[f] = calls[f]
        /\ calls' # <<>> => Len(calls') \in 1 .. Len(calls) - 1
    BY <1>0, <1>4, <2>1, RestOfPopped DEF FsmReturn, Nesting
  <2>3. calls' # <<>> => Deepest'.at = "enter"
    BY <2>2 DEF FsmInv, Deepest, Nesting
  <2>4. current_state' = current_state /\ inside' = inside
    BY <1>4 DEF FsmReturn
  <2>5. \A f \in 1 .. Len(calls') - 1 : calls'[f].at = "enter"
    BY <1>0, <2>2 DEF FsmInv
  <2> QED
    BY <1>0, <2>1, <2>2, <2>3, <2>4, <2>5 DEF FsmInv, Home
<1>5. CASE UNCHANGED fsmVars
  BY <1>5 DEF fsmVars, FsmInv, Deepest, Nesting, Home
<1> QED
  BY <1>1, <1>2, <1>3, <1>4, <1>5 DEF FsmNext

(* Whatever the table of transitions and however deep on_enter dispatches  *)
(* again, between dispatches each state but the current one has been left  *)
(* as often as entered, and the current one entered once more              *)
(* (fsm.c:73-94).                                                          *)
THEOREM HooksStayPaired == Nested \subseteq {"enter"} => (FsmSpec => []HooksPaired)
<1> SUFFICES ASSUME Nested \subseteq {"enter"} PROVE FsmSpec => []HooksPaired
  OBVIOUS
<1>1. FsmInv /\ [FsmNext]_fsmVars => FsmInv'
  BY FsmNextInv
<1>2. FsmInv => HooksPaired
  BY DEF FsmInv, HooksPaired, Home
<1> QED
  BY <1>1, <1>2, FsmInitInv, PTL DEF FsmSpec
-----------------------------------------------------------------------------
\* An entry of the table; a run under way.
InitEntry == [fn : InitFn, level : 0 .. Levels - 1, priority : InitPriority]
Pass == [level : 0 .. Levels - 1, next : Nat \ {0}, stage : {"idle", "loop", "call"}, all : BOOLEAN,
         calls : [InitFn -> Nat], done : SUBSET InitFn, present : SUBSET InitEntry,
         late : SUBSET InitFn]

\* The entry at k has had its turn in the pass.
Passed(k) == \/ table[k].level < pass.level
             \/ table[k].level = pass.level /\ k < pass.next

\* What is there at the start of the level is a sorted prefix; what has been
\* passed is done; what has been called has been passed.
PassInv ==
  /\ \A e \in pass.present : \E k \in 1 .. Len(table) : table[k] = e
  /\ \A j \in 1 .. Len(table) : table[j] \in pass.present =>
       \A i \in 1 .. j - 1 :
         /\ table[i] \in pass.present
         /\ table[i].level = pass.level /\ table[j].level = pass.level =>
              table[i].priority <= table[j].priority
  /\ \A k \in 1 .. Len(table) :
       /\ table[k].level = pass.level /\ k < pass.next => 
            table[k].fn \in pass.done \/ (pass.stage = "call" /\ k = pass.next - 1)
       /\ table[k].level < pass.level /\ pass.all => table[k].fn \in pass.done \cup pass.late
  /\ \A f \in InitFn : pass.calls[f] # 0 =>
       pass.calls[f] = 1 /\ \E k \in 1 .. Len(table) : table[k].fn = f /\ Passed(k)
  /\ pass.stage = "call" => pass.next - 1 \in 1 .. Len(table) /\ RunningEntry.level = pass.level

EngineInv ==
  /\ table \in Seq(InitEntry) /\ pass \in Pass
  /\ \A i, j \in 1 .. Len(table) : table[i].fn = table[j].fn => i = j
  /\ IF pass.stage = "idle" THEN pass = Idle ELSE PassInv

(* The sort of a level keeps the entries, each once, and orders those of   *)
(* the level.                                                              *)
LEMMA LevelSorted ==
  ASSUME NEW l \in 0 .. Levels - 1, table \in Seq(InitEntry), SortLevel(l),
         \A i, j \in 1 .. Len(table) : table[i].fn = table[j].fn => i = j
  PROVE  /\ table' \in Seq(InitEntry) /\ Len(table') = Len(table)
         /\ \A i, j \in 1 .. Len(table') : table'[i].fn = table'[j].fn => i = j
         /\ \A k \in 1 .. Len(table') : \E m \in 1 .. Len(table) : table'[k] = table[m]
         /\ \A m \in 1 .. Len(table) : \E k \in 1 .. Len(table') : table'[k] = table[m]
         /\ \A k \in 1 .. Len(table') : table'[k] \in Entries
         /\ \A e \in Entries : \E k \in 1 .. Len(table') : table'[k] = e
         /\ \A j \in 1 .. Len(table') : \A i \in 1 .. j - 1 :
              table'[i].level = l /\ table'[j].level = l => table'[i].priority <= table'[j].priority
<1> DEFINE n == Len(table)
           wrong == Swapped(l)
<1>1. n \in Nat /\ table \in [1 .. n -> InitEntry]
  OBVIOUS
<1>n. n = Len(table)
  OBVIOUS
<1>e. Entries = {table[i] : i \in 1 .. n}
  BY DEF Entries
<1>2. Strict(wrong)
  <2>1. \A e \in Entries : e \in InitEntry
    BY <1>1 DEF Entries
  <2>2. \A e \in Entries : e.priority \in Nat
    BY <2>1, InitAssumption DEF InitEntry
  <2>3. \A x, y : <<x, y>> \in wrong <=>
          x \in Entries /\ y \in Entries /\ x.level = l /\ y.level = l /\ x.priority > y.priority
    BY DEF Swapped
  <2> HIDE DEF wrong
  <2> QED
    BY <2>2, <2>3 DEF Strict
<1> DEFINE t == Sort(table, wrong)
<1>3. t \in [1 .. n -> InitEntry] /\ Rearranges(t, table, n, 1)
      /\ \A a, b \in 1 .. n : a < b => <<t[a], t[b]>> \notin wrong
  <2> HIDE DEF wrong
  <2>1. Len(table) = n /\ n \in Nat /\ table \in [1 .. n -> InitEntry]
    BY <1>1
  <2> HIDE DEF n
  <2> QED
    BY <2>1, <1>2, SortRight
<1> HIDE DEF n
<1>4. PICK p \in Moves(n, 1) : t = [a \in 1 .. n |-> table[p[a]]]
  BY <1>3 DEF Rearranges
<1>5. table' = t
  BY DEF SortLevel
<1> HIDE DEF t
<1>6. Len(table') = n /\ table' \in Seq(InitEntry)
  BY <1>1, <1>3, <1>5
<1>7. \A k \in 1 .. n : p[k] \in 1 .. n /\ table'[k] = table[p[k]]
  BY <1>4, <1>5 DEF Moves
<1>8. \A m \in 1 .. n : \E k \in 1 .. n : p[k] = m
  BY DEF Moves
<1>9. \A a, b \in 1 .. n : p[a] = p[b] => a = b
  BY DEF Moves
<1>10. \A k \in 1 .. n : table'[k] \in Entries
  BY <1>7, <1>e
<1>11. ASSUME NEW j \in 1 .. n, NEW i \in 1 .. j - 1, table'[i].level = l, table'[j].level = l
       PROVE  table'[i].priority <= table'[j].priority
  <2>1. i \in 1 .. n /\ i < j
    BY <1>1
  <2>2. <<table'[i], table'[j]>> \notin wrong
    BY <1>3, <1>5, <2>1
  <2>3. ~(table'[i].priority > table'[j].priority)
    BY <1>10, <1>11, <2>1, <2>2 DEF Swapped
  <2>4. table'[i].priority \in Nat /\ table'[j].priority \in Nat
    BY <1>3, <1>5, <2>1, InitAssumption DEF InitEntry
  <2> QED
    BY <2>3, <2>4
<1>12. \A e \in Entries : \E k \in 1 .. n : table'[k] = e
  BY <1>7, <1>8, <1>e, SMTT(30)
<1>13. \A i, j \in 1 .. n : table'[i].fn = table'[j].fn => i = j
  BY <1>n, <1>7, <1>9
<1>14. \A m \in 1 .. n : \E k \in 1 .. n : table'[k] = table[m]
  BY <1>7, <1>8, SMTT(30)
<1>15. \A k \in 1 .. n : \E m \in 1 .. n : table'[k] = table[m]
  BY <1>7
<1> QED
  BY <1>n, <1>6, <1>10, <1>11, <1>12, <1>13, <1>14, <1>15

(* Nothing is registered. *)
LEMMA EngineInitInv == EngineInit => EngineInv
  BY InitAssumption DEF EngineInit, EngineInv, Idle, Pass

(* The record a pass begins with. *)
Begun(l, a, E) ==
  [level |-> l, next |-> 1, stage |-> "loop", all |-> a,
   calls |-> [f \in InitFn |-> 0], done |-> {}, present |-> E, late |-> {}]
Began(q, l, E) ==
  /\ q \in Pass /\ q.stage = "loop" /\ q.level = l /\ q.next = 1
  /\ q.calls = [f \in InitFn |-> 0] /\ q.present = E

(* Its fields. *)
LEMMA BegunFields ==
  ASSUME NEW l, NEW a, NEW E
  PROVE  /\ Begun(l, a, E).stage = "loop" /\ Begun(l, a, E).level = l
         /\ Begun(l, a, E).next = 1 /\ Begun(l, a, E).present = E
         /\ Begun(l, a, E).calls = [f \in InitFn |-> 0] /\ Begun(l, a, E).all = a
<1>1. /\ Begun(l, a, E).stage = "loop" /\ Begun(l, a, E).level = l
      /\ Begun(l, a, E).next = 1 /\ Begun(l, a, E).present = E /\ Begun(l, a, E).all = a
  BY DEF Begun
<1>2. Begun(l, a, E).calls = [f \in InitFn |-> 0]
  BY DEF Begun
<1> QED
  BY <1>1, <1>2

(* It is well typed. *)
LEMMA BegunIsPass ==
  ASSUME NEW l \in 0 .. Levels - 1, NEW a \in BOOLEAN, NEW E \in SUBSET InitEntry
  PROVE  Began(Begun(l, a, E), l, E)
<1>1. [f \in InitFn |-> 0] \in [InitFn -> Nat] /\ 1 \in Nat \ {0}
  OBVIOUS
<1>2. Begun(l, a, E) \in Pass
  BY <1>1, Zenon DEF Begun, Pass
<1>3. /\ Begun(l, a, E).stage = "loop" /\ Begun(l, a, E).level = l
      /\ Begun(l, a, E).next = 1 /\ Begun(l, a, E).present = E
      /\ Begun(l, a, E).calls = [f \in InitFn |-> 0]
  BY BegunFields
<1> QED
  BY <1>2, <1>3, Zenon DEF Began

(* fw_init_all begins with it. *)
LEMMA AllBegun ==
  ASSUME NEW q, NEW E, q = [Idle EXCEPT !.stage = "loop", !.all = TRUE, !.present = E]
  PROVE  q = Begun(0, TRUE, E)
  BY DEF Idle, Begun

(* fw_init_level begins with it. *)
LEMMA LevelBegun ==
  ASSUME NEW q, NEW l, NEW E, q = [Idle EXCEPT !.stage = "loop", !.level = l, !.present = E]
  PROVE  q = Begun(l, FALSE, E)
  BY DEF Idle, Begun

(* fw_init_level runs one level. *)
LEMMA LevelIsNotAll ==
  ASSUME NEW q, NEW l, NEW E, q = [Idle EXCEPT !.stage = "loop", !.level = l, !.present = E]
  PROVE  ~q.all
  BY DEF Idle

(* The entries by their places. *)
LEMMA EntriesAre ==
  ASSUME EngineInv
  PROVE  /\ \A e \in Entries : e \in InitEntry
         /\ \A k \in 1 .. Len(table) : table[k] \in InitEntry /\ table[k] \in Entries
         /\ \A e \in Entries : \E k \in 1 .. Len(table) : table[k] = e
         /\ Len(table) \in Nat
  BY DEF EngineInv, Entries

(* No registration, no return of an initialiser and no change of level     *)
(* breaks the order of the pass.                                           *)
LEMMA EngineNextInv == EngineInv /\ [EngineNext]_initVars => EngineInv'
<1> SUFFICES ASSUME EngineInv, [EngineNext]_initVars PROVE EngineInv'
  OBVIOUS
<1> USE InitAssumption
<1>0. table \in Seq(InitEntry) /\ pass \in Pass /\ Len(table) \in Nat
      /\ \A i, j \in 1 .. Len(table) : table[i].fn = table[j].fn => i = j
  BY DEF EngineInv
<1>1. ASSUME NEW f \in InitFn, NEW l \in 0 .. Levels - 1, NEW p \in InitPriority, InitRegister(f, l, p)
      PROVE  EngineInv'
  <2> DEFINE e == [fn |-> f, level |-> l, priority |-> p]
             n == Len(table)
  <2>1. e \in InitEntry
    BY DEF InitEntry
  <2>2. /\ table' \in Seq(InitEntry) /\ Len(table') = n + 1
        /\ table'[n + 1] = e /\ \A k \in 1 .. n : table'[k] = table[k]
    BY <1>0, <1>1, <2>1, AppendProperties DEF InitRegister
  <2>3. \A i, j \in 1 .. Len(table') : table'[i].fn = table'[j].fn => i = j
    BY <1>0, <1>1, <2>2 DEF InitRegister, IsNew
  <2>4. /\ pass' \in Pass /\ pass'.stage = pass.stage /\ pass'.level = pass.level
        /\ pass'.next = pass.next /\ pass'.all = pass.all /\ pass'.calls = pass.calls
        /\ pass'.done = pass.done /\ pass'.present = pass.present
        /\ \A g \in pass.late : g \in pass'.late
        /\ pass.stage = "call" /\ l < pass.level => f \in pass'.late
        /\ pass.stage # "call" => pass' = pass
    BY <1>0, <1>1 DEF InitRegister, Pass
  <2>5. CASE pass.stage = "idle"
    BY <2>2, <2>3, <2>4, <2>5 DEF EngineInv, Idle
  <2>n. n \in Nat /\ n = Len(table)
    BY <1>0
  <2> HIDE DEF n
  <2> USE <2>n
  <2>6. CASE pass.stage # "idle"
    <3>1. PassInv /\ pass.stage = "call"
      BY <1>1, <2>6 DEF EngineInv, InitRegister
    <3>2. pass.next - 1 \in 1 .. n /\ RunningEntry.level = pass.level
      BY <3>1 DEF PassInv
    <3>3. \A d \in pass'.present : \E k \in 1 .. Len(table') : table'[k] = d
      BY <1>0, <2>2, <2>4, <3>1 DEF PassInv
    <3>4. e \notin pass.present
      BY <1>0, <1>1, <3>1 DEF PassInv, InitRegister, IsNew
    <3>5. ASSUME NEW j \in 1 .. Len(table'), table'[j] \in pass'.present, NEW i \in 1 .. j - 1
          PROVE  /\ table'[i] \in pass'.present
                 /\ table'[i].level = pass'.level /\ table'[j].level = pass'.level =>
                      table'[i].priority <= table'[j].priority
      <4>1. j \in 1 .. n /\ i \in 1 .. n
        BY <2>n, <2>2, <2>4, <3>4, <3>5
      <4> QED
        BY <2>2, <2>4, <3>1, <3>5, <4>1 DEF PassInv
    <3>6. ASSUME NEW k \in 1 .. Len(table')
          PROVE  /\ table'[k].level = pass'.level /\ k < pass'.next =>
                      table'[k].fn \in pass'.done \/ (pass'.stage = "call" /\ k = pass'.next - 1)
                 /\ table'[k].level < pass'.level /\ pass'.all => table'[k].fn \in pass'.done \cup pass'.late
      <4>1. CASE k = n + 1
        <5>1. ~(k < pass'.next) /\ table'[k] = e
          BY <1>0, <2>2, <2>4, <3>2, <4>1 DEF Pass
        <5>2. e.level < pass'.level => e.fn \in pass'.late
          BY <2>4, <3>1
        <5> QED
          BY <5>1, <5>2
      <4>2. CASE k \in 1 .. n
        BY <2>2, <2>4, <3>1, <4>2 DEF PassInv
      <4> QED
        BY <1>0, <2>2, <4>1, <4>2
    <3>7. \A g \in InitFn : pass'.calls[g] # 0 =>
            pass'.calls[g] = 1 /\ \E k \in 1 .. Len(table') : table'[k].fn = g /\ Passed(k)'
      <4>1. \A k \in 1 .. n : k \in 1 .. Len(table') /\ (Passed(k) => Passed(k)')
        BY <1>0, <2>2, <2>4 DEF Passed
      <4> QED
        BY <2>2, <2>4, <3>1, <4>1 DEF PassInv
    <3>8. pass'.next - 1 \in 1 .. Len(table') /\ RunningEntry'.level = pass'.level
      BY <1>0, <2>2, <2>4, <3>2 DEF RunningEntry
    <3>9. PassInv'
      BY <3>3, <3>5, <3>6, <3>7, <3>8 DEF PassInv
    <3> QED
      BY <2>2, <2>3, <2>4, <2>6, <3>9 DEF EngineInv
  <2> QED
    BY <2>5, <2>6
<1>2. ASSUME NEW l \in 0 .. Levels - 1, SortLevel(l), pass.stage = "idle",
             Began(pass', l, Entries), l = 0 \/ ~pass'.all
      PROVE  EngineInv'
  <2>1. /\ table' \in Seq(InitEntry) /\ Len(table') = Len(table)
        /\ \A i, j \in 1 .. Len(table') : table'[i].fn = table'[j].fn => i = j
        /\ \A k \in 1 .. Len(table') : table'[k] \in Entries
        /\ \A e \in Entries : \E k \in 1 .. Len(table') : table'[k] = e
        /\ \A j \in 1 .. Len(table') : \A i \in 1 .. j - 1 :
              table'[i].level = l /\ table'[j].level = l => table'[i].priority <= table'[j].priority
    BY <1>0, <1>2, LevelSorted
  <2>2. \A k \in 1 .. Len(table') : table'[k] \in InitEntry
    BY <2>1
  <2>3. \A k \in 1 .. Len(table') : ~(table'[k].level < 0) /\ ~(k < 1)
    BY <2>2 DEF InitEntry
  <2>4. \A j \in 1 .. Len(table') : \A i \in 1 .. j - 1 : i \in 1 .. Len(table')
    BY <2>1, <1>0
  <2>5. \A k \in 1 .. Len(table') : ~(table'[k].level < pass'.level /\ pass'.all)
    BY <1>2, <2>3 DEF Began
  <2>6. PassInv'
    BY <1>2, <2>1, <2>3, <2>4, <2>5 DEF PassInv, Began
  <2> QED
    BY <1>2, <2>1, <2>6 DEF EngineInv, Began
<1>3. CASE StartAll
  <2>1. 0 \in 0 .. Levels - 1 /\ SortLevel(0) /\ pass.stage = "idle" /\ Entries \in SUBSET InitEntry
    BY <1>3, EntriesAre DEF StartAll
  <2>2. pass' = Begun(0, TRUE, Entries)
    BY <1>3, AllBegun, Zenon DEF StartAll
  <2>3. Began(pass', 0, Entries)
    BY <2>1, <2>2, BegunIsPass, Zenon
  <2> QED
    BY <1>2, <2>1, <2>3
<1>4. ASSUME NEW l \in 0 .. Levels - 1, StartLevel(l) PROVE EngineInv'
  <2>1. SortLevel(l) /\ pass.stage = "idle" /\ Entries \in SUBSET InitEntry
    BY <1>4, EntriesAre DEF StartLevel
  <2>2. pass' = Begun(l, FALSE, Entries)
    BY <1>4, LevelBegun, Zenon DEF StartLevel
  <2>3. Began(pass', l, Entries)
    BY <2>1, <2>2, BegunIsPass, Zenon
  <2>4. ~pass'.all
    BY <1>4, LevelIsNotAll, Zenon DEF StartLevel
  <2> QED
    BY <1>2, <2>1, <2>3, <2>4
<1>5. CASE CallInit
  <2>1. PassInv /\ pass.stage = "loop" /\ table' = table
    BY <1>5 DEF CallInit, EngineInv
  <2>2. PICK i \in 1 .. Len(table) :
          /\ ToRun(i) /\ \A j \in 1 .. i - 1 : ~ToRun(j)
          /\ pass' = [pass EXCEPT !.stage = "call", !.next = i + 1, !.calls[table[i].fn] = @ + 1]
    BY <1>5 DEF CallInit
  <2> DEFINE f == table[i].fn
  <2>3. f \in InitFn /\ i >= pass.next /\ table[i].level = pass.level
    BY <2>2, EntriesAre DEF ToRun, InitEntry
  <2>4. pass.calls[f] = 0
    BY <1>0, <2>1, <2>3 DEF PassInv, Passed, Pass
  <2>5. /\ pass' \in Pass /\ pass'.stage = "call" /\ pass'.level = pass.level
        /\ pass'.next = i + 1 /\ pass'.all = pass.all
        /\ pass'.calls = [pass.calls EXCEPT ![f] = 1]
        /\ pass'.done = pass.done /\ pass'.present = pass.present /\ pass'.late = pass.late
    <3>1. pass.calls \in [InitFn -> Nat] /\ i + 1 \in Nat \ {0}
      BY <1>0 DEF Pass
    <3>2. [pass.calls EXCEPT ![f] = @ + 1] = [pass.calls EXCEPT ![f] = 1]
      BY <2>3, <2>4, <3>1
    <3>3. pass' = [pass EXCEPT !.stage = "call", !.next = i + 1, !.calls = [pass.calls EXCEPT ![f] = 1]]
      <4>1. pass' = [pass EXCEPT !.stage = "call", !.next = i + 1, !.calls = [pass.calls EXCEPT ![f] = @ + 1]]
        BY <1>0, <2>2 DEF Pass
      <4> QED
        BY <3>2, <4>1
    <3>4. [pass.calls EXCEPT ![f] = 1] \in [InitFn -> Nat]
      BY <3>1
    <3> QED
      BY <1>0, <3>1, <3>3, <3>4 DEF Pass
  <2>6. ASSUME NEW k \in 1 .. Len(table)
        PROVE  /\ table[k].level = pass.level /\ k < i + 1 => table[k].fn \in pass.done \/ k = i
               /\ table[k].level < pass.level /\ pass.all => table[k].fn \in pass.done \cup pass.late
    <3>1. table[k].level = pass.level /\ k < i => k < pass.next
      BY <1>0, <2>2 DEF ToRun, Pass
    <3> QED
      BY <2>1, <3>1 DEF PassInv
  <2>7. \A g \in InitFn : pass'.calls[g] # 0 =>
          pass'.calls[g] = 1 /\ \E k \in 1 .. Len(table) : table[k].fn = g /\ Passed(k)'
    <3>1. \A k \in 1 .. Len(table) : Passed(k) => Passed(k)'
      BY <1>0, <2>1, <2>3, <2>5 DEF Passed, Pass
    <3>2. Passed(i)'
      BY <2>1, <2>3, <2>5 DEF Passed
    <3>3. pass.calls \in [InitFn -> Nat]
      BY <1>0 DEF Pass
    <3> SUFFICES ASSUME NEW g \in InitFn, pass'.calls[g] # 0
                 PROVE  pass'.calls[g] = 1 /\ \E k \in 1 .. Len(table) : table[k].fn = g /\ Passed(k)'
      OBVIOUS
    <3>4. CASE g = f
      BY <2>3, <2>5, <3>2, <3>3, <3>4
    <3>5. CASE g # f
      <4>1. pass'.calls[g] = pass.calls[g]
        BY <2>3, <2>5, <3>3, <3>5
      <4> QED
        BY <2>1, <3>1, <4>1 DEF PassInv
    <3> QED
      BY <3>4, <3>5
  <2>8. pass'.next - 1 \in 1 .. Len(table') /\ RunningEntry'.level = pass'.level
    BY <2>1, <2>3, <2>5 DEF RunningEntry
  <2>9. PassInv'
    <3>1. /\ \A e \in pass'.present : \E k \in 1 .. Len(table') : table'[k] = e
          /\ \A j \in 1 .. Len(table') : table'[j] \in pass'.present =>
               \A k \in 1 .. j - 1 :
                 /\ table'[k] \in pass'.present
                 /\ table'[k].level = pass'.level /\ table'[j].level = pass'.level =>
                      table'[k].priority <= table'[j].priority
      BY <2>1, <2>5 DEF PassInv
    <3>2. \A k \in 1 .. Len(table') :
            /\ table'[k].level = pass'.level /\ k < pass'.next =>
                 table'[k].fn \in pass'.done \/ (pass'.stage = "call" /\ k = pass'.next - 1)
            /\ table'[k].level < pass'.level /\ pass'.all => table'[k].fn \in pass'.done \cup pass'.late
      BY <2>1, <2>5, <2>6
    <3>3. \A g \in InitFn : pass'.calls[g] # 0 =>
            pass'.calls[g] = 1 /\ \E k \in 1 .. Len(table') : table'[k].fn = g /\ Passed(k)'
      BY <2>1, <2>7
    <3> QED
      BY <2>8, <3>1, <3>2, <3>3 DEF PassInv
  <2> QED
    BY <1>0, <2>1, <2>5, <2>9 DEF EngineInv
<1>6. CASE ReturnOk
  <2>1. PassInv /\ pass.stage = "call" /\ table' = table
    BY <1>6 DEF ReturnOk, EngineInv
  <2>2. RunningEntry.fn \in InitFn /\ RunningEntry = table[pass.next - 1]
    BY <2>1, EntriesAre DEF PassInv, RunningEntry, InitEntry
  <2>3. /\ pass' \in Pass /\ pass'.stage = "loop" /\ pass'.level = pass.level
        /\ pass'.next = pass.next /\ pass'.all = pass.all /\ pass'.calls = pass.calls
        /\ pass'.done = pass.done \cup {RunningEntry.fn}
        /\ pass'.present = pass.present /\ pass'.late = pass.late
    BY <1>0, <1>6, <2>2 DEF ReturnOk, Pass
  <2>4. \A k : Passed(k) <=> Passed(k)'
    BY <2>1, <2>3 DEF Passed
  <2>5. PassInv'
    BY <2>1, <2>2, <2>3, <2>4 DEF PassInv
  <2> QED
    BY <1>0, <2>1, <2>3, <2>5 DEF EngineInv
<1>7. CASE ReturnError
  BY <1>0, <1>7 DEF ReturnError, EngineInv, Idle, Pass
<1>8. CASE EndLevel
  <2>1. PassInv /\ pass.stage = "loop" /\ \A i \in 1 .. Len(table) : ~ToRun(i)
    BY <1>8 DEF EndLevel, EngineInv
  <2>2. CASE ~(pass.all /\ pass.level + 1 < Levels)
    <3>1. pass' = Idle /\ table' = table
      BY <1>8, <2>2, Zenon DEF EndLevel
    <3>2. Idle.stage = "idle" /\ Idle \in Pass
      BY DEF Idle, Pass
    <3> HIDE DEF Idle
    <3>3. pass'.stage = "idle"
      BY <3>1, <3>2
    <3>4. pass' \in Pass
      BY <3>1, <3>2
    <3> QED
      BY <1>0, <3>1, <3>3, <3>4 DEF EngineInv
  <2>3. CASE pass.all /\ pass.level + 1 < Levels
    <3> DEFINE l == pass.level + 1
    <3>1. l \in 0 .. Levels - 1 /\ SortLevel(l) /\ Entries \in SUBSET InitEntry
      BY <1>0, <1>8, <2>3, EntriesAre DEF EndLevel, Pass
    <3>2. /\ table' \in Seq(InitEntry) /\ Len(table') = Len(table)
          /\ \A i, j \in 1 .. Len(table') : table'[i].fn = table'[j].fn => i = j
          /\ \A k \in 1 .. Len(table') : \E m \in 1 .. Len(table) : table'[k] = table[m]
          /\ \A m \in 1 .. Len(table) : \E k \in 1 .. Len(table') : table'[k] = table[m]
          /\ \A k \in 1 .. Len(table') : table'[k] \in Entries
          /\ \A e \in Entries : \E k \in 1 .. Len(table') : table'[k] = e
          /\ \A j \in 1 .. Len(table') : \A i \in 1 .. j - 1 :
               table'[i].level = l /\ table'[j].level = l => table'[i].priority <= table'[j].priority
      <4> HIDE DEF l
      <4> QED
        BY <1>0, <3>1, LevelSorted
    <3>3. /\ pass' \in Pass /\ pass'.stage = "loop" /\ pass'.level = l /\ pass'.next = 1
          /\ pass'.all = pass.all /\ pass'.calls = pass.calls /\ pass'.done = pass.done
          /\ pass'.present = Entries /\ pass'.late = pass.late
      <4>1. pass' = [pass EXCEPT !.level = @ + 1, !.next = 1, !.present = Entries]
        BY <1>8, <2>3, Zenon DEF EndLevel
      <4>2. pass' = [pass EXCEPT !.level = l, !.next = 1, !.present = Entries]
        BY <4>1
      <4>3. l \in 0 .. Levels - 1 /\ Entries \in SUBSET InitEntry /\ 1 \in Nat \ {0}
        BY <3>1
      <4> HIDE DEF l
      <4>4. pass' \in Pass
        BY <1>0, <4>2, <4>3 DEF Pass
      <4>5. pass'.level = l /\ pass'.next = 1 /\ pass'.present = Entries
        BY <1>0, <4>2 DEF Pass
      <4>6. pass'.stage = pass.stage /\ pass'.calls = pass.calls /\ pass'.done = pass.done /\ pass'.late = pass.late
        BY <1>0, <4>2 DEF Pass
      <4>7. pass'.all = pass.all
        BY <1>0, <4>2 DEF Pass
      <4> QED
        BY <2>1, <4>4, <4>5, <4>6, <4>7
    <3>4. \A m \in 1 .. Len(table) : table[m].level \in Nat /\ table[m].fn \in InitFn
      BY EntriesAre DEF InitEntry
    <3>5. \A m \in 1 .. Len(table) : table[m].level < l =>
            table[m].fn \in pass.done \cup pass.late
      BY <1>0, <2>1, <2>3, <3>4 DEF PassInv, ToRun, Pass
    <3>6. \A j \in 1 .. Len(table') : \A i \in 1 .. j - 1 : i \in 1 .. Len(table')
      BY <1>0, <3>2
    <3>7. \A k \in 1 .. Len(table') :
            /\ ~(k < 1)
            /\ table'[k].level < l => table'[k].fn \in pass.done \cup pass.late
      <4> TAKE k \in 1 .. Len(table')
      <4>1. PICK m \in 1 .. Len(table) : table'[k] = table[m]
        BY <3>2
      <4> HIDE DEF l
      <4> QED
        BY <1>0, <3>2, <3>5, <4>1
    <3>8. \A g \in InitFn : pass'.calls[g] # 0 =>
            pass'.calls[g] = 1 /\ \E k \in 1 .. Len(table') : table'[k].fn = g /\ Passed(k)'
      <4> SUFFICES ASSUME NEW g \in InitFn, pass.calls[g] # 0
                   PROVE  pass.calls[g] = 1 /\ \E k \in 1 .. Len(table') : table'[k].fn = g /\ Passed(k)'
        BY <3>3
      <4>1. PICK m \in 1 .. Len(table) : table[m].fn = g /\ Passed(m) /\ pass.calls[g] = 1
        BY <2>1 DEF PassInv
      <4>2. PICK k \in 1 .. Len(table') : table'[k] = table[m]
        BY <3>2
      <4>3. table'[k].level < l
        BY <1>0, <3>4, <4>1, <4>2 DEF Passed, Pass
      <4> QED
        BY <3>3, <4>1, <4>2, <4>3 DEF Passed
    <3>9. PassInv'
      BY <3>2, <3>3, <3>6, <3>7, <3>8, ZenonT(30) DEF PassInv
    <3> QED
      BY <3>2, <3>3, <3>9 DEF EngineInv
  <2> QED
    BY <2>2, <2>3
<1>9. CASE EngineReset
  <2>1. table' = <<>> /\ pass' = pass /\ pass = Idle
    BY <1>9 DEF EngineReset, EngineInv
  <2> QED
    BY <1>0, <2>1 DEF EngineInv, Idle
<1>10. CASE UNCHANGED initVars
  BY <1>10 DEF initVars, EngineInv, PassInv, Passed, RunningEntry, Idle
<1> QED
  BY <1>1, <1>3, <1>4, <1>5, <1>6, <1>7, <1>8, <1>9, <1>10 DEF EngineNext

(* For any initialisers, levels and priorities, nothing runs twice in a    *)
(* pass, and what runs finds done all it may rely on (init.c:18-22,        *)
(* 38-57, 66-71).                                                          *)
THEOREM StartsStayInOrder == EngineSpec => []StartsInOrder
<1>1. EngineInv => StartsInOrder
  <2> SUFFICES ASSUME EngineInv PROVE StartsInOrder
    OBVIOUS
  <2>1. pass \in Pass /\ Len(table) \in Nat
    BY DEF EngineInv
  <2>2. CASE pass.stage = "idle"
    BY <2>2 DEF EngineInv, Idle, StartsInOrder, NoSecondCall, LowerLevelsDone, PriorityHeld
  <2>3. CASE pass.stage # "idle"
    <3>1. PassInv
      BY <2>3 DEF EngineInv
    <3>2. NoSecondCall
      BY <2>1, <3>1 DEF PassInv, NoSecondCall, Pass
    <3>3. LowerLevelsDone
      BY <3>1 DEF PassInv, LowerLevelsDone, Entries
    <3>4. PriorityHeld
      <4> SUFFICES ASSUME pass.stage = "call", NEW e \in pass.present,
                          e.level = pass.level, e.priority < RunningEntry.priority
                   PROVE  e.fn \in pass.done
        BY DEF PriorityHeld
      <4>1. PICK k \in 1 .. Len(table) : table[k] = e
        BY <3>1 DEF PassInv
      <4> DEFINE r == pass.next - 1
      <4>2. r \in 1 .. Len(table) /\ RunningEntry = table[r] /\ table[r].level = pass.level
        BY <3>1 DEF PassInv, RunningEntry
      <4>3. table[r].priority \in Nat /\ table[k].priority \in Nat
        BY <4>2, EntriesAre, InitAssumption DEF InitEntry
      <4>4. k # r
        BY <4>1, <4>2, <4>3
      <4>5. ~(r < k)
        <5>1. r < k => r \in 1 .. k - 1
          BY <2>1, <4>2
        <5>2. r < k => table[r].priority <= table[k].priority
          BY <3>1, <4>1, <4>2, <5>1 DEF PassInv
        <5> QED
          BY <4>1, <4>2, <4>3, <5>2
      <4> QED
        BY <2>1, <3>1, <4>1, <4>2, <4>4, <4>5 DEF PassInv, Pass
    <3> QED
      BY <3>2, <3>3, <3>4 DEF StartsInOrder
  <2> QED
    BY <2>2, <2>3
<1> QED
  BY <1>1, EngineInitInv, EngineNextInv, PTL DEF EngineSpec
-----------------------------------------------------------------------------
CollectRows(e, m, f) ==
  f = [s \in 0 .. m |-> IF s = 0 THEN <<>>
                        ELSE Collect(f[s - 1], s, e)]

(* The recursion of the loop over the slots has a solution. *)
LEMMA CollectRowsExist ==
  ASSUME NEW e, NEW n \in Nat
  PROVE  \E f : CollectRows(e, n, f)
<1> DEFINE Bad == {m \in Nat : ~\E f : CollectRows(e, m, f)}
<1> SUFFICES ASSUME Bad # {} PROVE FALSE
  OBVIOUS
<1>1. PICK m \in Bad : \A k \in Bad : m <= k
  BY Least, Zenon
<1>2. m # 0
  <2>1. CollectRows(e, 0, [s \in 0 .. 0 |-> <<>>])
    BY DEF CollectRows
  <2> QED
    BY <2>1, <1>1
<1>3. PICK f : CollectRows(e, m - 1, f)
  BY <1>1, <1>2
<1>4. CollectRows(e, m, [s \in 0 .. m |->
        IF s = m THEN Collect(f[m - 1], m, e) ELSE f[s]])
  BY <1>2, <1>3 DEF CollectRows
<1> QED
  BY <1>1, <1>4

(* Collected reads its result off those rows. *)
LEMMA CollectRowsUsed ==
  ASSUME NEW e
  PROVE  \E f : CollectRows(e, MaxEntries, f) /\ Collected(e) = f[MaxEntries]
<1> DEFINE g == CHOOSE f : f = [s \in 0 .. MaxEntries |->
                  IF s = 0 THEN <<>> ELSE Collect(f[s - 1], s, e)]
<1>1. \E f : CollectRows(e, MaxEntries, f)
  BY CollectRowsExist, HookAssumption
<1>2. CollectRows(e, MaxEntries, g)
  BY <1>1, Zenon DEF CollectRows
<1>3. Collected(e) = g[MaxEntries]
  BY Zenon DEF Collected
<1> QED
  BY <1>2, <1>3, Zenon

(* The slots of an event up to the m-th, each once. *)
Lists(c, e, m) ==
  /\ c \in Seq(Slot)
  /\ \A i \in 1 .. Len(c) : c[i] <= m /\ Matches(c[i], e)
  /\ \A i, j \in 1 .. Len(c) : c[i] = c[j] => i = j
  /\ \A s \in 1 .. m : Matches(s, e) => \E i \in 1 .. Len(c) : c[i] = s

(* fw_hook_dispatch collects the active slots of its event, each once      *)
(* (hook.c:92-96).                                                         *)
LEMMA CollectedRight ==
  ASSUME NEW e
  PROVE  Lists(Collected(e), e, MaxEntries)
<1> USE HookAssumption
<1>1. PICK f : CollectRows(e, MaxEntries, f) /\ Collected(e) = f[MaxEntries]
  BY CollectRowsUsed
<1> DEFINE Bad == {m \in 0 .. MaxEntries : ~Lists(f[m], e, m)}
<1>2. f[0] = <<>> /\ \A s \in 1 .. MaxEntries :
        f[s] = Collect(f[s - 1], s, e)
  BY <1>1 DEF CollectRows
<1>3. Bad = {}
  <2> SUFFICES ASSUME Bad # {} PROVE FALSE
    OBVIOUS
  <2>1. PICK m \in Bad : \A k \in Bad : m <= k
    <3>1. Bad \in SUBSET Nat
      OBVIOUS
    <3> HIDE DEF Bad
    <3> QED
      BY <3>1, Least, Zenon
  <2>2. m \in 0 .. MaxEntries /\ ~Lists(f[m], e, m) /\ \A k \in 0 .. MaxEntries : k < m => Lists(f[k], e, k)
    BY <2>1
  <2>3. m # 0
    <3>1. Lists(<<>>, e, 0)
      BY EmptySeq DEF Lists
    <3> QED
      BY <1>2, <2>2, <3>1
  <2> DEFINE c == f[m - 1]
             d == f[m]
  <2>4. Lists(c, e, m - 1)
    BY <2>2, <2>3
  <2>5. d = Collect(c, m, e)
    BY <1>2, <2>2, <2>3
  <2>6. ~Lists(d, e, m) /\ m \in Slot
    BY <2>2, <2>3 DEF Slot
  <2> HIDE DEF c, d, Bad
  <2>7. c \in Seq(Slot) /\ Len(c) \in Nat /\ \A i \in 1 .. Len(c) : c[i] \in Slot /\ c[i] \in Nat
    BY <2>4 DEF Lists, Slot
  <2>8. CASE ~Matches(m, e)
    <3>1. d = c
      BY <2>5, <2>8 DEF Collect
    <3>2. m \in Nat
      BY <2>2
    <3>3. \A i \in 1 .. Len(c) : c[i] <= m /\ Matches(c[i], e)
      BY <2>4, <2>7, <3>2 DEF Lists
    <3>4. \A i, j \in 1 .. Len(c) : c[i] = c[j] => i = j
      BY <2>4 DEF Lists
    <3>5. \A s \in 1 .. m : Matches(s, e) => \E i \in 1 .. Len(c) : c[i] = s
      <4> TAKE s \in 1 .. m
      <4>1. s = m \/ s \in 1 .. m - 1
        BY <3>2
      <4> QED
        BY <2>4, <2>8, <4>1 DEF Lists
    <3> QED
      BY <2>6, <2>7, <3>1, <3>3, <3>4, <3>5 DEF Lists
  <2>9. CASE Matches(m, e)
    <3>1. d = Append(c, m)
      BY <2>5, <2>9 DEF Collect
    <3>2. /\ d \in Seq(Slot) /\ Len(d) = Len(c) + 1
          /\ \A i \in 1 .. Len(c) : d[i] = c[i]
          /\ d[Len(c) + 1] = m
      BY <2>6, <2>7, <3>1, AppendProperties
    <3>a. m \in Nat /\ m # 0
      BY <2>2, <2>3
    <3>3. \A i \in 1 .. Len(d) : d[i] <= m /\ Matches(d[i], e)
      BY <2>4, <2>7, <2>9, <3>a, <3>2 DEF Lists
    <3>4. \A i, j \in 1 .. Len(d) : d[i] = d[j] => i = j
      BY <2>4, <2>7, <3>a, <3>2 DEF Lists
    <3>5. \A s \in 1 .. m : Matches(s, e) => \E i \in 1 .. Len(d) : d[i] = s
      BY <2>4, <2>7, <3>a, <3>2 DEF Lists
    <3> QED
      BY <2>6, <3>2, <3>3, <3>4, <3>5 DEF Lists
  <2> QED
    BY <2>8, <2>9
<1> QED
  BY <1>1, <1>3

(* What a dispatch walks. *)
HookEntry == [event : Event, callback : Callback, priority : Priority, active : BOOLEAN]

(* Sorted, they are the same slots, by priority (hook.c:103-111). *)
LEMMA MatchedRight ==
  ASSUME NEW e, entries \in [Slot -> HookEntry]
  PROVE  LET c == Matched(e) IN
         /\ Lists(c, e, MaxEntries)
         /\ \A i, j \in 1 .. Len(c) : i < j => entries[c[i]].priority <= entries[c[j]].priority
<1> DEFINE c == Collected(e)
           t == Matched(e)
           n == Len(c)
<1>1. Lists(c, e, MaxEntries)
  BY CollectedRight
<1>2. n \in Nat /\ c \in [1 .. n -> Slot] /\ Len(c) = n
  BY <1>1 DEF Lists
<1>3. \A s \in Slot : entries[s].priority \in Nat
  BY HookAssumption DEF HookEntry
<1>4. Strict(Later)
  <2>1. \A x, y : <<x, y>> \in Later <=>
          x \in Slot /\ y \in Slot /\ entries[x].priority > entries[y].priority
    BY DEF Later
  <2> QED
    BY <1>3, <2>1 DEF Strict
<1> HIDE DEF c
<1>5. /\ t \in [1 .. n -> Slot] /\ Rearranges(t, c, n, 1)
      /\ \A a, b \in 1 .. n : a < b => <<t[a], t[b]>> \notin Later
  <2> HIDE DEF n
  <2> QED
    BY <1>2, <1>4, SortRight DEF Matched, c
<1> HIDE DEF t, n
<1>6. PICK p \in Moves(n, 1) : t = [a \in 1 .. n |-> c[p[a]]]
  BY <1>5 DEF Rearranges
<1>7. /\ \A a \in 1 .. n : p[a] \in 1 .. n /\ t[a] = c[p[a]]
      /\ \A a, b \in 1 .. n : p[a] = p[b] => a = b
      /\ \A b \in 1 .. n : \E a \in 1 .. n : p[a] = b
  BY <1>6 DEF Moves
<1>8. t \in Seq(Slot) /\ Len(t) = n
  BY <1>2, <1>5
<1>9. Lists(t, e, MaxEntries)
  <2>1. \A i \in 1 .. n : t[i] <= MaxEntries /\ Matches(t[i], e)
    <3>1. \A i \in 1 .. n : c[i] <= MaxEntries /\ Matches(c[i], e)
      BY <1>1, <1>2 DEF Lists
    <3> QED
      BY <1>7, <3>1
  <2>2. \A i, j \in 1 .. n : t[i] = t[j] => i = j
    <3>1. \A i, j \in 1 .. n : c[i] = c[j] => i = j
      BY <1>1, <1>2 DEF Lists
    <3> QED
      BY <1>7, <3>1
  <2>3. \A s \in 1 .. MaxEntries : Matches(s, e) => \E i \in 1 .. n : t[i] = s
    <3> SUFFICES ASSUME NEW s \in 1 .. MaxEntries, Matches(s, e) PROVE \E i \in 1 .. n : t[i] = s
      OBVIOUS
    <3>1. PICK j \in 1 .. n : c[j] = s
      BY <1>1, <1>2 DEF Lists
    <3>2. PICK i \in 1 .. n : p[i] = j
      BY <1>7
    <3> QED
      BY <1>7, <3>1, <3>2
  <2> QED
    BY <1>8, <2>1, <2>2, <2>3 DEF Lists
<1>10. ASSUME NEW i \in 1 .. n, NEW j \in 1 .. n, i < j
       PROVE  entries[t[i]].priority <= entries[t[j]].priority
  <2>1. <<t[i], t[j]>> \notin Later /\ t[i] \in Slot /\ t[j] \in Slot
    BY <1>5, <1>10
  <2> QED
    BY <1>3, <2>1 DEF Later
<1> QED
  BY <1>8, <1>9, <1>10 DEF t

\* A dispatch of hooks under way.
HookFrame == [event : Event, matched : Seq(Slot), next : Nat \ {0}, running : BOOLEAN,
              atStart : SUBSET Callback, calls : [Callback -> Nat], reused : BOOLEAN]

\* What a dispatch owes and what it has called, by the callbacks E holds.
Owing(m, start, E) ==
  /\ \A i, j \in 1 .. Len(m) : E[m[i]].callback = E[m[j]].callback => i = j
  /\ \A i \in 1 .. Len(m) : E[m[i]].callback \in start
  /\ \A c \in start : \E i \in 1 .. Len(m) : E[m[i]].callback = c
Paid(m, next, calls_, E) ==
  /\ \A i \in 1 .. next - 1 : calls_[E[m[i]].callback] = 1
  /\ \A c \in Callback : calls_[c] # 0 =>
       calls_[c] = 1 /\ \E i \in 1 .. next - 1 : E[m[i]].callback = c
FrameRight(fr, E) ==
  /\ fr.next \in 1 .. Len(fr.matched) + 1
  /\ fr.running => fr.next # 1
  /\ ~fr.reused => Owing(fr.matched, fr.atStart, E) /\ Paid(fr.matched, fr.next, fr.calls, E)

HookInv ==
  /\ entries \in [Slot -> HookEntry] /\ frames \in Seq(HookFrame)
  /\ \A s, t \in Slot :
       /\ entries[s].active /\ entries[t].active
       /\ entries[s].event = entries[t].event /\ entries[s].callback = entries[t].callback
       => s = t
  /\ \A f \in 1 .. Len(frames) : FrameRight(frames[f], entries)
  /\ \A f \in 1 .. Len(frames) - 1 : frames[f].running
  /\ SnapshotSorted

(* fw_hook_table_init. *)
LEMMA HookInitInv == HookInit => HookInv
  BY HookAssumption, EmptySeq DEF HookInit, HookInv, HookEntry, SnapshotSorted, Top

(* What a dispatch owes depends only on the callbacks its slots hold. *)
LEMMA FrameKept ==
  ASSUME NEW fr \in HookFrame, NEW E, NEW F, FrameRight(fr, E),
         ~fr.reused => \A i \in 1 .. Len(fr.matched) : E[fr.matched[i]].callback = F[fr.matched[i]].callback
  PROVE  FrameRight(fr, F)
<1>1. fr.next \in Nat \ {0} /\ Len(fr.matched) \in Nat
  BY DEF HookFrame
<1>2. fr.next - 1 <= Len(fr.matched)
  BY <1>1 DEF FrameRight
<1>3. \A i \in 1 .. fr.next - 1 : i \in 1 .. Len(fr.matched)
  BY <1>1, <1>2
<1>4. ASSUME ~fr.reused PROVE Owing(fr.matched, fr.atStart, F)
  BY <1>4, SMTT(30) DEF FrameRight, Owing
<1>5. ASSUME ~fr.reused PROVE Paid(fr.matched, fr.next, fr.calls, F)
  BY <1>3, <1>5, SMTT(30) DEF FrameRight, Paid
<1> QED
  BY <1>4, <1>5 DEF FrameRight

(* No registration in a callback, no nested dispatch and no return         *)
(* changes what a dispatch owes, unless a slot it matched is reused.       *)
LEMMA HookNextInv == HookInv /\ [HookNext]_hookVars => HookInv'
<1> SUFFICES ASSUME HookInv, [HookNext]_hookVars PROVE HookInv'
  OBVIOUS
<1>0. /\ entries \in [Slot -> HookEntry] /\ frames \in Seq(HookFrame) /\ Len(frames) \in Nat
      /\ \A f \in 1 .. Len(frames) : frames[f] \in HookFrame /\ FrameRight(frames[f], entries)
      /\ \A f \in 1 .. Len(frames) - 1 : frames[f].running
      /\ \A s, t \in Slot :
           /\ entries[s].active /\ entries[t].active
           /\ entries[s].event = entries[t].event /\ entries[s].callback = entries[t].callback
           => s = t
  BY DEF HookInv
<1>t. frames # <<>> => Top \in 1 .. Len(frames)
  BY <1>0, EmptySeq DEF Top
<1>s. Turn /\ frames # <<>> => frames[Top].next # 1
  BY <1>0, <1>t DEF Turn, FrameRight
<1>m. \A f \in 1 .. Len(frames) : \A i \in 1 .. Len(frames[f].matched) : frames[f].matched[i] \in Slot
  BY <1>0 DEF HookFrame
<1>1. ASSUME NEW e \in Event, NEW c \in Callback, NEW p \in Priority, Reprioritise(e, c, p)
      PROVE  HookInv'
  <2>1. PICK s \in Slot : entries' = [entries EXCEPT ![s].priority = p]
    BY <1>1 DEF Reprioritise, Known
  <2>2. frames' = frames /\ Turn
    BY <1>1 DEF Reprioritise
  <2>3. entries' \in [Slot -> HookEntry]
    BY <1>0, <2>1 DEF HookEntry
  <2>4. \A t \in Slot : /\ entries'[t].callback = entries[t].callback
                        /\ entries'[t].event = entries[t].event /\ (entries'[t].active <=> entries[t].active)
    BY <1>0, <2>1 DEF HookEntry
  <2>5. \A f \in 1 .. Len(frames) : FrameRight(frames[f], entries')
    <3> TAKE f \in 1 .. Len(frames)
    <3>1. frames[f] \in HookFrame /\ FrameRight(frames[f], entries)
      BY <1>0
    <3>2. \A i \in 1 .. Len(frames[f].matched) :
            entries[frames[f].matched[i]].callback = entries'[frames[f].matched[i]].callback
      BY <1>m, <2>4
    <3> QED
      BY <3>1, <3>2, FrameKept
  <2>6. SnapshotSorted'
    BY <1>0, <1>s, <2>2, EmptySeq DEF SnapshotSorted, Top
  <2> QED
    BY <1>0, <2>2, <2>3, <2>4, <2>5, <2>6 DEF HookInv
<1>2. ASSUME NEW e \in Event, NEW c \in Callback, NEW p \in Priority, Register(e, c, p)
      PROVE  HookInv'
  <2> DEFINE x == [event |-> e, callback |-> c, priority |-> p, active |-> TRUE]
  <2>1. PICK s \in FreeSlots : entries' = [entries EXCEPT ![s] = x] /\ frames' = Reuse(s)
    BY <1>2 DEF Register
  <2>2. Turn /\ Known(e, c) = {}
    BY <1>2 DEF Register
  <2>3. s \in Slot /\ ~entries[s].active
    BY DEF FreeSlots
  <2>4. x \in HookEntry
    BY DEF HookEntry
  <2>5. entries' \in [Slot -> HookEntry]
    BY <1>0, <2>1, <2>4
  <2>6. \A t \in Slot : ~(entries[t].active /\ entries[t].event = e /\ entries[t].callback = c)
    BY <2>2 DEF Known, IsFor
  <2>7. \A t, u \in Slot :
           /\ entries'[t].active /\ entries'[u].active
           /\ entries'[t].event = entries'[u].event /\ entries'[t].callback = entries'[u].callback
           => t = u
    BY <1>0, <2>1, <2>3, <2>6
  <2> DEFINE Hit(f) == \E k \in 1 .. Len(frames[f].matched) : frames[f].matched[k] = s
             fr(f) == [frames[f] EXCEPT !.reused = @ \/ Hit(f)]
  <2>8. frames' = [f \in 1 .. Len(frames) |-> fr(f)]
    BY <2>1 DEF Reuse, Top
  <2>9. ASSUME NEW f \in 1 .. Len(frames)
        PROVE  /\ fr(f) \in HookFrame /\ fr(f).matched = frames[f].matched /\ fr(f).next = frames[f].next
               /\ (fr(f).running <=> frames[f].running)
               /\ fr(f).atStart = frames[f].atStart /\ fr(f).calls = frames[f].calls
               /\ (fr(f).reused <=> frames[f].reused \/ Hit(f))
    BY <1>0 DEF HookFrame
  <2> HIDE DEF fr
  <2>10. frames' \in Seq(HookFrame) /\ Len(frames') = Len(frames)
         /\ \A f \in 1 .. Len(frames) : frames'[f] = fr(f)
    BY <1>0, <2>8, <2>9
  <2>11. ASSUME NEW f \in 1 .. Len(frames) PROVE FrameRight(fr(f), entries')
    <3>1. FrameRight(fr(f), entries)
      BY <1>0, <2>9 DEF FrameRight
    <3>2. ~fr(f).reused => \A i \in 1 .. Len(fr(f).matched) :
            entries[fr(f).matched[i]].callback = entries'[fr(f).matched[i]].callback
      BY <1>0, <1>m, <2>1, <2>9
    <3> QED
      BY <2>9, <3>1, <3>2, FrameKept
  <2>12. SnapshotSorted'
    BY <1>0, <1>s, <1>t, <2>2, <2>9, <2>10, EmptySeq DEF SnapshotSorted, Top
  <2> QED
    BY <1>0, <2>5, <2>7, <2>9, <2>10, <2>11, <2>12 DEF HookInv
<1>3. ASSUME NEW e \in Event, NEW c \in Callback, Unregister(e, c) PROVE HookInv'
  <2>1. PICK s \in Slot : entries' = [entries EXCEPT ![s].active = FALSE]
    BY <1>3 DEF Unregister
  <2>2. frames' = frames /\ Turn
    BY <1>3 DEF Unregister
  <2>3. entries' \in [Slot -> HookEntry]
    BY <1>0, <2>1 DEF HookEntry
  <2>4. \A t \in Slot : /\ entries'[t].callback = entries[t].callback
                        /\ entries'[t].event = entries[t].event /\ (entries'[t].active => entries[t].active)
    BY <1>0, <2>1 DEF HookEntry
  <2>5. \A f \in 1 .. Len(frames) : FrameRight(frames[f], entries')
    <3> TAKE f \in 1 .. Len(frames)
    <3>1. frames[f] \in HookFrame /\ FrameRight(frames[f], entries)
      BY <1>0
    <3>2. \A i \in 1 .. Len(frames[f].matched) :
            entries[frames[f].matched[i]].callback = entries'[frames[f].matched[i]].callback
      BY <1>m, <2>4
    <3> QED
      BY <3>1, <3>2, FrameKept
  <2>6. SnapshotSorted'
    BY <1>0, <1>s, <2>2, EmptySeq DEF SnapshotSorted, Top
  <2> QED
    BY <1>0, <2>2, <2>3, <2>4, <2>5, <2>6 DEF HookInv
<1>4. ASSUME NEW e \in Event, Dispatch(e) PROVE HookInv'
  <2> DEFINE fr == [event |-> e, matched |-> Matched(e), next |-> 1, running |-> FALSE,
                    atStart |-> RegisteredFor(e), calls |-> [c \in Callback |-> 0], reused |-> FALSE]
             m == Matched(e)
  <2>1. Turn /\ entries' = entries /\ frames' = Append(frames, fr)
    BY <1>4 DEF Dispatch
  <2>2. /\ Lists(m, e, MaxEntries)
        /\ \A i, j \in 1 .. Len(m) : i < j => entries[m[i]].priority <= entries[m[j]].priority
    BY <1>0, MatchedRight
  <2> HIDE DEF m
  <2>3. /\ m \in Seq(Slot) /\ Len(m) \in Nat /\ \A i \in 1 .. Len(m) : m[i] \in Slot /\ Matches(m[i], e)
        /\ \A i, j \in 1 .. Len(m) : m[i] = m[j] => i = j
        /\ \A s \in Slot : Matches(s, e) => \E i \in 1 .. Len(m) : m[i] = s
    <3>1. m \in Seq(Slot) /\ Len(m) \in Nat /\ \A i \in 1 .. Len(m) : m[i] \in Slot
      BY <2>2 DEF Lists
    <3> QED
      BY <2>2, <3>1 DEF Lists, Slot
  <2>4. RegisteredFor(e) \in SUBSET Callback /\ [c \in Callback |-> 0] \in [Callback -> Nat]
    BY DEF RegisteredFor
  <2>5. /\ fr.matched = m /\ fr.next = 1 /\ ~fr.running /\ fr.atStart = RegisteredFor(e)
        /\ fr.calls = [c \in Callback |-> 0]
    BY DEF m
  <2>6. fr \in HookFrame
    BY <2>3, <2>4 DEF HookFrame, m
  <2> HIDE DEF fr
  <2>7. Owing(m, RegisteredFor(e), entries)
    <3>1. \A s \in Slot : Matches(s, e) => entries[s].callback \in RegisteredFor(e)
      BY <1>0 DEF Matches, RegisteredFor, IsFor, HookEntry
    <3>2. \A c \in RegisteredFor(e) : \E s \in Slot : Matches(s, e) /\ entries[s].callback = c
      BY DEF Matches, RegisteredFor, IsFor
    <3>3. \A i, j \in 1 .. Len(m) : entries[m[i]].callback = entries[m[j]].callback => m[i] = m[j]
      BY <1>0, <2>3 DEF Matches
    <3> QED
      BY <2>3, <3>1, <3>2, <3>3 DEF Owing
  <2>8. Paid(m, 1, [c \in Callback |-> 0], entries)
    BY DEF Paid
  <2>9. FrameRight(fr, entries)
    BY <2>3, <2>5, <2>7, <2>8 DEF FrameRight
  <2>10. /\ frames' \in Seq(HookFrame) /\ Len(frames') = Len(frames) + 1
         /\ frames'[Len(frames) + 1] = fr /\ \A f \in 1 .. Len(frames) : frames'[f] = frames[f]
    BY <1>0, <2>1, <2>6, TopOfPushed
  <2>11. \A f \in 1 .. Len(frames') - 1 : frames'[f].running
    BY <1>0, <1>t, <2>1, <2>10, EmptySeq DEF Turn, Top
  <2>12. SnapshotSorted'
    BY <1>0, <2>1, <2>2, <2>5, <2>10 DEF SnapshotSorted, Top
  <2>13. \A f \in 1 .. Len(frames') : FrameRight(frames'[f], entries')
    BY <1>0, <2>1, <2>9, <2>10
  <2> QED
    BY <1>0, <2>1, <2>10, <2>11, <2>12, <2>13 DEF HookInv
<1>5. CASE Call
  <2> DEFINE old == frames[Top]
             k == old.next
             c == entries[old.matched[k]].callback
             paid == [old.calls EXCEPT ![c] = @ + 1]
             fr == [old EXCEPT !.calls = paid, !.next = k + 1, !.running = TRUE]
  <2>1. frames # <<>> /\ ~old.running /\ k <= Len(old.matched) /\ entries' = entries
    BY <1>5 DEF Call, Turn
  <2>2. Top \in 1 .. Len(frames) /\ Top = Len(frames) /\ old \in HookFrame /\ FrameRight(old, entries)
    BY <1>0, <1>t, <2>1 DEF Top
  <2>3. /\ k \in Nat \ {0} /\ k \in 1 .. Len(old.matched) /\ old.matched \in Seq(Slot)
        /\ old.calls \in [Callback -> Nat] /\ Len(old.matched) \in Nat
    BY <2>1, <2>2 DEF HookFrame
  <2>4. c \in Callback
    BY <1>0, <2>3 DEF HookEntry
  <2>5. frames' = [frames EXCEPT ![Top] = fr]
    BY <1>0, <1>5, <2>2 DEF Call, Called, HookFrame
  <2>6. paid \in [Callback -> Nat]
    BY <2>3, <2>4, SMTT(30)
  <2> HIDE DEF paid
  <2>7. /\ fr \in HookFrame /\ fr.matched = old.matched /\ fr.next = k + 1
        /\ fr.calls = paid /\ fr.atStart = old.atStart /\ (fr.reused <=> old.reused)
    <3>1. k + 1 \in Nat \ {0}
      BY <2>3
    <3> HIDE DEF k
    <3>2. fr \in HookFrame
      BY <2>2, <2>6, <3>1 DEF HookFrame
    <3>3. fr.matched = old.matched /\ fr.next = k + 1 /\ fr.atStart = old.atStart
      BY <2>2 DEF HookFrame
    <3>4. fr.calls = paid
      BY <2>2 DEF HookFrame
    <3>5. fr.reused <=> old.reused
      BY <2>2 DEF HookFrame
    <3> QED
      BY <3>2, <3>3, <3>4, <3>5
  <2> HIDE DEF fr, k
  <2>8. ASSUME ~old.reused PROVE Paid(old.matched, k + 1, paid, entries)
    <3>1. Owing(old.matched, old.atStart, entries) /\ Paid(old.matched, k, old.calls, entries)
      BY <2>2, <2>8 DEF FrameRight, k
    <3> DEFINE m == old.matched
    <3>2. \A i \in 1 .. k - 1 : i \in 1 .. Len(m) /\ i # k
      BY <2>3
    <3>3. \A i \in 1 .. k - 1 : entries[m[i]].callback # c
      BY <2>3, <3>1, <3>2 DEF Owing, k
    <3>4. old.calls[c] = 0
      BY <2>4, <3>1, <3>3 DEF Paid
    <3>5. paid[c] = 1 /\ \A d \in Callback : d # c => paid[d] = old.calls[d]
      BY <2>3, <2>4, <3>4 DEF paid
    <3>6. \A i \in 1 .. k : i = k \/ i \in 1 .. k - 1
      BY <2>3
    <3>7. \A i \in 1 .. Len(m) : entries[m[i]].callback \in Callback
      BY <1>0, <2>3 DEF HookEntry
    <3>8. \A i \in 1 .. k : paid[entries[m[i]].callback] = 1
      BY <3>1, <3>2, <3>3, <3>5, <3>6, <3>7 DEF Paid, k
    <3>9. \A d \in Callback : paid[d] # 0 =>
            paid[d] = 1 /\ \E i \in 1 .. k : entries[m[i]].callback = d
      <4> SUFFICES ASSUME NEW d \in Callback, paid[d] # 0
                   PROVE  paid[d] = 1 /\ \E i \in 1 .. k : entries[m[i]].callback = d
        OBVIOUS
      <4>1. CASE d = c
        BY <2>3, <3>5, <4>1, SMTT(60) DEF k
      <4>2. CASE d # c
        <5>1. old.calls[d] = 1 /\ \E i \in 1 .. k - 1 : entries[m[i]].callback = d
          BY <3>1, <3>5, <4>2 DEF Paid
        <5>2. \A i \in 1 .. k - 1 : i \in 1 .. k
          BY <2>3
        <5> QED
          BY <3>5, <4>2, <5>1, <5>2
      <4> QED
        BY <4>1, <4>2
    <3>10. 1 .. (k + 1) - 1 = 1 .. k
      BY <2>3 DEF k
    <3> HIDE DEF m, c
    <3>11. Paid(m, k + 1, paid, entries)
      <4>1. \A i \in 1 .. (k + 1) - 1 : paid[entries[m[i]].callback] = 1
        BY <3>8, <3>10, Zenon
      <4>2. \A d \in Callback : paid[d] # 0 =>
              paid[d] = 1 /\ \E i \in 1 .. (k + 1) - 1 : entries[m[i]].callback = d
        BY <3>9, <3>10, Zenon
      <4> QED
        BY <4>1, <4>2, Zenon DEF Paid
    <3> QED
      BY <3>11 DEF m
  <2>9. FrameRight(fr, entries)
    BY <2>2, <2>3, <2>7, <2>8 DEF FrameRight
  <2>10. /\ frames' \in Seq(HookFrame) /\ Len(frames') = Len(frames)
         /\ frames'[Top] = fr /\ \A f \in 1 .. Len(frames) - 1 : frames'[f] = frames[f]
    BY <1>0, <2>2, <2>5, <2>7
  <2>11. SnapshotSorted'
    BY <2>2, <2>3, <2>7, <2>10 DEF SnapshotSorted, Top
  <2>12. \A f \in 1 .. Len(frames') : FrameRight(frames'[f], entries')
    BY <1>0, <2>1, <2>2, <2>9, <2>10
  <2> QED
    BY <1>0, <2>1, <2>10, <2>11, <2>12 DEF HookInv
<1>6. CASE Continue
  <2> DEFINE old == frames[Top]
             fr == [old EXCEPT !.running = FALSE]
  <2>1. Top > 0 /\ old.running /\ entries' = entries /\ frames' = [frames EXCEPT ![Top] = fr]
    BY <1>6 DEF Continue
  <2>2. Top \in 1 .. Len(frames) /\ Top = Len(frames) /\ old \in HookFrame /\ FrameRight(old, entries)
    BY <1>0, <2>1 DEF Top
  <2>3. /\ fr \in HookFrame /\ fr.matched = old.matched /\ fr.next = old.next /\ ~fr.running
        /\ fr.calls = old.calls /\ fr.atStart = old.atStart /\ (fr.reused <=> old.reused)
    BY <2>2 DEF HookFrame
  <2>4. fr.next # 1
    BY <2>1, <2>2, <2>3 DEF FrameRight
  <2> HIDE DEF fr
  <2>5. FrameRight(fr, entries)
    BY <2>2, <2>3 DEF FrameRight
  <2>6. /\ frames' \in Seq(HookFrame) /\ Len(frames') = Len(frames)
        /\ frames'[Top] = fr /\ \A f \in 1 .. Len(frames) - 1 : frames'[f] = frames[f]
    BY <1>0, <2>1, <2>2, <2>3
  <2>7. SnapshotSorted'
    BY <2>2, <2>4, <2>6 DEF SnapshotSorted, Top
  <2>8. \A f \in 1 .. Len(frames') : FrameRight(frames'[f], entries')
    BY <1>0, <2>1, <2>2, <2>5, <2>6
  <2> QED
    BY <1>0, <2>1, <2>6, <2>7, <2>8 DEF HookInv
<1>7. CASE Return
  <2>1. frames # <<>> /\ entries' = entries /\ frames' = SubSeq(frames, 1, Top - 1)
    BY <1>7, EmptySeq DEF Return, Top
  <2>2. /\ frames' \in Seq(HookFrame) /\ Len(frames') = Len(frames) - 1
        /\ \A f \in 1 .. Len(frames) - 1 : frames'[f] = frames[f]
    BY <1>0, <2>1, RestOfPopped DEF Top
  <2>3. SnapshotSorted'
    BY <1>0, <2>1, <2>2, SMTT(30) DEF SnapshotSorted, Top, FrameRight
  <2> QED
    BY <1>0, <2>1, <2>2, <2>3, SMTT(30) DEF HookInv
<1>8. CASE UNCHANGED hookVars
  BY <1>8 DEF hookVars, HookInv, SnapshotSorted, Top
<1> QED
  BY <1>1, <1>2, <1>3, <1>4, <1>5, <1>6, <1>7, <1>8 DEF HookNext

(* For any table, events and callbacks, a dispatch walks its slots by      *)
(* priority; unless one of them was reused, it calls no hook twice and     *)
(* none but those registered at its start, and each of these once it has   *)
(* come to its end (hook.c:77-126).                                        *)
THEOREM HooksStayOnceInOrder == HookSpec => []HooksOnceInOrder
<1>1. HookInv => HooksOnceInOrder
  <2> SUFFICES ASSUME HookInv PROVE EachHookOnce
    BY DEF HookInv, HooksOnceInOrder
  <2> SUFFICES ASSUME NEW f \in 1 .. Top, ~frames[f].reused, NEW c \in Callback
               PROVE  LET due == IF c \in frames[f].atStart THEN 1 ELSE 0 IN
                      /\ frames[f].calls[c] <= due
                      /\ frames[f].next > Len(frames[f].matched) => frames[f].calls[c] = due
    BY DEF EachHookOnce
  <2> DEFINE fr == frames[f]
  <2>1. fr \in HookFrame /\ FrameRight(fr, entries)
    BY DEF HookInv, Top
  <2>r. ~fr.reused
    OBVIOUS
  <2> SUFFICES /\ fr.calls[c] <= IF c \in fr.atStart THEN 1 ELSE 0
               /\ fr.next > Len(fr.matched) => fr.calls[c] = IF c \in fr.atStart THEN 1 ELSE 0
    OBVIOUS
  <2> HIDE DEF fr
  <2>2. Owing(fr.matched, fr.atStart, entries) /\ Paid(fr.matched, fr.next, fr.calls, entries)
    BY <2>1, <2>r DEF FrameRight
  <2>3. fr.next \in 1 .. Len(fr.matched) + 1 /\ Len(fr.matched) \in Nat
    BY <2>1 DEF HookFrame, FrameRight
  <2>4. fr.calls[c] \in Nat
    BY <2>1 DEF HookFrame
  <2>5. \A i \in 1 .. fr.next - 1 : i \in 1 .. Len(fr.matched)
    BY <2>3
  <2>6. fr.calls[c] # 0 => fr.calls[c] = 1 /\ c \in fr.atStart
    BY <2>2, <2>5, SMTT(30) DEF Owing, Paid
  <2>7. fr.next > Len(fr.matched) /\ c \in fr.atStart => fr.calls[c] = 1
    <3>1. fr.next > Len(fr.matched) => \A i \in 1 .. Len(fr.matched) : i \in 1 .. fr.next - 1
      BY <2>3
    <3> SUFFICES ASSUME fr.next > Len(fr.matched), c \in fr.atStart PROVE fr.calls[c] = 1
      OBVIOUS
    <3>2. PICK i \in 1 .. Len(fr.matched) : entries[fr.matched[i]].callback = c
      BY <2>2, Zenon DEF Owing
    <3>3. i \in 1 .. fr.next - 1
      BY <3>1
    <3>4. fr.calls[entries[fr.matched[i]].callback] = 1
      BY <2>2, <3>3, Zenon DEF Paid
    <3> QED
      BY <3>2, <3>4, Zenon
  <2> QED
    BY <2>4, <2>6, <2>7
<1> QED
  BY <1>1, HookInitInv, HookNextInv, PTL DEF HookSpec
=============================================================================
