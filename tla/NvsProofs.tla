------------------------------ MODULE NvsProofs ------------------------------
(***************************************************************************)
(* What the parameter store of Nvs keeps over compactions, power cuts and  *)
(* driver errors, for every sector size, key and value.                    *)
(***************************************************************************)
EXTENDS Nvs, FiniteSetTheorems, SequenceTheorems, WellFoundedInduction, TLAPS

(* Where power fails and the driver reports errors so that the promises      *)
(* hold: nowhere in the middle of programming, not while nvs_compact copies, *)
(* and never in the erase of a bank that was, or is to be, given up.         *)
Tame ==
  /\ TearAt = {} /\ "copy" \notin CutAt
  /\ FailAt \cap {"drop", "copy", "compact_source"} = {}

(* A record of each key, the largest of big words, leaves room for a         *)
(* tombstone.                                                                *)
RoomForAll(big) ==
  /\ IsFiniteSet(Key) /\ \A v \in Value : Size[v] + 2 <= big
  /\ big * Cardinality(Key) + 2 <= Words

(* Bank b's log is sound when all up to the end of the scan is whole records *)
(* and all behind it is blank, but for the other bank's header.              *)
RecordAt(b, o, k, v) == \A i \in 1 .. Total(k, v) : cell[b][o + i] = Record(k, v)[i]
BlankUpTo(b, n) == \A i \in Index : i <= n => cell[b][i] = Blank
LogSound(b, end) ==
  /\ end \in 0 .. Words /\ end \in Boundaries(b) /\ Boundaries(b) \subseteq 0 .. end
  /\ \A o \in Boundaries(b) \ {end} :
       \E k \in Key, v \in Value \cup {Gone} : RecordAt(b, o, k, v)
  /\ \A i \in Index :
       i > end => cell[b][i] = Blank \/ (i > Words /\ cell[b][i] = Other)

(* In any bank, sound or not, no record leaves the sector. *)
HeadsInside(b) ==
  \A o \in 0 .. Words + 1 : IsHead(b, o) => TotalAt(b, o) \in 2 .. Words + 2 - o
CellsSound ==
  /\ cell = [b \in Bank |-> [i \in Index |-> cell[b][i]]]
  /\ \A b \in Bank :
       HeadsInside(b) /\ \A i \in Index : i > Words => cell[b][i] \in {Blank, Other}
FlashSound ==
  /\ header \in [Bank -> {Invalid} \cup 0 .. SeqRange - 1]
  /\ CellsSound
  /\ \A b \in Bank : header[b] # Invalid => LogSound(b, ScanEnd(b))

(* Either bank, if valid, answers right; two of them answer the same. *)
Holds(b, k) == Lookup(b, ScanEnd(b), k)
BanksHold ==
  /\ \A b \in Bank, k \in Key : header[b] # Invalid => Holds(b, k) \in may[k]
  /\ \A k \in Key : header[0] # Invalid /\ header[1] # Invalid => Holds(0, k) = Holds(1, k)

(* The compaction of bank a's log up to end stands at from: the keys whose  *)
(* live record lies before from are copied, into a log that ends at to.     *)
LiveIn(a, end, o) ==
  StatusValid(a, o) /\ \A p \in Records(a, end) : p > o => KeyAt(a, p) # KeyAt(a, o)
CopiedKeys(a, end, from) ==
  {k \in Key : \E o \in Records(a, end) : o < from /\ LiveIn(a, end, o) /\ KeyAt(a, o) = k}
CopyHolds(a, end, from, to, big) ==
  /\ from \in Boundaries(a)
  /\ \A k \in Key :
       /\ Lookup(a, end, k) \in may[k]
       /\ Lookup(1 - a, to, k) = IF k \in CopiedKeys(a, end, from) THEN Lookup(a, end, k) ELSE Gone
  /\ to <= big * Cardinality(CopiedKeys(a, end, from))

(* The steps of a call, of a format, and what holds at each while bank a is *)
(* the active one.                                                          *)
InCall == pc \in {"compact_erase", "compact_header", "copy", "compact_source", "append"}
InFormat == pc \in {"format0", "format1", "format_header"}
CallHolds(a, big) ==
  /\ pc = "drop" \/ pc = "idle" \/ InCall =>
       offset = ScanEnd(a) /\ sequence = header[a] /\ header[a] # Invalid
  /\ InCall => job \in Key \X (Value \cup {Gone})
  /\ pc \in {"idle", "compact_erase", "compact_header", "append"} => header[1 - a] = Invalid
  /\ pc = "compact_header" => BlankUpTo(1 - a, Words)
  /\ pc \in {"copy", "compact_source"} => header[1 - a] = NextSequence /\ dst = ScanEnd(1 - a)
  /\ pc = "copy" =>
       /\ src \in 0 .. Words
       /\ \A end, from, to \in 0 .. Words :
            end = offset /\ from = src /\ to = dst => CopyHolds(a, end, from, to, big)
  /\ pc # "copy" => BanksHold
  /\ pc = "compact_source" => dst <= big * Cardinality(Key)
  /\ pc = "append" =>
       \A k \in Key, v \in Value \cup {Gone} : job = <<k, v>> => offset + Total(k, v) <= Words
FormatHolds(a) ==
  /\ header = [b \in Bank |-> Invalid] \/ InFormat => \A k \in Key : Gone \in may[k]
  /\ pc \in {"format1", "format_header"} => header[0] = Invalid /\ BlankUpTo(0, Words)
  /\ pc = "format_header" => header[1] = Invalid /\ BlankUpTo(0, Words + 2)
  /\ InFormat =>
       /\ header[1 - a] = Invalid /\ job \in {<<>>, Formatting}
       /\ header[a] = Invalid => offset = 0 \/ BlankUpTo(a, Words)
       /\ header[a] # Invalid => offset = ScanEnd(a) /\ job = Formatting
RestHolds(a) ==
  /\ pc = "off" => a = 0 /\ offset = 0
  /\ pc \in {"off", "drop", "idle"} => job = <<>>

NvsInv(big) ==
  /\ active \in Bank /\ offset \in 0 .. Words /\ pc \in Pc /\ may \in [Key -> SUBSET Answer]
  /\ FlashSound
  /\ \A a \in Bank : a = active => CallHolds(a, big) /\ FormatHolds(a) /\ RestHolds(a)
-----------------------------------------------------------------------------

(* Induction, as the least and the greatest element of a set of numbers. *)
LEMMA Least ==
  ASSUME NEW T \in SUBSET Nat, T # {}
  PROVE  \E m \in T : \A k \in T : m <= k
<1>1. PICK m \in T : \A k \in T : ~ (<<k, m>> \in OpToRel(<, Nat))
  <2>1. IsWellFoundedOn(OpToRel(<, Nat), Nat)
    BY NatLessThanWellFounded
  <2> HIDE DEF OpToRel
  <2> QED
    BY <2>1, WFMin, Zenon
<1>2. \A k \in T : k \in Nat /\ m \in Nat /\ ~(k < m)
  BY <1>1 DEF OpToRel
<1> QED
  BY <1>2

LEMMA Greatest ==
  ASSUME NEW n \in Nat, NEW T \in SUBSET (0 .. n), T # {}
  PROVE  \E m \in T : \A k \in T : m >= k
<1> DEFINE U == {n - t : t \in T}
<1>1. PICK u \in U : \A k \in U : u <= k
  <2>1. \A t \in T : t \in 0 .. n
    OBVIOUS
  <2>2. \A t \in T : n - t \in Nat
    BY <2>1
  <2>3. U # {} /\ U \in SUBSET Nat
    BY <2>2
  <2> HIDE DEF U
  <2> QED
    BY <2>3, Least
<1>2. PICK m \in T : u = n - m
  BY <1>1
<1>3. \A k \in T : n - k \in U /\ k \in 0 .. n
  OBVIOUS
<1> HIDE DEF U
<1>4. \A k \in T : n - m <= n - k
  BY <1>1, <1>2, <1>3
<1> QED
  BY <1>2, <1>3, <1>4

(* Max is the greatest element. *)
LEMMA MaxIs ==
  ASSUME NEW T \in SUBSET Nat, NEW m \in T, \A k \in T : k <= m
  PROVE  Max(T) = m
<1>1. \A x \in T : (\A y \in T : x >= y) => x = m
  OBVIOUS
<1>2. \A y \in T : m >= y
  OBVIOUS
<1> QED
  BY <1>1, <1>2 DEF Max
-----------------------------------------------------------------------------
(* Records. *)

(* A record is a head with its length, its status, and its payload. *)
LEMMA RecordWords ==
  ASSUME NEW k \in Key, NEW v \in Value \cup {Gone}
  PROVE  /\ Total(k, v) \in Nat /\ Total(k, v) >= 2
         /\ Record(k, v) = [i \in 1 .. Total(k, v) |-> Record(k, v)[i]]
         /\ Record(k, v)[1] = <<"head", k, Total(k, v) - 2>>
         /\ Record(k, v)[2] = <<"meta", k, v>>
         /\ \A i \in 3 .. Total(k, v) : Record(k, v)[i] = <<"data", v, i - 2>>
         /\ v = Gone => Total(k, v) = 2
         /\ v # Gone => Total(k, v) = Size[v] + 2
<1>1. CASE v = Gone
  BY <1>1 DEF Record, Total
<1>2. CASE v # Gone
  <2> DEFINE front == << <<"head", k, Size[v]>>, <<"meta", k, v>> >>
             data == [i \in 1 .. Size[v] |-> <<"data", v, i>>]
  <2>1. Size[v] \in Nat
    BY <1>2, NvsAssumption
  <2>2. Len(front) = 2 /\ Len(data) = Size[v]
    BY <2>1
  <2>3. Record(k, v) = front \o data
    BY <1>2 DEF Record
  <2>4. front \o data = [i \in 1 .. 2 + Size[v] |-> IF i <= 2 THEN front[i] ELSE data[i - 2]]
    BY <2>1, <2>2
  <2>5. front[1] = <<"head", k, Size[v]>> /\ front[2] = <<"meta", k, v>>
    OBVIOUS
  <2>6. \A i \in 1 .. Size[v] : data[i] = <<"data", v, i>>
    OBVIOUS
  <2> HIDE DEF front, data
  <2>7. Total(k, v) = 2 + Size[v]
    BY <2>1, <2>3, <2>4 DEF Total
  <2>8. Record(k, v) = [i \in 1 .. Total(k, v) |-> IF i <= 2 THEN front[i] ELSE data[i - 2]]
    BY <2>3, <2>4, <2>7
  <2>9. /\ Total(k, v) \in Nat /\ 1 \in 1 .. Total(k, v) /\ 2 \in 1 .. Total(k, v)
        /\ Total(k, v) - 2 = Size[v]
    BY <2>1, <2>7
  <2>10. Record(k, v)[1] = front[1] /\ Record(k, v)[2] = front[2]
    BY <2>8, <2>9
  <2>11. ASSUME NEW i \in 3 .. Total(k, v) PROVE Record(k, v)[i] = <<"data", v, i - 2>>
    <3>1. i \in 1 .. Total(k, v) /\ ~(i <= 2) /\ i - 2 \in 1 .. Size[v]
      BY <2>9
    <3> QED
      BY <2>6, <2>8, <3>1
  <2>12. Record(k, v) = [i \in 1 .. Total(k, v) |-> Record(k, v)[i]]
    BY <2>8
  <2>13. Record(k, v)[1] = <<"head", k, Total(k, v) - 2>> /\ Record(k, v)[2] = <<"meta", k, v>>
    BY <2>5, <2>9, <2>10
  <2>14. Total(k, v) >= 2 /\ Total(k, v) = Size[v] + 2
    BY <2>1, <2>7
  <2> QED
    BY <1>2, <2>9, <2>11, <2>12, <2>13, <2>14, Zenon
<1> QED
  BY <1>1, <1>2
-----------------------------------------------------------------------------
(* Scanning a log.                                                          *)

Offset == 0 .. Words + 2
Next0(b, o) == o + TotalAt(b, o)

(* B is what the scan comes to: from 0 on, each record's end. *)
Scanned(b, B) ==
  /\ B \subseteq Offset /\ 0 \in B
  /\ \A o \in B : IsHead(b, o) => Next0(b, o) \in B
  /\ \A p \in B \ {0} : \E o \in B : IsHead(b, o) /\ Next0(b, o) = p

ScanFrom(b, f) ==
  f = [o \in Offset |-> {o} \cup IF IsHead(b, o) THEN f[Next0(b, o)] ELSE {}]

LEMMA BoundariesDef ==
  ASSUME NEW b \in Bank, \E f : ScanFrom(b, f)
  PROVE  \E f : ScanFrom(b, f) /\ Boundaries(b) = f[0]
<1> DEFINE g == CHOOSE f : ScanFrom(b, f)
<1>1. ScanFrom(b, g)
  OBVIOUS
<1>2. Boundaries(b) = g[0]
  BY DEF Boundaries, ScanFrom, Offset, Next0
<1> QED
  BY <1>1, <1>2

(* A step of the scan moves forward and stays inside. *)
LEMMA NextInside ==
  ASSUME NEW b \in Bank, HeadsInside(b), NEW o \in Offset, IsHead(b, o)
  PROVE  Next0(b, o) \in Offset /\ Next0(b, o) >= o + 2 /\ o \in 0 .. Words
<1>1. o + 1 \in 1 .. Words + 2
  BY DEF IsHead, Index
<1>2. o \in 0 .. Words + 1 /\ Words \in Nat
  BY <1>1, NvsAssumption DEF Offset
<1>3. TotalAt(b, o) \in 2 .. Words + 2 - o
  BY <1>2 DEF HeadsInside
<1> QED
  BY <1>2, <1>3 DEF Next0, Offset

(* The function of the scan is defined: it is what every set contains that *)
(* is closed under its steps.                                               *)
LEMMA ScanExists ==
  ASSUME NEW b \in Bank, HeadsInside(b)
  PROVE  \E f : ScanFrom(b, f)
<1> DEFINE Closed(T) == \A o \in T : IsHead(b, o) => Next0(b, o) \in T
           Reach(o) == {p \in Offset : \A T \in SUBSET Offset : o \in T /\ Closed(T) => p \in T}
<1>1. \A o \in Offset : IsHead(b, o) => Next0(b, o) \in Offset
  BY NextInside
<1>2. ASSUME NEW o \in Offset PROVE o \in Reach(o)
  OBVIOUS
<1>3. ASSUME NEW o \in Offset, NEW p \in Reach(o), IsHead(b, p) PROVE Next0(b, p) \in Reach(o)
  BY <1>1, <1>3
<1>4. ASSUME NEW o \in Offset, ~IsHead(b, o) PROVE Reach(o) = {o}
  <2>1. {o} \in SUBSET Offset /\ Closed({o}) /\ o \in {o}
    BY <1>4
  <2>2. Reach(o) \subseteq {o}
    BY <2>1
  <2> QED
    BY <1>2, <2>2
<1>5. ASSUME NEW o \in Offset, IsHead(b, o) PROVE Reach(o) = {o} \cup Reach(Next0(b, o))
  <2> DEFINE n == Next0(b, o)
             U == {o} \cup Reach(n)
  <2>1. n \in Offset
    BY <1>1, <1>5
  <2>2. n \in Reach(n)
    BY <1>2, <2>1
  <2>3. U \in SUBSET Offset /\ o \in U
    OBVIOUS
  <2>4. Closed(U)
    <3> SUFFICES ASSUME NEW p \in U, IsHead(b, p) PROVE Next0(b, p) \in U
      OBVIOUS
    <3>1. CASE p = o
      BY <2>2, <3>1
    <3>2. CASE p \in Reach(n)
      BY <1>3, <2>1, <3>2
    <3> QED
      BY <3>1, <3>2
  <2>5. Reach(o) \subseteq U
    BY <2>3, <2>4
  <2>6. ASSUME NEW p \in Reach(n) PROVE p \in Reach(o)
    <3> SUFFICES ASSUME NEW T \in SUBSET Offset, o \in T, Closed(T) PROVE p \in T
      OBVIOUS
    <3>1. n \in T
      BY <1>5
    <3> QED
      BY <3>1
  <2> QED
    BY <1>2, <2>5, <2>6
<1> DEFINE f == [o \in Offset |-> Reach(o)]
<1> HIDE DEF Reach
<1>6. ASSUME NEW o \in Offset
      PROVE  Reach(o) = {o} \cup IF IsHead(b, o) THEN f[Next0(b, o)] ELSE {}
  BY <1>1, <1>4, <1>5
<1> HIDE DEF f
<1>7. f = [o \in Offset |-> {o} \cup IF IsHead(b, o) THEN f[Next0(b, o)] ELSE {}]
  BY <1>6 DEF f
<1> QED
  BY <1>7 DEF ScanFrom

(* From every offset the scan stays inside, ends each record where the next *)
(* begins, and comes to nothing else.                                       *)
LEMMA ScanSteps ==
  ASSUME NEW b \in Bank, HeadsInside(b), NEW f, ScanFrom(b, f)
  PROVE  \A o \in Offset :
           /\ f[o] \subseteq Offset /\ o \in f[o]
           /\ \A p \in f[o] : IsHead(b, p) => Next0(b, p) \in f[o]
           /\ \A p \in f[o] \ {o} : \E q \in f[o] : IsHead(b, q) /\ Next0(b, q) = p
<1> DEFINE P(o) ==
             /\ f[o] \subseteq Offset /\ o \in f[o]
             /\ \A p \in f[o] : IsHead(b, p) => Next0(b, p) \in f[o]
             /\ \A p \in f[o] \ {o} : \E q \in f[o] : IsHead(b, q) /\ Next0(b, q) = p
           Bad == {o \in Offset : ~P(o)}
<1>1. ASSUME NEW o \in Offset
      PROVE  f[o] = {o} \cup IF IsHead(b, o) THEN f[Next0(b, o)] ELSE {}
  BY DEF ScanFrom
<1>2. ASSUME NEW o \in Offset, IsHead(b, o) => P(Next0(b, o)) PROVE P(o)
  <2>1. CASE IsHead(b, o)
    <3> DEFINE n == Next0(b, o)
    <3>1. f[o] = {o} \cup f[n] /\ P(n) /\ n \in f[n]
      BY <1>1, <1>2, <2>1
    <3>2. \A p \in f[o] : p = o \/ p \in f[n]
      BY <3>1
    <3>3. \A p \in f[o] : IsHead(b, p) => Next0(b, p) \in f[o]
      BY <3>1, <3>2
    <3>4. \A p \in f[o] \ {o} : p = n \/ p \in f[n] \ {n}
      BY <3>2
    <3>5. \A p \in f[o] \ {o} : \E q \in f[o] : IsHead(b, q) /\ Next0(b, q) = p
      BY <2>1, <3>1, <3>4
    <3> QED
      BY <3>1, <3>3, <3>5
  <2>2. CASE ~IsHead(b, o)
    BY <1>1, <2>2
  <2> QED
    BY <2>1, <2>2
<1> HIDE DEF P
<1>3. Bad = {}
  <2> SUFFICES ASSUME Bad # {} PROVE FALSE
    OBVIOUS
  <2>1. PICK m \in Bad : \A k \in Bad : m >= k
    <3>1. Bad \in SUBSET (0 .. Words + 2) /\ Words + 2 \in Nat
      BY NvsAssumption DEF Offset
    <3> HIDE DEF Bad
    <3> QED
      BY <3>1, Greatest
  <2>2. m \in Offset /\ ~P(m)
    OBVIOUS
  <2>3. ASSUME IsHead(b, m) PROVE P(Next0(b, m))
    <3>1. Next0(b, m) \in Offset /\ Next0(b, m) >= m + 2 /\ m \in 0 .. Words
      BY <2>2, <2>3, NextInside
    <3>2. Next0(b, m) \notin Bad
      BY <2>1, <3>1 DEF Offset
    <3> QED
      BY <3>1, <3>2
  <2> QED
    BY <1>2, <2>2, <2>3
<1> QED
  BY <1>3 DEF P

(* No two sets are what the scan comes to. *)
LEMMA ScannedOnce ==
  ASSUME NEW b \in Bank, HeadsInside(b), NEW B, Scanned(b, B), NEW C, Scanned(b, C)
  PROVE  B \subseteq C
<1> DEFINE Bad == B \ C
<1> SUFFICES ASSUME Bad # {} PROVE FALSE
  OBVIOUS
<1>1. PICK m \in Bad : \A k \in Bad : m <= k
  <2>1. Bad \in SUBSET Nat
    BY NvsAssumption DEF Scanned, Offset
  <2> HIDE DEF Bad
  <2> QED
    BY <2>1, Least
<1>2. m \in B \ {0} /\ m \notin C
  BY DEF Scanned
<1>3. PICK q \in B : IsHead(b, q) /\ Next0(b, q) = m
  BY <1>2 DEF Scanned
<1>4. q \in Offset /\ m >= q + 2 /\ q \in 0 .. Words
  <2>1. q \in Offset
    BY DEF Scanned
  <2> QED
    BY <1>3, <2>1, NextInside
<1>5. q \in C
  BY <1>1, <1>4, NvsAssumption DEF Offset
<1> QED
  BY <1>2, <1>3, <1>5 DEF Scanned

(* Boundaries is what the scan comes to, and the only such set. *)
LEMMA BoundariesAre ==
  ASSUME NEW b \in Bank, HeadsInside(b)
  PROVE  /\ Scanned(b, Boundaries(b))
         /\ \A B : Scanned(b, B) => B = Boundaries(b)
<1>1. PICK f : ScanFrom(b, f) /\ Boundaries(b) = f[0]
  BY ScanExists, BoundariesDef
<1>2. 0 \in Offset
  BY NvsAssumption DEF Offset
<1>3. Scanned(b, Boundaries(b))
  BY <1>1, <1>2, ScanSteps DEF Scanned
<1>4. ASSUME NEW B, Scanned(b, B) PROVE B = Boundaries(b)
  <2>1. B \subseteq Boundaries(b) /\ Boundaries(b) \subseteq B
    BY <1>3, <1>4, ScannedOnce
  <2> QED
    BY <2>1
<1> QED
  BY <1>3, <1>4
-----------------------------------------------------------------------------
(* Reading a sound log.                                                     *)

(* What is read off a record. *)
LEMMA RecordReads ==
  \A b \in Bank, o \in Nat, k \in Key, v \in Value \cup {Gone} :
    RecordAt(b, o, k, v) =>
      /\ cell[b][o + 1] = <<"head", k, Total(k, v) - 2>> /\ cell[b][o + 2] = <<"meta", k, v>>
      /\ o + 1 \in Index => IsHead(b, o)
      /\ KeyAt(b, o) = k /\ TotalAt(b, o) = Total(k, v) /\ Next0(b, o) = o + Total(k, v)
      /\ StatusValid(b, o) <=> v # Gone
<1> SUFFICES ASSUME NEW b \in Bank, NEW o \in Nat, NEW k \in Key, NEW v \in Value \cup {Gone},
                    RecordAt(b, o, k, v)
             PROVE  /\ cell[b][o + 1] = <<"head", k, Total(k, v) - 2>>
                    /\ cell[b][o + 2] = <<"meta", k, v>>
                    /\ o + 1 \in Index => IsHead(b, o)
                    /\ KeyAt(b, o) = k /\ TotalAt(b, o) = Total(k, v)
                    /\ Next0(b, o) = o + Total(k, v)
                    /\ StatusValid(b, o) <=> v # Gone
  OBVIOUS
<1>1. 1 \in 1 .. Total(k, v) /\ 2 \in 1 .. Total(k, v) /\ Total(k, v) \in Nat
  BY RecordWords
<1>2. cell[b][o + 1] = <<"head", k, Total(k, v) - 2>> /\ cell[b][o + 2] = <<"meta", k, v>>
  BY <1>1, RecordWords DEF RecordAt
<1>3. (o + 1 \in Index => IsHead(b, o)) /\ KeyAt(b, o) = k
  BY <1>2 DEF IsHead, KeyAt
<1>4. TotalAt(b, o) = 2 + (Total(k, v) - 2)
  BY <1>2 DEF TotalAt
<1>5. StatusValid(b, o) <=> v # Gone
  <2>1. Len(<<"meta", k, v>>) = 3 /\ Len(Blank) = 1 /\ Len(Other) = 1
    BY DEF Blank, Other
  <2>2. cell[b][o + 2] # Blank /\ cell[b][o + 2] # Other /\ cell[b][o + 2][3] = v
    BY <1>2, <2>1
  <2> QED
    BY <2>2 DEF StatusValid
<1> QED
  BY <1>1, <1>2, <1>3, <1>4, <1>5 DEF Next0

(* The records of a sound log are where the scan comes to before its end. *)
LEMMA SoundRecords ==
  \A b \in Bank, end \in 0 .. Words :
    HeadsInside(b) /\ LogSound(b, end) =>
      /\ Records(b, end) = Boundaries(b) \ {end} /\ ~IsHead(b, end)
      /\ Records(b, end) \subseteq 0 .. end - 2
      /\ \A o \in Records(b, end) :
           \E k \in Key, v \in Value \cup {Gone} :
             /\ RecordAt(b, o, k, v) /\ KeyAt(b, o) = k
             /\ o + Total(k, v) <= end /\ o + Total(k, v) \in Boundaries(b)
      /\ ScanEnd(b) = end
<1> SUFFICES ASSUME NEW b \in Bank, NEW end \in 0 .. Words, HeadsInside(b), LogSound(b, end)
             PROVE  /\ Records(b, end) = Boundaries(b) \ {end} /\ ~IsHead(b, end)
                    /\ Records(b, end) \subseteq 0 .. end - 2
                    /\ \A o \in Records(b, end) :
                         \E k \in Key, v \in Value \cup {Gone} :
                           /\ RecordAt(b, o, k, v) /\ KeyAt(b, o) = k
                           /\ o + Total(k, v) <= end /\ o + Total(k, v) \in Boundaries(b)
                    /\ ScanEnd(b) = end
  OBVIOUS
<1>0. Words \in Nat /\ end \in Nat /\ end <= Words
  BY NvsAssumption
<1>1. /\ end \in Boundaries(b) /\ Boundaries(b) \subseteq 0 .. end
      /\ \A o \in Boundaries(b) \ {end} :
           \E k \in Key, v \in Value \cup {Gone} : RecordAt(b, o, k, v)
      /\ \A i \in Index :
           i > end => cell[b][i] = Blank \/ (i > Words /\ cell[b][i] = Other)
  BY DEF LogSound
<1>2. \A o \in Boundaries(b) : IsHead(b, o) => Next0(b, o) \in Boundaries(b)
  BY BoundariesAre DEF Scanned
<1>3. ~IsHead(b, end)
  <2>1. end + 1 \in Index
    BY <1>0 DEF Index
  <2>2. cell[b][end + 1] = Blank \/ cell[b][end + 1] = Other
    BY <1>0, <1>1, <2>1
  <2> QED
    BY <2>2 DEF IsHead, Blank, Other
<1>4. ASSUME NEW o \in Boundaries(b) \ {end}
      PROVE  /\ IsHead(b, o) /\ o \in 0 .. end - 2
             /\ \E k \in Key, v \in Value \cup {Gone} :
                  /\ RecordAt(b, o, k, v) /\ KeyAt(b, o) = k
                  /\ o + Total(k, v) <= end /\ o + Total(k, v) \in Boundaries(b)
  <2>1. o \in 0 .. end /\ o # end
    BY <1>1
  <2>2. o \in Nat /\ o + 1 \in Index
    BY <1>0, <2>1 DEF Index
  <2>3. PICK k \in Key, v \in Value \cup {Gone} : RecordAt(b, o, k, v)
    BY <1>1
  <2>4. IsHead(b, o) /\ KeyAt(b, o) = k /\ Next0(b, o) = o + Total(k, v)
    BY <2>2, <2>3, RecordReads
  <2>5. o + Total(k, v) \in Boundaries(b)
    BY <1>2, <2>4
  <2>6. o + Total(k, v) \in 0 .. end
    BY <1>1, <2>5
  <2>7. Total(k, v) \in Nat /\ Total(k, v) >= 2
    BY RecordWords
  <2> QED
    BY <1>0, <2>1, <2>3, <2>4, <2>5, <2>6, <2>7
<1>5. Records(b, end) = Boundaries(b) \ {end}
  <2>1. ASSUME NEW o \in Boundaries(b) PROVE o < end /\ IsHead(b, o) <=> o # end
    BY <1>0, <1>3, <1>4
  <2> QED
    BY <2>1 DEF Records
<1>6. ScanEnd(b) = end
  <2> DEFINE T == {o \in Boundaries(b) : o <= Words}
  <2>1. T \in SUBSET Nat /\ end \in T /\ \A o \in T : o <= end
    BY <1>0, <1>1
  <2> HIDE DEF T
  <2>2. Max(T) = end
    BY <2>1, MaxIs
  <2> QED
    BY <2>2 DEF ScanEnd, T
<1> QED
  BY <1>3, <1>4, <1>5, <1>6

(* The cells of a bank are words in a row. *)
CellsAreWords == \A b \in Bank : cell[b] = [i \in Index |-> cell[b][i]]

LEMMA WordsFrom ==
  ASSUME CellsAreWords, NEW b \in Bank, NEW o \in Nat, NEW n \in Nat, o + n <= Words + 2
  PROVE  SubSeq(cell[b], o + 1, o + n) = [i \in 1 .. n |-> cell[b][o + i]]
<1> DEFINE S == {cell[b][i] : i \in Index}
           s == cell[b]
           t == SubSeq(s, o + 1, o + n)
<1>1. Words + 2 \in Nat
  BY NvsAssumption
<1>2. s \in [1 .. Words + 2 -> S]
  BY DEF CellsAreWords, Index
<1>3. s \in Seq(S) /\ Len(s) = Words + 2
  BY <1>1, <1>2
<1>4. o + 1 \in 1 .. Len(s) + 1 /\ o + n \in (o + 1) - 1 .. Len(s)
  BY <1>1, <1>3
<1>5. /\ t \in Seq(S) /\ Len(t) = (o + n) - (o + 1) + 1
      /\ \A i \in 1 .. (o + n) - (o + 1) + 1 : t[i] = s[(o + 1) + i - 1]
  BY <1>3, <1>4, SubSeqProperties
<1> HIDE DEF s, t
<1>6. Len(t) = n /\ \A i \in 1 .. n : t[i] = s[o + i]
  BY <1>5
<1>7. t = [i \in 1 .. n |-> s[o + i]]
  BY <1>5, <1>6
<1> QED
  BY <1>7 DEF s, t

(* What the log says of a key: its last record, or none. *)
Says(b, end, k, v) ==
  \/ v = Gone /\ \A o \in Records(b, end) : KeyAt(b, o) # k
  \/ \E m \in Records(b, end) :
       RecordAt(b, m, k, v) /\ \A p \in Records(b, end) : p > m => KeyAt(b, p) # k

LEMMA SaysOne ==
  \A b \in Bank, end \in 0 .. Words, k \in Key :
    HeadsInside(b) /\ LogSound(b, end) => \E v \in Value \cup {Gone} : Says(b, end, k, v)
<1> SUFFICES ASSUME NEW b \in Bank, NEW end \in 0 .. Words, NEW k \in Key,
                    HeadsInside(b), LogSound(b, end)
             PROVE  \E v \in Value \cup {Gone} : Says(b, end, k, v)
  OBVIOUS
<1> DEFINE R == {o \in Records(b, end) : KeyAt(b, o) = k}
<1>1. CASE R = {}
  BY <1>1 DEF Says
<1>2. CASE R # {}
  <2>1. Records(b, end) \subseteq 0 .. Words /\ Words \in Nat
    BY SoundRecords, NvsAssumption
  <2>2. PICK m \in R : \A p \in R : m >= p
    <3>1. R \in SUBSET (0 .. Words)
      BY <2>1
    <3> HIDE DEF R
    <3> QED
      BY <1>2, <2>1, <3>1, Greatest
  <2>3. PICK v \in Value \cup {Gone} : RecordAt(b, m, k, v)
    BY SoundRecords
  <2>4. \A p \in Records(b, end) : p > m => KeyAt(b, p) # k
    BY <2>1, <2>2
  <2> QED
    BY <2>3, <2>4 DEF Says
<1> QED
  BY <1>1, <1>2

(* fw_nvs_read answers what the log says. *)
LEMMA LookupSays ==
  \A b \in Bank, end \in 0 .. Words, k \in Key, v \in Value \cup {Gone} :
    CellsAreWords /\ HeadsInside(b) /\ LogSound(b, end) /\ Says(b, end, k, v) =>
      Lookup(b, end, k) = v
<1> SUFFICES ASSUME NEW b \in Bank, NEW end \in 0 .. Words, NEW k \in Key,
                    NEW v \in Value \cup {Gone},
                    CellsAreWords, HeadsInside(b), LogSound(b, end), Says(b, end, k, v)
             PROVE  Lookup(b, end, k) = v
  OBVIOUS
<1> DEFINE R == {o \in Records(b, end) : KeyAt(b, o) = k}
<1>1. CASE v = Gone /\ \A o \in Records(b, end) : KeyAt(b, o) # k
  <2>1. R = {}
    BY <1>1
  <2> QED
    BY <1>1, <2>1 DEF Lookup
<1>2. CASE \E m \in Records(b, end) :
             RecordAt(b, m, k, v) /\ \A p \in Records(b, end) : p > m => KeyAt(b, p) # k
  <2>1. PICK m \in Records(b, end) :
          RecordAt(b, m, k, v) /\ \A p \in Records(b, end) : p > m => KeyAt(b, p) # k
    BY <1>2
  <2>2. Words \in Nat /\ end \in Nat /\ end <= Words /\ Records(b, end) \subseteq 0 .. end
    BY SoundRecords, NvsAssumption
  <2>3. m \in Nat /\ m <= end
    BY <2>2
  <2>4. /\ KeyAt(b, m) = k /\ TotalAt(b, m) = Total(k, v)
        /\ StatusValid(b, m) <=> v # Gone
        /\ cell[b][m + 2] = <<"meta", k, v>>
    BY <2>1, <2>3, RecordReads
  <2>5. Max(R) = m
    <3>1. R \in SUBSET Nat /\ m \in R /\ \A p \in R : p <= m
      BY <2>1, <2>2, <2>4
    <3> HIDE DEF R
    <3> QED
      BY <3>1, MaxIs
  <2>6. R # {}
    BY <2>1, <2>4
  <2>7. CASE v = Gone
    BY <2>4, <2>5, <2>6, <2>7 DEF Lookup
  <2>8. CASE v # Gone
    <3>1. v \in Value
      BY <2>8
    <3>2. m + Total(k, v) <= Words + 2 /\ Total(k, v) \in Nat /\ Total(k, v) >= 2
      <4>1. Next0(b, m) \in Offset
        BY <2>1, BoundariesAre DEF Scanned, Records
      <4>2. Next0(b, m) = m + Total(k, v)
        BY <2>1, <2>3, RecordReads
      <4> QED
        BY <2>2, <4>1, <4>2, RecordWords DEF Offset
    <3>3. SubSeq(cell[b], m + 1, m + Total(k, v)) = [i \in 1 .. Total(k, v) |-> cell[b][m + i]]
      BY <2>3, <3>2, WordsFrom
    <3>4. CrcHolds(b, m, v)
      <4>1. [i \in 1 .. Total(k, v) |-> cell[b][m + i]] = Record(k, v)
        BY <2>1, RecordWords DEF RecordAt
      <4> QED
        BY <2>4, <3>3, <4>1 DEF CrcHolds
    <3>5. ASSUME NEW w \in Value, CrcHolds(b, m, w) PROVE w = v
      <4>1. Record(k, w) = [i \in 1 .. Total(k, v) |-> cell[b][m + i]]
        BY <2>4, <3>3, <3>5 DEF CrcHolds
      <4>2. Record(k, w)[2] = <<"meta", k, w>>
        BY RecordWords
      <4>3. Record(k, w)[2] = cell[b][m + 2]
        BY <3>2, <4>1
      <4> QED
        BY <2>4, <4>2, <4>3
    <3>6. (CHOOSE w \in Value : CrcHolds(b, m, w)) = v
      BY <3>1, <3>4, <3>5
    <3> QED
      BY <2>4, <2>5, <2>6, <2>8, <3>1, <3>4, <3>6 DEF Lookup
  <2> QED
    BY <2>7, <2>8
<1> QED
  BY <1>1, <1>2 DEF Says
-----------------------------------------------------------------------------
(* Changing a log.                                                          *)

LEMMA BoundariesNext ==
  \A b \in Bank : HeadsInside(b)' =>
    Scanned(b, Boundaries(b))' /\ \A B : Scanned(b, B)' => B = Boundaries(b)'
<1>1. \A b \in Bank : HeadsInside(b) =>
        Scanned(b, Boundaries(b)) /\ \A B : Scanned(b, B) => B = Boundaries(b)
  BY BoundariesAre
<1>2. (\A b \in Bank : HeadsInside(b) =>
        Scanned(b, Boundaries(b)) /\ \A B : Scanned(b, B) => B = Boundaries(b))'
  BY <1>1, PTL
<1> QED
  BY <1>2

LEMMA RecordReadsNext ==
  \A b \in Bank, o \in Nat, k \in Key, v \in Value \cup {Gone} :
    RecordAt(b, o, k, v)' =>
      /\ o + 1 \in Index => IsHead(b, o)'
      /\ KeyAt(b, o)' = k /\ Next0(b, o)' = o + Total(k, v)
<1>1. \A b \in Bank, o \in Nat, k \in Key, v \in Value \cup {Gone} :
        RecordAt(b, o, k, v) =>
          /\ o + 1 \in Index => IsHead(b, o)
          /\ KeyAt(b, o) = k /\ Next0(b, o) = o + Total(k, v)
  BY RecordReads
<1>2. (\A b \in Bank, o \in Nat, k \in Key, v \in Value \cup {Gone} :
        RecordAt(b, o, k, v) =>
          /\ o + 1 \in Index => IsHead(b, o)
          /\ KeyAt(b, o) = k /\ Next0(b, o) = o + Total(k, v))'
  BY <1>1, PTL
<1> QED
  BY <1>2

(* The records stay that lie where nothing is written. *)
SameUpTo(b, end) == \A i \in 1 .. end : cell'[b][i] = cell[b][i]

LEMMA RecordsStay ==
  ASSUME NEW b \in Bank, NEW end \in 0 .. Words, HeadsInside(b), LogSound(b, end),
         SameUpTo(b, end), NEW o \in Records(b, end)
  PROVE  /\ IsHead(b, o)' /\ KeyAt(b, o)' = KeyAt(b, o) /\ Next0(b, o)' = Next0(b, o)
         /\ \A k \in Key, v \in Value \cup {Gone} : RecordAt(b, o, k, v) => RecordAt(b, o, k, v)'
         /\ \E k \in Key, v \in Value \cup {Gone} : RecordAt(b, o, k, v)'
<1>1. o \in 0 .. end - 2 /\ Words \in Nat /\ end \in Nat /\ end <= Words
  BY SoundRecords, NvsAssumption
<1>2. o \in Nat /\ o + 1 \in Index
  BY <1>1 DEF Index
<1>3. PICK k \in Key, v \in Value \cup {Gone} :
        RecordAt(b, o, k, v) /\ KeyAt(b, o) = k /\ o + Total(k, v) <= end
  BY SoundRecords
<1>4. TotalAt(b, o) = Total(k, v) /\ Next0(b, o) = o + Total(k, v)
  BY <1>2, <1>3, RecordReads
<1>5. ASSUME NEW j \in Key, NEW w \in Value \cup {Gone}, RecordAt(b, o, j, w)
      PROVE  RecordAt(b, o, j, w)'
  <2>1. Total(j, w) = Total(k, v) /\ Total(k, v) \in Nat
    BY <1>2, <1>4, <1>5, RecordReads, RecordWords
  <2>2. \A i \in 1 .. Total(j, w) : o + i \in 1 .. end
    BY <1>1, <1>3, <2>1
  <2> QED
    BY <1>5, <2>2 DEF RecordAt, SameUpTo
<1>6. RecordAt(b, o, k, v)'
  BY <1>3, <1>5
<1>7. IsHead(b, o)' /\ KeyAt(b, o)' = k /\ Next0(b, o)' = o + Total(k, v)
  BY <1>2, <1>6, RecordReadsNext
<1> QED
  BY <1>3, <1>4, <1>5, <1>6, <1>7

(* A log is untouched by what happens in the words where the other bank has *)
(* its header.                                                              *)
LEMMA LogUntouched ==
  ASSUME NEW b \in Bank, NEW end \in 0 .. Words, HeadsInside(b), HeadsInside(b)',
         LogSound(b, end), SameUpTo(b, Words),
         \A i \in Index : i > Words => cell'[b][i] \in {Blank, Other}
  PROVE  /\ LogSound(b, end)'
         /\ Boundaries(b)' = Boundaries(b) /\ Records(b, end)' = Records(b, end)
         /\ \A k \in Key, v \in Value \cup {Gone} : Says(b, end, k, v) => Says(b, end, k, v)'
<1>0. Words \in Nat /\ end \in Nat /\ end <= Words
  BY NvsAssumption
<1>1. SameUpTo(b, end)
  BY <1>0 DEF SameUpTo
<1>2. Records(b, end) = Boundaries(b) \ {end}
  BY SoundRecords
<1>3. ~IsHead(b, end)'
  <2>1. end + 1 \in Index
    BY <1>0 DEF Index
  <2>2. cell'[b][end + 1] = Blank \/ cell'[b][end + 1] = Other
    <3>1. CASE end + 1 <= Words
      BY <1>0, <2>1, <3>1 DEF LogSound, SameUpTo
    <3>2. CASE end + 1 > Words
      BY <2>1, <3>2
    <3> QED
      BY <1>0, <3>1, <3>2
  <2> QED
    BY <2>2 DEF IsHead, Blank, Other
<1>4. Scanned(b, Boundaries(b))
  BY BoundariesAre
<1>5. PICK B : B = Boundaries(b)
  OBVIOUS
<1>6. Scanned(b, B)'
  <2>1. B \subseteq Offset /\ 0 \in B /\ end \in B
    BY <1>4, <1>5 DEF Scanned, LogSound
  <2>2. ASSUME NEW o \in B, IsHead(b, o)' PROVE Next0(b, o)' \in B
    <3>1. o \in Records(b, end)
      BY <1>2, <1>3, <1>5, <2>2
    <3>2. IsHead(b, o) /\ Next0(b, o)' = Next0(b, o)
      BY <1>1, <3>1, RecordsStay DEF Records
    <3> QED
      BY <1>4, <1>5, <3>2 DEF Scanned
  <2>3. ASSUME NEW q \in B \ {0} PROVE \E o \in B : IsHead(b, o)' /\ Next0(b, o)' = q
    <3>1. PICK o \in B : IsHead(b, o) /\ Next0(b, o) = q
      BY <1>4, <1>5 DEF Scanned
    <3>2. o \in Records(b, end)
      BY <1>2, <1>5, <3>1, SoundRecords
    <3> QED
      BY <1>1, <3>1, <3>2, RecordsStay
  <2> QED
    BY <2>1, <2>2, <2>3 DEF Scanned
<1>7. Boundaries(b)' = Boundaries(b)
  BY <1>5, <1>6, BoundariesNext
<1>8. Records(b, end)' = Records(b, end)
  <2>1. ASSUME NEW o \in Boundaries(b) PROVE o < end /\ IsHead(b, o)' <=> o < end /\ IsHead(b, o)
    <3>1. CASE o = end
      BY <1>0, <3>1
    <3>2. CASE o # end
      BY <1>1, <1>2, <3>2, RecordsStay DEF Records
    <3> QED
      BY <3>1, <3>2
  <2> QED
    BY <1>7, <2>1 DEF Records
<1>9. LogSound(b, end)'
  <2>1. \A o \in Boundaries(b) \ {end} :
          \E k \in Key, v \in Value \cup {Gone} : RecordAt(b, o, k, v)'
    BY <1>1, <1>2, RecordsStay
  <2>2. \A i \in Index : i > end => cell'[b][i] = Blank \/ (i > Words /\ cell'[b][i] = Other)
    <3> SUFFICES ASSUME NEW i \in Index, i > end
                 PROVE  cell'[b][i] = Blank \/ (i > Words /\ cell'[b][i] = Other)
      OBVIOUS
    <3>1. CASE i <= Words
      <4>1. i \in 1 .. Words
        BY <1>0, <3>1 DEF Index
      <4> QED
        BY <1>0, <3>1, <4>1 DEF LogSound, SameUpTo
    <3>2. CASE i > Words
      BY <3>2
    <3> QED
      BY <1>0, <3>1, <3>2 DEF Index
  <2> QED
    BY <1>7, <2>1, <2>2 DEF LogSound
<1>10. ASSUME NEW k \in Key, NEW v \in Value \cup {Gone}, Says(b, end, k, v)
       PROVE  Says(b, end, k, v)'
  <2>1. \A o \in Records(b, end) : KeyAt(b, o)' = KeyAt(b, o)
    BY <1>1, RecordsStay
  <2>2. \A o \in Records(b, end) : RecordAt(b, o, k, v) => RecordAt(b, o, k, v)'
    BY <1>1, RecordsStay
  <2> QED
    BY <1>8, <1>10, <2>1, <2>2 DEF Says
<1> QED
  BY <1>7, <1>8, <1>9, <1>10

(* A record programmed at the end of a log is read back, and no other key   *)
(* than its own reads otherwise.                                            *)
LEMMA LogGrows ==
  ASSUME NEW b \in Bank, NEW end \in 0 .. Words, HeadsInside(b), HeadsInside(b)',
         LogSound(b, end), NEW k \in Key, NEW v \in Value \cup {Gone}, NEW n \in Nat,
         n = Total(k, v), end + n <= Words,
         \A i \in Index :
           cell'[b][i] = IF i \in end + 1 .. end + n THEN Record(k, v)[i - end] ELSE cell[b][i]
  PROVE  /\ LogSound(b, end + n)' /\ Boundaries(b)' = Boundaries(b) \cup {end + n}
         /\ Records(b, end + n)' = Records(b, end) \cup {end}
         /\ Says(b, end + n, k, v)'
         /\ \A j \in Key \ {k}, w \in Value \cup {Gone} :
              Says(b, end, j, w) => Says(b, end + n, j, w)'
<1>0. /\ Words \in Nat /\ end \in Nat /\ end <= Words
      /\ n >= 2 /\ end + n \in 0 .. Words /\ end + 1 \in Index
  BY NvsAssumption, RecordWords DEF Index
<1> DEFINE last == end + n
<1>1. SameUpTo(b, end)
  <2> SUFFICES ASSUME NEW i \in 1 .. end PROVE cell'[b][i] = cell[b][i]
    BY DEF SameUpTo
  <2>1. i \in Index /\ i \notin end + 1 .. end + n
    BY <1>0 DEF Index
  <2> QED
    BY <2>1
<1>2. Records(b, end) = Boundaries(b) \ {end} /\ end \in Boundaries(b)
  BY SoundRecords DEF LogSound
<1>3. RecordAt(b, end, k, v)'
  <2> SUFFICES ASSUME NEW i \in 1 .. Total(k, v) PROVE cell'[b][end + i] = Record(k, v)[i]
    BY DEF RecordAt
  <2>1. end + i \in Index /\ end + i \in end + 1 .. end + n /\ (end + i) - end = i
    BY <1>0 DEF Index
  <2> QED
    BY <2>1
<1>4. IsHead(b, end)' /\ KeyAt(b, end)' = k /\ Next0(b, end)' = last
  BY <1>0, <1>3, RecordReadsNext
<1>5. \A i \in Index : i > last => cell'[b][i] = Blank \/ (i > Words /\ cell'[b][i] = Other)
  <2> SUFFICES ASSUME NEW i \in Index, i > last
               PROVE  cell'[b][i] = Blank \/ (i > Words /\ cell'[b][i] = Other)
    OBVIOUS
  <2>1. i > end /\ i \notin end + 1 .. end + n
    BY <1>0 DEF Index
  <2> QED
    BY <2>1 DEF LogSound
<1>6. ~IsHead(b, last)'
  <2>1. last + 1 \in Index /\ last + 1 > last
    BY <1>0 DEF Index
  <2> QED
    BY <1>5, <2>1 DEF IsHead, Blank, Other
<1>7. Scanned(b, Boundaries(b)) /\ Boundaries(b) \subseteq 0 .. end
  BY BoundariesAre DEF LogSound
<1>8. PICK B : B = Boundaries(b) \cup {last}
  OBVIOUS
<1>9. last \notin Boundaries(b) /\ last \in Offset
  BY <1>0, <1>7 DEF Offset
<1>10. Scanned(b, B)'
  <2>1. B \subseteq Offset /\ 0 \in B
    BY <1>7, <1>8, <1>9 DEF Scanned
  <2>2. ASSUME NEW o \in B, IsHead(b, o)' PROVE Next0(b, o)' \in B
    <3>1. CASE o = end
      BY <1>4, <1>8, <3>1
    <3>2. CASE o # end
      <4>1. o \in Records(b, end)
        BY <1>2, <1>6, <1>8, <2>2, <3>2
      <4>2. IsHead(b, o) /\ Next0(b, o)' = Next0(b, o) /\ o \in Boundaries(b)
        BY <1>1, <1>2, <4>1, RecordsStay DEF Records
      <4> QED
        BY <1>7, <1>8, <4>2 DEF Scanned
    <3> QED
      BY <3>1, <3>2
  <2>3. ASSUME NEW q \in B \ {0} PROVE \E o \in B : IsHead(b, o)' /\ Next0(b, o)' = q
    <3>1. CASE q = last
      BY <1>2, <1>4, <1>8, <3>1
    <3>2. CASE q # last
      <4>1. q \in Boundaries(b) \ {0}
        BY <1>8, <3>2
      <4>2. PICK o \in Boundaries(b) : IsHead(b, o) /\ Next0(b, o) = q
        BY <1>7, <4>1 DEF Scanned
      <4>3. o \in Records(b, end)
        BY <1>2, <4>2, SoundRecords
      <4> QED
        BY <1>1, <1>8, <4>2, <4>3, RecordsStay
    <3> QED
      BY <3>1, <3>2
  <2> QED
    BY <2>1, <2>2, <2>3 DEF Scanned
<1>11. Boundaries(b)' = Boundaries(b) \cup {last}
  BY <1>8, <1>10, BoundariesNext
<1>12. \A o \in Boundaries(b) : o <= end /\ o < last /\ IsHead(b, o)'
  <2> SUFFICES ASSUME NEW o \in Boundaries(b) PROVE o <= end /\ o < last /\ IsHead(b, o)'
    OBVIOUS
  <2>1. o <= end /\ o < last
    BY <1>0, <1>7
  <2>2. IsHead(b, o)'
    BY <1>1, <1>2, <1>4, RecordsStay
  <2> QED
    BY <2>1, <2>2
<1>13. Records(b, last)' = Boundaries(b) /\ Boundaries(b) = Records(b, end) \cup {end}
  <2>1. ~(last < last)
    BY <1>0
  <2> QED
    BY <1>2, <1>11, <1>12, <2>1 DEF Records
<1>14. \A o \in Records(b, end) :
         /\ KeyAt(b, o)' = KeyAt(b, o) /\ end > o /\ ~(o > end)
         /\ \A j \in Key, w \in Value \cup {Gone} : RecordAt(b, o, j, w) => RecordAt(b, o, j, w)'
         /\ \E j \in Key, w \in Value \cup {Gone} : RecordAt(b, o, j, w)'
  <2> SUFFICES ASSUME NEW o \in Records(b, end)
               PROVE  /\ KeyAt(b, o)' = KeyAt(b, o) /\ end > o /\ ~(o > end)
                      /\ \A j \in Key, w \in Value \cup {Gone} :
                           RecordAt(b, o, j, w) => RecordAt(b, o, j, w)'
                      /\ \E j \in Key, w \in Value \cup {Gone} : RecordAt(b, o, j, w)'
    OBVIOUS
  <2>1. o \in 0 .. end - 2
    BY SoundRecords
  <2>2. end > o /\ ~(o > end)
    BY <1>0, <2>1
  <2> QED
    BY <1>1, <2>2, RecordsStay
<1>15. LogSound(b, last)'
  <2>1. last \in 0 .. Words /\ last \in Boundaries(b)' /\ Boundaries(b)' \subseteq 0 .. last
    BY <1>0, <1>7, <1>11
  <2>2. \A o \in Boundaries(b)' \ {last} :
          \E j \in Key, w \in Value \cup {Gone} : RecordAt(b, o, j, w)'
    BY <1>3, <1>11, <1>13, <1>14
  <2> QED
    BY <1>5, <2>1, <2>2 DEF LogSound
<1>16. Says(b, last, k, v)'
  <2>1. \A p \in Records(b, last)' : ~(p > end)
    BY <1>0, <1>13, <1>14
  <2> QED
    BY <1>3, <1>13, <2>1 DEF Says
<1>17. ASSUME NEW j \in Key \ {k}, NEW w \in Value \cup {Gone}, Says(b, end, j, w)
       PROVE  Says(b, last, j, w)'
  <2>1. KeyAt(b, end)' # j
    BY <1>4
  <2>2. CASE w = Gone /\ \A o \in Records(b, end) : KeyAt(b, o) # j
    <3>1. \A o \in Records(b, last)' : KeyAt(b, o)' # j
      BY <1>13, <1>14, <2>1, <2>2
    <3> QED
      BY <2>2, <3>1 DEF Says
  <2>3. CASE \E m \in Records(b, end) :
               RecordAt(b, m, j, w) /\ \A p \in Records(b, end) : p > m => KeyAt(b, p) # j
    <3>1. PICK m \in Records(b, end) :
            RecordAt(b, m, j, w) /\ \A p \in Records(b, end) : p > m => KeyAt(b, p) # j
      BY <2>3
    <3>2. m \in Records(b, last)' /\ RecordAt(b, m, j, w)'
      BY <1>13, <1>14, <3>1
    <3>3. \A p \in Records(b, last)' : p > m => KeyAt(b, p)' # j
      BY <1>13, <1>14, <2>1, <3>1
    <3> QED
      BY <3>2, <3>3 DEF Says
  <2> QED
    BY <1>17, <2>2, <2>3 DEF Says
<1> QED
  BY <1>11, <1>13, <1>15, <1>16, <1>17

(* A bank that is blank but for the other's header is a log that says       *)
(* nothing.                                                                 *)
LEMMA LogEmpty ==
  \A b \in Bank :
    HeadsInside(b) /\ BlankUpTo(b, Words)
      /\ (\A i \in Index : i > Words => cell[b][i] \in {Blank, Other}) =>
      /\ LogSound(b, 0) /\ \A k \in Key : Says(b, 0, k, Gone)
      /\ \A end \in Nat : Records(b, end) = {}
<1> SUFFICES ASSUME NEW b \in Bank, HeadsInside(b), BlankUpTo(b, Words),
                    \A i \in Index : i > Words => cell[b][i] \in {Blank, Other}
             PROVE  /\ LogSound(b, 0) /\ \A k \in Key : Says(b, 0, k, Gone)
                    /\ \A end \in Nat : Records(b, end) = {}
  OBVIOUS
<1>0. Words \in Nat
  BY NvsAssumption
<1>1. \A i \in Index : cell[b][i] = Blank \/ (i > Words /\ cell[b][i] = Other)
  BY <1>0 DEF BlankUpTo, Index
<1>2. \A o \in Offset : ~IsHead(b, o)
  BY <1>1 DEF IsHead, Blank, Other
<1>3. Scanned(b, {0})
  BY <1>0, <1>2 DEF Scanned, Offset
<1>4. Boundaries(b) = {0}
  BY <1>3, BoundariesAre
<1>5. \A end \in Nat : Records(b, end) = {}
  BY <1>0, <1>2, <1>4 DEF Records, Offset
<1>6. LogSound(b, 0)
  BY <1>0, <1>1, <1>4 DEF LogSound
<1>7. \A k \in Key : Says(b, 0, k, Gone)
  BY <1>5 DEF Says
<1> QED
  BY <1>5, <1>6, <1>7

(* The same of what fw_nvs_read answers. *)
LEMMA CellsAre == CellsSound => CellsAreWords
<1> SUFFICES ASSUME CellsSound, NEW b \in Bank PROVE cell[b] = [i \in Index |-> cell[b][i]]
  BY DEF CellsAreWords
<1>1. cell = [a \in Bank |-> [i \in Index |-> cell[a][i]]]
  BY DEF CellsSound
<1> QED
  BY <1>1, Zenon

LEMMA LookupAnswers ==
  \A b \in Bank, end \in 0 .. Words, k \in Key :
    CellsSound /\ LogSound(b, end) =>
      /\ ScanEnd(b) = end
      /\ Lookup(b, end, k) \in Value \cup {Gone} /\ Says(b, end, k, Lookup(b, end, k))
      /\ \A v \in Value \cup {Gone} : Says(b, end, k, v) => Lookup(b, end, k) = v
<1> SUFFICES ASSUME NEW b \in Bank, NEW end \in 0 .. Words, NEW k \in Key,
                    CellsSound, LogSound(b, end)
             PROVE  /\ ScanEnd(b) = end
                    /\ Lookup(b, end, k) \in Value \cup {Gone}
                    /\ Says(b, end, k, Lookup(b, end, k))
                    /\ \A v \in Value \cup {Gone} : Says(b, end, k, v) => Lookup(b, end, k) = v
  OBVIOUS
<1>1. CellsAreWords /\ HeadsInside(b)
  BY CellsAre DEF CellsSound
<1>2. \A v \in Value \cup {Gone} : Says(b, end, k, v) => Lookup(b, end, k) = v
  BY <1>1, LookupSays
<1>3. PICK v \in Value \cup {Gone} : Says(b, end, k, v)
  BY <1>1, SaysOne
<1> QED
  BY <1>1, <1>2, <1>3, SoundRecords

LEMMA LookupAnswersNext ==
  \A b \in Bank, end \in 0 .. Words, k \in Key :
    CellsSound' /\ LogSound(b, end)' =>
      /\ ScanEnd(b)' = end
      /\ \A v \in Value \cup {Gone} : Says(b, end, k, v)' => Lookup(b, end, k)' = v
<1>1. \A b \in Bank, end \in 0 .. Words, k \in Key :
        CellsSound /\ LogSound(b, end) =>
          /\ ScanEnd(b) = end
          /\ \A v \in Value \cup {Gone} : Says(b, end, k, v) => Lookup(b, end, k) = v
  BY LookupAnswers
<1>2. (\A b \in Bank, end \in 0 .. Words, k \in Key :
        CellsSound /\ LogSound(b, end) =>
          /\ ScanEnd(b) = end
          /\ \A v \in Value \cup {Gone} : Says(b, end, k, v) => Lookup(b, end, k) = v)'
  BY <1>1, PTL
<1> QED
  BY <1>2

LEMMA ScanEndNext ==
  \A b \in Bank, end \in 0 .. Words :
    CellsSound' /\ LogSound(b, end)' => ScanEnd(b)' = end
<1>1. \A b \in Bank, end \in 0 .. Words : CellsSound /\ LogSound(b, end) => ScanEnd(b) = end
  BY SoundRecords DEF CellsSound
<1>2. (\A b \in Bank, end \in 0 .. Words : CellsSound /\ LogSound(b, end) => ScanEnd(b) = end)'
  BY <1>1, PTL
<1> QED
  BY <1>2

(* A log that nothing is written to answers as before. *)
LEMMA LogStays ==
  ASSUME NEW b \in Bank, NEW end \in 0 .. Words, CellsSound, CellsSound', LogSound(b, end),
         SameUpTo(b, Words)
  PROVE  /\ LogSound(b, end)' /\ ScanEnd(b)' = end
         /\ Boundaries(b)' = Boundaries(b) /\ Records(b, end)' = Records(b, end)
         /\ \A k \in Key : Lookup(b, end, k)' = Lookup(b, end, k)
<1>1. HeadsInside(b) /\ HeadsInside(b)'
  BY DEF CellsSound
<1>2. \A i \in Index : i > Words => cell'[b][i] \in {Blank, Other}
  BY DEF CellsSound
<1>3. /\ LogSound(b, end)'
      /\ Boundaries(b)' = Boundaries(b) /\ Records(b, end)' = Records(b, end)
      /\ \A k \in Key, v \in Value \cup {Gone} : Says(b, end, k, v) => Says(b, end, k, v)'
  BY <1>1, <1>2, LogUntouched
<1>4. ScanEnd(b)' = end
  BY <1>3, ScanEndNext
<1>5. ASSUME NEW k \in Key PROVE Lookup(b, end, k)' = Lookup(b, end, k)
  <2>1. PICK v \in Value \cup {Gone} : v = Lookup(b, end, k) /\ Says(b, end, k, v)
    BY LookupAnswers
  <2>2. Lookup(b, end, k)' = v
    BY <1>3, <2>1, LookupAnswersNext
  <2> QED
    BY <2>1, <2>2
<1> QED
  BY <1>3, <1>4, <1>5

LEMMA BankUntouched ==
  ASSUME NEW b \in Bank, CellsSound, CellsSound', LogSound(b, ScanEnd(b)), SameUpTo(b, Words)
  PROVE  /\ LogSound(b, ScanEnd(b))' /\ ScanEnd(b)' = ScanEnd(b)
         /\ \A k \in Key : Holds(b, k)' = Holds(b, k)
<1>1. PICK end : end = ScanEnd(b)
  OBVIOUS
<1>2. LogSound(b, end) /\ end \in 0 .. Words
  BY <1>1 DEF LogSound
<1>3. /\ LogSound(b, end)' /\ ScanEnd(b)' = end
      /\ \A k \in Key : Lookup(b, end, k)' = Lookup(b, end, k)
  BY <1>2, LogStays
<1>4. LogSound(b, ScanEnd(b))' <=> LogSound(b, end)'
  BY <1>3 DEF LogSound
<1>5. \A k \in Key : Holds(b, k) = Lookup(b, end, k) /\ Holds(b, k)' = Lookup(b, end, k)'
  BY <1>1, <1>3 DEF Holds, Lookup, Records
<1> QED
  BY <1>1, <1>3, <1>4, <1>5

LEMMA BankGrows ==
  ASSUME NEW b \in Bank, NEW end \in 0 .. Words, CellsSound, CellsSound', LogSound(b, end),
         NEW k \in Key, NEW v \in Value \cup {Gone}, NEW n \in Nat,
         n = Total(k, v), end + n <= Words,
         \A i \in Index :
           cell'[b][i] = IF i \in end + 1 .. end + n THEN Record(k, v)[i - end] ELSE cell[b][i]
  PROVE  /\ LogSound(b, end + n)' /\ ScanEnd(b)' = end + n
         /\ \A j \in Key :
              Lookup(b, end + n, j)' = IF j = k THEN v ELSE Lookup(b, end, j)
<1>1. HeadsInside(b) /\ HeadsInside(b)'
  BY DEF CellsSound
<1>2. PICK last : last = end + n
  OBVIOUS
<1>3. last \in 0 .. Words
  BY <1>2, NvsAssumption
<1>4. /\ LogSound(b, last)' /\ Says(b, last, k, v)'
      /\ \A j \in Key \ {k}, w \in Value \cup {Gone} :
           Says(b, end, j, w) => Says(b, last, j, w)'
  BY <1>1, <1>2, LogGrows
<1>5. ScanEnd(b)' = last
  BY <1>3, <1>4, ScanEndNext
<1>6. ASSUME NEW j \in Key
      PROVE  Lookup(b, last, j)' = IF j = k THEN v ELSE Lookup(b, end, j)
  <2>1. CASE j = k
    BY <1>3, <1>4, <2>1, LookupAnswersNext
  <2>2. CASE j # k
    <3>1. PICK w \in Value \cup {Gone} : w = Lookup(b, end, j) /\ Says(b, end, j, w)
      BY LookupAnswers
    <3>2. Says(b, last, j, w)'
      BY <1>4, <2>2, <3>1
    <3>3. Lookup(b, last, j)' = w
      BY <1>3, <1>4, <3>2, LookupAnswersNext
    <3> QED
      BY <2>2, <3>1, <3>3
  <2> QED
    BY <2>1, <2>2
<1> QED
  BY <1>2, <1>4, <1>5, <1>6

LEMMA BankEmpty ==
  \A b \in Bank :
    CellsSound /\ BlankUpTo(b, Words) =>
      /\ LogSound(b, 0) /\ ScanEnd(b) = 0
      /\ \A end \in Nat, k \in Key : Lookup(b, end, k) = Gone
<1> SUFFICES ASSUME NEW b \in Bank, CellsSound, BlankUpTo(b, Words)
             PROVE  /\ LogSound(b, 0) /\ ScanEnd(b) = 0
                    /\ \A end \in Nat, k \in Key : Lookup(b, end, k) = Gone
  OBVIOUS
<1>1. /\ LogSound(b, 0) /\ \A end \in Nat : Records(b, end) = {}
  BY LogEmpty DEF CellsSound
<1>2. \A end \in Nat, k \in Key : Lookup(b, end, k) = Gone
  BY <1>1 DEF Lookup
<1>3. 0 \in 0 .. Words /\ HeadsInside(b)
  BY NvsAssumption DEF CellsSound
<1> QED
  BY <1>1, <1>2, <1>3, SoundRecords

LEMMA BankEmptyNext ==
  \A b \in Bank :
    CellsSound' /\ BlankUpTo(b, Words)' =>
      /\ LogSound(b, 0)' /\ ScanEnd(b)' = 0
      /\ \A end \in Nat, k \in Key : Lookup(b, end, k)' = Gone
<1>1. (\A b \in Bank :
        CellsSound /\ BlankUpTo(b, Words) =>
          /\ LogSound(b, 0) /\ ScanEnd(b) = 0
          /\ \A end \in Nat, k \in Key : Lookup(b, end, k) = Gone)'
  BY BankEmpty, PTL
<1> QED
  BY <1>1
-----------------------------------------------------------------------------
(* The flash operations.                                                    *)

LEMMA OneTwoMore == \A t \in Nat : \A d \in 1 .. t : d = 1 \/ d = 2 \/ d \in 3 .. t
OBVIOUS

(* The cells stay sound when each bank's words are old ones, blank, a word  *)
(* of the other's header, or of a record that ends inside.                  *)
LEMMA CellsStaySound ==
  ASSUME CellsSound,
         cell' = [a \in Bank |-> [i \in Index |-> cell'[a][i]]],
         \A a \in Bank, i \in Index :
           \/ cell'[a][i] = cell[a][i] \/ cell'[a][i] = Blank
           \/ i > Words /\ cell'[a][i] = Other
           \/ /\ i <= Words
              /\ \E k \in Key, v \in Value \cup {Gone} : \E o \in Nat :
                   /\ i - o \in 1 .. Total(k, v) /\ o + Total(k, v) <= Words
                   /\ cell'[a][i] = Record(k, v)[i - o]
  PROVE  CellsSound'
<1>0. Words \in Nat
  BY NvsAssumption
<1>1. ASSUME NEW a \in Bank, NEW i \in Index, i > Words PROVE cell'[a][i] \in {Blank, Other}
  BY <1>0, <1>1 DEF CellsSound, Index
<1>2. ASSUME NEW a \in Bank, NEW o \in 0 .. Words + 1, IsHead(a, o)'
      PROVE  TotalAt(a, o)' \in 2 .. Words + 2 - o
  <2> DEFINE i == o + 1
  <2>1. i \in Index /\ cell'[a][i][1] = "head"
    BY <1>2 DEF IsHead
  <2>2. CASE cell'[a][i] = cell[a][i]
    <3>1. IsHead(a, o) /\ TotalAt(a, o)' = TotalAt(a, o)
      BY <2>1, <2>2 DEF IsHead, TotalAt
    <3> QED
      BY <3>1 DEF CellsSound, HeadsInside
  <2>3. CASE cell'[a][i] = Blank \/ cell'[a][i] = Other
    BY <2>1, <2>3 DEF Blank, Other
  <2>4. ASSUME NEW k \in Key, NEW v \in Value \cup {Gone}, NEW q \in Nat,
               i - q \in 1 .. Total(k, v), q + Total(k, v) <= Words,
               cell'[a][i] = Record(k, v)[i - q]
        PROVE  TotalAt(a, o)' \in 2 .. Words + 2 - o
    <3>1. Total(k, v) \in Nat /\ Total(k, v) >= 2
      BY RecordWords
    <3>2. i - q = 1
      <4>1. PICK d \in 1 .. Total(k, v) : d = i - q
        BY <2>4
      <4>2. CASE d = 2
        <5>1. cell'[a][i][1] = "meta"
          BY <2>4, <4>1, <4>2, RecordWords
        <5> QED
          BY <2>1, <5>1
      <4>3. CASE d \in 3 .. Total(k, v)
        <5>1. cell'[a][i] = <<"data", v, d - 2>>
          BY <2>4, <4>1, <4>3, RecordWords
        <5> QED
          BY <2>1, <5>1
      <4>4. d = 1 \/ d = 2 \/ d \in 3 .. Total(k, v)
        BY <3>1, <4>1, OneTwoMore
      <4> QED
        BY <4>1, <4>2, <4>3, <4>4
    <3>3. cell'[a][i] = <<"head", k, Total(k, v) - 2>> /\ q = o
      BY <2>4, <3>2, RecordWords
    <3>4. TotalAt(a, o)' = 2 + (Total(k, v) - 2)
      BY <3>3 DEF TotalAt
    <3> QED
      BY <1>0, <2>4, <3>1, <3>3, <3>4
  <2> QED
    BY <2>1, <2>2, <2>3, <2>4
<1> QED
  BY <1>1, <1>2 DEF CellsSound, HeadsInside

LEMMA EraseKeeps ==
  ASSUME CellsSound, NEW b \in Bank, cell' = Erased(b)
  PROVE  CellsSound' /\ BlankUpTo(b, Words)' /\ SameUpTo(1 - b, Words)
         /\ (b = 1 => \A i \in Index : i > Words => cell'[0][i] = Blank)
<1>0. Words \in Nat /\ Bank = {0, 1} /\ 1 - b \in Bank /\ 1 - b # b /\ 1 - (1 - b) = b
  BY NvsAssumption DEF Bank
<1>1. DOMAIN cell = Bank
  <2>1. cell = [a \in Bank |-> [i \in Index |-> cell[a][i]]]
    BY DEF CellsSound
  <2> QED
    BY <2>1
<1>2. cell' = [a \in Bank |->
                 IF a = b THEN [i \in Index |-> IF i <= Words THEN Blank ELSE cell[b][i]]
                 ELSE [i \in Index |-> IF i <= Words \/ b = 0 THEN cell[a][i] ELSE Blank]]
  <2> DEFINE u == [i \in Index |-> IF i <= Words THEN Blank ELSE cell[b][i]]
             w == [i \in Index |-> IF i <= Words \/ b = 0 THEN cell[1 - b][i] ELSE Blank]
  <2>2. cell' = [cell EXCEPT ![b] = u, ![1 - b] = w]
    BY <1>0, <1>1 DEF Erased
  <2>3. cell' = [a \in Bank |-> IF a = b THEN u ELSE w]
    <3>1. PICK x, y : x = u /\ y = w
      OBVIOUS
    <3> HIDE DEF u, w
    <3>2. cell' = [[cell EXCEPT ![b] = x] EXCEPT ![1 - b] = y]
      BY <2>2, <3>1
    <3>3. cell' = [a \in Bank |-> IF a = b THEN x ELSE y]
      BY <1>0, <1>1, <3>2
    <3> QED
      BY <3>1, <3>3
  <2>4. \A a \in Bank : a # b => a = 1 - b
    BY <1>0
  <2> QED
    BY <2>3, <2>4
<1>3. cell' = [a \in Bank |-> [i \in Index |-> cell'[a][i]]]
  BY <1>2
<1>4. \A a \in Bank, i \in Index :
        cell'[a][i] = IF a = b /\ i <= Words THEN Blank
                      ELSE IF a # b /\ ~(i <= Words \/ b = 0) THEN Blank ELSE cell[a][i]
  BY <1>2
<1>5. CellsSound'
  <2>1. \A a \in Bank, i \in Index : cell'[a][i] = cell[a][i] \/ cell'[a][i] = Blank
    BY <1>4
  <2> QED
    BY <1>3, <2>1, CellsStaySound
<1>6. BlankUpTo(b, Words)'
  BY <1>4 DEF BlankUpTo
<1>7. SameUpTo(1 - b, Words)
  BY <1>0, <1>4 DEF SameUpTo, Index
<1>8. b = 1 => \A i \in Index : i > Words => cell'[0][i] = Blank
  BY <1>0, <1>4 DEF Index
<1> QED
  BY <1>5, <1>6, <1>7, <1>8

(* Writing the other bank's header leaves a log alone. *)
LEMMA HeaderKeeps ==
  ASSUME CellsSound, NEW b \in Bank, NEW seq, WriteHeader(b, seq)
  PROVE  /\ CellsSound' /\ SameUpTo(0, Words) /\ SameUpTo(1, Words)
         /\ header' = [header EXCEPT ![b] = seq]
<1>0. Words \in Nat /\ Bank = {0, 1} /\ 0 \in Bank /\ 1 \in Bank
  BY NvsAssumption DEF Bank
<1>1. cell = [a \in Bank |-> [i \in Index |-> cell[a][i]]]
  BY DEF CellsSound
<1>2. CASE b = 0
  <2>1. cell' = cell
    BY <1>2 DEF WriteHeader
  <2>2. CellsSound'
    BY <2>1, <1>1, CellsStaySound
  <2> QED
    BY <2>1, <2>2 DEF SameUpTo, WriteHeader
<1>3. CASE b # 0
  <2> DEFINE u == [i \in Index |-> IF i <= Words THEN cell[0][i] ELSE Other]
  <2>1. cell' = [cell EXCEPT ![0] = u]
    BY <1>0, <1>1, <1>3 DEF WriteHeader
  <2>2. cell' = [a \in Bank |-> IF a = 0 THEN u ELSE cell[a]]
    <3>1. PICK x : x = u
      OBVIOUS
    <3> HIDE DEF u
    <3>2. cell' = [cell EXCEPT ![0] = x] /\ DOMAIN cell = Bank
      BY <1>1, <2>1, <3>1
    <3>3. cell' = [a \in Bank |-> IF a = 0 THEN x ELSE cell[a]]
      BY <1>0, <3>2
    <3> QED
      BY <3>1, <3>3
  <2>3. \A a \in Bank, i \in Index :
          cell'[a][i] = IF a = 0 /\ ~(i <= Words) THEN Other ELSE cell[a][i]
    BY <1>0, <2>2
  <2>4. cell' = [a \in Bank |-> [i \in Index |-> cell'[a][i]]]
    <3>1. cell'[0] = [i \in Index |-> cell'[0][i]]
      BY <1>0, <2>2
    <3>2. cell'[1] = [i \in Index |-> cell'[1][i]]
      <4>1. cell'[1] = cell[1] /\ cell[1] = [i \in Index |-> cell[1][i]]
        BY <1>0, <1>1, <2>2
      <4> QED
        BY <4>1
    <3>3. \A a \in Bank : cell'[a] = [i \in Index |-> cell'[a][i]]
      BY <1>0, <3>1, <3>2
    <3>4. DOMAIN cell' = Bank /\ cell' = [a \in Bank |-> cell'[a]]
      BY <2>2
    <3> QED
      BY <3>3, <3>4
  <2>5. CellsSound'
    <3>1. \A i \in Index : i <= Words \/ i > Words
      BY <1>0 DEF Index
    <3>2. \A a \in Bank, i \in Index :
            cell'[a][i] = cell[a][i] \/ (i > Words /\ cell'[a][i] = Other)
      BY <2>3, <3>1
    <3> QED
      BY <2>4, <3>2, CellsStaySound
  <2>6. SameUpTo(0, Words) /\ SameUpTo(1, Words)
    BY <1>0, <2>3 DEF SameUpTo, Index
  <2> QED
    BY <2>5, <2>6 DEF WriteHeader
<1> QED
  BY <1>2, <1>3

(* A record programmed inside the sector. *)
LEMMA ProgramKeeps ==
  ASSUME CellsSound, NEW b \in Bank, NEW o \in 0 .. Words,
         NEW k \in Key, NEW v \in Value \cup {Gone}, NEW n \in Nat, n = Total(k, v),
         o + n <= Words, cell' = Programmed(b, o, Record(k, v), n)
  PROVE  /\ CellsSound' /\ cell'[1 - b] = cell[1 - b]
         /\ \A i \in Index :
              cell'[b][i] = IF i \in o + 1 .. o + n THEN Record(k, v)[i - o] ELSE cell[b][i]
<1>0. Words \in Nat /\ Bank = {0, 1} /\ 1 - b \in Bank /\ 1 - b # b
  BY NvsAssumption DEF Bank
<1>1. cell = [a \in Bank |-> [i \in Index |-> cell[a][i]]]
  BY DEF CellsSound
<1> DEFINE u == [i \in Index |-> IF i \in o + 1 .. o + n THEN Record(k, v)[i - o] ELSE cell[b][i]]
<1>2. cell' = [cell EXCEPT ![b] = u]
  BY <1>0, <1>1 DEF Programmed
<1>3. cell' = [a \in Bank |-> IF a = b THEN u ELSE cell[a]]
  <2>1. PICK x : x = u
    OBVIOUS
  <2> HIDE DEF u
  <2>2. cell' = [cell EXCEPT ![b] = x] /\ DOMAIN cell = Bank
    BY <1>1, <1>2, <2>1
  <2>3. cell' = [a \in Bank |-> IF a = b THEN x ELSE cell[a]]
    BY <1>0, <2>2
  <2> QED
    BY <2>1, <2>3
<1>4. cell'[b] = u /\ \A a \in Bank : a # b => cell'[a] = cell[a]
  BY <1>3
<1>5. \A i \in Index :
        cell'[b][i] = IF i \in o + 1 .. o + n THEN Record(k, v)[i - o] ELSE cell[b][i]
  BY <1>4
<1>6. \A a \in Bank : cell'[a] = [i \in Index |-> cell'[a][i]]
  <2> SUFFICES ASSUME NEW a \in Bank PROVE cell'[a] = [i \in Index |-> cell'[a][i]]
    OBVIOUS
  <2>1. CASE a = b
    BY <1>4, <2>1
  <2>2. CASE a # b
    <3>1. cell'[a] = cell[a] /\ cell[a] = [i \in Index |-> cell[a][i]]
      BY <1>1, <1>4, <2>2
    <3> QED
      BY <3>1
  <2> QED
    BY <2>1, <2>2
<1> HIDE DEF u
<1>7. cell' = [a \in Bank |-> [i \in Index |-> cell'[a][i]]]
  <2>1. cell' = [a \in Bank |-> cell'[a]]
    BY <1>3
  <2> QED
    BY <1>6, <2>1
<1>8. CellsSound'
  <2>1. ASSUME NEW i \in Index, i \in o + 1 .. o + n
        PROVE  /\ i <= Words /\ i - o \in 1 .. Total(k, v) /\ o + Total(k, v) <= Words
               /\ o \in Nat /\ cell'[b][i] = Record(k, v)[i - o]
    BY <1>0, <1>5, <2>1 DEF Index
  <2>2. ASSUME NEW a \in Bank, NEW i \in Index
        PROVE  \/ cell'[a][i] = cell[a][i]
               \/ /\ i <= Words
                  /\ \E j \in Key, w \in Value \cup {Gone} : \E q \in Nat :
                       /\ i - q \in 1 .. Total(j, w) /\ q + Total(j, w) <= Words
                       /\ cell'[a][i] = Record(j, w)[i - q]
    <3>1. CASE a = b /\ i \in o + 1 .. o + n
      BY <2>1, <3>1
    <3>2. CASE ~(a = b /\ i \in o + 1 .. o + n)
      BY <1>4, <1>5, <3>2
    <3> QED
      BY <3>1, <3>2
  <2> QED
    BY <1>7, <2>2, CellsStaySound
<1> QED
  BY <1>0, <1>4, <1>5, <1>8

(* No record begins inside another. *)
LEMMA NoneInside ==
  ASSUME NEW b \in Bank, HeadsInside(b), NEW p \in Boundaries(b), IsHead(b, p),
         NEW q \in Boundaries(b), q > p
  PROVE  q >= Next0(b, p)
<1> DEFINE B == Boundaries(b)
           In(o) == {m \in B : m > o /\ m < Next0(b, o)}
           Bad == {o \in B : IsHead(b, o) /\ In(o) # {}}
<1>0. Scanned(b, B) /\ Words \in Nat
  BY BoundariesAre, NvsAssumption
<1>1. B \in SUBSET Offset /\ Offset \in SUBSET Nat
  BY <1>0 DEF Scanned, Offset
<1>2. \A o \in B : IsHead(b, o) => Next0(b, o) \in Offset /\ Next0(b, o) >= o + 2
  BY <1>1, NextInside
<1>3. Bad = {}
  <2> SUFFICES ASSUME Bad # {} PROVE FALSE
    OBVIOUS
  <2>1. PICK o \in Bad : \A x \in Bad : o <= x
    <3>1. Bad \in SUBSET Nat
      BY <1>1
    <3> HIDE DEF Bad
    <3> QED
      BY <3>1, Least
  <2>2. o \in B /\ IsHead(b, o) /\ In(o) # {}
    BY <2>1
  <2>3. PICK m \in In(o) : \A x \in In(o) : m <= x
    <3>1. In(o) \in SUBSET Nat
      BY <1>1
    <3> HIDE DEF In
    <3> QED
      BY <2>2, <3>1, Least
  <2>4. m \in B /\ m > o /\ m < Next0(b, o)
    BY <2>3
  <2>5. o \in Nat /\ m \in Nat /\ Next0(b, o) \in Nat
    BY <1>1, <1>2, <2>2, <2>4
  <2>6. m \in B \ {0}
    BY <2>4, <2>5
  <2>7. PICK r \in B : IsHead(b, r) /\ Next0(b, r) = m
    BY <1>0, <2>6 DEF Scanned
  <2>8. r \in Nat /\ r < m
    BY <1>1, <1>2, <2>5, <2>7
  <2>9. CASE r > o
    <3>1. r \in In(o)
      BY <2>4, <2>5, <2>7, <2>8, <2>9
    <3> QED
      BY <2>3, <2>5, <2>8, <3>1
  <2>10. CASE r = o
    BY <2>4, <2>5, <2>7, <2>10
  <2>11. CASE r < o
    <3>1. o \in In(r)
      BY <2>2, <2>4, <2>5, <2>7, <2>11
    <3>2. r \in Bad
      BY <2>7, <3>1
    <3> QED
      BY <2>1, <2>5, <2>8, <2>11, <3>2
  <2> QED
    BY <2>5, <2>8, <2>9, <2>10, <2>11
<1>4. In(p) = {}
  BY <1>3
<1>5. q \in Nat /\ Next0(b, p) \in Nat
  BY <1>1, <1>2
<1> QED
  BY <1>4, <1>5
-----------------------------------------------------------------------------
(* Every step keeps the invariant. *)

LEMMA InitHolds ==
  ASSUME NEW big, Init
  PROVE  NvsInv(big)
<1>0. Words \in Nat /\ Bank = {0, 1}
  BY NvsAssumption DEF Bank
<1>1. \A b \in Bank, i \in Index : cell[b][i] = Blank
  BY DEF Init
<1>2. CellsSound
  <2>1. cell = [b \in Bank |-> [i \in Index |-> cell[b][i]]]
    BY DEF Init
  <2>2. \A b \in Bank, o \in 0 .. Words + 1 : ~IsHead(b, o)
    BY <1>1 DEF IsHead, Blank
  <2> QED
    BY <1>1, <2>1, <2>2 DEF CellsSound, HeadsInside
<1>3. \A b \in Bank : header[b] = Invalid
  BY DEF Init
<1>4. header \in [Bank -> {Invalid} \cup 0 .. SeqRange - 1]
  BY DEF Init
<1>5. BanksHold
  BY <1>0, <1>3 DEF BanksHold
<1>6. pc = "off" /\ active = 0 /\ offset = 0 /\ job = <<>> /\ may = [k \in Key |-> {Gone}]
  BY DEF Init
<1>7. may \in [Key -> SUBSET Answer] /\ \A k \in Key : Gone \in may[k]
  BY <1>6 DEF Answer
<1> QED
  BY <1>0, <1>2, <1>3, <1>4, <1>5, <1>6, <1>7
  DEF NvsInv, FlashSound, CallHolds, FormatHolds, RestHolds, InCall, InFormat, Pc

(* What the invariant says of the flash. *)
LEMMA ValidLogs ==
  ASSUME FlashSound
  PROVE  /\ \A b \in Bank : header[b] # Invalid => LogSound(b, ScanEnd(b)) /\ ScanEnd(b) \in 0 .. Words
         /\ CellsSound
         /\ \A b \in Bank : header[b] # Invalid => header[b] \in 0 .. SeqRange - 1
         /\ \A b \in Bank : header[b] = Invalid \/ header[b] \in 0 .. SeqRange - 1
  BY DEF FlashSound, LogSound

LEMMA FlashUnchanged ==
  ASSUME FlashSound, UNCHANGED flash
  PROVE  /\ FlashSound' /\ header' = header /\ \A b \in Bank : SameUpTo(b, Words)
         /\ \A b \in Bank : header[b] # Invalid =>
              ScanEnd(b)' = ScanEnd(b) /\ \A k \in Key : Holds(b, k)' = Holds(b, k)
<1>1. header' = header /\ cell' = cell
  BY DEF flash
<1>2. CellsSound'
  BY <1>1, CellsStaySound DEF FlashSound, CellsSound
<1>3. \A b \in Bank : SameUpTo(b, Words)
  BY <1>1 DEF SameUpTo
<1>4. ASSUME NEW b \in Bank, header[b] # Invalid
      PROVE  /\ LogSound(b, ScanEnd(b))' /\ ScanEnd(b)' = ScanEnd(b)
             /\ \A k \in Key : Holds(b, k)' = Holds(b, k)
  BY <1>2, <1>3, <1>4, BankUntouched DEF FlashSound
<1>5. FlashSound'
  BY <1>1, <1>2, <1>4 DEF FlashSound
<1> QED
  BY <1>1, <1>3, <1>4, <1>5

(* When a bank's header goes, the other bank is what it was. *)
LEMMA EraseStep ==
  ASSUME FlashSound, NEW b \in Bank, Erase(b)
  PROVE  /\ FlashSound' /\ header' = [header EXCEPT ![b] = Invalid]
         /\ header'[b] = Invalid /\ header'[1 - b] = header[1 - b]
         /\ BlankUpTo(b, Words)' /\ SameUpTo(1 - b, Words)
         /\ b = 1 => \A i \in Index : i > Words => cell'[0][i] = Blank
         /\ header[1 - b] # Invalid =>
              /\ ScanEnd(1 - b)' = ScanEnd(1 - b)
              /\ \A k \in Key : Holds(1 - b, k)' = Holds(1 - b, k)
<1>0. 1 - b \in Bank /\ 1 - b # b /\ \A a \in Bank : a # b => a = 1 - b
  BY DEF Bank
<1>1. /\ CellsSound' /\ BlankUpTo(b, Words)' /\ SameUpTo(1 - b, Words)
      /\ (b = 1 => \A i \in Index : i > Words => cell'[0][i] = Blank)
  BY EraseKeeps DEF FlashSound, Erase
<1>2. /\ header \in [Bank -> {Invalid} \cup 0 .. SeqRange - 1]
      /\ header' = [header EXCEPT ![b] = Invalid]
  BY DEF FlashSound, Erase
<1>3. /\ header' \in [Bank -> {Invalid} \cup 0 .. SeqRange - 1]
      /\ header'[b] = Invalid /\ header'[1 - b] = header[1 - b]
  BY <1>0, <1>2
<1>4. ASSUME header[1 - b] # Invalid
      PROVE  /\ LogSound(1 - b, ScanEnd(1 - b))' /\ ScanEnd(1 - b)' = ScanEnd(1 - b)
             /\ \A k \in Key : Holds(1 - b, k)' = Holds(1 - b, k)
  BY <1>0, <1>1, <1>4, BankUntouched DEF FlashSound
<1>5. ASSUME NEW a \in Bank, header'[a] # Invalid PROVE LogSound(a, ScanEnd(a))'
  <2>1. a = 1 - b
    BY <1>0, <1>3, <1>5
  <2> QED
    BY <1>3, <1>4, <1>5, <2>1
<1>6. FlashSound'
  BY <1>1, <1>3, <1>5 DEF FlashSound
<1> QED
  BY <1>1, <1>2, <1>3, <1>4, <1>6

(* One valid bank: it is all that has to answer right. *)
LEMMA OneBankHolds ==
  ASSUME NEW a \in Bank, header'[1 - a] = Invalid, \A k \in Key : Holds(a, k)' \in may'[k]
  PROVE  BanksHold'
<1>1. 0 \in Bank /\ 1 \in Bank /\ \A b \in Bank : b = a \/ b = 1 - a
  BY DEF Bank
<1>2. header'[0] = Invalid \/ header'[1] = Invalid
  BY DEF Bank
<1> QED
  BY <1>1, <1>2 DEF BanksHold

LEMMA BanksStay ==
  ASSUME FlashSound, UNCHANGED flash, BanksHold, \A k \in Key : may[k] \subseteq may'[k]
  PROVE  BanksHold'
<1>1. /\ header' = header
      /\ \A b \in Bank : header[b] # Invalid => \A k \in Key : Holds(b, k)' = Holds(b, k)
  BY FlashUnchanged
<1>2. 0 \in Bank /\ 1 \in Bank
  BY DEF Bank
<1> QED
  BY <1>1, <1>2 DEF BanksHold

(* What holds while bank a is active. *)
LEMMA Now ==
  ASSUME NEW big, NvsInv(big)
  PROVE  \E a \in Bank :
           /\ a = active /\ CallHolds(a, big) /\ FormatHolds(a) /\ RestHolds(a)
           /\ 1 - a \in Bank /\ 1 - (1 - a) = a /\ \A b \in Bank : b = a \/ b = 1 - a
           /\ 1 - a = Alt
<1>1. PICK a \in Bank : a = active
  BY DEF NvsInv
<1>2. 1 - a \in Bank /\ 1 - (1 - a) = a /\ \A b \in Bank : b = a \/ b = 1 - a
  BY DEF Bank
<1> QED
  BY <1>1, <1>2 DEF NvsInv, Alt

LEMMA MountKeeps ==
  ASSUME NEW big, NvsInv(big), Mount
  PROVE  NvsInv(big)'
<1>0. Words \in Nat /\ 0 \in Bank /\ 1 \in Bank /\ Bank = {0, 1}
  BY NvsAssumption DEF Bank
<1>1. PICK a \in Bank :
        a = active /\ CallHolds(a, big) /\ FormatHolds(a) /\ RestHolds(a)
  BY Now
<1>2. pc = "off" /\ UNCHANGED flash /\ job' = job /\ may' = may
  BY DEF Mount, loop, client
<1>3. FlashSound /\ may \in [Key -> SUBSET Answer]
  BY DEF NvsInv
<1>4. FlashSound' /\ header' = header
  BY <1>2, <1>3, FlashUnchanged
<1>5. BanksHold /\ a = 0 /\ offset = 0 /\ job = <<>>
  BY <1>1, <1>2 DEF CallHolds, RestHolds
<1>6. BanksHold'
  BY <1>2, <1>3, <1>5, BanksStay
<1>7. CASE {b \in Bank : header[b] # Invalid} = {}
  <2>1. pc' = "format0" /\ active' = active /\ offset' = offset /\ sequence' = sequence
    BY <1>7 DEF Mount, ram
  <2>2. \A b \in Bank : header[b] = Invalid
    BY <1>7
  <2>3. header = [b \in Bank |-> Invalid] /\ DOMAIN header = Bank
    BY <1>3, <2>2 DEF FlashSound
  <2>4. CallHolds(a, big)'
    BY <1>6, <2>1 DEF CallHolds, InCall
  <2>5. FormatHolds(a)'
    BY <1>0, <1>1, <1>2, <1>4, <1>5, <2>1, <2>2, <2>3 DEF FormatHolds
  <2>6. RestHolds(a)'
    BY <2>1 DEF RestHolds
  <2> QED
    BY <1>0, <1>1, <1>2, <1>3, <1>4, <1>5, <2>1, <2>4, <2>5, <2>6 DEF NvsInv, Pc
<1>8. CASE {b \in Bank : header[b] # Invalid} # {}
  <2>1. PICK n \in Bank : n = Newest
    BY <1>0 DEF Newest
  <2>2. header[n] # Invalid
    <3>1. \A b \in Bank : header[b] = Invalid \/ header[b] \in Nat
      BY <1>3, ValidLogs, NvsAssumption
    <3>2. header[0] # Invalid \/ header[1] # Invalid
      BY <1>0, <1>8
    <3> QED
      BY <1>0, <2>1, <3>1, <3>2 DEF Newest, Invalid
  <2>3. /\ active' = n /\ sequence' = header[n] /\ offset' = ScanEnd(n)
        /\ pc' = IF {b \in Bank : header[b] # Invalid} = Bank THEN "drop" ELSE "idle"
    BY <1>8, <2>1 DEF Mount
  <2>4. ScanEnd(n) \in 0 .. Words /\ ScanEnd(n)' = ScanEnd(n)
    BY <1>2, <1>3, <2>2, ValidLogs, FlashUnchanged
  <2>5. pc' \in {"drop", "idle"} /\ (pc' = "idle" => header[1 - n] = Invalid)
    <3>1. ASSUME header[1 - n] # Invalid PROVE {b \in Bank : header[b] # Invalid} = Bank
      <4>1. \A b \in Bank : header[b] # Invalid
        BY <1>0, <2>2, <3>1 DEF Bank
      <4> QED
        BY <4>1
    <3> QED
      BY <2>3, <3>1
  <2>6. CallHolds(n, big)'
    BY <1>4, <1>6, <2>2, <2>3, <2>4, <2>5 DEF CallHolds, InCall
  <2>7. FormatHolds(n)'
    <3>1. header' # [b \in Bank |-> Invalid]
      BY <1>4, <2>2
    <3> QED
      BY <2>5, <3>1 DEF FormatHolds, InFormat
  <2>8. RestHolds(n)'
    BY <1>2, <1>5, <2>5 DEF RestHolds
  <2> QED
    BY <1>2, <1>3, <1>4, <2>3, <2>4, <2>5, <2>6, <2>7, <2>8 DEF NvsInv, Pc
<1> QED
  BY <1>7, <1>8

LEMMA DropKeeps ==
  ASSUME NEW big, NvsInv(big), Drop
  PROVE  NvsInv(big)'
<1>1. PICK a \in Bank :
        /\ a = active /\ CallHolds(a, big) /\ FormatHolds(a) /\ RestHolds(a)
        /\ 1 - a \in Bank /\ 1 - (1 - a) = a
  BY Now
<1>2. /\ pc = "drop" /\ pc' = "idle" /\ Erase(1 - a)
      /\ active' = a /\ offset' = offset /\ sequence' = sequence
      /\ job' = job /\ may' = may
  BY <1>1 DEF Drop, At, ram, loop, client
<1>3. FlashSound /\ may \in [Key -> SUBSET Answer] /\ offset \in 0 .. Words
  BY DEF NvsInv
<1>4. offset = ScanEnd(a) /\ sequence = header[a] /\ header[a] # Invalid /\ BanksHold /\ job = <<>>
  BY <1>1, <1>2 DEF CallHolds, RestHolds
<1>5. /\ FlashSound' /\ header'[1 - a] = Invalid /\ header'[a] = header[a]
      /\ ScanEnd(a)' = ScanEnd(a) /\ \A k \in Key : Holds(a, k)' = Holds(a, k)
  BY <1>1, <1>2, <1>3, <1>4, EraseStep
<1>6. BanksHold'
  <2>1. \A k \in Key : Holds(a, k)' \in may'[k]
    BY <1>2, <1>4, <1>5 DEF BanksHold
  <2> QED
    BY <1>5, <2>1, OneBankHolds
<1>7. CallHolds(a, big)'
  BY <1>2, <1>4, <1>5, <1>6 DEF CallHolds, InCall
<1>8. FormatHolds(a)'
  <2>1. header' # [b \in Bank |-> Invalid]
    BY <1>4, <1>5
  <2> QED
    BY <1>2, <2>1 DEF FormatHolds, InFormat
<1>9. RestHolds(a)'
  BY <1>2, <1>4 DEF RestHolds
<1> QED
  BY <1>2, <1>3, <1>5, <1>7, <1>8, <1>9 DEF NvsInv, Pc

LEMMA FormatKeeps ==
  ASSUME NEW big, NvsInv(big), Format
  PROVE  NvsInv(big)'
<1>1. PICK a \in Bank :
        /\ a = active /\ CallHolds(a, big) /\ FormatHolds(a) /\ RestHolds(a)
        /\ 1 - a \in Bank /\ 1 - (1 - a) = a
  BY Now
<1>2. /\ pc = "idle" /\ pc' = "format0" /\ UNCHANGED flash
      /\ active' = a /\ offset' = offset /\ job' = Formatting
      /\ may' = [k \in Key |-> may[k] \cup {Gone}]
  BY <1>1 DEF Format, At, ram, loop
<1>3. FlashSound /\ may \in [Key -> SUBSET Answer] /\ offset \in 0 .. Words
  BY DEF NvsInv
<1>4. offset = ScanEnd(a) /\ header[a] # Invalid /\ header[1 - a] = Invalid /\ BanksHold
  BY <1>1, <1>2 DEF CallHolds
<1>5. FlashSound' /\ header' = header /\ ScanEnd(a)' = ScanEnd(a)
  BY <1>2, <1>3, <1>4, FlashUnchanged
<1>6. \A k \in Key : may[k] \subseteq may'[k] /\ Gone \in may'[k]
  BY <1>2, <1>3
<1>7. BanksHold'
  BY <1>2, <1>3, <1>4, <1>6, BanksStay
<1>8. CallHolds(a, big)'
  BY <1>2, <1>7 DEF CallHolds, InCall
<1>9. FormatHolds(a)'
  BY <1>2, <1>4, <1>5, <1>6 DEF FormatHolds, InFormat
<1>10. RestHolds(a)'
  BY <1>2 DEF RestHolds
<1>11. may' \in [Key -> SUBSET Answer]
  BY <1>2, <1>3 DEF Answer
<1> QED
  BY <1>2, <1>3, <1>5, <1>8, <1>9, <1>10, <1>11 DEF NvsInv, Pc

LEMMA EraseBanksHold ==
  ASSUME FlashSound, NEW b \in Bank, Erase(b), BanksHold, may' = may
  PROVE  BanksHold'
<1>1. /\ header'[b] = Invalid /\ header'[1 - b] = header[1 - b]
      /\ header[1 - b] # Invalid => \A k \in Key : Holds(1 - b, k)' = Holds(1 - b, k)
  BY EraseStep
<1>2. 0 \in Bank /\ 1 \in Bank /\ \A a \in Bank : a = b \/ a = 1 - b
  BY DEF Bank
<1>3. header'[0] = Invalid \/ header'[1] = Invalid
  BY <1>1 DEF Bank
<1> QED
  BY <1>1, <1>2, <1>3 DEF BanksHold

LEMMA BlankStays ==
  ASSUME NEW b \in Bank, SameUpTo(b, Words), BlankUpTo(b, Words)
  PROVE  BlankUpTo(b, Words)'
<1>1. \A i \in Index : i <= Words => i \in 1 .. Words
  BY NvsAssumption DEF Index
<1> QED
  BY <1>1 DEF SameUpTo, BlankUpTo

LEMMA FormatEraseKeeps ==
  ASSUME NEW big, NvsInv(big), NEW b \in Bank, FormatErase(b)
  PROVE  NvsInv(big)'
<1>0. Words \in Nat /\ Bank = {0, 1}
  BY NvsAssumption DEF Bank
<1>1. PICK a \in Bank :
        /\ a = active /\ CallHolds(a, big) /\ FormatHolds(a) /\ RestHolds(a)
        /\ 1 - a \in Bank /\ 1 - (1 - a) = a
  BY Now
<1>2. /\ pc = IF b = 0 THEN "format0" ELSE "format1"
      /\ pc' = IF b = 0 THEN "format1" ELSE "format_header"
      /\ Erase(b) /\ active' = a /\ offset' = offset /\ job' = job /\ may' = may
  BY <1>1 DEF FormatErase, At, ram, loop, client
<1>3. FlashSound /\ may \in [Key -> SUBSET Answer] /\ offset \in 0 .. Words
  BY DEF NvsInv
<1>4. /\ FlashSound' /\ header'[b] = Invalid /\ header'[1 - b] = header[1 - b]
      /\ BlankUpTo(b, Words)' /\ SameUpTo(1 - b, Words)
      /\ b = 1 => \A i \in Index : i > Words => cell'[0][i] = Blank
      /\ header[1 - b] # Invalid => ScanEnd(1 - b)' = ScanEnd(1 - b)
  BY <1>2, <1>3, EraseStep
<1>5. /\ \A k \in Key : Gone \in may[k]
      /\ header[1 - a] = Invalid /\ job \in {<<>>, Formatting}
      /\ header[a] = Invalid => offset = 0 \/ BlankUpTo(a, Words)
      /\ header[a] # Invalid => offset = ScanEnd(a) /\ job = Formatting
  BY <1>1, <1>2 DEF FormatHolds, InFormat
<1>6. BanksHold'
  BY <1>1, <1>2, <1>3, EraseBanksHold DEF CallHolds
<1>7. CallHolds(a, big)'
  BY <1>2, <1>6 DEF CallHolds, InCall
<1>8. /\ header'[1 - a] = Invalid
      /\ header'[a] = Invalid => offset = 0 \/ BlankUpTo(a, Words)'
      /\ header'[a] # Invalid => offset = ScanEnd(a)' /\ job = Formatting
  <2>1. CASE a = b
    BY <1>4, <1>5, <2>1
  <2>2. CASE a # b
    <3>1. a = 1 - b /\ b = 1 - a
      BY <2>2 DEF Bank
    <3>2. BlankUpTo(a, Words) => BlankUpTo(a, Words)'
      BY <1>4, <3>1, BlankStays
    <3> QED
      BY <1>4, <1>5, <3>1, <3>2
  <2> QED
    BY <2>1, <2>2
<1>9. header'[0] = Invalid /\ BlankUpTo(0, Words)'
  <2>1. CASE b = 0
    BY <1>4, <2>1
  <2>2. CASE b = 1
    <3>1. header[0] = Invalid /\ BlankUpTo(0, Words)
      BY <1>1, <1>2, <2>2 DEF FormatHolds
    <3>2. BlankUpTo(0, Words)'
      BY <1>0, <1>4, <2>2, <3>1, BlankStays
    <3> QED
      BY <1>4, <2>2, <3>1, <3>2
  <2> QED
    BY <1>0, <2>1, <2>2
<1>10. b = 1 => header'[1] = Invalid /\ BlankUpTo(0, Words + 2)'
  <2> SUFFICES ASSUME b = 1 PROVE header'[1] = Invalid /\ BlankUpTo(0, Words + 2)'
    OBVIOUS
  <2>1. \A i \in Index : i <= Words \/ i > Words
    BY <1>0 DEF Index
  <2> QED
    BY <1>4, <1>9, <2>1 DEF BlankUpTo
<1>11. FormatHolds(a)'
  BY <1>0, <1>2, <1>5, <1>8, <1>9, <1>10 DEF FormatHolds, InFormat
<1>12. RestHolds(a)'
  BY <1>2 DEF RestHolds
<1> QED
  BY <1>2, <1>3, <1>4, <1>7, <1>11, <1>12 DEF NvsInv, Pc

(* A header is written: what it leaves of the logs. *)
LEMMA HeaderStep ==
  ASSUME FlashSound, NEW b \in Bank, NEW seq \in 0 .. SeqRange - 1, WriteHeader(b, seq),
         BlankUpTo(b, Words)
  PROVE  /\ FlashSound' /\ header'[b] = seq /\ header'[1 - b] = header[1 - b]
         /\ SameUpTo(1 - b, Words)
         /\ ScanEnd(b)' = 0 /\ \A k \in Key : Lookup(b, 0, k)' = Gone /\ Holds(b, k)' = Gone
         /\ header[1 - b] # Invalid =>
              /\ ScanEnd(1 - b)' = ScanEnd(1 - b)
              /\ \A k \in Key : Holds(1 - b, k)' = Holds(1 - b, k)
<1>0. 1 - b \in Bank /\ 1 - b # b /\ \A a \in Bank : a # b => a = 1 - b
  BY DEF Bank
<1>1. /\ CellsSound' /\ SameUpTo(b, Words) /\ SameUpTo(1 - b, Words)
      /\ header' = [header EXCEPT ![b] = seq]
  <2>1. \A a \in Bank : a = 0 \/ a = 1
    BY DEF Bank
  <2> QED
    BY <1>0, <2>1, HeaderKeeps DEF FlashSound
<1>2. /\ header' \in [Bank -> {Invalid} \cup 0 .. SeqRange - 1]
      /\ header'[b] = seq /\ header'[1 - b] = header[1 - b]
  BY <1>0, <1>1 DEF FlashSound
<1>3. BlankUpTo(b, Words)'
  BY <1>1, BlankStays
<1>4. /\ LogSound(b, 0)' /\ ScanEnd(b)' = 0
      /\ \A k \in Key : Lookup(b, 0, k)' = Gone
  BY <1>1, <1>3, BankEmptyNext
<1>5. LogSound(b, ScanEnd(b))' <=> LogSound(b, 0)'
  BY <1>4 DEF LogSound
<1>6. \A k \in Key : Holds(b, k)' = Lookup(b, 0, k)'
  BY <1>4 DEF Holds, Lookup, Records
<1>7. ASSUME header[1 - b] # Invalid
      PROVE  /\ LogSound(1 - b, ScanEnd(1 - b))' /\ ScanEnd(1 - b)' = ScanEnd(1 - b)
             /\ \A k \in Key : Holds(1 - b, k)' = Holds(1 - b, k)
  BY <1>0, <1>1, <1>7, BankUntouched DEF FlashSound
<1>8. ASSUME NEW a \in Bank, header'[a] # Invalid PROVE LogSound(a, ScanEnd(a))'
  <2>1. CASE a = b
    BY <1>4, <1>5, <2>1
  <2>2. CASE a = 1 - b
    BY <1>2, <1>7, <1>8, <2>2
  <2> QED
    BY <1>0, <2>1, <2>2
<1>9. FlashSound'
  BY <1>1, <1>2, <1>8 DEF FlashSound
<1> QED
  BY <1>1, <1>2, <1>4, <1>6, <1>7, <1>9

LEMMA FormatHeaderKeeps ==
  ASSUME NEW big, NvsInv(big), FormatHeader
  PROVE  NvsInv(big)'
<1>0. Words \in Nat /\ Bank = {0, 1} /\ 0 \in Bank /\ 1 \in 0 .. SeqRange - 1
  BY NvsAssumption DEF Bank
<1>1. PICK a \in Bank : CallHolds(a, big) /\ FormatHolds(a)
  BY Now
<1>2. /\ pc = "format_header" /\ pc' = "idle" /\ WriteHeader(0, 1)
      /\ active' = 0 /\ offset' = 0 /\ sequence' = 1 /\ job' = <<>>
      /\ may' = [k \in Key |-> may[k] \cap {Gone}]
  BY DEF FormatHeader, At
<1>3. FlashSound /\ may \in [Key -> SUBSET Answer]
  BY DEF NvsInv
<1>4. header[1] = Invalid /\ BlankUpTo(0, Words) /\ \A k \in Key : Gone \in may[k]
  BY <1>1, <1>2 DEF FormatHolds, InFormat
<1>5. /\ FlashSound' /\ header'[0] = 1 /\ header'[1] = Invalid
      /\ ScanEnd(0)' = 0 /\ \A k \in Key : Holds(0, k)' = Gone
  <2>1. 1 - 0 = 1
    OBVIOUS
  <2> QED
    BY <1>0, <1>2, <1>3, <1>4, <2>1, HeaderStep
<1>6. \A k \in Key : Gone \in may'[k]
  BY <1>2, <1>4
<1>7. BanksHold'
  <2>1. header'[1 - 0] = Invalid /\ \A k \in Key : Holds(0, k)' \in may'[k]
    BY <1>5, <1>6
  <2> QED
    BY <1>0, <2>1, OneBankHolds
<1>8. CallHolds(0, big)'
  BY <1>2, <1>5, <1>7 DEF CallHolds, InCall, Invalid
<1>9. FormatHolds(0)'
  BY <1>2, <1>6 DEF FormatHolds, InFormat
<1>10. RestHolds(0)'
  BY <1>2 DEF RestHolds
<1>11. may' \in [Key -> SUBSET Answer]
  BY <1>2, <1>3
<1> QED
  BY <1>0, <1>2, <1>5, <1>8, <1>9, <1>10, <1>11 DEF NvsInv, Pc

LEMMA StartKeeps ==
  ASSUME NEW big, NvsInv(big), NEW k \in Key, NEW v \in Value \cup {Gone}, Start(k, v)
  PROVE  NvsInv(big)'
<1>0. Words \in Nat /\ Total(k, v) \in Nat
  BY NvsAssumption, RecordWords
<1>1. PICK a \in Bank :
        /\ a = active /\ CallHolds(a, big) /\ FormatHolds(a) /\ RestHolds(a)
        /\ 1 - a \in Bank /\ 1 - (1 - a) = a
  BY Now
<1>2. /\ pc = "idle" /\ pc' = IF offset + Total(k, v) > Words THEN "compact_erase" ELSE "append"
      /\ UNCHANGED flash /\ active' = a /\ offset' = offset /\ sequence' = sequence
      /\ job' = <<k, v>> /\ may' = [may EXCEPT ![k] = @ \cup {v}]
  BY <1>1 DEF Start, ram, loop
<1>3. FlashSound /\ may \in [Key -> SUBSET Answer] /\ offset \in 0 .. Words
  BY DEF NvsInv
<1>4. /\ offset = ScanEnd(a) /\ sequence = header[a] /\ header[a] # Invalid
      /\ header[1 - a] = Invalid /\ BanksHold
  BY <1>1, <1>2 DEF CallHolds
<1>5. FlashSound' /\ header' = header /\ ScanEnd(a)' = ScanEnd(a)
  BY <1>2, <1>3, <1>4, FlashUnchanged
<1>6. may' \in [Key -> SUBSET Answer] /\ \A j \in Key : may[j] \subseteq may'[j]
  BY <1>2, <1>3 DEF Answer
<1>7. BanksHold'
  BY <1>2, <1>3, <1>4, <1>6, BanksStay
<1>8. \A j \in Key, w \in Value \cup {Gone} :
        job' = <<j, w>> /\ pc' = "append" => offset' + Total(j, w) <= Words
  <2>1. \A j, w : job' = <<j, w>> => j = k /\ w = v
    BY <1>2
  <2> QED
    BY <1>0, <1>2, <1>3, <2>1
<1>9. CallHolds(a, big)'
  <2>1. pc' \in {"compact_erase", "append"} /\ job' \in Key \X (Value \cup {Gone})
    BY <1>2
  <2> QED
    BY <1>2, <1>4, <1>5, <1>7, <1>8, <2>1 DEF CallHolds, InCall
<1>10. FormatHolds(a)'
  <2>1. header' # [b \in Bank |-> Invalid]
    BY <1>4, <1>5
  <2> QED
    BY <1>2, <2>1 DEF FormatHolds, InFormat
<1>11. RestHolds(a)'
  BY <1>2 DEF RestHolds
<1> QED
  BY <1>2, <1>3, <1>5, <1>6, <1>9, <1>10, <1>11 DEF NvsInv, Pc

LEMMA NoFormatHolds ==
  ASSUME NEW a \in Bank, header'[a] # Invalid, pc' \notin {"format0", "format1", "format_header"}
  PROVE  FormatHolds(a)'
<1>1. header' # [b \in Bank |-> Invalid]
  OBVIOUS
<1> QED
  BY <1>1 DEF FormatHolds, InFormat

LEMMA CompactEraseKeeps ==
  ASSUME NEW big, NvsInv(big), CompactErase
  PROVE  NvsInv(big)'
<1>1. PICK a \in Bank :
        /\ a = active /\ CallHolds(a, big) /\ FormatHolds(a) /\ RestHolds(a)
        /\ 1 - a \in Bank /\ 1 - (1 - a) = a /\ 1 - a = Alt
  BY Now
<1>2. /\ pc = "compact_erase" /\ pc' = "compact_header" /\ Erase(1 - a)
      /\ active' = a /\ offset' = offset /\ sequence' = sequence /\ job' = job /\ may' = may
  BY <1>1 DEF CompactErase, At, ram, loop, client
<1>3. FlashSound /\ may \in [Key -> SUBSET Answer] /\ offset \in 0 .. Words
  BY DEF NvsInv
<1>4. /\ offset = ScanEnd(a) /\ sequence = header[a] /\ header[a] # Invalid /\ BanksHold
      /\ job \in Key \X (Value \cup {Gone})
  BY <1>1, <1>2 DEF CallHolds, InCall
<1>5. /\ FlashSound' /\ header'[1 - a] = Invalid /\ header'[a] = header[a]
      /\ BlankUpTo(1 - a, Words)' /\ ScanEnd(a)' = ScanEnd(a)
  BY <1>1, <1>2, <1>3, <1>4, EraseStep
<1>6. BanksHold'
  BY <1>1, <1>2, <1>3, <1>4, EraseBanksHold
<1>7. CallHolds(a, big)'
  BY <1>2, <1>4, <1>5, <1>6 DEF CallHolds, InCall
<1>8. FormatHolds(a)' /\ RestHolds(a)'
  BY <1>2, <1>4, <1>5, NoFormatHolds DEF RestHolds
<1> QED
  BY <1>2, <1>3, <1>5, <1>7, <1>8 DEF NvsInv, Pc

LEMMA NextSequenceFits == sequence \in Nat => NextSequence \in 0 .. SeqRange - 1
  BY NvsAssumption DEF NextSequence

LEMMA CompactHeaderKeeps ==
  ASSUME NEW big \in Nat, NvsInv(big), CompactHeader
  PROVE  NvsInv(big)'
<1>0. Words \in Nat /\ SeqRange \in Nat
  BY NvsAssumption
<1>1. PICK a \in Bank :
        /\ a = active /\ CallHolds(a, big) /\ FormatHolds(a) /\ RestHolds(a)
        /\ 1 - a \in Bank /\ 1 - (1 - a) = a /\ 1 - a = Alt
  BY Now
<1>2. PICK seq : seq = NextSequence
  OBVIOUS
<1>3. /\ pc = "compact_header" /\ pc' = "copy" /\ WriteHeader(1 - a, seq)
      /\ active' = a /\ offset' = offset /\ sequence' = sequence /\ job' = job /\ may' = may
      /\ src' = 0 /\ dst' = 0
  BY <1>1, <1>2 DEF CompactHeader, At, ram, client
<1>4. FlashSound /\ may \in [Key -> SUBSET Answer] /\ offset \in 0 .. Words
  BY DEF NvsInv
<1>5. /\ offset = ScanEnd(a) /\ sequence = header[a] /\ header[a] # Invalid /\ BanksHold
      /\ job \in Key \X (Value \cup {Gone}) /\ BlankUpTo(1 - a, Words)
  BY <1>1, <1>3 DEF CallHolds, InCall
<1>6. seq \in 0 .. SeqRange - 1
  BY <1>0, <1>2, <1>4, <1>5, ValidLogs, NextSequenceFits
<1>7. /\ FlashSound' /\ header'[1 - a] = seq /\ header'[a] = header[a] /\ SameUpTo(a, Words)
      /\ ScanEnd(1 - a)' = 0 /\ \A k \in Key : Lookup(1 - a, 0, k)' = Gone
      /\ ScanEnd(a)' = ScanEnd(a)
  BY <1>1, <1>3, <1>4, <1>5, <1>6, HeaderStep
<1>8. PICK end \in 0 .. Words : end = offset
  BY <1>4
<1>9. LogSound(a, end) /\ CellsSound /\ CellsSound'
  BY <1>4, <1>5, <1>7, <1>8, ValidLogs DEF FlashSound
<1>10. \A k \in Key : Lookup(a, end, k)' = Lookup(a, end, k)
  BY <1>7, <1>9, LogStays
<1>11. \A k \in Key : Lookup(a, end, k) \in may[k]
  BY <1>5, <1>8 DEF BanksHold, Holds
<1>12. 0 \in Boundaries(a)'
  BY <1>9, BoundariesNext DEF Scanned, CellsSound
<1>13. CopiedKeys(a, end, 0)' = {}
  <2>1. Boundaries(a)' \subseteq Offset /\ \A o \in Offset : ~(o < 0)
    BY <1>0, <1>9, BoundariesNext DEF Scanned, CellsSound, Offset
  <2>2. \A o \in Records(a, end)' : ~(o < 0)
    BY <2>1 DEF Records
  <2> QED
    BY <2>2 DEF CopiedKeys
<1>14. CopyHolds(a, end, 0, 0, big)'
  <2>1. Cardinality({}) = 0 /\ 0 <= big * 0
    BY FS_EmptySet
  <2>2. 0 <= big * Cardinality(CopiedKeys(a, end, 0)')
    BY <1>13, <2>1
  <2> QED
    BY <1>3, <1>7, <1>10, <1>11, <1>12, <1>13, <2>2 DEF CopyHolds
<1>15. CallHolds(a, big)'
  <2>1. \A e, from, to \in 0 .. Words :
          e = offset' /\ from = src' /\ to = dst' => CopyHolds(a, e, from, to, big)'
    BY <1>3, <1>8, <1>14
  <2>2. header'[1 - a] = NextSequence'
    BY <1>2, <1>3, <1>7 DEF NextSequence
  <2>3. src' \in 0 .. Words
    BY <1>0, <1>3
  <2> QED
    BY <1>3, <1>5, <1>7, <2>1, <2>2, <2>3 DEF CallHolds, InCall
<1>16. FormatHolds(a)' /\ RestHolds(a)'
  BY <1>3, <1>5, <1>7, NoFormatHolds DEF RestHolds
<1> QED
  BY <1>1, <1>3, <1>4, <1>7, <1>15, <1>16 DEF NvsInv, Pc

LEMMA CopyDoneKeeps ==
  ASSUME NEW big \in Nat, RoomForAll(big), NvsInv(big), CopyDone
  PROVE  NvsInv(big)'
<1>0. Words \in Nat /\ SeqRange \in Nat
  BY NvsAssumption
<1>1. PICK a \in Bank :
        /\ a = active /\ CallHolds(a, big) /\ FormatHolds(a) /\ RestHolds(a)
        /\ 1 - a \in Bank /\ 1 - (1 - a) = a /\ \A b \in Bank : b = a \/ b = 1 - a
  BY Now
<1>3. /\ pc = "copy" /\ pc' = "compact_source" /\ UNCHANGED flash
      /\ active' = a /\ offset' = offset /\ sequence' = sequence /\ job' = job /\ may' = may
      /\ src' = src /\ dst' = dst /\ src \notin Records(a, offset)
  BY <1>1 DEF CopyDone, Copying, At, ram, client, loop
<1>4. FlashSound /\ may \in [Key -> SUBSET Answer] /\ offset \in 0 .. Words
  BY DEF NvsInv
<1>5. /\ offset = ScanEnd(a) /\ sequence = header[a] /\ header[a] # Invalid
      /\ job \in Key \X (Value \cup {Gone})
      /\ header[1 - a] = NextSequence /\ dst = ScanEnd(1 - a)
      /\ src \in 0 .. Words
      /\ \A e, from, to \in 0 .. Words :
           e = offset /\ from = src /\ to = dst => CopyHolds(a, e, from, to, big)
  BY <1>1, <1>3 DEF CallHolds, InCall
<1>6. header[1 - a] # Invalid
  BY <1>0, <1>4, <1>5, ValidLogs, NextSequenceFits DEF Invalid
<1>7. /\ FlashSound' /\ header' = header
      /\ ScanEnd(a)' = ScanEnd(a) /\ ScanEnd(1 - a)' = ScanEnd(1 - a)
      /\ \A b \in Bank, k \in Key : Holds(b, k)' = Holds(b, k)
  BY <1>1, <1>3, <1>4, <1>5, <1>6, FlashUnchanged
<1>8. PICK end \in 0 .. Words, from \in 0 .. Words, to \in 0 .. Words :
        end = offset /\ from = src /\ to = dst
  BY <1>1, <1>4, <1>5, <1>6, ValidLogs
<1>9. CopyHolds(a, end, from, to, big)
  BY <1>5, <1>8
<1>10. CellsSound /\ HeadsInside(a) /\ LogSound(a, end)
  BY <1>4, <1>5, <1>8, ValidLogs DEF CellsSound
<1>11. from = end /\ Records(a, end) \subseteq 0 .. end - 2
  BY <1>3, <1>8, <1>9, <1>10, SoundRecords DEF CopyHolds
<1>12. ASSUME NEW k \in Key PROVE Holds(a, k) \in may[k] /\ Holds(1 - a, k) = Holds(a, k)
  <2>1. Holds(a, k) = Lookup(a, end, k) /\ Holds(1 - a, k) = Lookup(1 - a, to, k)
    BY <1>5, <1>8 DEF Holds
  <2>2. /\ Lookup(a, end, k) \in may[k]
        /\ Lookup(1 - a, to, k) = IF k \in CopiedKeys(a, end, from) THEN Lookup(a, end, k) ELSE Gone
    BY <1>9 DEF CopyHolds
  <2>3. ASSUME k \notin CopiedKeys(a, end, from) PROVE Lookup(a, end, k) = Gone
    <3>1. PICK v \in Value \cup {Gone} : v = Lookup(a, end, k) /\ Says(a, end, k, v)
      BY <1>10, LookupAnswers
    <3>2. ASSUME NEW m \in Records(a, end), RecordAt(a, m, k, v),
                 \A p \in Records(a, end) : p > m => KeyAt(a, p) # k
          PROVE  v = Gone
      <4>1. m \in Nat /\ m < from
        BY <1>11
      <4>2. KeyAt(a, m) = k /\ (StatusValid(a, m) <=> v # Gone)
        BY <3>2, <4>1, RecordReads
      <4>3. v # Gone => LiveIn(a, end, m)
        BY <3>2, <4>2 DEF LiveIn
      <4> QED
        BY <2>3, <4>1, <4>2, <4>3 DEF CopiedKeys
    <3> QED
      BY <3>1, <3>2 DEF Says
  <2> QED
    BY <2>1, <2>2, <2>3
<1>13. BanksHold'
  <2>1. 0 \in Bank /\ 1 \in Bank
    BY DEF Bank
  <2>2. \A b \in Bank, k \in Key : Holds(b, k)' = Holds(a, k) /\ Holds(a, k) \in may'[k]
    BY <1>1, <1>3, <1>7, <1>12
  <2> QED
    BY <2>1, <2>2 DEF BanksHold
<1>14. dst <= big * Cardinality(Key)
  <2>1. CopiedKeys(a, end, from) \subseteq Key
    BY DEF CopiedKeys
  <2>2. IsFiniteSet(Key)
    BY DEF RoomForAll
  <2>3. /\ Cardinality(CopiedKeys(a, end, from)) \in Nat /\ Cardinality(Key) \in Nat
        /\ Cardinality(CopiedKeys(a, end, from)) <= Cardinality(Key)
    BY <2>1, <2>2, FS_Subset, FS_CardinalityType
  <2>4. to <= big * Cardinality(CopiedKeys(a, end, from))
    BY <1>9 DEF CopyHolds
  <2>5. \A x, y \in Nat : x <= y => big * x <= big * y
    OBVIOUS
  <2> HIDE DEF CopiedKeys
  <2>6. PICK x \in Nat, y \in Nat : x = Cardinality(CopiedKeys(a, end, from)) /\ y = Cardinality(Key)
    BY <2>3
  <2> QED
    BY <1>8, <2>3, <2>4, <2>5, <2>6
<1>15. CallHolds(a, big)'
  <2>1. header'[1 - a] = NextSequence'
    BY <1>3, <1>5, <1>7 DEF NextSequence
  <2> QED
    BY <1>3, <1>5, <1>7, <1>13, <1>14, <2>1 DEF CallHolds, InCall
<1>16. FormatHolds(a)' /\ RestHolds(a)'
  BY <1>3, <1>5, <1>7, NoFormatHolds DEF RestHolds
<1> QED
  BY <1>1, <1>3, <1>4, <1>7, <1>15, <1>16 DEF NvsInv, Pc

LEMMA CompactSourceKeeps ==
  ASSUME NEW big \in Nat, RoomForAll(big), NvsInv(big), CompactSource
  PROVE  NvsInv(big)'
<1>0. Words \in Nat /\ SeqRange \in Nat
  BY NvsAssumption
<1>1. PICK a \in Bank :
        /\ a = active /\ CallHolds(a, big) /\ FormatHolds(a) /\ RestHolds(a)
        /\ 1 - a \in Bank /\ 1 - (1 - a) = a /\ 1 - a = Alt
  BY Now
<1>2. PICK n \in Bank : n = 1 - a /\ 1 - n = a
  BY <1>1
<1>3. /\ pc = "compact_source" /\ Erase(a)
      /\ active' = n /\ offset' = dst /\ sequence' = NextSequence /\ may' = may
      /\ IF job[2] # Gone /\ dst + Total(job[1], job[2]) > Words
         THEN pc' = "idle" /\ job' = <<>>
         ELSE pc' = "append" /\ job' = job
  BY <1>1, <1>2 DEF CompactSource, TakeOver, client
<1>4. FlashSound /\ may \in [Key -> SUBSET Answer]
  BY DEF NvsInv
<1>5. /\ job \in Key \X (Value \cup {Gone}) /\ sequence = header[a] /\ header[a] # Invalid
      /\ header[n] = NextSequence /\ dst = ScanEnd(n)
      /\ BanksHold /\ dst <= big * Cardinality(Key)
  BY <1>1, <1>2, <1>3 DEF CallHolds, InCall
<1>6. header[n] # Invalid /\ dst \in 0 .. Words
  <2>1. header[n] # Invalid
    BY <1>0, <1>4, <1>5, ValidLogs, NextSequenceFits DEF Invalid
  <2> QED
    BY <1>4, <1>5, <2>1, ValidLogs
<1>7. /\ FlashSound' /\ header'[a] = Invalid /\ header'[n] = header[n]
      /\ ScanEnd(n)' = ScanEnd(n)
  BY <1>2, <1>3, <1>4, <1>6, EraseStep
<1>8. BanksHold'
  BY <1>3, <1>4, <1>5, EraseBanksHold
<1>9. PICK j \in Key, w \in Value \cup {Gone} : job = <<j, w>>
  BY <1>5
<1>10. pc' = "append" => job' = <<j, w>> /\ dst + Total(j, w) <= Words
  <2>1. Total(j, w) \in Nat /\ (w = Gone => Total(j, w) = 2)
    BY RecordWords
  <2>2. Cardinality(Key) \in Nat /\ big * Cardinality(Key) + 2 <= Words
    BY FS_CardinalityType DEF RoomForAll
  <2>3. big * Cardinality(Key) \in Nat
    BY <2>2
  <2>4. CASE w = Gone
    BY <1>0, <1>3, <1>5, <1>6, <1>9, <2>1, <2>2, <2>3, <2>4
  <2>5. CASE w # Gone
    BY <1>0, <1>3, <1>6, <1>9, <2>1, <2>5
  <2> QED
    BY <2>4, <2>5
<1>11. pc' \in {"idle", "append"} /\ (pc' = "idle" => job' = <<>>)
  BY <1>3
<1>12. CallHolds(n, big)'
  <2>1. \A k \in Key, v \in Value \cup {Gone} :
          pc' = "append" /\ job' = <<k, v>> => offset' + Total(k, v) <= Words
    <3>1. \A k, v : <<j, w>> = <<k, v>> => k = j /\ v = w
      OBVIOUS
    <3> QED
      BY <1>3, <1>10, <3>1
  <2>2. pc' = "append" => job' \in Key \X (Value \cup {Gone})
    BY <1>5, <1>9, <1>10
  <2> QED
    BY <1>2, <1>3, <1>5, <1>6, <1>7, <1>8, <1>11, <2>1, <2>2 DEF CallHolds, InCall
<1>13. FormatHolds(n)' /\ RestHolds(n)'
  BY <1>6, <1>7, <1>11, NoFormatHolds DEF RestHolds
<1> QED
  BY <1>3, <1>4, <1>6, <1>7, <1>11, <1>12, <1>13 DEF NvsInv, Pc

LEMMA Append2LogKeeps ==
  ASSUME NEW big \in Nat, NvsInv(big), Append2Log
  PROVE  /\ NvsInv(big)'
         /\ \E a \in Bank, k \in Key, v \in Value \cup {Gone} :
              /\ job = <<k, v>> /\ job' = <<>> /\ pc = "append" /\ pc' = "idle"
              /\ header[a] # Invalid /\ header'[a] # Invalid
              /\ \A j \in Key : Holds(a, j)' = IF j = k THEN v ELSE Holds(a, j)
<1>0. Words \in Nat /\ SeqRange \in Nat
  BY NvsAssumption
<1>1. PICK a \in Bank :
        /\ a = active /\ CallHolds(a, big) /\ FormatHolds(a) /\ RestHolds(a)
        /\ 1 - a \in Bank /\ 1 - (1 - a) = a
  BY Now
<1>2. FlashSound /\ may \in [Key -> SUBSET Answer] /\ offset \in 0 .. Words /\ pc = "append"
  BY DEF NvsInv, Append2Log
<1>3. /\ job \in Key \X (Value \cup {Gone}) /\ sequence = header[a] /\ header[a] # Invalid
      /\ offset = ScanEnd(a) /\ header[1 - a] = Invalid /\ BanksHold
  BY <1>1, <1>2 DEF CallHolds, InCall
<1>4. PICK k \in Key, v \in Value \cup {Gone} : job = <<k, v>>
  BY <1>3
<1>5. PICK end \in 0 .. Words, n \in Nat : end = offset /\ n = Total(k, v)
  BY <1>2, RecordWords
<1>6. end + n <= Words
  BY <1>1, <1>2, <1>4, <1>5 DEF CallHolds
<1>7. /\ cell' = Programmed(a, end, Record(k, v), n)
      /\ header' = Overrun(a, end, n)
      /\ active' = a /\ offset' = end + n /\ sequence' = sequence
      /\ pc' = "idle" /\ job' = <<>>
      /\ may' = [may EXCEPT ![k] = {v}]
  BY <1>1, <1>4, <1>5 DEF Append2Log, JobWords, Total
<1>8. header' = header
  BY <1>0, <1>6, <1>7 DEF Overrun
<1>9. CellsSound /\ LogSound(a, end)
  BY <1>2, <1>3, <1>5, ValidLogs
<1>10. /\ CellsSound'
       /\ \A i \in Index :
            cell'[a][i] = IF i \in end + 1 .. end + n THEN Record(k, v)[i - end] ELSE cell[a][i]
  BY <1>5, <1>6, <1>7, <1>9, ProgramKeeps
<1>11. PICK last \in 0 .. Words : last = end + n
  BY <1>0, <1>6
<1>12. /\ LogSound(a, last)' /\ ScanEnd(a)' = last
       /\ \A j \in Key : Lookup(a, last, j)' = IF j = k THEN v ELSE Lookup(a, end, j)
  BY <1>5, <1>6, <1>9, <1>10, <1>11, BankGrows
<1>13. \A j \in Key : Holds(a, j)' = Lookup(a, last, j)' /\ Holds(a, j) = Lookup(a, end, j)
  BY <1>3, <1>5, <1>12 DEF Holds, Lookup, Records
<1>14. FlashSound'
  <2>1. LogSound(a, ScanEnd(a))' <=> LogSound(a, last)'
    BY <1>12 DEF LogSound
  <2>2. \A b \in Bank : header'[b] # Invalid => b = a
    BY <1>3, <1>8 DEF Bank
  <2> QED
    BY <1>2, <1>8, <1>10, <1>12, <2>1, <2>2 DEF FlashSound
<1>15. BanksHold'
  <2>1. \A j \in Key : Holds(a, j)' \in may'[j]
    BY <1>2, <1>3, <1>7, <1>12, <1>13 DEF BanksHold
  <2> QED
    BY <1>3, <1>8, <2>1, OneBankHolds
<1>16. CallHolds(a, big)'
  BY <1>3, <1>7, <1>8, <1>11, <1>12, <1>15 DEF CallHolds, InCall
<1>17. FormatHolds(a)' /\ RestHolds(a)'
  BY <1>3, <1>7, <1>8, NoFormatHolds DEF RestHolds
<1>18. may' \in [Key -> SUBSET Answer]
  BY <1>2, <1>7 DEF Answer
<1>19. NvsInv(big)'
  BY <1>7, <1>11, <1>14, <1>16, <1>17, <1>18 DEF NvsInv, Pc
<1>20. \A j \in Key : Holds(a, j)' = IF j = k THEN v ELSE Holds(a, j)
  BY <1>12, <1>13
<1> QED
  BY <1>2, <1>3, <1>4, <1>7, <1>8, <1>19, <1>20

(* A call that gives up, and a power cut, leave the flash as it is. *)
LEMMA GiveUpKeeps ==
  ASSUME NEW big \in Nat, NvsInv(big), UNCHANGED flash, GiveUp,
         pc \in {"compact_erase", "compact_header", "append"}
  PROVE  NvsInv(big)'
<1>1. PICK a \in Bank :
        /\ a = active /\ CallHolds(a, big) /\ FormatHolds(a) /\ RestHolds(a)
        /\ 1 - a \in Bank /\ 1 - (1 - a) = a
  BY Now
<1>2. /\ pc' = "idle" /\ job' = <<>> /\ may' = may
      /\ active' = a /\ offset' = offset /\ sequence' = sequence
  BY <1>1 DEF GiveUp, ram, client
<1>3. FlashSound /\ may \in [Key -> SUBSET Answer] /\ offset \in 0 .. Words
  BY DEF NvsInv
<1>4. /\ offset = ScanEnd(a) /\ sequence = header[a] /\ header[a] # Invalid
      /\ header[1 - a] = Invalid /\ BanksHold
  BY <1>1 DEF CallHolds, InCall
<1>5. FlashSound' /\ header' = header /\ ScanEnd(a)' = ScanEnd(a)
  BY <1>3, <1>4, FlashUnchanged
<1>6. BanksHold'
  BY <1>2, <1>3, <1>4, BanksStay
<1>7. CallHolds(a, big)'
  BY <1>2, <1>4, <1>5, <1>6 DEF CallHolds, InCall
<1>8. FormatHolds(a)' /\ RestHolds(a)'
  BY <1>2, <1>4, <1>5, NoFormatHolds DEF RestHolds
<1> QED
  BY <1>2, <1>3, <1>5, <1>7, <1>8 DEF NvsInv, Pc

LEMMA PowerOffKeeps ==
  ASSUME NEW big \in Nat, NvsInv(big), UNCHANGED flash, PowerOff, pc # "copy"
  PROVE  NvsInv(big)'
<1>0. Words \in Nat /\ 0 \in Bank /\ 0 \in 0 .. Words
  BY NvsAssumption DEF Bank
<1>1. PICK a \in Bank : CallHolds(a, big) /\ FormatHolds(a) /\ RestHolds(a)
  BY Now
<1>2. pc' = "off" /\ job' = <<>> /\ may' = may /\ active' = 0 /\ offset' = 0
  BY DEF PowerOff, client
<1>3. FlashSound /\ may \in [Key -> SUBSET Answer] /\ BanksHold
  BY <1>1 DEF NvsInv, CallHolds
<1>4. FlashSound' /\ header' = header
  BY <1>3, FlashUnchanged
<1>5. BanksHold'
  BY <1>2, <1>3, BanksStay
<1>6. CallHolds(0, big)'
  BY <1>2, <1>5 DEF CallHolds, InCall
<1>7. FormatHolds(0)' /\ RestHolds(0)'
  BY <1>1, <1>2, <1>4 DEF FormatHolds, RestHolds, InFormat
<1> QED
  BY <1>0, <1>2, <1>3, <1>4, <1>6, <1>7 DEF NvsInv, Pc

LEMMA FaultsSpareFlash ==
  ASSUME NEW big \in Nat, Tame, NvsInv(big), Stopped
  PROVE  UNCHANGED flash
<1>1. Interrupted(0)
  BY NvsAssumption DEF Stopped, Tame
<1>2. ASSUME pc = "append", cell' = Programmed(active, offset, JobWords, 0),
             header' = Overrun(active, offset, 0)
      PROVE  UNCHANGED flash
  <2>1. PICK a \in Bank, end \in 0 .. Words : a = active /\ end = offset
    BY DEF NvsInv
  <2>2. header' = header
    BY <1>2, <2>1, NvsAssumption DEF Overrun
  <2>3. cell = [b \in Bank |-> [i \in Index |-> cell[b][i]]]
    BY DEF NvsInv, FlashSound, CellsSound
  <2>4. [i \in Index |-> IF i \in end + 1 .. end + 0 THEN JobWords[i - end] ELSE cell[a][i]]
          = [i \in Index |-> cell[a][i]]
    BY NvsAssumption
  <2>5. [i \in Index |-> cell[a][i]] = cell[a]
    <3>1. \A b \in Bank : cell[b] = [i \in Index |-> cell[b][i]]
      BY <2>3, Zenon
    <3> QED
      BY <3>1
  <2>6. cell' = [cell EXCEPT ![a] = cell[a]]
    BY <1>2, <2>1, <2>3, <2>4, <2>5 DEF Programmed
  <2>7. cell' = cell
    BY <2>3, <2>6
  <2> QED
    BY <2>2, <2>7 DEF flash
<1> QED
  BY <1>1, <1>2 DEF Interrupted

LEMMA FaultKeeps ==
  ASSUME NEW big \in Nat, Tame, NvsInv(big), Cut \/ Fail \/ AppendRefused
  PROVE  NvsInv(big)'
<1>1. CASE Cut
  BY <1>1, FaultsSpareFlash, PowerOffKeeps DEF Cut, Tame
<1>2. CASE Fail
  <2>1. UNCHANGED flash /\ pc \in Pc /\ pc \notin {"off", "idle", "drop", "copy", "compact_source"}
    BY <1>2, FaultsSpareFlash, NvsAssumption DEF Fail, Tame, NvsInv
  <2>2. CASE pc \in {"format0", "format1", "format_header"}
    BY <1>2, <2>1, <2>2, PowerOffKeeps DEF Fail
  <2>3. CASE pc \notin {"format0", "format1", "format_header"}
    BY <1>2, <2>1, <2>3, GiveUpKeeps DEF Fail, Pc
  <2> QED
    BY <2>2, <2>3
<1>3. CASE AppendRefused
  BY <1>3, GiveUpKeeps DEF AppendRefused
<1> QED
  BY <1>1, <1>2, <1>3

(* One more record for one more key. *)
LEMMA CopyFits ==
  ASSUME NEW big \in Nat, RoomForAll(big), NEW C \in SUBSET Key, NEW k \in Key, k \notin C,
         NEW to \in Nat, to <= big * Cardinality(C), NEW n \in Nat, n <= big
  PROVE  to + n <= big * Cardinality(C \cup {k}) /\ to + n <= Words
<1>1. IsFiniteSet(Key) /\ big * Cardinality(Key) + 2 <= Words /\ Words \in Nat
  BY NvsAssumption DEF RoomForAll
<1>2. IsFiniteSet(C) /\ C \cup {k} \subseteq Key
  BY <1>1, FS_Subset
<1>3. /\ Cardinality(C) \in Nat /\ Cardinality(C \cup {k}) = Cardinality(C) + 1
      /\ Cardinality(Key) \in Nat /\ Cardinality(C \cup {k}) <= Cardinality(Key)
  BY <1>1, <1>2, FS_AddElement, FS_Subset, FS_CardinalityType
<1>4. PICK x \in Nat, y \in Nat : x = Cardinality(C) /\ y = Cardinality(Key)
  BY <1>3
<1>5. x + 1 <= y /\ big * y + 2 <= Words /\ to <= big * x
  BY <1>1, <1>3, <1>4
<1>6. big * (x + 1) = big * x + big
  OBVIOUS
<1>7. big * (x + 1) <= big * y
  BY <1>5
<1>8. big * x \in Nat /\ big * y \in Nat
  OBVIOUS
<1>9. to + n <= big * (x + 1)
  BY <1>5, <1>6, <1>8
<1>10. to + n <= Words
  BY <1>1, <1>5, <1>6, <1>7, <1>8, <1>9
<1> QED
  BY <1>3, <1>4, <1>9, <1>10

(* One turn of the loop adds the key of the record at from, if that record  *)
(* is live, to those copied.                                                *)
LEMMA CopiedNext ==
  ASSUME NEW a \in Bank, NEW end \in 0 .. Words, HeadsInside(a), LogSound(a, end),
         NEW from \in Records(a, end),
         Records(a, end)' = Records(a, end), cell'[a] = cell[a],
         NEW next, next = Next0(a, from)
  PROVE  CopiedKeys(a, end, next)' =
           IF LiveIn(a, end, from) THEN CopiedKeys(a, end, from) \cup {KeyAt(a, from)}
           ELSE CopiedKeys(a, end, from)
<1>0. Records(a, end) \subseteq Boundaries(a) /\ Records(a, end) \subseteq 0 .. end /\ end \in Nat
  BY SoundRecords, NvsAssumption DEF Records
<1>1. \A o \in Records(a, end) : KeyAt(a, o)' = KeyAt(a, o) /\ KeyAt(a, o) \in Key
  BY SoundRecords DEF KeyAt
<1>2. \A o \in Records(a, end) : StatusValid(a, o)' <=> StatusValid(a, o)
  BY DEF StatusValid
<1>3. \A o \in Records(a, end) : LiveIn(a, end, o)' <=> LiveIn(a, end, o)
  BY <1>1, <1>2 DEF LiveIn
<1>4. from \in Offset /\ IsHead(a, from)
  BY <1>0, BoundariesAre DEF Records, Scanned
<1>5. next \in Nat /\ next >= from + 2 /\ from \in Nat
  BY <1>4, NextInside, NvsAssumption DEF Offset
<1>6. ASSUME NEW o \in Records(a, end) PROVE o < next <=> (o < from \/ o = from)
  <2>1. o \in Nat /\ (o > from => o >= next)
    BY <1>0, <1>4, NoneInside
  <2> QED
    BY <1>5, <2>1
<1>7. CopiedKeys(a, end, next)' =
        {k \in Key : \E o \in Records(a, end) :
                       (o < from \/ o = from) /\ LiveIn(a, end, o) /\ KeyAt(a, o) = k}
  BY <1>1, <1>3, <1>6 DEF CopiedKeys
<1> QED
  BY <1>1, <1>7 DEF CopiedKeys

LEMMA CopyKeeps ==
  ASSUME NEW big \in Nat, RoomForAll(big), NvsInv(big), Copy
  PROVE  NvsInv(big)'
<1>0. Words \in Nat /\ SeqRange \in Nat
  BY NvsAssumption
<1>1. PICK a \in Bank :
        /\ a = active /\ CallHolds(a, big) /\ FormatHolds(a) /\ RestHolds(a)
        /\ 1 - a \in Bank /\ 1 - (1 - a) = a /\ \A b \in Bank : b = a \/ b = 1 - a
        /\ 1 - a = Alt
  BY Now
<1>2. /\ pc = "copy" /\ pc' = "copy" /\ header' = header
      /\ active' = a /\ offset' = offset /\ sequence' = sequence /\ job' = job /\ may' = may
      /\ src \in Records(a, offset)
  BY <1>1 DEF Copy, Copying, ram, client
<1>3. FlashSound /\ may \in [Key -> SUBSET Answer] /\ offset \in 0 .. Words
  BY DEF NvsInv
<1>4. /\ offset = ScanEnd(a) /\ sequence = header[a] /\ header[a] # Invalid
      /\ job \in Key \X (Value \cup {Gone})
      /\ header[1 - a] = NextSequence /\ dst = ScanEnd(1 - a)
      /\ src \in 0 .. Words
      /\ \A e, f, t \in 0 .. Words :
           e = offset /\ f = src /\ t = dst => CopyHolds(a, e, f, t, big)
  BY <1>1, <1>2 DEF CallHolds, InCall
<1>5. header[1 - a] # Invalid
  BY <1>0, <1>3, <1>4, ValidLogs, NextSequenceFits DEF Invalid
<1>6. PICK end \in 0 .. Words, from \in 0 .. Words, to \in 0 .. Words :
        end = offset /\ from = src /\ to = dst
  BY <1>1, <1>3, <1>4, <1>5, ValidLogs
<1>7. CopyHolds(a, end, from, to, big)
  BY <1>4, <1>6
<1>8. /\ CellsSound /\ HeadsInside(a) /\ LogSound(a, end) /\ LogSound(1 - a, to)
      /\ from \in Records(a, end)
  BY <1>1, <1>2, <1>3, <1>4, <1>5, <1>6, ValidLogs DEF CellsSound
<1>9. PICK k \in Key, v \in Value \cup {Gone} :
        /\ RecordAt(a, from, k, v) /\ KeyAt(a, from) = k
        /\ from + Total(k, v) <= end /\ from + Total(k, v) \in Boundaries(a)
  BY <1>8, SoundRecords
<1>10. PICK n \in Nat : n = Total(k, v) /\ n >= 2
  BY RecordWords
<1>11. /\ TotalAt(a, from) = n /\ Next0(a, from) = from + n /\ src' = from + n
       /\ StatusValid(a, from) <=> v # Gone
  <2>1. from \in Nat
    BY <1>0
  <2>2. TotalAt(a, from) = n /\ Next0(a, from) = from + n /\ (StatusValid(a, from) <=> v # Gone)
    BY <1>9, <1>10, <2>1, RecordReads
  <2> QED
    BY <1>1, <1>6, <2>2 DEF Copy, NextSource
<1>12. PICK next \in 0 .. Words : next = from + n
  BY <1>0, <1>9, <1>10
<1>13. Live(src) <=> LiveIn(a, end, from)
  BY <1>1, <1>6 DEF Live, LiveIn
<1>14. PICK C \in SUBSET Key : C = CopiedKeys(a, end, from)
  BY DEF CopiedKeys
<1>15. /\ next \in Boundaries(a) /\ to <= big * Cardinality(C)
       /\ \A j \in Key :
            /\ Lookup(a, end, j) \in may[j]
            /\ Lookup(1 - a, to, j) = IF j \in C THEN Lookup(a, end, j) ELSE Gone
  BY <1>7, <1>9, <1>10, <1>12, <1>14 DEF CopyHolds
<1>16. ASSUME CellsSound', cell'[a] = cell[a], NEW last \in 0 .. Words, dst' = last,
              LogSound(1 - a, last)', ScanEnd(1 - a)' = last,
              NEW D \in SUBSET Key,
              D = IF LiveIn(a, end, from) THEN C \cup {k} ELSE C,
              last <= big * Cardinality(D),
              \A j \in Key :
                Lookup(1 - a, last, j)' = IF j \in D THEN Lookup(a, end, j) ELSE Gone
       PROVE  NvsInv(big)'
  <2>1. SameUpTo(a, Words)
    BY <1>16 DEF SameUpTo
  <2>2. /\ LogSound(a, end)' /\ ScanEnd(a)' = end /\ Boundaries(a)' = Boundaries(a)
        /\ Records(a, end)' = Records(a, end)
        /\ \A j \in Key : Lookup(a, end, j)' = Lookup(a, end, j)
    BY <1>8, <1>16, <2>1, LogStays
  <2>3. CopiedKeys(a, end, next)' = D
    <3>1. next = Next0(a, from)
      BY <1>11, <1>12
    <3>2. CopiedKeys(a, end, next)' =
            IF LiveIn(a, end, from) THEN CopiedKeys(a, end, from) \cup {KeyAt(a, from)}
            ELSE CopiedKeys(a, end, from)
      BY <1>8, <1>16, <2>2, <3>1, CopiedNext
    <3> QED
      BY <1>9, <1>14, <1>16, <3>2
  <2>4. CopyHolds(a, end, next, last, big)'
    BY <1>2, <1>15, <1>16, <2>2, <2>3 DEF CopyHolds
  <2>5. FlashSound'
    <3>1. LogSound(a, ScanEnd(a))' <=> LogSound(a, end)'
      BY <2>2 DEF LogSound
    <3>2. LogSound(1 - a, ScanEnd(1 - a))' <=> LogSound(1 - a, last)'
      BY <1>16 DEF LogSound
    <3>3. \A b \in Bank : LogSound(b, ScanEnd(b))'
      BY <1>1, <1>16, <2>2, <3>1, <3>2
    <3> QED
      BY <1>2, <1>3, <1>16, <3>3 DEF FlashSound
  <2>6. CallHolds(a, big)'
    <3>1. \A e, f, t \in 0 .. Words :
            e = offset' /\ f = src' /\ t = dst' => CopyHolds(a, e, f, t, big)'
      BY <1>2, <1>6, <1>11, <1>12, <1>16, <2>4
    <3>2. header'[1 - a] = NextSequence'
      BY <1>2, <1>4 DEF NextSequence
    <3>3. src' \in 0 .. Words /\ dst' = ScanEnd(1 - a)' /\ offset' = ScanEnd(a)'
      BY <1>2, <1>6, <1>11, <1>12, <1>16, <2>2
    <3> QED
      BY <1>2, <1>4, <3>1, <3>2, <3>3 DEF CallHolds, InCall
  <2>7. FormatHolds(a)' /\ RestHolds(a)'
    BY <1>2, <1>4, NoFormatHolds DEF RestHolds
  <2> QED
    BY <1>1, <1>2, <1>3, <2>5, <2>6, <2>7 DEF NvsInv, Pc
<1>17. CASE LiveIn(a, end, from)
  <2>1. v \in Value
    BY <1>11, <1>17 DEF LiveIn
  <2>2. k \notin C
    <3> SUFFICES ASSUME NEW o \in Records(a, end), o < from, LiveIn(a, end, o), KeyAt(a, o) = k
                 PROVE  FALSE
      BY <1>14 DEF CopiedKeys
    <3>1. o \in Nat /\ from \in Nat
      BY <1>0, <1>8, SoundRecords
    <3>2. from > o
      BY <3>1
    <3> QED
      BY <1>8, <1>9, <3>2 DEF LiveIn
  <2>3. Lookup(a, end, k) = v
    <3>1. Says(a, end, k, v)
      BY <1>8, <1>9, <1>17 DEF Says, LiveIn
    <3> QED
      BY <1>8, <3>1, LookupAnswers
  <2>4. n <= big
    <3>1. n = Size[v] + 2
      BY <1>10, <2>1, RecordWords, NvsAssumption
    <3> QED
      BY <2>1, <3>1 DEF RoomForAll
  <2>5. to + n <= big * Cardinality(C \cup {k}) /\ to + n <= Words
    <3>1. to \in Nat
      BY <1>0
    <3> QED
      BY <1>10, <1>15, <2>2, <2>4, <3>1, CopyFits
  <2>6. CopyWords = Record(k, v)
    <3>1. from \in Nat /\ from + n <= Words + 2 /\ CellsAreWords
      BY <1>0, <1>8, <1>12, CellsAre
    <3>2. SubSeq(cell[a], from + 1, from + n) = [i \in 1 .. n |-> cell[a][from + i]]
      BY <3>1, WordsFrom
    <3>3. [i \in 1 .. n |-> cell[a][from + i]] = Record(k, v)
      BY <1>9, <1>10, RecordWords DEF RecordAt
    <3> QED
      BY <1>1, <1>6, <1>11, <3>2, <3>3 DEF CopyWords
  <2>7. cell' = Programmed(1 - a, to, Record(k, v), n) /\ dst' = to + n
    BY <1>1, <1>6, <1>10, <1>13, <1>17, <2>6 DEF Copy, Total
  <2>8. /\ CellsSound' /\ cell'[a] = cell[a]
        /\ \A i \in Index :
             cell'[1 - a][i] = IF i \in to + 1 .. to + n THEN Record(k, v)[i - to]
                               ELSE cell[1 - a][i]
    BY <1>1, <1>8, <1>10, <2>5, <2>7, ProgramKeeps
  <2>9. PICK last \in 0 .. Words : last = to + n
    BY <1>0, <2>5
  <2>10. /\ LogSound(1 - a, last)' /\ ScanEnd(1 - a)' = last
         /\ \A j \in Key : Lookup(1 - a, last, j)' = IF j = k THEN v ELSE Lookup(1 - a, to, j)
    BY <1>1, <1>8, <1>10, <2>5, <2>8, <2>9, BankGrows
  <2>11. \A j \in Key :
           Lookup(1 - a, last, j)' = IF j \in C \cup {k} THEN Lookup(a, end, j) ELSE Gone
    BY <1>15, <2>3, <2>10
  <2> QED
    BY <1>16, <1>17, <2>5, <2>7, <2>8, <2>9, <2>10, <2>11
<1>18. CASE ~LiveIn(a, end, from)
  <2>1. cell' = cell /\ dst' = to
    BY <1>6, <1>13, <1>18 DEF Copy
  <2>2. CellsSound'
    BY <1>8, <2>1, CellsStaySound DEF CellsSound
  <2>3. SameUpTo(1 - a, Words) /\ cell'[a] = cell[a]
    BY <2>1 DEF SameUpTo
  <2>4. /\ LogSound(1 - a, to)' /\ ScanEnd(1 - a)' = to
        /\ \A j \in Key : Lookup(1 - a, to, j)' = Lookup(1 - a, to, j)
    BY <1>1, <1>8, <2>2, <2>3, LogStays
  <2> QED
    BY <1>15, <1>16, <1>18, <2>1, <2>2, <2>3, <2>4
<1> QED
  BY <1>17, <1>18

LEMMA StutterKeeps ==
  ASSUME NEW big \in Nat, NvsInv(big), UNCHANGED vars
  PROVE  NvsInv(big)'
<1>0. Words \in Nat /\ SeqRange \in Nat
  BY NvsAssumption
<1>1. PICK a \in Bank :
        /\ a = active /\ CallHolds(a, big) /\ FormatHolds(a) /\ RestHolds(a)
        /\ 1 - a \in Bank /\ 1 - (1 - a) = a
  BY Now
<1>2. /\ UNCHANGED flash /\ header' = header /\ cell' = cell
      /\ active' = a /\ offset' = offset /\ sequence' = sequence /\ pc' = pc /\ job' = job
      /\ src' = src /\ dst' = dst /\ may' = may
  BY <1>1 DEF vars, flash, ram, loop, client
<1>3. FlashSound /\ may \in [Key -> SUBSET Answer] /\ offset \in 0 .. Words /\ pc \in Pc
  BY DEF NvsInv
<1>4. FlashSound' /\ \A b \in Bank : header[b] # Invalid => ScanEnd(b)' = ScanEnd(b)
  BY <1>2, <1>3, FlashUnchanged
<1>5. pc # "copy" => BanksHold'
  BY <1>1, <1>2, <1>3, BanksStay DEF CallHolds
<1>6. \A b \in Bank, n \in Nat : BlankUpTo(b, n) => BlankUpTo(b, n)'
  BY <1>2 DEF BlankUpTo
<1>7. pc \in {"copy", "compact_source"} => header[1 - a] # Invalid
  BY <1>0, <1>1, <1>3, ValidLogs, NextSequenceFits DEF Invalid, CallHolds, InCall
<1>8. ASSUME pc = "copy", NEW end \in 0 .. Words, NEW from \in 0 .. Words, NEW to \in 0 .. Words,
             end = offset, from = src, to = dst
      PROVE  CopyHolds(a, end, from, to, big)'
  <2>1. CopyHolds(a, end, from, to, big)
    BY <1>1, <1>8 DEF CallHolds
  <2>2. CellsSound /\ CellsSound' /\ LogSound(a, end) /\ LogSound(1 - a, to)
    BY <1>1, <1>3, <1>4, <1>7, <1>8, ValidLogs DEF CallHolds, InCall, FlashSound
  <2>3. SameUpTo(a, Words) /\ SameUpTo(1 - a, Words)
    BY <1>2 DEF SameUpTo
  <2>4. /\ Boundaries(a)' = Boundaries(a) /\ Records(a, end)' = Records(a, end)
        /\ \A k \in Key : Lookup(a, end, k)' = Lookup(a, end, k)
        /\ \A k \in Key : Lookup(1 - a, to, k)' = Lookup(1 - a, to, k)
    BY <1>1, <2>2, <2>3, LogStays
  <2>5. CopiedKeys(a, end, from)' = CopiedKeys(a, end, from)
    <3>1. \A o : (KeyAt(a, o)' = KeyAt(a, o)) /\ (StatusValid(a, o)' <=> StatusValid(a, o))
      BY <1>2 DEF KeyAt, StatusValid
    <3>2. \A o : LiveIn(a, end, o)' <=> LiveIn(a, end, o)
      BY <2>4, <3>1 DEF LiveIn
    <3> QED
      BY <2>4, <3>1, <3>2 DEF CopiedKeys
  <2> QED
    BY <1>2, <2>1, <2>4, <2>5 DEF CopyHolds
<1>9. CallHolds(a, big)'
  <2>1. NextSequence' = NextSequence
    BY <1>2 DEF NextSequence
  <2> QED
    BY <1>0, <1>1, <1>2, <1>4, <1>5, <1>6, <1>7, <1>8, <2>1 DEF CallHolds, InCall
<1>10. FormatHolds(a)' /\ RestHolds(a)'
  <2>1. 0 \in Bank /\ Words + 2 \in Nat
    BY <1>0 DEF Bank
  <2> QED
    BY <1>0, <1>1, <1>2, <1>4, <1>6, <2>1 DEF FormatHolds, RestHolds, InFormat
<1> QED
  BY <1>1, <1>2, <1>3, <1>4, <1>9, <1>10 DEF NvsInv

LEMMA StepKeeps ==
  ASSUME NEW big \in Nat, Tame, RoomForAll(big), NvsInv(big), [Next]_vars
  PROVE  NvsInv(big)'
<1>1. CASE Work
  <2>1. 0 \in Bank /\ 1 \in Bank
    BY DEF Bank
  <2> QED
    BY <1>1, <2>1, MountKeeps, DropKeeps, FormatEraseKeeps, FormatHeaderKeeps, CompactEraseKeeps,
       CompactHeaderKeeps, CopyKeeps, CopyDoneKeeps, CompactSourceKeeps, Append2LogKeeps,
       FaultKeeps DEF Work
<1>2. CASE Call
  BY <1>2, StartKeeps, FormatKeeps DEF Call, Delete, Write
<1>3. CASE Cut \/ Fail
  BY <1>3, FaultKeeps
<1>4. CASE UNCHANGED vars
  BY <1>4, StutterKeeps
<1> QED
  BY <1>1, <1>2, <1>3, <1>4 DEF Next

LEMMA AlwaysNvsInv ==
  ASSUME NEW big \in Nat, Tame, RoomForAll(big)
  PROVE  Spec => []NvsInv(big)
<1>1. Init => NvsInv(big)
  BY InitHolds
<1>2. NvsInv(big) /\ [Next]_vars => NvsInv(big)'
  BY StepKeeps
<1> QED
  BY <1>1, <1>2, PTL DEF Spec

(* Whatever number of keys, values, sector size and range of sequences: if  *)
(* one record of each key leaves room for a tombstone, and power does not   *)
(* fail while nvs_compact copies nor the driver in an erase of a bank given *)
(* up, then between calls fw_nvs_read answers every key as its last write   *)
(* or delete that returned FW_OK left it, or as one after it that did not   *)
(* return.                                                                  *)
THEOREM StoreStaysDurable ==
  ASSUME NEW big \in Nat, Tame, RoomForAll(big)
  PROVE  Spec => []Durable
<1>1. ASSUME NvsInv(big) PROVE Durable
  <2> SUFFICES ASSUME pc = "idle", NEW k \in Key PROVE ReadKey(k) \in may[k]
    BY DEF Durable
  <2>1. PICK a \in Bank : a = active /\ CallHolds(a, big)
    BY <1>1, Now
  <2>2. offset = ScanEnd(a) /\ header[a] # Invalid /\ BanksHold
    BY <2>1 DEF CallHolds
  <2>3. Lookup(a, offset, k) \in may[k]
    BY <2>2 DEF BanksHold, Holds
  <2> QED
    BY <2>1, <2>3 DEF ReadKey
<1> QED
  BY <1>1, AlwaysNvsInv, PTL

(* Under the same conditions, a mount (fw_nvs_init) would at any time       *)
(* between calls come to the bank, write offset and sequence the running    *)
(* store has.                                                               *)
THEOREM RebootStaysAgreed ==
  ASSUME NEW big \in Nat, Tame, RoomForAll(big)
  PROVE  Spec => []RebootAgrees
<1>1. ASSUME NvsInv(big) PROVE RebootAgrees
  <2> SUFFICES ASSUME pc = "idle"
               PROVE  /\ header[active] # Invalid /\ header[1 - active] = Invalid
                      /\ offset = ScanEnd(active) /\ sequence = header[active]
    BY DEF RebootAgrees
  <2>1. PICK a \in Bank : a = active /\ CallHolds(a, big)
    BY <1>1, Now
  <2> QED
    BY <2>1 DEF CallHolds
<1> QED
  BY <1>1, AlwaysNvsInv, PTL
-----------------------------------------------------------------------------
(* What a reader sees is decided by the flash alone.                        *)

LEMMA ViewOfBank ==
  \A n \in Nat : NvsInv(n) =>
    \A b \in Bank :
      header[b] # Invalid /\ (pc = "copy" => b = active) => View = [k \in Key |-> Holds(b, k)]
<1> SUFFICES ASSUME NEW big \in Nat, NvsInv(big), NEW b \in Bank, header[b] # Invalid,
                    pc = "copy" => b = active
             PROVE  View = [k \in Key |-> Holds(b, k)]
  OBVIOUS
<1> DEFINE log == [n \in Bank |->
                     [lim \in 0 .. Words + 2 |-> [k \in Key |-> Lookup(n, lim, k)]]]
<1>0. Words \in Nat /\ \A e \in 0 .. Words : e \in 0 .. Words + 2
  BY NvsAssumption
<1>1. PICK a \in Bank :
        /\ a = active /\ CallHolds(a, big) /\ FormatHolds(a)
        /\ 1 - a \in Bank /\ \A n \in Bank : n = a \/ n = 1 - a
  BY Now
<1>2. FlashSound /\ offset \in 0 .. Words /\ pc \in Pc
  BY DEF NvsInv
<1>3. \A n \in Bank, e \in 0 .. Words : log[n][e] = [k \in Key |-> Lookup(n, e, k)]
  BY <1>0
<1>4. BanksHold /\ header[0] # Invalid /\ header[1] # Invalid =>
        \A n, m \in Bank, k \in Key : Holds(n, k) = Holds(m, k)
  BY DEF BanksHold, Bank
<1>5. ASSUME NEW n \in Bank, header[n] # Invalid, pc = "copy" => n = b,
             NEW e \in 0 .. Words, e = ScanEnd(n), View = log[n][e]
      PROVE  View = [k \in Key |-> Holds(b, k)]
  <2>1. \A k \in Key : Holds(n, k) = Holds(b, k)
    <3>1. CASE n = b
      BY <3>1
    <3>2. CASE n # b
      <4>1. BanksHold /\ header[0] # Invalid /\ header[1] # Invalid
        BY <1>1, <1>5, <3>2 DEF Bank, CallHolds
      <4> QED
        BY <1>4, <4>1
    <3> QED
      BY <3>1, <3>2
  <2> HIDE DEF log
  <2>2. View = [k \in Key |-> Lookup(n, e, k)]
    BY <1>3, <1>5
  <2>3. \A k \in Key : Lookup(n, e, k) = Holds(b, k)
    BY <1>5, <2>1 DEF Holds
  <2> QED
    BY <2>2, <2>3
<1>6. CASE pc # "off"
  <2>1. View = log[a][offset]
    BY <1>1, <1>6 DEF View
  <2>2. header[a] # Invalid /\ offset = ScanEnd(a)
    <3>1. CASE InFormat
      BY <1>1, <3>1 DEF FormatHolds
    <3>2. CASE ~InFormat
      BY <1>1, <1>2, <1>6, <3>2 DEF CallHolds, InFormat, InCall, Pc
    <3> QED
      BY <3>1, <3>2
  <2>3. pc = "copy" => a = b
    BY <1>1
  <2> HIDE DEF log
  <2> QED
    BY <1>2, <1>5, <2>1, <2>2, <2>3
<1>7. CASE pc = "off"
  <2>1. PICK n \in Bank : n = Newest
    BY DEF Newest, Bank
  <2>2. header # [m \in Bank |-> Invalid]
    BY <1>7
  <2>3. View = log[n][ScanEnd(n)]
    BY <1>7, <2>1, <2>2 DEF View
  <2>4. header[n] # Invalid
    <3>1. \A m \in Bank : header[m] = Invalid \/ header[m] \in Nat
      BY <1>2, ValidLogs, NvsAssumption
    <3> QED
      BY <2>1, <3>1 DEF Newest, Invalid, Bank
  <2>5. ScanEnd(n) \in 0 .. Words
    BY <1>2, <2>4, ValidLogs
  <2>6. PICK e \in 0 .. Words : e = ScanEnd(n)
    BY <2>5
  <2> HIDE DEF log
  <2>7. View = log[n][e]
    BY <2>3, <2>6
  <2> QED
    BY <1>5, <1>7, <2>4, <2>6, <2>7
<1> QED
  BY <1>6, <1>7

LEMMA ViewOfNone ==
  \A n \in Nat : NvsInv(n) =>
    ((\A b \in Bank : header[b] = Invalid) => View = [k \in Key |-> Gone])
<1> SUFFICES ASSUME NEW big \in Nat, NvsInv(big), \A b \in Bank : header[b] = Invalid
             PROVE  View = [k \in Key |-> Gone]
  OBVIOUS
<1> DEFINE log == [n \in Bank |->
                     [lim \in 0 .. Words + 2 |-> [k \in Key |-> Lookup(n, lim, k)]]]
<1>0. Words \in Nat /\ \A e \in 0 .. Words : e \in 0 .. Words + 2
  BY NvsAssumption
<1>1. PICK a \in Bank : a = active /\ CallHolds(a, big) /\ FormatHolds(a)
  BY Now
<1>2. FlashSound /\ CellsSound /\ offset \in 0 .. Words /\ pc \in Pc
  BY DEF NvsInv, FlashSound
<1>3. CASE pc # "off"
  <2>1. View = log[a][offset]
    BY <1>1, <1>3 DEF View
  <2>2. PICK e \in 0 .. Words : e = offset
    BY <1>2
  <2>3. log[a][e] = [k \in Key |-> Lookup(a, e, k)]
    BY <1>0
  <2>4. InFormat
    BY <1>1, <1>2, <1>3 DEF CallHolds, InCall, InFormat, Pc
  <2>5. e = 0 \/ BlankUpTo(a, Words)
    BY <1>1, <2>2, <2>4 DEF FormatHolds
  <2>6. \A k \in Key : Lookup(a, e, k) = Gone
    <3>1. CASE e = 0
      <4>1. Boundaries(a) \subseteq Offset /\ \A o \in Offset : ~(o < 0)
        BY <1>0, <1>2, BoundariesAre DEF Scanned, CellsSound, Offset
      <4>2. Records(a, e) = {}
        BY <3>1, <4>1 DEF Records
      <4> QED
        BY <4>2 DEF Lookup
    <3>2. CASE BlankUpTo(a, Words)
      BY <1>0, <1>2, <3>2, BankEmpty
    <3> QED
      BY <2>5, <3>1, <3>2
  <2> HIDE DEF log
  <2> QED
    BY <2>1, <2>2, <2>3, <2>6
<1>4. CASE pc = "off"
  <2>1. header = [b \in Bank |-> Invalid]
    BY <1>2 DEF FlashSound
  <2> QED
    BY <1>4, <2>1 DEF View
<1> QED
  BY <1>3, <1>4

LEMMA ViewNext ==
  \A n \in Nat : NvsInv(n)' =>
    /\ \A b \in Bank :
         header'[b] # Invalid /\ (pc' = "copy" => b = active') =>
           View' = [k \in Key |-> Holds(b, k)']
    /\ (\A b \in Bank : header'[b] = Invalid) => View' = [k \in Key |-> Gone]
<1>1. (\A n \in Nat : NvsInv(n) =>
        \A b \in Bank :
          header[b] # Invalid /\ (pc = "copy" => b = active) =>
            View = [k \in Key |-> Holds(b, k)])'
  BY ViewOfBank, PTL
<1>2. (\A n \in Nat : NvsInv(n) =>
        ((\A b \in Bank : header[b] = Invalid) => View = [k \in Key |-> Gone]))'
  BY ViewOfNone, PTL
<1> QED
  BY <1>1, <1>2

(* It stays when a bank that decides it does. *)
LEMMA ViewStays ==
  ASSUME NEW big \in Nat, NvsInv(big), NvsInv(big)',
         NEW b \in Bank, header[b] # Invalid, pc = "copy" => b = active,
         header'[b] # Invalid, pc' = "copy" => b = active', SameUpTo(b, Words)
  PROVE  View' = View
<1>1. CellsSound /\ CellsSound' /\ LogSound(b, ScanEnd(b))
  BY DEF NvsInv, FlashSound
<1>2. \A k \in Key : Holds(b, k)' = Holds(b, k)
  BY <1>1, BankUntouched
<1>3. View = [k \in Key |-> Holds(b, k)]
  BY ViewOfBank
<1>4. View' = [k \in Key |-> Holds(b, k)']
  BY ViewNext
<1> QED
  BY <1>2, <1>3, <1>4

LEMMA ViewSameFlash ==
  ASSUME NEW big \in Nat, NvsInv(big), NvsInv(big)', UNCHANGED flash,
         pc' = "copy" => pc = "copy" /\ active' = active
  PROVE  View' = View
<1>1. PICK a \in Bank : a = active /\ CallHolds(a, big)
  BY Now
<1>2. header' = header /\ cell' = cell
  BY DEF flash
<1>3. \A b \in Bank : SameUpTo(b, Words)
  BY <1>2 DEF SameUpTo
<1>4. CASE pc = "copy"
  <2>1. header[a] # Invalid
    BY <1>1, <1>4 DEF CallHolds, InCall
  <2> QED
    BY <1>1, <1>2, <1>3, <2>1, ViewStays
<1>5. CASE pc # "copy" /\ \E b \in Bank : header[b] # Invalid
  BY <1>2, <1>3, <1>5, ViewStays
<1>6. CASE \A b \in Bank : header[b] = Invalid
  BY <1>2, <1>6, ViewOfNone, ViewNext
<1> QED
  BY <1>4, <1>5, <1>6

LEMMA ViewErase ==
  ASSUME NEW big \in Nat, NvsInv(big), NvsInv(big)', NEW b \in Bank, Erase(b),
         pc # "copy", pc' # "copy"
  PROVE  /\ header[1 - b] # Invalid => View' = View
         /\ header[1 - b] = Invalid => View' = [k \in Key |-> Gone]
<1>1. /\ header'[b] = Invalid /\ header'[1 - b] = header[1 - b] /\ SameUpTo(1 - b, Words)
      /\ 1 - b \in Bank /\ \A a \in Bank : a = b \/ a = 1 - b
  BY EraseStep DEF NvsInv, Bank
<1>2. header[1 - b] # Invalid => View' = View
  BY <1>1, ViewStays
<1>3. header[1 - b] = Invalid => View' = [k \in Key |-> Gone]
  <2>1. header[1 - b] = Invalid => \A a \in Bank : header'[a] = Invalid
    BY <1>1
  <2> QED
    BY <2>1, ViewNext
<1> QED
  BY <1>2, <1>3

(* What the steps are in the abstract store. *)
LEMMA NoneOrEnd ==
  ASSUME View' = View, job' = job \/ job' = <<>>
  PROVE  [KV!Next]_<<View, job>>
BY DEF KV!Next, KV!End

LEMMA CallBegins ==
  ASSUME View' = View, job = <<>>, job' \in {Formatting} \cup (Key \X (Value \cup {Gone}))
  PROVE  KV!Next
BY DEF KV!Next, KV!Begin, KV!Formatting, Formatting

LEMMA FormatEraseReads ==
  ASSUME NEW big \in Nat, NvsInv(big), NvsInv(big)', NEW b \in Bank, FormatErase(b)
  PROVE  [KV!Next]_<<View, job>>
<1>1. PICK a \in Bank :
        /\ a = active /\ FormatHolds(a) /\ 1 - a \in Bank /\ 1 - (1 - a) = a
        /\ \A n \in Bank : n = a \/ n = 1 - a
  BY Now
<1>2. /\ pc \in {"format0", "format1"} /\ pc' \in {"format1", "format_header"}
      /\ Erase(b) /\ job' = job
  BY DEF FormatErase, At
<1>3. /\ header[1 - b] # Invalid => View' = View
      /\ header[1 - b] = Invalid => View' = [k \in Key |-> Gone]
  BY <1>2, ViewErase
<1>4. header[1 - a] = Invalid /\ (header[a] # Invalid => job = Formatting)
  BY <1>1, <1>2 DEF FormatHolds, InFormat
<1>5. CASE header[1 - b] # Invalid
  BY <1>2, <1>3, <1>5, NoneOrEnd
<1>6. CASE header[a] = Invalid
  <2>1. \A n \in Bank : header[n] = Invalid
    BY <1>1, <1>4, <1>6
  <2>2. View = [k \in Key |-> Gone]
    BY <2>1, ViewOfNone
  <2> QED
    BY <1>2, <1>3, <1>5, <2>2, NoneOrEnd
<1>7. CASE header[a] # Invalid /\ header[1 - b] = Invalid
  <2>1. job = Formatting /\ View' = [k \in Key |-> Gone]
    BY <1>3, <1>4, <1>7
  <2>2. KV!TakeEffect
    BY <1>2, <2>1 DEF KV!TakeEffect, KV!Formatting, Formatting
  <2> QED
    BY <2>2 DEF KV!Next
<1> QED
  BY <1>5, <1>6, <1>7

LEMMA FormatHeaderReads ==
  ASSUME NEW big \in Nat, NvsInv(big), NvsInv(big)', FormatHeader
  PROVE  View' = View /\ job' = <<>>
<1>1. PICK a \in Bank : FormatHolds(a)
  BY Now
<1>2. pc = "format_header" /\ pc' = "idle" /\ WriteHeader(0, 1) /\ job' = <<>>
  BY DEF FormatHeader, At
<1>3. /\ header[0] = Invalid /\ header[1] = Invalid /\ BlankUpTo(0, Words) /\ 0 \in Bank
      /\ \A b \in Bank : header[b] = Invalid
  BY <1>1, <1>2 DEF FormatHolds, Bank
<1>4. header'[0] = 1 /\ \A k \in Key : Holds(0, k)' = Gone
  <2>1. 1 \in 0 .. SeqRange - 1
    BY NvsAssumption
  <2> QED
    BY <1>2, <1>3, <2>1, HeaderStep DEF NvsInv
<1>5. View' = [k \in Key |-> Holds(0, k)'] /\ View = [k \in Key |-> Gone]
  BY <1>2, <1>3, <1>4, ViewOfNone, ViewNext DEF Invalid
<1> QED
  BY <1>2, <1>4, <1>5

LEMMA CompactReads ==
  ASSUME NEW big \in Nat, NvsInv(big), NvsInv(big)',
         Drop \/ CompactErase \/ CompactHeader \/ Copy \/ CompactSource
  PROVE  View' = View /\ (job' = job \/ job' = <<>>)
<1>1. PICK a \in Bank :
        /\ a = active /\ CallHolds(a, big) /\ 1 - a \in Bank /\ 1 - (1 - a) = a /\ 1 - a = Alt
  BY Now
<1>2. FlashSound /\ CellsSound
  BY DEF NvsInv, FlashSound
<1>3. CASE Drop \/ CompactErase
  <2>1. /\ pc \in {"drop", "compact_erase"} /\ pc' \in {"idle", "compact_header"}
        /\ Erase(1 - a) /\ job' = job
    BY <1>1, <1>3 DEF Drop, CompactErase, At
  <2>2. header[a] # Invalid
    BY <1>1, <2>1 DEF CallHolds, InCall
  <2> QED
    BY <1>1, <2>1, <2>2, ViewErase
<1>4. CASE CompactHeader
  <2>1. /\ pc = "compact_header" /\ WriteHeader(1 - a, NextSequence)
        /\ job' = job /\ active' = active
    BY <1>1, <1>4 DEF CompactHeader, At, ram
  <2>2. header[a] # Invalid /\ sequence = header[a]
    BY <1>1, <2>1 DEF CallHolds, InCall
  <2>3. SameUpTo(a, Words) /\ header' = [header EXCEPT ![1 - a] = NextSequence]
    <3>1. a = 0 \/ a = 1
      BY DEF Bank
    <3> QED
      BY <1>1, <1>2, <2>1, <3>1, HeaderKeeps
  <2>4. header'[a] = header[a]
    BY <1>2, <2>3 DEF FlashSound, Bank
  <2> QED
    BY <1>1, <2>1, <2>2, <2>3, <2>4, ViewStays
<1>5. CASE Copy
  <2>1. pc = "copy" /\ pc' = "copy" /\ header' = header /\ job' = job /\ active' = active
    BY <1>5 DEF Copy, ram
  <2>2. header[a] # Invalid
    BY <1>1, <2>1 DEF CallHolds, InCall
  <2>3. cell'[a] = cell[a]
    <3>1. cell' = Programmed(1 - a, dst, CopyWords, Len(CopyWords)) \/ cell' = cell
      BY <1>1, <1>5 DEF Copy
    <3>2. a # 1 - a
      BY DEF Bank
    <3>3. \A x : [cell EXCEPT ![1 - a] = x][a] = cell[a]
      <4>1. cell = [b \in Bank |-> [i \in Index |-> cell[b][i]]]
        BY <1>2 DEF CellsSound
      <4>2. DOMAIN cell = Bank
        BY <4>1
      <4> QED
        BY <3>2, <4>2
    <3> QED
      BY <3>1, <3>3 DEF Programmed
  <2>4. SameUpTo(a, Words)
    BY <2>3 DEF SameUpTo
  <2> QED
    BY <1>1, <2>1, <2>2, <2>4, ViewStays
<1>6. CASE CompactSource
  <2>1. pc = "compact_source" /\ pc' # "copy" /\ Erase(a) /\ (job' = job \/ job' = <<>>)
    BY <1>1, <1>6 DEF CompactSource
  <2>2. header[1 - a] # Invalid
    BY <1>1, <1>2, <2>1, ValidLogs, NextSequenceFits, NvsAssumption DEF CallHolds, InCall, Invalid
  <2> QED
    BY <1>1, <2>1, <2>2, ViewErase
<1> QED
  BY <1>3, <1>4, <1>5, <1>6

LEMMA Append2LogReads ==
  ASSUME NEW big \in Nat, NvsInv(big), NvsInv(big)', Append2Log
  PROVE  KV!Next
<1>1. PICK a \in Bank, k \in Key, v \in Value \cup {Gone} :
        /\ job = <<k, v>> /\ job' = <<>> /\ pc = "append" /\ pc' = "idle"
        /\ header[a] # Invalid /\ header'[a] # Invalid
        /\ \A j \in Key : Holds(a, j)' = IF j = k THEN v ELSE Holds(a, j)
  BY Append2LogKeeps
<1>2. View = [j \in Key |-> Holds(a, j)] /\ View' = [j \in Key |-> Holds(a, j)']
  BY <1>1, ViewOfBank, ViewNext
<1>3. View' = [View EXCEPT ![k] = v]
  BY <1>1, <1>2
<1>4. job # <<>> /\ job # KV!Formatting
  BY <1>1 DEF KV!Formatting
<1>5. KV!TakeEffect
  BY <1>1, <1>3, <1>4 DEF KV!TakeEffect
<1> QED
  BY <1>5 DEF KV!Next

LEMMA StepReads ==
  ASSUME NEW big \in Nat, Tame, NvsInv(big), NvsInv(big)', [Next]_vars
  PROVE  [KV!Next]_<<View, job>>
<1>1. CASE Mount \/ CopyDone
  <2>1. UNCHANGED flash /\ job' = job /\ pc' # "copy"
    BY <1>1 DEF Mount, CopyDone, At
  <2> QED
    BY <2>1, ViewSameFlash, NoneOrEnd
<1>2. CASE FormatErase(0) \/ FormatErase(1)
  <2>1. 0 \in Bank /\ 1 \in Bank
    BY DEF Bank
  <2> QED
    BY <1>2, <2>1, FormatEraseReads
<1>3. CASE FormatHeader
  BY <1>3, FormatHeaderReads, NoneOrEnd
<1>4. CASE Drop \/ CompactErase \/ CompactHeader \/ Copy \/ CompactSource
  BY <1>4, CompactReads, NoneOrEnd
<1>5. CASE Append2Log
  BY <1>5, Append2LogReads
<1>6. CASE AppendRefused \/ Cut \/ Fail
  <2>1. UNCHANGED flash
    BY <1>6, FaultsSpareFlash DEF AppendRefused, Cut, Fail
  <2>2. pc' # "copy" /\ job' = <<>>
    BY <1>6 DEF AppendRefused, Cut, Fail, GiveUp, PowerOff
  <2> QED
    BY <2>1, <2>2, ViewSameFlash, NoneOrEnd
<1>7. CASE Call
  <2>1. UNCHANGED flash /\ pc = "idle" /\ pc' # "copy"
    BY <1>7 DEF Call, Format, Delete, Write, Start, At
  <2>2. job' \in {Formatting} \cup (Key \X (Value \cup {Gone}))
    BY <1>7 DEF Call, Format, Delete, Write, Start
  <2>3. job = <<>>
    BY <2>1, Now DEF RestHolds
  <2> QED
    BY <2>1, <2>2, <2>3, ViewSameFlash, CallBegins
<1>8. CASE UNCHANGED vars
  <2>1. UNCHANGED flash /\ job' = job /\ pc' = pc /\ active' = active
    BY <1>8 DEF vars, ram
  <2> QED
    BY <2>1, ViewSameFlash, NoneOrEnd
<1> QED
  BY <1>1, <1>2, <1>3, <1>4, <1>5, <1>6, <1>7, <1>8 DEF Next, Work

(* Under the same conditions the store is what KvStore promises: each call  *)
(* changes what the reader sees in one step at most and for its own key     *)
(* alone, and no power cut, mount, compaction or refused call changes it.   *)
THEOREM StoreImplementsKvStore ==
  ASSUME NEW big \in Nat, Tame, RoomForAll(big)
  PROVE  Spec => ImplementsKvStore
<1>1. ASSUME Init PROVE KV!Init
  <2>1. header = [b \in Bank |-> Invalid] /\ pc = "off" /\ job = <<>>
    BY <1>1 DEF Init
  <2> QED
    BY <2>1 DEF KV!Init, View
<1>2. ASSUME NvsInv(big), NvsInv(big)', [Next]_vars PROVE [KV!Next]_<<View, job>>
  BY <1>2, StepReads
<1> QED
  BY <1>1, <1>2, AlwaysNvsInv, PTL DEF Spec, ImplementsKvStore, KV!Spec
=============================================================================
