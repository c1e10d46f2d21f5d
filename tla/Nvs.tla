--------------------------------- MODULE Nvs ---------------------------------
(***************************************************************************)
(* The dual-bank log-structured store of nvs.c on NOR flash, one action    *)
(* per flash operation, so that power may fail and the driver may report   *)
(* an error between any two of them, or in the middle of programming.      *)
(*                                                                         *)
(* A bank is a sector header and a log of records.  A record is two header *)
(* words (key and length; CRC and status) and its payload words.  Words    *)
(* are programmed in address order, each at once.  Erased words read as    *)
(* all ones, which is also how a VALID status and the end of the log read. *)
(***************************************************************************)
EXTENDS Integers, Sequences, FiniteSetsExt

CONSTANTS
  Key, Value,
  Gone, Corrupt,  (* FW_ERR_NOT_FOUND, FW_ERR_CORRUPTED as answers of a read *)
  Size,           (* Size[v]: payload words of value v *)
  Words,          (* words of a sector behind its header *)
  SeqRange,       (* sector sequence numbers wrap here (2^32) *)
  CutAt,          (* where power may fail: values of pc *)
  TearAt,         (* where an interrupted programming may stop midway *)
  FailAt          (* where the flash driver may report an error *)

Bank == {0, 1}

ASSUME NvsAssumption ==
  /\ Gone \notin Value /\ Corrupt \notin Value /\ Gone # Corrupt
  /\ Size \in [Value -> Nat]
  /\ Words \in Nat
  /\ SeqRange \in Nat /\ SeqRange > 2
  /\ FailAt \cap {"off", "idle"} = {}   (* no flash operation is under way there *)

VARIABLES
  header,    (* header[b]: sequence of bank b's ACTIVE header, or Invalid *)
  cell,      (* cell[b][i]: word i behind bank b's header *)
  active, offset, sequence,  (* fw_nvs_t; offset is in words, from 0 *)
  pc,        (* the flash operation under way; "idle", or "off" *)
  job,       (* the call in progress: <<k, v>>, <<k, Gone>> or Formatting *)
  src, dst,  (* offsets of the compaction loop *)
  may,       (* may[k]: the values k may have, given what calls returned *)
  unsure     (* the keys whose last write or delete has not returned FW_OK *)

flash == <<header, cell>>
ram == <<active, offset, sequence>>
loop == <<src, dst>>
client == <<may, unsure>>
vars == <<flash, ram, pc, job, loop, client>>

Invalid == -1
AllOnes == SeqRange - 1    (* a sequence word that was never programmed *)
Blank == <<"blank">>
Formatting == <<"format">>
Other == <<"other">>       (* a word of bank 1's header, read as bank 0's *)

\* A tombstone may end up to two words past its sector.
Index == 1 .. Words + 2

Record(k, v) ==
  IF v = Gone THEN << <<"head", k, 0>>, <<"meta", k, Gone>> >>
  ELSE << <<"head", k, Size[v]>>, <<"meta", k, v>> >>
         \o [i \in 1 .. Size[v] |-> <<"data", v, i>>]

Total(k, v) == Len(Record(k, v))
-----------------------------------------------------------------------------
(* Reading a bank's log.                                                   *)

IsHead(b, o) == o + 1 \in Index /\ cell[b][o + 1][1] = "head"
KeyAt(b, o) == cell[b][o + 1][2]
TotalAt(b, o) == 2 + cell[b][o + 1][3]

\* The offsets a scan of the log comes to, the last one its end.
Boundaries(b) ==
  LET from[o \in 0 .. Words + 2] ==
        {o} \cup IF IsHead(b, o) THEN from[o + TotalAt(b, o)] ELSE {}
  IN  from[0]

\* The records before offset lim.
Records(b, lim) == {o \in Boundaries(b) : o < lim /\ IsHead(b, o)}

\* scan_write_offset stops before a record that would leave the sector.
ScanEnd(b) == Max({o \in Boundaries(b) : o <= Words})

\* An unprogrammed status reads as FW_NVS_STATUS_VALID.
StatusValid(b, o) ==
  LET meta == cell[b][o + 2] IN meta = Blank \/ (meta # Other /\ meta[3] # Gone)

\* The CRC over key, length and payload holds.
CrcHolds(b, o, v) ==
  /\ TotalAt(b, o) = Total(KeyAt(b, o), v)
  /\ SubSeq(cell[b], o + 1, o + TotalAt(b, o)) = Record(KeyAt(b, o), v)

\* fw_nvs_read over the log of bank b before lim: the last record decides.
Lookup(b, lim, k) ==
  LET R == {o \in Records(b, lim) : KeyAt(b, o) = k}
  IN  IF R = {} \/ ~StatusValid(b, Max(R)) THEN Gone
      ELSE IF \E v \in Value : CrcHolds(b, Max(R), v)
           THEN CHOOSE v \in Value : CrcHolds(b, Max(R), v)
           ELSE Corrupt

ReadKey(k) == Lookup(active, offset, k)
-----------------------------------------------------------------------------
(* The flash driver.                                                       *)

\* Cells after erasing bank b.
Erased(b) ==
  [cell EXCEPT ![b] = [i \in Index |-> IF i <= Words THEN Blank ELSE @[i]],
               ![1 - b] = [i \in Index |-> IF i <= Words \/ b = 0 THEN @[i] ELSE Blank]]

Erase(b) ==
  /\ header' = [header EXCEPT ![b] = Invalid]
  /\ cell' = Erased(b)

\* Writing bank b's header; bank 1's begins where bank 0 ends.
WriteHeader(b, seq) ==
  /\ header' = [header EXCEPT ![b] = seq]
  /\ cell' = IF b = 0 THEN cell
             ELSE [cell EXCEPT ![0] =
                     [i \in Index |-> IF i <= Words THEN @[i] ELSE Other]]

\* Programming the first n of words at offset o of bank b.
Programmed(b, o, words, n) ==
  [cell EXCEPT ![b] =
     [i \in Index |-> IF i \in o + 1 .. o + n THEN words[i - o] ELSE @[i]]]

\* A word can be programmed once, or again with what it holds; the last bank
\* ends where the device does.
Programmable(b, o, words) ==
  \A i \in 1 .. Len(words) :
    /\ o + i \in Index
    /\ b = 1 => o + i <= Words
    /\ cell[b][o + i] \in {Blank, words[i]}

\* What bank 1's header becomes when bank 0's words run over it.
Overrun(b, o, n) ==
  IF b = 0 /\ o + n > Words THEN [header EXCEPT ![1] = Invalid] ELSE header
-----------------------------------------------------------------------------
(* fw_nvs_init and fw_nvs_format.                                          *)

Init ==
  /\ header = [b \in Bank |-> Invalid]
  /\ cell = [b \in Bank |-> [i \in Index |-> Blank]]
  /\ active = 0 /\ offset = 0 /\ sequence = 0
  /\ pc = "off"
  /\ job = <<>>
  /\ src = 0 /\ dst = 0
  /\ may = [k \in Key |-> {Gone}]
  /\ unsure = {}

At(from, to) == pc = from /\ pc' = to

Newest == IF header[1] > header[0] THEN 1 ELSE 0

\* The mount reads both headers; Newest also picks the only valid one.
Mount ==
  /\ pc = "off"
  /\ LET valid == {b \in Bank : header[b] # Invalid}
     IN  IF valid = {}
         THEN pc' = "format0" /\ UNCHANGED ram
         ELSE /\ active' = Newest
              /\ sequence' = header[Newest]
              /\ offset' = ScanEnd(Newest)
              /\ pc' = IF valid = Bank THEN "drop" ELSE "idle"
  /\ UNCHANGED <<flash, job, loop, client>>

\* Two valid banks: the older one goes, whether or not the erase succeeds.
Drop ==
  /\ At("drop", "idle")
  /\ Erase(1 - active)
  /\ UNCHANGED <<ram, job, loop, client>>

\* The application formats the store.
Format ==
  /\ At("idle", "format0")
  /\ job' = Formatting
  /\ may' = [k \in Key |-> may[k] \cup {Gone}]
  /\ unsure' = Key
  /\ UNCHANGED <<flash, ram, loop>>

FormatErase(b) ==
  /\ IF b = 0 THEN At("format0", "format1") ELSE At("format1", "format_header")
  /\ Erase(b)
  /\ UNCHANGED <<ram, job, loop, client>>

FormatHeader ==
  /\ At("format_header", "idle")
  /\ WriteHeader(0, 1)
  /\ active' = 0 /\ offset' = 0 /\ sequence' = 1
  /\ job' = <<>>
  /\ may' = [k \in Key |-> may[k] \cap {Gone}]
  /\ unsure' = {}
  /\ UNCHANGED loop
-----------------------------------------------------------------------------
(* fw_nvs_write and fw_nvs_delete up to the flash.                         *)

\* A record that does not fit behind the log sends the call to nvs_compact.
Start(k, v) ==
  /\ pc = "idle"
  /\ pc' = IF offset + Total(k, v) > Words THEN "compact_erase" ELSE "append"
  /\ job' = <<k, v>>
  /\ may' = [may EXCEPT ![k] = @ \cup {v}]
  /\ unsure' = unsure \cup {k}
  /\ UNCHANGED <<flash, ram, loop>>

\* FW_ERR_OUT_OF_MEMORY for a record no sector could hold.
Write(k, v) == Total(k, v) <= Words /\ Start(k, v)

\* Only FW_ERR_NOT_FOUND stops a delete.
Delete(k) == ReadKey(k) # Gone /\ Start(k, Gone)

\* The call returns with an error.
GiveUp ==
  /\ pc' = "idle" /\ job' = <<>>
  /\ src' = 0 /\ dst' = 0
  /\ UNCHANGED <<ram, client>>
-----------------------------------------------------------------------------
(* nvs_compact.                                                            *)

Alt == 1 - active

NextSequence == (sequence + 1) % SeqRange

CompactErase ==
  /\ At("compact_erase", "compact_header")
  /\ Erase(Alt)
  /\ UNCHANGED <<ram, job, loop, client>>

CompactHeader ==
  /\ At("compact_header", "copy")
  /\ WriteHeader(Alt, NextSequence)
  /\ src' = 0 /\ dst' = 0
  /\ UNCHANGED <<ram, job, client>>

\* Faulty variants: only a later valid record supersedes; the oldest wins.
LivePastTombstone(o) ==
  /\ StatusValid(active, o)
  /\ \A p \in Records(active, offset) :
       p > o /\ StatusValid(active, p) => KeyAt(active, p) # KeyAt(active, o)
LiveOldest(o) ==
  /\ StatusValid(active, o)
  /\ \A p \in Records(active, offset) : p < o => KeyAt(active, p) # KeyAt(active, o)

\* A valid record is live unless a later one, valid or not, has its key.
Live(o) ==
  /\ StatusValid(active, o)
  /\ \A p \in Records(active, offset) : p > o => KeyAt(active, p) # KeyAt(active, o)

Copying == src \in Records(active, offset)
CopyWords == SubSeq(cell[active], src + 1, src + TotalAt(active, src))

\* Faulty variant: a superseded record is not stepped over.
NextSourceStuck == IF Live(src) THEN src + TotalAt(active, src) ELSE src
NextSource == src + TotalAt(active, src)

\* One turn of the loop over the old log.
Copy ==
  /\ pc = "copy"
  /\ Copying
  /\ src' = NextSource
  /\ IF Live(src)
     THEN /\ Programmable(Alt, dst, CopyWords)
          /\ cell' = Programmed(Alt, dst, CopyWords, Len(CopyWords))
          /\ dst' = dst + Len(CopyWords)
     ELSE UNCHANGED <<cell, dst>>
  /\ UNCHANGED <<header, ram, pc, job, client>>

CopyDone ==
  /\ At("copy", "compact_source")
  /\ ~Copying
  /\ UNCHANGED <<flash, ram, job, loop, client>>

\* Faulty variant: the sequence is not taken over.
TakeOverOldSequence == active' = Alt /\ offset' = dst /\ UNCHANGED sequence
TakeOver == active' = Alt /\ offset' = dst /\ sequence' = NextSequence

\* The old bank goes and the new one takes over; a write looks once more
\* whether its record fits, a delete does not.
CompactSource ==
  /\ pc = "compact_source"
  /\ Erase(active)
  /\ TakeOver
  /\ src' = 0 /\ dst' = 0
  /\ IF job[2] # Gone /\ dst + Total(job[1], job[2]) > Words
     THEN pc' = "idle" /\ job' = <<>>
     ELSE pc' = "append" /\ job' = job
  /\ UNCHANGED client
-----------------------------------------------------------------------------
(* The record goes to the end of the log; offset moves only afterwards.    *)

JobWords == Record(job[1], job[2])

Append2Log ==
  /\ pc = "append"
  /\ Programmable(active, offset, JobWords)
  /\ cell' = Programmed(active, offset, JobWords, Len(JobWords))
  /\ header' = Overrun(active, offset, Len(JobWords))
  /\ offset' = offset + Len(JobWords)
  /\ pc' = "idle"
  /\ job' = <<>>
  /\ may' = [may EXCEPT ![job[1]] = {job[2]}]
  /\ unsure' = unsure \ {job[1]}
  /\ UNCHANGED <<active, sequence, loop>>

\* The driver refuses: words of a record that failed earlier are in the way.
AppendRefused ==
  /\ pc = "append"
  /\ ~Programmable(active, offset, JobWords)
  /\ GiveUp
  /\ UNCHANGED flash
-----------------------------------------------------------------------------
(* Faults.                                                                 *)

\* What the programming under way leaves when it stops after n words: of a
\* record its first words; of a sector header nothing valid, or magic and
\* state without the sequence.
Interrupted(n) ==
  \/ n = 0 /\ UNCHANGED flash
  \/ /\ pc = "append" /\ n < Len(JobWords)
     /\ Programmable(active, offset, SubSeq(JobWords, 1, n))
     /\ cell' = Programmed(active, offset, JobWords, n)
     /\ header' = Overrun(active, offset, n)
  \/ /\ pc \in {"compact_header", "format_header"} /\ n = 2
     /\ WriteHeader(IF pc = "format_header" THEN 0 ELSE Alt, AllOnes)

Stopped == \E n \in 0 .. Words : (n > 0 => pc \in TearAt) /\ Interrupted(n)

\* What was in RAM is gone.
PowerOff ==
  /\ pc' = "off"
  /\ active' = 0 /\ offset' = 0 /\ sequence' = 0
  /\ job' = <<>>
  /\ src' = 0 /\ dst' = 0
  /\ UNCHANGED client

Cut == pc \in CutAt /\ Stopped /\ PowerOff

\* The driver reports an error: FW_CHECK returns it to the caller, except
\* that a mount ignores it when it drops the older bank.  After a failed
\* format the application mounts anew.
Fail ==
  /\ pc \in FailAt
  /\ Stopped
  /\ IF pc \in {"format0", "format1", "format_header"}
     THEN PowerOff
     ELSE GiveUp
-----------------------------------------------------------------------------
Work ==
  \/ Mount \/ Drop \/ FormatErase(0) \/ FormatErase(1) \/ FormatHeader
  \/ CompactErase \/ CompactHeader \/ Copy \/ CopyDone \/ CompactSource
  \/ Append2Log \/ AppendRefused

Call ==
  \/ \E k \in Key : Delete(k) \/ \E v \in Value : Write(k, v)
  \/ Format

Next == Work \/ Call \/ Cut \/ Fail

Spec == Init /\ [][Next]_vars

\* The CPU runs on as long as it has power.
FairSpec == Spec /\ WF_vars(Work)
-----------------------------------------------------------------------------
(* Properties.                                                             *)

Answer == Value \cup {Gone, Corrupt}
Word == {Blank, Other}
        \cup {<<"head", k, n>> : k \in Key, n \in {0} \cup {Size[v] : v \in Value}}
        \cup ({"meta"} \X Key \X (Value \cup {Gone}))
        \cup ({"data"} \X Value \X (1 .. Words))
Pc == {"off", "drop", "idle", "format0", "format1", "format_header",
       "compact_erase", "compact_header", "copy", "compact_source", "append"}

\* The state of the store, in flash, in fw_nvs_t and in the calls' locals.
TypeOK ==
  /\ header \in [Bank -> {Invalid} \cup 0 .. SeqRange - 1]
  /\ cell \in [Bank -> Seq(Word)] /\ \A b \in Bank : Len(cell[b]) = Words + 2
  /\ active \in Bank /\ offset \in 0 .. Words + 2 /\ sequence \in 0 .. SeqRange - 1
  /\ pc \in Pc
  /\ job \in {<<>>, Formatting} \cup (Key \X (Value \cup {Gone}))
  /\ src \in 0 .. Words + 2 /\ dst \in 0 .. Words
  /\ may \in [Key -> SUBSET Answer] /\ unsure \subseteq Key

\* Between calls every key reads as the last write or delete of it that
\* returned FW_OK left it, or as one after it that did not return: neither
\* compaction nor a power cut and the mount after it (fw_nvs_init) loses,
\* revives or garbles a key.
Durable == pc = "idle" => \A k \in Key : ReadKey(k) \in may[k]

\* As Durable, but the key whose write or delete never returned FW_OK may
\* read as corrupted: what an interrupted or failed flash write leaves never
\* reaches another key, nor is it ever taken for a value.
DamageContained ==
  pc = "idle" =>
    \A k \in Key :
      ReadKey(k) \in may[k] \cup (IF k \in unsure THEN {Corrupt} ELSE {})

\* Between calls a mount would find what the running store goes on with: the
\* other bank carries no header it could take for the newer one, and the scan
\* (scan_write_offset) ends where fw_nvs_t has its write offset, so that after
\* a reboot records are appended where the running store would have.
RebootAgrees ==
  pc = "idle" =>
    /\ header[active] # Invalid /\ header[1 - active] = Invalid
    /\ offset = ScanEnd(active) /\ sequence = header[active]

\* What a reader sees, or would see after the mount if power is off.
View ==
  LET log[b \in Bank] == [lim \in 0 .. Words + 2 |-> [k \in Key |-> Lookup(b, lim, k)]]
  IN  IF pc # "off" THEN log[active][offset]
      ELSE IF header = [b \in Bank |-> Invalid] THEN [k \in Key |-> Gone]
      ELSE log[Newest][ScanEnd(Newest)]

KV == INSTANCE KvStore WITH store <- View, call <- job

\* Every call takes effect in one step at most, whether power fails before,
\* after or during the compaction it sets off; no other step, a mount or a
\* power cut in particular, changes what any key reads as.
ImplementsKvStore == KV!Spec

\* Once it runs, a call or mount comes to its end, whether the flash is full
\* or not.
Returns == pc \notin {"idle", "off"} ~> pc \in {"idle", "off"}
=============================================================================
