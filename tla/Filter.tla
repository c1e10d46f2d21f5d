------------------------------- MODULE Filter -------------------------------
(***************************************************************************)
(* The filters of filter.c and filter.h as a superloop uses them: each     *)
(* sample of a sensor goes into an average and a window of five, each      *)
(* level of a pin into the debouncer.                                      *)
(***************************************************************************)
EXTENDS Integers, Sequences, FiniteSets

CONSTANTS
  Reading,    (* samples of the sensor, of uint16_t *)
  AlphaShift, (* the weight of a new sample is 1 / 2^AlphaShift *)
  Threshold   (* what fw_debounce_init is told *)

FitsUint16(n) == n < 2^16

ASSUME FilterAssumption ==
  /\ Reading \subseteq Nat /\ Reading # {} /\ \A r \in Reading : FitsUint16(r)
  /\ AlphaShift \in 0 .. 15 /\ Threshold \in Nat

VARIABLES
  window,   (* the caller's last five samples, the oldest first *)
  ema,      (* the running average *)
  counter,  (* fw_debounce_t.counter *)
  stable,   (* fw_debounce_t.debounced_state *)
  recent,   (* history: the last levels of the pin, as many as are needed *)
  settledOn (* history: the last level the pin has held for so long *)

sensor == <<window, ema>>
pin == <<counter, stable, recent, settledOn>>
filterVars == <<sensor, pin>>

Needed == IF Threshold > 0 THEN Threshold ELSE 1

\* fw_filter_median5_u16: exchanges of neighbours in this order.
\* Faulty variant: the fifth sample misses an exchange.
NetworkShort == <<<<1, 2>>, <<3, 4>>, <<1, 3>>, <<2, 4>>, <<2, 3>>, <<1, 5>>, <<2, 5>>, <<3, 4>>>>
Network == <<<<1, 2>>, <<3, 4>>, <<1, 3>>, <<2, 4>>, <<2, 3>>, <<1, 5>>, <<2, 5>>, <<3, 5>>, <<3, 4>>>>
SwapIfGreater(s, at) ==
  IF s[at[1]] > s[at[2]]
    THEN [s EXCEPT ![at[1]] = s[at[2]], ![at[2]] = s[at[1]]]
    ELSE s
Median5(s) ==
  LET after[k \in 0 .. Len(Network)] ==
        IF k = 0 THEN s ELSE SwapIfGreater(after[k - 1], Network[k])
  IN  after[Len(Network)][3]

\* fw_filter_median3_u16.
Median3(a, b, c) ==
  CASE (a <= b /\ b <= c) \/ (c <= b /\ b <= a) -> b
    [] (a <= c /\ c <= b) \/ (b <= c /\ c <= a) -> c
    [] OTHER -> a

\* fw_filter_ema_u16; a shift to the right rounds towards minus infinity.
Ema(current, sample) == (current + (sample - current) \div 2^AlphaShift) % 65536

FilterInit ==
  /\ \E r \in Reading : window = <<r, r, r, r, r>> /\ ema = r
  /\ counter = 0
  /\ stable \in BOOLEAN
  /\ recent = [i \in 1 .. Needed |-> stable] /\ settledOn = stable

Measure(sample) ==
  /\ window' = Append(Tail(window), sample)
  /\ ema' = Ema(ema, sample)
  /\ UNCHANGED pin

Observe(raw) ==
  /\ recent' = Append(Tail(recent), raw)
  /\ settledOn' = IF \A i \in 1 .. Needed : recent'[i] = raw THEN raw ELSE settledOn

\* fw_debounce_update with the level the pin has had all along, with another one
\* that may be a bounce, and with the last of enough others.
Agree(raw) ==
  /\ raw = stable
  /\ counter' = 0
  /\ UNCHANGED <<stable, sensor>>
  /\ Observe(raw)
CountOther(raw) ==
  /\ raw # stable /\ counter + 1 < Needed
  /\ counter' = counter + 1
  /\ UNCHANGED <<stable, sensor>>
  /\ Observe(raw)
Flip(raw) ==
  /\ raw # stable /\ counter + 1 >= Needed
  /\ stable' = raw /\ counter' = 0
  /\ UNCHANGED sensor
  /\ Observe(raw)

FilterNext ==
  \/ \E r \in Reading : Measure(r)
  \/ \E raw \in BOOLEAN : Agree(raw) \/ CountOther(raw) \/ Flip(raw)

FilterSpec == FilterInit /\ [][FilterNext]_filterVars
-----------------------------------------------------------------------------
\* The window holds samples, the average is a number of sixteen bits.
FilterTypeOK ==
  /\ window \in Seq(Reading) /\ Len(window) = 5
  /\ ema \in 0 .. 65535
  /\ counter \in 0 .. Needed - 1 /\ {stable, settledOn} \subseteq BOOLEAN
  /\ recent \in Seq(BOOLEAN) /\ Len(recent) = Needed

IsMiddle(m, s) ==
  /\ \E i \in DOMAIN s : s[i] = m
  /\ 2 * Cardinality({i \in DOMAIN s : s[i] < m}) < Len(s)
  /\ 2 * Cardinality({i \in DOMAIN s : s[i] > m}) < Len(s)

\* The debounced state is the last level that was read Threshold times in a
\* row, whatever bounces came between (filter.c:45-57); the sorting network and
\* the comparisons find the middle sample (filter.c:17-28); and the average never
\* leaves the range of the readings, so that the narrowing to sixteen bits
\* loses nothing (filter.h:30).
FiltersRight ==
  /\ stable = settledOn
  /\ IsMiddle(Median5(window), window)
  /\ IsMiddle(Median3(window[1], window[2], window[3]), SubSeq(window, 1, 3))
  /\ \E low, high \in Reading : low <= ema /\ ema <= high
=============================================================================
