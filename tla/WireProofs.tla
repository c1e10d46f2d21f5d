------------------------------ MODULE WireProofs ------------------------------
(***************************************************************************)
(* Proofs about the framing of zerowire.c and about what is built on it,   *)
(* for every length of payload: the device that answers requests, and the  *)
(* node that talks to itself.  At the end those about the streams of       *)
(* sha256.c, chacha20.c and ota.c, which come in pieces too.               *)
(***************************************************************************)
EXTENDS Dispatcher, Streams, Node, RustWire, SequenceTheorems, WellFoundedInduction, TLAPS

(* Induction, as the least element of a set of numbers. *)
LEMMA LeastOf ==
  ASSUME NEW T \in SUBSET Nat, T # {}
  PROVE  \E m \in T : \A k \in T : m <= k
<1>1. PICK m \in T : \A k \in T : ~ (<<k, m>> \in OpToRel(<, Nat))
  <2>1. IsWellFoundedOn(OpToRel(<, Nat), Nat)
    BY NatLessThanWellFounded
  <2> HIDE DEF OpToRel
  <2> QED
    BY <2>1, WFMin, Zenon
<1>2. \A k \in T : k \in Nat /\ m \in Nat /\ ~(k < m)
  BY <1>1 DEF OpToRel
<1> QED
  BY <1>2
-----------------------------------------------------------------------------
(* A bit of sixteen flipped leaves sixteen bits. *)
LEMMA FlipBit0 == \A n \in Nat : n < 65536 => FlipBit(n, 0) \in Nat /\ FlipBit(n, 0) < 65536
<1> SUFFICES ASSUME NEW n \in Nat, n < 65536 PROVE FlipBit(n, 0) \in Nat /\ FlipBit(n, 0) < 65536
  OBVIOUS
<1>1. Bit(n, 0) = n % 2
  BY DEF Bit
<1>2. FlipBit(n, 0) = IF n % 2 = 1 THEN n - 1 ELSE n + 1
  BY <1>1 DEF FlipBit
<1>3. n % 2 = 1 => n # 0
  OBVIOUS
<1>4. n % 2 # 1 => n # 65535
  OBVIOUS
<1> QED
  BY <1>2, <1>3, <1>4

LEMMA FlipBit5 == \A n \in Nat : n < 65536 => FlipBit(n, 5) \in Nat /\ FlipBit(n, 5) < 65536
<1> SUFFICES ASSUME NEW n \in Nat, n < 65536 PROVE FlipBit(n, 5) \in Nat /\ FlipBit(n, 5) < 65536
  OBVIOUS
<1> DEFINE q == n \div 32
           r == n % 32
<1>1. n = 32 * q + r /\ q \in Nat /\ r \in 0 .. 31
  OBVIOUS
<1>2. Bit(n, 5) = q % 2
  BY DEF Bit
<1> HIDE DEF q, r
<1>3. FlipBit(n, 5) = IF q % 2 = 1 THEN n - 32 ELSE n + 32
  BY <1>2 DEF FlipBit
<1>4. q % 2 = 1 => q # 0
  OBVIOUS
<1>5. q % 2 # 1 => q # 2047
  OBVIOUS
<1> QED
  BY <1>1, <1>3, <1>4, <1>5

LEMMA FlipBit12 == \A n \in Nat : n < 65536 => FlipBit(n, 12) \in Nat /\ FlipBit(n, 12) < 65536
<1> SUFFICES ASSUME NEW n \in Nat, n < 65536 PROVE FlipBit(n, 12) \in Nat /\ FlipBit(n, 12) < 65536
  OBVIOUS
<1> DEFINE q == n \div 4096
           r == n % 4096
<1>1. n = 4096 * q + r /\ q \in Nat /\ r \in 0 .. 4095
  OBVIOUS
<1>2. Bit(n, 12) = q % 2
  BY DEF Bit
<1> HIDE DEF q, r
<1>3. FlipBit(n, 12) = IF q % 2 = 1 THEN n - 4096 ELSE n + 4096
  BY <1>2 DEF FlipBit
<1>4. q % 2 = 1 => q # 0
  OBVIOUS
<1>5. q % 2 # 1 => q # 15
  OBVIOUS
<1>6. CASE q % 2 = 1
  BY <1>1, <1>3, <1>4, <1>6
<1>7. CASE q % 2 # 1
  <2>1. q <= 14
    BY <1>1, <1>5, <1>7
  <2> QED
    BY <1>1, <1>3, <1>7, <2>1
<1> QED
  BY <1>6, <1>7

LEMMA CrcStepIsWord ==
  ASSUME NEW crc \in Nat, NEW bit
  PROVE  CrcStep(crc, bit) \in Nat /\ CrcStep(crc, bit) < 65536
<1> DEFINE shifted == (2 * crc) % 65536
<1>1. shifted \in Nat /\ shifted < 65536
  OBVIOUS
<1>2. CrcStep(crc, bit) = IF Bit(crc, 15) = bit THEN shifted
                          ELSE FlipBit(FlipBit(FlipBit(shifted, 0), 5), 12)
  BY DEF CrcStep
<1> HIDE DEF shifted
<1> QED
  BY <1>1, <1>2, FlipBit0, FlipBit5, FlipBit12

(* The CRC of a sequence, bit by bit. *)
CrcRows(bytes, m, f) ==
  f = [k \in 0 .. m |->
        IF k = 0 THEN CrcStart
        ELSE CrcStep(f[k - 1], BitAt(bytes, k))]

(* The recursion over the bits has a solution. *)
LEMMA CrcRowsExist ==
  ASSUME NEW bytes, NEW n \in Nat
  PROVE  \E f : CrcRows(bytes, n, f)
<1> DEFINE Bad == {m \in Nat : ~\E f : CrcRows(bytes, m, f)}
<1> SUFFICES ASSUME Bad # {} PROVE FALSE
  OBVIOUS
<1>1. PICK m \in Bad : \A k \in Bad : m <= k
  BY LeastOf, Zenon
<1>2. m # 0
  <2>1. CrcRows(bytes, 0, [k \in 0 .. 0 |-> CrcStart])
    BY DEF CrcRows
  <2> QED
    BY <2>1, <1>1
<1>3. PICK f : CrcRows(bytes, m - 1, f)
  BY <1>1, <1>2
<1>4. CrcRows(bytes, m, [k \in 0 .. m |->
        IF k = m THEN CrcStep(f[m - 1], BitAt(bytes, m))
        ELSE f[k]])
  BY <1>2, <1>3 DEF CrcRows
<1> QED
  BY <1>1, <1>4

(* Crc16 is the last row of such a function. *)
LEMMA CrcRowsUsed ==
  ASSUME NEW bytes, Len(bytes) \in Nat
  PROVE  \E f : CrcRows(bytes, 8 * Len(bytes), f) /\ Crc16(bytes) = f[8 * Len(bytes)]
<1> DEFINE g == CHOOSE crc : crc = [k \in 0 .. 8 * Len(bytes) |->
                  IF k = 0 THEN CrcStart
                  ELSE CrcStep(crc[k - 1], BitAt(bytes, k))]
<1>1. 8 * Len(bytes) \in Nat
  OBVIOUS
<1>2. \E f : CrcRows(bytes, 8 * Len(bytes), f)
  BY <1>1, CrcRowsExist, Zenon
<1>3. CrcRows(bytes, 8 * Len(bytes), g)
  BY <1>2, Zenon DEF CrcRows
<1>4. Crc16(bytes) = g[8 * Len(bytes)]
  BY Zenon DEF Crc16
<1> QED
  BY <1>3, <1>4, Zenon

(* fw_crc16_ccitt returns sixteen bits. *)
LEMMA CrcIsWord ==
  ASSUME NEW bytes, Len(bytes) \in Nat
  PROVE  Crc16(bytes) \in Nat /\ Crc16(bytes) < 65536
<1>1. PICK f : CrcRows(bytes, 8 * Len(bytes), f) /\ Crc16(bytes) = f[8 * Len(bytes)]
  BY CrcRowsUsed, Zenon
<1> DEFINE n == 8 * Len(bytes)
<1>2. n \in Nat
  OBVIOUS
<1>3. CrcRows(bytes, n, f) /\ Crc16(bytes) = f[n]
  BY <1>1
<1> HIDE DEF n
<1> DEFINE Bad == {k \in 0 .. n : ~(f[k] \in Nat /\ f[k] < 65536)}
<1>4. Bad = {}
  <2> SUFFICES ASSUME Bad # {} PROVE FALSE
    OBVIOUS
  <2>1. PICK k \in Bad : \A j \in Bad : k <= j
    <3>1. Bad \in SUBSET Nat
      BY <1>2
    <3> HIDE DEF Bad
    <3> QED
      BY <3>1, LeastOf, Zenon
  <2>2. k # 0
    <3>1. f[0] = 65535
      BY <1>2, <1>3 DEF CrcRows, CrcStart
    <3> QED
      BY <2>1, <3>1
  <2>3. f[k - 1] \in Nat /\ k \in 1 .. n
    BY <1>2, <2>1, <2>2
  <2>4. f[k] = CrcStep(f[k - 1], BitAt(bytes, k))
    BY <1>2, <1>3, <2>3 DEF CrcRows
  <2> QED
    BY <2>1, <2>3, <2>4, CrcStepIsWord
<1> QED
  BY <1>2, <1>3, <1>4

(* fw_write_le16 writes bytes that fw_read_le16 reads. *)
LEMMA TwoBytesRead ==
  ASSUME NEW n \in Nat, n < 65536
  PROVE  /\ TwoBytes(n) \in Seq(Byte) /\ Len(TwoBytes(n)) = 2
         /\ FromTwoBytes(TwoBytes(n)[1], TwoBytes(n)[2]) = n
<1> DEFINE q == n \div 256
           r == n % 256
<1>1. n = 256 * q + r /\ q \in Nat /\ r \in 0 .. 255
  OBVIOUS
<1>2. TwoBytes(n) = <<r, q>>
  BY DEF TwoBytes
<1> HIDE DEF q, r
<1>3. q \in Byte /\ r \in Byte
  BY <1>1 DEF Byte
<1>4. TwoBytes(n) \in Seq(Byte)
  BY <1>2, <1>3
<1>5. Len(TwoBytes(n)) = 2 /\ TwoBytes(n)[1] = r /\ TwoBytes(n)[2] = q
  BY <1>2
<1>6. FromTwoBytes(r, q) = n
  BY <1>1 DEF FromTwoBytes
<1> QED
  BY <1>4, <1>5, <1>6
-----------------------------------------------------------------------------
(* What every frame begins with: all that the CRC is taken of. *)
Body(f) == <<SOF0, SOF1, f.seq, f.id>> \o TwoBytes(Len(f.payload)) \o f.payload

LEMMA PayloadBound == MaxPayload \in Nat /\ MaxPayload < 65536 /\ MaxFrame = MaxPayload + 8
<1>1. MaxPayload \in Nat /\ MaxPayload < 65536
  BY ZeroWireAssumption
<1>2. MaxFrame = 6 + MaxPayload + 2
  BY DEF MaxFrame, HeaderSize, CrcSize
<1> QED
  BY <1>1, <1>2

(* One sequence behind another. *)
Joins(S, c, a, b) ==
  /\ c \in Seq(S) /\ Len(c) = Len(a) + Len(b)
  /\ \A i \in 1 .. Len(a) : c[i] = a[i]
  /\ \A i \in 1 .. Len(b) : c[Len(a) + i] = b[i]

LEMMA Joined == \A S : \A a, b \in Seq(S) : Joins(S, a \o b, a, b)
<1> SUFFICES ASSUME NEW S, NEW a \in Seq(S), NEW b \in Seq(S) PROVE Joins(S, a \o b, a, b)
  OBVIOUS
<1>1. a \o b \in Seq(S) /\ Len(a \o b) = Len(a) + Len(b) /\ Len(a) \in Nat /\ Len(b) \in Nat
  BY ConcatProperties
<1>2. \A i \in 1 .. Len(a) : (a \o b)[i] = a[i]
  BY ConcatProperties
<1>3. ASSUME NEW i \in 1 .. Len(b) PROVE (a \o b)[Len(a) + i] = b[i]
  <2>1. Len(a) + i \in 1 .. Len(a) + Len(b) /\ ~(Len(a) + i <= Len(a)) /\ Len(a) + i - Len(a) = i
    BY <1>1
  <2> QED
    BY <2>1, <1>1, ConcatProperties
<1> QED
  BY <1>1, <1>2, <1>3 DEF Joins

LEMMA FrameFields ==
  ASSUME NEW f \in WireFrame
  PROVE  /\ f.seq \in Byte /\ f.id \in Byte /\ f.payload \in Seq(Byte)
         /\ Len(f.payload) \in Nat /\ Len(f.payload) <= MaxPayload /\ Len(f.payload) < 65536
         /\ f = [seq |-> f.seq, id |-> f.id, payload |-> f.payload]
<1>1. f.seq \in Byte /\ f.id \in Byte /\ f.payload \in Seq(Byte) /\ Len(f.payload) <= MaxPayload
  BY DEF WireFrame
<1>2. f = [seq |-> f.seq, id |-> f.id, payload |-> f.payload]
  BY DEF WireFrame
<1>3. Len(f.payload) \in Nat
  BY <1>1
<1> QED
  BY <1>1, <1>2, <1>3, PayloadBound

LEMMA FrameFits ==
  \A f \in WireFrame : Len(f.payload) + 8 <= MaxFrame /\ MaxFrame \in Nat
<1> SUFFICES ASSUME NEW f \in WireFrame PROVE Len(f.payload) + 8 <= MaxFrame /\ MaxFrame \in Nat
  OBVIOUS
<1>1. Len(f.payload) \in Nat /\ Len(f.payload) <= MaxPayload
  BY FrameFields
<1> QED
  BY <1>1, PayloadBound

(* The header and the payload, place by place. *)
LEMMA BodyIs ==
  ASSUME NEW f \in WireFrame
  PROVE  /\ Body(f) \in Seq(Byte)
         /\ Len(Body(f)) = Len(f.payload) + 6
         /\ Body(f)[1] = SOF0 /\ Body(f)[2] = SOF1
         /\ Body(f)[3] = f.seq /\ Body(f)[4] = f.id
         /\ FromTwoBytes(Body(f)[5], Body(f)[6]) = Len(f.payload)
         /\ \A i \in 1 .. Len(f.payload) : Body(f)[6 + i] = f.payload[i]
<1> DEFINE head == <<SOF0, SOF1, f.seq, f.id>>
           len == TwoBytes(Len(f.payload))
           start == head \o len
<1>1. head \in Seq(Byte) /\ Len(head) = 4 /\ head[1] = SOF0 /\ head[2] = SOF1
       /\ head[3] = f.seq /\ head[4] = f.id
  <2>1. SOF0 \in Byte /\ SOF1 \in Byte
    BY DEF SOF0, SOF1, Byte
  <2>2. f.seq \in Byte /\ f.id \in Byte
    BY FrameFields
  <2> QED
    BY <2>1, <2>2
<1>2. len \in Seq(Byte) /\ Len(len) = 2 /\ FromTwoBytes(len[1], len[2]) = Len(f.payload)
  BY FrameFields, TwoBytesRead
<1>3. Body(f) = start \o f.payload
  BY DEF Body
<1>4. f.payload \in Seq(Byte) /\ Len(f.payload) \in Nat
  BY FrameFields
<1> HIDE DEF head, len
<1>5. start \in Seq(Byte) /\ Len(start) = 6
       /\ (\A i \in 1 .. 4 : start[i] = head[i]) /\ start[5] = len[1] /\ start[6] = len[2]
  <2>0. Joins(Byte, start, head, len)
    BY <1>1, <1>2, Joined, Zenon
  <2> HIDE DEF start
  <2>1. 1 \in 1 .. Len(len) /\ 2 \in 1 .. Len(len)
    BY <1>2
  <2>2. start[Len(head) + 1] = len[1] /\ start[Len(head) + 2] = len[2]
    BY <2>0, <2>1, Zenon DEF Joins
  <2> QED
    BY <1>1, <1>2, <2>0, <2>2 DEF Joins
<1> HIDE DEF start
<1>6. /\ Body(f) \in Seq(Byte) /\ Len(Body(f)) = Len(f.payload) + 6
      /\ \A i \in 1 .. 6 : Body(f)[i] = start[i]
      /\ \A i \in 1 .. Len(f.payload) : Body(f)[6 + i] = f.payload[i]
  <2>1. Joins(Byte, Body(f), start, f.payload)
    BY <1>3, <1>4, <1>5, Joined, Zenon
  <2> QED
    BY <1>4, <1>5, <2>1 DEF Joins
<1> QED
  BY <1>1, <1>2, <1>5, <1>6, SMTT(30)

(* What fw_zerowire_encode writes if there is room: the body and its CRC. *)
LEMMA EncodeIs ==
  ASSUME NEW f \in WireFrame, NEW room \in Nat, Len(f.payload) + 8 <= room
  PROVE  /\ Encode(f, room) \in Seq(Byte)
         /\ Len(Encode(f, room)) = Len(f.payload) + 8
         /\ \A i \in 1 .. Len(f.payload) + 6 : Encode(f, room)[i] = Body(f)[i]
         /\ FromTwoBytes(Encode(f, room)[Len(f.payload) + 7], Encode(f, room)[Len(f.payload) + 8])
              = Crc16(Body(f))
<1> DEFINE crc == TwoBytes(Crc16(Body(f)))
<1>1. Body(f) \in Seq(Byte) /\ Len(Body(f)) = Len(f.payload) + 6
  BY BodyIs
<1>2. Len(f.payload) \in Nat /\ Len(f.payload) <= MaxPayload
  BY FrameFields
<1>3. crc \in Seq(Byte) /\ Len(crc) = 2 /\ FromTwoBytes(crc[1], crc[2]) = Crc16(Body(f))
  <2>1. Len(Body(f)) \in Nat
    BY <1>1
  <2> QED
    BY <2>1, CrcIsWord, TwoBytesRead
<1>4. Encode(f, room) = Body(f) \o crc
  <2>1. Len(Body(f)) + CrcSize <= room
    BY <1>1, <1>2 DEF CrcSize
  <2> QED
    BY <1>2, <2>1 DEF Encode, Body
<1> HIDE DEF crc
<1>5. Joins(Byte, Encode(f, room), Body(f), crc)
  BY <1>1, <1>3, <1>4, Joined, Zenon
<1>6. /\ Encode(f, room)[Len(f.payload) + 7] = crc[1]
      /\ Encode(f, room)[Len(f.payload) + 8] = crc[2]
  <2>1. Len(Body(f)) + 1 = Len(f.payload) + 7 /\ Len(Body(f)) + 2 = Len(f.payload) + 8
    BY <1>1, <1>2
  <2>2. 1 \in 1 .. Len(crc) /\ 2 \in 1 .. Len(crc)
    BY <1>3
  <2>3. Encode(f, room)[Len(Body(f)) + 1] = crc[1] /\ Encode(f, room)[Len(Body(f)) + 2] = crc[2]
    BY <1>5, <2>2, Zenon DEF Joins
  <2> QED
    BY <2>1, <2>3, Zenon
<1> QED
  BY <1>1, <1>2, <1>3, <1>5, <1>6 DEF Joins

LEMMA EncodeWithoutRoom ==
  ASSUME NEW f \in WireFrame, NEW room \in Nat, Encode(f, room) # <<>>
  PROVE  Len(f.payload) + 8 <= room
<1>1. Len(Body(f)) = Len(f.payload) + 6 /\ Len(f.payload) \in Nat
  BY BodyIs, FrameFields
<1>2. Len(Body(f)) + CrcSize <= room
  BY DEF Encode, Body
<1> QED
  BY <1>1, <1>2 DEF CrcSize
-----------------------------------------------------------------------------
(* Pieces of a sequence of bytes. *)
IsPiece(piece, s, m, n) ==
  /\ piece \in Seq(Byte) /\ Len(piece) = n - m + 1
  /\ \A i \in 1 .. n - m + 1 : piece[i] = s[m + i - 1]

LEMMA PieceIs ==
  \A s \in Seq(Byte), m, n \in Nat :
    1 <= m /\ m <= n + 1 /\ n <= Len(s) => IsPiece(SubSeq(s, m, n), s, m, n)
<1> SUFFICES ASSUME NEW s \in Seq(Byte), NEW m \in Nat, NEW n \in Nat,
                    1 <= m, m <= n + 1, n <= Len(s)
             PROVE  IsPiece(SubSeq(s, m, n), s, m, n)
  OBVIOUS
<1> DEFINE piece == SubSeq(s, m, n)
<1>1. n - m + 1 \in Nat
  OBVIOUS
<1>2. piece = [i \in 1 .. n - m + 1 |-> s[m + i - 1]]
  BY DEF SubSeq
<1>3. \A i \in 1 .. n - m + 1 : s[m + i - 1] \in Byte
  OBVIOUS
<1> HIDE DEF piece
<1>4. piece \in Seq(Byte)
  BY <1>1, <1>2, <1>3, IsASeq
<1>5. DOMAIN piece = 1 .. n - m + 1
  BY <1>2
<1>6. Len(piece) = n - m + 1
  BY <1>1, <1>4, <1>5, LenProperties
<1> QED
  BY <1>2, <1>4, <1>6 DEF IsPiece, piece

LEMMA SameBytes ==
  \A s, t \in Seq(Byte) : Len(s) = Len(t) /\ (\A i \in 1 .. Len(s) : s[i] = t[i]) => s = t
  BY SeqEqual

LEMMA FromIs ==
  \A bytes \in Seq(Byte), i \in Nat :
    1 <= i /\ i <= Len(bytes) + 1 =>
      /\ IsPiece(From(bytes, i), bytes, i, Len(bytes))
      /\ Len(From(bytes, i)) \in Nat
<1> SUFFICES ASSUME NEW bytes \in Seq(Byte), NEW i \in Nat, 1 <= i, i <= Len(bytes) + 1
             PROVE  /\ IsPiece(From(bytes, i), bytes, i, Len(bytes))
                    /\ Len(From(bytes, i)) \in Nat
  OBVIOUS
<1>1. Len(bytes) \in Nat
  OBVIOUS
<1>2. IsPiece(SubSeq(bytes, i, Len(bytes)), bytes, i, Len(bytes))
  BY <1>1, PieceIs
<1>3. Len(SubSeq(bytes, i, Len(bytes))) = Len(bytes) - i + 1
  BY <1>2 DEF IsPiece
<1> QED
  BY <1>1, <1>2, <1>3 DEF From

(* A start of frame is its two bytes. *)
LEMMA StartIs ==
  \A s \in Seq(Byte), i \in Nat :
    1 <= i /\ i < Len(s) =>
      (SubSeq(s, i, i + 1) = <<SOF0, SOF1>> <=> s[i] = SOF0 /\ s[i + 1] = SOF1)
<1> SUFFICES ASSUME NEW s \in Seq(Byte), NEW i \in Nat, 1 <= i, i < Len(s)
             PROVE  SubSeq(s, i, i + 1) = <<SOF0, SOF1>> <=> s[i] = SOF0 /\ s[i + 1] = SOF1
  OBVIOUS
<1> DEFINE t == SubSeq(s, i, i + 1)
           sof == <<SOF0, SOF1>>
<1>1. IsPiece(t, s, i, i + 1)
  BY PieceIs
<1>2. t \in Seq(Byte) /\ Len(t) = 2 /\ t[1] = s[i] /\ t[2] = s[i + 1]
  <2>1. (i + 1) - i + 1 = 2 /\ i + 1 - 1 = i /\ i + 2 - 1 = i + 1
    OBVIOUS
  <2> HIDE DEF t
  <2>2. t \in Seq(Byte) /\ Len(t) = 2 /\ \A k \in 1 .. 2 : t[k] = s[i + k - 1]
    BY <1>1, <2>1 DEF IsPiece
  <2> QED
    BY <2>1, <2>2
<1>3. sof \in Seq(Byte) /\ Len(sof) = 2 /\ sof[1] = SOF0 /\ sof[2] = SOF1
  <2>1. SOF0 \in Byte /\ SOF1 \in Byte
    BY DEF SOF0, SOF1, Byte
  <2> QED
    BY <2>1
<1> HIDE DEF t, sof
<1>4. ASSUME t[1] = SOF0, t[2] = SOF1 PROVE t = sof
  <2>1. \A k \in 1 .. Len(t) : t[k] = sof[k]
    BY <1>2, <1>3, <1>4
  <2> QED
    BY <1>2, <1>3, <2>1, SameBytes
<1>5. t = sof <=> s[i] = SOF0 /\ s[i + 1] = SOF1
  BY <1>2, <1>3, <1>4
<1> QED
  BY <1>5 DEF t, sof

(* A sequence of bytes that begins with a frame. *)
Starts(raw, f) ==
  /\ Len(f.payload) + 8 <= Len(raw)
  /\ \A i \in 1 .. Len(f.payload) + 8 : raw[i] = Encode(f, MaxFrame)[i]

(* What fw_zerowire_encode wrote, fw_zerowire_decode reads, whatever follows. *)
LEMMA DecodeWhole ==
  ASSUME NEW f \in WireFrame, NEW raw \in Seq(Byte), Starts(raw, f)
  PROVE  /\ Decode(raw) = "FW_OK" /\ SizeOf(raw) = Len(f.payload) + 8
         /\ FrameOf(raw) = f
<1> DEFINE n == Len(f.payload)
<1>0. n \in Nat /\ n <= MaxPayload /\ Len(raw) \in Nat /\ n + 8 <= Len(raw)
  BY FrameFields DEF Starts
<1>1. \A i \in 1 .. n + 6 : raw[i] = Body(f)[i]
  <2>1. \A i \in 1 .. n + 6 : Encode(f, MaxFrame)[i] = Body(f)[i]
    BY <1>0, PayloadBound, EncodeIs
  <2>2. \A i \in 1 .. n + 6 : raw[i] = Encode(f, MaxFrame)[i]
    BY <1>0 DEF Starts
  <2> QED
    BY <2>1, <2>2
<1>2. FromTwoBytes(raw[n + 7], raw[n + 8]) = Crc16(Body(f))
  <2>1. FromTwoBytes(Encode(f, MaxFrame)[n + 7], Encode(f, MaxFrame)[n + 8]) = Crc16(Body(f))
    BY <1>0, PayloadBound, EncodeIs
  <2>2. raw[n + 7] = Encode(f, MaxFrame)[n + 7] /\ raw[n + 8] = Encode(f, MaxFrame)[n + 8]
    BY <1>0 DEF Starts
  <2> QED
    BY <2>1, <2>2
<1>3. /\ Body(f) \in Seq(Byte) /\ Len(Body(f)) = n + 6
      /\ Body(f)[1] = SOF0 /\ Body(f)[2] = SOF1 /\ Body(f)[3] = f.seq /\ Body(f)[4] = f.id
      /\ FromTwoBytes(Body(f)[5], Body(f)[6]) = n
      /\ \A i \in 1 .. n : Body(f)[6 + i] = f.payload[i]
  BY BodyIs, Zenon
<1>4. /\ raw[1] = SOF0 /\ raw[2] = SOF1 /\ raw[3] = f.seq /\ raw[4] = f.id
      /\ FromTwoBytes(raw[5], raw[6]) = n
  <2> HIDE DEF n
  <2>1. \A i \in 1 .. 6 : raw[i] = Body(f)[i]
    BY <1>0, <1>1
  <2> QED
    BY <1>3, <2>1
<1>5. LengthOf(raw) = n /\ SizeOf(raw) = n + 8
  BY <1>0, <1>4 DEF LengthOf, SizeOf, HeaderSize, CrcSize
<1> HIDE DEF n
<1>6. SubSeq(raw, 1, 2) = <<SOF0, SOF1>>
  <2>1. 1 < Len(raw) /\ 1 + 1 = 2
    BY <1>0
  <2> QED
    BY <1>4, <2>1, StartIs
<1>7. SubSeq(raw, 1, n + 6) = Body(f)
  <2>1. IsPiece(SubSeq(raw, 1, n + 6), raw, 1, n + 6)
    BY <1>0, PieceIs
  <2>2. /\ SubSeq(raw, 1, n + 6) \in Seq(Byte) /\ Len(SubSeq(raw, 1, n + 6)) = n + 6
        /\ \A i \in 1 .. n + 6 : SubSeq(raw, 1, n + 6)[i] = raw[i]
    BY <1>0, <2>1 DEF IsPiece
  <2> QED
    BY <1>1, <1>3, <2>2, SameBytes
<1>8. CrcHolds(raw)
  <2>1. SizeOf(raw) - 1 = n + 7 /\ SizeOf(raw) - CrcSize = n + 6
    BY <1>0, <1>5 DEF CrcSize
  <2> QED
    BY <1>2, <1>5, <1>7, <2>1 DEF CrcHolds
<1>9. SubSeq(raw, 7, n + 6) = f.payload
  <2>1. IsPiece(SubSeq(raw, 7, n + 6), raw, 7, n + 6)
    BY <1>0, PieceIs
  <2>2. /\ SubSeq(raw, 7, n + 6) \in Seq(Byte) /\ Len(SubSeq(raw, 7, n + 6)) = n
        /\ \A i \in 1 .. n : SubSeq(raw, 7, n + 6)[i] = raw[6 + i]
    BY <1>0, <2>1 DEF IsPiece
  <2>3. \A i \in 1 .. n : raw[6 + i] = f.payload[i]
    BY <1>0, <1>1, <1>3
  <2>4. f.payload \in Seq(Byte) /\ Len(f.payload) = n
    BY FrameFields DEF n
  <2> QED
    BY <2>2, <2>3, <2>4, SameBytes
<1>10. FrameOf(raw) = f
  <2>1. HeaderSize + 1 = 7 /\ HeaderSize + LengthOf(raw) = n + 6
    BY <1>0, <1>5 DEF HeaderSize
  <2>2. FrameOf(raw) = [seq |-> f.seq, id |-> f.id, payload |-> f.payload]
    BY <1>4, <1>9, <2>1 DEF FrameOf
  <2> QED
    BY <2>2, FrameFields
<1>11. Decode(raw) = "FW_OK"
  <2>1. ~(Len(raw) < HeaderSize + CrcSize) /\ ~(LengthOf(raw) > MaxPayload)
         /\ ~(Len(raw) < SizeOf(raw))
    BY <1>0, <1>5, PayloadBound DEF HeaderSize, CrcSize
  <2> QED
    BY <1>6, <1>8, <2>1 DEF Decode
<1> QED
  BY <1>5, <1>10, <1>11 DEF n

(* The beginning of a frame is waited for. *)
LEMMA DecodePart ==
  ASSUME NEW f \in WireFrame, NEW raw \in Seq(Byte),
         Len(raw) < Len(f.payload) + 8,
         \A i \in 1 .. Len(raw) : raw[i] = Encode(f, MaxFrame)[i]
  PROVE  Decode(raw) = "FW_ERR_NOT_FOUND"
<1> DEFINE n == Len(f.payload)
<1>0. n \in Nat /\ n <= MaxPayload /\ Len(raw) \in Nat /\ Len(raw) < n + 8
  BY FrameFields
<1>1. CASE Len(raw) < 8
  <2>1. Len(raw) < HeaderSize + CrcSize
    BY <1>1 DEF HeaderSize, CrcSize
  <2> QED
    BY <2>1 DEF Decode
<1>2. CASE ~(Len(raw) < 8)
  <2>1. \A i \in 1 .. 6 : raw[i] = Body(f)[i]
    <3>1. MaxFrame \in Nat /\ Len(f.payload) + 8 <= MaxFrame
      BY <1>0, PayloadBound
    <3>2. \A i \in 1 .. Len(f.payload) + 6 : Encode(f, MaxFrame)[i] = Body(f)[i]
      BY <3>1, EncodeIs
    <3> HIDE DEF n
    <3>3. \A i \in 1 .. 6 : i <= Len(raw) /\ i \in 1 .. Len(f.payload) + 6
      BY <1>0, <1>2 DEF n
    <3> QED
      BY <1>0, <3>2, <3>3
  <2>2. /\ Body(f)[1] = SOF0 /\ Body(f)[2] = SOF1
        /\ FromTwoBytes(Body(f)[5], Body(f)[6]) = n
    BY BodyIs, Zenon
  <2> HIDE DEF n
  <2>3. raw[1] = SOF0 /\ raw[2] = SOF1 /\ LengthOf(raw) = n
    BY <2>1, <2>2 DEF LengthOf
  <2>4. SubSeq(raw, 1, 2) = <<SOF0, SOF1>>
    <3>1. 1 < Len(raw) /\ 1 + 1 = 2
      BY <1>0, <1>2
    <3> QED
      BY <2>3, <3>1, StartIs
  <2>5. ~(Len(raw) < HeaderSize + CrcSize) /\ ~(LengthOf(raw) > MaxPayload)
         /\ Len(raw) < SizeOf(raw)
    BY <1>0, <1>2, <2>3, PayloadBound DEF HeaderSize, CrcSize, SizeOf
  <2> QED
    BY <2>4, <2>5 DEF Decode
<1> QED
  BY <1>1, <1>2
-----------------------------------------------------------------------------
LEMMA TwoBytesAreNat == \A low, high \in Byte : FromTwoBytes(low, high) \in Nat
  BY DEF Byte, FromTwoBytes

(* What decodes is whole and carries bytes. *)
LEMMA OkIsWhole ==
  ASSUME NEW raw \in Seq(Byte), Decode(raw) = "FW_OK"
  PROVE  /\ Len(raw) \in Nat /\ SizeOf(raw) \in Nat /\ SizeOf(raw) >= 8
         /\ SizeOf(raw) <= Len(raw) /\ SizeOf(raw) <= MaxFrame
         /\ FrameOf(raw).seq \in Byte /\ FrameOf(raw).id \in Byte
<1>1. Len(raw) >= 8 /\ LengthOf(raw) <= MaxPayload /\ SizeOf(raw) <= Len(raw) /\ Len(raw) \in Nat
  <2>1. ~(Len(raw) < HeaderSize + CrcSize) /\ ~(LengthOf(raw) > MaxPayload) /\ ~(Len(raw) < SizeOf(raw))
    BY Zenon DEF Decode
  <2>2. raw[5] \in Byte /\ raw[6] \in Byte
    BY <2>1 DEF HeaderSize, CrcSize
  <2>3. LengthOf(raw) \in Nat
    BY <2>2, TwoBytesAreNat DEF LengthOf
  <2> QED
    BY <2>1, <2>3, PayloadBound DEF HeaderSize, CrcSize, SizeOf
<1>2. raw[3] \in Byte /\ raw[4] \in Byte /\ raw[5] \in Byte /\ raw[6] \in Byte
  BY <1>1
<1>3. LengthOf(raw) \in Nat
  BY <1>2, TwoBytesAreNat DEF LengthOf
<1>4. SizeOf(raw) \in Nat /\ SizeOf(raw) >= 8 /\ SizeOf(raw) <= MaxFrame
  BY <1>1, <1>3, PayloadBound DEF SizeOf, HeaderSize, CrcSize
<1> QED
  BY <1>1, <1>2, <1>4 DEF FrameOf

(* What is waited for is shorter than the largest frame. *)
LEMMA MissingIsShort ==
  ASSUME NEW raw \in Seq(Byte), Decode(raw) = "FW_ERR_NOT_FOUND"
  PROVE  Len(raw) < MaxFrame
<1>1. CASE Len(raw) < HeaderSize + CrcSize
  BY <1>1, PayloadBound DEF HeaderSize, CrcSize
<1>2. CASE ~(Len(raw) < HeaderSize + CrcSize)
  <2>1. ~(LengthOf(raw) > MaxPayload) /\ Len(raw) < SizeOf(raw)
    BY <1>2, Zenon DEF Decode
  <2>2. raw[5] \in Byte /\ raw[6] \in Byte
    BY <1>2 DEF HeaderSize, CrcSize
  <2>3. LengthOf(raw) \in Nat
    BY <2>2, TwoBytesAreNat DEF LengthOf
  <2> QED
    BY <2>1, <2>3, PayloadBound DEF HeaderSize, CrcSize, SizeOf
<1> QED
  BY <1>1, <1>2

(* What fw_zerowire_stream_sync returns. *)
FirstDecides(bytes, i) == i \in Decides(bytes) /\ \A j \in Decides(bytes) : i <= j

LEMMA SyncIs ==
  ASSUME NEW bytes \in Seq(Byte), NEW sync, sync = StreamSync(bytes)
  PROVE  /\ sync.consumed \in Nat /\ sync.consumed <= Len(bytes)
         /\ \/ /\ sync.status = "FW_OK"
               /\ FirstDecides(bytes, sync.at)
               /\ sync.at \in Nat /\ 1 <= sync.at /\ sync.at < Len(bytes)
               /\ From(bytes, sync.at) \in Seq(Byte)
               /\ Decode(From(bytes, sync.at)) = "FW_OK"
               /\ sync.consumed = sync.at - 1 + SizeOf(From(bytes, sync.at))
            \/ /\ sync.status = "FW_ERR_NOT_FOUND"
               /\ bytes # <<>> => sync.consumed < Len(bytes)
               /\ \A j \in Decides(bytes) : sync.consumed < j
               /\ \/ Decides(bytes) = {} /\ sync.consumed = NothingFound(bytes)
                  \/ /\ FirstDecides(bytes, sync.consumed + 1)
                     /\ Decode(From(bytes, sync.consumed + 1)) = "FW_ERR_NOT_FOUND"
<1>0. Len(bytes) \in Nat
  OBVIOUS
<1>1. CASE Decides(bytes) = {}
  <2>1. sync = [status |-> "FW_ERR_NOT_FOUND", consumed |-> NothingFound(bytes), at |-> 0]
    BY <1>1 DEF StreamSync
  <2>2. NothingFound(bytes) \in Nat /\ NothingFound(bytes) <= Len(bytes)
         /\ (bytes # <<>> => NothingFound(bytes) < Len(bytes))
    BY <1>0 DEF NothingFound
  <2> QED
    BY <1>1, <2>1, <2>2
<1>2. CASE Decides(bytes) # {}
  <2> DEFINE T == Decides(bytes)
             i == CHOOSE i \in T : \A j \in T : i <= j
             status == Decode(From(bytes, i))
  <2>1. sync = [status |-> status, at |-> i,
                consumed |-> IF status = "FW_OK" THEN i - 1 + SizeOf(From(bytes, i)) ELSE i - 1]
    BY <1>2 DEF StreamSync
  <2>2. FirstDecides(bytes, i)
    <3>1. T \in SUBSET Nat
      BY DEF Decides
    <3>2. \E m \in T : \A k \in T : m <= k
      BY <1>2, <3>1, LeastOf, Zenon
    <3> QED
      BY <3>2, Zenon DEF FirstDecides
  <2> HIDE DEF i, T
  <2>3. i \in Nat /\ 1 <= i /\ i < Len(bytes) /\ status \in {"FW_OK", "FW_ERR_NOT_FOUND"}
    BY <1>0, <2>2 DEF FirstDecides, Decides
  <2>4. IsPiece(From(bytes, i), bytes, i, Len(bytes))
    BY <2>3, FromIs
  <2>5. From(bytes, i) \in Seq(Byte) /\ Len(From(bytes, i)) = Len(bytes) - i + 1
    BY <2>4 DEF IsPiece
  <2>6. sync.status = status /\ sync.at = i
    BY <2>1
  <2>7. CASE status = "FW_OK"
    <3>1. sync.consumed = i - 1 + SizeOf(From(bytes, i))
      BY <2>1, <2>7
    <3>2. SizeOf(From(bytes, i)) \in Nat /\ SizeOf(From(bytes, i)) <= Len(bytes) - i + 1
      BY <2>5, <2>7, OkIsWhole
    <3>3. sync.consumed \in Nat /\ sync.consumed <= Len(bytes)
      BY <1>0, <2>3, <3>1, <3>2
    <3> QED
      BY <2>2, <2>3, <2>5, <2>6, <2>7, <3>1, <3>3
  <2>8. CASE status = "FW_ERR_NOT_FOUND"
    <3>1. sync.consumed = i - 1
      BY <2>1, <2>8
    <3>2. sync.consumed \in Nat /\ sync.consumed < Len(bytes) /\ sync.consumed + 1 = i
      BY <1>0, <2>3, <3>1
    <3>3. \A j \in Decides(bytes) : sync.consumed < j
      <4>1. \A j \in Decides(bytes) : j \in Nat /\ i <= j
        BY <1>0, <2>2 DEF FirstDecides, Decides
      <4> QED
        BY <2>3, <3>2, <4>1
    <3> QED
      BY <1>0, <2>2, <2>6, <2>8, <3>2, <3>3
  <2> QED
    BY <2>3, <2>7, <2>8
<1> QED
  BY <1>1, <1>2
-----------------------------------------------------------------------------
(* The buffer and the line hold bytes, and the buffer no more than it has    *)
(* room for.                                                                 *)
BufferInv == rx \in Seq(Byte) /\ line \in Seq(Byte) /\ Len(rx) <= MaxFrame

LEMMA BufferInit == Init => BufferInv
  BY PayloadBound DEF Init, BufferInv

LEMMA EncodeIsBytes ==
  \A f \in WireFrame, room \in Nat : Encode(f, room) \in Seq(Byte)
<1> SUFFICES ASSUME NEW f \in WireFrame, NEW room \in Nat PROVE Encode(f, room) \in Seq(Byte)
  OBVIOUS
<1>1. CASE Len(f.payload) + 8 <= room
  BY <1>1, EncodeIs
<1>2. CASE ~(Len(f.payload) + 8 <= room)
  <2>1. Encode(f, room) = <<>>
    BY <1>2, EncodeWithoutRoom
  <2> QED
    BY <2>1
<1> QED
  BY <1>1, <1>2

LEMMA BufferNext ==
  ASSUME BufferInv, [Next]_vars
  PROVE  BufferInv'
<1> USE DEF BufferInv
<1>1. ASSUME NEW f \in Request, SendRequest(f) PROVE BufferInv'
  <2>1. f \in WireFrame /\ MaxFrame \in Nat
    BY DispatcherAssumption, PayloadBound
  <2>2. line' \in Seq(Byte)
    BY <1>1, <2>1, EncodeIsBytes DEF SendRequest
  <2> QED
    BY <1>1, <2>2 DEF SendRequest
<1>2. ASSUME NEW n \in Noise, Disturb(n) PROVE BufferInv'
  BY <1>2, DispatcherAssumption DEF Disturb
<1>3. ASSUME NEW k \in 1 .. MaxFrame, Receive(k) PROVE BufferInv'
  <2>1. k \in Nat /\ 1 <= k /\ k <= Len(line) /\ Len(rx) + k <= MaxFrame
    BY <1>3, PayloadBound DEF Receive
  <2>2. IsPiece(SubSeq(line, 1, k), line, 1, k)
    BY <2>1, PieceIs
  <2>3. SubSeq(line, 1, k) \in Seq(Byte) /\ Len(SubSeq(line, 1, k)) = k
    BY <2>1, <2>2 DEF IsPiece
  <2>4. IsPiece(From(line, k + 1), line, k + 1, Len(line))
    BY <2>1, FromIs
  <2>5. Joins(Byte, rx \o SubSeq(line, 1, k), rx, SubSeq(line, 1, k))
    BY <2>3, Joined
  <2> QED
    BY <1>3, <2>1, <2>3, <2>4, <2>5 DEF Receive, IsPiece, Joins
<1>4. CASE Process
  <2>1. PICK sync : sync = StreamSync(rx) /\ rx' = From(rx, sync.consumed + 1) /\ line' = line
    BY <1>4 DEF Process
  <2>2. sync.consumed \in Nat /\ sync.consumed <= Len(rx)
    BY <2>1, SyncIs
  <2>3. IsPiece(rx', rx, sync.consumed + 1, Len(rx))
    BY <2>1, <2>2, FromIs
  <2> QED
    BY <2>1, <2>2, <2>3, PayloadBound DEF IsPiece
<1>5. CASE UNCHANGED vars
  BY <1>5 DEF vars
<1> QED
  BY <1>1, <1>2, <1>3, <1>4, <1>5 DEF Next

(* A buffer for the largest frame is never stuck: full, it holds a frame or  *)
(* what the scan gives up.  fw_zerowire_stream_sync.                         *)
LEMMA RoomHolds == BufferInv => RoomRemains
<1> SUFFICES ASSUME BufferInv, Len(rx) = MaxFrame PROVE StreamSync(rx).consumed > 0
  BY DEF RoomRemains
<1> DEFINE sync == StreamSync(rx)
<1>0. rx \in Seq(Byte) /\ MaxFrame \in Nat /\ MaxFrame >= 8
  BY PayloadBound DEF BufferInv
<1>1. PICK s : s = sync
  OBVIOUS
<1>2. s.consumed \in Nat
  BY <1>0, <1>1, SyncIs
<1>3. CASE s.status = "FW_OK"
  <2>1. /\ s.at \in Nat /\ 1 <= s.at
        /\ From(rx, s.at) \in Seq(Byte) /\ Decode(From(rx, s.at)) = "FW_OK"
        /\ s.consumed = s.at - 1 + SizeOf(From(rx, s.at))
    BY <1>0, <1>1, <1>3, SyncIs
  <2>2. SizeOf(From(rx, s.at)) \in Nat /\ SizeOf(From(rx, s.at)) >= 8
    BY <2>1, OkIsWhole
  <2> QED
    BY <1>1, <2>1, <2>2
<1>4. CASE s.status # "FW_OK"
  <2>1. \/ Decides(rx) = {} /\ s.consumed = NothingFound(rx)
        \/ Decode(From(rx, s.consumed + 1)) = "FW_ERR_NOT_FOUND"
    BY <1>0, <1>1, <1>4, SyncIs
  <2>2. CASE Decides(rx) = {} /\ s.consumed = NothingFound(rx)
    BY <1>0, <1>1, <2>2 DEF NothingFound
  <2>3. CASE Decode(From(rx, s.consumed + 1)) = "FW_ERR_NOT_FOUND"
    <3> SUFFICES ASSUME s.consumed = 0 PROVE FALSE
      BY <1>1, <1>2
    <3>1. IsPiece(From(rx, 1), rx, 1, Len(rx))
      BY <1>0, FromIs
    <3>2. From(rx, 1) \in Seq(Byte) /\ Len(From(rx, 1)) = Len(rx)
      BY <1>0, <3>1 DEF IsPiece
    <3>3. Decode(From(rx, 1)) = "FW_ERR_NOT_FOUND"
      BY <2>3
    <3> QED
      BY <1>0, <3>2, <3>3, MissingIsShort
  <2> QED
    BY <2>1, <2>2, <2>3
<1> QED
  BY <1>3, <1>4

(* The buffer of a device never jams.                                        *)
THEOREM RoomAlwaysRemains == Spec => []RoomRemains
<1>1. Init => BufferInv
  BY BufferInit
<1>2. BufferInv /\ [Next]_vars => BufferInv'
  BY BufferNext
<1>3. BufferInv => RoomRemains
  BY RoomHolds
<1> QED
  BY <1>1, <1>2, <1>3, PTL DEF Spec
-----------------------------------------------------------------------------
(* What is answered is a reply to the request last asked.                    *)
ReplyInv ==
  \/ tx = <<>>
  \/ \E f : /\ asked = <<f>> /\ f.seq \in Byte /\ f.id \in Byte
            /\ \E a \in Answer : tx = Encode(Reply(f, a), TxRoom)

LEMMA ReplyIsFrame ==
  ASSUME NEW f, f.seq \in Byte, f.id \in Byte, NEW a \in Answer
  PROVE  Reply(f, a) \in WireFrame
<1>1. a \in Seq(Byte) /\ Len(a) <= MaxPayload
  BY DispatcherAssumption, PayloadBound
<1>2. (f.id % 128) + 128 \in Byte
  BY DEF Byte
<1> QED
  BY <1>1, <1>2 DEF Reply, WireFrame

LEMMA ReplyHolds == ReplyInv => RepliesReadable
<1> SUFFICES ASSUME ReplyInv, tx # <<>>
             PROVE  /\ Decode(tx) = "FW_OK" /\ SizeOf(tx) = Len(tx)
                    /\ asked # <<>> /\ FrameOf(tx).seq = asked[1].seq
                    /\ FrameOf(tx).id = (asked[1].id % 128) + 128
  BY DEF RepliesReadable
<1>1. PICK f : /\ asked = <<f>> /\ f.seq \in Byte /\ f.id \in Byte
               /\ \E a \in Answer : tx = Encode(Reply(f, a), TxRoom)
  BY DEF ReplyInv
<1>2. PICK a \in Answer : tx = Encode(Reply(f, a), TxRoom)
  BY <1>1
<1> DEFINE r == Reply(f, a)
<1>3. r \in WireFrame /\ r.seq = f.seq /\ r.id = (f.id % 128) + 128
  BY <1>1, ReplyIsFrame DEF Reply
<1>4. Len(r.payload) + 8 <= TxRoom /\ TxRoom \in Nat
  BY <1>2, <1>3, EncodeWithoutRoom, DispatcherAssumption
<1> HIDE DEF r
<1>5. Len(r.payload) \in Nat /\ Len(r.payload) + 8 <= MaxFrame /\ MaxFrame \in Nat
  BY <1>3, FrameFields, PayloadBound
<1>6. tx \in Seq(Byte) /\ Len(tx) = Len(r.payload) + 8
  BY <1>2, <1>3, <1>4, EncodeIs DEF r
<1>7. Encode(r, TxRoom) = Encode(r, MaxFrame)
  <2>1. Len(Body(r)) = Len(r.payload) + 6
    BY <1>3, BodyIs
  <2>2. Len(Body(r)) + CrcSize <= TxRoom /\ Len(Body(r)) + CrcSize <= MaxFrame
    BY <1>4, <1>5, <2>1 DEF CrcSize
  <2> QED
    BY <2>2 DEF Encode, Body
<1>8. Starts(tx, r)
  BY <1>2, <1>5, <1>6, <1>7 DEF Starts, r
<1>9. Decode(tx) = "FW_OK" /\ SizeOf(tx) = Len(r.payload) + 8 /\ FrameOf(tx) = r
  BY <1>3, <1>6, <1>8, DecodeWhole
<1> QED
  BY <1>1, <1>3, <1>6, <1>9

LEMMA ReplyNext ==
  ASSUME BufferInv, ReplyInv, [Next]_vars
  PROVE  ReplyInv'
<1>1. CASE UNCHANGED <<tx, asked>>
  BY <1>1 DEF ReplyInv
<1>2. CASE Process
  <2>1. CASE tx' = <<>>
    BY <2>1 DEF ReplyInv
  <2>2. CASE tx' # <<>>
    <3>1. PICK sync : /\ sync = StreamSync(rx) /\ sync.status = "FW_OK"
                      /\ Dispatch(FrameOf(From(rx, sync.at)))
                      /\ asked' = <<FrameOf(From(rx, sync.at))>>
      BY <1>2, <2>2 DEF Process
    <3> DEFINE found == FrameOf(From(rx, sync.at))
    <3>2. From(rx, sync.at) \in Seq(Byte) /\ Decode(From(rx, sync.at)) = "FW_OK"
      BY <3>1, SyncIs DEF BufferInv
    <3>3. found.seq \in Byte /\ found.id \in Byte
      BY <3>2, OkIsWhole
    <3>4. \E a \in Answer : tx' = Encode(Reply(found, a), TxRoom)
      BY <2>2, <3>1 DEF Dispatch
    <3> HIDE DEF found
    <3>5. asked' = <<found>>
      BY <3>1 DEF found
    <3> QED
      BY <3>3, <3>4, <3>5 DEF ReplyInv
  <2> QED
    BY <2>1, <2>2
<1>3. CASE UNCHANGED vars
  BY <1>1, <1>3 DEF vars
<1>4. Next => Process \/ UNCHANGED <<tx, asked>>
  BY DEF Next, SendRequest, Disturb, Receive
<1> QED
  BY <1>1, <1>2, <1>3, <1>4

(* Whatever a device answers can be read, and belongs to what it was asked.  *)
THEOREM RepliesAlwaysReadable == Spec => []RepliesReadable
<1>1. Init => BufferInv /\ ReplyInv
  BY BufferInit DEF Init, ReplyInv
<1>2. BufferInv /\ ReplyInv /\ [Next]_vars => (BufferInv /\ ReplyInv)'
  BY BufferNext, ReplyNext
<1>3. ReplyInv => RepliesReadable
  BY ReplyHolds
<1> QED
  BY <1>1, <1>2, <1>3, PTL DEF Spec
-----------------------------------------------------------------------------
(* What a checksum cannot promise: that nothing but a request that is due    *)
(* reads as a frame.  Noise that happens to carry the right sixteen bits is  *)
(* handled as if it had been sent.                                           *)
OnlyRequestsDecode ==
  \A i \in 1 .. Len(rx) :
    Decode(From(rx, i)) = "FW_OK" => \E k \in DOMAIN due : due[k].at = i

(* A frame lies whole in a sequence of bytes, at its place.                  *)
Ends(d) == d.at + Len(d.frame.payload) + 8
Lies(bytes, d) ==
  /\ Ends(d) <= Len(bytes) + 1
  /\ \A i \in 1 .. Len(d.frame.payload) + 8 : bytes[d.at + i - 1] = Encode(d.frame, MaxFrame)[i]

Placed == [frame : WireFrame, at : Nat \ {0}]
Due == [frame : Request, at : Nat \ {0}]

(* Every request that is due lies whole in the buffer and on the line, in    *)
(* the order in which they were sent.                                        *)
DueInv ==
  /\ due \in Seq(Due)
  /\ \A k \in DOMAIN due : Lies(rx \o line, due[k])
  /\ \A k, m \in DOMAIN due : k < m => Ends(due[k]) <= due[m].at
  /\ stray = FALSE

LEMMA PlacedFields ==
  ASSUME NEW d \in Placed
  PROVE  /\ d.frame \in WireFrame /\ d.at \in Nat /\ d.at >= 1
         /\ Len(d.frame.payload) \in Nat /\ Ends(d) \in Nat /\ Ends(d) >= d.at + 8
<1>1. d.frame \in WireFrame /\ d.at \in Nat /\ d.at >= 1
  BY DEF Placed
<1>2. Len(d.frame.payload) \in Nat
  BY <1>1, FrameFields
<1> QED
  BY <1>1, <1>2, SMTT(30) DEF Ends

LEMMA DueFields ==
  ASSUME NEW d \in Due
  PROVE  /\ d \in Placed /\ d.frame \in WireFrame /\ d.frame \in Request
         /\ d.at \in Nat /\ d.at >= 1
         /\ Len(d.frame.payload) \in Nat /\ Ends(d) \in Nat /\ Ends(d) >= d.at + 8
<1>1. d \in Placed /\ d.frame \in Request
  BY DispatcherAssumption DEF Due, Placed
<1> QED
  BY <1>1, PlacedFields

(* A request of which two bytes have come decides; the scan waits for it or  *)
(* takes it whole.                                                           *)
LEMMA PlacedDecides ==
  ASSUME NEW a \in Seq(Byte), NEW b \in Seq(Byte), NEW d \in Placed,
         Lies(a \o b, d), d.at < Len(a)
  PROVE  /\ d.at \in Decides(a)
         /\ Decode(From(a, d.at)) = "FW_OK" =>
              /\ FrameOf(From(a, d.at)) = d.frame
              /\ SizeOf(From(a, d.at)) = Len(d.frame.payload) + 8
<1> DEFINE f == d.frame
           n == Len(d.frame.payload)
           raw == From(a, d.at)
           e == Encode(d.frame, MaxFrame)
<1>0. f \in WireFrame /\ d.at \in Nat /\ d.at >= 1 /\ n \in Nat /\ Len(a) \in Nat /\ Len(b) \in Nat
  BY PlacedFields
<1>1. IsPiece(raw, a, d.at, Len(a)) /\ Len(raw) \in Nat
  BY <1>0, FromIs
<1>2. raw \in Seq(Byte) /\ Len(raw) = Len(a) - d.at + 1
       /\ \A i \in 1 .. Len(a) - d.at + 1 : raw[i] = a[d.at + i - 1]
  BY <1>1 DEF IsPiece
<1>3. Joins(Byte, a \o b, a, b)
  BY Joined
<1>4. \A i \in 1 .. n + 8 : i <= Len(raw) => raw[i] = e[i]
  <2>1. \A i \in 1 .. n + 8 : (a \o b)[d.at + i - 1] = e[i]
    BY DEF Lies
  <2> HIDE DEF n, e, raw
  <2> TAKE i \in 1 .. n + 8
  <2> HAVE i <= Len(raw)
  <2>2. d.at + i - 1 \in 1 .. Len(a) /\ i \in 1 .. Len(a) - d.at + 1
    BY <1>0, <1>2
  <2>3. (a \o b)[d.at + i - 1] = a[d.at + i - 1]
    BY <1>3, <2>2 DEF Joins
  <2> QED
    BY <1>2, <2>1, <2>2, <2>3
<1>5. a[d.at] = SOF0 /\ a[d.at + 1] = SOF1
  <2>1. e[1] = SOF0 /\ e[2] = SOF1
    <3>1. f \in WireFrame /\ MaxFrame \in Nat /\ Len(f.payload) + 8 <= MaxFrame
      BY <1>0, FrameFits, Zenon
    <3>2. \A i \in 1 .. n + 6 : e[i] = Body(f)[i]
      BY <3>1, EncodeIs, Zenon
    <3>3. Body(f)[1] = SOF0 /\ Body(f)[2] = SOF1
      BY <1>0, BodyIs, Zenon
    <3> HIDE DEF e, n
    <3>4. 1 \in 1 .. n + 6 /\ 2 \in 1 .. n + 6
      BY <1>0
    <3> QED
      BY <3>2, <3>3, <3>4
  <2> HIDE DEF e, n, raw
  <2>2. 1 \in 1 .. n + 8 /\ 2 \in 1 .. n + 8 /\ 1 <= Len(raw) /\ 2 <= Len(raw)
    BY <1>0, <1>2
  <2>3. raw[1] = SOF0 /\ raw[2] = SOF1
    BY <1>4, <2>1, <2>2
  <2>4. raw[1] = a[d.at + 1 - 1] /\ raw[2] = a[d.at + 2 - 1]
    <3>1. 1 \in 1 .. Len(a) - d.at + 1 /\ 2 \in 1 .. Len(a) - d.at + 1
      BY <1>0
    <3> QED
      BY <1>2, <3>1
  <2> QED
    BY <1>0, <2>3, <2>4
<1>6. d.at \in 1 .. Len(a) - 1 /\ SubSeq(a, d.at, d.at + 1) = <<SOF0, SOF1>>
  BY <1>0, <1>5, StartIs
<1>7. Decode(raw) \in {"FW_OK", "FW_ERR_NOT_FOUND"} => d.at \in Decides(a)
  BY <1>6 DEF Decides
<1>8. CASE n + 8 <= Len(raw)
  <2>1. Starts(raw, f)
    BY <1>4, <1>8 DEF Starts
  <2>2. Decode(raw) = "FW_OK" /\ SizeOf(raw) = n + 8 /\ FrameOf(raw) = f
    BY <1>0, <1>2, <2>1, DecodeWhole
  <2> QED
    BY <2>2, <1>7
<1>9. CASE ~(n + 8 <= Len(raw))
  <2>1. \A i \in 1 .. Len(raw) : raw[i] = Encode(f, MaxFrame)[i]
    BY <1>0, <1>1, <1>4, <1>9
  <2>2. Len(raw) < Len(f.payload) + 8
    BY <1>0, <1>1, <1>9
  <2>3. Decode(raw) = "FW_ERR_NOT_FOUND"
    BY <1>0, <1>2, <2>1, <2>2, DecodePart
  <2> QED
    BY <2>3, <1>7
<1> QED
  BY <1>8, <1>9

(* What has been consumed is dropped: a frame behind it stays where it is.   *)
LEMMA PlacedShifts ==
  ASSUME NEW bytes \in Seq(Byte), NEW rest \in Seq(Byte), NEW n \in Nat, n <= Len(bytes),
         Len(rest) = Len(bytes) - n, \A i \in 1 .. Len(bytes) - n : rest[i] = bytes[n + i],
         NEW d \in Placed, Lies(bytes, d), n < d.at
  PROVE  /\ [d EXCEPT !.at = @ - n] \in Placed
         /\ d \in Due => [d EXCEPT !.at = @ - n] \in Due
         /\ Lies(rest, [d EXCEPT !.at = @ - n])
         /\ Ends([d EXCEPT !.at = @ - n]) = Ends(d) - n
<1> DEFINE c == [d EXCEPT !.at = @ - n]
           m == Len(d.frame.payload)
           e == Encode(d.frame, MaxFrame)
<1>1. /\ d.frame \in WireFrame /\ d.at \in Nat /\ d.at >= 1 /\ m \in Nat
      /\ Len(bytes) \in Nat
  BY PlacedFields
<1>2. /\ c.frame = d.frame /\ c.at = d.at - n /\ c \in Placed
      /\ (d \in Due => c \in Due)
  BY <1>1 DEF Placed, Due
<1>3. Ends(d) = d.at + m + 8 /\ Ends(c) = d.at - n + m + 8
  BY <1>2 DEF Ends
<1>4. \A i \in 1 .. m + 8 : bytes[d.at + i - 1] = e[i]
  BY DEF Lies
<1>7. Ends(d) <= Len(bytes) + 1
  BY DEF Lies
<1> HIDE DEF c, m, e
<1>5. \A i \in 1 .. m + 8 : rest[c.at + i - 1] = e[i]
  <2> TAKE i \in 1 .. m + 8
  <2>1. i \in Nat /\ 1 <= i /\ i <= m + 8
    BY <1>1
  <2>2. d.at + m + 8 <= Len(bytes) + 1
    BY <1>3, <1>7
  <2>3. d.at - n + i - 1 \in 1 .. Len(bytes) - n /\ n + (d.at - n + i - 1) = d.at + i - 1
    <3> DEFINE at == d.at
               len == Len(bytes)
    <3>1. at \in Nat /\ len \in Nat /\ n < at /\ m \in Nat /\ at + m + 8 <= len + 1
      BY <1>1, <2>2
    <3> HIDE DEF at, len
    <3>2. at - n + i - 1 \in 1 .. len - n /\ n + (at - n + i - 1) = at + i - 1
      BY <2>1, <3>1
    <3> QED
      BY <3>2 DEF at, len
  <2> QED
    BY <1>2, <1>4, <2>3
<1>6. Lies(rest, c)
  <2>1. Ends(c) <= Len(rest) + 1
    BY <1>1, <1>3, <1>7, SMTT(30)
  <2> QED
    BY <1>2, <1>5, <2>1 DEF Lies, m, e
<1> QED
  BY <1>1, <1>2, <1>3, <1>6 DEF c

(* The bytes that are left when n have been dropped from the buffer.         *)
LEMMA RestIs ==
  ASSUME NEW a \in Seq(Byte), NEW b \in Seq(Byte), NEW n \in Nat, n <= Len(a)
  PROVE  /\ From(a, n + 1) \o b \in Seq(Byte)
         /\ Len(From(a, n + 1) \o b) = Len(a \o b) - n
         /\ \A i \in 1 .. Len(a \o b) - n : (From(a, n + 1) \o b)[i] = (a \o b)[n + i]
<1> DEFINE c == From(a, n + 1)
<1>0. Len(a) \in Nat /\ Len(b) \in Nat
  OBVIOUS
<1>1. IsPiece(c, a, n + 1, Len(a))
  BY <1>0, FromIs
<1>2. c \in Seq(Byte) /\ Len(c) = Len(a) - n /\ \A i \in 1 .. Len(a) - n : c[i] = a[n + i]
  <2>1. Len(a) - (n + 1) + 1 = Len(a) - n /\ \A i \in Int : n + 1 + i - 1 = n + i
    BY <1>0
  <2> HIDE DEF c
  <2>2. c \in Seq(Byte) /\ Len(c) = Len(a) - n /\ \A i \in 1 .. Len(a) - n : c[i] = a[n + 1 + i - 1]
    BY <1>1, <2>1 DEF IsPiece
  <2> QED
    BY <2>1, <2>2
<1> HIDE DEF c
<1>3. Joins(Byte, c \o b, c, b) /\ Joins(Byte, a \o b, a, b)
  BY <1>2, Joined
<1>4. c \o b \in Seq(Byte) /\ Len(c \o b) = Len(a \o b) - n /\ Len(a \o b) = Len(a) + Len(b)
  BY <1>0, <1>2, <1>3 DEF Joins
<1>5. ASSUME NEW i \in 1 .. Len(a \o b) - n PROVE (c \o b)[i] = (a \o b)[n + i]
  <2>1. CASE i <= Len(a) - n
    <3>1. (c \o b)[i] = c[i]
      BY <1>0, <1>2, <1>3, <2>1 DEF Joins
    <3>2. n + i \in 1 .. Len(a)
      BY <1>0, <2>1
    <3>3. (a \o b)[n + i] = a[n + i]
      BY <1>3, <3>2 DEF Joins
    <3> QED
      BY <1>0, <1>2, <2>1, <3>1, <3>3
  <2>2. CASE ~(i <= Len(a) - n)
    <3> DEFINE k == i - (Len(a) - n)
    <3>1. k \in 1 .. Len(b) /\ i = Len(c) + k /\ n + i = Len(a) + k
      BY <1>0, <1>2, <1>4, <2>2
    <3> HIDE DEF k
    <3>2. (c \o b)[Len(c) + k] = b[k] /\ (a \o b)[Len(a) + k] = b[k]
      BY <1>3, <3>1 DEF Joins
    <3> QED
      BY <3>1, <3>2
  <2> QED
    BY <2>1, <2>2
<1> QED
  BY <1>4, <1>5 DEF c

(* Bytes that arrive move from the line to the buffer.                       *)
LEMMA ArrivalMoves ==
  ASSUME NEW a \in Seq(Byte), NEW b \in Seq(Byte), NEW k \in Nat, 1 <= k, k <= Len(b)
  PROVE  (a \o SubSeq(b, 1, k)) \o From(b, k + 1) = a \o b
<1> DEFINE p == SubSeq(b, 1, k)
           q == From(b, k + 1)
<1>0. Len(b) \in Nat
  OBVIOUS
<1>1. IsPiece(p, b, 1, k) /\ IsPiece(q, b, k + 1, Len(b))
  BY <1>0, PieceIs, FromIs
<1>2. p \in Seq(Byte) /\ q \in Seq(Byte)
  BY <1>1 DEF IsPiece
<1>3. p \o q = b
  <2> HIDE DEF p, q
  <2>1. Joins(Byte, p \o q, p, q)
    BY <1>2, Joined
  <2>2. Len(p) = k /\ Len(q) = Len(b) - k
    BY <1>0, <1>1 DEF IsPiece
  <2>3. ASSUME NEW i \in 1 .. Len(b) PROVE (p \o q)[i] = b[i]
    <3>1. CASE i <= k
      <4>1. i \in 1 .. k - 1 + 1 /\ 1 + i - 1 = i /\ i \in 1 .. Len(p)
        BY <2>2, <3>1
      <4> QED
        BY <1>1, <2>1, <4>1 DEF Joins, IsPiece
    <3>2. CASE ~(i <= k)
      <4> DEFINE j == i - k
      <4>1. j \in 1 .. Len(q) /\ i = Len(p) + j /\ j \in 1 .. Len(b) - (k + 1) + 1 /\ k + 1 + j - 1 = i
        BY <1>0, <2>2, <3>2
      <4> HIDE DEF j
      <4>2. (p \o q)[Len(p) + j] = q[j]
        BY <2>1, <4>1 DEF Joins
      <4>3. q[j] = b[k + 1 + j - 1]
        BY <1>1, <4>1 DEF IsPiece
      <4> QED
        BY <4>1, <4>2, <4>3
    <3> QED
      BY <3>1, <3>2
  <2>4. p \o q \in Seq(Byte) /\ Len(p \o q) = Len(b)
    BY <1>0, <2>1, <2>2 DEF Joins
  <2> QED
    BY <2>3, <2>4, SameBytes
<1> HIDE DEF p, q
<1>4. (a \o p) \o q = a \o (p \o q)
  <2>1. \A x, y, z \in Seq(Byte) : (x \o y) \o z = x \o (y \o z)
    OBVIOUS
  <2> QED
    BY <1>2, <2>1
<1> QED
  BY <1>3, <1>4 DEF p, q

(* More bytes behind it do not touch a frame.                                *)
LEMMA LiesStill ==
  ASSUME NEW a \in Seq(Byte), NEW b \in Seq(Byte), NEW d \in Placed, Lies(a, d)
  PROVE  Lies(a \o b, d)
<1> DEFINE m == Len(d.frame.payload)
           e == Encode(d.frame, MaxFrame)
           at == d.at
<1>1. at \in Nat /\ at >= 1 /\ m \in Nat /\ Len(a) \in Nat /\ Len(b) \in Nat
  BY PlacedFields
<1>2. at + m + 8 <= Len(a) + 1
  BY DEF Lies, Ends
<1>3. \A i \in 1 .. m + 8 : a[at + i - 1] = e[i]
  BY DEF Lies
<1>4. Joins(Byte, a \o b, a, b)
  BY Joined
<1> HIDE DEF m, e, at
<1>5. \A i \in 1 .. m + 8 : (a \o b)[at + i - 1] = e[i]
  <2> TAKE i \in 1 .. m + 8
  <2>1. at + i - 1 \in 1 .. Len(a)
    BY <1>1, <1>2
  <2> QED
    BY <1>3, <1>4, <2>1 DEF Joins
<1>6. at + m + 8 <= Len(a \o b) + 1
  BY <1>1, <1>2, <1>4 DEF Joins
<1> QED
  BY <1>5, <1>6 DEF Lies, Ends, m, e, at

LEMMA DueSent ==
  ASSUME BufferInv, DueInv, NEW f \in Request, SendRequest(f)
  PROVE  DueInv'
<1> DEFINE d == [frame |-> f, at |-> Len(rx) + 1]
           e == Encode(f, MaxFrame)
           m == Len(f.payload)
<1>1. /\ line = <<>> /\ rx' = rx /\ line' = e /\ due' = Append(due, d) /\ stray' = stray
      /\ rx \in Seq(Byte) /\ Len(rx) \in Nat
  BY DEF SendRequest, BufferInv
<1>2. f \in WireFrame /\ e \in Seq(Byte) /\ Len(e) = m + 8 /\ m \in Nat
  <2>1. f \in WireFrame
    BY DispatcherAssumption
  <2>2. Len(f.payload) + 8 <= MaxFrame /\ MaxFrame \in Nat
    BY <2>1, FrameFits
  <2> QED
    BY <2>1, <2>2, EncodeIs, FrameFields
<1>3. d \in Due /\ d.at = Len(rx) + 1 /\ d.frame = f /\ Ends(d) = Len(rx) + m + 9
  <2>1. Len(rx) + 1 \in Nat \ {0}
    BY <1>1
  <2>2. d \in Due /\ d.at = Len(rx) + 1 /\ d.frame = f
    BY <2>1 DEF Due
  <2>3. Ends(d) = Len(rx) + 1 + m + 8
    BY <2>2 DEF Ends
  <2> HIDE DEF d, m
  <2> QED
    BY <1>1, <1>2, <2>2, <2>3
<1>4. Joins(Byte, rx \o e, rx, e)
  BY <1>1, <1>2, Joined
<1>5. /\ due \in Seq(Due) /\ stray = FALSE
      /\ \A k \in DOMAIN due : Lies(rx, due[k])
      /\ \A k, n \in DOMAIN due : k < n => Ends(due[k]) <= due[n].at
  <2>1. rx \o line = rx
    BY <1>1
  <2> QED
    BY <2>1 DEF DueInv
<1> HIDE DEF d, e, m
<1>6. /\ due' \in Seq(Due) /\ Len(due') = Len(due) + 1 /\ Len(due) \in Nat
      /\ DOMAIN due' = 1 .. Len(due) + 1 /\ DOMAIN due = 1 .. Len(due)
      /\ \A k \in 1 .. Len(due) : due'[k] = due[k]
      /\ due'[Len(due) + 1] = d
  BY <1>1, <1>3, <1>5
<1>7. Lies(rx \o e, d)
  <2>1. Ends(d) <= Len(rx \o e) + 1
    BY <1>1, <1>2, <1>3, <1>4 DEF Joins
  <2>2. ASSUME NEW i \in 1 .. m + 8 PROVE (rx \o e)[d.at + i - 1] = e[i]
    <3>1. d.at + i - 1 = Len(rx) + i /\ i \in 1 .. Len(e)
      BY <1>1, <1>2, <1>3
    <3> QED
      BY <1>4, <3>1 DEF Joins
  <2> QED
    BY <1>3, <2>1, <2>2 DEF Lies, m, e
<1>8. ASSUME NEW k \in DOMAIN due' PROVE Lies(rx \o e, due'[k])
  <2>1. CASE k = Len(due) + 1
    BY <1>6, <1>7, <2>1
  <2>2. CASE k # Len(due) + 1
    <3>1. k \in 1 .. Len(due) /\ due'[k] = due[k] /\ due[k] \in Due /\ Lies(rx, due[k])
      BY <1>5, <1>6, <2>2
    <3> QED
      BY <1>1, <1>2, <3>1, LiesStill, DueFields
  <2> QED
    BY <2>1, <2>2
<1>9. ASSUME NEW k \in DOMAIN due', NEW n \in DOMAIN due', k < n
      PROVE  Ends(due'[k]) <= due'[n].at
  <2>1. k \in 1 .. Len(due) /\ due'[k] = due[k] /\ k \in DOMAIN due
    BY <1>6, <1>9
  <2>2. CASE n = Len(due) + 1
    <3>1. Ends(due[k]) <= Len(rx) + 1
      BY <1>5, <2>1 DEF Lies
    <3> QED
      BY <1>3, <1>6, <2>1, <2>2, <3>1
  <2>3. CASE n # Len(due) + 1
    <3>1. n \in DOMAIN due /\ due'[n] = due[n]
      BY <1>6, <2>3
    <3> QED
      BY <1>5, <1>9, <2>1, <3>1
  <2> QED
    BY <2>2, <2>3
<1> QED
  <2>1. rx' \o line' = rx \o e
    BY <1>1
  <2> QED
    BY <1>1, <1>5, <1>6, <1>8, <1>9, <2>1 DEF DueInv

LEMMA DueDisturbed ==
  ASSUME BufferInv, DueInv, NEW n \in Noise, Disturb(n)
  PROVE  DueInv'
<1>1. /\ line = <<>> /\ rx' = rx /\ line' = n /\ due' = due /\ stray' = stray
      /\ rx \in Seq(Byte) /\ n \in Seq(Byte)
  BY DispatcherAssumption DEF Disturb, BufferInv
<1>2. rx \o line = rx
  BY <1>1
<1>3. ASSUME NEW k \in DOMAIN due PROVE Lies(rx \o n, due[k])
  <2>1. due[k] \in Due /\ Lies(rx, due[k])
    BY <1>2 DEF DueInv
  <2> QED
    BY <1>1, <2>1, LiesStill, DueFields
<1> QED
  BY <1>1, <1>3 DEF DueInv

LEMMA DueReceived ==
  ASSUME BufferInv, DueInv, NEW k \in 1 .. MaxFrame, Receive(k)
  PROVE  DueInv'
<1>1. k \in Nat /\ 1 <= k /\ k <= Len(line) /\ rx \in Seq(Byte) /\ line \in Seq(Byte)
  BY PayloadBound DEF Receive, BufferInv
<1>2. (rx \o SubSeq(line, 1, k)) \o From(line, k + 1) = rx \o line
  BY <1>1, ArrivalMoves
<1>3. rx' \o line' = rx \o line /\ due' = due /\ stray' = stray
  BY <1>2 DEF Receive
<1> QED
  BY <1>3 DEF DueInv

(* Frames in order, whole, behind what is dropped: they are so still.        *)
InOrder(d) == \A k, m \in DOMAIN d : k < m => Ends(d[k]) <= d[m].at

LEMMA DueDropped ==
  ASSUME NEW a \in Seq(Byte), NEW b \in Seq(Byte), NEW d \in Seq(Due),
         \A k \in DOMAIN d : Lies(a \o b, d[k]), InOrder(d),
         NEW n \in Nat, n <= Len(a), \A k \in DOMAIN d : n < d[k].at
  PROVE  /\ Shifted(d, n) \in Seq(Due)
         /\ \A k \in DOMAIN Shifted(d, n) : Lies(From(a, n + 1) \o b, Shifted(d, n)[k])
         /\ InOrder(Shifted(d, n))
<1> DEFINE rest == From(a, n + 1) \o b
           bytes == a \o b
           Moved1(k) == [d[k] EXCEPT !.at = @ - n]
           c == Shifted(d, n)
<1>1. bytes \in Seq(Byte) /\ n <= Len(bytes)
  <2>1. Joins(Byte, bytes, a, b)
    BY Joined
  <2> QED
    BY <2>1 DEF Joins
<1>2. /\ rest \in Seq(Byte) /\ Len(rest) = Len(bytes) - n
      /\ \A i \in 1 .. Len(bytes) - n : rest[i] = bytes[n + i]
  BY RestIs
<1>3. c = [k \in DOMAIN d |-> Moved1(k)]
  BY DEF Shifted
<1> HIDE DEF rest, bytes
<1>4. ASSUME NEW k \in DOMAIN d
      PROVE  /\ Moved1(k) \in Due /\ Lies(rest, Moved1(k))
             /\ Ends(Moved1(k)) = Ends(d[k]) - n
             /\ Moved1(k).at = d[k].at - n
  <2>1. d[k] \in Due /\ Lies(bytes, d[k]) /\ n < d[k].at
    BY DEF bytes
  <2>2. d[k] \in Placed
    BY <2>1, DueFields
  <2>3. /\ Moved1(k) \in Due /\ Lies(rest, Moved1(k))
        /\ Ends(Moved1(k)) = Ends(d[k]) - n
    BY <1>1, <1>2, <2>1, <2>2, PlacedShifts
  <2>4. Moved1(k).at = d[k].at - n
    BY <2>1 DEF Due
  <2> QED
    BY <2>3, <2>4
<1> HIDE DEF Moved1, c
<1>5. DOMAIN c = DOMAIN d /\ \A k \in DOMAIN d : c[k] = Moved1(k)
  BY <1>3
<1>6. c \in Seq(Due)
  <2>1. c = [k \in 1 .. Len(d) |-> Moved1(k)] /\ Len(d) \in Nat
    BY <1>3
  <2>2. \A k \in 1 .. Len(d) : Moved1(k) \in Due
    BY <1>4
  <2> QED
    BY <2>1, <2>2, IsASeq
<1>7. \A k \in DOMAIN c : Lies(rest, c[k])
  BY <1>4, <1>5
<1>8. ASSUME NEW k \in DOMAIN c, NEW m \in DOMAIN c, k < m PROVE Ends(c[k]) <= c[m].at
  <2>1. Ends(d[k]) <= d[m].at /\ d[k] \in Due /\ d[m] \in Due
    BY <1>5, <1>8 DEF InOrder
  <2>2. Ends(c[k]) = Ends(d[k]) - n /\ c[m].at = d[m].at - n
    BY <1>4, <1>5
  <2>3. Ends(d[k]) \in Nat /\ d[m].at \in Nat
    BY <2>1, DueFields
  <2> QED
    BY <2>1, <2>2, <2>3
<1> QED
  BY <1>6, <1>7, <1>8 DEF InOrder, rest, c

LEMMA DueProcessed ==
  ASSUME BufferInv, DueInv, OnlyRequestsDecode, Process
  PROVE  DueInv'
<1>1. PICK sync :
        /\ sync = StreamSync(rx)
        /\ rx' = From(rx, sync.consumed + 1) /\ line' = line
        /\ \/ /\ sync.status = "FW_OK"
              /\ LET found == FrameOf(From(rx, sync.at))
                     expected == due # <<>> /\ due[1] = [frame |-> found, at |-> sync.at]
                 IN  /\ due' = Shifted(IF expected THEN Tail(due) ELSE due, sync.consumed)
                     /\ stray' = (stray \/ ~expected)
           \/ /\ sync.status # "FW_OK"
              /\ due' = Shifted(due, sync.consumed)
              /\ stray' = stray
  BY DEF Process
<1>2. /\ rx \in Seq(Byte) /\ line \in Seq(Byte) /\ Len(rx) \in Nat /\ rx # <<>>
      /\ due \in Seq(Due) /\ InOrder(due) /\ stray = FALSE
      /\ \A k \in DOMAIN due : Lies(rx \o line, due[k])
  BY DEF BufferInv, DueInv, InOrder, Process
<1>3. sync.consumed \in Nat /\ sync.consumed <= Len(rx)
  BY <1>1, <1>2, SyncIs
<1>4. \A k \in DOMAIN due : due[k] \in Due /\ due[k].at \in Nat /\ Ends(due[k]) \in Nat
                            /\ Ends(due[k]) >= due[k].at + 8
  BY <1>2, DueFields
<1>5. \A k \in DOMAIN due : due[k].at < Len(rx) => due[k].at \in Decides(rx)
  BY <1>2, <1>4, PlacedDecides, DueFields
<1>6. CASE sync.status # "FW_OK"
  <2>1. sync.consumed < Len(rx) /\ \A j \in Decides(rx) : sync.consumed < j
    BY <1>1, <1>2, <1>6, SyncIs
  <2>2. ASSUME NEW k \in DOMAIN due PROVE sync.consumed < due[k].at
    <3>1. due[k].at \in Nat
      BY <1>4
    <3>2. CASE due[k].at < Len(rx)
      BY <1>5, <2>1, <3>2
    <3>3. CASE ~(due[k].at < Len(rx))
      BY <1>2, <1>3, <2>1, <3>1, <3>3
    <3> QED
      BY <3>2, <3>3
  <2>3. due' = Shifted(due, sync.consumed) /\ stray' = FALSE
    BY <1>1, <1>2, <1>6
  <2>4. /\ due' \in Seq(Due)
        /\ \A k \in DOMAIN due' : Lies(rx' \o line', due'[k])
        /\ InOrder(due')
    BY <1>1, <1>2, <1>3, <2>2, <2>3, DueDropped
  <2> QED
    BY <2>3, <2>4 DEF DueInv, InOrder
<1>7. CASE sync.status = "FW_OK"
  <2> DEFINE at == sync.at
             raw == From(rx, sync.at)
  <2>1. /\ FirstDecides(rx, at) /\ at \in Nat /\ 1 <= at /\ at < Len(rx)
        /\ Decode(raw) = "FW_OK" /\ sync.consumed = at - 1 + SizeOf(raw)
    BY <1>1, <1>2, <1>7, SyncIs
  <2>2. PICK k \in DOMAIN due : due[k].at = at
    BY <1>2, <2>1 DEF OnlyRequestsDecode
  <2>3. due # <<>> /\ 1 \in DOMAIN due /\ k \in Nat /\ k >= 1 /\ DOMAIN due = 1 .. Len(due)
         /\ Len(due) \in Nat
    BY <1>2
  <2>4. due[1].at = at
    <3>1. CASE k = 1
      BY <2>2, <3>1
    <3>2. CASE k # 1
      <4>1. Ends(due[1]) <= due[k].at
        BY <1>2, <2>3, <3>2 DEF InOrder
      <4>2. due[1].at < at /\ due[1].at < Len(rx)
        BY <1>4, <2>1, <2>2, <2>3, <4>1
      <4>3. at <= due[1].at
        BY <1>5, <2>1, <2>3, <4>2 DEF FirstDecides
      <4> QED
        BY <1>4, <2>1, <2>3, <4>2, <4>3
    <3> QED
      BY <3>1, <3>2
  <2> DEFINE d == due[1]
  <2>5. FrameOf(raw) = d.frame /\ SizeOf(raw) = Len(d.frame.payload) + 8
    <3>1. d \in Due /\ Lies(rx \o line, d) /\ d.at < Len(rx) /\ Decode(From(rx, d.at)) = "FW_OK"
      BY <1>2, <1>4, <2>1, <2>3, <2>4
    <3>2. FrameOf(From(rx, d.at)) = d.frame /\ SizeOf(From(rx, d.at)) = Len(d.frame.payload) + 8
      BY <1>2, <3>1, PlacedDecides, DueFields
    <3> QED
      BY <2>4, <3>2
  <2>6. d = [frame |-> FrameOf(raw), at |-> sync.at]
    <3>1. d \in [frame : Request, at : Nat \ {0}]
      BY <1>4, <2>3 DEF Due
    <3>2. d = [frame |-> d.frame, at |-> d.at]
      BY <3>1
    <3> QED
      BY <2>4, <2>5, <3>2
  <2>7. due' = Shifted(Tail(due), sync.consumed) /\ stray' = FALSE
    BY <1>1, <1>2, <1>7, <2>3, <2>6
  <2>8. /\ Tail(due) \in Seq(Due) /\ DOMAIN Tail(due) = 1 .. Len(due) - 1
        /\ \A m \in 1 .. Len(due) - 1 : Tail(due)[m] = due[m + 1]
    BY <1>2, <2>3
  <2>9. Ends(d) = sync.consumed + 1
    <3>1. Len(d.frame.payload) \in Nat /\ Ends(d) = at + Len(d.frame.payload) + 8
      BY <1>4, <2>3, <2>4, DueFields DEF Ends
    <3> QED
      BY <2>1, <2>5, <3>1, SMTT(30)
  <2>10. ASSUME NEW m \in DOMAIN Tail(due)
         PROVE  sync.consumed < Tail(due)[m].at /\ Lies(rx \o line, Tail(due)[m])
    <3>1. m \in 1 .. Len(due) - 1 /\ m + 1 \in DOMAIN due /\ 1 < m + 1 /\ Tail(due)[m] = due[m + 1]
      BY <2>3, <2>8
    <3>2. Ends(d) <= due[m + 1].at
      BY <1>2, <2>3, <3>1 DEF InOrder
    <3>3. due[m + 1].at \in Nat
      BY <1>4, <3>1
    <3> QED
      BY <1>2, <1>3, <2>9, <3>1, <3>2, <3>3
  <2>11. InOrder(Tail(due))
    <3> SUFFICES ASSUME NEW i \in DOMAIN Tail(due), NEW m \in DOMAIN Tail(due), i < m
                 PROVE  Ends(Tail(due)[i]) <= Tail(due)[m].at
      BY DEF InOrder
    <3>1. /\ i + 1 \in DOMAIN due /\ m + 1 \in DOMAIN due /\ i + 1 < m + 1
          /\ Tail(due)[i] = due[i + 1] /\ Tail(due)[m] = due[m + 1]
      BY <2>3, <2>8
    <3>2. Ends(due[i + 1]) <= due[m + 1].at
      BY <1>2, <3>1 DEF InOrder
    <3> QED
      BY <3>1, <3>2
  <2>12. /\ due' \in Seq(Due)
         /\ \A m \in DOMAIN due' : Lies(rx' \o line', due'[m])
         /\ InOrder(due')
    BY <1>1, <1>2, <1>3, <2>7, <2>8, <2>10, <2>11, DueDropped
  <2> QED
    BY <2>7, <2>12 DEF DueInv, InOrder
<1> QED
  BY <1>6, <1>7

LEMMA DueNext ==
  ASSUME BufferInv, DueInv, OnlyRequestsDecode, [Next]_vars
  PROVE  DueInv'
<1>1. CASE UNCHANGED vars
  BY <1>1 DEF vars, DueInv
<1> QED
  BY <1>1, DueSent, DueDisturbed, DueReceived, DueProcessed DEF Next

(* No request is lost: as long as no noise passes for a frame, every request *)
(* that was sent is handled, in order, or still lies whole before the        *)
(* device.  fw_cmd_process_stream over fw_zerowire_stream_sync.              *)
THEOREM RequestsAreHandled == Spec /\ []OnlyRequestsDecode => []RequestsHandled
<1>1. Init => BufferInv /\ DueInv
  <2>1. Init => DueInv
    BY DEF Init, DueInv
  <2> QED
    BY <2>1, BufferInit
<1>2. BufferInv /\ DueInv /\ OnlyRequestsDecode /\ [Next]_vars => (BufferInv /\ DueInv)'
  BY BufferNext, DueNext
<1>3. DueInv => RequestsHandled
  <2> SUFFICES ASSUME DueInv, NEW i \in DOMAIN due PROVE due[i].at >= 1
    BY DEF DueInv, RequestsHandled
  <2>1. due[i] \in Due
    BY DEF DueInv
  <2> QED
    BY <2>1, DueFields
<1> QED
  BY <1>1, <1>2, <1>3, PTL DEF Spec
-----------------------------------------------------------------------------
(* The node of interactive_demo/main.c.  What lies on its wire is bytes, and *)
(* every frame that was sent and not yet read lies there whole.              *)
Flown ==
  /\ rxRing \in Seq(Byte) /\ txRing \in Seq(Byte) /\ packets \in Nat
  /\ \A f \in flying : f \in Placed /\ Lies(rxRing \o txRing, f)

\* What --auto has sent so far, and how full the wire can be: behind an answer
\* come what --auto sends, what one key sends and one heartbeat.
AutoSent ==
  IF autoStep \in {2} THEN BeatSize
  ELSE IF autoStep \in {3, 4} THEN BeatSize + PingSize
  ELSE IF autoStep \in {5, 6} THEN BeatSize + PingSize + Len(Garbage)
  ELSE 0
Load(n) ==
  AnswerSize + AutoSent
  + (IF turn \in {"heartbeat", "wire"} THEN n ELSE 0)
  + (IF turn = "wire" THEN BeatSize ELSE 0)

NodeInv ==
  /\ Flown
  /\ turn \in {"heartbeat", "wire", "tasklets", "auto", "key"} /\ autoStep \in 0 .. 7
  /\ \E n \in KeySize : Len(rxRing) + Len(txRing) <= Load(n)

\* A step that adds n bytes to the wire at most.
Grows(n) == Flown' /\ Len(rxRing') + Len(txRing') <= Len(rxRing) + Len(txRing) + n

LEMMA NodeFrames ==
  \A p \in {Payload[Ping], Payload[Telemetry], Pong} :
    /\ p \in Seq(Byte) /\ Len(p) <= MaxPayload
    /\ Framed(p) = Len(p) + 8 /\ Framed(p) \in Nat
<1> SUFFICES ASSUME NEW p \in {Payload[Ping], Payload[Telemetry], Pong}
             PROVE  /\ p \in Seq(Byte) /\ Len(p) <= MaxPayload
                    /\ Framed(p) = Len(p) + 8 /\ Framed(p) \in Nat
  OBVIOUS
<1>1. p \in Seq(Byte) /\ Len(p) <= MaxPayload
  BY NodeAssumption, Zenon
<1>2. Len(p) \in Nat
  BY <1>1
<1> QED
  BY <1>1, <1>2 DEF Framed, HeaderSize, CrcSize

LEMMA NodeSizesAre ==
  /\ AnswerSize \in Nat /\ BeatSize \in Nat /\ PingSize \in Nat /\ Len(Garbage) \in Nat
  /\ Garbage \in Seq(Byte) /\ Ring \in Nat /\ SliceSize \in Nat
  /\ KeySize = {PingSize, BeatSize, Len(Garbage)}
  /\ \A n \in KeySize :
       /\ n \in Nat /\ AnswerSize + BeatSize + n <= SliceSize
       /\ AnswerSize + BeatSize + n + BeatSize + PingSize + Len(Garbage) <= Ring
<1>1. AnswerSize \in Nat /\ BeatSize \in Nat /\ PingSize \in Nat
  BY NodeFrames, Zenon DEF AnswerSize, BeatSize, PingSize
<1>2. Garbage \in Seq(Byte) /\ Ring \in Nat /\ SliceSize \in Nat
  BY NodeAssumption
<1>3. Len(Garbage) \in Nat
  BY <1>2
<1>4. \A n \in KeySize : n \in Nat
  BY <1>1, <1>3, Zenon DEF KeySize
<1> QED
  BY <1>1, <1>2, <1>3, <1>4, NodeSizes, Zenon DEF KeySize

(* fw_spsc_write with room enough takes everything.                          *)
LEMMA AllOfThem ==
  ASSUME NEW bytes \in Seq(Byte), NEW n \in Int, Len(bytes) <= n
  PROVE  FirstOf(bytes, n) = bytes
<1>1. Len(bytes) \in Nat
  OBVIOUS
<1>2. FirstOf(bytes, n) = SubSeq(bytes, 1, Len(bytes))
  BY <1>1 DEF FirstOf
<1>3. IsPiece(SubSeq(bytes, 1, Len(bytes)), bytes, 1, Len(bytes))
  BY <1>1, PieceIs
<1> DEFINE piece == SubSeq(bytes, 1, Len(bytes))
<1> HIDE DEF piece
<1>4. piece \in Seq(Byte) /\ Len(piece) = Len(bytes) /\ \A i \in 1 .. Len(bytes) : piece[i] = bytes[i]
  BY <1>1, <1>3 DEF IsPiece, piece
<1>5. piece = bytes
  BY <1>4, SameBytes
<1> QED
  BY <1>2, <1>5 DEF piece

LEMMA WrittenWhole ==
  ASSUME NEW ring \in Seq(Byte), NEW bytes \in Seq(Byte), Len(ring) + Len(bytes) <= Ring
  PROVE  Written(ring, bytes) = ring \o bytes
<1>1. Ring - Len(ring) \in Int /\ Len(bytes) <= Ring - Len(ring)
  BY NodeSizesAre
<1> QED
  BY <1>1, AllOfThem DEF Written

(* A frame written behind other bytes lies there whole.                      *)
LEMMA LiesBehind ==
  ASSUME NEW a \in Seq(Byte), NEW f \in WireFrame
  PROVE  LET e == Encode(f, MaxFrame)
             d == [frame |-> f, at |-> Len(a) + 1]
         IN  /\ e \in Seq(Byte) /\ Len(e) = Len(f.payload) + 8
             /\ d \in Placed /\ Lies(a \o e, d)
<1> DEFINE e == Encode(f, MaxFrame)
           d == [frame |-> f, at |-> Len(a) + 1]
           m == Len(f.payload)
<1>1. Len(a) \in Nat /\ m \in Nat /\ m + 8 <= MaxFrame /\ MaxFrame \in Nat
  BY FrameFields, FrameFits
<1>2. e \in Seq(Byte) /\ Len(e) = m + 8
  BY <1>1, EncodeIs
<1>3. d \in Placed /\ d.at = Len(a) + 1 /\ d.frame = f
  BY <1>1 DEF Placed
<1>4. Ends(d) = Len(a) + 1 + m + 8
  BY <1>3 DEF Ends
<1> HIDE DEF d, e, m
<1>5. Joins(Byte, a \o e, a, e)
  BY <1>2, Joined
<1>6. Ends(d) <= Len(a \o e) + 1
  BY <1>1, <1>2, <1>4, <1>5 DEF Joins
<1>7. ASSUME NEW i \in 1 .. m + 8 PROVE (a \o e)[d.at + i - 1] = e[i]
  <2>1. d.at + i - 1 = Len(a) + i /\ i \in 1 .. Len(e)
    BY <1>1, <1>2, <1>3
  <2> QED
    BY <1>5, <2>1 DEF Joins
<1>8. Lies(a \o e, d)
  BY <1>3, <1>6, <1>7 DEF Lies, m, e
<1> QED
  BY <1>2, <1>3, <1>8 DEF d, e, m

LEMMA WireAppends ==
  \A a, b, c \in Seq(Byte) :
    /\ b \o c \in Seq(Byte) /\ Len(b \o c) = Len(b) + Len(c)
    /\ a \o b \in Seq(Byte) /\ a \o (b \o c) = (a \o b) \o c
<1> SUFFICES ASSUME NEW a \in Seq(Byte), NEW b \in Seq(Byte), NEW c \in Seq(Byte)
             PROVE  /\ b \o c \in Seq(Byte) /\ Len(b \o c) = Len(b) + Len(c)
                    /\ a \o b \in Seq(Byte) /\ a \o (b \o c) = (a \o b) \o c
  OBVIOUS
<1>1. Joins(Byte, b \o c, b, c) /\ Joins(Byte, a \o b, a, b)
  BY Joined
<1>2. a \o (b \o c) = (a \o b) \o c
  OBVIOUS
<1> QED
  BY <1>1, <1>2 DEF Joins

(* Sending: the ring takes the frame whole, behind all others.               *)
LEMMA SendGrows ==
  ASSUME Flown, NEW id \in {Ping, Telemetry}, Send(id),
         Len(rxRing) + Len(txRing) + Framed(Payload[id]) <= Ring
  PROVE  Grows(Framed(Payload[id]))
<1> DEFINE seq == (packets + 1) % SeqLimit
           f == [seq |-> seq, id |-> id, payload |-> Payload[id]]
           e == Encode(f, MaxFrame)
           d == [frame |-> f, at |-> Len(Wire) + 1]
           w == Wire
<1>1. /\ packets' = seq /\ txRing' = Written(txRing, e) /\ rxRing' = rxRing
      /\ flying' = flying \cup {d}
  BY DEF Send
<1>2. /\ Payload[id] \in Seq(Byte) /\ Len(Payload[id]) <= MaxPayload
      /\ Framed(Payload[id]) = Len(Payload[id]) + 8 /\ Framed(Payload[id]) \in Nat
  BY NodeFrames, Zenon
<1>3. seq \in Nat /\ seq < 256
  BY NodeAssumption DEF Flown
<1>4. f \in WireFrame /\ f.payload = Payload[id]
  <2>1. seq \in Byte
    <3>1. \A n \in Nat : n < 256 => n \in Byte
      BY DEF Byte
    <3> QED
      BY <1>3, <3>1, Zenon
  <2>2. id \in Byte
    BY NodeAssumption, Zenon
  <2> QED
    BY <1>2, <2>1, <2>2 DEF WireFrame
<1>5. /\ rxRing \in Seq(Byte) /\ txRing \in Seq(Byte) /\ Len(rxRing) \in Nat /\ Len(txRing) \in Nat
      /\ \A c \in flying : c \in Placed /\ Lies(rxRing \o txRing, c)
  BY DEF Flown
<1>6. w = rxRing \o txRing
  BY DEF Wire
<1>7. w \in Seq(Byte)
  BY <1>5, <1>6
<1> HIDE DEF f, w, seq
<1>8. e \in Seq(Byte) /\ Len(e) = Framed(Payload[id]) /\ d \in Placed /\ Lies(w \o e, d)
  BY <1>2, <1>4, <1>7, LiesBehind DEF w
<1> HIDE DEF e, d
<1>9. txRing' = txRing \o e
  <2>1. Len(e) = Framed(Payload[id]) /\ Len(e) \in Nat
    BY <1>2, <1>8
  <2>2. Ring \in Nat
    BY NodeSizesAre
  <2>3. Len(txRing) + Len(e) <= Ring
    BY <1>5, <2>1, <2>2
  <2> QED
    BY <1>1, <1>5, <1>8, <2>3, WrittenWhole
<1>10. /\ txRing' \in Seq(Byte) /\ Len(txRing') = Len(txRing) + Framed(Payload[id])
       /\ rxRing' \o txRing' = w \o e
  <2>1. /\ txRing \o e \in Seq(Byte) /\ Len(txRing \o e) = Len(txRing) + Len(e)
        /\ rxRing \o (txRing \o e) = (rxRing \o txRing) \o e
    <3>1. rxRing \in Seq(Byte) /\ txRing \in Seq(Byte) /\ e \in Seq(Byte)
      BY <1>5, <1>8
    <3> QED
      BY <3>1, WireAppends, SMTT(30)
  <2> QED
    BY <1>1, <1>6, <1>8, <1>9, <2>1, Zenon
<1>11. ASSUME NEW c \in flying' PROVE c \in Placed /\ Lies(rxRing' \o txRing', c)
  <2>1. CASE c = d
    BY <1>8, <1>10, <2>1
  <2>2. CASE c \in flying
    BY <1>5, <1>6, <1>7, <1>8, <1>10, <2>2, LiesStill
  <2> QED
    BY <1>1, <2>1, <2>2
<1>12. Flown'
  <2>1. packets' \in Nat /\ rxRing' \in Seq(Byte) /\ txRing' \in Seq(Byte)
    BY <1>1, <1>3, <1>5, <1>10, Zenon
  <2>2. \A c \in flying' : c \in Placed /\ Lies(rxRing' \o txRing', c)
    BY <1>11, Zenon
  <2> QED
    BY <2>1, <2>2, Zenon DEF Flown
<1>13. Len(rxRing') + Len(txRing') <= Len(rxRing) + Len(txRing) + Framed(Payload[id])
  <2> DEFINE k == Framed(Payload[id])
  <2>1. Len(rxRing') = Len(rxRing) /\ Len(txRing') = Len(txRing) + k /\ k \in Nat
    BY <1>1, <1>2, <1>10, Zenon
  <2>2. Len(rxRing) \in Nat /\ Len(txRing) \in Nat
    BY <1>5, Zenon
  <2> HIDE DEF k
  <2>3. Len(rxRing') + Len(txRing') <= Len(rxRing) + Len(txRing) + k
    BY <2>1, <2>2
  <2> QED
    BY <2>3 DEF k
<1> QED
  BY <1>12, <1>13, Zenon DEF Grows

LEMMA GarbageGrows ==
  ASSUME Flown, SendGarbage, Len(rxRing) + Len(txRing) + Len(Garbage) <= Ring
  PROVE  Grows(Len(Garbage))
<1>1. /\ txRing' = Written(txRing, Garbage) /\ rxRing' = rxRing /\ packets' = packets
      /\ flying' = flying
  BY DEF SendGarbage
<1>2. /\ rxRing \in Seq(Byte) /\ txRing \in Seq(Byte) /\ Len(rxRing) \in Nat /\ Len(txRing) \in Nat
      /\ packets \in Nat
      /\ \A c \in flying : c \in Placed /\ Lies(rxRing \o txRing, c)
  BY DEF Flown
<1>3. Garbage \in Seq(Byte) /\ Len(Garbage) \in Nat /\ Ring \in Nat
  BY NodeSizesAre
<1>4. txRing' = txRing \o Garbage
  BY <1>1, <1>2, <1>3, WrittenWhole
<1>5. /\ txRing' \in Seq(Byte) /\ Len(txRing') = Len(txRing) + Len(Garbage)
      /\ rxRing' \o txRing' = (rxRing \o txRing) \o Garbage /\ rxRing \o txRing \in Seq(Byte)
  <2>1. /\ txRing \o Garbage \in Seq(Byte)
        /\ Len(txRing \o Garbage) = Len(txRing) + Len(Garbage)
        /\ rxRing \o (txRing \o Garbage) = (rxRing \o txRing) \o Garbage
        /\ rxRing \o txRing \in Seq(Byte)
    BY <1>2, <1>3, WireAppends, SMTT(30)
  <2> QED
    BY <1>1, <1>4, <2>1, Zenon
<1>6. \A c \in flying' : c \in Placed /\ Lies(rxRing' \o txRing', c)
  BY <1>1, <1>2, <1>3, <1>5, LiesStill
<1> QED
  BY <1>1, <1>2, <1>5, <1>6 DEF Grows, Flown

LEMMA NothingGrows ==
  ASSUME Flown, UNCHANGED wire
  PROVE  Grows(0)
<1>1. Len(rxRing) \in Nat /\ Len(txRing) \in Nat
  BY DEF Flown
<1> QED
  BY <1>1 DEF Grows, Flown, wire

(* What the wire holds fits the rings at every turn, with what comes next.   *)
LEMMA LoadIs ==
  ASSUME autoStep \in 0 .. 7, NEW n \in KeySize
  PROVE  /\ AutoSent \in Nat /\ AutoSent <= BeatSize + PingSize + Len(Garbage)
         /\ Load(n) \in Nat
         /\ turn = "heartbeat" => Load(n) = AnswerSize + AutoSent + n
         /\ turn = "wire" => Load(n) = AnswerSize + AutoSent + n + BeatSize
         /\ turn \notin {"heartbeat", "wire"} => Load(n) = AnswerSize + AutoSent
<1> DEFINE a == AnswerSize
           b == BeatSize
           p == PingSize
           g == Len(Garbage)
           s == AutoSent
<1>1. a \in Nat /\ b \in Nat /\ p \in Nat /\ g \in Nat /\ n \in Nat
  BY NodeSizesAre
<1>2. s = 0 \/ s = b \/ s = b + p \/ s = b + p + g
  BY Zenon DEF AutoSent
<1>3. Load(n) = a + s + (IF turn \in {"heartbeat", "wire"} THEN n ELSE 0)
                  + (IF turn = "wire" THEN b ELSE 0)
  BY Zenon DEF Load
<1> HIDE DEF a, b, p, g, s
<1>4. s \in Nat /\ s <= b + p + g
  BY <1>1, <1>2
<1>5. /\ Load(n) \in Nat
      /\ turn = "heartbeat" => Load(n) = a + s + n
      /\ turn = "wire" => Load(n) = a + s + n + b
      /\ turn \notin {"heartbeat", "wire"} => Load(n) = a + s
  BY <1>1, <1>3, <1>4
<1> QED
  BY <1>4, <1>5 DEF a, b, p, g, s

(* A step of the loop that sends at most k bytes, when the wire has room for *)
(* them, leaves the wire as full as it may be then.                          *)
LEMMA HeartbeatKeeps ==
  ASSUME NodeInv, Heartbeat
  PROVE  NodeInv'
<1>1. PICK n \in KeySize : Len(rxRing) + Len(txRing) <= Load(n)
  BY DEF NodeInv
<1>2. Flown /\ turn = "heartbeat" /\ turn' = "wire" /\ autoStep \in 0 .. 7 /\ autoStep' = autoStep
  BY DEF NodeInv, Heartbeat, Turn
<1>3. /\ AutoSent \in Nat /\ AutoSent <= BeatSize + PingSize + Len(Garbage)
      /\ Load(n) = AnswerSize + AutoSent + n
  BY <1>2, LoadIs
<1>4. /\ AnswerSize \in Nat /\ BeatSize \in Nat /\ PingSize \in Nat /\ Len(Garbage) \in Nat
      /\ Ring \in Nat /\ n \in Nat
      /\ AnswerSize + BeatSize + n + BeatSize + PingSize + Len(Garbage) <= Ring
  BY NodeSizesAre
<1>5. Len(rxRing) \in Nat /\ Len(txRing) \in Nat
  BY <1>2 DEF Flown
<1>6. Grows(BeatSize) \/ Grows(0)
  <2>1. CASE Send(Telemetry)
    <3>1. Len(rxRing) + Len(txRing) + BeatSize <= Ring
      BY <1>1, <1>3, <1>4, <1>5
    <3> QED
      BY <1>2, <2>1, <3>1, SendGrows DEF BeatSize
  <2>2. CASE SendNothing
    BY <1>2, <2>2, NothingGrows DEF SendNothing
  <2> QED
    BY <2>1, <2>2 DEF Heartbeat
<1>7. Flown' /\ Len(rxRing') + Len(txRing') <= Len(rxRing) + Len(txRing) + BeatSize
  <2>1. Flown' /\ Len(rxRing') \in Nat /\ Len(txRing') \in Nat
    BY <1>6 DEF Grows, Flown
  <2> QED
    BY <1>4, <1>5, <1>6, <2>1 DEF Grows
<1>8. Load(n)' = AnswerSize + AutoSent + n + BeatSize
  BY <1>2, <1>3, <1>4 DEF Load, AutoSent
<1>9. Len(rxRing') + Len(txRing') <= Load(n)'
  <2>1. Len(rxRing') \in Nat /\ Len(txRing') \in Nat
    BY <1>7 DEF Flown
  <2> QED
    BY <1>1, <1>3, <1>4, <1>5, <1>7, <1>8, <2>1
<1> QED
  BY <1>2, <1>7, <1>9 DEF NodeInv

LEMMA TaskletsKeeps ==
  ASSUME NodeInv, Tasklets
  PROVE  NodeInv'
<1>1. PICK n \in KeySize : Len(rxRing) + Len(txRing) <= Load(n)
  BY DEF NodeInv
<1>2. /\ turn = "tasklets" /\ turn' = "auto" /\ autoStep' = autoStep
      /\ UNCHANGED wire
  BY DEF Tasklets, Turn
<1>3. Load(n)' = Load(n)
  BY <1>2 DEF Load, AutoSent
<1> QED
  BY <1>1, <1>2, <1>3 DEF NodeInv, wire, Flown

LEMMA AutoKeeps ==
  ASSUME NodeInv, AutoActions
  PROVE  NodeInv'
<1>1. PICK n \in KeySize : Len(rxRing) + Len(txRing) <= Load(n)
  BY DEF NodeInv
<1>2. Flown /\ turn = "auto" /\ turn' = "key" /\ autoStep \in 0 .. 7
  BY DEF NodeInv, AutoActions, Turn
<1>3. /\ AutoSent \in Nat /\ AutoSent <= BeatSize + PingSize + Len(Garbage)
      /\ Load(n) = AnswerSize + AutoSent
  BY <1>2, LoadIs
<1>4. /\ AnswerSize \in Nat /\ BeatSize \in Nat /\ PingSize \in Nat /\ Len(Garbage) \in Nat
      /\ Ring \in Nat /\ n \in Nat
      /\ AnswerSize + BeatSize + n + BeatSize + PingSize + Len(Garbage) <= Ring
  BY NodeSizesAre
<1>5. Len(rxRing) \in Nat /\ Len(txRing) \in Nat
  BY <1>2 DEF Flown
<1>6. /\ autoStep' \in 0 .. 7
      /\ \E k \in Nat : Grows(k) /\ AutoSent' = AutoSent + k
  <2>1. CASE autoStep' = autoStep /\ SendNothing
    <3>1. AutoSent' = AutoSent + 0
      BY <1>3, <2>1 DEF AutoSent
    <3> QED
      BY <1>2, <2>1, <3>1, NothingGrows DEF SendNothing
  <2>2. CASE autoStep = 1 /\ autoStep' = 2 /\ Send(Telemetry)
    <3>1. AutoSent = 0 /\ AutoSent' = BeatSize
      BY <2>2 DEF AutoSent
    <3>2. Len(rxRing) + Len(txRing) + BeatSize <= Ring
      BY <1>1, <1>3, <1>4, <1>5, <3>1
    <3>3. Grows(BeatSize)
      BY <1>2, <2>2, <3>2, SendGrows DEF BeatSize
    <3>4. AutoSent' = AutoSent + BeatSize
      BY <1>4, <3>1
    <3> QED
      BY <1>4, <2>2, <3>3, <3>4
  <2>3. CASE autoStep = 2 /\ autoStep' = 3 /\ Send(Ping)
    <3>1. AutoSent = BeatSize /\ AutoSent' = BeatSize + PingSize
      BY <2>3 DEF AutoSent
    <3>2. Len(rxRing) + Len(txRing) + PingSize <= Ring
      BY <1>1, <1>3, <1>4, <1>5, <3>1
    <3>3. Grows(PingSize)
      BY <1>2, <2>3, <3>2, SendGrows DEF PingSize
    <3>4. AutoSent' = AutoSent + PingSize
      BY <1>4, <3>1
    <3> QED
      BY <1>4, <2>3, <3>3, <3>4
  <2>4. CASE autoStep = 4 /\ autoStep' = 5 /\ SendGarbage
    <3>1. AutoSent = BeatSize + PingSize /\ AutoSent' = BeatSize + PingSize + Len(Garbage)
      BY <2>4 DEF AutoSent
    <3>2. Len(rxRing) + Len(txRing) + Len(Garbage) <= Ring
      BY <1>1, <1>3, <1>4, <1>5, <3>1
    <3>3. Grows(Len(Garbage))
      BY <1>2, <2>4, <3>2, GarbageGrows
    <3>4. AutoSent' = AutoSent + Len(Garbage)
      BY <1>4, <3>1
    <3> QED
      BY <1>4, <2>4, <3>3, <3>4
  <2>5. CASE autoStep \in {0, 3, 5} /\ autoStep' = autoStep + 1 /\ SendNothing
    <3>1. \/ autoStep = 0 /\ autoStep' = 1
          \/ autoStep = 3 /\ autoStep' = 4
          \/ autoStep = 5 /\ autoStep' = 6
      BY <2>5
    <3>2. AutoSent' = AutoSent + 0 /\ autoStep' \in 0 .. 7
      BY <1>3, <3>1 DEF AutoSent
    <3> QED
      BY <1>2, <2>5, <3>2, NothingGrows DEF SendNothing
  <2>6. \/ autoStep' = autoStep /\ SendNothing
        \/ autoStep = 1 /\ autoStep' = 2 /\ Send(Telemetry)
        \/ autoStep = 2 /\ autoStep' = 3 /\ Send(Ping)
        \/ autoStep = 4 /\ autoStep' = 5 /\ SendGarbage
        \/ autoStep \in {0, 3, 5} /\ autoStep' = autoStep + 1 /\ SendNothing
    <3>1. CASE autoStep' = autoStep /\ SendNothing
      BY <3>1
    <3>2. CASE autoStep < 6 /\ autoStep' = autoStep + 1
               /\ CASE autoStep = 1 -> Send(Telemetry)
                    [] autoStep = 2 -> Send(Ping)
                    [] autoStep = 4 -> SendGarbage
                    [] OTHER -> SendNothing
      <4>1. \/ autoStep = 1 \/ autoStep = 2 \/ autoStep = 4 \/ autoStep \in {0, 3, 5}
        BY <1>2, <3>2
      <4> QED
        BY <3>2, <4>1
    <3>3. CASE autoStep = 6 /\ SendNothing /\ UNCHANGED autoStep
      BY <3>3
    <3> QED
      BY <3>1, <3>2, <3>3 DEF AutoActions
  <2> QED
    BY <2>1, <2>2, <2>3, <2>4, <2>5, <2>6
<1>7. PICK k \in Nat : Grows(k) /\ AutoSent' = AutoSent + k
  BY <1>6
<1>8. Load(n)' = AnswerSize + AutoSent'
  BY <1>2, <1>3, <1>4, <1>7 DEF Load
<1>9. Len(rxRing') + Len(txRing') <= Load(n)'
  <2>1. Len(rxRing') \in Nat /\ Len(txRing') \in Nat
    BY <1>7 DEF Grows, Flown
  <2>2. Len(rxRing') + Len(txRing') <= Len(rxRing) + Len(txRing) + k
    BY <1>7 DEF Grows
  <2> QED
    BY <1>1, <1>3, <1>4, <1>5, <1>7, <1>8, <2>1, <2>2
<1> QED
  BY <1>2, <1>6, <1>7, <1>9 DEF NodeInv, Grows

LEMMA KeyKeeps ==
  ASSUME NodeInv, Key
  PROVE  NodeInv'
<1>1. PICK n \in KeySize : Len(rxRing) + Len(txRing) <= Load(n)
  BY DEF NodeInv
<1>2. Flown /\ turn = "key" /\ turn' = "heartbeat" /\ autoStep \in 0 .. 7 /\ autoStep' = autoStep
  BY DEF NodeInv, Key, Turn
<1>3. /\ AutoSent \in Nat /\ AutoSent <= BeatSize + PingSize + Len(Garbage)
      /\ Load(n) = AnswerSize + AutoSent
  BY <1>2, LoadIs
<1>4. /\ AnswerSize \in Nat /\ BeatSize \in Nat /\ PingSize \in Nat /\ Len(Garbage) \in Nat
      /\ Ring \in Nat
      /\ KeySize = {PingSize, BeatSize, Len(Garbage)}
  BY NodeSizesAre
<1>5. Len(rxRing) \in Nat /\ Len(txRing) \in Nat
  BY <1>2 DEF Flown
<1>6. ASSUME NEW k \in KeySize PROVE Len(rxRing) + Len(txRing) + k <= Ring /\ k \in Nat
  <2>1. /\ k \in Nat /\ AnswerSize + BeatSize + k + BeatSize + PingSize + Len(Garbage) <= Ring
    BY NodeSizesAre
  <2> QED
    BY <1>1, <1>3, <1>4, <1>5, <2>1
<1>7. \E k \in KeySize : Grows(k) \/ Grows(0)
  <2>1. CASE Send(Telemetry)
    <3>1. BeatSize \in KeySize
      BY <1>4
    <3> QED
      BY <1>2, <1>6, <2>1, <3>1, SendGrows DEF BeatSize
  <2>2. CASE Send(Ping)
    <3>1. PingSize \in KeySize
      BY <1>4
    <3> QED
      BY <1>2, <1>6, <2>2, <3>1, SendGrows DEF PingSize
  <2>3. CASE SendGarbage
    <3>1. Len(Garbage) \in KeySize
      BY <1>4
    <3> QED
      BY <1>2, <1>6, <2>3, <3>1, GarbageGrows
  <2>4. CASE SendNothing
    BY <1>1, <1>2, <2>4, NothingGrows DEF SendNothing
  <2> QED
    BY <2>1, <2>2, <2>3, <2>4 DEF Key
<1>8. PICK k \in KeySize : Grows(k) \/ Grows(0)
  BY <1>7
<1>9. Load(k)' = AnswerSize + AutoSent + k
  BY <1>2, <1>3, <1>4, <1>6 DEF Load, AutoSent
<1>10. Flown' /\ Len(rxRing') + Len(txRing') <= Load(k)'
  <2>1. Flown' /\ Len(rxRing') \in Nat /\ Len(txRing') \in Nat /\ k \in Nat
    BY <1>6, <1>8 DEF Grows, Flown
  <2>2. Len(rxRing') + Len(txRing') <= Len(rxRing) + Len(txRing) + k
    BY <1>5, <1>8, <2>1 DEF Grows
  <2> QED
    BY <1>1, <1>3, <1>4, <1>5, <1>9, <2>1, <2>2
<1> QED
  BY <1>2, <1>8, <1>10 DEF NodeInv

(* What a checksum cannot promise: that nothing but a frame that was sent     *)
(* reads as one.  This is about the place where a frame was found only.       *)
OnlySentDecode ==
  turn = "wire" =>
    LET sync == StreamSync(FirstOf(Loopback, SliceSize))
    IN  sync.status = "FW_OK" => \E f \in flying : f.at = sync.at

(* The slice that is read off the wire, n bytes if there are as many, and    *)
(* the rest.                                                                 *)
CutAfter(w, n, s, r) ==
  /\ s \in Seq(Byte) /\ r \in Seq(Byte) /\ s \o r = w
  /\ Len(s) \in Nat /\ Len(s) <= Len(w) /\ Len(r) = Len(w) - Len(s)
  /\ Len(w) <= n => Len(s) = Len(w)
  /\ n <= Len(w) => Len(s) = n
  /\ \A i \in 1 .. Len(w) - Len(s) : r[i] = w[Len(s) + i]

LEMMA SliceIs ==
  \A w \in Seq(Byte), n \in Nat :
    CutAfter(w, n, FirstOf(w, n), From(w, Len(FirstOf(w, n)) + 1))
<1> SUFFICES ASSUME NEW w \in Seq(Byte), NEW n \in Nat
             PROVE  CutAfter(w, n, FirstOf(w, n), From(w, Len(FirstOf(w, n)) + 1))
  OBVIOUS
<1> DEFINE k == IF Len(w) < n THEN Len(w) ELSE n
           s == SubSeq(w, 1, k)
           r == From(w, k + 1)
<1>1. Len(w) \in Nat
  OBVIOUS
<1>2. k \in Nat /\ k <= Len(w) /\ (Len(w) <= n => k = Len(w)) /\ (n <= Len(w) => k = n)
  BY <1>1
<1>3. FirstOf(w, n) = s
  BY Zenon DEF FirstOf
<1> HIDE DEF k
<1>4. IsPiece(s, w, 1, k) /\ IsPiece(r, w, k + 1, Len(w))
  BY <1>1, <1>2, PieceIs, FromIs
<1> HIDE DEF s, r
<1>5. s \in Seq(Byte) /\ Len(s) = k /\ \A i \in 1 .. k : s[i] = w[i]
  BY <1>2, <1>4 DEF IsPiece
<1>6. r \in Seq(Byte) /\ Len(r) = Len(w) - k /\ \A i \in 1 .. Len(w) - k : r[i] = w[k + i]
  <2>1. Len(w) - (k + 1) + 1 = Len(w) - k /\ \A i \in Int : k + 1 + i - 1 = k + i
    BY <1>1, <1>2
  <2>2. r \in Seq(Byte) /\ Len(r) = Len(w) - k /\ \A i \in 1 .. Len(w) - k : r[i] = w[k + 1 + i - 1]
    BY <1>4, <2>1 DEF IsPiece
  <2>3. \A i \in 1 .. Len(w) - k : k + 1 + i - 1 = k + i
    BY <1>1, <1>2
  <2> QED
    BY <2>2, <2>3
<1>7. s \o r = w
  <2>1. Joins(Byte, s \o r, s, r)
    BY <1>5, <1>6, Joined
  <2>2. s \o r \in Seq(Byte) /\ Len(s \o r) = Len(w)
    BY <1>1, <1>2, <1>5, <1>6, <2>1 DEF Joins
  <2>3. ASSUME NEW i \in 1 .. Len(w) PROVE (s \o r)[i] = w[i]
    <3>1. CASE i <= k
      <4>1. i \in 1 .. Len(s) /\ i \in 1 .. k
        BY <1>2, <1>5, <3>1
      <4> QED
        BY <1>5, <2>1, <4>1 DEF Joins
    <3>2. CASE ~(i <= k)
      <4> DEFINE j == i - k
      <4>1. j \in 1 .. Len(r) /\ i = Len(s) + j /\ j \in 1 .. Len(w) - k /\ k + j = i
        BY <1>1, <1>2, <1>5, <1>6, <3>2
      <4> HIDE DEF j
      <4>2. (s \o r)[Len(s) + j] = r[j] /\ r[j] = w[k + j]
        BY <1>6, <2>1, <4>1 DEF Joins
      <4> QED
        BY <4>1, <4>2
    <3> QED
      BY <3>1, <3>2
  <2> QED
    BY <2>2, <2>3, SameBytes
<1>8. CutAfter(w, n, s, r)
  BY <1>1, <1>2, <1>5, <1>6, <1>7 DEF CutAfter
<1> QED
  BY <1>3, <1>5, <1>8, Zenon DEF r

(* What the node reads and how it answers.                                   *)
LEMMA ServiceReads ==
  ASSUME Flown, Service, Len(rxRing) + Len(txRing) <= Ring
  PROVE  \E slice, rest, answer \in Seq(Byte) :
           /\ slice \o rest = rxRing \o txRing
           /\ slice = FirstOf(Loopback, SliceSize)
           /\ Loopback = rxRing \o txRing
           /\ Len(rest) + Len(slice) = Len(rxRing) + Len(txRing)
           /\ Len(rxRing) + Len(txRing) <= SliceSize => Len(rest) = 0
           /\ SliceSize <= Len(rxRing) + Len(txRing) => Len(slice) = SliceSize
           /\ rxRing' = rest /\ txRing' = answer /\ Len(answer) <= AnswerSize
           /\ packets' = packets
           /\ \A f \in flying' : f \in Placed /\ Lies(rest \o answer, f)
           /\ OnlySentDecode /\ turn = "wire" => (unsent' <=> unsent)
<1> DEFINE w == rxRing \o txRing
           slice == FirstOf(Loopback, SliceSize)
           sync == StreamSync(slice)
           found == FrameOf(From(slice, sync.at))
           ok == slice # <<>> /\ sync.status = "FW_OK"
           reply == Reply(found, Pong)
           answers == ok /\ Accepted([id \in {Ping} |-> 0], found)
           rest == From(Loopback, Len(slice) + 1)
           kept == {f \in Moved(flying, Len(slice)) : f.at > 0}
           e == Encode(reply, MaxFrame)
           behind == [frame |-> reply, at |-> Len(rest) + 1]
<1>1. /\ rxRing' = rest
      /\ txRing' = IF answers THEN Written(<<>>, e) ELSE <<>>
      /\ flying' = IF answers THEN kept \cup {behind} ELSE kept
      /\ unsent' = (unsent \/ (ok /\ [frame |-> found, at |-> sync.at] \notin flying))
      /\ packets' = packets
  BY DEF Service
<1>2. /\ rxRing \in Seq(Byte) /\ txRing \in Seq(Byte)
      /\ \A f \in flying : f \in Placed /\ Lies(w, f)
  BY DEF Flown
<1>3. Loopback = w
  BY <1>2, WrittenWhole DEF Loopback
<1>4. w \in Seq(Byte) /\ Len(w) = Len(rxRing) + Len(txRing) /\ Len(w) \in Nat
  <2>1. Joins(Byte, w, rxRing, txRing)
    BY <1>2, Joined
  <2> QED
    BY <1>2, <2>1 DEF Joins
<1>5. SliceSize \in Nat /\ AnswerSize \in Nat /\ Ring \in Nat /\ AnswerSize <= Ring
  <2>1. /\ AnswerSize \in Nat /\ BeatSize \in Nat /\ PingSize \in Nat /\ Len(Garbage) \in Nat
        /\ Ring \in Nat /\ BeatSize \in KeySize
    BY NodeSizesAre
  <2>2. AnswerSize + BeatSize + BeatSize + BeatSize + PingSize + Len(Garbage) <= Ring
    BY <2>1, NodeSizesAre
  <2>3. SliceSize \in Nat
    BY NodeSizesAre
  <2> QED
    BY <2>1, <2>2, <2>3
<1> HIDE DEF w
<1>6. /\ slice \in Seq(Byte) /\ rest \in Seq(Byte) /\ slice \o rest = w
      /\ Len(slice) \in Nat /\ Len(slice) <= Len(w) /\ Len(rest) = Len(w) - Len(slice)
      /\ Len(w) <= SliceSize => Len(slice) = Len(w)
      /\ SliceSize <= Len(w) => Len(slice) = SliceSize
      /\ \A i \in 1 .. Len(w) - Len(slice) : rest[i] = w[Len(slice) + i]
  <2>1. slice = FirstOf(w, SliceSize) /\ rest = From(w, Len(slice) + 1)
    BY <1>3, Zenon
  <2> HIDE DEF slice, rest
  <2>2. w \in Seq(Byte) /\ SliceSize \in Nat
    BY <1>4, <1>5
  <2>3. CutAfter(w, SliceSize, slice, rest)
    BY <2>1, <2>2, SliceIs, Zenon
  <2> QED
    BY <2>3, Zenon DEF CutAfter
<1> HIDE DEF slice, rest
<1>7. ok => /\ sync.at \in Nat /\ 1 <= sync.at /\ sync.at < Len(slice)
            /\ From(slice, sync.at) \in Seq(Byte) /\ Decode(From(slice, sync.at)) = "FW_OK"
  <2>1. \A s : s = sync => (s.status = "FW_OK" =>
           /\ s.at \in Nat /\ 1 <= s.at /\ s.at < Len(slice)
           /\ From(slice, s.at) \in Seq(Byte) /\ Decode(From(slice, s.at)) = "FW_OK")
    BY <1>6, SyncIs
  <2> QED
    BY <2>1
<1>8. ok => found.seq \in Byte /\ found.id \in Byte
  BY <1>7, OkIsWhole
<1> HIDE DEF found, sync
<1>9. ok => reply \in WireFrame /\ Len(reply.payload) + 8 = AnswerSize
  <2>1. Pong \in Seq(Byte) /\ Len(Pong) <= MaxPayload /\ AnswerSize = Len(Pong) + 8
    BY NodeFrames, Zenon DEF AnswerSize
  <2>2. \A x \in Byte : (x % 128) + 128 \in Byte
    BY DEF Byte
  <2> QED
    BY <1>8, <2>1, <2>2 DEF Reply, WireFrame
<1> HIDE DEF reply
<1>10. ok => /\ e \in Seq(Byte) /\ Len(e) = AnswerSize
             /\ behind \in Placed /\ Lies(rest \o e, behind)
  BY <1>6, <1>9, LiesBehind
<1> HIDE DEF e, behind
<1>11. ok => Written(<<>>, e) = e
  <2>1. ASSUME ok PROVE Written(<<>>, e) = <<>> \o e
    <3>1. <<>> \in Seq(Byte) /\ e \in Seq(Byte) /\ Len(<<>>) + Len(e) <= Ring
      BY <1>5, <1>10, <2>1
    <3> QED
      BY <3>1, WrittenWhole
  <2>2. e \in Seq(Byte) => <<>> \o e = e
    OBVIOUS
  <2> QED
    BY <1>10, <2>1, <2>2
<1>12. ASSUME NEW f \in kept PROVE f \in Placed /\ Lies(rest, f)
  <2>1. PICK g \in flying : f = [g EXCEPT !.at = @ - Len(slice)] /\ f.at > 0
    BY DEF Moved
  <2>2. g \in Placed /\ Lies(w, g)
    BY <1>2
  <2>3. f.at = g.at - Len(slice) /\ g.at \in Nat
    BY <2>1, <2>2 DEF Placed
  <2>4. Len(slice) < g.at
    BY <1>6, <2>1, <2>3
  <2> QED
    BY <1>4, <1>6, <2>1, <2>2, <2>4, PlacedShifts
<1> HIDE DEF kept
<1>13. OnlySentDecode /\ turn = "wire" => (unsent' <=> unsent)
  <2> SUFFICES ASSUME OnlySentDecode, turn = "wire", ok
               PROVE  [frame |-> found, at |-> sync.at] \in flying
    BY <1>1, Zenon
  <2>1. PICK f \in flying : f.at = sync.at
    BY DEF OnlySentDecode, slice, sync
  <2>2. f \in Placed /\ Lies(slice \o rest, f) /\ f.at < Len(slice)
        /\ Decode(From(slice, f.at)) = "FW_OK"
    BY <1>2, <1>6, <1>7, <2>1
  <2>3. FrameOf(From(slice, f.at)) = f.frame
    BY <1>6, <2>2, PlacedDecides
  <2>4. f = [frame |-> f.frame, at |-> f.at]
    BY <2>2 DEF Placed
  <2> QED
    BY <2>1, <2>3, <2>4 DEF found
<1>14. \E answer \in Seq(Byte) :
         /\ txRing' = answer /\ Len(answer) <= AnswerSize
         /\ \A f \in flying' : f \in Placed /\ Lies(rest \o answer, f)
  <2>1. CASE answers
    <3>1. txRing' = e /\ flying' = kept \cup {behind}
      BY <1>1, <1>11, <2>1
    <3>2. e \in Seq(Byte) /\ Len(e) <= AnswerSize /\ behind \in Placed /\ Lies(rest \o e, behind)
      BY <1>5, <1>10, <2>1
    <3>3. ASSUME NEW f \in flying' PROVE f \in Placed /\ Lies(rest \o e, f)
      BY <1>6, <1>12, <3>1, <3>2, LiesStill
    <3> QED
      BY <3>1, <3>2, <3>3
  <2>2. CASE ~answers
    <3>1. txRing' = <<>> /\ flying' = kept
      BY <1>1, <2>2
    <3>2. <<>> \in Seq(Byte) /\ Len(<<>>) <= AnswerSize /\ rest \o <<>> = rest
      BY <1>5, <1>6
    <3> QED
      BY <1>12, <3>1, <3>2
  <2> QED
    BY <2>1, <2>2
<1> HIDE DEF answers, ok
<1>15. /\ Len(rest) + Len(slice) = Len(w)
       /\ Len(w) <= SliceSize => Len(rest) = 0
  BY <1>4, <1>6
<1> QED
  BY <1>1, <1>3, <1>4, <1>6, <1>13, <1>14, <1>15, Zenon DEF w, slice

LEMMA ServiceKeeps ==
  ASSUME NodeInv, Service
  PROVE  NodeInv' /\ (OnlySentDecode => (unsent' <=> unsent))
<1>1. PICK n \in KeySize : Len(rxRing) + Len(txRing) <= Load(n)
  BY DEF NodeInv
<1>2. Flown /\ turn = "wire" /\ turn' = "tasklets" /\ autoStep \in 0 .. 7 /\ autoStep' = autoStep
  BY DEF NodeInv, Service, Turn
<1>3. /\ AutoSent \in Nat /\ AutoSent <= BeatSize + PingSize + Len(Garbage)
      /\ Load(n) = AnswerSize + AutoSent + n + BeatSize
  BY <1>2, LoadIs
<1>4. /\ AnswerSize \in Nat /\ BeatSize \in Nat /\ PingSize \in Nat /\ Len(Garbage) \in Nat
      /\ Ring \in Nat /\ SliceSize \in Nat /\ n \in Nat
      /\ AnswerSize + BeatSize + n <= SliceSize
      /\ AnswerSize + BeatSize + n + BeatSize + PingSize + Len(Garbage) <= Ring
  BY NodeSizesAre
<1>5. Len(rxRing) \in Nat /\ Len(txRing) \in Nat
  BY <1>2 DEF Flown
<1>6. Len(rxRing) + Len(txRing) <= Ring
  BY <1>1, <1>3, <1>4, <1>5
<1>7. PICK slice \in Seq(Byte), rest \in Seq(Byte), answer \in Seq(Byte) :
        /\ Len(rest) + Len(slice) = Len(rxRing) + Len(txRing)
        /\ Len(rxRing) + Len(txRing) <= SliceSize => Len(rest) = 0
        /\ SliceSize <= Len(rxRing) + Len(txRing) => Len(slice) = SliceSize
        /\ rxRing' = rest /\ txRing' = answer /\ Len(answer) <= AnswerSize
        /\ packets' = packets
        /\ \A f \in flying' : f \in Placed /\ Lies(rest \o answer, f)
        /\ OnlySentDecode /\ turn = "wire" => (unsent' <=> unsent)
  BY <1>2, <1>6, ServiceReads
<1>8. Flown'
  BY <1>2, <1>7 DEF Flown
<1>9. Len(rest) <= AutoSent
  <2>1. Len(rest) \in Nat /\ Len(slice) \in Nat
    OBVIOUS
  <2> QED
    BY <1>1, <1>3, <1>4, <1>5, <1>7, <2>1, SMTT(30)
<1>10. Load(n)' = AnswerSize + AutoSent
  BY <1>2, <1>3, <1>4 DEF Load, AutoSent
<1>11. Len(rxRing') + Len(txRing') <= Load(n)'
  <2>1. Len(rest) \in Nat /\ Len(answer) \in Nat
    OBVIOUS
  <2> QED
    BY <1>3, <1>4, <1>7, <1>9, <1>10, <2>1
<1>12. NodeInv'
  BY <1>2, <1>8, <1>11 DEF NodeInv
<1> QED
  BY <1>2, <1>7, <1>12

LEMMA NodeStart == NodeInit => NodeInv
<1> SUFFICES ASSUME NodeInit PROVE NodeInv
  OBVIOUS
<1>1. /\ turn = "heartbeat" /\ autoStep \in 0 .. 7 /\ packets = 0
      /\ rxRing = <<>> /\ txRing = <<>> /\ flying = {}
  BY DEF NodeInit
<1>2. Flown
  BY <1>1 DEF Flown
<1>3. BeatSize \in KeySize
  BY DEF KeySize
<1>4. Load(BeatSize) \in Nat
  BY <1>1, <1>3, LoadIs
<1>5. Len(rxRing) + Len(txRing) <= Load(BeatSize)
  BY <1>1, <1>4
<1> QED
  BY <1>1, <1>2, <1>3, <1>5 DEF NodeInv

LEMMA NodeStep ==
  NodeInv /\ [NodeNext]_nodeVars => NodeInv' /\ (OnlySentDecode => (unsent' <=> unsent))
<1> SUFFICES ASSUME NodeInv, [NodeNext]_nodeVars
             PROVE  NodeInv' /\ (OnlySentDecode => (unsent' <=> unsent))
  OBVIOUS
<1>1. CASE Heartbeat
  BY <1>1, HeartbeatKeeps DEF Heartbeat
<1>2. CASE Service
  BY <1>2, ServiceKeeps
<1>3. CASE Tasklets
  BY <1>3, TaskletsKeeps DEF Tasklets
<1>4. CASE AutoActions
  BY <1>4, AutoKeeps DEF AutoActions
<1>5. CASE Key
  BY <1>5, KeyKeeps DEF Key
<1>6. CASE UNCHANGED nodeVars
  BY <1>6 DEF NodeInv, Flown, Load, AutoSent, nodeVars, loop, wire
<1> QED
  BY <1>1, <1>2, <1>3, <1>4, <1>5, <1>6 DEF NodeNext, Iterate, Ended

LEMMA NodeWhole == NodeInv => SentWhole
<1> SUFFICES ASSUME NodeInv, NEW f \in flying
             PROVE  LET bytes == Encode(f.frame, MaxFrame)
                    IN  /\ f.at + Len(bytes) - 1 <= Len(Wire)
                        /\ SubSeq(Wire, f.at, f.at + Len(bytes) - 1) = bytes
  BY DEF SentWhole
<1> DEFINE e == Encode(f.frame, MaxFrame)
           w == Wire
           m == Len(f.frame.payload)
           at == f.at
           last == at + Len(e) - 1
<1>1. f \in Placed /\ Lies(w, f) /\ w \in Seq(Byte)
  BY DEF NodeInv, Flown, Wire
<1>2. f.frame \in WireFrame /\ at \in Nat /\ at >= 1 /\ m \in Nat /\ m + 8 <= MaxFrame
      /\ MaxFrame \in Nat
  BY <1>1, PlacedFields, FrameFits
<1>3. e \in Seq(Byte) /\ Len(e) = m + 8
  BY <1>2, EncodeIs
<1>4. at + m + 8 <= Len(w) + 1 /\ Len(w) \in Nat /\ \A i \in 1 .. m + 8 : w[at + i - 1] = e[i]
  BY <1>1 DEF Lies, Ends
<1> HIDE DEF e, w, m, at
<1>5. last \in Nat /\ last <= Len(w) /\ at <= last + 1 /\ last - at + 1 = m + 8
  BY <1>2, <1>3, <1>4
<1>6. IsPiece(SubSeq(w, at, last), w, at, last)
  BY <1>1, <1>2, <1>5, PieceIs
<1> DEFINE piece == SubSeq(w, at, last)
<1> HIDE DEF piece, last
<1>7. /\ piece \in Seq(Byte) /\ Len(piece) = m + 8
      /\ \A i \in 1 .. m + 8 : piece[i] = w[at + i - 1]
  BY <1>5, <1>6 DEF IsPiece, piece
<1>8. piece = e
  <2>1. Len(piece) = Len(e) /\ \A i \in 1 .. Len(piece) : piece[i] = e[i]
    BY <1>3, <1>4, <1>7
  <2> QED
    BY <1>3, <1>7, <2>1, SameBytes
<1> QED
  BY <1>5, <1>8 DEF piece, last, at, e, w

(* Whatever is sent in whatever order, what fw_uart_write was handed lies    *)
(* whole on the wire until it is read, although nobody looks at what it      *)
(* accepted: the buffers of interactive_demo/main.c are large enough.        *)
THEOREM SentStaysWhole == NodeSpec => []SentWhole
<1>1. NodeInit => NodeInv
  BY NodeStart
<1>2. NodeInv /\ [NodeNext]_nodeVars => NodeInv'
  BY NodeStep
<1>3. NodeInv => SentWhole
  BY NodeWhole
<1> QED
  BY <1>1, <1>2, <1>3, PTL DEF NodeSpec

(* And as long as nothing passes for a frame that was not sent as one, only  *)
(* frames that were sent are handled (service_uart_rx_stream).               *)
THEOREM WireStaysWhole == NodeSpec /\ []OnlySentDecode => []WireWhole
<1>1. NodeInit => NodeInv /\ ~unsent
  BY NodeStart DEF NodeInit
<1>2. NodeInv /\ ~unsent /\ OnlySentDecode /\ [NodeNext]_nodeVars => (NodeInv /\ ~unsent)'
  BY NodeStep
<1>3. NodeInv /\ ~unsent => WireWhole
  BY NodeWhole DEF WireWhole
<1> QED
  BY <1>1, <1>2, <1>3, PTL DEF NodeSpec
-----------------------------------------------------------------------------
(* Division with remainder. *)
LEMMA Divided ==
  ASSUME NEW n \in Nat \ {0}, NEW a \in Nat
  PROVE  a \div n \in Nat /\ a % n \in Nat /\ a % n < n /\ a = (n * (a \div n)) + (a % n)
  BY SMT

LEMMA RemainderIs ==
  ASSUME NEW n \in Nat \ {0}, NEW a \in Nat, NEW q \in Nat, NEW r \in Nat, r < n,
         a = (n * q) + r
  PROVE  a % n = r /\ a \div n = q
<1> DEFINE p == a \div n
           s == a % n
<1>1. p \in Nat /\ s \in Nat /\ s < n /\ a = (n * p) + s
  BY Divided
<1> HIDE DEF p, s
<1>2. n * (p - q) = r - s
  BY <1>1
<1>3. p - q >= 1 => n * (p - q) >= n
  BY <1>1
<1>4. p - q <= -1 => n * (p - q) <= -n
  BY <1>1
<1>5. p = q
  BY <1>1, <1>2, <1>3, <1>4
<1>6. s = r
  BY <1>5, <1>1
<1> QED
  BY <1>5, <1>6 DEF s, p

(* A block is filled, or it is full. *)
LEMMA RemainderGrows ==
  ASSUME NEW n \in Nat \ {0}, NEW a \in Nat, NEW k \in Nat
  PROVE  /\ (a % n) + k < n => (a + k) % n = (a % n) + k
         /\ (a % n) + k = n => (a + k) % n = 0
<1> DEFINE q == a \div n
           r == a % n
<1>1. q \in Nat /\ r \in Nat /\ r < n /\ a = (n * q) + r
  BY Divided
<1> HIDE DEF q, r
<1>2. ASSUME r + k < n PROVE (a + k) % n = r + k
  <2>1. a + k = (n * q) + (r + k) /\ a + k \in Nat /\ r + k \in Nat
    BY <1>1
  <2> QED
    BY <1>1, <1>2, <2>1, RemainderIs
<1>3. ASSUME r + k = n PROVE (a + k) % n = 0
  <2>1. a + k = (n * (q + 1)) + 0 /\ a + k \in Nat /\ q + 1 \in Nat
    BY <1>1, <1>3
  <2> QED
    BY <1>1, <2>1, RemainderIs
<1> QED
  BY <1>2, <1>3 DEF r

(* Numbers of the same remainder are far apart. *)
LEMMA SameRemainder ==
  ASSUME NEW n \in Nat \ {0}, NEW a \in Nat, NEW b \in Nat, a % n = b % n, a < b
  PROVE  a + n <= b
<1> DEFINE q == a \div n
           p == b \div n
           r == a % n
<1>1. q \in Nat /\ r \in Nat /\ r < n /\ a = (n * q) + r
  BY Divided
<1>2. p \in Nat /\ b = (n * p) + r
  BY Divided
<1> HIDE DEF q, p, r
<1>3. n * (p - q) = b - a
  BY <1>1, <1>2
<1>4. p - q <= 0 => n * (p - q) <= 0
  BY <1>1, <1>2
<1>5. p - q >= 1 => n * (p - q) >= n
  BY <1>1, <1>2
<1> QED
  BY <1>1, <1>2, <1>3, <1>4, <1>5
-----------------------------------------------------------------------------
(* The standard's padding, place by place, once the number of zeros is known. *)
LEMMA PaddedIs ==
  ASSUME NEW n \in Nat, NEW z \in Nat, z < HashBlock, (n + 1 + z + LengthField) % HashBlock = 0
  PROVE  /\ Padded(n) \in Seq(Int) /\ Len(Padded(n)) = n + 1 + z + LengthField
         /\ \A i \in 1 .. n : Padded(n)[i] = i
         /\ Padded(n)[n + 1] = Marker
         /\ \A i \in 1 .. z : Padded(n)[n + 1 + i] = Zero
         /\ \A k \in 1 .. LengthField : Padded(n)[n + 1 + z + k] = LengthByte(k, n)
<1> USE StreamsAssumption
<1> DEFINE zeros == CHOOSE y \in 0 .. HashBlock - 1 : (n + 1 + y + LengthField) % HashBlock = 0
           a == [i \in 1 .. n |-> i]
           m == <<Marker>>
           o == [i \in 1 .. zeros |-> Zero]
           l == [k \in 1 .. LengthField |-> LengthByte(k, n)]
           am == a \o m
           amo == am \o o
<1>1. zeros = z
  <2>1. z \in 0 .. HashBlock - 1 /\ (n + 1 + z + LengthField) % HashBlock = 0
    OBVIOUS
  <2>2. zeros \in 0 .. HashBlock - 1 /\ (n + 1 + zeros + LengthField) % HashBlock = 0
    BY <2>1, Zenon
  <2> HIDE DEF zeros
  <2>3. ASSUME NEW x \in Nat, NEW y \in Nat, x < y, y < HashBlock,
               (n + 1 + x + LengthField) % HashBlock = 0,
               (n + 1 + y + LengthField) % HashBlock = 0
        PROVE  FALSE
    <3> DEFINE u == n + 1 + x + LengthField
               v == n + 1 + y + LengthField
    <3>1. u \in Nat /\ v \in Nat /\ u < v /\ u + HashBlock > v /\ HashBlock \in Nat \ {0}
      BY <2>3
    <3>2. u % HashBlock = v % HashBlock
      BY <2>3
    <3> HIDE DEF u, v
    <3>3. u + HashBlock <= v
      BY <3>1, <3>2, SameRemainder
    <3> QED
      BY <3>1, <3>3
  <2>4. zeros \in Nat /\ zeros < HashBlock
    BY <2>2
  <2> QED
    BY <2>2, <2>3, <2>4
<1>2. Padded(n) = amo \o l
  BY Zenon DEF Padded
<1> HIDE DEF zeros
<1>3. /\ a \in Seq(Int) /\ Len(a) = n /\ \A i \in 1 .. n : a[i] = i
      /\ m \in Seq(Int) /\ Len(m) = 1 /\ m[1] = Marker
  BY DEF Marker
<1>4. o \in Seq(Int) /\ Len(o) = z /\ \A i \in 1 .. z : o[i] = Zero
  BY <1>1 DEF Zero
<1>5. l \in Seq(Int) /\ Len(l) = LengthField /\ \A k \in 1 .. LengthField : l[k] = LengthByte(k, n)
  BY DEF LengthByte
<1> HIDE DEF a, m, o, l
<1>6. Joins(Int, am, a, m)
  BY <1>3, Joined, Zenon
<1>7. am \in Seq(Int)
  BY <1>6 DEF Joins
<1> HIDE DEF am
<1>8. Joins(Int, amo, am, o)
  BY <1>4, <1>7, Joined, Zenon
<1>9. amo \in Seq(Int)
  BY <1>8 DEF Joins
<1> HIDE DEF amo
<1>10. Joins(Int, Padded(n), amo, l)
  BY <1>2, <1>5, <1>9, Joined, Zenon
<1>11. Len(am) = n + 1 /\ Len(amo) = n + 1 + z /\ Len(Padded(n)) = n + 1 + z + LengthField
        /\ Padded(n) \in Seq(Int)
  BY <1>3, <1>4, <1>5, <1>6, <1>8, <1>10 DEF Joins
<1>12. ASSUME NEW i \in 1 .. n PROVE Padded(n)[i] = i
  <2>1. am[i] = a[i]
    BY <1>3, <1>6 DEF Joins
  <2>2. amo[i] = am[i]
    BY <1>8, <1>11 DEF Joins
  <2>3. Padded(n)[i] = amo[i]
    BY <1>10, <1>11 DEF Joins
  <2> QED
    BY <1>3, <2>1, <2>2, <2>3
<1>13. Padded(n)[n + 1] = Marker
  <2>1. am[n + 1] = m[1]
    BY <1>3, <1>6 DEF Joins
  <2>2. amo[n + 1] = am[n + 1]
    BY <1>8, <1>11 DEF Joins
  <2>3. Padded(n)[n + 1] = amo[n + 1]
    BY <1>10, <1>11 DEF Joins
  <2> QED
    BY <1>3, <2>1, <2>2, <2>3
<1>14. ASSUME NEW i \in 1 .. z PROVE Padded(n)[n + 1 + i] = Zero
  <2>1. amo[n + 1 + i] = o[i]
    BY <1>4, <1>8, <1>11 DEF Joins
  <2>2. Padded(n)[n + 1 + i] = amo[n + 1 + i]
    <3>1. n + 1 + i \in 1 .. Len(amo)
      BY <1>11
    <3> QED
      BY <1>10, <3>1 DEF Joins
  <2> QED
    BY <1>4, <2>1, <2>2
<1>15. ASSUME NEW k \in 1 .. LengthField PROVE Padded(n)[n + 1 + z + k] = LengthByte(k, n)
  BY <1>5, <1>10, <1>11 DEF Joins
<1> QED
  BY <1>11, <1>12, <1>13, <1>14, <1>15

(* What fw_sha256_update has absorbed is the message up to the last full     *)
(* block, and the buffer begins with the rest.                               *)
Rest == fed % HashBlock
HashInv ==
  /\ fed \in Nat /\ todo \in Nat /\ digested \in BOOLEAN
  /\ buffer \in [1 .. HashBlock -> Int]
  /\ ~digested =>
       /\ absorbed \in Seq(Int) /\ Len(absorbed) = fed - Rest
       /\ \A i \in 1 .. Len(absorbed) : absorbed[i] = i
       /\ \A i \in 1 .. Rest : buffer[i] = fed - Rest + i
  /\ digested => absorbed = Padded(fed) /\ todo = 0

LEMMA HashInitInv == HashInit => HashInv
<1> SUFFICES ASSUME HashInit PROVE HashInv
  OBVIOUS
<1>1. HashBlock \in Nat \ {0}
  BY StreamsAssumption
<1>2. 0 = (HashBlock * 0) + 0
  BY <1>1
<1>3. 0 % HashBlock = 0
  BY <1>1, <1>2, RemainderIs
<1>4. buffer \in [1 .. HashBlock -> Int]
  BY DEF HashInit, Old
<1>5. fed = 0 /\ todo = 0 /\ absorbed = <<>> /\ digested = FALSE
  BY DEF HashInit
<1>6. Rest = 0
  BY <1>3, <1>5 DEF Rest
<1>7. /\ absorbed \in Seq(Int) /\ Len(absorbed) = fed - Rest
      /\ \A i \in 1 .. Len(absorbed) : absorbed[i] = i
      /\ \A i \in 1 .. Rest : buffer[i] = fed - Rest + i
  BY <1>5, <1>6
<1> QED
  BY <1>4, <1>5, <1>7 DEF HashInv

LEMMA AbsorbKeeps ==
  ASSUME HashInv, Absorb
  PROVE  HashInv'
<1> USE StreamsAssumption
<1>0. ~digested
  BY DEF Absorb, HashInv
<1> DEFINE H == HashBlock
           c == fed % HashBlock
           n == IF HashBlock - c < todo THEN HashBlock - c ELSE todo
           filled == [i \in 1 .. HashBlock |->
                       IF i \in c + 1 .. c + n THEN fed + i - c ELSE buffer[i]]
<1>1. /\ todo > 0 /\ todo' = todo - n /\ fed' = fed + n /\ buffer' = filled
      /\ absorbed' = IF c + n = H THEN absorbed \o filled ELSE absorbed
      /\ digested' = FALSE
  <2>1. n = Least(HashBlock - c, todo)
    BY DEF Least
  <2> HIDE DEF n
  <2>2. digested' = digested
    BY DEF Absorb
  <2> QED
    BY <1>0, <2>1, <2>2 DEF Absorb, HashInv
<1>2. /\ fed \in Nat /\ todo \in Nat /\ buffer \in [1 .. H -> Int]
      /\ absorbed \in Seq(Int) /\ Len(absorbed) = fed - c
      /\ \A i \in 1 .. Len(absorbed) : absorbed[i] = i
      /\ \A i \in 1 .. c : buffer[i] = fed - c + i
  BY <1>0 DEF HashInv, Rest
<1>3. H \in Nat \ {0} /\ c \in Nat /\ c < H /\ c <= fed
  <2>1. H \in Nat \ {0}
    OBVIOUS
  <2>2. c \in Nat /\ c < H /\ fed \div H \in Nat /\ fed = (H * (fed \div H)) + c
    BY <1>2, <2>1, Divided
  <2> DEFINE q == fed \div H
  <2>3. H * q \in Nat
    BY <2>1, <2>2
  <2> HIDE DEF q, c, H
  <2> QED
    BY <1>2, <2>1, <2>2, <2>3 DEF q
<1>4. n \in Nat /\ n >= 1 /\ n <= todo /\ c + n <= H
  <2> HIDE DEF c, H
  <2> QED
    BY <1>1, <1>2, <1>3 DEF H
<1>5. /\ c + n < H => (fed + n) % HashBlock = c + n
      /\ c + n = H => (fed + n) % HashBlock = 0
  <2> HIDE DEF n
  <2> QED
    BY <1>2, <1>3, <1>4, RemainderGrows
<1>6. /\ filled \in [1 .. H -> Int]
      /\ \A i \in 1 .. c + n : filled[i] = fed - c + i
  <2> HIDE DEF n, c
  <2>1. \A i \in 1 .. H : fed + i - c \in Int /\ buffer[i] \in Int
    BY <1>2, <1>3
  <2>2. filled \in [1 .. H -> Int]
    BY <2>1
  <2>3. ASSUME NEW i \in 1 .. c + n PROVE filled[i] = fed - c + i
    <3>1. i \in 1 .. HashBlock /\ (i \in 1 .. c \/ i \in c + 1 .. c + n)
      BY <1>3, <1>4
    <3>2. filled[i] = IF i \in c + 1 .. c + n THEN fed + i - c ELSE buffer[i]
      BY <3>1
    <3> QED
      BY <1>2, <1>3, <3>1, <3>2
  <2> QED
    BY <2>2, <2>3
<1> HIDE DEF n, filled, c
<1>7. fed' \in Nat /\ todo' \in Nat
  BY <1>1, <1>2, <1>4
<1>8. CASE c + n < H
  <2>1. Rest' = c + n /\ fed' - Rest' = fed - c
    BY <1>1, <1>2, <1>3, <1>4, <1>5, <1>8 DEF Rest
  <2>2. absorbed' = absorbed
    BY <1>1, <1>3, <1>4, <1>8
  <2>3. \A i \in 1 .. Rest' : buffer'[i] = fed' - Rest' + i
    BY <1>1, <1>6, <2>1
  <2> QED
    BY <1>1, <1>2, <1>6, <1>7, <2>1, <2>2, <2>3 DEF HashInv
<1>9. CASE c + n = H
  <2>1. Rest' = 0 /\ fed' = fed - c + H
    BY <1>1, <1>2, <1>3, <1>4, <1>5, <1>9 DEF Rest
  <2>2. filled \in Seq(Int) /\ Len(filled) = H
    BY <1>3, <1>6
  <2>3. absorbed' = absorbed \o filled
    BY <1>1, <1>9
  <2>4. Joins(Int, absorbed', absorbed, filled)
    BY <1>2, <2>2, <2>3, Joined
  <2>5. absorbed' \in Seq(Int) /\ Len(absorbed') = fed' - Rest' /\ Len(absorbed') = fed - c + H
    BY <1>2, <1>3, <2>1, <2>2, <2>4 DEF Joins
  <2>6. ASSUME NEW i \in 1 .. Len(absorbed') PROVE absorbed'[i] = i
    <3>1. CASE i <= fed - c
      <4>1. i \in 1 .. Len(absorbed)
        BY <1>2, <1>3, <2>5, <3>1
      <4> QED
        BY <1>2, <2>4, <4>1 DEF Joins
    <3>2. CASE ~(i <= fed - c)
      <4> DEFINE k == i - (fed - c)
      <4>1. k \in 1 .. Len(filled) /\ k \in 1 .. c + n /\ i = Len(absorbed) + k /\ i = fed - c + k
        BY <1>2, <1>3, <1>9, <2>2, <2>5, <3>2, SMTT(30)
      <4> HIDE DEF k
      <4>2. absorbed'[Len(absorbed) + k] = filled[k]
        BY <2>4, <4>1 DEF Joins
      <4> QED
        BY <1>6, <4>1, <4>2
    <3> QED
      BY <3>1, <3>2
  <2>7. \A i \in 1 .. Rest' : buffer'[i] = fed' - Rest' + i
    BY <2>1
  <2> QED
    BY <1>1, <1>6, <1>7, <2>5, <2>6, <2>7 DEF HashInv
<1> QED
  BY <1>3, <1>4, <1>8, <1>9

(* What fw_sha256_final appends to the bytes of the last block.              *)
IsTail(pad, c, z) ==
  /\ pad \in Seq(Int) /\ Len(pad) = c + 1 + z + LengthField
  /\ \A i \in 1 .. c : pad[i] = buffer[i]
  /\ pad[c + 1] = Marker
  /\ \A i \in 1 .. z : pad[c + 1 + i] = Zero
  /\ \A k \in 1 .. LengthField : pad[c + 1 + z + k] = LengthByte(k, fed)

LEMMA FinalTail ==
  ASSUME HashInv, FinalHash
  PROVE  \E pad, z :
           /\ absorbed' = absorbed \o pad
           /\ z \in Nat /\ z < HashBlock /\ IsTail(pad, Rest, z)
           /\ Rest + 1 + z + LengthField \in {HashBlock, HashBlock + HashBlock}
<1> USE StreamsAssumption
<1> DEFINE H == HashBlock
           F == LengthField
           c == fed % HashBlock
           index == (fed % HashBlock) + 1
           marked == [buffer EXCEPT ![index] = Marker]
           ZeroFrom(block, from) == [i \in 1 .. HashBlock |-> IF i > from THEN Zero ELSE block[i]]
           Closed(block) ==
             [i \in 1 .. HashBlock |->
               IF i > HashBlock - LengthField
               THEN LengthByte(i - HashBlock + LengthField, fed) ELSE block[i]]
           first == ZeroFrom(marked, index)
           second == Closed(ZeroFrom(marked, 0))
           only == Closed(first)
<1>1. absorbed' = absorbed \o (IF Spills(index) THEN first \o second ELSE only)
  BY Zenon DEF FinalHash
<1>2. fed \in Nat /\ buffer \in [1 .. H -> Int]
  BY DEF HashInv
<1>3. H \in Nat \ {0} /\ c \in Nat /\ c < H /\ index = c + 1 /\ F \in Nat /\ F < H
  <2>1. H \in Nat \ {0}
    OBVIOUS
  <2> QED
    BY <1>2, <2>1, Divided
<1> HIDE DEF c, index
<1>4. /\ marked \in [1 .. H -> Int] /\ marked[c + 1] = Marker
      /\ \A i \in 1 .. c : marked[i] = buffer[i]
  BY <1>2, <1>3 DEF Marker
<1> HIDE DEF marked
<1>5. /\ first \in [1 .. H -> Int]
      /\ \A i \in 1 .. c + 1 : first[i] = marked[i]
      /\ \A i \in c + 2 .. H : first[i] = Zero
  BY <1>3, <1>4 DEF Zero
<1>6. \A k \in Int : LengthByte(k, fed) \in Int
  BY <1>2 DEF LengthByte
<1>7. /\ second \in [1 .. H -> Int]
      /\ \A i \in 1 .. H - F : second[i] = Zero
      /\ \A k \in 1 .. F : second[H - F + k] = LengthByte(k, fed)
  <2>1. second = [i \in 1 .. H |-> IF i > H - F THEN LengthByte(i - H + F, fed) ELSE Zero]
    <3>1. \A i \in 1 .. H : ZeroFrom(marked, 0)[i] = Zero
      BY <1>3
    <3> QED
      BY <3>1
  <2>2. \A k \in 1 .. F : H - F + k \in 1 .. H /\ H - F + k > H - F /\ (H - F + k) - H + F = k
    BY <1>3
  <2>3. \A i \in 1 .. H - F : i \in 1 .. H /\ ~(i > H - F)
    BY <1>3
  <2> HIDE DEF second, H, F
  <2>4. \A i \in 1 .. H : i - H + F \in Int
    BY <1>3
  <2>5. second \in [1 .. H -> Int]
    BY <1>6, <2>1, <2>4 DEF Zero
  <2>6. \A i \in 1 .. H - F : second[i] = Zero
    BY <2>1, <2>3
  <2>7. \A k \in 1 .. F : second[H - F + k] = LengthByte(k, fed)
    BY <2>1, <2>2
  <2> QED
    BY <2>5, <2>6, <2>7
<1>8. /\ only \in [1 .. H -> Int]
      /\ \A i \in 1 .. H - F : only[i] = first[i]
      /\ \A k \in 1 .. F : only[H - F + k] = LengthByte(k, fed)
  <2> HIDE DEF first
  <2>1. only = [i \in 1 .. H |-> IF i > H - F THEN LengthByte(i - H + F, fed) ELSE first[i]]
    OBVIOUS
  <2>2. \A k \in 1 .. F : H - F + k \in 1 .. H /\ H - F + k > H - F /\ (H - F + k) - H + F = k
    BY <1>3
  <2>3. \A i \in 1 .. H - F : i \in 1 .. H /\ ~(i > H - F)
    BY <1>3
  <2> HIDE DEF only, H, F
  <2>4. \A i \in 1 .. H : i - H + F \in Int
    BY <1>3
  <2>5. only \in [1 .. H -> Int]
    BY <1>5, <1>6, <2>1, <2>4
  <2>6. \A i \in 1 .. H - F : only[i] = first[i]
    BY <2>1, <2>3
  <2>7. \A k \in 1 .. F : only[H - F + k] = LengthByte(k, fed)
    BY <2>1, <2>2
  <2> QED
    BY <2>5, <2>6, <2>7
<1> HIDE DEF first, second, only, H, F
<1>9. CASE Spills(index)
  <2> DEFINE z == (H - c - 1) + (H - F)
             pad == first \o second
  <2>1. c + 1 > H - F
    BY <1>3, <1>9 DEF Spills, H, F
  <2>2. z \in Nat /\ z < H /\ c + 1 + z + F = H + H
    BY <1>3, <2>1
  <2>3. first \in Seq(Int) /\ Len(first) = H /\ second \in Seq(Int) /\ Len(second) = H
    BY <1>3, <1>5, <1>7
  <2>4. Joins(Int, pad, first, second)
    BY <2>3, Joined
  <2> HIDE DEF pad
  <2>5. pad \in Seq(Int) /\ Len(pad) = H + H
    BY <2>3, <2>4 DEF Joins
  <2>6. \A i \in 1 .. H : pad[i] = first[i]
    BY <2>3, <2>4 DEF Joins
  <2>7. \A i \in 1 .. H : pad[H + i] = second[i]
    BY <2>3, <2>4 DEF Joins
  <2>8. (\A i \in 1 .. c : pad[i] = buffer[i]) /\ pad[c + 1] = Marker
    BY <1>3, <1>4, <1>5, <2>6
  <2>9. ASSUME NEW i \in 1 .. z PROVE pad[c + 1 + i] = Zero
    <3>1. CASE c + 1 + i <= H
      <4>1. c + 1 + i \in c + 2 .. H /\ c + 1 + i \in 1 .. H
        BY <1>3, <2>2, <3>1
      <4> QED
        BY <1>5, <2>6, <4>1
    <3>2. CASE ~(c + 1 + i <= H)
      <4> DEFINE j == c + 1 + i - H
      <4>1. j \in 1 .. H - F /\ j \in 1 .. H /\ c + 1 + i = H + j
        BY <1>3, <2>2, <3>2
      <4> HIDE DEF j
      <4> QED
        BY <1>7, <2>7, <4>1
    <3> QED
      BY <3>1, <3>2
  <2>10. ASSUME NEW k \in 1 .. F PROVE pad[c + 1 + z + k] = LengthByte(k, fed)
    <3>1. H - F + k \in 1 .. H /\ c + 1 + z + k = H + (H - F + k)
      BY <1>3
    <3> QED
      BY <1>7, <2>7, <3>1
  <2>11. IsTail(pad, Rest, z)
    <3> HIDE DEF z
    <3>1. Rest = c
      BY DEF Rest, c
    <3> QED
      BY <2>2, <2>5, <2>8, <2>9, <2>10, <3>1 DEF IsTail, F
  <2>12. absorbed' = absorbed \o pad
    BY <1>1, <1>9 DEF pad
  <2> HIDE DEF z
  <2> QED
    BY <2>2, <2>11, <2>12 DEF Rest, c, H, F
<1>10. CASE ~Spills(index)
  <2> DEFINE z == H - F - c - 1
  <2>1. ~(c + 1 > H - F)
    BY <1>3, <1>10 DEF Spills, H, F
  <2>2. z \in Nat /\ z < H /\ c + 1 + z + F = H
    BY <1>3, <2>1
  <2>3. only \in Seq(Int) /\ Len(only) = H
    BY <1>3, <1>8
  <2>4. (\A i \in 1 .. c : only[i] = buffer[i]) /\ only[c + 1] = Marker
    BY <1>3, <1>4, <1>5, <1>8, <2>1
  <2>5. ASSUME NEW i \in 1 .. z PROVE only[c + 1 + i] = Zero
    <3>1. c + 1 + i \in c + 2 .. H /\ c + 1 + i \in 1 .. H - F
      BY <1>3, <2>2
    <3> QED
      BY <1>5, <1>8, <3>1
  <2>6. ASSUME NEW k \in 1 .. F PROVE only[c + 1 + z + k] = LengthByte(k, fed)
    <3>1. c + 1 + z + k = H - F + k
      BY <1>3
    <3> QED
      BY <1>8, <3>1
  <2>7. IsTail(only, Rest, z)
    <3> HIDE DEF z
    <3>1. Rest = c
      BY DEF Rest, c
    <3> QED
      BY <2>2, <2>3, <2>4, <2>5, <2>6, <3>1 DEF IsTail, F
  <2>8. absorbed' = absorbed \o only
    BY <1>1, <1>10
  <2> HIDE DEF z
  <2> QED
    BY <2>2, <2>7, <2>8 DEF Rest, c, H, F
<1> QED
  BY <1>9, <1>10

LEMMA FinalKeeps ==
  ASSUME HashInv, FinalHash
  PROVE  HashInv'
<1> USE StreamsAssumption
<1> DEFINE H == HashBlock
           F == LengthField
           c == Rest
           q == fed \div HashBlock
<1>1. PICK pad, z :
        /\ absorbed' = absorbed \o pad
        /\ z \in Nat /\ z < H /\ IsTail(pad, c, z)
        /\ c + 1 + z + F \in {H, H + H}
  BY FinalTail, Zenon
<1>2. /\ fed' = fed /\ todo' = todo /\ todo = 0 /\ digested' = TRUE /\ digested = FALSE
      /\ buffer' = SubSeq(absorbed', Len(absorbed') - H + 1, Len(absorbed'))
  BY DEF FinalHash, HashInv
<1>3. /\ fed \in Nat /\ todo \in Nat
      /\ absorbed \in Seq(Int) /\ Len(absorbed) = fed - c
      /\ \A i \in 1 .. Len(absorbed) : absorbed[i] = i
      /\ \A i \in 1 .. c : buffer[i] = fed - c + i
  BY <1>2 DEF HashInv
<1>4. H \in Nat \ {0} /\ F \in Nat /\ c \in Nat /\ c < H /\ q \in Nat /\ fed = (H * q) + c
  <2>1. H \in Nat \ {0} /\ F \in Nat
    OBVIOUS
  <2> QED
    BY <1>3, <2>1, Divided DEF Rest
<1> HIDE DEF H, F, c, q
<1>5. H * q \in Nat /\ c <= fed
  BY <1>3, <1>4
<1>6. (fed + 1 + z + F) % H = 0
  <2>1. CASE c + 1 + z + F = H
    <3> DEFINE p == q + 1
               l == fed + 1 + z + F
    <3>1. l = (H * p) + 0 /\ l \in Nat /\ p \in Nat
      BY <1>1, <1>3, <1>4, <2>1
    <3> HIDE DEF p, l
    <3>2. l % H = 0
      BY <1>4, <3>1, RemainderIs
    <3> QED
      BY <3>2 DEF l
  <2>2. CASE c + 1 + z + F = H + H
    <3> DEFINE p == q + 2
               l == fed + 1 + z + F
    <3>1. l = (H * p) + 0 /\ l \in Nat /\ p \in Nat
      BY <1>1, <1>3, <1>4, <2>2
    <3> HIDE DEF p, l
    <3>2. l % H = 0
      BY <1>4, <3>1, RemainderIs
    <3> QED
      BY <3>2 DEF l
  <2> QED
    BY <1>1, <2>1, <2>2
<1>7. /\ Padded(fed) \in Seq(Int) /\ Len(Padded(fed)) = fed + 1 + z + F
      /\ \A i \in 1 .. fed : Padded(fed)[i] = i
      /\ Padded(fed)[fed + 1] = Marker
      /\ \A i \in 1 .. z : Padded(fed)[fed + 1 + i] = Zero
      /\ \A k \in 1 .. F : Padded(fed)[fed + 1 + z + k] = LengthByte(k, fed)
  BY <1>1, <1>3, <1>6, PaddedIs DEF H, F
<1>8. /\ pad \in Seq(Int) /\ Len(pad) = c + 1 + z + F
      /\ \A i \in 1 .. c : pad[i] = buffer[i]
      /\ pad[c + 1] = Marker
      /\ \A i \in 1 .. z : pad[c + 1 + i] = Zero
      /\ \A k \in 1 .. F : pad[c + 1 + z + k] = LengthByte(k, fed)
  BY <1>1 DEF IsTail, F
<1>9. Joins(Int, absorbed', absorbed, pad)
  BY <1>1, <1>3, <1>8, Joined
<1>10. absorbed' \in Seq(Int) /\ Len(absorbed') = fed + 1 + z + F
  BY <1>1, <1>3, <1>4, <1>5, <1>8, <1>9 DEF Joins
<1>11. \A j \in 1 .. c + 1 + z + F : absorbed'[fed - c + j] = pad[j]
  BY <1>3, <1>8, <1>9 DEF Joins
<1>12. ASSUME NEW i \in 1 .. fed + 1 + z + F PROVE absorbed'[i] = Padded(fed)[i]
  <2>1. CASE i <= fed - c
    <3>1. i \in 1 .. Len(absorbed) /\ i \in 1 .. fed
      BY <1>3, <1>4, <1>5, <2>1
    <3>2. absorbed'[i] = absorbed[i]
      BY <1>9, <3>1 DEF Joins
    <3> QED
      BY <1>3, <1>7, <3>1, <3>2
  <2>2. CASE i > fed - c /\ i <= fed
    <3> DEFINE j == i - (fed - c)
    <3>1. j \in 1 .. c /\ j \in 1 .. c + 1 + z + F /\ i = fed - c + j /\ i \in 1 .. fed
      BY <1>1, <1>3, <1>4, <1>5, <2>2
    <3> HIDE DEF j
    <3> QED
      BY <1>3, <1>7, <1>8, <1>11, <3>1
  <2>3. CASE i = fed + 1
    <3>1. c + 1 \in 1 .. c + 1 + z + F /\ fed - c + (c + 1) = fed + 1
      BY <1>1, <1>3, <1>4
    <3> QED
      BY <1>7, <1>8, <1>11, <2>3, <3>1
  <2>4. CASE i > fed + 1 /\ i <= fed + 1 + z
    <3> DEFINE j == i - (fed + 1)
    <3>1. j \in 1 .. z /\ i = fed + 1 + j /\ c + 1 + j \in 1 .. c + 1 + z + F /\ fed - c + (c + 1 + j) = i
      BY <1>1, <1>3, <1>4, <2>4
    <3> HIDE DEF j
    <3> QED
      BY <1>7, <1>8, <1>11, <3>1
  <2>5. CASE i > fed + 1 + z
    <3> DEFINE k == i - (fed + 1 + z)
    <3>1. /\ k \in 1 .. F /\ i = fed + 1 + z + k
          /\ c + 1 + z + k \in 1 .. c + 1 + z + F /\ fed - c + (c + 1 + z + k) = i
      BY <1>1, <1>3, <1>4, <2>5
    <3> HIDE DEF k
    <3> QED
      BY <1>7, <1>8, <1>11, <3>1
  <2>6. \/ i <= fed - c
        \/ i > fed - c /\ i <= fed
        \/ i = fed + 1
        \/ i > fed + 1 /\ i <= fed + 1 + z
        \/ i > fed + 1 + z
    BY <1>1, <1>3, <1>4
  <2> QED
    BY <2>1, <2>2, <2>3, <2>4, <2>5, <2>6, Zenon
<1>13. absorbed' = Padded(fed)
  BY <1>7, <1>10, <1>12, SeqEqual
<1>14. buffer' \in [1 .. H -> Int]
  <2> DEFINE l == fed + 1 + z + F
  <2>1. l \in Nat /\ l >= H
    <3>1. c + 1 + z + F >= H
      BY <1>1, <1>4
    <3> QED
      BY <1>1, <1>3, <1>4, <1>5, <3>1
  <2>2. \A i \in l - H + 1 .. l : absorbed'[i] \in Int
    BY <1>10, <2>1, <1>4
  <2>3. buffer' = SubSeq(absorbed', l - H + 1, l)
    BY <1>2, <1>10 DEF H
  <2> HIDE DEF l
  <2>4. l - H + 1 \in Int /\ l \in Int /\ l - H + 1 <= l /\ l - (l - H + 1) + 1 = H
    BY <1>4, <2>1
  <2>5. buffer' \in Seq(Int) /\ Len(buffer') = H
    BY <2>2, <2>3, <2>4, SubSeqProperties
  <2> QED
    BY <2>5, LenProperties
<1> QED
  BY <1>2, <1>3, <1>13, <1>14 DEF HashInv, H, F

LEMMA HashNextInv ==
  ASSUME HashInv, [HashNext]_hashVars
  PROVE  HashInv'
<1>1. ASSUME NEW len \in 1 .. MessageLimit, UpdateHash(len) PROVE HashInv'
  <2>1. len \in Nat
    BY StreamsAssumption
  <2>2. /\ todo' = len /\ fed' = fed /\ buffer' = buffer /\ absorbed' = absorbed
        /\ digested' = digested /\ ~digested
    BY <1>1 DEF UpdateHash
  <2>3. Rest' = Rest
    BY <2>2 DEF Rest
  <2> QED
    BY <2>1, <2>2, <2>3 DEF HashInv
<1>2. CASE Absorb
  BY <1>2, AbsorbKeeps
<1>3. CASE FinalHash
  BY <1>3, FinalKeeps
<1>4. CASE RestartHash
  <2>1. fed' = 0 /\ absorbed' = <<>> /\ digested' = FALSE /\ buffer' = buffer /\ todo' = todo
    BY <1>4 DEF RestartHash
  <2>2. Rest' = 0
    <3>1. HashBlock \in Nat \ {0}
      BY StreamsAssumption
    <3>2. 0 = (HashBlock * 0) + 0
      BY <3>1
    <3>3. 0 % HashBlock = 0
      BY <3>1, <3>2, RemainderIs
    <3> QED
      BY <2>1, <3>3 DEF Rest
  <2>3. /\ absorbed' \in Seq(Int) /\ Len(absorbed') = fed' - Rest'
        /\ \A i \in 1 .. Len(absorbed') : absorbed'[i] = i
        /\ \A i \in 1 .. Rest' : buffer'[i] = fed' - Rest' + i
    BY <2>1, <2>2
  <2> QED
    BY <2>1, <2>3 DEF HashInv
<1>5. CASE UNCHANGED hashVars
  BY <1>5 DEF hashVars, HashInv, Rest
<1> QED
  BY <1>1, <1>2, <1>3, <1>4, <1>5 DEF HashNext
-----------------------------------------------------------------------------
LEMMA RemainderAdds ==
  ASSUME NEW n \in Nat \ {0}, NEW a \in Nat, NEW k \in Nat
  PROVE  ((a % n) + k) % n = (a + k) % n
<1> DEFINE q == a \div n
           r == a % n
           p == (r + k) \div n
           s == (r + k) % n
<1>1. q \in Nat /\ r \in Nat /\ a = (n * q) + r
  BY Divided
<1> HIDE DEF q, r
<1>2. p \in Nat /\ s \in Nat /\ s < n /\ r + k = (n * p) + s
  BY <1>1, Divided
<1> HIDE DEF p, s
<1> DEFINE t == q + p
           l == a + k
<1>3. l = (n * t) + s /\ t \in Nat /\ l \in Nat
  BY <1>1, <1>2
<1> HIDE DEF t, l
<1>4. l % n = s
  BY <1>2, <1>3, RemainderIs
<1> QED
  BY <1>4 DEF l, s, r

LEMMA CloseRemainders ==
  ASSUME NEW n \in Nat \ {0}, NEW a \in Nat, NEW b \in Nat, NEW c \in Nat,
         b < n, c < n, (a + b) % n = (a + c) % n
  PROVE  b = c
<1> DEFINE x == a + b
           y == a + c
<1>1. x \in Nat /\ y \in Nat /\ x % n = y % n /\ x < y + n /\ y < x + n
  OBVIOUS
<1> HIDE DEF x, y
<1>2. ~(x < y) /\ ~(y < x)
  <2>1. x < y => x + n <= y
    BY <1>1, SameRemainder
  <2>2. y < x => y + n <= x
    BY <1>1, SameRemainder
  <2> QED
    BY <1>1, <2>1, <2>2
<1>3. x = y
  BY <1>1, <1>2
<1> QED
  BY <1>3 DEF x, y

(* The blocks a call of fw_chacha20_crypt starts: no more than its bytes, and  *)
(* every byte is in one of them.                                             *)
Blocks(len) == (len + CipherBlock - 1) \div CipherBlock
LEMMA BlocksAre ==
  ASSUME NEW len \in Nat \ {0}
  PROVE  /\ Blocks(len) \in Nat /\ Blocks(len) <= len
         /\ \A i \in 1 .. len :
              /\ (i - 1) \div CipherBlock \in Nat /\ (i - 1) \div CipherBlock < Blocks(len)
              /\ (i - 1) % CipherBlock \in Nat
<1> DEFINE c == CipherBlock
           l == len + CipherBlock - 1
           b == l \div c
           r == l % c
<1>1. c \in Nat \ {0} /\ l \in Nat
  BY StreamsAssumption
<1>2. b \in Nat /\ r \in Nat /\ r < c /\ l = (c * b) + r
  BY <1>1, Divided
<1>3. Blocks(len) = b /\ l = len + c - 1
  BY DEF Blocks
<1> HIDE DEF c, l, b, r
<1>4. b <= len
  <2> SUFFICES ASSUME b > len PROVE FALSE
    BY <1>2
  <2>1. c * (b - len) >= b - len
    BY <1>1, <1>2
  <2>2. c * (b - len) = (c * b) - (c * len)
    BY <1>1, <1>2
  <2>3. c * (b - len) >= c
    BY <1>1, <1>2
  <2>4. c * len >= len
    BY <1>1
  <2> QED
    BY <1>1, <1>2, <1>3, <2>2, <2>3, <2>4
<1>5. ASSUME NEW i \in 1 .. len
      PROVE  (i - 1) \div c \in Nat /\ (i - 1) \div c < b /\ (i - 1) % c \in Nat
  <2> DEFINE a == i - 1
             d == a \div c
             s == a % c
  <2>1. a \in Nat /\ a < len
    OBVIOUS
  <2>2. d \in Nat /\ s \in Nat /\ a = (c * d) + s
    BY <1>1, <2>1, Divided
  <2> HIDE DEF a, d, s
  <2>3. d < b
    <3> SUFFICES ASSUME d >= b PROVE FALSE
      BY <1>2, <2>2
    <3>1. c * (d - b) = (c * d) - (c * b)
      BY <1>1, <1>2, <2>2
    <3>2. c * (d - b) >= 0
      BY <1>1, <1>2, <2>2
    <3>3. c * d \in Nat /\ c * b \in Nat
      BY <1>1, <1>2, <2>2
    <3> QED
      BY <1>1, <1>2, <1>3, <2>1, <2>2, <3>1, <3>2, <3>3
  <2> QED
    BY <2>2, <2>3 DEF a, d, s
<1> QED
  BY <1>2, <1>3, <1>4, <1>5 DEF c

(* The keystream used begins somewhere and goes on block by block, and no    *)
(* more blocks than bytes: the counter cannot have come round.               *)
FromBlock(start, used, pad) ==
  \E b \in Nat, k \in Nat : b < used /\ pad = <<(start + b) % CounterRange, k>>
CipherRuns(start, used) ==
  /\ counter = (start + used) % CounterRange
  /\ pads \in Seq(Nat \X Nat)
  /\ used <= Len(pads) /\ Len(pads) <= MessageLimit
  /\ \A i \in DOMAIN pads : FromBlock(start, used, pads[i])
  /\ \A i, j \in DOMAIN pads : pads[i] = pads[j] => i = j
CipherInv == \E start \in Nat, used \in Nat : CipherRuns(start, used)

LEMMA CipherStarts ==
  ASSUME NEW n \in 0 .. CounterRange - 1
  PROVE  n = (n + 0) % CounterRange /\ n \in Nat
<1>1. CounterRange \in Nat \ {0} /\ n \in Nat /\ n < CounterRange /\ n + 0 = n
  BY StreamsAssumption
<1>2. n = (CounterRange * 0) + n
  BY <1>1
<1> QED
  BY <1>1, <1>2, RemainderIs

LEMMA CipherInitInv == CipherInit => CipherInv
<1> SUFFICES ASSUME CipherInit PROVE CipherInv
  OBVIOUS
<1>1. counter = (counter + 0) % CounterRange /\ counter \in Nat
  BY CipherStarts DEF CipherInit
<1>2. pads = <<>> /\ MessageLimit \in Nat
  BY StreamsAssumption DEF CipherInit
<1>3. CipherRuns(counter, 0)
  BY <1>1, <1>2 DEF CipherRuns
<1> QED
  BY <1>1, <1>3 DEF CipherInv

LEMMA CryptKeeps ==
  ASSUME CipherInv, NEW len \in 1 .. MessageLimit, Len(pads) + len <= MessageLimit, Crypt(len)
  PROVE  CipherInv'
<1> DEFINE C == CounterRange
           B == Blocks(len)
           D(i) == (i - 1) \div CipherBlock
           K(i) == (i - 1) % CipherBlock
           more == [i \in 1 .. len |-> <<(counter + D(i)) % C, K(i)>>]
<1>1. PICK start \in Nat, used \in Nat : CipherRuns(start, used)
  BY DEF CipherInv
<1>2. /\ counter = (start + used) % C
      /\ pads \in Seq(Nat \X Nat) /\ Len(pads) \in Nat
      /\ used <= Len(pads) /\ Len(pads) <= MessageLimit
      /\ \A i \in DOMAIN pads : FromBlock(start, used, pads[i])
      /\ \A i, j \in DOMAIN pads : pads[i] = pads[j] => i = j
  BY <1>1 DEF CipherRuns
<1>3. len \in Nat \ {0} /\ MessageLimit \in Nat /\ C \in Nat \ {0} /\ MessageLimit <= C
       /\ CipherBlock \in Nat \ {0}
  BY StreamsAssumption
<1>4. /\ B \in Nat /\ B <= len
      /\ \A i \in 1 .. len : D(i) \in Nat /\ D(i) < B /\ K(i) \in Nat
  BY <1>3, BlocksAre
<1>5. counter' = (counter + B) % C /\ pads' = pads \o more
  BY DEF Crypt, Blocks
<1> HIDE DEF C, B
<1> DEFINE total == used + B
<1>6. total \in Nat /\ total <= C /\ total <= Len(pads) + len
  BY <1>2, <1>3, <1>4
<1>7. counter' = (start + total) % C
  <2> DEFINE a == start + used
  <2>1. a \in Nat /\ counter = a % C /\ start + total = a + B
    BY <1>2, <1>4
  <2> HIDE DEF a, total
  <2>2. ((a % C) + B) % C = (a + B) % C
    BY <1>3, <1>4, <2>1, RemainderAdds
  <2> QED
    BY <1>5, <2>1, <2>2
<1>8. ASSUME NEW i \in 1 .. len
      PROVE  /\ more[i] = <<(start + (used + D(i))) % C, K(i)>>
             /\ used + D(i) \in Nat /\ used + D(i) < total
             /\ more[i] \in Nat \X Nat
  <2> DEFINE a == start + used
             d == D(i)
             k == K(i)
             u == used + d
  <2>1. d \in Nat /\ d < B /\ k \in Nat
    BY <1>4
  <2>2. more[i] = <<(counter + d) % C, k>>
    OBVIOUS
  <2> HIDE DEF d, k
  <2>3. a \in Nat /\ counter = a % C /\ start + u = a + d /\ u \in Nat /\ u < total
    BY <1>2, <1>4, <2>1
  <2> HIDE DEF a
  <2>4. (counter + d) % C = (a + d) % C
    BY <1>3, <2>1, <2>3, RemainderAdds
  <2>5. (a + d) % C \in Nat
    BY <1>3, <2>1, <2>3, Divided
  <2> HIDE DEF u, more
  <2>6. more[i] = <<(start + u) % C, k>> /\ more[i] \in Nat \X Nat
    BY <2>1, <2>2, <2>3, <2>4, <2>5, SMTT(30)
  <2> QED
    BY <2>3, <2>6 DEF u, d, k
<1>9. more \in Seq(Nat \X Nat) /\ Len(more) = len
  <2>1. \A i \in 1 .. len : <<(counter + D(i)) % C, K(i)>> \in Nat \X Nat
    BY <1>8
  <2> QED
    BY <1>3, <2>1, IsASeq
<1> HIDE DEF more, D, K
<1>10. Joins(Nat \X Nat, pads', pads, more)
  BY <1>2, <1>5, <1>9, Joined
<1>11. /\ pads' \in Seq(Nat \X Nat) /\ Len(pads') = Len(pads) + len
       /\ DOMAIN pads' = 1 .. Len(pads) + len /\ DOMAIN pads = 1 .. Len(pads)
       /\ \A i \in 1 .. Len(pads) : pads'[i] = pads[i]
       /\ \A i \in 1 .. len : pads'[Len(pads) + i] = more[i]
  <2>1. /\ pads' \in Seq(Nat \X Nat) /\ Len(pads') = Len(pads) + len
        /\ \A i \in 1 .. Len(pads) : pads'[i] = pads[i]
        /\ \A i \in 1 .. len : pads'[Len(pads) + i] = more[i]
    BY <1>9, <1>10 DEF Joins
  <2>2. DOMAIN pads' = 1 .. Len(pads') /\ DOMAIN pads = 1 .. Len(pads)
    BY <1>2, <2>1
  <2> QED
    BY <2>1, <2>2
<1>12. ASSUME NEW i \in DOMAIN pads'
       PROVE  i \in 1 .. Len(pads) \/ \E k \in 1 .. len : i = Len(pads) + k
  <2>1. CASE i <= Len(pads)
    BY <1>2, <1>11, <2>1
  <2>2. CASE ~(i <= Len(pads))
    <3> DEFINE l == Len(pads)
    <3>1. i \in 1 .. l + len /\ l \in Nat /\ ~(i <= l)
      BY <1>2, <1>11, <2>2
    <3> HIDE DEF l
    <3>2. i - l \in 1 .. len /\ i = l + (i - l)
      BY <1>3, <3>1
    <3> QED
      BY <3>2 DEF l
  <2> QED
    BY <2>1, <2>2
<1> HIDE DEF total
<1>13. ASSUME NEW i \in DOMAIN pads' PROVE FromBlock(start, total, pads'[i])
  <2>1. CASE i \in 1 .. Len(pads)
    <3>1. PICK b \in Nat, k \in Nat : b < used /\ pads[i] = <<(start + b) % C, k>>
      BY <1>2, <1>11, <2>1 DEF FromBlock, C
    <3>2. b < total
      BY <1>4, <1>6, <3>1 DEF total
    <3> QED
      BY <1>11, <2>1, <3>1, <3>2 DEF FromBlock, C
  <2>2. ASSUME NEW k \in 1 .. len, i = Len(pads) + k PROVE FromBlock(start, total, pads'[i])
    <3>1. /\ pads'[i] = <<(start + (used + D(k))) % C, K(k)>>
          /\ used + D(k) \in Nat /\ used + D(k) < total /\ K(k) \in Nat
      BY <1>4, <1>8, <1>11, <2>2
    <3> QED
      BY <3>1 DEF FromBlock, C
  <2> QED
    BY <1>12, <2>1, <2>2
<1>14. ASSUME NEW i \in 1 .. Len(pads), NEW k \in 1 .. len PROVE pads[i] # more[k]
  <2>1. PICK b \in Nat, x \in Nat : b < used /\ pads[i] = <<(start + b) % C, x>>
    BY <1>2, <1>11 DEF FromBlock, C
  <2> DEFINE u == used + D(k)
  <2>2. more[k] = <<(start + u) % C, K(k)>> /\ u \in Nat /\ u < total
    BY <1>8
  <2>5. D(k) \in Nat
    BY <1>4
  <2>6. used <= u
    BY <2>5
  <2> HIDE DEF u
  <2>7. b < used
    BY <2>1
  <2>3. b < C /\ u < C /\ b # u
    BY <1>3, <1>6, <2>2, <2>6, <2>7, SMTT(30)
  <2> HIDE DEF u
  <2>4. (start + b) % C # (start + u) % C
    BY <1>3, <2>1, <2>2, <2>3, CloseRemainders
  <2> QED
    BY <2>1, <2>2, <2>4
<1>15. ASSUME NEW i \in 1 .. len, NEW j \in 1 .. len, more[i] = more[j] PROVE i = j
  <2> DEFINE u == used + D(i)
             v == used + D(j)
  <2>1. /\ (start + u) % C = (start + v) % C /\ K(i) = K(j)
        /\ u \in Nat /\ u < C /\ v \in Nat /\ v < C
    <3>1. more[i] = <<(start + u) % C, K(i)>> /\ u \in Nat /\ u < total
      BY <1>8
    <3>2. more[j] = <<(start + v) % C, K(j)>> /\ v \in Nat /\ v < total
      BY <1>8
    <3> HIDE DEF u, v
    <3> DEFINE a == (start + u) % C
               b == (start + v) % C
               k == K(i)
               m == K(j)
    <3>4. <<a, k>> = <<b, m>>
      BY <1>15, <3>1, <3>2
    <3> HIDE DEF a, b, k, m
    <3>5. a = b /\ k = m
      BY <3>4
    <3>3. (start + u) % C = (start + v) % C /\ K(i) = K(j)
      BY <3>5 DEF a, b, k, m
    <3> QED
      BY <1>3, <1>6, <3>1, <3>2, <3>3
  <2>2. D(i) \in Nat /\ D(j) \in Nat
    BY <1>4
  <2> HIDE DEF u, v
  <2>3. u = v
    BY <1>3, <2>1, CloseRemainders
  <2>4. D(i) = D(j)
    BY <2>2, <2>3 DEF u, v
  <2>5. /\ i - 1 \in Nat /\ j - 1 \in Nat
        /\ i - 1 = (CipherBlock * D(i)) + K(i) /\ j - 1 = (CipherBlock * D(j)) + K(j)
    <3>1. i - 1 \in Nat /\ j - 1 \in Nat
      BY <1>3
    <3> QED
      BY <1>3, <3>1, Divided DEF D, K
  <2>6. i - 1 = j - 1
    BY <2>1, <2>4, <2>5
  <2> QED
    BY <2>6
<1>16. ASSUME NEW i \in DOMAIN pads', NEW j \in DOMAIN pads', pads'[i] = pads'[j] PROVE i = j
  <2>1. ASSUME i \in 1 .. Len(pads), j \in 1 .. Len(pads) PROVE i = j
    BY <1>2, <1>11, <1>16, <2>1
  <2>2. ASSUME NEW k \in 1 .. len, i \in 1 .. Len(pads), j = Len(pads) + k PROVE FALSE
    BY <1>11, <1>14, <1>16, <2>2
  <2>3. ASSUME NEW k \in 1 .. len, j \in 1 .. Len(pads), i = Len(pads) + k PROVE FALSE
    BY <1>11, <1>14, <1>16, <2>3
  <2>4. ASSUME NEW k \in 1 .. len, NEW m \in 1 .. len, i = Len(pads) + k, j = Len(pads) + m
        PROVE  i = j
    <3>1. pads'[i] = more[k] /\ pads'[j] = more[m]
      BY <1>11, <2>4
    <3>2. k = m
      BY <1>15, <1>16, <3>1
    <3> QED
      BY <2>4, <3>2
  <2>5. i \in 1 .. Len(pads) \/ \E k \in 1 .. len : i = Len(pads) + k
    BY <1>12
  <2>6. j \in 1 .. Len(pads) \/ \E k \in 1 .. len : j = Len(pads) + k
    BY <1>12
  <2> QED
    BY <2>1, <2>2, <2>3, <2>4, <2>5, <2>6, Zenon
<1>17. CipherRuns(start, total)'
  <2>1. total <= Len(pads') /\ Len(pads') <= MessageLimit
    BY <1>6, <1>11
  <2> QED
    BY <1>7, <1>11, <1>13, <1>16, <2>1 DEF CipherRuns, C, FromBlock
<1> QED
  BY <1>6, <1>17 DEF CipherInv

LEMMA CipherNextInv ==
  ASSUME CipherInv, [CipherNext]_cipherVars
  PROVE  CipherInv'
<1>1. ASSUME NEW len \in 1 .. MessageLimit, Len(pads) + len <= MessageLimit, Crypt(len)
      PROVE  CipherInv'
  BY <1>1, CryptKeeps
<1>2. CASE RestartCipher
  <2>1. PICK start \in 0 .. CounterRange - 1 : counter' = start
    BY <1>2 DEF RestartCipher
  <2>2. start = (start + 0) % CounterRange /\ start \in Nat
    BY CipherStarts
  <2>3. MessageLimit \in Nat
    BY StreamsAssumption
  <2>4. CipherRuns(start, 0)'
    BY <1>2, <2>1, <2>2, <2>3 DEF RestartCipher, CipherRuns
  <2> QED
    BY <2>2, <2>4 DEF CipherInv
<1>3. CASE UNCHANGED cipherVars
  <2>1. PICK start \in Nat, used \in Nat : CipherRuns(start, used)
    BY DEF CipherInv
  <2>2. CipherRuns(start, used)'
    BY <1>3, <2>1 DEF cipherVars, CipherRuns, FromBlock
  <2> QED
    BY <2>2 DEF CipherInv
<1> QED
  BY <1>1, <1>2, <1>3 DEF CipherNext

(* Blocks are counted the same from any block's end.                         *)
LEMMA BlocksShift ==
  ASSUME NEW n \in Nat \ {0}, NEW q \in Nat, NEW a \in Nat
  PROVE  /\ (n * q) + a \in Nat
         /\ ((n * q) + a) \div n = q + (a \div n) /\ ((n * q) + a) % n = a % n
<1> DEFINE d == a \div n
           r == a % n
           l == (n * q) + a
           s == q + d
<1>1. d \in Nat /\ r \in Nat /\ r < n /\ a = (n * d) + r
  BY Divided
<1> HIDE DEF d, r
<1>2. l = (n * s) + r /\ l \in Nat /\ s \in Nat
  BY <1>1
<1> HIDE DEF l, s
<1>3. l % n = r /\ l \div n = s
  BY <1>1, <1>2, RemainderIs
<1> QED
  BY <1>2, <1>3 DEF l, s, d, r

(* As long as no call but the last ended inside a block, the bytes take the  *)
(* keystream as one call would.                                              *)
InOneCall(start) ==
  /\ counter = (start + Blocks(Len(pads))) % CounterRange
  /\ \A i \in 1 .. Len(pads) :
       pads[i] = <<(start + ((i - 1) \div CipherBlock)) % CounterRange, (i - 1) % CipherBlock>>
WholeInv ==
  /\ cut \in BOOLEAN
  /\ ~cut => \E start \in Nat : InOneCall(start)

LEMMA NoBlocks == Blocks(0) = 0
<1> DEFINE c == CipherBlock
           l == c - 1
<1>1. c \in Nat \ {0} /\ l \in Nat /\ l < c /\ l = (c * 0) + l
  BY StreamsAssumption
<1>2. 0 + c - 1 = l
  BY <1>1
<1> HIDE DEF c, l
<1>3. l \div c = 0
  BY <1>1, RemainderIs
<1> QED
  BY <1>2, <1>3 DEF Blocks, c

LEMMA WholeFrom ==
  ASSUME NEW n \in 0 .. CounterRange - 1
  PROVE  counter = n /\ pads = <<>> => InOneCall(n)
<1>1. n = (n + 0) % CounterRange
  BY CipherStarts
<1> QED
  BY <1>1, NoBlocks DEF InOneCall

LEMMA WholeInitInv == CipherInit => WholeInv
<1> SUFFICES ASSUME CipherInit PROVE WholeInv
  OBVIOUS
<1>1. counter \in 0 .. CounterRange - 1 /\ pads = <<>> /\ cut = FALSE
  BY DEF CipherInit
<1>2. InOneCall(counter) /\ counter \in Nat
  BY <1>1, CipherStarts, WholeFrom
<1> QED
  BY <1>1, <1>2 DEF WholeInv

LEMMA CryptWhole ==
  ASSUME CipherInv, WholeInv, NEW len \in 1 .. MessageLimit, Crypt(len)
  PROVE  WholeInv'
<1> DEFINE C == CounterRange
           c == CipherBlock
           n == Len(pads)
           q == n \div c
           D(k) == (k - 1) \div CipherBlock
           K(k) == (k - 1) % CipherBlock
           more == [k \in 1 .. len |-> <<(counter + D(k)) % C, K(k)>>]
<1>1. cut' = (cut \/ n % c # 0) /\ counter' = (counter + Blocks(len)) % C /\ pads' = pads \o more
  BY DEF Crypt, Blocks
<1>2. cut \in BOOLEAN /\ cut' \in BOOLEAN
  BY <1>1, Zenon DEF WholeInv
<1> SUFFICES ASSUME ~cut' PROVE \E start \in Nat : InOneCall(start)'
  BY <1>2 DEF WholeInv
<1>3. ~cut /\ n % c = 0
  BY <1>1, <1>2
<1>4. PICK start \in Nat : InOneCall(start)
  BY <1>3 DEF WholeInv
<1>5. /\ C \in Nat \ {0} /\ c \in Nat \ {0} /\ len \in Nat \ {0}
      /\ n \in Nat /\ pads \in Seq(Nat \X Nat)
  BY StreamsAssumption DEF CipherInv, CipherRuns
<1>6. q \in Nat /\ n = c * q
  BY <1>3, <1>5, Divided
<1>7. \A k \in 1 .. len : D(k) \in Nat /\ K(k) \in Nat
  BY <1>5, BlocksAre
<1>8. Blocks(n) = q /\ Blocks(n + len) = q + Blocks(len)
  <2>1. c - 1 \in Nat /\ len + c - 1 \in Nat
    BY <1>5
  <2>2. /\ ((c * q) + (c - 1)) \div c = q + ((c - 1) \div c)
        /\ ((c * q) + (len + c - 1)) \div c = q + ((len + c - 1) \div c)
    BY <1>5, <1>6, <2>1, BlocksShift
  <2>3. (c - 1) \div c = 0
    <3>1. 0 + c - 1 = c - 1
      BY <1>5
    <3> QED
      BY <3>1, NoBlocks DEF Blocks
  <2> HIDE DEF q
  <2>4. n + c - 1 = (c * q) + (c - 1) /\ (n + len) + c - 1 = (c * q) + (len + c - 1)
    BY <1>5, <1>6
  <2>5. q + 0 = q
    BY <1>6
  <2> QED
    BY <2>2, <2>3, <2>4, <2>5 DEF Blocks
<1> HIDE DEF q
<1>9. Blocks(len) \in Nat /\ counter = (start + q) % C /\ start + q \in Nat
  <2>1. Blocks(len) \in Nat
    BY <1>5, BlocksAre
  <2>2. counter = (start + q) % C
    BY <1>4, <1>8 DEF InOneCall
  <2>3. start + q \in Nat
    BY <1>6
  <2> QED
    BY <2>1, <2>2, <2>3
<1>10. counter' = (start + Blocks(n + len)) % C
  <2>1. start + Blocks(n + len) = (start + q) + Blocks(len)
    BY <1>6, <1>8, <1>9
  <2>2. (((start + q) % C) + Blocks(len)) % C = ((start + q) + Blocks(len)) % C
    BY <1>5, <1>9, RemainderAdds
  <2> QED
    BY <1>1, <1>9, <2>1, <2>2
<1>11. ASSUME NEW k \in 1 .. len
       PROVE  /\ more[k] = <<(start + ((n + k - 1) \div c)) % C, (n + k - 1) % c>>
              /\ more[k] \in Nat \X Nat
  <2>1. D(k) \in Nat /\ K(k) \in Nat /\ k - 1 \in Nat
    BY <1>5, <1>7
  <2>2. ((c * q) + (k - 1)) \div c = q + D(k) /\ ((c * q) + (k - 1)) % c = K(k)
    BY <1>5, <1>6, <2>1, BlocksShift
  <2>3. more[k] = <<(counter + D(k)) % C, K(k)>>
    OBVIOUS
  <2>4. n + k - 1 = (c * q) + (k - 1)
    BY <1>5, <1>6
  <2> HIDE DEF D, K, more
  <2>5. start + (q + D(k)) = (start + q) + D(k)
    BY <1>6, <2>1
  <2>6. (((start + q) % C) + D(k)) % C = ((start + q) + D(k)) % C
    BY <1>5, <1>9, <2>1, RemainderAdds
  <2>7. (counter + D(k)) % C = (start + (q + D(k))) % C
    BY <1>9, <2>5, <2>6
  <2>8. (start + (q + D(k))) % C \in Nat
    <3>1. start + (q + D(k)) \in Nat
      BY <1>6, <2>1
    <3> QED
      BY <1>5, <3>1, Divided
  <2> HIDE DEF C
  <2>9. more[k] = <<(start + (q + D(k))) % C, K(k)>>
    BY <2>3, <2>7
  <2>10. more[k] \in Nat \X Nat
    BY <2>1, <2>8, <2>9
  <2> QED
    BY <2>2, <2>4, <2>9, <2>10
<1>12. more \in Seq(Nat \X Nat) /\ Len(more) = len
  <2>1. \A k \in 1 .. len : <<(counter + D(k)) % C, K(k)>> \in Nat \X Nat
    BY <1>11
  <2> QED
    BY <1>5, <2>1, IsASeq
<1> HIDE DEF more, D, K
<1>13. Joins(Nat \X Nat, pads', pads, more)
  BY <1>1, <1>5, <1>12, Joined
<1>14. /\ Len(pads') = n + len
       /\ \A i \in 1 .. n : pads'[i] = pads[i]
       /\ \A k \in 1 .. len : pads'[n + k] = more[k]
  BY <1>12, <1>13 DEF Joins
<1>15. ASSUME NEW i \in 1 .. n + len
       PROVE  pads'[i] = <<(start + ((i - 1) \div c)) % C, (i - 1) % c>>
  <2>1. CASE i <= n
    <3>1. i \in 1 .. n
      BY <1>5, <2>1
    <3> QED
      BY <1>4, <1>14, <3>1 DEF InOneCall
  <2>2. CASE ~(i <= n)
    <3>1. i - n \in 1 .. len /\ n + (i - n) = i /\ n + (i - n) - 1 = i - 1
      BY <1>5, <2>2
    <3>2. pads'[n + (i - n)] = more[i - n]
      BY <1>14, <3>1
    <3>3. more[i - n] = <<(start + ((n + (i - n) - 1) \div c)) % C, (n + (i - n) - 1) % c>>
      BY <1>11, <3>1
    <3> QED
      BY <3>1, <3>2, <3>3
  <2> QED
    BY <2>1, <2>2
<1>16. InOneCall(start)'
  BY <1>10, <1>14, <1>15 DEF InOneCall, Blocks
<1> QED
  BY <1>16

LEMMA WholeNextInv ==
  ASSUME CipherInv, WholeInv, [CipherNext]_cipherVars
  PROVE  WholeInv'
<1>1. CASE \E len \in 1 .. MessageLimit : Len(pads) + len <= MessageLimit /\ Crypt(len)
  BY <1>1, CryptWhole
<1>2. CASE RestartCipher
  <2>1. PICK start \in 0 .. CounterRange - 1 : counter' = start /\ pads' = <<>> /\ cut' = FALSE
    BY <1>2 DEF RestartCipher
  <2>2. start \in Nat /\ start = (start + 0) % CounterRange
    BY CipherStarts
  <2>3. InOneCall(start)'
    <3>1. Len(pads') = 0
      BY <2>1
    <3>2. Blocks(Len(pads')) = 0
      BY <3>1, NoBlocks
    <3> QED
      BY <2>1, <2>2, <3>1, <3>2 DEF InOneCall, Blocks
  <2> QED
    BY <2>1, <2>2, <2>3 DEF WholeInv
<1>3. CASE UNCHANGED cipherVars
  BY <1>3 DEF cipherVars, WholeInv, InOneCall
<1> QED
  BY <1>1, <1>2, <1>3 DEF CipherNext

LEMMA WholeIsOneCall ==
  ASSUME CipherInv, WholeInv, ~cut
  PROVE  CipheredAsWhole
<1> DEFINE C == CounterRange
           c == CipherBlock
           n == Len(pads)
<1>1. PICK start \in Nat : InOneCall(start)
  BY DEF WholeInv
<1>2. C \in Nat \ {0} /\ c \in Nat \ {0} /\ n \in Nat /\ DOMAIN pads = 1 .. n
  BY StreamsAssumption DEF CipherInv, CipherRuns
<1> SUFFICES ASSUME NEW i \in 1 .. n
             PROVE  pads[i] = <<(pads[1][1] + ((i - 1) \div c)) % C, (i - 1) % c>>
  BY <1>2, Zenon DEF CipheredAsWhole
<1>3. \A j \in 1 .. n : pads[j] = <<(start + ((j - 1) \div c)) % C, (j - 1) % c>>
  BY <1>1 DEF InOneCall
<1>4. pads[1][1] = start % C
  <2>1. 1 \in 1 .. n
    BY <1>2
  <2>2. 0 = (c * 0) + 0 /\ 0 < c
    BY <1>2
  <2>3. 0 \div c = 0
    BY <1>2, <2>2, RemainderIs
  <2>4. pads[1] = <<(start + ((1 - 1) \div c)) % C, (1 - 1) % c>>
    BY <1>3, <2>1
  <2>5. pads[1][1] = (start + ((1 - 1) \div c)) % C
    BY <2>4
  <2>6. 1 - 1 = 0 /\ start + 0 = start
    OBVIOUS
  <2> QED
    BY <2>3, <2>5, <2>6
<1>5. (i - 1) \div c \in Nat
  <2>1. i - 1 \in Nat
    BY <1>2
  <2> QED
    BY <1>2, <2>1, Divided
<1> DEFINE d == (i - 1) \div c
<1> HIDE DEF d
<1>6. ((start % C) + d) % C = (start + d) % C
  BY <1>2, <1>5, RemainderAdds DEF d
<1> QED
  BY <1>3, <1>4, <1>6 DEF d
-----------------------------------------------------------------------------
(* The check of an image has taken in what lies behind its reading position. *)
ImageInv ==
  /\ flawed \in Nat
  /\ verdict \in {"none", "running", "read error", "FW_OK", "FW_ERR_CORRUPTED"}
  /\ verdict = "running" =>
       /\ remaining \in Nat /\ currAddr \in Nat /\ currAddr >= 1
       /\ currAddr - 1 + remaining = image
       /\ seen \in BOOLEAN /\ (seen <=> flawed \in 1 .. currAddr - 1)
  /\ verdict = "FW_OK" => flawed \notin 1 .. image
  /\ verdict = "FW_ERR_CORRUPTED" => flawed \in 1 .. image

LEMMA ImageNextInv ==
  ASSUME ImageInv, [ImageNext]_imageVars
  PROVE  ImageInv'
<1>1. ASSUME NEW size \in 1 .. ImageLimit, VerifyImage(size) PROVE ImageInv'
  <2>1. size \in Nat
    BY StreamsAssumption
  <2>2. /\ image' = size /\ remaining' = size /\ currAddr' = 1
        /\ seen' = FALSE /\ verdict' = "running" /\ flawed' = flawed
    BY <1>1, Zenon DEF VerifyImage
  <2>3. flawed \in Nat
    BY DEF ImageInv
  <2>4. ~(flawed \in 1 .. 1 - 1)
    BY <2>3
  <2>5. seen' \in BOOLEAN /\ (seen' <=> flawed' \in 1 .. currAddr' - 1)
    BY <2>2, <2>4, Zenon
  <2>6. remaining' \in Nat /\ currAddr' \in Nat /\ currAddr' >= 1
         /\ currAddr' - 1 + remaining' = image'
    BY <2>1, <2>2
  <2>7. flawed' \in Nat
    BY <2>2, <2>3
  <2> QED
    BY <2>2, <2>5, <2>6, <2>7 DEF ImageInv
<1>2. CASE ReadChunk
  <2> DEFINE n == Least(ImageChunk, remaining)
  <2>1. /\ remaining \in Nat /\ remaining > 0 /\ currAddr \in Nat /\ currAddr >= 1
        /\ currAddr - 1 + remaining = image
        /\ verdict = "running" /\ flawed \in Nat /\ flawed' = flawed /\ image' = image
    BY <1>2 DEF ReadChunk, ImageInv
  <2>2. n \in Nat /\ n <= remaining
    BY <2>1, StreamsAssumption DEF Least
  <2>5. seen \in BOOLEAN /\ (seen <=> flawed \in 1 .. currAddr - 1)
    BY <2>1, Zenon DEF ImageInv
  <2>3. CASE verdict' = "read error"
    BY <2>1, <2>3 DEF ImageInv
  <2>4. CASE /\ seen' = (seen \/ flawed \in currAddr .. currAddr + n - 1)
             /\ currAddr' = currAddr + n /\ remaining' = remaining - n
             /\ verdict' = verdict
    <3> HIDE DEF n
    <3>1. (flawed \in 1 .. currAddr - 1 \/ flawed \in currAddr .. currAddr + n - 1)
            <=> flawed \in 1 .. currAddr + n - 1
      BY <2>1, <2>2
    <3>2. seen' \in BOOLEAN /\ (seen' <=> flawed \in 1 .. currAddr + n - 1)
      BY <2>4, <2>5, <3>1, Zenon
    <3>3. remaining' \in Nat /\ currAddr' \in Nat /\ currAddr' >= 1 /\ currAddr' - 1 + remaining' = image'
      BY <2>1, <2>2, <2>4
    <3>4. currAddr' - 1 = currAddr + n - 1
      BY <2>1, <2>2, <2>4
    <3>5. verdict' = "running" /\ flawed' = flawed
      BY <2>1, <2>4
    <3>6. seen' <=> flawed' \in 1 .. currAddr' - 1
      BY <3>2, <3>4, <3>5
    <3> QED
      BY <2>1, <3>2, <3>3, <3>5, <3>6 DEF ImageInv
  <2> QED
    BY <1>2, <2>3, <2>4, Zenon DEF ReadChunk
<1>3. CASE CompareCrc
  <2>1. /\ remaining = 0 /\ currAddr \in Nat /\ currAddr - 1 + remaining = image
        /\ (seen <=> flawed \in 1 .. currAddr - 1)
        /\ flawed \in Nat /\ flawed' = flawed /\ image' = image
    BY <1>3 DEF CompareCrc, ImageInv
  <2>2. verdict' = IF seen THEN "FW_ERR_CORRUPTED" ELSE "FW_OK"
    BY <1>3, Zenon DEF CompareCrc
  <2>3. currAddr - 1 = image
    BY <2>1
  <2>4. seen <=> flawed' \in 1 .. image'
    BY <2>1, <2>3
  <2>5. CASE seen
    <3>1. verdict' = "FW_ERR_CORRUPTED"
      BY <2>2, <2>5
    <3> QED
      BY <2>1, <2>4, <2>5, <3>1 DEF ImageInv
  <2>6. CASE ~seen
    <3>1. verdict' = "FW_OK"
      BY <2>2, <2>6
    <3> QED
      BY <2>1, <2>4, <2>6, <3>1 DEF ImageInv
  <2> QED
    BY <2>5, <2>6
<1>4. CASE UNCHANGED imageVars
  BY <1>4 DEF imageVars, ImageInv
<1> QED
  BY <1>1, <1>2, <1>3, <1>4 DEF ImageNext

(* Whatever pieces data comes in: the hash is of the standard's padding, no  *)
(* byte of keystream is used twice, calls that end where blocks end cipher   *)
(* as one call would, and an image is judged by its own bytes.               *)
(* sha256.c, chacha20.c, fw_ota_verify_image.                                *)
THEOREM StreamsAreRight == StreamsSpec => []StreamsRight
<1>1. HashInit => HashInv
  BY HashInitInv
<1>2. HashInv /\ [HashNext]_hashVars => HashInv'
  BY HashNextInv
<1>3. CipherInit => CipherInv
  BY CipherInitInv
<1>4. CipherInv /\ [CipherNext]_cipherVars => CipherInv'
  BY CipherNextInv
<1>8. CipherInit => WholeInv
  BY WholeInitInv
<1>9. CipherInv /\ WholeInv /\ [CipherNext]_cipherVars => WholeInv'
  BY WholeNextInv
<1>5. ImageInit => ImageInv
  BY StreamsAssumption DEF ImageInit, ImageInv
<1>6. ImageInv /\ [ImageNext]_imageVars => ImageInv'
  BY ImageNextInv
<1>7. HashInv /\ CipherInv /\ WholeInv /\ ImageInv => StreamsRight
  <2> SUFFICES ASSUME HashInv, CipherInv, WholeInv, ImageInv PROVE StreamsRight
    OBVIOUS
  <2>1. digested => absorbed = Padded(fed)
    BY DEF HashInv
  <2>2. \A i, j \in DOMAIN pads : pads[i] = pads[j] => i = j
    BY DEF CipherInv, CipherRuns
  <2>3. /\ verdict = "FW_OK" => flawed \notin 1 .. image
        /\ verdict = "FW_ERR_CORRUPTED" => flawed \in 1 .. image
    BY DEF ImageInv
  <2>4. ~cut => CipheredAsWhole
    BY WholeIsOneCall
  <2> QED
    BY <2>1, <2>2, <2>3, <2>4, Zenon DEF StreamsRight
<1> QED
  BY <1>1, <1>2, <1>3, <1>4, <1>5, <1>6, <1>7, <1>8, <1>9, PTL DEF StreamsSpec
-----------------------------------------------------------------------------
(* A word of sixteen bits, from its highest bit down: half[k] is the word    *)
(* without its lowest k bits.                                                *)
Bits == [0 .. 15 -> 0 .. 1]
Halves(x, c, half) ==
  /\ half \in [0 .. 16 -> Nat] /\ half[0] = x /\ half[16] = 0
  /\ \A k \in 0 .. 15 : half[k] = 2 * half[k + 1] + c[k]
IsWord(x, c) == c \in Bits /\ \E half : Halves(x, c, half)
Plus(p, q) == IF p = q THEN 0 ELSE 1
OwnRow(x) == [k \in 0 .. 15 |-> Bit(x, k)]

(* The powers of two from 2^16 down. *)
IsPowers(P) ==
  /\ P \in [0 .. 16 -> Nat] /\ P[16] = 1 /\ P[11] = 32 /\ P[4] = 4096 /\ P[1] = 32768 /\ P[0] = 65536
  /\ \A k \in 0 .. 15 : P[k] = 2 * P[k + 1]

LEMMA PowersAre == \E P : IsPowers(P)
<1> DEFINE T == <<65536, 32768, 16384, 8192, 4096, 2048, 1024, 512, 256, 128, 64, 32, 16, 8, 4, 2, 1>>
           P == [k \in 0 .. 16 |-> T[k + 1]]
<1>1. /\ P[0] = 65536 /\ P[1] = 32768 /\ P[2] = 16384 /\ P[3] = 8192 /\ P[4] = 4096
      /\ P[5] = 2048 /\ P[6] = 1024 /\ P[7] = 512 /\ P[8] = 256 /\ P[9] = 128 /\ P[10] = 64
      /\ P[11] = 32 /\ P[12] = 16 /\ P[13] = 8 /\ P[14] = 4 /\ P[15] = 2 /\ P[16] = 1
  OBVIOUS
<1>2. P = [k \in 0 .. 16 |-> P[k]]
  OBVIOUS
<1> HIDE DEF P
<1>3. \A k \in 0 .. 15 : P[k] = 2 * P[k + 1]
  BY <1>1
<1>4. \A k \in 0 .. 16 : P[k] \in Nat
  BY <1>1
<1>5. P \in [0 .. 16 -> Nat]
  BY <1>2, <1>4
<1> QED
  BY <1>1, <1>3, <1>5 DEF IsPowers

(* What holds of the highest bit and goes down, or of the lowest and goes up. *)
LEMMA DownTheBits ==
  ASSUME NEW n \in Nat, NEW S \in SUBSET (0 .. n), n \in S,
         \A k \in 0 .. n - 1 : k + 1 \in S => k \in S
  PROVE  \A k \in 0 .. n : k \in S
<1> DEFINE Bad == {j \in 0 .. n : n - j \notin S}
<1> SUFFICES Bad = {}
  <2> SUFFICES ASSUME Bad = {}, NEW k \in 0 .. n PROVE k \in S
    OBVIOUS
  <2>1. n - k \in 0 .. n /\ n - (n - k) = k
    OBVIOUS
  <2> QED
    BY <2>1
<1> SUFFICES ASSUME Bad # {} PROVE FALSE
  OBVIOUS
<1>1. Bad \in SUBSET Nat
  OBVIOUS
<1>2. PICK j \in Bad : \A i \in Bad : j <= i
  <2> HIDE DEF Bad
  <2> QED
    BY <1>1, LeastOf, Zenon
<1>3. j \in 0 .. n /\ n - j \notin S
  BY <1>2
<1>4. j # 0
  BY <1>3
<1>5. j - 1 \in 0 .. n /\ j - 1 \notin Bad
  BY <1>2, <1>3, <1>4
<1>6. n - (j - 1) \in S
  BY <1>5
<1>7. n - j \in 0 .. n - 1 /\ n - (j - 1) = (n - j) + 1
  BY <1>3, <1>4
<1>8. (n - j) + 1 \in S
  BY <1>6, <1>7
<1> QED
  BY <1>3, <1>7, <1>8

LEMMA UpTheBits ==
  ASSUME NEW n \in Nat, NEW S \in SUBSET (0 .. n), 0 \in S,
         \A k \in 0 .. n - 1 : k \in S => k + 1 \in S
  PROVE  \A k \in 0 .. n : k \in S
<1> DEFINE Bad == {j \in 0 .. n : j \notin S}
<1> SUFFICES ASSUME Bad # {} PROVE FALSE
  OBVIOUS
<1>1. Bad \in SUBSET Nat
  OBVIOUS
<1>2. PICK j \in Bad : \A i \in Bad : j <= i
  <2> HIDE DEF Bad
  <2> QED
    BY <1>1, LeastOf, Zenon
<1>3. j \in 0 .. n /\ j \notin S /\ j # 0
  BY <1>2
<1>4. j - 1 \in 0 .. n - 1 /\ j - 1 \notin Bad /\ (j - 1) + 1 = j
  BY <1>2, <1>3
<1>5. j - 1 \in S
  BY <1>4
<1> QED
  BY <1>3, <1>4, <1>5

(* The bits of a number below 2^16 make it up. *)
LEMMA OwnBits ==
  ASSUME NEW x \in Nat, x < 65536
  PROVE  IsWord(x, OwnRow(x))
<1> DEFINE T == <<x, x \div 2, x \div 4, x \div 8, x \div 16, x \div 32, x \div 64, x \div 128, x \div 256, x \div 512, x \div 1024, x \div 2048, x \div 4096, x \div 8192, x \div 16384, x \div 32768, x \div 65536>>
           half == [k \in 0 .. 16 |-> T[k + 1]]
<1>1. /\ half[0] = x /\ half[1] = x \div 2 /\ half[2] = x \div 4 /\ half[3] = x \div 8
      /\ half[4] = x \div 16 /\ half[5] = x \div 32 /\ half[6] = x \div 64 /\ half[7] = x \div 128
      /\ half[8] = x \div 256 /\ half[9] = x \div 512 /\ half[10] = x \div 1024 /\ half[11] = x \div 2048
      /\ half[12] = x \div 4096 /\ half[13] = x \div 8192 /\ half[14] = x \div 16384 /\ half[15] = x \div 32768
      /\ half[16] = x \div 65536
  OBVIOUS
<1>2. half = [k \in 0 .. 16 |-> half[k]]
  OBVIOUS
<1> HIDE DEF half
<1>3. /\ half[0] = 2 * half[1] + Bit(x, 0) /\ Bit(x, 0) \in 0 .. 1
      /\ half[1] = 2 * half[2] + Bit(x, 1) /\ Bit(x, 1) \in 0 .. 1
      /\ half[2] = 2 * half[3] + Bit(x, 2) /\ Bit(x, 2) \in 0 .. 1
      /\ half[3] = 2 * half[4] + Bit(x, 3) /\ Bit(x, 3) \in 0 .. 1
  BY <1>1 DEF Bit
<1>4. /\ half[4] = 2 * half[5] + Bit(x, 4) /\ Bit(x, 4) \in 0 .. 1
      /\ half[5] = 2 * half[6] + Bit(x, 5) /\ Bit(x, 5) \in 0 .. 1
      /\ half[6] = 2 * half[7] + Bit(x, 6) /\ Bit(x, 6) \in 0 .. 1
      /\ half[7] = 2 * half[8] + Bit(x, 7) /\ Bit(x, 7) \in 0 .. 1
  BY <1>1 DEF Bit
<1>5. /\ half[8] = 2 * half[9] + Bit(x, 8) /\ Bit(x, 8) \in 0 .. 1
      /\ half[9] = 2 * half[10] + Bit(x, 9) /\ Bit(x, 9) \in 0 .. 1
      /\ half[10] = 2 * half[11] + Bit(x, 10) /\ Bit(x, 10) \in 0 .. 1
      /\ half[11] = 2 * half[12] + Bit(x, 11) /\ Bit(x, 11) \in 0 .. 1
  BY <1>1 DEF Bit
<1>6. /\ half[12] = 2 * half[13] + Bit(x, 12) /\ Bit(x, 12) \in 0 .. 1
      /\ half[13] = 2 * half[14] + Bit(x, 13) /\ Bit(x, 13) \in 0 .. 1
      /\ half[14] = 2 * half[15] + Bit(x, 14) /\ Bit(x, 14) \in 0 .. 1
      /\ half[15] = 2 * half[16] + Bit(x, 15) /\ Bit(x, 15) \in 0 .. 1
  BY <1>1 DEF Bit
<1>7. \A k \in 0 .. 15 : half[k] = 2 * half[k + 1] + Bit(x, k) /\ Bit(x, k) \in 0 .. 1
  <2> SUFFICES ASSUME NEW k \in 0 .. 15
               PROVE  half[k] = 2 * half[k + 1] + Bit(x, k) /\ Bit(x, k) \in 0 .. 1
    OBVIOUS
  <2> QED
    BY <1>3, <1>4, <1>5, <1>6
<1>8. half[16] = 0 /\ half[0] = x
  BY <1>1
<1>9. \A k \in 0 .. 16 : half[k] \in Nat
  BY <1>1
<1>10. Halves(x, OwnRow(x), half)
  BY <1>2, <1>7, <1>8, <1>9 DEF Halves, OwnRow
<1>11. OwnRow(x) \in Bits
  BY <1>7 DEF Bits, OwnRow
<1> HIDE DEF T
<1>12. \E h : Halves(x, OwnRow(x), h)
  BY <1>10
<1> QED
  BY <1>11, <1>12 DEF IsWord

(* Two rows of bits of one word are the same row. *)
LEMMA SameBits ==
  ASSUME NEW x, NEW c, NEW d, IsWord(x, c), IsWord(x, d)
  PROVE  c = d
<1>1. PICK v : Halves(x, c, v)
  BY DEF IsWord
<1>2. PICK w : Halves(x, d, w)
  BY DEF IsWord
<1>3. /\ v \in [0 .. 16 -> Nat] /\ v[0] = x /\ \A k \in 0 .. 15 : v[k] = 2 * v[k + 1] + c[k]
      /\ w \in [0 .. 16 -> Nat] /\ w[0] = x /\ \A k \in 0 .. 15 : w[k] = 2 * w[k + 1] + d[k]
  BY <1>1, <1>2 DEF Halves
<1>4. c \in Bits /\ d \in Bits
  BY DEF IsWord
<1>5. \A k \in 0 .. 15 : v[k] = w[k] => c[k] = d[k] /\ v[k + 1] = w[k + 1]
  <2> SUFFICES ASSUME NEW k \in 0 .. 15, v[k] = w[k]
               PROVE  c[k] = d[k] /\ v[k + 1] = w[k + 1]
    OBVIOUS
  <2>1. v[k + 1] \in Nat /\ w[k + 1] \in Nat /\ c[k] \in 0 .. 1 /\ d[k] \in 0 .. 1
    BY <1>3, <1>4 DEF Bits
  <2>2. 2 * v[k + 1] + c[k] = 2 * w[k + 1] + d[k]
    BY <1>3
  <2> QED
    BY <2>1, <2>2
<1> DEFINE S == {k \in 0 .. 16 : v[k] = w[k]}
<1>6. \A k \in 0 .. 16 : k \in S
  <2>1. 0 \in S /\ S \in SUBSET (0 .. 16) /\ 16 - 1 = 15
    BY <1>3
  <2>2. \A k \in 0 .. 15 : k \in S => k + 1 \in S
    BY <1>5
  <2> HIDE DEF S
  <2> QED
    BY <2>1, <2>2, UpTheBits
<1>7. \A k \in 0 .. 15 : c[k] = d[k]
  BY <1>5, <1>6
<1> QED
  BY <1>4, <1>7 DEF Bits

(* A row of bits is one word. *)
LEMMA SameWord ==
  ASSUME NEW x, NEW y, NEW c, IsWord(x, c), IsWord(y, c)
  PROVE  x = y
<1>1. PICK v : Halves(x, c, v)
  BY DEF IsWord
<1>2. PICK w : Halves(y, c, w)
  BY DEF IsWord
<1>3. /\ v[0] = x /\ v[16] = 0 /\ \A k \in 0 .. 15 : v[k] = 2 * v[k + 1] + c[k]
      /\ w[0] = y /\ w[16] = 0 /\ \A k \in 0 .. 15 : w[k] = 2 * w[k + 1] + c[k]
  BY <1>1, <1>2 DEF Halves
<1> DEFINE S == {k \in 0 .. 16 : v[k] = w[k]}
<1>4. \A k \in 0 .. 16 : k \in S
  <2>1. 16 \in S /\ S \in SUBSET (0 .. 16) /\ 16 - 1 = 15
    BY <1>3
  <2>2. \A k \in 0 .. 15 : k + 1 \in S => k \in S
    BY <1>3
  <2> HIDE DEF S
  <2> QED
    BY <2>1, <2>2, DownTheBits
<1>5. v[0] = w[0]
  BY <1>4
<1> QED
  BY <1>3, <1>5

(* Every row of bits is a word. *)
LEMMA EveryRow ==
  ASSUME NEW c \in Bits
  PROVE  \E x \in Nat : IsWord(x, c)
<1> DEFINE Reaches(m) == \E half : /\ half \in [0 .. 16 -> Nat] /\ half[16] = 0
                                   /\ \A k \in m .. 15 : half[k] = 2 * half[k + 1] + c[k]
           S == {m \in 0 .. 16 : Reaches(m)}
<1>1. Reaches(16)
  <2>1. [k \in 0 .. 16 |-> 0] \in [0 .. 16 -> Nat] /\ [k \in 0 .. 16 |-> 0][16] = 0
    OBVIOUS
  <2>2. 16 .. 15 = {}
    OBVIOUS
  <2> QED
    BY <2>1, <2>2
<1>2. ASSUME NEW m \in 0 .. 15, Reaches(m + 1) PROVE Reaches(m)
  <2>1. PICK half : /\ half \in [0 .. 16 -> Nat] /\ half[16] = 0
                    /\ \A k \in m + 1 .. 15 : half[k] = 2 * half[k + 1] + c[k]
    BY <1>2
  <2> DEFINE more == [half EXCEPT ![m] = 2 * half[m + 1] + c[m]]
  <2>2. c[m] \in Nat /\ half[m + 1] \in Nat
    <3>1. m + 1 \in 0 .. 16 /\ c[m] \in 0 .. 1
      BY DEF Bits
    <3> QED
      BY <2>1, <3>1
  <2>3. more \in [0 .. 16 -> Nat] /\ more[16] = 0
    BY <2>1, <2>2
  <2>4. ASSUME NEW k \in m .. 15 PROVE more[k] = 2 * more[k + 1] + c[k]
    <3>1. k \in 0 .. 15 /\ k + 1 # m /\ k + 1 \in 0 .. 16
      OBVIOUS
    <3>2. more[k + 1] = half[k + 1]
      BY <2>1, <3>1
    <3>3. CASE k = m
      BY <2>1, <3>2, <3>3
    <3>4. CASE k # m
      <4>1. k \in m + 1 .. 15
        BY <3>4
      <4>2. more[k] = half[k] /\ half[k] = 2 * half[k + 1] + c[k]
        BY <2>1, <3>1, <3>4, <4>1
      <4> QED
        BY <3>2, <4>2
    <3> QED
      BY <3>3, <3>4
  <2> HIDE DEF more
  <2> QED
    BY <2>3, <2>4
<1> HIDE DEF Reaches
<1>3. \A m \in 0 .. 16 : m \in S
  <2>1. 16 \in S /\ S \in SUBSET (0 .. 16) /\ 16 - 1 = 15
    BY <1>1
  <2>2. \A m \in 0 .. 15 : m + 1 \in S => m \in S
    BY <1>2
  <2> HIDE DEF S
  <2> QED
    BY <2>1, <2>2, DownTheBits
<1>4. Reaches(0)
  BY <1>3
<1>5. PICK half : /\ half \in [0 .. 16 -> Nat] /\ half[16] = 0
                  /\ \A k \in 0 .. 15 : half[k] = 2 * half[k + 1] + c[k]
  BY <1>4 DEF Reaches
<1>6. Halves(half[0], c, half) /\ half[0] \in Nat
  BY <1>5 DEF Halves
<1> QED
  BY <1>6, Zenon DEF IsWord

(* Halves of a word are below the powers of two. *)
LEMMA WordBound ==
  ASSUME NEW x, NEW c, IsWord(x, c)
  PROVE  x \in Nat /\ x < 65536 /\ c \in Bits
<1>1. PICK v : Halves(x, c, v)
  BY DEF IsWord
<1>2. PICK P : IsPowers(P)
  BY PowersAre
<1>3. /\ v \in [0 .. 16 -> Nat] /\ v[0] = x /\ v[16] = 0
      /\ \A k \in 0 .. 15 : v[k] = 2 * v[k + 1] + c[k]
  BY <1>1 DEF Halves
<1>4. c \in Bits
  BY DEF IsWord
<1> DEFINE S == {k \in 0 .. 16 : v[k] < P[k]}
<1>5. \A k \in 0 .. 16 : k \in S
  <2>1. 16 \in S /\ S \in SUBSET (0 .. 16) /\ 16 - 1 = 15
    BY <1>2, <1>3 DEF IsPowers
  <2>2. ASSUME NEW k \in 0 .. 15, v[k + 1] < P[k + 1] PROVE v[k] < P[k]
    <3>1. v[k + 1] \in Nat /\ P[k + 1] \in Nat
      BY <1>2, <1>3 DEF IsPowers
    <3>2. c[k] \in 0 .. 1
      BY <1>4 DEF Bits
    <3>3. v[k] = 2 * v[k + 1] + c[k] /\ P[k] = 2 * P[k + 1]
      BY <1>2, <1>3 DEF IsPowers
    <3> QED
      BY <2>2, <3>1, <3>2, <3>3
  <2>3. \A k \in 0 .. 15 : k + 1 \in S => k \in S
    BY <2>2
  <2> HIDE DEF S
  <2> QED
    BY <2>1, <2>3, DownTheBits
<1>6. v[0] < P[0]
  BY <1>5
<1> QED
  BY <1>2, <1>3, <1>4, <1>6 DEF IsPowers

LEMMA BitsOfWord ==
  ASSUME NEW x, NEW c, IsWord(x, c)
  PROVE  \A k \in 0 .. 15 : Bit(x, k) = c[k]
<1>1. x \in Nat /\ x < 65536
  BY WordBound
<1>2. IsWord(x, OwnRow(x))
  BY <1>1, OwnBits
<1>3. c = OwnRow(x)
  BY <1>2, SameBits
<1> QED
  BY <1>3 DEF OwnRow

(* Twice a word: its row moves up and loses the highest bit. *)
Moved1(c) == [k \in 0 .. 15 |-> IF k = 0 THEN 0 ELSE c[k - 1]]
LEMMA TwiceIs ==
  ASSUME NEW x, NEW c, IsWord(x, c)
  PROVE  IsWord((2 * x) % 65536, Moved1(c))
<1> DEFINE d == Moved1(c)
<1>0. x \in Nat /\ c \in Bits
  BY WordBound
<1>1. d \in Bits /\ d[0] = 0 /\ \A k \in 1 .. 15 : d[k] = c[k - 1]
  BY <1>0 DEF Bits, Moved1
<1> HIDE DEF d
<1>2. PICK y \in Nat : IsWord(y, d)
  BY <1>1, EveryRow
<1>3. PICK v : Halves(x, c, v)
  BY DEF IsWord
<1>4. PICK w : Halves(y, d, w)
  BY <1>2 DEF IsWord
<1>5. PICK P : IsPowers(P)
  BY PowersAre
<1>6. /\ v \in [0 .. 16 -> Nat] /\ v[0] = x /\ v[16] = 0
      /\ \A k \in 0 .. 15 : v[k] = 2 * v[k + 1] + c[k]
      /\ w \in [0 .. 16 -> Nat] /\ w[0] = y /\ w[16] = 0
      /\ \A k \in 0 .. 15 : w[k] = 2 * w[k + 1] + d[k]
  BY <1>3, <1>4 DEF Halves
<1>7. c[15] \in 0 .. 1
  BY <1>0 DEF Bits
<1> DEFINE Off(k) == IF c[15] = 1 THEN P[k] ELSE 0
           S == {k \in 0 .. 15 : w[k + 1] + Off(k + 1) = v[k]}
<1>8. \A k \in 0 .. 15 : k \in S
  <2>1. 15 \in S /\ S \in SUBSET (0 .. 15) /\ 15 - 1 = 14
    BY <1>5, <1>6, <1>7 DEF IsPowers
  <2>2. ASSUME NEW k \in 0 .. 14, w[k + 2] + Off(k + 2) = v[k + 1]
        PROVE  w[k + 1] + Off(k + 1) = v[k]
    <3>1. v[k + 1] \in Nat /\ w[k + 2] \in Nat /\ P[k + 2] \in Nat /\ c[k] \in Nat
      <4>1. k + 1 \in 0 .. 16 /\ k + 2 \in 0 .. 16 /\ k \in 0 .. 15
        OBVIOUS
      <4>2. v[k + 1] \in Nat /\ w[k + 2] \in Nat
        BY <1>6, <4>1
      <4>3. P[k + 2] \in Nat
        BY <1>5, <4>1 DEF IsPowers
      <4>4. c[k] \in 0 .. 1
        BY <1>0, <4>1 DEF Bits
      <4> QED
        BY <4>2, <4>3, <4>4
    <3>2. w[k + 1] = 2 * w[k + 2] + d[k + 1] /\ d[k + 1] = c[k]
      <4>1. k + 1 \in 1 .. 15 /\ (k + 1) + 1 = k + 2 /\ (k + 1) - 1 = k
        OBVIOUS
      <4> QED
        BY <1>1, <1>6, <4>1
    <3>3. v[k] = 2 * v[k + 1] + c[k]
      BY <1>6
    <3>4. P[k + 1] = 2 * P[k + 2]
      <4>1. k + 1 \in 0 .. 15 /\ (k + 1) + 1 = k + 2
        OBVIOUS
      <4> QED
        BY <1>5, <4>1 DEF IsPowers
    <3> QED
      BY <2>2, <3>1, <3>2, <3>3, <3>4
  <2>3. \A k \in 0 .. 14 : k + 1 \in S => k \in S
    <3>1. \A k \in 0 .. 14 : (k + 1) + 1 = k + 2
      OBVIOUS
    <3> HIDE DEF Off
    <3> QED
      BY <2>2, <3>1
  <2> HIDE DEF S
  <2> QED
    BY <2>1, <2>3, DownTheBits
<1>9. w[1] + Off(1) = v[0]
  BY <1>8
<1>10. y = 2 * w[1] /\ w[1] \in Nat /\ y < 65536
  BY <1>1, <1>2, <1>6, WordBound
<1>11. Off(1) = 0 \/ Off(1) = 32768
  BY <1>5 DEF IsPowers
<1> HIDE DEF Off
<1>12. 2 * x = y \/ 2 * x = y + 65536
  BY <1>6, <1>9, <1>10, <1>11
<1>13. (2 * x) % 65536 = y
  BY <1>2, <1>10, <1>12
<1> QED
  BY <1>2, <1>13 DEF d

(* A bit flipped. *)
LEMMA FlipIs ==
  ASSUME NEW x, NEW c, IsWord(x, c), NEW j \in {0, 5, 12}
  PROVE  IsWord(FlipBit(x, j), [c EXCEPT ![j] = 1 - c[j]])
<1> DEFINE d == [c EXCEPT ![j] = 1 - c[j]]
<1>0. x \in Nat /\ x < 65536 /\ c \in Bits /\ j \in 0 .. 15
  BY WordBound
<1>1. c[j] \in 0 .. 1 /\ d \in Bits /\ d[j] = 1 - c[j] /\ \A k \in 0 .. 15 : k # j => d[k] = c[k]
  BY <1>0 DEF Bits
<1> HIDE DEF d
<1>2. PICK y \in Nat : IsWord(y, d)
  BY <1>1, EveryRow
<1>3. PICK v : Halves(x, c, v)
  BY DEF IsWord
<1>4. PICK w : Halves(y, d, w)
  BY <1>2 DEF IsWord
<1>5. PICK P : IsPowers(P)
  BY PowersAre
<1>6. /\ v \in [0 .. 16 -> Nat] /\ v[0] = x /\ v[16] = 0
      /\ \A k \in 0 .. 15 : v[k] = 2 * v[k + 1] + c[k]
      /\ w \in [0 .. 16 -> Nat] /\ w[0] = y /\ w[16] = 0
      /\ \A k \in 0 .. 15 : w[k] = 2 * w[k + 1] + d[k]
  BY <1>3, <1>4 DEF Halves
<1> DEFINE Q(k) == IF k > j THEN 0 ELSE P[k + (16 - j)]
           Differs(k) == IF c[j] = 1 THEN w[k] = v[k] - Q(k) ELSE w[k] = v[k] + Q(k)
           S == {k \in 0 .. 16 : Differs(k)}
<1>6a. Differs(16)
  BY <1>0, <1>6
<1>7. ASSUME NEW m \in 0 .. 15, Differs(m + 1) PROVE Differs(m)
  <2>1. v[m + 1] \in Nat /\ w[m + 1] \in Nat
    BY <1>6
  <2>2. w[m] = 2 * w[m + 1] + d[m] /\ v[m] = 2 * v[m + 1] + c[m]
    BY <1>6
  <2>3. c[m] \in 0 .. 1
    BY <1>0 DEF Bits
  <2>4. CASE m > j
    <3>1. Q(m) = 0 /\ Q(m + 1) = 0 /\ d[m] = c[m]
      BY <1>0, <1>1, <2>4
    <3> HIDE DEF Q
    <3> QED
      BY <1>7, <2>1, <2>2, <2>3, <3>1
  <2>5. CASE m = j
    <3>1. Q(m) = 1 /\ Q(m + 1) = 0 /\ d[m] = 1 - c[m]
      <4>1. m + (16 - j) = 16
        BY <1>0, <2>5
      <4> QED
        BY <1>0, <1>1, <1>5, <2>5, <4>1 DEF IsPowers
    <3> HIDE DEF Q
    <3> QED
      BY <1>7, <2>1, <2>2, <2>3, <2>5, <3>1
  <2>6. CASE m < j
    <3>1. m + (16 - j) \in 0 .. 15 /\ (m + 1) + (16 - j) = (m + (16 - j)) + 1 /\ ~(m + 1 > j)
          /\ ~(m > j) /\ m # j
      BY <1>0, <2>6
    <3>2. Q(m) = P[m + (16 - j)] /\ Q(m + 1) = P[(m + (16 - j)) + 1]
      BY <3>1
    <3>3. Q(m) = 2 * Q(m + 1) /\ Q(m + 1) \in Nat /\ d[m] = c[m]
      BY <1>1, <1>5, <3>1, <3>2 DEF IsPowers
    <3> HIDE DEF Q
    <3> QED
      BY <1>7, <2>1, <2>2, <2>3, <3>3
  <2> QED
    BY <1>0, <2>4, <2>5, <2>6
<1> HIDE DEF Differs
<1>8. Differs(0)
  <2>1. 16 \in S /\ S \in SUBSET (0 .. 16) /\ 16 - 1 = 15
    BY <1>6a
  <2>2. \A k \in 0 .. 15 : k + 1 \in S => k \in S
    BY <1>7
  <2> HIDE DEF S
  <2>3. \A k \in 0 .. 16 : k \in S
    BY <2>1, <2>2, DownTheBits
  <2> QED
    BY <2>3 DEF S
<1> USE DEF Differs
<1>9. Bit(x, j) = c[j]
  BY <1>0, BitsOfWord
<1>10. CASE j = 0
  <2>1. Q(0) = 1
    BY <1>5, <1>10 DEF IsPowers
  <2>2. FlipBit(x, 0) = IF Bit(x, 0) = 1 THEN x - 1 ELSE x + 1
    BY DEF FlipBit
  <2>3. y = FlipBit(x, j)
    BY <1>0, <1>1, <1>6, <1>8, <1>9, <1>10, <2>1, <2>2
  <2> QED
    BY <1>2, <2>3 DEF d
<1>11. CASE j = 5
  <2>1. Q(0) = 32
    BY <1>5, <1>11 DEF IsPowers
  <2>2. FlipBit(x, 5) = IF Bit(x, 5) = 1 THEN x - 32 ELSE x + 32
    BY DEF FlipBit
  <2>3. y = FlipBit(x, j)
    BY <1>0, <1>1, <1>6, <1>8, <1>9, <1>11, <2>1, <2>2
  <2> QED
    BY <1>2, <2>3 DEF d
<1>12. CASE j = 12
  <2>1. Q(0) = 4096
    BY <1>5, <1>12 DEF IsPowers
  <2>2. FlipBit(x, 12) = IF Bit(x, 12) = 1 THEN x - 4096 ELSE x + 4096
    BY DEF FlipBit
  <2>3. y = FlipBit(x, j)
    BY <1>0, <1>1, <1>6, <1>8, <1>9, <1>12, <2>1, <2>2
  <2> QED
    BY <1>2, <2>3 DEF d
<1> QED
  BY <1>10, <1>11, <1>12

(* What is exclusive-ored, bit by bit. *)
Sum(c, d) == [k \in 0 .. 15 |-> Plus(c[k], d[k])]

XorBit(x, y, k) == IF Bit(x, k) = Bit(y, k) THEN 0 ELSE 1
XorRows(x, y, n, m, f) ==
  f = [k \in 0 .. m |-> IF k = 0 THEN 0 ELSE 2 * f[k - 1] + XorBit(x, y, n - k)]

LEMMA XorRowsExist ==
  ASSUME NEW x, NEW y, NEW n, NEW m \in Nat
  PROVE  \E f : XorRows(x, y, n, m, f)
<1> DEFINE Bad == {k \in Nat : ~\E f : XorRows(x, y, n, k, f)}
<1> SUFFICES ASSUME Bad # {} PROVE FALSE
  OBVIOUS
<1>1. PICK k \in Bad : \A i \in Bad : k <= i
  BY LeastOf, Zenon
<1>2. k # 0
  <2>1. XorRows(x, y, n, 0, [i \in 0 .. 0 |-> 0])
    BY DEF XorRows
  <2> QED
    BY <2>1, <1>1
<1>3. PICK f : XorRows(x, y, n, k - 1, f)
  BY <1>1, <1>2
<1>4. XorRows(x, y, n, k, [i \in 0 .. k |->
        IF i = k THEN 2 * f[k - 1] + XorBit(x, y, n - k) ELSE f[i]])
  BY <1>2, <1>3 DEF XorRows
<1> QED
  BY <1>1, <1>4

LEMMA XorRowsUsed ==
  ASSUME NEW x, NEW y, NEW n \in Nat
  PROVE  \E f : XorRows(x, y, n, n, f) /\ Xor(x, y, n) = f[n]
<1> DEFINE g == CHOOSE xor : xor = [k \in 0 .. n |->
                  IF k = 0 THEN 0
                  ELSE 2 * xor[k - 1] + (IF Bit(x, n - k) = Bit(y, n - k) THEN 0 ELSE 1)]
<1>1. \E f : XorRows(x, y, n, n, f)
  BY XorRowsExist, Zenon
<1>2. XorRows(x, y, n, n, g)
  BY <1>1, Zenon DEF XorRows, XorBit
<1>3. Xor(x, y, n) = g[n]
  BY Zenon DEF Xor
<1> QED
  BY <1>2, <1>3, Zenon

LEMMA XorIs ==
  ASSUME NEW x, NEW c, IsWord(x, c), NEW y, NEW d, IsWord(y, d)
  PROVE  IsWord(Xor(x, y, 16), Sum(c, d))
<1> DEFINE e == Sum(c, d)
<1>1. e \in Bits /\ \A k \in 0 .. 15 : e[k] = IF Bit(x, k) = Bit(y, k) THEN 0 ELSE 1
  <2>1. \A k \in 0 .. 15 : e[k] = IF Bit(x, k) = Bit(y, k) THEN 0 ELSE 1
    BY BitsOfWord DEF Sum, Plus
  <2>2. e = [k \in 0 .. 15 |-> e[k]]
    BY DEF Sum
  <2> HIDE DEF e
  <2> QED
    BY <2>1, <2>2 DEF Bits
<1> HIDE DEF e
<1>2. PICK z \in Nat : IsWord(z, e)
  BY <1>1, EveryRow
<1>3. PICK w : Halves(z, e, w)
  BY <1>2 DEF IsWord
<1>4. PICK f : XorRows(x, y, 16, 16, f) /\ Xor(x, y, 16) = f[16]
  <2>1. 16 \in Nat
    OBVIOUS
  <2> QED
    BY <2>1, XorRowsUsed, ZenonT(30)
<1>5. f[0] = 0 /\ \A k \in 1 .. 16 : f[k] = 2 * f[k - 1] + e[16 - k]
  <2>1. f[0] = 0
    BY <1>4 DEF XorRows
  <2>2. ASSUME NEW k \in 1 .. 16 PROVE f[k] = 2 * f[k - 1] + e[16 - k]
    <3>1. f[k] = 2 * f[k - 1] + XorBit(x, y, 16 - k)
      BY <1>4 DEF XorRows
    <3>2. 16 - k \in 0 .. 15
      OBVIOUS
    <3> QED
      BY <1>1, <3>1, <3>2 DEF XorBit
  <2> QED
    BY <2>1, <2>2
<1>6. w[16] = 0 /\ w[0] = z /\ \A k \in 0 .. 15 : w[k] = 2 * w[k + 1] + e[k]
  BY <1>3 DEF Halves
<1> DEFINE S == {k \in 0 .. 16 : w[k] = f[16 - k]}
<1>7. \A k \in 0 .. 16 : k \in S
  <2>1. 16 \in S /\ S \in SUBSET (0 .. 16) /\ 16 - 1 = 15
    BY <1>5, <1>6
  <2>2. ASSUME NEW k \in 0 .. 15, w[k + 1] = f[16 - (k + 1)] PROVE w[k] = f[16 - k]
    <3>1. 16 - k \in 1 .. 16 /\ (16 - k) - 1 = 16 - (k + 1) /\ 16 - (16 - k) = k
      OBVIOUS
    <3>2. f[16 - k] = 2 * f[16 - (k + 1)] + e[k]
      BY <1>5, <3>1
    <3> QED
      BY <1>6, <2>2, <3>2
  <2>3. \A k \in 0 .. 15 : k + 1 \in S => k \in S
    BY <2>2
  <2> HIDE DEF S
  <2> QED
    BY <2>1, <2>3, DownTheBits
<1>8. w[0] = f[16]
  BY <1>7
<1> QED
  BY <1>2, <1>4, <1>6, <1>8 DEF e

(* A step of the CRC, and of the table: the row moves up and what falls out, *)
(* or differs from the bit that comes, is fed back at three places.          *)
Fed(c, p) ==
  [k \in 0 .. 15 |-> IF k = 0 THEN p ELSE IF k \in {5, 12} THEN Plus(c[k - 1], p) ELSE c[k - 1]]

LEMMA StepIs ==
  ASSUME NEW x, NEW c, IsWord(x, c), NEW bit \in 0 .. 1
  PROVE  IsWord(CrcStep(x, bit), Fed(c, Plus(c[15], bit)))
<1> DEFINE y == (2 * x) % 65536
           d == Moved1(c)
<1>1. IsWord(y, d)
  BY TwiceIs
<1>2. CrcStep(x, bit) = IF Bit(x, 15) = bit THEN y ELSE FlipBit(FlipBit(FlipBit(y, 0), 5), 12)
  BY DEF CrcStep
<1> HIDE DEF y
<1>3. Bit(x, 15) = c[15] /\ c \in Bits
  BY BitsOfWord, WordBound
<1>4. \A k \in 0 .. 15 : c[k] \in 0 .. 1
  BY <1>3 DEF Bits
<1>5. CASE c[15] = bit
  <2>1. Plus(c[15], bit) = 0 /\ CrcStep(x, bit) = y
    BY <1>2, <1>3, <1>5 DEF Plus
  <2>2. \A k \in 1 .. 15 : Plus(c[k - 1], 0) = c[k - 1]
    BY <1>4 DEF Plus
  <2>3. Fed(c, 0) = d
    BY <2>2 DEF Fed, Moved1
  <2> QED
    BY <1>1, <2>1, <2>3
<1>6. CASE c[15] # bit
  <2> DEFINE d1 == [d EXCEPT ![0] = 1 - d[0]]
             d2 == [d1 EXCEPT ![5] = 1 - d1[5]]
             d3 == [d2 EXCEPT ![12] = 1 - d2[12]]
  <2>1. Plus(c[15], bit) = 1 /\ CrcStep(x, bit) = FlipBit(FlipBit(FlipBit(y, 0), 5), 12)
    BY <1>2, <1>3, <1>6 DEF Plus
  <2>2. IsWord(FlipBit(y, 0), d1)
    BY <1>1, FlipIs
  <2> HIDE DEF d1
  <2>3. IsWord(FlipBit(FlipBit(y, 0), 5), d2)
    BY <2>2, FlipIs
  <2> HIDE DEF d2
  <2>4. IsWord(FlipBit(FlipBit(FlipBit(y, 0), 5), 12), d3)
    BY <2>3, FlipIs
  <2>5. d3 = Fed(c, 1)
    <3>1. d = [k \in 0 .. 15 |-> IF k = 0 THEN 0 ELSE c[k - 1]]
      BY DEF Moved1
    <3> HIDE DEF d
    <3>2. d1 = [k \in 0 .. 15 |-> IF k = 0 THEN 1 ELSE c[k - 1]]
      BY <3>1 DEF d1
    <3>3. d2 = [k \in 0 .. 15 |-> IF k = 0 THEN 1 ELSE IF k = 5 THEN 1 - c[4] ELSE c[k - 1]]
      BY <3>2 DEF d2
    <3>4. d3 = [k \in 0 .. 15 |-> IF k = 0 THEN 1 ELSE IF k = 5 THEN 1 - c[4]
                                  ELSE IF k = 12 THEN 1 - c[11] ELSE c[k - 1]]
      BY <3>3
    <3> HIDE DEF d3
    <3>5. Plus(c[4], 1) = 1 - c[4] /\ Plus(c[11], 1) = 1 - c[11]
      BY <1>4 DEF Plus
    <3> QED
      BY <3>4, <3>5 DEF Fed
  <2> QED
    BY <2>1, <2>4, <2>5
<1> QED
  BY <1>5, <1>6

(* A step of the table. *)
Taps == [k \in 0 .. 15 |-> IF k \in {0, 5, 12} THEN 1 ELSE 0]

LEMMA TapsAre == IsWord(4129, Taps)
<1>1. IsWord(4129, OwnRow(4129))
  BY OwnBits
<1>2. /\ Bit(4129, 0) = 1 /\ Bit(4129, 1) = 0 /\ Bit(4129, 2) = 0 /\ Bit(4129, 3) = 0
      /\ Bit(4129, 4) = 0 /\ Bit(4129, 5) = 1 /\ Bit(4129, 6) = 0 /\ Bit(4129, 7) = 0
      /\ Bit(4129, 8) = 0 /\ Bit(4129, 9) = 0 /\ Bit(4129, 10) = 0 /\ Bit(4129, 11) = 0
      /\ Bit(4129, 12) = 1 /\ Bit(4129, 13) = 0 /\ Bit(4129, 14) = 0 /\ Bit(4129, 15) = 0
  BY DEF Bit
<1>3. \A k \in 0 .. 15 : Bit(4129, k) = IF k \in {0, 5, 12} THEN 1 ELSE 0
  BY <1>2
<1>4. OwnRow(4129) = Taps
  BY <1>3 DEF OwnRow, Taps
<1> QED
  BY <1>1, <1>4

LEMMA TableStepIs ==
  ASSUME NEW y, NEW e, IsWord(y, e)
  PROVE  IsWord(TableStep(y), Fed(e, e[15]))
<1> DEFINE z == (2 * y) % 65536
           d == Moved1(e)
<1>1. IsWord(z, d)
  BY TwiceIs
<1>2. TableStep(y) = IF y >= 32768 THEN Xor(z, 4129, 16) ELSE z
  BY DEF TableStep
<1> HIDE DEF z
<1>3. Bit(y, 15) = e[15] /\ e \in Bits /\ y \in Nat /\ y < 65536
  BY BitsOfWord, WordBound
<1>4. \A k \in 0 .. 15 : e[k] \in 0 .. 1
  BY <1>3 DEF Bits
<1>5. Bit(y, 15) = (y \div 32768) % 2
  BY DEF Bit
<1>6. y >= 32768 <=> e[15] = 1
  BY <1>3, <1>5
<1>7. CASE e[15] = 1
  <2>1. IsWord(Xor(z, 4129, 16), Sum(d, Taps))
    BY <1>1, TapsAre, XorIs
  <2>2. ASSUME NEW k \in 0 .. 15
        PROVE  Plus(d[k], Taps[k]) = IF k = 0 THEN 1 ELSE IF k \in {5, 12} THEN Plus(e[k - 1], 1) ELSE e[k - 1]
    <3>1. d[k] = IF k = 0 THEN 0 ELSE e[k - 1]
      BY DEF Moved1
    <3>2. Taps[k] = IF k \in {0, 5, 12} THEN 1 ELSE 0
      BY DEF Taps
    <3>3. k # 0 => e[k - 1] \in 0 .. 1
      BY <1>4
    <3> QED
      BY <3>1, <3>2, <3>3 DEF Plus
  <2>3. Sum(d, Taps) = Fed(e, 1)
    BY <2>2 DEF Sum, Fed
  <2> QED
    BY <1>2, <1>6, <1>7, <2>1, <2>3
<1>8. CASE e[15] # 1
  <2>1. e[15] = 0
    BY <1>4, <1>8
  <2>2. \A k \in 1 .. 15 : Plus(e[k - 1], 0) = e[k - 1]
    BY <1>4 DEF Plus
  <2>3. Fed(e, 0) = d
    BY <2>2 DEF Fed, Moved1
  <2> QED
    BY <1>1, <1>2, <1>6, <2>1, <2>3
<1> QED
  BY <1>7, <1>8

(* A word moved up by some bits. *)
Up(c, n) == [k \in 0 .. 15 |-> IF k < n THEN 0 ELSE c[k - n]]

LEMMA UpOnce ==
  ASSUME NEW c, NEW n \in Nat
  PROVE  Moved1(Up(c, n)) = Up(c, n + 1)
<1>1. ASSUME NEW k \in 0 .. 15
      PROVE  (IF k = 0 THEN 0 ELSE Up(c, n)[k - 1]) = IF k < n + 1 THEN 0 ELSE c[k - (n + 1)]
  <2>1. CASE k = 0
    BY <2>1
  <2>2. CASE k # 0
    <3>1. k - 1 \in 0 .. 15 /\ (k - 1) - n = k - (n + 1) /\ (k - 1 < n <=> k < n + 1)
      BY <2>2
    <3>2. Up(c, n)[k - 1] = IF k - 1 < n THEN 0 ELSE c[(k - 1) - n]
      BY <3>1 DEF Up
    <3> QED
      BY <2>2, <3>1, <3>2
  <2> QED
    BY <2>1, <2>2
<1> QED
  BY <1>1 DEF Moved1, Up

LEMMA UpTwice ==
  ASSUME NEW z \in Nat, NEW c, NEW n \in Nat, IsWord(z % 65536, Up(c, n))
  PROVE  IsWord((2 * z) % 65536, Up(c, n + 1))
<1>1. IsWord((2 * (z % 65536)) % 65536, Moved1(Up(c, n)))
  BY TwiceIs
<1>2. (2 * (z % 65536)) % 65536 = (2 * z) % 65536
  OBVIOUS
<1> QED
  BY <1>1, <1>2, UpOnce

LEMMA UpByte ==
  ASSUME NEW x, NEW c, IsWord(x, c)
  PROVE  IsWord((256 * x) % 65536, Up(c, 8))
<1>0. x \in Nat /\ x < 65536 /\ c \in Bits
  BY WordBound
<1>1. IsWord(x % 65536, Up(c, 0))
  <2>1. x % 65536 = x
    BY <1>0
  <2>2. Up(c, 0) = c
    BY <1>0 DEF Up, Bits
  <2> QED
    BY <2>1, <2>2
<1>2. IsWord((2 * x) % 65536, Up(c, 1))
  BY <1>0, <1>1, UpTwice
<1>3. 2 * x \in Nat /\ 2 * (2 * x) = 4 * x /\ 1 + 1 = 2
  BY <1>0
<1>4. IsWord((4 * x) % 65536, Up(c, 2))
  <2>1. IsWord((2 * (2 * x)) % 65536, Up(c, 1 + 1))
    BY <1>2, <1>3, UpTwice
  <2> QED
    BY <1>3, <2>1
<1>5. IsWord((8 * x) % 65536, Up(c, 3))
  <2>1. 4 * x \in Nat /\ 2 * (4 * x) = 8 * x /\ 2 + 1 = 3
    BY <1>0
  <2>2. IsWord((2 * (4 * x)) % 65536, Up(c, 2 + 1))
    BY <1>4, <2>1, UpTwice
  <2> QED
    BY <2>1, <2>2
<1>6. IsWord((16 * x) % 65536, Up(c, 4))
  <2>1. 8 * x \in Nat /\ 2 * (8 * x) = 16 * x /\ 3 + 1 = 4
    BY <1>0
  <2>2. IsWord((2 * (8 * x)) % 65536, Up(c, 3 + 1))
    BY <1>5, <2>1, UpTwice
  <2> QED
    BY <2>1, <2>2
<1>7. IsWord((32 * x) % 65536, Up(c, 5))
  <2>1. 16 * x \in Nat /\ 2 * (16 * x) = 32 * x /\ 4 + 1 = 5
    BY <1>0
  <2>2. IsWord((2 * (16 * x)) % 65536, Up(c, 4 + 1))
    BY <1>6, <2>1, UpTwice
  <2> QED
    BY <2>1, <2>2
<1>8. IsWord((64 * x) % 65536, Up(c, 6))
  <2>1. 32 * x \in Nat /\ 2 * (32 * x) = 64 * x /\ 5 + 1 = 6
    BY <1>0
  <2>2. IsWord((2 * (32 * x)) % 65536, Up(c, 5 + 1))
    BY <1>7, <2>1, UpTwice
  <2> QED
    BY <2>1, <2>2
<1>9. IsWord((128 * x) % 65536, Up(c, 7))
  <2>1. 64 * x \in Nat /\ 2 * (64 * x) = 128 * x /\ 6 + 1 = 7
    BY <1>0
  <2>2. IsWord((2 * (64 * x)) % 65536, Up(c, 6 + 1))
    BY <1>8, <2>1, UpTwice
  <2> QED
    BY <2>1, <2>2
<1>10. 128 * x \in Nat /\ 2 * (128 * x) = 256 * x /\ 7 + 1 = 8
  BY <1>0
<1>11. IsWord((2 * (128 * x)) % 65536, Up(c, 7 + 1))
  BY <1>9, <1>10, UpTwice
<1> QED
  BY <1>10, <1>11

(* The high byte of a word. *)
Down8(c) == [k \in 0 .. 15 |-> IF k < 8 THEN c[k + 8] ELSE 0]

LEMMA DownByte ==
  ASSUME NEW x, NEW c, IsWord(x, c)
  PROVE  IsWord(x \div 256, Down8(c)) /\ x \div 256 < 256
<1>0. x \in Nat /\ x < 65536 /\ c \in Bits
  BY WordBound
<1>1. PICK v : Halves(x, c, v)
  BY DEF IsWord
<1>2. /\ v \in [0 .. 16 -> Nat] /\ v[0] = x /\ v[16] = 0
      /\ \A k \in 0 .. 15 : v[k] = 2 * v[k + 1] + c[k]
  BY <1>1 DEF Halves
<1>3. \A k \in 0 .. 15 : c[k] \in 0 .. 1
  BY <1>0 DEF Bits
<1>4. v[8] = x \div 256
  <2>1. /\ v[0] = 2 * v[1] + c[0] /\ v[1] = 2 * v[2] + c[1] /\ v[2] = 2 * v[3] + c[2]
        /\ v[3] = 2 * v[4] + c[3] /\ v[4] = 2 * v[5] + c[4] /\ v[5] = 2 * v[6] + c[5]
        /\ v[6] = 2 * v[7] + c[6] /\ v[7] = 2 * v[8] + c[7]
    BY <1>2
  <2>2. /\ c[0] \in 0 .. 1 /\ c[1] \in 0 .. 1 /\ c[2] \in 0 .. 1 /\ c[3] \in 0 .. 1
        /\ c[4] \in 0 .. 1 /\ c[5] \in 0 .. 1 /\ c[6] \in 0 .. 1 /\ c[7] \in 0 .. 1
    BY <1>3
  <2>3. v[8] \in Nat /\ v[0] = x
    BY <1>2
  <2>4. \E r \in 0 .. 255 : x = 256 * v[8] + r
    <3>1. PICK low \in 0 .. 15 : v[0] = 16 * v[4] + low
      <4>1. c[0] + 2 * c[1] + 4 * c[2] + 8 * c[3] \in 0 .. 15
        BY <2>2
      <4>2. v[1] \in Nat /\ v[2] \in Nat /\ v[3] \in Nat /\ v[4] \in Nat
        BY <1>2
      <4>3. v[0] = 16 * v[4] + (c[0] + 2 * c[1] + 4 * c[2] + 8 * c[3])
        BY <2>1, <2>2, <4>2
      <4> QED
        BY <4>1, <4>3
    <3>2. PICK high \in 0 .. 15 : v[4] = 16 * v[8] + high
      <4>1. c[4] + 2 * c[5] + 4 * c[6] + 8 * c[7] \in 0 .. 15
        BY <2>2
      <4>2. v[5] \in Nat /\ v[6] \in Nat /\ v[7] \in Nat /\ v[8] \in Nat
        BY <1>2
      <4>3. v[4] = 16 * v[8] + (c[4] + 2 * c[5] + 4 * c[6] + 8 * c[7])
        BY <2>1, <2>2, <4>2
      <4> QED
        BY <4>1, <4>3
    <3>3. x = 256 * v[8] + (16 * high + low) /\ 16 * high + low \in 0 .. 255
      BY <2>3, <3>1, <3>2
    <3> QED
      BY <3>3
  <2> QED
    BY <2>3, <2>4
<1> DEFINE w == [k \in 0 .. 16 |-> IF k <= 8 THEN v[k + 8] ELSE 0]
           d == Down8(c)
<1>5. w \in [0 .. 16 -> Nat] /\ w[0] = v[8] /\ w[16] = 0
  <2>1. \A k \in 0 .. 16 : k <= 8 => k + 8 \in 0 .. 16
    OBVIOUS
  <2> QED
    BY <1>2, <2>1
<1>6. ASSUME NEW k \in 0 .. 15 PROVE w[k] = 2 * w[k + 1] + d[k] /\ d[k] \in 0 .. 1
  <2>1. d[k] = IF k < 8 THEN c[k + 8] ELSE 0
    BY DEF Down8
  <2>2. w[k] = (IF k <= 8 THEN v[k + 8] ELSE 0) /\ w[k + 1] = (IF k + 1 <= 8 THEN v[(k + 1) + 8] ELSE 0)
    OBVIOUS
  <2>3. CASE k < 8
    <3>1. k + 8 \in 0 .. 15 /\ (k + 8) + 1 = (k + 1) + 8
      BY <2>3
    <3>2. v[k + 8] = 2 * v[(k + 1) + 8] + c[k + 8] /\ c[k + 8] \in 0 .. 1
      BY <1>2, <1>3, <3>1
    <3> QED
      BY <2>1, <2>2, <2>3, <3>2
  <2>4. CASE k >= 8
    <3>1. w[k] = 0 /\ w[k + 1] = 0
      BY <1>2, <2>2, <2>4
    <3> QED
      BY <2>1, <2>4, <3>1
  <2> QED
    BY <2>3, <2>4
<1>7. d \in Bits
  <2>1. d = [k \in 0 .. 15 |-> d[k]]
    BY DEF Down8
  <2> HIDE DEF d
  <2> QED
    BY <1>6, <2>1 DEF Bits
<1> HIDE DEF w, d
<1>8. Halves(x \div 256, d, w)
  BY <1>4, <1>5, <1>6 DEF Halves
<1>9. \E h : Halves(x \div 256, d, h)
  BY <1>8
<1>10. IsWord(x \div 256, d)
  BY <1>7, <1>9 DEF IsWord
<1> QED
  BY <1>0, <1>10 DEF d

(* The bits of a byte. *)
LEMMA BitsOfByte ==
  ASSUME NEW t \in Byte
  PROVE  IsWord(t, OwnRow(t)) /\ \A k \in 8 .. 15 : OwnRow(t)[k] = 0
<1>1. IsWord(t, OwnRow(t))
  <2>1. t \in Nat /\ t < 65536
    BY DEF Byte
  <2> QED
    BY <2>1, OwnBits
<1>2. /\ Bit(t, 8) = 0 /\ Bit(t, 9) = 0 /\ Bit(t, 10) = 0 /\ Bit(t, 11) = 0
      /\ Bit(t, 12) = 0 /\ Bit(t, 13) = 0 /\ Bit(t, 14) = 0 /\ Bit(t, 15) = 0
  BY DEF Bit, Byte
<1>3. \A k \in 8 .. 15 : Bit(t, k) = 0
  BY <1>2
<1> QED
  BY <1>1, <1>3 DEF OwnRow

(* Of bytes eight bits are enough. *)
LEMMA XorOfBytes ==
  ASSUME NEW x \in Byte, NEW y \in Byte
  PROVE  Xor(x, y, 8) = Xor(x, y, 16)
<1>1. PICK f : XorRows(x, y, 8, 8, f) /\ Xor(x, y, 8) = f[8]
  <2>1. 8 \in Nat
    OBVIOUS
  <2> QED
    BY <2>1, XorRowsUsed, ZenonT(30)
<1>2. PICK g : XorRows(x, y, 16, 16, g) /\ Xor(x, y, 16) = g[16]
  <2>1. 16 \in Nat
    OBVIOUS
  <2> QED
    BY <2>1, XorRowsUsed, ZenonT(30)
<1>3. \A k \in 8 .. 15 : XorBit(x, y, k) = 0
  <2>1. \A k \in 8 .. 15 : k \in 0 .. 15
    OBVIOUS
  <2>2. \A k \in 8 .. 15 : Bit(x, k) = 0 /\ Bit(y, k) = 0
    BY <2>1, BitsOfByte DEF OwnRow
  <2> QED
    BY <2>2 DEF XorBit
<1>4. f[0] = 0 /\ \A k \in 0 .. 7 : f[k + 1] = 2 * f[k] + XorBit(x, y, 7 - k)
  <2>1. \A k \in 0 .. 7 : 8 - (k + 1) = 7 - k
    OBVIOUS
  <2> QED
    BY <1>1, <2>1 DEF XorRows
<1>5. g[0] = 0 /\ \A k \in 0 .. 15 : g[k + 1] = 2 * g[k] + XorBit(x, y, 15 - k)
  <2>1. \A k \in 0 .. 15 : 16 - (k + 1) = 15 - k
    OBVIOUS
  <2> QED
    BY <1>2, <2>1 DEF XorRows
<1> DEFINE S == {k \in 0 .. 8 : g[k] = 0}
           T == {k \in 0 .. 8 : g[k + 8] = f[k]}
<1>6. \A k \in 0 .. 8 : k \in S
  <2>1. 0 \in S /\ S \in SUBSET (0 .. 8) /\ 8 - 1 = 7 /\ 8 \in Nat
    BY <1>5
  <2>2. \A k \in 0 .. 7 : k \in S => k + 1 \in S
    BY <1>3, <1>5
  <2> HIDE DEF S
  <2> QED
    BY <2>1, <2>2, UpTheBits
<1>7. \A k \in 0 .. 8 : k \in T
  <2>1. 0 \in T /\ T \in SUBSET (0 .. 8) /\ 8 - 1 = 7 /\ 8 \in Nat
    BY <1>4, <1>6
  <2>2. ASSUME NEW k \in 0 .. 7, g[k + 8] = f[k] PROVE g[(k + 1) + 8] = f[k + 1]
    <3>1. k + 8 \in 0 .. 15 /\ (k + 8) + 1 = (k + 1) + 8 /\ 15 - (k + 8) = 7 - k
      OBVIOUS
    <3> QED
      BY <1>4, <1>5, <2>2, <3>1
  <2>3. \A k \in 0 .. 7 : k \in T => k + 1 \in T
    BY <2>2
  <2> HIDE DEF T
  <2> QED
    BY <2>1, <2>3, UpTheBits
<1>8. g[16] = f[8]
  <2>1. 8 \in 0 .. 8 /\ 8 + 8 = 16
    OBVIOUS
  <2> QED
    BY <1>7, <2>1
<1> QED
  BY <1>1, <1>2, <1>8

(* Eight steps of the CRC over a byte, against eight of the table from the   *)
(* byte that enters it: what the CRC holds is what the table holds, plus the *)
(* low byte it began with on its way up, plus what is left of the byte.      *)
Low(c, j, i) == IF j <= i /\ i < j + 8 THEN c[i - j] ELSE 0
High(d, j, i) == IF i >= 8 + j THEN d[i - (8 + j)] ELSE 0
PairedRows(b, e, j, c, d) ==
  \A i \in 0 .. 15 : b[i] = Plus(Plus(e[i], Low(c, j, i)), High(d, j, i))
Paired(x, y, j, c, d) ==
  \E b, e : IsWord(x, b) /\ IsWord(y, e) /\ PairedRows(b, e, j, c, d)

LEMMA PairStep ==
  ASSUME NEW x, NEW y, NEW j \in 0 .. 7, NEW c \in Bits, NEW d \in Bits, Paired(x, y, j, c, d)
  PROVE  Paired(CrcStep(x, d[7 - j]), TableStep(y), j + 1, c, d)
<1>1. PICK b, e : IsWord(x, b) /\ IsWord(y, e) /\ PairedRows(b, e, j, c, d)
  BY DEF Paired
<1> DEFINE p == Plus(b[15], d[7 - j])
<1>2. b \in Bits /\ e \in Bits
  BY <1>1, WordBound
<1>3. \A k \in 0 .. 15 : b[k] \in 0 .. 1 /\ e[k] \in 0 .. 1 /\ c[k] \in 0 .. 1 /\ d[k] \in 0 .. 1
  BY <1>2 DEF Bits
<1>4. 7 - j \in 0 .. 15 /\ d[7 - j] \in 0 .. 1
  BY <1>3
<1>5. p = e[15]
  <2>1. b[15] = Plus(Plus(e[15], Low(c, j, 15)), High(d, j, 15))
    BY <1>1 DEF PairedRows
  <2>2. Low(c, j, 15) = 0
    BY DEF Low
  <2>3. High(d, j, 15) = d[7 - j]
    <3>1. 15 >= 8 + j /\ 15 - (8 + j) = 7 - j
      OBVIOUS
    <3> QED
      BY <3>1 DEF High
  <2>4. e[15] \in 0 .. 1
    BY <1>3
  <2> QED
    BY <1>4, <2>1, <2>2, <2>3, <2>4 DEF Plus
<1>6. IsWord(CrcStep(x, d[7 - j]), Fed(b, p))
  BY <1>1, <1>4, StepIs
<1>7. IsWord(TableStep(y), Fed(e, p))
  BY <1>1, <1>5, TableStepIs
<1>8. ASSUME NEW i \in 0 .. 15
      PROVE  Fed(b, p)[i] = Plus(Plus(Fed(e, p)[i], Low(c, j + 1, i)), High(d, j + 1, i))
  <2>0. p \in 0 .. 1
    BY <1>3, <1>5
  <2> HIDE DEF p
  <2>1. Fed(b, p)[i] = IF i = 0 THEN p ELSE IF i \in {5, 12} THEN Plus(b[i - 1], p) ELSE b[i - 1]
    BY DEF Fed
  <2>2. Fed(e, p)[i] = IF i = 0 THEN p ELSE IF i \in {5, 12} THEN Plus(e[i - 1], p) ELSE e[i - 1]
    BY DEF Fed
  <2>3. CASE i = 0
    <3>1. Low(c, j + 1, i) = 0 /\ High(d, j + 1, i) = 0
      BY <2>3 DEF Low, High
    <3> QED
      BY <2>0, <2>1, <2>2, <2>3, <3>1 DEF Plus
  <2>4. CASE i # 0
    <3>1. i - 1 \in 0 .. 15
      BY <2>4
    <3>2. b[i - 1] = Plus(Plus(e[i - 1], Low(c, j, i - 1)), High(d, j, i - 1))
      BY <1>1, <3>1 DEF PairedRows
    <3>3. Low(c, j + 1, i) = Low(c, j, i - 1)
      <4>1. i - (j + 1) = (i - 1) - j /\ (j + 1 <= i <=> j <= i - 1) /\ (i < (j + 1) + 8 <=> i - 1 < j + 8)
        OBVIOUS
      <4> QED
        BY <4>1 DEF Low
    <3>4. High(d, j + 1, i) = High(d, j, i - 1)
      <4>1. i - (8 + (j + 1)) = (i - 1) - (8 + j) /\ (i >= 8 + (j + 1) <=> i - 1 >= 8 + j)
        OBVIOUS
      <4> QED
        BY <4>1 DEF High
    <3>5. Low(c, j, i - 1) \in 0 .. 1
      <4>1. j <= i - 1 /\ i - 1 < j + 8 => (i - 1) - j \in 0 .. 15
        BY <3>1
      <4> QED
        BY <1>3, <4>1 DEF Low
    <3>6. High(d, j, i - 1) \in 0 .. 1
      <4>1. i - 1 >= 8 + j => (i - 1) - (8 + j) \in 0 .. 15
        BY <3>1
      <4> QED
        BY <1>3, <4>1 DEF High
    <3>7. e[i - 1] \in 0 .. 1
      BY <1>3, <3>1
    <3> QED
      BY <2>0, <2>1, <2>2, <2>4, <3>2, <3>3, <3>4, <3>5, <3>6, <3>7 DEF Plus
  <2> QED
    BY <2>3, <2>4
<1>9. PairedRows(Fed(b, p), Fed(e, p), j + 1, c, d)
  BY <1>8 DEF PairedRows
<1> HIDE DEF p
<1> QED
  BY <1>6, <1>7, <1>9, Zenon DEF Paired

LEMMA PairStart ==
  ASSUME NEW x, NEW c, IsWord(x, c), NEW t \in Byte
  PROVE  /\ Xor(x \div 256, t, 16) \in Byte
         /\ Paired(x, 256 * Xor(x \div 256, t, 16), 0, c, OwnRow(t))
<1> DEFINE i == Xor(x \div 256, t, 16)
           d == OwnRow(t)
           g == Sum(Down8(c), d)
<1>1. IsWord(t, d) /\ \A k \in 8 .. 15 : d[k] = 0
  BY BitsOfByte
<1>2. IsWord(x \div 256, Down8(c))
  BY DownByte
<1>3. IsWord(i, g)
  BY <1>1, <1>2, XorIs
<1>4. c \in Bits /\ d \in Bits
  BY <1>1, WordBound
<1>5. \A k \in 0 .. 15 : c[k] \in 0 .. 1 /\ d[k] \in 0 .. 1
  BY <1>4 DEF Bits
<1> HIDE DEF d
<1>6. \A k \in 0 .. 15 : g[k] = IF k < 8 THEN Plus(c[k + 8], d[k]) ELSE 0
  BY <1>1 DEF Sum, Down8, Plus
<1> HIDE DEF i, g
<1>7. i \in 0 .. 255
  <2>1. PICK w : Halves(i, g, w)
    BY <1>3 DEF IsWord
  <2>2. w \in [0 .. 16 -> Nat] /\ w[0] = i /\ w[16] = 0 /\ \A k \in 0 .. 15 : w[k] = 2 * w[k + 1] + g[k]
    BY <2>1 DEF Halves
  <2>3. /\ g[8] = 0 /\ g[9] = 0 /\ g[10] = 0 /\ g[11] = 0
        /\ g[12] = 0 /\ g[13] = 0 /\ g[14] = 0 /\ g[15] = 0
    BY <1>6
  <2>4. w[15] = 0 /\ w[14] = 0 /\ w[13] = 0 /\ w[12] = 0
    <3>1. /\ w[15] = 2 * w[16] + g[15] /\ w[14] = 2 * w[15] + g[14]
          /\ w[13] = 2 * w[14] + g[13] /\ w[12] = 2 * w[13] + g[12]
      BY <2>2
    <3> QED
      BY <2>2, <2>3, <3>1
  <2>5. w[11] = 0 /\ w[10] = 0 /\ w[9] = 0 /\ w[8] = 0
    <3>1. /\ w[11] = 2 * w[12] + g[11] /\ w[10] = 2 * w[11] + g[10]
          /\ w[9] = 2 * w[10] + g[9] /\ w[8] = 2 * w[9] + g[8]
      BY <2>2
    <3> QED
      BY <2>3, <2>4, <3>1
  <2>6. \A k \in 0 .. 15 : g[k] \in 0 .. 1
    BY <1>3, WordBound DEF Bits
  <2>7. w[4] < 16 /\ w[4] \in Nat
    <3>1. /\ w[7] = 2 * w[8] + g[7] /\ w[6] = 2 * w[7] + g[6]
          /\ w[5] = 2 * w[6] + g[5] /\ w[4] = 2 * w[5] + g[4]
      BY <2>2
    <3>2. g[4] \in 0 .. 1 /\ g[5] \in 0 .. 1 /\ g[6] \in 0 .. 1 /\ g[7] \in 0 .. 1
      BY <2>6
    <3>3. w[7] \in 0 .. 1 /\ w[6] \in 0 .. 3
      BY <2>5, <3>1, <3>2
    <3>4. w[5] \in 0 .. 7
      BY <3>1, <3>2, <3>3
    <3> QED
      BY <3>1, <3>2, <3>4
  <2>8. w[0] < 256 /\ w[0] \in Nat
    <3>1. /\ w[3] = 2 * w[4] + g[3] /\ w[2] = 2 * w[3] + g[2]
          /\ w[1] = 2 * w[2] + g[1] /\ w[0] = 2 * w[1] + g[0]
      BY <2>2
    <3>2. g[0] \in 0 .. 1 /\ g[1] \in 0 .. 1 /\ g[2] \in 0 .. 1 /\ g[3] \in 0 .. 1
      BY <2>6
    <3>3. w[3] \in 0 .. 31 /\ w[2] \in 0 .. 63
      BY <2>7, <3>1, <3>2
    <3>4. w[1] \in 0 .. 127
      BY <3>1, <3>2, <3>3
    <3> QED
      BY <3>1, <3>2, <3>4
  <2> QED
    BY <2>2, <2>8
<1>8. IsWord(256 * i, Up(g, 8))
  <2>1. (256 * i) % 65536 = 256 * i
    BY <1>7
  <2> QED
    BY <1>3, <2>1, UpByte
<1>9. ASSUME NEW k \in 0 .. 15 PROVE c[k] = Plus(Plus(Up(g, 8)[k], Low(c, 0, k)), High(d, 0, k))
  <2>1. Up(g, 8)[k] = IF k < 8 THEN 0 ELSE g[k - 8]
    BY DEF Up
  <2>2. CASE k < 8
    <3>1. Low(c, 0, k) = c[k] /\ High(d, 0, k) = 0
      BY <2>2 DEF Low, High
    <3> QED
      BY <1>5, <2>1, <2>2, <3>1 DEF Plus
  <2>3. CASE k >= 8
    <3>1. k - 8 \in 0 .. 15 /\ k - 8 < 8 /\ (k - 8) + 8 = k
      BY <2>3
    <3>2. Low(c, 0, k) = 0 /\ High(d, 0, k) = d[k - 8]
      BY <2>3 DEF Low, High
    <3>3. g[k - 8] = Plus(c[k], d[k - 8])
      BY <1>6, <3>1
    <3>4. c[k] \in 0 .. 1 /\ d[k - 8] \in 0 .. 1
      BY <1>5, <3>1
    <3> QED
      BY <2>1, <2>3, <3>2, <3>3, <3>4 DEF Plus
  <2> QED
    BY <2>2, <2>3
<1>10. PairedRows(c, Up(g, 8), 0, c, d)
  BY <1>9 DEF PairedRows
<1>11. Paired(x, 256 * i, 0, c, d)
  BY <1>8, <1>10, Zenon DEF Paired
<1>12. i \in Byte
  BY <1>7 DEF Byte
<1> QED
  BY <1>11, <1>12 DEF i, d

LEMMA PairEnd ==
  ASSUME NEW x, NEW y, NEW z, NEW c, NEW d, IsWord(z, c), Paired(x, y, 8, c, d)
  PROVE  x = Xor((256 * z) % 65536, y, 16) /\ x \in Nat /\ x < 65536
<1>1. PICK b, e : IsWord(x, b) /\ IsWord(y, e) /\ PairedRows(b, e, 8, c, d)
  BY DEF Paired
<1>2. IsWord((256 * z) % 65536, Up(c, 8))
  BY UpByte
<1>3. IsWord(Xor((256 * z) % 65536, y, 16), Sum(Up(c, 8), e))
  BY <1>1, <1>2, XorIs
<1>4. b \in Bits /\ e \in Bits /\ c \in Bits
  BY <1>1, WordBound
<1>5. ASSUME NEW k \in 0 .. 15 PROVE b[k] = Plus(Up(c, 8)[k], e[k])
  <2>1. b[k] = Plus(Plus(e[k], Low(c, 8, k)), High(d, 8, k))
    BY <1>1 DEF PairedRows
  <2>2. Low(c, 8, k) = Up(c, 8)[k] /\ High(d, 8, k) = 0
    BY DEF Low, High, Up
  <2>3. e[k] \in 0 .. 1
    BY <1>4 DEF Bits
  <2>4. Up(c, 8)[k] \in 0 .. 1
    <3>1. Up(c, 8)[k] = IF k < 8 THEN 0 ELSE c[k - 8]
      BY DEF Up
    <3>2. k >= 8 => k - 8 \in 0 .. 15
      OBVIOUS
    <3> QED
      BY <1>4, <3>1, <3>2 DEF Bits
  <2> QED
    BY <2>1, <2>2, <2>3, <2>4 DEF Plus
<1>6. b = Sum(Up(c, 8), e)
  BY <1>4, <1>5 DEF Bits, Sum
<1>7. x = Xor((256 * z) % 65536, y, 16)
  BY <1>1, <1>3, <1>6, SameWord
<1> QED
  BY <1>1, <1>7, WordBound

(* An entry of the table. *)
TableRows(i, m, f) == f = [j \in 0 .. m |-> IF j = 0 THEN i * 256 ELSE TableStep(f[j - 1])]

LEMMA TableRowsExist ==
  ASSUME NEW i, NEW m \in Nat
  PROVE  \E f : TableRows(i, m, f)
<1> DEFINE Bad == {k \in Nat : ~\E f : TableRows(i, k, f)}
<1> SUFFICES ASSUME Bad # {} PROVE FALSE
  OBVIOUS
<1>1. PICK k \in Bad : \A j \in Bad : k <= j
  BY LeastOf, Zenon
<1>2. k # 0
  <2>1. TableRows(i, 0, [j \in 0 .. 0 |-> i * 256])
    BY DEF TableRows
  <2> QED
    BY <2>1, <1>1
<1>3. PICK f : TableRows(i, k - 1, f)
  BY <1>1, <1>2
<1>4. TableRows(i, k, [j \in 0 .. k |-> IF j = k THEN TableStep(f[k - 1]) ELSE f[j]])
  BY <1>2, <1>3 DEF TableRows
<1> QED
  BY <1>1, <1>4

LEMMA TableRowsUsed ==
  ASSUME NEW i \in Byte
  PROVE  \E f : TableRows(i, 8, f) /\ CrcTable[i] = f[8]
<1> DEFINE g == CHOOSE curr : curr = [j \in 0 .. 8 |->
                  IF j = 0 THEN i * 256 ELSE TableStep(curr[j - 1])]
<1>1. 8 \in Nat
  OBVIOUS
<1>2. \E f : TableRows(i, 8, f)
  BY <1>1, TableRowsExist, Zenon
<1>3. TableRows(i, 8, g)
  BY <1>2, Zenon DEF TableRows
<1>4. CrcTable[i] = g[8]
  BY Zenon DEF CrcTable, Byte
<1> QED
  BY <1>3, <1>4, Zenon

(* Eight steps of the CRC are one of the table. *)
LEMMA ByteIs ==
  ASSUME NEW z, NEW c, IsWord(z, c), NEW t \in Byte, NEW f, f[0] = z,
         \A j \in 0 .. 7 : f[j + 1] = CrcStep(f[j], Bit(t, 7 - j))
  PROVE  f[8] = ByteStep(z, t) /\ \E b : IsWord(f[8], b)
<1> DEFINE i == Xor(z \div 256, t, 16)
           d == OwnRow(t)
<1>2. c \in Bits /\ d \in Bits
  <2>1. IsWord(t, d)
    BY BitsOfByte
  <2> HIDE DEF d
  <2> QED
    BY <2>1, WordBound
<1>3. i \in Byte /\ Paired(z, 256 * i, 0, c, d)
  BY PairStart
<1>6. \A j \in 0 .. 7 : d[7 - j] = Bit(t, 7 - j)
  BY DEF OwnRow
<1>7. ByteStep(z, t) = Xor((256 * z) % 65536, CrcTable[i], 16)
  <2>1. z \div 256 \in Byte
    <3>1. z \div 256 < 256 /\ z \in Nat
      BY DownByte, WordBound
    <3> QED
      BY <3>1 DEF Byte
  <2>2. Xor(z \div 256, t, 8) = i
    BY <2>1, XorOfBytes
  <2> HIDE DEF i
  <2> QED
    BY <2>2 DEF ByteStep
<1> HIDE DEF i, d
<1>4. PICK g : TableRows(i, 8, g) /\ CrcTable[i] = g[8]
  BY <1>3, TableRowsUsed
<1>5. g[0] = 256 * i /\ \A j \in 0 .. 7 : g[j + 1] = TableStep(g[j])
  BY <1>3, <1>4 DEF TableRows, Byte
<1> DEFINE S == {j \in 0 .. 8 : Paired(f[j], g[j], j, c, d)}
<1>8. \A j \in 0 .. 8 : j \in S
  <2>1. 0 \in S /\ S \in SUBSET (0 .. 8) /\ 8 - 1 = 7 /\ 8 \in Nat
    BY <1>3, <1>5
  <2>2. ASSUME NEW j \in 0 .. 7, Paired(f[j], g[j], j, c, d)
        PROVE  Paired(f[j + 1], g[j + 1], j + 1, c, d)
    <3> DEFINE x == f[j]
               y == g[j]
    <3>1. Paired(x, y, j, c, d)
      BY <2>2
    <3> HIDE DEF x, y
    <3>2. Paired(CrcStep(x, d[7 - j]), TableStep(y), j + 1, c, d)
      BY <1>2, <3>1, PairStep, Zenon
    <3>3. f[j + 1] = CrcStep(x, d[7 - j]) /\ g[j + 1] = TableStep(y)
      BY <1>5, <1>6 DEF x, y
    <3> QED
      BY <3>2, <3>3
  <2>3. \A j \in 0 .. 7 : j \in S => j + 1 \in S
    BY <2>2
  <2> HIDE DEF S
  <2> QED
    BY <2>1, <2>3, UpTheBits
<1>9. Paired(f[8], g[8], 8, c, d)
  BY <1>8
<1>10. f[8] = Xor((256 * z) % 65536, g[8], 16)
  BY <1>9, PairEnd
<1>11. \E b : IsWord(f[8], b)
  BY <1>9 DEF Paired
<1> QED
  BY <1>4, <1>7, <1>10, <1>11

(* The CRC of the crate, byte by byte. *)
RustRows(data, m, f) ==
  f = [k \in 0 .. m |-> IF k = 0 THEN CrcStart ELSE ByteStep(f[k - 1], data[k])]

LEMMA RustRowsExist ==
  ASSUME NEW data, NEW m \in Nat
  PROVE  \E f : RustRows(data, m, f)
<1> DEFINE Bad == {k \in Nat : ~\E f : RustRows(data, k, f)}
<1> SUFFICES ASSUME Bad # {} PROVE FALSE
  OBVIOUS
<1>1. PICK k \in Bad : \A j \in Bad : k <= j
  BY LeastOf, Zenon
<1>2. k # 0
  <2>1. RustRows(data, 0, [j \in 0 .. 0 |-> CrcStart])
    BY DEF RustRows
  <2> QED
    BY <2>1, <1>1
<1>3. PICK f : RustRows(data, k - 1, f)
  BY <1>1, <1>2
<1>4. RustRows(data, k, [j \in 0 .. k |-> IF j = k THEN ByteStep(f[k - 1], data[k]) ELSE f[j]])
  BY <1>2, <1>3 DEF RustRows
<1> QED
  BY <1>1, <1>4

LEMMA RustRowsUsed ==
  ASSUME NEW data, Len(data) \in Nat
  PROVE  \E f : RustRows(data, Len(data), f) /\ RustCrc16(data) = f[Len(data)]
<1> DEFINE g == CHOOSE crc : crc = [k \in 0 .. Len(data) |->
                  IF k = 0 THEN CrcStart ELSE ByteStep(crc[k - 1], data[k])]
<1>1. \E f : RustRows(data, Len(data), f)
  BY RustRowsExist, Zenon
<1>2. RustRows(data, Len(data), g)
  BY <1>1, Zenon DEF RustRows
<1>3. RustCrc16(data) = g[Len(data)]
  BY Zenon DEF RustCrc16
<1> QED
  BY <1>2, <1>3, Zenon

(* Both CRCs of the same bytes are the same. *)
LEMMA CrcsAgree ==
  ASSUME NEW data \in Seq(Byte)
  PROVE  RustCrc16(data) = Crc16(data)
<1> DEFINE n == Len(data)
<1>0. n \in Nat
  OBVIOUS
<1>1. PICK f : CrcRows(data, 8 * n, f) /\ Crc16(data) = f[8 * n]
  BY <1>0, CrcRowsUsed
<1>2. PICK g : RustRows(data, n, g) /\ RustCrc16(data) = g[n]
  BY <1>0, RustRowsUsed
<1>3. \A k \in 1 .. n : data[k] \in Byte
  OBVIOUS
<1> HIDE DEF n
<1>4. f[0] = CrcStart /\ g[0] = CrcStart
  BY <1>0, <1>1, <1>2 DEF CrcRows, RustRows
<1>5. IsWord(CrcStart, OwnRow(CrcStart))
  <2>1. CrcStart \in Nat /\ CrcStart < 65536
    BY DEF CrcStart
  <2> QED
    BY <2>1, OwnBits
<1> DEFINE S == {k \in 0 .. n : f[8 * k] = g[k] /\ \E b : IsWord(g[k], b)}
<1>6. \A k \in 0 .. n : k \in S
  <2>1. 0 \in S /\ S \in SUBSET (0 .. n)
    BY <1>0, <1>4, <1>5
  <2>2. ASSUME NEW k \in 0 .. n - 1, f[8 * k] = g[k], NEW c, IsWord(g[k], c)
        PROVE  f[8 * (k + 1)] = g[k + 1] /\ \E b : IsWord(g[k + 1], b)
    <3> DEFINE t == data[k + 1]
               h == [j \in 0 .. 8 |-> f[8 * k + j]]
               z == g[k]
    <3>1. t \in Byte
      BY <1>0, <1>3
    <3>2. h[0] = z /\ h[8] = f[8 * (k + 1)]
      <4>1. 8 * k + 0 = 8 * k /\ 8 * k + 8 = 8 * (k + 1)
        OBVIOUS
      <4> QED
        BY <2>2, <4>1
    <3>3. ASSUME NEW j \in 0 .. 7 PROVE h[j + 1] = CrcStep(h[j], Bit(t, 7 - j))
      <4>1. /\ 8 * k + (j + 1) \in 1 .. 8 * n /\ (8 * k + (j + 1)) - 1 = 8 * k + j
            /\ (8 * k + j) \div 8 = k /\ (8 * k + j) % 8 = j
        BY <1>0
      <4>2. f[8 * k + (j + 1)] = CrcStep(f[8 * k + j], BitAt(data, 8 * k + (j + 1)))
        BY <1>0, <1>1, <4>1 DEF CrcRows
      <4>3. BitAt(data, 8 * k + (j + 1)) = Bit(t, 7 - j)
        <5> DEFINE p == 8 * k + (j + 1)
        <5>1. (p - 1) \div 8 = k /\ (p - 1) % 8 = j
          BY <4>1
        <5> HIDE DEF p
        <5> QED
          BY <5>1 DEF BitAt
      <4>4. h[j + 1] = f[8 * k + (j + 1)] /\ h[j] = f[8 * k + j]
        <5>1. j \in 0 .. 8 /\ j + 1 \in 0 .. 8
          OBVIOUS
        <5>2. \A i \in 0 .. 8 : h[i] = f[8 * k + i]
          OBVIOUS
        <5> HIDE DEF h
        <5> QED
          BY <5>1, <5>2
      <4> QED
        BY <4>2, <4>3, <4>4
    <3>4. g[k + 1] = ByteStep(z, t)
      <4>1. k + 1 \in 1 .. n /\ (k + 1) - 1 = k
        BY <1>0
      <4> QED
        BY <1>0, <1>2, <4>1 DEF RustRows
    <3>5. IsWord(z, c)
      BY <2>2
    <3> HIDE DEF h, t, z
    <3>6. h[8] = ByteStep(z, t) /\ \E b : IsWord(h[8], b)
      BY <3>1, <3>2, <3>3, <3>5, ByteIs
    <3> QED
      BY <3>2, <3>4, <3>6
  <2>3. ASSUME NEW k \in 0 .. n - 1, k \in S PROVE k + 1 \in S
    <3>1. PICK c : IsWord(g[k], c)
      BY <2>3
    <3>2. f[8 * k] = g[k] /\ k + 1 \in 0 .. n
      BY <1>0, <2>3
    <3> QED
      BY <2>2, <3>1, <3>2
  <2> HIDE DEF S
  <2> QED
    BY <1>0, <2>1, <2>3, UpTheBits
<1>7. f[8 * n] = g[n]
  BY <1>0, <1>6
<1> QED
  BY <1>1, <1>2, <1>7

(* What encode_frame of the crate writes. *)
LEMMA EncodersAgree ==
  ASSUME NEW f \in WireFrame, NEW room \in Int
  PROVE  RustEncode(f, room) = Encode(f, room)
<1> DEFINE n == Len(f.payload)
           b == Body(f)
<1>1. n \in Nat /\ n <= MaxPayload /\ MaxPayload \in Nat
  BY FrameFields, PayloadBound
<1>2. b \in Seq(Byte) /\ Len(b) = n + 6
  BY BodyIs
<1>3. RustCrc16(b) = Crc16(b)
  <2> HIDE DEF b
  <2> QED
    BY <1>2, CrcsAgree
<1>4. Encode(f, room) = IF n + 8 <= room THEN b \o TwoBytes(Crc16(b)) ELSE <<>>
  <2>1. n <= MaxPayload /\ (Len(b) + CrcSize <= room <=> n + 8 <= room)
    BY <1>1, <1>2 DEF CrcSize
  <2> QED
    BY <2>1 DEF Encode, Body
<1>5. RustEncode(f, room) = IF n + 8 <= room THEN b \o TwoBytes(RustCrc16(b)) ELSE <<>>
  <2>1. RustEncode(f, room) = IF n > MaxPayload \/ room < HeaderSize + n + CrcSize THEN <<>>
                              ELSE b \o TwoBytes(RustCrc16(b))
    BY Zenon DEF RustEncode, Body
  <2>2. ~(n > MaxPayload) /\ (room < HeaderSize + n + CrcSize <=> ~(n + 8 <= room))
    BY <1>1 DEF HeaderSize, CrcSize
  <2> HIDE DEF n, b
  <2> QED
    BY <2>1, <2>2
<1> QED
  BY <1>3, <1>4, <1>5

(* What decode_frame of the crate says of bytes that come. *)
LEMMA StatusesAgree ==
  ASSUME NEW bytes \in Seq(Byte)
  PROVE  /\ RustDecode(bytes).status = Decode(bytes)
         /\ RustDecode(bytes).status = "FW_OK" => RustDecode(bytes).frame = FrameOf(bytes)
<1>2. RustDecode(bytes) =
        IF Len(bytes) < HeaderSize + CrcSize THEN [status |-> "FW_ERR_NOT_FOUND"]
        ELSE IF bytes[1] # SOF0 \/ bytes[2] # SOF1 THEN [status |-> "FW_ERR_CORRUPTED"]
        ELSE IF LengthOf(bytes) > MaxPayload THEN [status |-> "FW_ERR_BUFFER_OVERFLOW"]
        ELSE IF Len(bytes) < SizeOf(bytes) THEN [status |-> "FW_ERR_NOT_FOUND"]
        ELSE IF RustCrc16(SubSeq(bytes, 1, SizeOf(bytes) - 2))
                  # FromTwoBytes(bytes[SizeOf(bytes) - 1], bytes[SizeOf(bytes)])
          THEN [status |-> "FW_ERR_CORRUPTED"]
        ELSE [status |-> "FW_OK",
              frame |-> [seq |-> bytes[3], id |-> bytes[4],
                         payload |-> SubSeq(bytes, 7, 6 + LengthOf(bytes))]]
  BY Zenon DEF RustDecode, SizeOf, LengthOf
<1>3. Len(bytes) \in Nat /\ HeaderSize + CrcSize = 8
  BY DEF HeaderSize, CrcSize
<1>4. CASE Len(bytes) < 8
  BY <1>2, <1>3, <1>4 DEF Decode
<1>5. CASE ~(Len(bytes) < 8)
  <2>1. SubSeq(bytes, 1, 2) = <<SOF0, SOF1>> <=> bytes[1] = SOF0 /\ bytes[2] = SOF1
    <3>1. 1 < Len(bytes) /\ 1 + 1 = 2 /\ 1 \in Nat
      BY <1>3, <1>5
    <3> QED
      BY <3>1, StartIs
  <2>2. LengthOf(bytes) \in Nat
    <3>1. bytes[5] \in Byte /\ bytes[6] \in Byte
      BY <1>3, <1>5
    <3> QED
      BY <3>1, TwoBytesAreNat DEF LengthOf
  <2>3. SizeOf(bytes) = LengthOf(bytes) + 8 /\ SizeOf(bytes) \in Nat
    BY <2>2 DEF SizeOf, HeaderSize, CrcSize
  <2>4. CASE SubSeq(bytes, 1, 2) # <<SOF0, SOF1>>
    BY <1>2, <1>3, <1>5, <2>1, <2>4 DEF Decode
  <2>5. CASE SubSeq(bytes, 1, 2) = <<SOF0, SOF1>> /\ LengthOf(bytes) > MaxPayload
    BY <1>2, <1>3, <1>5, <2>1, <2>5 DEF Decode
  <2>6. CASE /\ SubSeq(bytes, 1, 2) = <<SOF0, SOF1>> /\ ~(LengthOf(bytes) > MaxPayload)
             /\ Len(bytes) < SizeOf(bytes)
    BY <1>2, <1>3, <1>5, <2>1, <2>6 DEF Decode
  <2>7. CASE /\ SubSeq(bytes, 1, 2) = <<SOF0, SOF1>> /\ ~(LengthOf(bytes) > MaxPayload)
             /\ ~(Len(bytes) < SizeOf(bytes))
    <3> DEFINE size == SizeOf(bytes)
               body == SubSeq(bytes, 1, size - 2)
               crc == FromTwoBytes(bytes[size - 1], bytes[size])
    <3>1. body \in Seq(Byte)
      <4>1. size - 2 \in Nat /\ 1 <= (size - 2) + 1 /\ size - 2 <= Len(bytes) /\ 1 \in Nat
        BY <1>3, <2>2, <2>3, <2>7
      <4>2. IsPiece(SubSeq(bytes, 1, size - 2), bytes, 1, size - 2)
        <5> HIDE DEF size
        <5> QED
          BY <4>1, PieceIs
      <4> QED
        BY <4>2 DEF IsPiece
    <3>2. RustCrc16(body) = Crc16(body)
      <4> HIDE DEF body
      <4> QED
        BY <3>1, CrcsAgree
    <3>3. CrcHolds(bytes) <=> RustCrc16(body) = crc
      BY <3>2 DEF CrcHolds, CrcSize
    <3>4. FrameOf(bytes) = [seq |-> bytes[3], id |-> bytes[4],
                            payload |-> SubSeq(bytes, 7, 6 + LengthOf(bytes))]
      BY DEF FrameOf, HeaderSize
    <3>5. Decode(bytes) = IF CrcHolds(bytes) THEN "FW_OK" ELSE "FW_ERR_CORRUPTED"
      BY <1>3, <1>5, <2>7, Zenon DEF Decode
    <3>6. RustDecode(bytes) = IF RustCrc16(body) # crc THEN [status |-> "FW_ERR_CORRUPTED"]
                              ELSE [status |-> "FW_OK", frame |-> FrameOf(bytes)]
      BY <1>2, <1>3, <1>5, <2>1, <2>7, <3>4, Zenon
    <3> HIDE DEF size, body, crc
    <3> QED
      BY <3>3, <3>5, <3>6
  <2> QED
    BY <2>4, <2>5, <2>6, <2>7
<1> QED
  BY <1>4, <1>5

LEMMA OkIsFrame ==
  ASSUME NEW bytes \in Seq(Byte), Decode(bytes) = "FW_OK"
  PROVE  FrameOf(bytes) \in WireFrame
<1> DEFINE n == LengthOf(bytes)
           payload == SubSeq(bytes, 7, 6 + n)
<1>1. Len(bytes) \in Nat /\ SizeOf(bytes) \in Nat /\ SizeOf(bytes) <= Len(bytes)
      /\ SizeOf(bytes) >= 8
      /\ FrameOf(bytes).seq \in Byte /\ FrameOf(bytes).id \in Byte
  BY OkIsWhole
<1>2. ~(n > MaxPayload)
  BY Zenon DEF Decode
<1>3. n \in Nat
  <2>1. bytes[5] \in Byte /\ bytes[6] \in Byte
    BY <1>1
  <2> QED
    BY <2>1, TwoBytesAreNat DEF LengthOf
<1>4. 6 + n <= Len(bytes)
  BY <1>1, <1>3 DEF SizeOf, HeaderSize, CrcSize
<1>5. FrameOf(bytes) = [seq |-> bytes[3], id |-> bytes[4], payload |-> payload]
  BY DEF FrameOf, HeaderSize
<1>6. IsPiece(payload, bytes, 7, 6 + n)
  <2> HIDE DEF n
  <2>1. 7 \in Nat /\ 6 + n \in Nat /\ 1 <= 7 /\ 7 <= (6 + n) + 1
    BY <1>3
  <2> QED
    BY <1>4, <2>1, PieceIs
<1> HIDE DEF n, payload
<1>7. payload \in Seq(Byte) /\ Len(payload) = n
  BY <1>3, <1>6 DEF IsPiece
<1> QED
  BY <1>1, <1>2, <1>3, <1>5, <1>7, PayloadBound DEF WireFrame

LEMMA TwinsAlike ==
  ASSUME NEW bytes \in Seq(Byte)
  PROVE  Agree(bytes)
<1>1. /\ RustDecode(bytes).status = Decode(bytes)
      /\ RustDecode(bytes).status = "FW_OK" => RustDecode(bytes).frame = FrameOf(bytes)
  BY StatusesAgree
<1>2. ASSUME Decode(bytes) = "FW_OK", NEW room \in {Len(bytes) - 1, Len(bytes)}
      PROVE  RustEncode(FrameOf(bytes), room) = Encode(FrameOf(bytes), room)
  <2>1. room \in Int
    <3>1. Len(bytes) \in Nat
      OBVIOUS
    <3> QED
      BY <3>1
  <2>2. FrameOf(bytes) \in WireFrame
    BY <1>2, OkIsFrame
  <2> QED
    BY <2>1, <2>2, EncodersAgree
<1> QED
  BY <1>1, <1>2 DEF Agree

(* The two framings, in C and in Rust, with a CRC bit by bit and a CRC by a  *)
(* table, agree on every sequence of bytes: on whether it is a frame, on     *)
(* which, and on what is written for it.  protocol.rs, zerowire.c.           *)
THEOREM CodecsAgree == TwinsSpec => []TwinsAgree
<1> DEFINE Bytes == given \in Seq(Byte)
<1>1. Bytes /\ [TwinsNext]_given => Bytes'
  <2> SUFFICES ASSUME Bytes, [TwinsNext]_given PROVE given' \in Seq(Byte)
    OBVIOUS
  <2>1. CASE TwinsNext
    <3>1. CASE Len(given) = 0
      <4>1. given' = [i \in 1 .. 0 - 2 + 1 |-> given[2 + i - 1]]
        BY <2>1, <3>1 DEF TwinsNext, From, SubSeq
      <4>2. 1 .. 0 - 2 + 1 = {}
        OBVIOUS
      <4>3. given' = << >>
        BY <4>1, <4>2
      <4> QED
        BY <4>3
    <3>2. CASE Len(given) # 0
      <4>1. 2 <= Len(given) + 1 /\ 1 <= 2 /\ 2 \in Nat
        BY <3>2
      <4>2. IsPiece(From(given, 2), given, 2, Len(given))
        BY <4>1, FromIs
      <4> QED
        BY <2>1, <4>2 DEF TwinsNext, IsPiece
    <3> QED
      BY <3>1, <3>2
  <2>2. CASE UNCHANGED given
    BY <2>2
  <2> QED
    BY <2>1, <2>2
<1>2. Bytes => TwinsAgree
  BY TwinsAlike DEF TwinsAgree
<1> QED
  BY <1>1, <1>2, PTL DEF TwinsSpec
=============================================================================
