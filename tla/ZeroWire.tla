------------------------------- MODULE ZeroWire -------------------------------
(***************************************************************************)
(* The framing of zerowire.c, byte by byte: SOF0 SOF1 seq msg_id, length   *)
(* in two bytes, payload, CRC in two bytes, low byte first.  A frame is    *)
(* its sequence number, message and payload.                               *)
(***************************************************************************)
EXTENDS Words, Sequences

CONSTANT MaxPayload  (* ZEROWIRE_MAX_PAYLOAD *)

ASSUME ZeroWireAssumption == MaxPayload \in Nat /\ MaxPayload < 2^16

SOF0 == 170
SOF1 == 85
HeaderSize == 6
CrcSize == 2
MaxFrame == HeaderSize + MaxPayload + CrcSize

\* What travels, and what it carries.
Byte == 0 .. 255
WireFrame == [seq : Byte, id : Byte, payload : {p \in Seq(Byte) : Len(p) <= MaxPayload}]

TwoBytes(n) == <<n % 256, n \div 256>>
FromTwoBytes(low, high) == low + 256 * high

\* fw_crc16_ccitt: the table holds the effect of eight of these steps.
FlipBit(n, k) == IF Bit(n, k) = 1 THEN n - 2^k ELSE n + 2^k
CrcStep(crc, bit) ==
  LET shifted == (2 * crc) % 2^16
  IN  IF Bit(crc, 15) = bit THEN shifted ELSE FlipBit(FlipBit(FlipBit(shifted, 0), 5), 12)
\* The k-th bit of what is sent, the highest of each byte first.
BitAt(bytes, k) == Bit(bytes[(k - 1) \div 8 + 1], 7 - ((k - 1) % 8))
CrcStart == 2^16 - 1
Crc16(bytes) ==
  LET crc[k \in 0 .. 8 * Len(bytes)] ==
        IF k = 0 THEN CrcStart
        ELSE CrcStep(crc[k - 1], BitAt(bytes, k))
  IN  crc[8 * Len(bytes)]

\* fw_zerowire_encode into a buffer of this many bytes; nothing if it does not
\* fit.
Encode(frame, room) ==
  LET body == <<SOF0, SOF1, frame.seq, frame.id>>
                \o TwoBytes(Len(frame.payload)) \o frame.payload
  IN  IF Len(frame.payload) <= MaxPayload /\ Len(body) + CrcSize <= room
        THEN body \o TwoBytes(Crc16(body)) ELSE <<>>

\* fw_zerowire_decode of what starts at raw's first byte: FW_OK,
\* FW_ERR_NOT_FOUND while bytes are missing, or another error.
LengthOf(raw) == FromTwoBytes(raw[5], raw[6])
SizeOf(raw) == HeaderSize + LengthOf(raw) + CrcSize
CrcHolds(raw) ==
  FromTwoBytes(raw[SizeOf(raw) - 1], raw[SizeOf(raw)])
    = Crc16(SubSeq(raw, 1, SizeOf(raw) - CrcSize))
\* Faulty variants: any length is waited for; the CRC is not looked at.
DecodeAnyLength(raw) ==
  IF Len(raw) < HeaderSize + CrcSize THEN "FW_ERR_NOT_FOUND"
  ELSE IF Len(raw) < SizeOf(raw) THEN "FW_ERR_NOT_FOUND"
  ELSE IF CrcHolds(raw) THEN "FW_OK" ELSE "FW_ERR_CORRUPTED"
DecodeUnchecked(raw) ==
  IF Len(raw) < HeaderSize + CrcSize THEN "FW_ERR_NOT_FOUND"
  ELSE IF LengthOf(raw) > MaxPayload THEN "FW_ERR_BUFFER_OVERFLOW"
  ELSE IF Len(raw) < SizeOf(raw) THEN "FW_ERR_NOT_FOUND" ELSE "FW_OK"
Decode(raw) ==
  IF Len(raw) < HeaderSize + CrcSize THEN "FW_ERR_NOT_FOUND"
  ELSE IF SubSeq(raw, 1, 2) # <<SOF0, SOF1>> THEN "FW_ERR_CORRUPTED"
  ELSE IF LengthOf(raw) > MaxPayload THEN "FW_ERR_BUFFER_OVERFLOW"
  ELSE IF Len(raw) < SizeOf(raw) THEN "FW_ERR_NOT_FOUND"
  ELSE IF CrcHolds(raw) THEN "FW_OK" ELSE "FW_ERR_CORRUPTED"
FrameOf(raw) ==
  [seq |-> raw[3], id |-> raw[4],
   payload |-> SubSeq(raw, HeaderSize + 1, HeaderSize + LengthOf(raw))]

\* fw_zerowire_stream_sync: the first start of frame that is not known to be
\* none decides; without one all but the last byte are consumed.
From(bytes, i) == SubSeq(bytes, i, Len(bytes))
\* Faulty variant: what is no frame is skipped whole, by its length field.
DecidesAfter(bytes) ==
  {i \in 1 .. Len(bytes) - 1 :
    /\ SubSeq(bytes, i, i + 1) = <<SOF0, SOF1>>
    /\ \A j \in 1 .. i - 1 :
         SubSeq(bytes, j, j + 1) = <<SOF0, SOF1>> /\ Decode(From(bytes, j)) = "FW_ERR_CORRUPTED"
           => j + SizeOf(From(bytes, j)) <= i
    /\ Decode(From(bytes, i)) \in {"FW_OK", "FW_ERR_NOT_FOUND"}}
Decides(bytes) ==
  {i \in 1 .. Len(bytes) - 1 :
    /\ SubSeq(bytes, i, i + 1) = <<SOF0, SOF1>>
    /\ Decode(From(bytes, i)) \in {"FW_OK", "FW_ERR_NOT_FOUND"}}
NothingFound(bytes) == IF bytes = <<>> THEN 0 ELSE Len(bytes) - 1

StreamSync(bytes) ==
  LET decides == Decides(bytes) IN
  IF decides = {}
    THEN [status |-> "FW_ERR_NOT_FOUND", consumed |-> NothingFound(bytes), at |-> 0]
    ELSE LET i == CHOOSE i \in decides : \A j \in decides : i <= j
             status == Decode(From(bytes, i))
         IN  [status |-> status, at |-> i,
              consumed |-> IF status = "FW_OK" THEN i - 1 + SizeOf(From(bytes, i)) ELSE i - 1]
=============================================================================
