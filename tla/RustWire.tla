------------------------------- MODULE RustWire -------------------------------
(***************************************************************************)
(* The framing a second time, from protocol.rs of the Rust crate zero-core *)
(* with its CRC table, which the C-ABI of that file offers in place of     *)
(* zerowire.c.  Results carry the names of the C status codes.             *)
(***************************************************************************)
EXTENDS ZeroWire

VARIABLE given  (* the bytes that both codecs are given *)

\* generate_crc_table: what eight bits that leave the CRC do to it.
TableStep(curr) ==
  LET shifted == (2 * curr) % 2^16
  IN  IF curr >= 2^15 THEN Xor(shifted, 4129, 16) ELSE shifted
CrcTable ==
  [i \in 0 .. 255 |->
    LET curr[j \in 0 .. 8] == IF j = 0 THEN i * 256 ELSE TableStep(curr[j - 1])
    IN  curr[8]]
\* Faulty variant: the table is entered with the low byte of the CRC.
ByteStepLow(crc, byte) ==
  Xor((256 * crc) % 2^16, CrcTable[Xor(crc % 256, byte, 8)], 16)
\* crc16_ccitt
ByteStep(crc, byte) ==
  Xor((256 * crc) % 2^16, CrcTable[Xor(crc \div 256, byte, 8)], 16)
RustCrc16(data) ==
  LET crc[k \in 0 .. Len(data)] ==
        IF k = 0 THEN CrcStart ELSE ByteStep(crc[k - 1], data[k])
  IN  crc[Len(data)]

\* encode_frame into a slice of this many bytes; nothing if it refuses.
RustEncode(frame, room) ==
  LET length == Len(frame.payload)
      header == <<SOF0, SOF1, frame.seq, frame.id>> \o TwoBytes(length)
      crc == RustCrc16(header \o frame.payload)
  IN  IF length > MaxPayload \/ room < HeaderSize + length + CrcSize THEN <<>>
      ELSE header \o frame.payload \o TwoBytes(crc)

\* decode_frame
RustDecode(src) ==
  LET length == FromTwoBytes(src[5], src[6])
      total == HeaderSize + length + CrcSize
  IN  IF Len(src) < HeaderSize + CrcSize THEN [status |-> "FW_ERR_NOT_FOUND"]
      ELSE IF src[1] # SOF0 \/ src[2] # SOF1 THEN [status |-> "FW_ERR_CORRUPTED"]
      ELSE IF length > MaxPayload THEN [status |-> "FW_ERR_BUFFER_OVERFLOW"]
      ELSE IF Len(src) < total THEN [status |-> "FW_ERR_NOT_FOUND"]
      ELSE IF RustCrc16(SubSeq(src, 1, total - 2)) # FromTwoBytes(src[total - 1], src[total])
        THEN [status |-> "FW_ERR_CORRUPTED"]
      ELSE [status |-> "FW_OK",
            frame |-> [seq |-> src[3], id |-> src[4],
                       payload |-> SubSeq(src, 7, 6 + length)]]

\* The twins read these bytes alike and write the frame in them alike.
Agree(bytes) ==
  LET rust == RustDecode(bytes) IN
  /\ rust.status = Decode(bytes)
  /\ rust.status = "FW_OK" =>
       /\ rust.frame = FrameOf(bytes)
       /\ \A room \in {Len(bytes) - 1, Len(bytes)} :
            RustEncode(rust.frame, room) = Encode(rust.frame, room)

\* Both are given what is received, from one byte on and then the next.
TwinsNext == given' = From(given, 2)
TwinsSpec == given \in Seq(Byte) /\ [][TwinsNext]_given

\* The Rust crate's framing reads frames, from every byte on, cut short and
\* damaged in any field, as that of zerowire.c does, and writes what it reads
\* as that does (protocol.rs:58-134, zerowire.c:49-113).
TwinsAgree == Agree(given)
=============================================================================
