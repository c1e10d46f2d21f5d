----------------------------- MODULE MCDispatcher -----------------------------
(* Bytes in pieces of any size.  To a device come payloads of up to two    *)
(* bytes, among them a start of frame; frames cut short, headers that      *)
(* promise what does not follow, and single bytes.  Messages are hashed    *)
(* and ciphered, images verified; the codecs of both languages read        *)
(* frames.  The parts share nothing, so that each behaviour lets one run.  *)
EXTENDS Dispatcher, RustWire, Streams

VARIABLE part
all == <<part, given, vars, hashVars, cipherVars, imageVars>>

Frame(seq, id, payload) == [seq |-> seq, id |-> id, payload |-> payload]
MCRequest == {Frame(1, 1, <<>>), Frame(2, 2, <<SOF0, SOF1>>), Frame(SOF0, 2, <<SOF0>>)}
MCNoise == {<<0>>, <<SOF0>>, <<SOF0, SOF1>>, <<SOF0, SOF1, 0, 0, 2, 0>>,
            <<SOF0, SOF1, 1, 1, 3, 0>>,
            SubSeq(Encode(Frame(2, 2, <<SOF0, SOF1>>), MaxFrame), 1, 9)}
MCTable == [id \in {2} |-> 1]
MCAnswer == {<<7>>, <<SOF0, SOF1>>}

\* Frames any one byte of which may be another and that may end early.
MCDamaged ==
  UNION {{SubSeq([Encode(f, MaxFrame) EXCEPT ![k] = byte], 1, n) :
            k \in 1 .. 8, byte \in {0, 1, 3, 255}, n \in 6 .. Len(Encode(f, MaxFrame))} :
         f \in MCRequest}

\* fw_crc16_ccitt of "123456789" is the check value of CRC-16/CCITT-FALSE.
ASSUME CrcCheckValue == Crc16(<<49, 50, 51, 52, 53, 54, 55, 56, 57>>) = 10673

DevicePart == part = "device" /\ Next
  /\ UNCHANGED <<part, given, hashVars, cipherVars, imageVars>>
HashPart == part = "hash" /\ HashNext
  /\ UNCHANGED <<part, given, vars, cipherVars, imageVars>>
CipherPart == part = "cipher" /\ CipherNext
  /\ UNCHANGED <<part, given, vars, hashVars, imageVars>>
ImagePart == part = "image" /\ ImageNext
  /\ UNCHANGED <<part, given, vars, hashVars, cipherVars>>
CodecPart == part = "codec" /\ TwinsNext
  /\ UNCHANGED <<part, vars, hashVars, cipherVars, imageVars>>

PartsInit ==
  /\ part \in {"device", "hash", "cipher", "image", "codec"}
  /\ given \in (IF part = "codec" THEN MCDamaged ELSE {<<>>})
  /\ Init /\ HashInit /\ CipherInit /\ ImageInit
  /\ part # "cipher" => counter = 0
  /\ part # "image" => flawed = 0
PartsNext == DevicePart \/ HashPart \/ CipherPart \/ ImagePart \/ CodecPart

PartsSpec == PartsInit /\ [][PartsNext]_all
=============================================================================
