------------------------------- MODULE Streams -------------------------------
(***************************************************************************)
(* Three computations over data that comes, or is read, in pieces: the     *)
(* hash of sha256.c, the cipher of chacha20.c and the image check of       *)
(* ota.c.  What is done to a block is left out; which bytes make up a      *)
(* block, and in which order, is not.  The bytes of a message are 1, 2,    *)
(* 3 ..., so that none can stand for another.                              *)
(***************************************************************************)
EXTENDS Integers, Sequences

CONSTANTS
  HashBlock, LengthField,  (* FW_SHA256_BLOCK_SIZE and the bytes of bit_count: 64 and 8 *)
  CipherBlock,             (* 64 bytes of keystream *)
  CounterRange,            (* state[12] wraps here *)
  ImageChunk,              (* chunk_buf *)
  MessageLimit, ImageLimit (* bounds of the model *)

ASSUME StreamsAssumption ==
  /\ LengthField \in Nat /\ HashBlock \in Nat /\ HashBlock > LengthField
  /\ CipherBlock \in Nat \ {0} /\ ImageChunk \in Nat \ {0}
  /\ MessageLimit \in Nat /\ CounterRange \in Nat \ {0}
  /\ CounterRange >= MessageLimit  \* as many calls of a byte each
  /\ ImageLimit \in Nat

VARIABLES
  buffer, fed,      (* fw_sha256_ctx_t.buffer, .bit_count / 8 *)
  absorbed,         (* history: the blocks state was computed from, end to end *)
  todo,             (* the bytes fw_sha256_update has still to take; its data and len *)
  digested,         (* fw_sha256_final has returned *)
  counter,          (* fw_chacha20_ctx_t.state[12] *)
  pads,             (* history: the keystream bytes used, as block and place *)
  cut,              (* history: a call other than the last ended inside a block *)
  image, remaining, currAddr,  (* desc->image_size and the locals of fw_ota_verify_image *)
  flawed,           (* the address of a byte in flash that is not as it was built, or 0 *)
  seen, verdict     (* whether crc_acc has taken it in; what the call returned *)

hashVars == <<buffer, fed, absorbed, todo, digested>>
cipherVars == <<counter, pads, cut>>
imageVars == <<image, remaining, currAddr, flawed, seen, verdict>>

\* What a block holds besides data.
Zero == 0
Marker == -1  \* 0x80
Old == -2     \* whatever the memory held
LengthByte(k, n) == -(1000 * k + n)
Least(a, b) == IF a < b THEN a ELSE b

HashInit ==
  /\ buffer = [i \in 1 .. HashBlock |-> Old]
  /\ fed = 0 /\ absorbed = <<>> /\ todo = 0 /\ digested = FALSE

\* fw_sha256_init again, for the next message; it leaves the buffer alone.
RestartHash ==
  /\ digested
  /\ fed' = 0 /\ absorbed' = <<>> /\ digested' = FALSE
  /\ UNCHANGED <<buffer, todo>>

\* fw_sha256_update; an empty piece changes nothing.
UpdateHash(len) ==
  /\ todo = 0 /\ ~digested
  /\ todo' = len
  /\ UNCHANGED <<buffer, fed, absorbed, digested>>
\* One pass of its loop.
Absorb ==
  LET index == fed % HashBlock
      n == Least(HashBlock - index, todo)
      filled == [i \in 1 .. HashBlock |->
                  IF i \in index + 1 .. index + n THEN fed + i - index ELSE buffer[i]]
  IN  /\ todo > 0
      /\ todo' = todo - n /\ fed' = fed + n
      /\ buffer' = filled
      /\ absorbed' = IF index + n = HashBlock THEN absorbed \o filled ELSE absorbed
      /\ UNCHANGED digested

\* Faulty variant: the marker may take the first byte of the length.
SpillsLate(index) == index > HashBlock - LengthField + 1
\* Whether the length still fits behind the marker.
Spills(index) == index > HashBlock - LengthField
\* fw_sha256_final: the marker, zeros, a block of its own for the length if
\* need be.
FinalHash ==
  LET index == (fed % HashBlock) + 1
      marked == [buffer EXCEPT ![index] = Marker]
      ZeroFrom(block, from) ==
        [i \in 1 .. HashBlock |-> IF i > from THEN Zero ELSE block[i]]
      Closed(block) ==
        [i \in 1 .. HashBlock |->
          IF i > HashBlock - LengthField
          THEN LengthByte(i - HashBlock + LengthField, fed) ELSE block[i]]
  IN  /\ todo = 0 /\ ~digested
      /\ digested' = TRUE
      /\ absorbed' = absorbed \o
           (IF Spills(index)
            THEN ZeroFrom(marked, index) \o Closed(ZeroFrom(marked, 0))
            ELSE Closed(ZeroFrom(marked, index)))
      /\ buffer' = SubSeq(absorbed', Len(absorbed') - HashBlock + 1, Len(absorbed'))
      /\ UNCHANGED <<fed, todo>>

HashNext ==
  \/ \E len \in 1 .. MessageLimit : fed + len <= MessageLimit /\ UpdateHash(len)
  \/ Absorb \/ FinalHash \/ RestartHash
-----------------------------------------------------------------------------
\* fw_chacha20_init with the block counter the caller chooses, and a fresh key
\* or nonce.
CipherInit == counter \in 0 .. CounterRange - 1 /\ pads = <<>> /\ cut = FALSE
RestartCipher == counter' \in 0 .. CounterRange - 1 /\ pads' = <<>> /\ cut' = FALSE

\* fw_chacha20_crypt: a call starts with a block of its own and drops what is
\* left of its last one.
Crypt(len) ==
  LET blocks == (len + CipherBlock - 1) \div CipherBlock IN
  /\ counter' = (counter + blocks) % CounterRange
  /\ pads' = pads \o
       [i \in 1 .. len |-> <<(counter + (i - 1) \div CipherBlock) % CounterRange,
                             (i - 1) % CipherBlock>>]
  /\ cut' = (cut \/ Len(pads) % CipherBlock # 0)

CipherNext ==
  \/ \E len \in 1 .. MessageLimit : Len(pads) + len <= MessageLimit /\ Crypt(len)
  \/ RestartCipher
-----------------------------------------------------------------------------
ImageInit ==
  /\ flawed \in 0 .. ImageLimit
  /\ image = 0 /\ remaining = 0 /\ currAddr = 0 /\ seen = FALSE /\ verdict = "none"

\* fw_ota_verify_image; a size of 0 is refused.
VerifyImage(size) ==
  /\ verdict # "running"
  /\ image' = size /\ remaining' = size /\ currAddr' = 1
  /\ seen' = FALSE /\ verdict' = "running"
  /\ UNCHANGED flawed
ReadChunk ==
  LET n == Least(ImageChunk, remaining) IN
  /\ verdict = "running" /\ remaining > 0
  /\ \/ /\ seen' = (seen \/ flawed \in currAddr .. currAddr + n - 1)
        /\ currAddr' = currAddr + n /\ remaining' = remaining - n
        /\ UNCHANGED verdict
     \/ verdict' = "read error" /\ UNCHANGED <<seen, currAddr, remaining>>
  /\ UNCHANGED <<image, flawed>>
CompareCrc ==
  /\ verdict = "running" /\ remaining = 0
  /\ verdict' = IF seen THEN "FW_ERR_CORRUPTED" ELSE "FW_OK"
  /\ UNCHANGED <<image, remaining, currAddr, flawed, seen>>

ImageNext ==
  (\E size \in 1 .. ImageLimit : VerifyImage(size)) \/ ReadChunk \/ CompareCrc

StreamsSpec ==
  /\ HashInit /\ [][HashNext]_hashVars
  /\ CipherInit /\ [][CipherNext]_cipherVars
  /\ ImageInit /\ [][ImageNext]_imageVars
-----------------------------------------------------------------------------
\* FIPS 180-4: the message, a one bit, as few zeros as fill the last block, and
\* the length.
Padded(n) ==
  LET zeros == CHOOSE z \in 0 .. HashBlock - 1 : (n + 1 + z + LengthField) % HashBlock = 0
  IN  [i \in 1 .. n |-> i] \o <<Marker>> \o [i \in 1 .. zeros |-> Zero]
        \o [k \in 1 .. LengthField |-> LengthByte(k, n)]

\* What is ciphered in several calls is ciphered as in one: RFC 8439 numbers the
\* blocks of the whole message, and chacha20.h:6 calls this its "Symmetric
\* Stream Cipher".  chacha20.c:90-93 starts a block per call.
CipheredAsWhole ==
  \A i \in DOMAIN pads :
    pads[i] = <<(pads[1][1] + (i - 1) \div CipherBlock) % CounterRange, (i - 1) % CipherBlock>>

\* However a message is cut into calls of fw_sha256_update, the blocks hashed
\* are those of the standard's padding of the whole, at every length and with
\* nothing left of earlier blocks (sha256.c:74-115); no two bytes are ever
\* ciphered with the same keystream byte, and calls that end where blocks end
\* come to one call of the whole (chacha20.c:79, 82-104); and an image
\* is judged by its own bytes, all of them and none behind, however many
\* chunks they fill (ota.c:95-110).
StreamsRight ==
  /\ digested => absorbed = Padded(fed)
  /\ \A i, j \in DOMAIN pads : pads[i] = pads[j] => i = j
  /\ ~cut => CipheredAsWhole
  /\ verdict = "FW_OK" => flawed \notin 1 .. image
  /\ verdict = "FW_ERR_CORRUPTED" => flawed \in 1 .. image
=============================================================================
