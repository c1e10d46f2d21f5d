------------------------------ MODULE Dispatcher ------------------------------
(***************************************************************************)
(* A device that answers requests: bytes arrive in pieces of any size in   *)
(* the application's buffer, the superloop calls fw_cmd_process_stream on  *)
(* it and drops what was consumed.  The host and the noise on the line are *)
(* outside the repository.                                                 *)
(***************************************************************************)
EXTENDS Rpc

CONSTANTS
  Request,  (* the frames the host sends *)
  Noise,    (* what else comes along the line: cut frames, stray bytes *)
  Table,    (* fw_cmd_table_t: per known message the payload it needs *)
  Answer,   (* the payloads handlers answer with *)
  TxRoom    (* size of tx_out_buf *)

ASSUME DispatcherAssumption ==
  /\ Request \subseteq WireFrame
  /\ Noise \subseteq Seq(Byte) /\ Answer \subseteq Seq(Byte)
  /\ \A a \in Answer : Len(a) \in 1 .. MaxPayload
  /\ TxRoom \in Nat

VARIABLES
  line,   (* bytes on their way *)
  rx,     (* the buffer handed over as rx_stream *)
  tx,     (* tx_out_buf up to *out_tx_len after the last call *)
  due,    (* history: requests on the line or in rx, where each starts *)
  asked,  (* history: the request last handed to fw_cmd_dispatch *)
  stray   (* history: whether one was handled that the host did not send *)

vars == <<line, rx, tx, due, asked, stray>>

Init ==
  /\ line = <<>> /\ rx = <<>> /\ tx = <<>>
  /\ due = <<>> /\ asked = <<>> /\ stray = FALSE

SendRequest(f) ==
  /\ line = <<>>
  /\ line' = Encode(f, MaxFrame)
  /\ due' = Append(due, [frame |-> f, at |-> Len(rx) + 1])
  /\ UNCHANGED <<rx, tx, asked, stray>>

Disturb(n) ==
  /\ line = <<>>
  /\ line' = n
  /\ UNCHANGED <<rx, tx, due, asked, stray>>

\* fw_uart_read takes what the ring behind the UART holds by now; the buffer
\* has room for the largest frame.
Receive(k) ==
  /\ k <= Len(line) /\ Len(rx) + k <= MaxFrame
  /\ rx' = rx \o SubSeq(line, 1, k)
  /\ line' = From(line, k + 1)
  /\ UNCHANGED <<tx, due, asked, stray>>

\* fw_cmd_dispatch: a known message long enough goes to its handler, which may
\* refuse it, have nothing to say or answer; all else is not answered.
\* Faulty variant: the length of the last answer is not reset.
DispatchStale(f) ==
  \/ UNCHANGED tx
  \/ Accepted(Table, f) /\ \E a \in Answer : tx' = Encode(Reply(f, a), TxRoom)
Dispatch(f) ==
  \/ tx' = <<>>
  \/ Accepted(Table, f) /\ \E a \in Answer : tx' = Encode(Reply(f, a), TxRoom)

Shifted(d, n) == [i \in DOMAIN d |-> [d[i] EXCEPT !.at = @ - n]]

\* fw_cmd_process_stream; whatever it returns, the application drops what was
\* consumed.
Process ==
  /\ rx # <<>>
  /\ UNCHANGED line
  /\ \E sync \in {StreamSync(rx)} :
       /\ rx' = From(rx, sync.consumed + 1)
       /\ \/ /\ sync.status = "FW_OK"
             /\ LET found == FrameOf(From(rx, sync.at))
                    expected == due # <<>> /\ due[1] = [frame |-> found, at |-> sync.at]
                IN  /\ Dispatch(found)
                    /\ asked' = <<found>>
                    /\ due' = Shifted(IF expected THEN Tail(due) ELSE due, sync.consumed)
                    /\ stray' = (stray \/ ~expected)
          \/ /\ sync.status # "FW_OK"
             /\ tx' = <<>>
             /\ due' = Shifted(due, sync.consumed)
             /\ UNCHANGED <<asked, stray>>

Next ==
  \/ \E f \in Request : SendRequest(f)
  \/ \E n \in Noise : Disturb(n)
  \/ \E k \in 1 .. MaxFrame : Receive(k)
  \/ Process

Spec == Init /\ [][Next]_vars
-----------------------------------------------------------------------------
\* A request that arrives whole is handled, whatever cut frames, false starts
\* and stray bytes come before it and however the bytes are sliced: the scan
\* consumes its first byte only together with the frame (zerowire.c:126-145).
\* Nothing else is handled, and the requests in the order they were sent.
RequestsHandled == ~stray /\ \A i \in DOMAIN due : due[i].at >= 1

\* A buffer for the largest frame never jams: full, it holds a frame or
\* something the scan gives up (zerowire.c:86-88, 134-144).
RoomRemains ==
  Len(rx) = MaxFrame => StreamSync(rx).consumed > 0

\* What the device answers is a whole frame in the eyes of the same code, with
\* the sequence number and message of the request it answers and the high bit
\* set (dispatcher.c:59-63, 101-103).
RepliesReadable ==
  tx # <<>> =>
    /\ Decode(tx) = "FW_OK" /\ SizeOf(tx) = Len(tx)
    /\ asked # <<>> /\ FrameOf(tx).seq = asked[1].seq
    /\ FrameOf(tx).id = (asked[1].id % 128) + 128
=============================================================================
