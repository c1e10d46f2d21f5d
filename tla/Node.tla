--------------------------------- MODULE Node ---------------------------------
(***************************************************************************)
(* The superloop of interactive_demo/main.c: an application that talks to  *)
(* itself over a UART whose transmit ring is looped back to its receive    *)
(* ring (uart.c).  Each iteration sends telemetry when the heartbeat is    *)
(* due, moves the bytes, handles at most one frame, runs its tasklet, and  *)
(* takes a step of the --auto sequence and a key.  Bytes are concrete.     *)
(***************************************************************************)
EXTENDS Rpc

CONSTANTS
  Ping, Telemetry,  (* MSG_CMD_PING, MSG_TELEMETRY_DATA *)
  Payload, Pong,    (* per message its payload; that of the answer to a ping *)
  Garbage,          (* the corrupted packet of action 5 *)
  Ring,             (* UART_BUFFER_SIZE *)
  SliceSize,        (* of rx_raw *)
  SeqLimit          (* sequence numbers wrap here *)

ASSUME NodeAssumption ==
  /\ Ping \in Byte /\ Telemetry \in Byte /\ Garbage \in Seq(Byte)
  /\ \A p \in {Payload[Ping], Payload[Telemetry], Pong} :
       p \in Seq(Byte) /\ Len(p) <= MaxPayload
  /\ Ring \in Nat \ {0} /\ SliceSize \in Nat \ {0} /\ SeqLimit \in 1 .. 256

\* The bytes of an answer, of the heartbeat and of a ping, and of what a key sends.
Framed(payload) == HeaderSize + Len(payload) + CrcSize
AnswerSize == Framed(Pong)
BeatSize == Framed(Payload[Telemetry])
PingSize == Framed(Payload[Ping])
KeySize == {PingSize, BeatSize, Len(Garbage)}

\* A slice takes what one iteration sends, and a ring has room for what --auto
\* sends in all besides.
ASSUME NodeSizes ==
  \A n \in KeySize :
    /\ AnswerSize + BeatSize + n <= SliceSize
    /\ AnswerSize + BeatSize + n + BeatSize + PingSize + Len(Garbage) <= Ring

VARIABLES
  turn,        (* what the iteration does next *)
  running,     (* is_running *)
  heartbeat,   (* auto_heartbeat_enabled *)
  autoStep,    (* auto_step, or 7 without --auto *)
  packets,     (* packets_sent *)
  txRing, rxRing,
  posted,      (* the frame whose tasklet is posted, or none *)
  flying,      (* history: the frames written, and where on the wire each starts *)
  unsent,      (* history: whether a frame was handled that is none of them *)
  sends,       (* history: whether the application's last step sent something *)
  lone         (* history: a ping sent on an empty wire and not yet answered *)

loop == <<turn, running, heartbeat, autoStep>>
wire == <<packets, txRing, rxRing, flying>>
nodeVars == <<loop, wire, posted, unsent, sends, lone>>

NodeInit ==
  /\ turn = "heartbeat" /\ running = TRUE /\ heartbeat = TRUE
  /\ autoStep \in {0, 7}
  /\ packets = 0 /\ txRing = <<>> /\ rxRing = <<>> /\ posted = {}
  /\ flying = {} /\ unsent = FALSE /\ sends = FALSE /\ lone = {}

Turn(from, to) == turn = from /\ turn' = to

\* fw_spsc_write: what fits, from the start; the results are not looked at.
FirstOf(bytes, n) == SubSeq(bytes, 1, IF Len(bytes) < n THEN Len(bytes) ELSE n)
Written(ring, bytes) == ring \o FirstOf(bytes, Ring - Len(ring))
\* fw_uart_mock_extract_tx and fw_uart_mock_inject_rx, byte after byte.
Loopback == Written(rxRing, txRing)
Wire == rxRing \o txRing
Moved(frames, n) == {[f EXCEPT !.at = @ - n] : f \in frames}

\* send_zerowire_packet
Send(id) ==
  LET seq == (packets + 1) % SeqLimit
      frame == [seq |-> seq, id |-> id, payload |-> Payload[id]]
  IN  /\ packets' = seq
      /\ txRing' = Written(txRing, Encode(frame, MaxFrame))
      /\ flying' = flying \cup {[frame |-> frame, at |-> Len(Wire) + 1]}
      /\ lone' = IF id = Ping /\ Wire = <<>> /\ lone = {} THEN {seq} ELSE lone
      /\ sends' = TRUE
      /\ UNCHANGED rxRing
SendGarbage ==
  /\ txRing' = Written(txRing, Garbage)
  /\ sends' = TRUE
  /\ UNCHANGED <<packets, rxRing, flying, lone>>
SendNothing == sends' = FALSE /\ UNCHANGED <<wire, lone>>

\* A. The heartbeat, once it has expired.
Heartbeat ==
  /\ running /\ Turn("heartbeat", "wire")
  /\ (heartbeat /\ Send(Telemetry)) \/ SendNothing
  /\ UNCHANGED <<running, heartbeat, autoStep, posted, unsent>>

\* C. service_virtual_wire_loopback, then service_uart_rx_stream: of the bytes
\* read the first frame is handled and the rest is dropped.
Service ==
  LET slice == FirstOf(Loopback, SliceSize)
      sync == StreamSync(slice)
      found == FrameOf(From(slice, sync.at))
      ok == slice # <<>> /\ sync.status = "FW_OK"
      reply == Reply(found, Pong)
      answers == ok /\ Accepted([id \in {Ping} |-> 0], found)
      rest == From(Loopback, Len(slice) + 1)
      kept == {f \in Moved(flying, Len(slice)) : f.at > 0}
  IN  /\ Turn("wire", "tasklets")
      /\ rxRing' = rest
      /\ posted' = IF ok THEN {found} ELSE {}
      /\ txRing' = IF answers THEN Written(<<>>, Encode(reply, MaxFrame)) ELSE <<>>
      /\ flying' = IF answers THEN kept \cup {[frame |-> reply, at |-> Len(rest) + 1]}
                   ELSE kept
      /\ unsent' = (unsent \/ (ok /\ [frame |-> found, at |-> sync.at] \notin flying))
      /\ UNCHANGED <<running, heartbeat, autoStep, packets, sends, lone>>

\* D. fw_tasklet_dispatch_all runs on_packet_processed_tasklet, which reports.
Tasklets ==
  /\ Turn("tasklets", "auto")
  /\ posted' = {}
  /\ lone' = lone \ {f.seq : f \in {g \in posted : g.id = Reply(g, <<>>).id}}
  /\ UNCHANGED <<running, heartbeat, autoStep, wire, unsent, sends>>

\* E1. The actions of --auto, each at its time.
AutoActions ==
  /\ Turn("auto", "key")
  /\ \/ autoStep' = autoStep /\ running' = running /\ SendNothing
     \/ /\ autoStep < 6
        /\ autoStep' = autoStep + 1 /\ running' = running
        /\ CASE autoStep = 1 -> Send(Telemetry)
             [] autoStep = 2 -> Send(Ping)
             [] autoStep = 4 -> SendGarbage
             [] OTHER -> SendNothing
     \/ /\ autoStep = 6
        /\ running' = FALSE /\ SendNothing /\ UNCHANGED autoStep
  /\ UNCHANGED <<heartbeat, posted, unsent>>

\* E2. A key, if one is pressed, and the sleep that ends the iteration.
Key ==
  /\ Turn("key", "heartbeat")
  /\ \/ UNCHANGED <<running, heartbeat>> /\ (Send(Telemetry) \/ Send(Ping) \/ SendGarbage)
     \/ heartbeat' = ~heartbeat /\ SendNothing /\ UNCHANGED running
     \/ running' = FALSE /\ SendNothing /\ UNCHANGED heartbeat
     \/ SendNothing /\ UNCHANGED <<running, heartbeat>>
  /\ UNCHANGED <<autoStep, posted, unsent>>

\* The program has ended.
Ended == turn = "heartbeat" /\ ~running /\ UNCHANGED nodeVars

Iterate == Heartbeat \/ Service \/ Tasklets \/ AutoActions \/ Key
NodeNext == Iterate \/ Ended

\* Neither the loop nor a call in it blocks.
GoesOn ==
  /\ running \/ turn # "heartbeat"
  /\ turn' \in {"heartbeat", "wire", "tasklets", "auto", "key"} \ {turn}
NodeSpec == NodeInit /\ [][NodeNext]_nodeVars /\ WF_turn(GoesOn)
-----------------------------------------------------------------------------
\* What fw_uart_write was handed lies on the wire whole and in place until it
\* is read, although nobody looks at what it accepted.
SentWhole ==
  \A f \in flying :
    LET bytes == Encode(f.frame, MaxFrame)
    IN  /\ f.at + Len(bytes) - 1 <= Len(Wire)
        /\ SubSeq(Wire, f.at, f.at + Len(bytes) - 1) = bytes

\* And whatever a slice cuts off or corrupted packets leave behind, only frames
\* that were sent are handled.
WireWhole == ~unsent /\ SentWhole

\* A ping sent while nothing else is on the wire is answered and the answer
\* comes back and is handled, whatever is sent behind it; and once the
\* application sends no more the wire falls silent: no answer is answered.
Converses ==
  /\ (lone # {}) ~> (lone = {} \/ ~running)
  /\ <>[]~sends => <>[](Wire = <<>> \/ ~running)
=============================================================================
