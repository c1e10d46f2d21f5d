--------------------------------- MODULE Rpc ---------------------------------
(* How fw_cmd_dispatch of dispatcher.c treats a frame, for a table that    *)
(* gives per known message the payload it needs.                           *)
EXTENDS ZeroWire

\* A known message long enough goes to its handler.
Accepted(table, f) == f.id \in DOMAIN table /\ Len(f.payload) >= table[f.id]
\* Faulty variant: the response flag is forgotten.
ReplyUnflagged(f, answer) == [seq |-> f.seq, id |-> f.id, payload |-> answer]
\* What it answers with, if it does.
Reply(f, answer) == [seq |-> f.seq, id |-> (f.id % 128) + 128, payload |-> answer]
=============================================================================
