------------------------------- MODULE KvStore -------------------------------
(***************************************************************************)
(* What a parameter store promises: a call takes effect at once, for good  *)
(* and for its own key alone, or not at all.  A power cut, a mount or a    *)
(* compaction is no step of this module except that it may end the call.   *)
(***************************************************************************)
CONSTANTS Key, Value, Gone

VARIABLES
  store,   (* store[k]: the value of key k, or Gone *)
  call     (* the call in progress: <<k, v>>, <<k, Gone>>, <<"format">> or none *)

Formatting == <<"format">>

Init ==
  /\ store = [k \in Key |-> Gone]
  /\ call = <<>>

Begin ==
  /\ call = <<>>
  /\ call' \in {Formatting} \cup (Key \X (Value \cup {Gone}))
  /\ UNCHANGED store

TakeEffect ==
  /\ call # <<>>
  /\ store' = IF call = Formatting THEN [k \in Key |-> Gone]
              ELSE [store EXCEPT ![call[1]] = call[2]]
  /\ call' \in {call, <<>>}

End ==
  /\ call # <<>>
  /\ call' = <<>>
  /\ UNCHANGED store

Next == Begin \/ TakeEffect \/ End

Spec == Init /\ [][Next]_<<store, call>>
=============================================================================
