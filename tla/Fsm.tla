--------------------------------- MODULE Fsm ---------------------------------
(***************************************************************************)
(* The state machine engine of fsm.c.  A dispatch calls the old state's    *)
(* on_exit, the row's action and the new state's on_enter, and stores the  *)
(* state between the last two.  Nested says in which of them the           *)
(* application dispatches again.  Every state has both hooks and every     *)
(* row an action.                                                          *)
(***************************************************************************)
EXTENDS Integers, Sequences

CONSTANTS
  FsmState, FsmEvent,
  AnyState,     (* FW_FSM_STATE_ANY *)
  Transitions,  (* fw_fsm_t.transitions: from, event, guarded, to *)
  Nested,       (* the callbacks that dispatch: "exit", "action", "enter" *)
  FsmDepth      (* bound of the model: dispatches inside one another *)

ASSUME FsmAssumption ==
  /\ AnyState \notin FsmState
  /\ \A i \in DOMAIN Transitions : Transitions[i].to \in FsmState

VARIABLES
  current_state, previous_state,  (* of fw_fsm_t *)
  calls,              (* the dispatches under way, innermost last: where each
                         leads, the callback that runs, state_changing *)
  inside              (* history: per state, entries minus exits *)

fsmVars == <<current_state, previous_state, calls, inside>>

Nesting == Len(calls)
Deepest == calls[Nesting]

\* fw_fsm_init; the initial state's on_enter is called.
FsmInit ==
  /\ current_state \in FsmState /\ previous_state = current_state
  /\ calls = <<>>
  /\ inside = [s \in FsmState |-> IF s = current_state THEN 1 ELSE 0]

Applies(row, event) ==
  /\ row.event = event
  /\ row.from \in {current_state, AnyState}
\* A row is taken if its guard, when it has one, allows it and those of the
\* applicable rows before it did not.
MayTake(i, event) ==
  /\ Applies(Transitions[i], event)
  /\ \A j \in 1 .. i - 1 : Applies(Transitions[j], event) => Transitions[j].guarded

\* Faulty variant: on_exit is called for a state that stays.
ExitedAlways(to) == current_state
Exited(to) == IF current_state # to THEN current_state ELSE AnyState

\* fw_fsm_dispatch finds its row and calls on_exit, or the action at once.
FsmDispatch(event) ==
  /\ calls # <<>> => Deepest.at \in Nested
  /\ Nesting < FsmDepth
  /\ \E i \in DOMAIN Transitions :
       LET to == Transitions[i].to IN
       /\ MayTake(i, event)
       /\ calls' = Append(calls, [to |-> to, changing |-> current_state # to,
                                  at |-> IF current_state # to THEN "exit" ELSE "action"])
       /\ inside' = [s \in FsmState |-> IF s = Exited(to) THEN inside[s] - 1 ELSE inside[s]]
  /\ UNCHANGED <<current_state, previous_state>>

Proceed(phase) == calls' = [calls EXCEPT ![Nesting].at = phase]

\* on_exit has returned and the action is called.
Act ==
  /\ calls # <<>> /\ Deepest.at = "exit"
  /\ Proceed("action")
  /\ UNCHANGED <<current_state, previous_state, inside>>

\* The action has returned, the state is stored and on_enter called.
Store ==
  /\ calls # <<>> /\ Deepest.at = "action"
  /\ previous_state' = current_state
  /\ current_state' = Deepest.to
  /\ IF Deepest.changing
       THEN inside' = [inside EXCEPT ![Deepest.to] = @ + 1] /\ Proceed("enter")
       ELSE UNCHANGED inside /\ Proceed("done")

\* The dispatch returns.
FsmReturn ==
  /\ calls # <<>> /\ Deepest.at \in {"enter", "done"}
  /\ calls' = SubSeq(calls, 1, Nesting - 1)
  /\ UNCHANGED <<current_state, previous_state, inside>>

FsmNext ==
  \/ \E e \in FsmEvent : FsmDispatch(e)
  \/ Act \/ Store \/ FsmReturn

FsmSpec == FsmInit /\ [][FsmNext]_fsmVars
-----------------------------------------------------------------------------
\* Between dispatches the machine has entered the state it is in once more
\* than it has left it, and every other state as often as it has left it, so
\* that what on_enter turns on is on in that state alone (fsm.c:73-94).  The
\* code owes this to dispatching from on_enter only: a dispatch nested in
\* on_exit or in an action is overwritten by the outer one.
HooksPaired ==
  calls = <<>> =>
    inside = [s \in FsmState |-> IF s = current_state THEN 1 ELSE 0]
=============================================================================
