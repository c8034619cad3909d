------------------------- MODULE PositionStateMachine -------------------------
(***************************************************************************)
(* The legal life of one Position row, as strategy_1/state_machine.py       *)
(* states it: a graph over six states, held as data, plus one edge that     *)
(* only an operator or recovery may take.  It is the abstract specification *)
(* that the whole trade cycle (module Strategy1) has to implement:          *)
(* reconciliation writes states through PositionRepository.transition_state, *)
(* which validates nothing, so only the composed system can keep the graph.  *)
(***************************************************************************)

VARIABLE state

IDLE == "IDLE"
ENTRY_PENDING == "ENTRY_PENDING"
OPEN == "OPEN"
EXIT_PENDING == "EXIT_PENDING"
CLOSED == "CLOSED"
ERROR == "ERROR"

PositionState == {IDLE, ENTRY_PENDING, OPEN, EXIT_PENDING, CLOSED, ERROR}

Actor == {"STRATEGY", "KILL_SWITCH", "MANUAL", "RECOVERY"}

allowed_transitions ==
    [s \in PositionState |->
        CASE s = IDLE -> {ENTRY_PENDING, ERROR}
          [] s = ENTRY_PENDING -> {OPEN, CLOSED, ERROR}
          [] s = OPEN -> {EXIT_PENDING, ERROR}
          [] s = EXIT_PENDING -> {CLOSED, ERROR}
          [] s = ERROR -> {CLOSED}
          [] s = CLOSED -> {}]

is_transition_allowed(from, to) == to \in allowed_transitions[from]

\* ERROR -> CLOSED is an operator's or recovery's decision, never the strategy's.
is_transition_allowed_for_actor(from, to, actor) ==
    /\ is_transition_allowed(from, to)
    /\ <<from, to>> = <<ERROR, CLOSED>> => actor \in {"MANUAL", "RECOVERY"}

\* transition(): the same state again is a no-op, anything illegal raises.
transition(to, actor) ==
    /\ is_transition_allowed_for_actor(state, to, actor)
    /\ state' = to

Init == state = IDLE

Next == \E to \in PositionState, actor \in Actor : transition(to, actor)

Spec == Init /\ [][Next]_state
================================================================================
