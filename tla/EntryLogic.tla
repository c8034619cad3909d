------------------------------- MODULE EntryLogic -------------------------------
(***************************************************************************)
(* strategy_1/entry_logic.py: sell the call, then the put, write an intent   *)
(* before every call of the broker, and turn what the broker answered into   *)
(* OPEN, or into ERROR with the instance frozen.  A call leg that stands     *)
(* alone because the put failed is bought back (the auto-unwind).            *)
(***************************************************************************)
EXTENDS Broker

\* RiskCore.validate_entry, the checks over state the model has: strategy_state and
\* the two halt flags.  The others (hours, loss limit, margin) may fail at will.
approve_entry == inst = "ACTIVE" /\ ~halted

\* enter(), up to the durable record: the pre-gates read and never write.
enter ==
    /\ pc = "idle" /\ runner = "RUNNING"
    /\ entryDue /\ clock # "pre"
    /\ entryDue' = FALSE
    /\ pc' \in IF posState = "IDLE" /\ approve_entry
                 THEN {"idle", "e_create"} ELSE {"idle"}
    /\ UNCHANGED <<dbVars, brokerVars, localVars, runner, monitor, worldVars>>

\* _create_durable_record: position, both trades and both intents, one commit.
\* The runner's lock makes this process the only writer, so the insert wins.
create_durable_record ==
    /\ pc = "e_create"
    /\ posState' = "ENTRY_PENDING"
    /\ tradeStatus' = [l \in Leg |-> "PENDING"]
    /\ intent' = [t \in Tag |-> IF t[1] = "E" THEN "PENDING" ELSE intent[t]]
    /\ leg' = "CE"
    /\ pc' = "e_mark"
    /\ UNCHANGED <<trigger, exitReason, entryPrice, exitPrice, pnl, started, row, flagVars,
                   brokerVars, polled, seen, outcome, reason, todo, view, runnerVars, worldVars>>

\* Slip: an ambiguous call leg does not stop the entry.
afterLeg_presses_on(l, result) ==
    CASE l = "CE" /\ result # "FAILED"    -> "e_mark"
      [] l = "CE" /\ result = "FAILED"    -> "e_error"
      [] l = "PE" /\ result = "FILLED"    -> "e_final"
      [] OTHER                            -> "u_mark"

\* _place_and_finalize: what follows a leg's outcome.
afterLeg(l, result) ==
    CASE l = "CE" /\ result = "FILLED"    -> "e_mark"
      [] l = "CE" /\ result = "FAILED"    -> "e_error"
      [] l = "CE" /\ result = "AMBIGUOUS" -> "e_break"
      [] l = "PE" /\ result = "FILLED"    -> "e_final"
      [] OTHER                            -> "u_mark"

legEnds(result) ==
    /\ outcome' = [outcome EXCEPT ![leg] = result]
    /\ pc' = afterLeg(leg, result)
    /\ leg' = IF afterLeg(leg, result) = "e_mark" THEN "PE" ELSE leg
    /\ UNCHANGED <<seen, reason, todo, view>>

\* Slip: the note is left for after the call.
place_leg_mark_later ==
    /\ pc = "e_mark"
    /\ pc' = "e_send"
    /\ UNCHANGED <<tradeVars, orderVars, book, localVars>> /\ keepsPosition

\* _place_leg: SUBMITTED_UNCONFIRMED is committed before the call.
place_leg_mark ==
    /\ pc = "e_mark"
    /\ intent' = [intent EXCEPT ![E(leg)] = "SUBMITTED_UNCONFIRMED"]
    /\ started' = started \cup {E(leg)}
    /\ pc' = "e_send"
    /\ UNCHANGED <<tradeVars, row, book, localVars>> /\ keepsPosition

place_leg_send ==
    /\ pc = "e_send"
    /\ \/ Acknowledges(E(leg)) /\ pc' = "e_ack" /\ UNCHANGED localVars
       \/ Refuses(E(leg)) /\ pc' = "e_reject" /\ UNCHANGED localVars
       \/ NotSent(E(leg)) /\ pc' = "e_unsent" /\ UNCHANGED localVars
       \/ TimesOut(E(leg)) /\ legEnds("AMBIGUOUS") /\ UNCHANGED polled
    /\ UNCHANGED <<tradeVars, orderVars>> /\ keepsPosition

record_leg_rejection ==
    /\ pc = "e_reject"
    /\ row' = [row EXCEPT ![E(leg)] = rejectedUnsent(@)]
    /\ intent' = [intent EXCEPT ![E(leg)] = "FAILED"]
    /\ legEnds("FAILED")
    /\ UNCHANGED <<tradeVars, started, book, polled>> /\ keepsPosition

mark_intent_failed ==
    /\ pc = "e_unsent"
    /\ intent' = [intent EXCEPT ![E(leg)] = "FAILED"]
    /\ legEnds("FAILED")
    /\ UNCHANGED <<tradeVars, started, row, book, polled>> /\ keepsPosition

\* _confirm_and_record: the acknowledged order gets its row.
confirm_and_record ==
    /\ pc = "e_ack"
    /\ row' = [row EXCEPT ![E(leg)] = acknowledged(@)]
    /\ intent' = [intent EXCEPT ![E(leg)] = "PLACED"]
    /\ pc' = "e_poll"
    /\ UNCHANGED <<tradeVars, started, book, localVars>> /\ keepsPosition

\* _poll_until_terminal: a terminal snapshot, or none inside the poll window
\* (the order is still working, or every get_order failed).
poll_entry ==
    /\ pc = "e_poll"
    /\ \/ /\ LastOrder(E(leg)).status \in Terminal
          /\ polled' = LastOrder(E(leg))
          /\ pc' = "e_load"
          /\ UNCHANGED <<leg, seen, outcome, reason, todo, view>>
       \/ legEnds("AMBIGUOUS") /\ UNCHANGED polled
    /\ UNCHANGED <<tradeVars, orderVars, book>> /\ keepsPosition

\* Slips: only a rejection counts as a failure; any price will do.
read_back_unless_rejected ==
    LET ok == row[E(leg)].status # "REJECTED" IN
    /\ pc = "e_read"
    /\ intent' = IF ok THEN intent ELSE [intent EXCEPT ![E(leg)] = "FAILED"]
    /\ legEnds(IF ok THEN "FILLED" ELSE "FAILED")
    /\ polled' = NoOrder
    /\ UNCHANGED <<tradeVars, started, row, book>> /\ keepsPosition

read_back_any_price ==
    LET ok == row[E(leg)].status = "COMPLETE" IN
    /\ pc = "e_read"
    /\ intent' = IF ok THEN intent ELSE [intent EXCEPT ![E(leg)] = "FAILED"]
    /\ legEnds(IF ok THEN "FILLED" ELSE "FAILED")
    /\ polled' = NoOrder
    /\ UNCHANGED <<tradeVars, started, row, book>> /\ keepsPosition

\* The committed row decides.  COMPLETE without a real price raises, which
\* freezes the instance with the position left ENTRY_PENDING.
read_back ==
    LET r == row[E(leg)] IN
    /\ pc = "e_read"
    /\ IF r.status = "COMPLETE" /\ r.price # "real"
         THEN /\ hookRaises({"FROZEN"})
              /\ UNCHANGED <<positionVars, tradeVars, orderVars, breaks, brokerVars,
                             monitor, entryDue, worldVars>>
         ELSE /\ intent' = IF r.status = "COMPLETE" THEN intent
                           ELSE [intent EXCEPT ![E(leg)] = "FAILED"]
              /\ legEnds(IF r.status = "COMPLETE" THEN "FILLED" ELSE "FAILED")
              /\ polled' = NoOrder
              /\ UNCHANGED <<tradeVars, started, row, book>> /\ keepsPosition

\* _finalize_open: both fills, the thresholds and OPEN in one commit.
finalize_open ==
    /\ pc = "e_final"
    /\ tradeStatus' = [l \in Leg |-> "OPEN"]
    /\ entryPrice' = [l \in Leg |-> row[E(l)].price]
    /\ posState' = "OPEN"
    /\ intent' = [t \in Tag |-> IF t[1] = "E" THEN "CONFIRMED" ELSE intent[t]]
    /\ pc' = "e_attach"
    /\ UNCHANGED <<trigger, exitReason, exitPrice, pnl, started, row, flagVars,
                   brokerVars, localVars, runnerVars, worldVars>>

\* That commit failed: nothing of it is kept, and the exception is contained.
finalize_open_fails ==
    /\ pc = "e_final"
    /\ faults < MaxFaults /\ faults' = faults + 1
    /\ pc' = "e_orphan"
    /\ UNCHANGED <<dbVars, brokerVars, localVars, runnerVars, clock, halted, crashes>>

record_orphan_fill ==
    /\ pc = "e_orphan"
    /\ recordBreak("ORPHAN_FILL")
    /\ hookReturns(monitor)
    /\ UNCHANGED <<positionVars, tradeVars, orderVars, inst, brokerVars,
                   clock, halted, crashes>>

--------------------------------------------------------------------------------
(* The auto-unwind of the call leg. *)

\* The unwind intent is created and marked started in one commit.
auto_unwind_mark ==
    /\ pc = "u_mark"
    /\ intent' = [intent EXCEPT ![U] = "SUBMITTED_UNCONFIRMED"]
    /\ started' = started \cup {U}
    /\ pc' = "u_send"
    /\ UNCHANGED <<tradeVars, row, book, localVars>> /\ keepsPosition

\* Any broker error ends the unwind here, the intent left in doubt.
auto_unwind_send ==
    /\ pc = "u_send"
    /\ \/ Acknowledges(U) /\ pc' = "u_poll"
       \/ "badunwind" \in Env /\ TimesOut(U) /\ pc' = "e_break"
    /\ UNCHANGED <<tradeVars, orderVars, localVars>> /\ keepsPosition

auto_unwind_poll ==
    /\ pc = "u_poll"
    /\ \/ LastOrder(U).status \in Terminal /\ polled' = LastOrder(U)
       \/ "badunwind" \in Env /\ polled' = NoOrder
    /\ pc' = "u_record"
    /\ UNCHANGED <<tradeVars, orderVars, book, leg, seen, outcome, reason, todo, view>>
    /\ keepsPosition

\* No orders row is ever written for the unwind.
auto_unwind_record ==
    LET filled == polled.status = "COMPLETE" IN
    /\ pc = "u_record"
    /\ tradeStatus' = [tradeStatus EXCEPT !["CE"] = IF filled THEN "UNWOUND" ELSE "ERROR"]
    /\ exitPrice' = [exitPrice EXCEPT !["CE"] = IF filled THEN polled.price ELSE @]
    /\ intent' = [intent EXCEPT ![U] = IF filled THEN "CONFIRMED" ELSE "FAILED"]
    /\ polled' = NoOrder
    /\ pc' = "e_break"
    /\ UNCHANGED <<entryPrice, pnl, started, row, book, leg, seen, outcome, reason, todo, view>>
    /\ keepsPosition

\* _record_break: its own transaction, and its failure is swallowed.
entry_record_break ==
    /\ pc = "e_break"
    /\ recordBreak(IF \E l \in Leg : outcome[l] = "AMBIGUOUS"
                      THEN "AMBIGUOUS_ACK" ELSE "PARTIAL_ENTRY")
    /\ pc' = "e_error"
    /\ UNCHANGED <<positionVars, tradeVars, orderVars, inst, brokerVars, localVars,
                   runnerVars, clock, halted, crashes>>

\* _fail_to_error: ERROR and FROZEN in one commit; the runner itself stays RUNNING.
entry_fail_to_error ==
    /\ pc = "e_error"
    /\ failToError
    /\ hookReturns(monitor)
    /\ UNCHANGED <<tradeVars, orderVars, breaks, brokerVars, worldVars>>

EntryNext ==
    \/ enter \/ create_durable_record
    \/ place_leg_mark \/ place_leg_send \/ record_leg_rejection \/ mark_intent_failed
    \/ confirm_and_record \/ poll_entry \/ read_back
    \/ reconcile_order_load("e_load", "e_apply")
    \/ reconcile_order_terminal("e_apply", "e_read")
    \/ finalize_open \/ finalize_open_fails \/ record_orphan_fill
    \/ auto_unwind_mark \/ auto_unwind_send \/ auto_unwind_poll \/ auto_unwind_record
    \/ entry_record_break \/ entry_fail_to_error
================================================================================
