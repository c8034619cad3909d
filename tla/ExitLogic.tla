-------------------------------- MODULE ExitLogic --------------------------------
(***************************************************************************)
(* strategy_1/exit_logic.py: decide whether to exit, record EXIT_PENDING and  *)
(* the exit intents, buy both legs back, and close the position.  The same    *)
(* exit() completes an exit that a crash interrupted: a leg whose call was    *)
(* started is looked up at the broker by its tag before it is sent again.     *)
(***************************************************************************)
EXTENDS Broker

NoPremium == -1

\* Slip: without a price nothing is decided.
evaluate_exit_priced(late, halt, premium, target, stoploss) ==
    CASE premium = NoPremium -> "none"
      [] premium # NoPremium /\ late -> "TIMEOUT"
      [] premium # NoPremium /\ ~late /\ halt -> "KILL_SWITCH"
      [] premium # NoPremium /\ ~late /\ ~halt /\ premium >= stoploss -> "STOPLOSS"
      [] OTHER -> "none"

\* evaluate_exit: cutoff, then halt, both regardless of price; then stop-loss,
\* then target, which need a combined premium.
evaluate_exit(late, halt, premium, target, stoploss) ==
    CASE late -> "TIMEOUT"
      [] ~late /\ halt -> "KILL_SWITCH"
      [] ~late /\ ~halt /\ premium # NoPremium /\ premium >= stoploss -> "STOPLOSS"
      [] ~late /\ ~halt /\ premium # NoPremium /\ premium < stoploss /\ premium <= target -> "TARGET"
      [] OTHER -> "none"

\* Slip: the transition is left to the end of the exit.
prepare_exit_unrecorded ==
    /\ pc = "x_prepare"
    /\ intent' = [t \in Tag |-> IF t[1] = "X" /\ intent[t] = "NONE" THEN "PENDING" ELSE intent[t]]
    /\ leg' \in Leg
    /\ pc' = "x_leg"
    /\ UNCHANGED <<positionVars, tradeVars, started, row, flagVars, brokerVars, polled, seen,
                   outcome, reason, todo, view, runnerVars, worldVars>>

\* _prepare_exit: EXIT_PENDING with its reason in the audit row, and both exit
\* intents, in one commit.  The legs come in no stated order.  A position that
\* is neither OPEN nor EXIT_PENDING ends the exit here.
prepare_exit ==
    /\ pc = "x_prepare"
    /\ IF posState \in {"OPEN", "EXIT_PENDING"}
         THEN /\ posState' = "EXIT_PENDING"
              /\ trigger' = IF posState = "OPEN" THEN reason ELSE trigger
              /\ intent' = [t \in Tag |-> IF t[1] = "X" /\ intent[t] = "NONE"
                                            THEN "PENDING" ELSE intent[t]]
              /\ leg' \in Leg
              /\ pc' = "x_leg"
              /\ UNCHANGED <<polled, seen, outcome, reason, todo, view, runnerVars>>
         ELSE hookReturns(FALSE) /\ UNCHANGED <<posState, trigger, intent>>
    /\ UNCHANGED <<exitReason, tradeVars, started, row, flagVars, brokerVars, worldVars>>

\* exit(), phase 2: both legs are attempted whatever the first one did.
closeEnds(result) ==
    LET done == [outcome EXCEPT ![leg] = result] IN
    /\ outcome' = done
    /\ leg' = IF outcome[other(leg)] = "none" THEN other(leg) ELSE leg
    /\ pc' = CASE outcome[other(leg)] = "none" -> "x_leg"
               [] \A l \in Leg : done[l] = "CLOSED" -> "x_final"
               [] OTHER -> "x_break"
    /\ polled' = NoOrder
    /\ UNCHANGED <<seen, reason, todo, view>>

\* Slip: a call that was started is not looked up.
close_leg_unlooked ==
    /\ pc = "x_leg"
    /\ IF tradeStatus[leg] = "CLOSED" THEN closeEnds("CLOSED")
         ELSE pc' = "x_mark" /\ UNCHANGED localVars
    /\ UNCHANGED <<tradeVars, orderVars, book>> /\ keepsPosition

\* _close_leg: skip a closed leg; adopt a call that was started; else place.
close_leg ==
    /\ pc = "x_leg"
    /\ IF tradeStatus[leg] = "CLOSED" THEN closeEnds("CLOSED")
         ELSE /\ pc' = IF X(leg) \in started THEN "x_find" ELSE "x_mark"
              /\ UNCHANGED localVars
    /\ UNCHANGED <<tradeVars, orderVars, book>> /\ keepsPosition

\* Slip: a lookup that failed is taken for one that found nothing.
find_order_by_tag_hopes ==
    /\ pc = "x_find"
    /\ pc' \in {"x_mark", IF book[X(leg)] = <<>> THEN "x_mark" ELSE "x_adopt"}
    /\ UNCHANGED <<tradeVars, orderVars, book, localVars>> /\ keepsPosition

\* _adopt_existing_order: look the tag up.  Nothing found: safe to place.
find_order_by_tag ==
    /\ pc = "x_find"
    /\ \/ closeEnds("AMBIGUOUS")
       \/ pc' = (IF book[X(leg)] = <<>> THEN "x_mark" ELSE "x_adopt") /\ UNCHANGED localVars
    /\ UNCHANGED <<tradeVars, orderVars, book>> /\ keepsPosition

\* Slip: wait for the order that was found to fill.
adopt_existing_order_waits ==
    /\ pc = "x_adopt"
    /\ \/ /\ LastOrder(X(leg)).status = "COMPLETE"
          /\ polled' = LastOrder(X(leg))
          /\ pc' = "x_load"
          /\ UNCHANGED <<leg, seen, outcome, reason, todo, view>>
       \/ LastOrder(X(leg)).status # "COMPLETE" /\ pc' = "x_find" /\ UNCHANGED localVars
    /\ UNCHANGED <<tradeVars, orderVars, book>> /\ keepsPosition

\* A priced fill is recorded; anything else found under the tag is ambiguous.
adopt_existing_order ==
    /\ pc = "x_adopt"
    /\ \/ /\ LastOrder(X(leg)).status = "COMPLETE"
          /\ LastOrder(X(leg)).price = "real"
          /\ polled' = LastOrder(X(leg))
          /\ pc' = "x_load"
          /\ UNCHANGED <<leg, seen, outcome, reason, todo, view>>
       \/ closeEnds("AMBIGUOUS")
    /\ UNCHANGED <<tradeVars, orderVars, book>> /\ keepsPosition

\* _place_close_with_retries: started is committed, then the BUY is sent.
place_close_mark ==
    /\ pc = "x_mark"
    /\ intent' = [intent EXCEPT ![X(leg)] = "SUBMITTED_UNCONFIRMED"]
    /\ started' = started \cup {X(leg)}
    /\ pc' = "x_send"
    /\ UNCHANGED <<tradeVars, row, book, localVars>> /\ keepsPosition

\* Bound on the attempts whose order the broker accepts.
CloseAttempts == 2

\* A call that was not sent is retried until the attempts run out; a rejection or a
\* timeout is never retried.
place_close_send ==
    /\ pc = "x_send"
    /\ \/ Acknowledges(X(leg)) /\ pc' = "x_ack" /\ UNCHANGED localVars
       \/ Refuses(X(leg)) /\ pc' = "x_reject" /\ UNCHANGED localVars
       \/ /\ NotSent(X(leg)) /\ UNCHANGED localVars
          /\ \/ Len(book'[X(leg)]) < CloseAttempts /\ UNCHANGED pc
             \/ pc' = "x_unsent"
       \/ TimesOut(X(leg)) /\ closeEnds("AMBIGUOUS")
    /\ UNCHANGED <<tradeVars, orderVars>> /\ keepsPosition

\* _record_close_rejection before the ack: a REJECTED row and a FAILED intent.
record_close_rejection ==
    /\ pc = "x_reject"
    /\ row' = [row EXCEPT ![X(leg)] = rejectedUnsent(@)]
    /\ intent' = [intent EXCEPT ![X(leg)] = "FAILED"]
    /\ closeEnds("FAILED")
    /\ UNCHANGED <<tradeVars, started, book>> /\ keepsPosition

close_never_sent ==
    /\ pc = "x_unsent"
    /\ intent' = [intent EXCEPT ![X(leg)] = "FAILED"]
    /\ closeEnds("FAILED")
    /\ UNCHANGED <<tradeVars, started, row, book>> /\ keepsPosition

\* _confirm_close: the acknowledged close gets its row, and is polled.
confirm_close ==
    /\ pc = "x_ack"
    /\ row' = [row EXCEPT ![X(leg)] = acknowledged(@)]
    /\ intent' = [intent EXCEPT ![X(leg)] = "PLACED"]
    /\ pc' = "x_poll"
    /\ UNCHANGED <<tradeVars, started, book, localVars>> /\ keepsPosition

\* Terminal goes on to be recorded, except a fill without a price, which like
\* no terminal snapshot at all is ambiguous.
poll_close ==
    /\ pc = "x_poll"
    /\ \/ /\ LastOrder(X(leg)).status \in Terminal
          /\ LastOrder(X(leg)).status = "COMPLETE" => LastOrder(X(leg)).price = "real"
          /\ polled' = LastOrder(X(leg))
          /\ pc' = "x_load"
          /\ UNCHANGED <<leg, seen, outcome, reason, todo, view>>
       \/ closeEnds("AMBIGUOUS")
    /\ UNCHANGED <<tradeVars, orderVars, book>> /\ keepsPosition

\* _record_close_fill, and _record_close_rejection after the ack: the second
\* transaction, after the orders row has been reconciled in the first.
record_close ==
    LET filled == polled.status = "COMPLETE" IN
    /\ pc = "x_record"
    /\ tradeStatus' = [tradeStatus EXCEPT ![leg] = IF filled THEN "CLOSED" ELSE @]
    /\ exitPrice' = [exitPrice EXCEPT ![leg] = IF filled THEN polled.price ELSE @]
    /\ pnl' = IF filled /\ entryPrice[leg] # "none" THEN pnl \cup {leg} ELSE pnl
    /\ intent' = [intent EXCEPT ![X(leg)] = IF filled THEN "CONFIRMED" ELSE "FAILED"]
    /\ closeEnds(IF filled THEN "CLOSED" ELSE "FAILED")
    /\ UNCHANGED <<entryPrice, started, row, book>> /\ keepsPosition

\* _finalize_closed: refuses to total over a leg without price or P&L; that, or a
\* failed commit, leaves EXIT_PENDING.
fullyPriced == \A l \in Leg : exitPrice[l] # "none" /\ l \in pnl

finalize_closed ==
    /\ pc = "x_final" /\ fullyPriced
    /\ posState' = "CLOSED" /\ exitReason' = reason
    /\ hookReturns(FALSE)
    /\ UNCHANGED <<trigger, tradeVars, orderVars, flagVars, brokerVars, worldVars>>

finalize_closed_fails ==
    /\ pc = "x_final"
    /\ \/ ~fullyPriced /\ UNCHANGED faults
       \/ fullyPriced /\ faults < MaxFaults /\ faults' = faults + 1
    /\ pc' = "x_diverge"
    /\ UNCHANGED <<dbVars, brokerVars, localVars, runnerVars, clock, halted, crashes>>

record_divergence ==
    /\ pc = "x_diverge"
    /\ recordBreak("OTHER")
    /\ hookReturns(FALSE)
    /\ UNCHANGED <<positionVars, tradeVars, orderVars, inst, brokerVars, clock, halted, crashes>>

exit_record_break ==
    /\ pc = "x_break"
    /\ recordBreak(IF \E l \in Leg : outcome[l] = "AMBIGUOUS" THEN "AMBIGUOUS_ACK" ELSE "OTHER")
    /\ pc' = "x_error"
    /\ UNCHANGED <<positionVars, tradeVars, orderVars, inst, brokerVars, localVars,
                   runnerVars, clock, halted, crashes>>

exit_fail_to_error ==
    /\ pc = "x_error"
    /\ failToError
    /\ hookReturns(FALSE)
    /\ UNCHANGED <<tradeVars, orderVars, breaks, brokerVars, worldVars>>

ExitNext ==
    \/ prepare_exit \/ close_leg \/ find_order_by_tag \/ adopt_existing_order
    \/ place_close_mark \/ place_close_send \/ record_close_rejection \/ close_never_sent
    \/ confirm_close \/ poll_close \/ record_close
    \/ reconcile_order_load("x_load", "x_apply")
    \/ reconcile_order_terminal("x_apply", "x_record")
    \/ finalize_closed \/ finalize_closed_fails \/ record_divergence
    \/ exit_record_break \/ exit_fail_to_error
================================================================================
