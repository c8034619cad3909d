--------------------------- MODULE ReconciliationEngine ---------------------------
(***************************************************************************)
(* services/reconciliation_engine.py, which runs once at startup before any   *)
(* strategy is armed: fetch the orderbook, resolve every intent whose outcome  *)
(* the database does not know, look for orders nobody intended, and repair     *)
(* the position.  No PositionReconciler is injected anywhere in the platform,  *)
(* so a complete entry or exit is flagged and never finalized here.            *)
(***************************************************************************)
EXTENDS Broker

\* reconcile(): without an orderbook nothing is repaired and startup goes on.
fetch_orders ==
    /\ pc = "r_fetch"
    /\ \/ /\ view' = book
          /\ todo' = {t \in Tag : intent[t] \in InDoubt}
          /\ pc' = "r_intents"
       \/ pc' = "s_recover" /\ UNCHANGED <<view, todo>>
    /\ UNCHANGED <<dbVars, brokerVars, leg, polled, seen, outcome, reason,
                   runnerVars, worldVars>>

\* The orders row an intent is resolved into: found by broker order id, else by
\* tag, else created; acknowledged if it was not.
resolvedRow(t) ==
    IF row[t].acked THEN row[t]
    ELSE IF row[t].copies = 0 THEN acknowledged(row[t])
    ELSE [row[t] EXCEPT !.status = "OPEN", !.acked = TRUE]

\* get_by_broker_tag finds two rows and raises, which aborts startup.
tagLookupRaises(t) == Len(view[t]) = 1 /\ ~row[t].acked /\ row[t].copies > 1

\* _apply_fill: broker_order.average_price or (order.average_price or 0).
fillPrice(t, bo) == IF bo.price # "none" THEN bo.price ELSE orZero(row[t].price)

apply_fill(t, bo) ==
    LET l == t[2]
        price == fillPrice(t, bo) IN
    /\ row' = [row EXCEPT ![t] = [resolvedRow(t) EXCEPT !.status = "COMPLETE",
                                     !.filled = bo.filled, !.price = price]]
    /\ intent' = [intent EXCEPT ![t] = "CONFIRMED"]
    /\ IF t[1] = "E"
         THEN /\ entryPrice' = [entryPrice EXCEPT ![l] = price]
              /\ tradeStatus' = [tradeStatus EXCEPT ![l] = IF @ = "PENDING" THEN "OPEN" ELSE @]
              /\ UNCHANGED exitPrice
         ELSE /\ exitPrice' = [exitPrice EXCEPT ![l] = price]
              /\ tradeStatus' = [tradeStatus EXCEPT ![l] = IF @ = "OPEN" THEN "CLOSED" ELSE @]
              /\ UNCHANGED entryPrice
    /\ breaks' = IF bo.filled = Qty THEN breaks ELSE breaks \cup {"QUANTITY_MISMATCH"}
    /\ UNCHANGED <<posState, inst>>

\* _resolve_intent_against_order: a fill, even one cut short, is applied; an order
\* that ended with nothing filled fails the intent; a working one is left alone.
resolve_intent_against_order(t, bo) ==
    \/ (bo.status = "COMPLETE" \/ (bo.status \in Terminal /\ bo.filled > 0)) /\ apply_fill(t, bo)
    \/ /\ bo.status \in {"REJECTED", "CANCELLED"} /\ bo.filled = 0
       /\ row' = [row EXCEPT ![t] = [resolvedRow(t) EXCEPT !.status = "REJECTED"]]
       /\ intent' = [intent EXCEPT ![t] = "FAILED"]
       /\ UNCHANGED <<posState, tradeStatus, entryPrice, exitPrice, flagVars>>
    \/ /\ bo.status = "OPEN"
       /\ row' = [row EXCEPT ![t] = resolvedRow(t)]
       /\ UNCHANGED <<posState, tradeStatus, entryPrice, exitPrice, intent, flagVars>>

\* No order carries the tag: the intent never reached the broker.
fail_intent_not_at_broker(t) ==
    /\ view[t] = <<>>
    /\ intent' = [intent EXCEPT ![t] = "FAILED"]
    /\ UNCHANGED <<posState, tradeStatus, entryPrice, exitPrice, row, flagVars>>

\* Slip: the duplicates are noted and the position is left as it is.
flag_duplicate_orders_only(t) ==
    /\ Len(view[t]) > 1
    /\ breaks' = breaks \cup {"QUANTITY_MISMATCH"}
    /\ UNCHANGED <<posState, inst, tradeStatus, entryPrice, exitPrice, intent, row>>

\* Two orders under one tag are never resolved, only flagged.
flag_duplicate_orders(t) ==
    /\ Len(view[t]) > 1
    /\ breaks' = breaks \cup {"QUANTITY_MISMATCH"}
    /\ posState' = Errored
    /\ inst' = IF posState \in {"CLOSED", "ERROR"} THEN inst ELSE "FROZEN"
    /\ UNCHANGED <<tradeStatus, entryPrice, exitPrice, intent, row>>

\* _reconcile_one_intent: one in-doubt intent, one transaction.
reconcile_one_intent(t) ==
    /\ pc = "r_intents" /\ t \in todo
    /\ ~tagLookupRaises(t)
    /\ IF Len(view[t]) > 1 THEN flag_duplicate_orders(t)
       ELSE IF view[t] = <<>> THEN fail_intent_not_at_broker(t)
       ELSE resolve_intent_against_order(t, view[t][1])
    /\ todo' = todo \ {t}
    /\ UNCHANGED <<trigger, exitReason, pnl, started, brokerVars, pc, leg, polled, seen,
                   outcome, reason, view, runnerVars, worldVars>>

intents_reconciled ==
    /\ pc = "r_intents" /\ todo = {}
    /\ pc' = "r_orphans"
    /\ UNCHANGED <<dbVars, brokerVars, localVars, runnerVars, worldVars>>

startup_aborts(t) ==
    /\ pc = "r_intents" /\ t \in todo
    /\ tagLookupRaises(t)
    /\ pc' = "down"
    /\ dropLocals
    /\ UNCHANGED <<dbVars, brokerVars, runnerVars, worldVars>>

\* _detect_orphans_and_duplicates: an order under a tag with no intent.
detect_orphans ==
    /\ pc = "r_orphans"
    /\ breaks' = IF \E t \in Tag : view[t] # <<>> /\ intent[t] = "NONE"
                   THEN breaks \cup {"ORPHAN_FILL"} ELSE breaks
    /\ pc' = "r_position"
    /\ UNCHANGED <<positionVars, tradeVars, orderVars, inst, brokerVars, localVars,
                   runnerVars, worldVars>>

\* Slip: a broken position is closed.
error_position_closes(type) ==
    /\ posState' = "CLOSED"
    /\ inst' = "FROZEN"
    /\ breaks' = breaks \cup {type}

\* _error_position
error_position(type) ==
    /\ posState' = "ERROR"
    /\ inst' = "FROZEN"
    /\ breaks' = breaks \cup {type}

\* _finalize_entry and _finalize_exit, with no reconciler injected.
flag_for_finalization == breaks' = breaks \cup {"OTHER"} /\ UNCHANGED <<posState, inst>>

leaveAlone == UNCHANGED <<posState, inst, breaks>>

LegsIn(status) == {l \in Leg : tradeStatus[l] = status}

\* Slip: an entry that is not complete is taken for one that never filled.
reconcile_entry_pending_aborts ==
    IF LegsIn("PENDING") = {} /\ LegsIn("OPEN") # {} THEN flag_for_finalization
    ELSE posState' = "CLOSED" /\ UNCHANGED <<inst, breaks>>

reconcile_entry_pending ==
    LET filled == LegsIn("OPEN")
        unfilled == LegsIn("PENDING") IN
    CASE filled # {} /\ unfilled = {} -> flag_for_finalization
      [] filled = {} -> posState' = "CLOSED" /\ UNCHANGED <<inst, breaks>>
      [] OTHER -> error_position("PARTIAL_ENTRY")

reconcile_exit_pending ==
    LET closed == LegsIn("CLOSED")
        open == LegsIn("OPEN") IN
    CASE closed # {} /\ open = {} -> flag_for_finalization
      [] closed # {} /\ open # {} -> error_position("OTHER")
      [] OTHER -> leaveAlone

\* get_positions may be unavailable, or older than a square-off.
reconcile_open ==
    \/ leaveAlone
    \/ (\E l \in LegsIn("OPEN") : Short(l) = 0) /\ error_position("BROKER_FLAT_DB_OPEN")

reconcile_one_position ==
    /\ pc = "r_position"
    /\ CASE posState = "ENTRY_PENDING" -> reconcile_entry_pending
         [] posState = "EXIT_PENDING" -> reconcile_exit_pending
         [] posState = "OPEN" -> reconcile_open
         [] OTHER -> leaveAlone
    /\ pc' = "s_recover"
    /\ UNCHANGED <<trigger, exitReason, tradeVars, orderVars, brokerVars, localVars,
                   runnerVars, worldVars>>

ReconcileNext ==
    \/ fetch_orders \/ intents_reconciled \/ detect_orphans \/ reconcile_one_position
    \/ \E t \in Tag : reconcile_one_intent(t) \/ startup_aborts(t)
================================================================================
