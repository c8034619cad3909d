------------------------------ MODULE OrderUpdates ------------------------------
(***************************************************************************)
(* services/order_update_processor.py: what one broker snapshot writes to    *)
(* the orders row it concerns.  Two writers share this decision: the          *)
(* websocket callback (process) and the poll path of entry and exit          *)
(* (reconcile_order_terminal).                                               *)
(***************************************************************************)
EXTENDS StraddleState

\* average_price or Decimal("0")
orZero(price) == IF price = "none" THEN "zero" ELSE price

\* Slips: a delta taken for a total; any fill taken for the end; no advance-only rule.
apply_broker_order_update_adds(r, bo) ==
    IF r.status \in Terminal \/ bo.filled = 0 THEN r
    ELSE [r EXCEPT !.status = bo.status, !.filled = @ + bo.filled, !.price = orZero(bo.price)]

apply_broker_order_update_hastens(r, bo) ==
    IF r.status \in Terminal \/ bo.filled = 0 THEN r
    ELSE [r EXCEPT !.status = "COMPLETE", !.filled = bo.filled, !.price = orZero(bo.price)]

apply_broker_order_update_regresses(r, bo) ==
    IF r.status \in Terminal THEN r
    ELSE [r EXCEPT !.status = bo.status, !.filled = bo.filled, !.price = orZero(bo.price)]

apply_broker_order_update(r, bo) ==
    CASE r.status \in Terminal -> r
      [] r.status \notin Terminal /\ bo.status = "COMPLETE" ->
            [r EXCEPT !.status = "COMPLETE", !.filled = bo.filled, !.price = orZero(bo.price)]
      [] r.status \notin Terminal /\ bo.status \in {"REJECTED", "CANCELLED"} ->
            [r EXCEPT !.status = bo.status]
      [] r.status \notin Terminal /\ bo.status = "OPEN" /\ bo.filled > r.filled ->
            [r EXCEPT !.filled = bo.filled,
                      !.price = IF bo.price # "none" THEN bo.price ELSE orZero(r.price)]
      [] OTHER -> r

\* The snapshots of an order the feed may still deliver: updates are queued,
\* repeated and reordered, so any state the order went through on its way to the
\* one it has now.  Without "partial" an order fills whole.
Snapshots(o) ==
    {o} \cup {[status |-> "OPEN", filled |-> k, price |-> IF k = 0 THEN "none" ELSE "real"]
                : k \in {0} \cup
                      IF "partial" \in Env
                        THEN 1..(o.filled - IF o.status = "COMPLETE" THEN 1 ELSE 0) ELSE {}}

\* OrderUpdateProcessor.process on the websocket thread.  Rows without a broker
\* order id are REJECTED ones, on which the terminal guard writes nothing, so only
\* acknowledged rows matter.  A conflicting update is dropped by the processor.
process(t) ==
    /\ "push" \in Env
    /\ pc \notin {"down", "r_fetch", "r_intents", "r_orphans", "r_position"}
    /\ row[t].acked
    /\ \E i \in DOMAIN book[t] : \E bo \in Snapshots(book[t][i]) :
          row' = [row EXCEPT ![t] = apply_broker_order_update(@, bo)]
    /\ row' # row
    /\ UNCHANGED <<positionVars, tradeVars, intent, started, flagVars, brokerVars,
                   pc, localVars, runnerVars, worldVars>>

\* reconcile_order_terminal, first half: the row is loaded by broker order id.
\* The row lock taken next does not refresh the object already loaded.
reconcile_order_load(from, to) ==
    /\ pc = from
    /\ pc' = to
    /\ seen' = row[<<IF from = "e_load" THEN "E" ELSE "X", leg>>]
    /\ UNCHANGED <<dbVars, brokerVars, leg, polled, outcome, reason, todo, view,
                   runnerVars, worldVars>>

\* Second half: decide on the loaded row and write it, unless another writer has
\* committed in between: then the version check fails and the write is dropped.
reconcile_order_terminal(from, to) ==
    LET t == <<IF from = "e_apply" THEN "E" ELSE "X", leg>> IN
    /\ pc = from
    /\ pc' = to
    /\ row' = [row EXCEPT ![t] =
                 IF seen.acked /\ row[t] = seen THEN apply_broker_order_update(seen, polled)
                                                ELSE @]
    /\ UNCHANGED <<positionVars, tradeVars, intent, started, flagVars, brokerVars,
                   localVars, runnerVars, worldVars>>
================================================================================
