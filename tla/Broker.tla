--------------------------------- MODULE Broker ---------------------------------
(***************************************************************************)
(* The broker behind brokers/broker_base.py, external to the platform: the  *)
(* orderbook it keeps, what place_order may do to it, and how the orders in  *)
(* it move on their own.  Everything here is modelled from how entry_logic,   *)
(* exit_logic and the reconciliation engine use the interface.               *)
(***************************************************************************)
EXTENDS OrderUpdates

LastOrder(t) == book[t][Len(book[t])]

Accepted(t) == [book EXCEPT ![t] = Append(@, [status |-> "OPEN", filled |-> 0, price |-> "none"])]

\* place_order returned an order id.
Acknowledges(t) == book' = Accepted(t)

\* place_order raised BrokerTimeoutError: the order is in the book, or it is not.
TimesOut(t) == book' \in {book, Accepted(t)}

\* place_order raised an error that says the order was not accepted.
Refuses(t) == book' = book

\* place_order raised BrokerConnectionError, which its callers take for "not sent".
\* The brokers raise it for a connection that broke while the answer was awaited, too.
NotSent(t) == book' \in IF "reset" \in Env THEN {book, Accepted(t)} ELSE {book}

Working(t, i) == i \in DOMAIN book[t] /\ book[t][i].status = "OPEN"

BrokerIdle == \A t \in Tag : \A i \in DOMAIN book[t] : book[t][i].status # "OPEN"

brokerMoves == UNCHANGED <<dbVars, squared, pc, localVars, runnerVars, worldVars>>

\* A working order fills, in part or whole.
BrokerFills(t, i, k) ==
    /\ Working(t, i)
    /\ k > book[t][i].filled
    /\ k < Qty => "partial" \in Env
    /\ \E price \in {"real"} \cup (IF k = Qty /\ "noprice" \in Env THEN {"none"} ELSE {}) :
          book' = [book EXCEPT ![t][i] = [status |-> IF k = Qty THEN "COMPLETE" ELSE "OPEN",
                                          filled |-> k, price |-> price]]
    /\ brokerMoves

\* A working order is rejected before anything filled, or cancelled.
BrokerKills(t, i, status) ==
    /\ Working(t, i)
    /\ status = "REJECTED" => book[t][i].filled = 0
    /\ t[1] = "U" => "badunwind" \in Env
    /\ book' = [book EXCEPT ![t][i].status = status]
    /\ brokerMoves

\* The average price of a complete order shows up late.
BrokerPrices(t, i) ==
    /\ i \in DOMAIN book[t]
    /\ book[t][i].status = "COMPLETE" /\ book[t][i].price = "none"
    /\ book' = [book EXCEPT ![t][i].price = "real"]
    /\ brokerMoves

\* Units sold and not bought back: what get_positions reports as a short leg.
Filled(t) ==
    LET upTo[n \in 0..Len(book[t])] == IF n = 0 THEN 0 ELSE upTo[n - 1] + book[t][n].filled
    IN  upTo[Len(book[t])]

Short(l) ==
    Filled(E(l)) - Filled(<<"U", l>>) - Filled(X(l))
        - IF l \in squared THEN Qty ELSE 0

\* The broker's risk desk flattens a short leg without being asked.
SquaresOff(l) ==
    /\ "squareoff" \in Env
    /\ l \notin squared
    /\ Short(l) = Qty
    /\ squared' = squared \cup {l}
    /\ UNCHANGED <<dbVars, book, pc, localVars, runnerVars, worldVars>>

BrokerMoves ==
    \/ \E t \in Tag : \E i \in DOMAIN book[t] :
          \/ \E k \in 1..Qty : BrokerFills(t, i, k)
          \/ \E s \in {"REJECTED", "CANCELLED"} : BrokerKills(t, i, s)
          \/ BrokerPrices(t, i)
    \/ \E l \in Leg : SquaresOff(l)
================================================================================
