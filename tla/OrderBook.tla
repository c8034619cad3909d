-------------------------------- MODULE OrderBook --------------------------------
(***************************************************************************)
(* What the trade cycle assumes of the orders at a broker: an accepted order fills   *)
(* in parts, is complete exactly when all of it is filled, ends once, by its last     *)
(* fill, a rejection before the first, or a cancellation, and never changes after.     *)
(***************************************************************************)
EXTENDS Integers, Sequences

CONSTANT Quantities  \* of which an order may be

VARIABLE book  \* the orders, in the order they were accepted

Side == {"BUY", "SELL"}

Init == book = <<>>

Accept(side, q) ==
    book' = Append(book, [side |-> side, quantity |-> q, filled |-> 0, status |-> "OPEN"])

Becomes(i, order) == book[i].status = "OPEN" /\ book' = [book EXCEPT ![i] = order]

\* A further fill brings it to `total`.
Fill(i, total) ==
    Becomes(i, [book[i] EXCEPT !.filled = total,
                               !.status = IF total = book[i].quantity THEN "COMPLETE" ELSE "OPEN"])

Reject(i) == book[i].filled = 0 /\ Becomes(i, [book[i] EXCEPT !.status = "REJECTED"])
Cancel(i) == Becomes(i, [book[i] EXCEPT !.status = "CANCELLED"])

\* Never below what is filled already.
Amend(i, q) == q >= book[i].filled /\ Becomes(i, [book[i] EXCEPT !.quantity = q])

Next ==
    \/ \E side \in Side, q \in Quantities : Accept(side, q)
    \/ \E i \in DOMAIN book :
          \/ Reject(i) \/ Cancel(i)
          \/ \E total \in book[i].filled..book[i].quantity : Fill(i, total)
          \/ \E q \in Quantities : Amend(i, q)

Spec == Init /\ [][Next]_book

================================================================================
