---------------------------- MODULE SimulationBroker ----------------------------
(***************************************************************************)
(* The simulated broker of paper trading, in its threaded mode: orders filled   *)
(* at once or in steps by whichever thread finds them due, the matching engine    *)
(* or a caller, and the position the fills add up to.  A lock covers each pass      *)
(* over the orders; the updates a pass made are pushed after it.  The price comes     *)
(* from the real market (KiteLtpPriceSource) and may fail in the middle of a pass.     *)
(* One instrument and product; the websocket is connected.                              *)
(***************************************************************************)
EXTENDS Integers, Sequences, FiniteSets, FiniteSetsExt, SequencesExt

CONSTANTS
    Caller,        \* threads that call the broker
    Quantities,    \* quantities of orders
    Prices,        \* prices of fills
    MaxSteps,      \* max_partial_fill_steps
    MaxOrders,     \* bound: orders placed
    FirstSides,    \* bound: sides of the first order (the rules treat both alike)
    MaxIncidents   \* bound: modifications, cancellations and failed price lookups

VARIABLES
    orders,        \* _orders, in the order they were placed
    position,      \* _positions of the one key
    cash,          \* history: what the fills received, less what they paid
    lock,          \* the thread whose pass it is, or Nobody
    next,          \* the order that pass comes to next
    updates,       \* updates[t]: what thread t has yet to push
    told,          \* orders whose end has been pushed
    engine,        \* the matching engine's thread: running or dead
    caller,        \* caller[c]: idle, about to pump, or in a call that ends by pushing
    changes,       \* orders modified or cancelled so far
    failures       \* price lookups that failed

vars == <<orders, position, cash, lock, next, updates, told, engine, caller, changes, failures>>
ledger == <<position, cash>>

Nobody == "nobody"
Engine == "engine"
Thread == Caller \cup {Engine}
Ended == {"COMPLETE", "REJECTED", "CANCELLED"}
Order == [side : {"BUY", "SELL"}, quantity : Quantities, status : {"OPEN"} \cup Ended, filled : Nat,
          rejects : BOOLEAN, steps : 0..MaxSteps, share : Nat, due : BOOLEAN]

TypeOK ==
    /\ orders \in Seq(Order) /\ Len(orders) <= MaxOrders
    /\ position \in [quantity : Int, average : Nat, realized : Int]
    /\ cash \in Int
    /\ lock \in Thread \cup {Nobody} /\ next \in 1..(MaxOrders + 1)
    /\ \A t \in Thread : updates[t] \in Seq((1..MaxOrders) \X ({"OPEN"} \cup Ended))
    /\ told \subseteq 1..MaxOrders
    /\ engine \in {"running", "dead"}
    /\ caller \in [Caller -> {"idle", "placed", "calling"}]
    /\ changes \in Nat /\ failures \in Nat /\ changes + failures <= MaxIncidents

Init ==
    /\ orders = <<>>
    /\ position = [quantity |-> 0, average |-> 0, realized |-> 0] /\ cash = 0
    /\ lock = Nobody /\ next = 1 /\ updates = [t \in Thread |-> <<>>]
    /\ told = {} /\ engine = "running" /\ caller = [c \in Caller |-> "idle"]
    /\ changes = 0 /\ failures = 0

--------------------------------------------------------------------------------
Abs(n) == IF n < 0 THEN -n ELSE n

\* _update_position: a fill of `delta`, negative for a sale, folded into the position.
Added(p, delta, price) ==
    [p EXCEPT !.quantity = @ + delta,
              !.average = (@ * Abs(p.quantity) + price * Abs(delta)) \div Abs(p.quantity + delta)]

\* Slip: a flip keeps the average of the side it closed.
Reduced_keeps_average(p, delta, price) ==
    LET closing == Min({Abs(p.quantity), Abs(delta)})
    IN  [p EXCEPT !.quantity = @ + delta,
                  !.realized = @ + closing * (IF p.quantity > 0 THEN price - p.average
                                                                ELSE p.average - price)]
Reduced(p, delta, price) ==
    LET closing == Min({Abs(p.quantity), Abs(delta)})
        left == p.quantity + delta
    IN  [quantity |-> left,
         average |-> IF Abs(delta) > closing THEN price ELSE IF left = 0 THEN 0 ELSE p.average,
         realized |-> p.realized + closing * (IF p.quantity > 0 THEN price - p.average
                                                                ELSE p.average - price)]

UpdatePosition(p, delta, price) ==
    IF p.quantity = 0 \/ (p.quantity > 0) = (delta > 0) THEN Added(p, delta, price)
    ELSE Reduced(p, delta, price)

Signed(o, n) == IF o.side = "BUY" THEN n ELSE -n

\* What one step of a due order fills: its share, and in the last step all that is left.
StepQuantity(o) ==
    IF o.steps <= 1 THEN o.quantity - o.filled ELSE Min({o.share, o.quantity - o.filled})

Stepped(o, n) ==
    LET complete == o.filled + n >= o.quantity
    IN  [o EXCEPT !.filled = @ + n, !.due = FALSE,
                  !.status = IF complete THEN "COMPLETE" ELSE "OPEN",
                  !.steps = IF complete \/ @ = 0 THEN 0 ELSE @ - 1]

--------------------------------------------------------------------------------
\* _build_sim_order, with the outcome that _decide_outcome drew.
NewOrder(side, q, steps, rejects) ==
    [side |-> side, quantity |-> q, status |-> "OPEN", filled |-> 0, rejects |-> rejects,
     steps |-> steps, share |-> Max({1, q \div steps}), due |-> FALSE]

\* place_order up to its pump.  The outcome is decided here; the ack may be lost.
\* (A call that raises before the order is entered changes nothing.)
Place(c) ==
    /\ caller[c] = "idle" /\ lock = Nobody /\ Len(orders) < MaxOrders
    /\ \E side \in {"BUY", "SELL"}, q \in Quantities, steps \in 1..MaxSteps, rejects \in BOOLEAN :
          /\ rejects => steps = 1
          /\ orders = <<>> => side \in FirstSides
          /\ orders' = Append(orders, NewOrder(side, q, steps, rejects))
    /\ caller' \in {caller, [caller EXCEPT ![c] = "placed"]}
    /\ UNCHANGED <<ledger, lock, next, updates, told, engine, changes, failures>>

\* _pump of place_order and of every read: get_order, get_orders, find_order_by_tag,
\* get_positions, get_margins.
Pump(c) ==
    /\ caller[c] \in {"idle", "placed"} /\ lock = Nobody
    /\ \E o \in DOMAIN orders : orders[o].due
    /\ caller' = [caller EXCEPT ![c] = "calling"]
    /\ lock' = c /\ next' = 1
    /\ UNCHANGED <<orders, ledger, updates, told, engine, changes, failures>>

EngineTicks ==
    /\ engine = "running" /\ lock = Nobody /\ updates[Engine] = <<>>
    /\ \E o \in DOMAIN orders : orders[o].due
    /\ lock' = Engine /\ next' = 1
    /\ UNCHANGED <<orders, ledger, updates, told, engine, caller, changes, failures>>

\* resolve_at of an order comes.
ComesDue(o) ==
    /\ o \in DOMAIN orders /\ orders[o].status = "OPEN" /\ ~orders[o].due
    /\ orders' = [orders EXCEPT ![o].due = TRUE]
    /\ UNCHANGED <<ledger, lock, next, updates, told, engine, caller, changes, failures>>

\* What the pass still comes to: an order that is not due, or has ended, is passed over.
Coming == {o \in DOMAIN orders : o >= next /\ orders[o].due}
Turn(t, o) == lock = t /\ o \in Coming /\ \A p \in Coming : o <= p

Resolves(t, o, order) ==
    /\ orders' = [orders EXCEPT ![o] = order]
    /\ updates' = [updates EXCEPT ![t] = Append(@, <<o, order.status>>)]
    /\ next' = o + 1
    /\ UNCHANGED <<lock, told, engine, caller, changes, failures>>

\* Slip: a rejection is reported and the order left open.
Rejected_unmarked(o) == [o EXCEPT !.steps = 0, !.due = FALSE]
Rejected(o) == [o EXCEPT !.status = "REJECTED", !.steps = 0, !.due = FALSE]

PassRejects(t, o) ==
    /\ Turn(t, o) /\ orders[o].rejects
    /\ Resolves(t, o, Rejected(orders[o]))
    /\ UNCHANGED ledger

PassFills(t, o) ==
    LET n == StepQuantity(orders[o])
        delta == Signed(orders[o], n)
    IN  /\ Turn(t, o) /\ ~orders[o].rejects
        /\ \E price \in Prices :
              /\ position' = IF n > 0 THEN UpdatePosition(position, delta, price) ELSE position
              /\ cash' = cash - delta * price
        /\ Resolves(t, o, Stepped(orders[o], n))

\* The pass is over and the lock free; its updates are still to be pushed.
PassEnds(t) ==
    /\ lock = t /\ Coming = {}
    /\ lock' = Nobody /\ next' = 1
    /\ UNCHANGED <<orders, ledger, updates, told, engine, caller, changes, failures>>

\* The price lookup raises.  What the pass did stays done and is never pushed; the
\* exception ends the call, be it the place_order of another order, or the engine.
PriceFails(t) ==
    /\ \E o \in Coming : Turn(t, o) /\ ~orders[o].rejects
    /\ changes + failures < MaxIncidents
    /\ failures' = failures + 1
    /\ lock' = Nobody /\ next' = 1 /\ updates' = [updates EXCEPT ![t] = <<>>]
    /\ IF t = Engine THEN engine' = "dead" /\ UNCHANGED caller
       ELSE caller' = [caller EXCEPT ![t] = "idle"] /\ UNCHANGED engine
    /\ UNCHANGED <<orders, ledger, told, changes>>

\* _dispatch_order_update, outside the lock: threads push in any order.
Push(t) ==
    /\ lock # t /\ updates[t] # <<>>
    /\ LET u == Head(updates[t])
       IN  told' = IF u[2] \in Ended THEN told \cup {u[1]} ELSE told
    /\ updates' = [updates EXCEPT ![t] = Tail(@)]
    /\ UNCHANGED <<orders, ledger, lock, next, engine, caller, changes, failures>>

Returns(c) ==
    /\ lock # c /\ updates[c] = <<>>
    /\ \/ caller[c] = "calling"
       \/ caller[c] = "placed" /\ lock = Nobody /\ \A o \in DOMAIN orders : ~orders[o].due
    /\ caller' = [caller EXCEPT ![c] = "idle"]
    /\ UNCHANGED <<orders, ledger, lock, next, updates, told, engine, changes, failures>>

\* Slip: an order that ended can still be cancelled or modified.
Changeable_always(o) == TRUE
\* cancel_order and modify_order: only while the order is open.
Changeable(o) == orders[o].status = "OPEN"

Change(c, o, order) ==
    /\ caller[c] = "idle" /\ lock = Nobody /\ changes + failures < MaxIncidents
    /\ changes' = changes + 1
    /\ orders' = [orders EXCEPT ![o] = order]
    /\ caller' = [caller EXCEPT ![c] = "calling"]
    /\ updates' = [updates EXCEPT ![c] = <<<<o, order.status>>>>]
    /\ UNCHANGED <<ledger, lock, next, told, engine, failures>>

Cancelled(o) == [o EXCEPT !.status = "CANCELLED", !.steps = 0, !.due = FALSE]
Cancel(c, o) == o \in DOMAIN orders /\ Changeable(o) /\ Change(c, o, Cancelled(orders[o]))

Modify(c, o) ==
    /\ o \in DOMAIN orders /\ Changeable(o)
    /\ \E q \in Quantities : /\ q >= orders[o].filled /\ q # orders[o].quantity
                             /\ Change(c, o, [orders[o] EXCEPT !.quantity = q])

Pass(t) ==
    \/ \E o \in 1..MaxOrders : PassRejects(t, o) \/ PassFills(t, o)
    \/ PassEnds(t) \/ Push(t)

Calls(c) ==
    \/ Place(c) \/ Pump(c) \/ Returns(c)
    \/ \E o \in 1..MaxOrders : Cancel(c, o) \/ Modify(c, o)

Next ==
    \/ \E c \in Caller : Calls(c)
    \/ \E t \in Thread : Pass(t) \/ PriceFails(t)
    \/ EngineTicks
    \/ \E o \in 1..MaxOrders : ComesDue(o)

Spec == Init /\ [][Next]_vars

\* Threads run, time passes, and the engine, which asks for the lock at every tick,
\* gets it in the end from callers that hold it for a pass.
Fairness ==
    /\ WF_vars(\E t \in Thread : Pass(t))
    /\ WF_vars(\E c \in Caller : Returns(c))
    /\ SF_vars(EngineTicks)
    /\ WF_vars(\E o \in 1..MaxOrders : ComesDue(o))

--------------------------------------------------------------------------------
\* What the orders of a book have filled, purchases less sales.
NetFilled(book) ==
    LET net[n \in 0..Len(book)] == IF n = 0 THEN 0 ELSE net[n - 1] + Signed(book[n], book[n].filled)
    IN  net[Len(book)]

FillsAreHeld == position.quantity = NetFilled(orders)
CostIsPaid == position.realized - position.quantity * position.average = cash

\* The position is what the orders' fills add up to, and its profit and cost are what
\* the fills paid, through partial fills, closings, flips, cancels, failures in the
\* middle of a pass (_update_position, _apply_fill).
LedgerBalances == FillsAreHeld /\ CostIsPaid

\* The orders as their owner may see them.
View == [o \in DOMAIN orders |-> [side |-> orders[o].side, quantity |-> orders[o].quantity,
                                  filled |-> orders[o].filled, status |-> orders[o].status]]

Book == INSTANCE OrderBook WITH book <- View

\* Whoever resolves, cancels or modifies an order, and whatever fails between: fills are
\* never taken back nor exceed the order, it is complete exactly when filled, and an order
\* that has ended never changes (_process_due_order, modify_order, cancel_order).
OrdersFollowTheBook == Book!Spec

\* Every order that was entered ends and its end is pushed, whoever resolves it and
\* whatever is cancelled or modified meanwhile, as long as no price lookup fails.
\* (Finitely many orders are placed and an end once told stays told.)
EveryEndIsTold == []<>(DOMAIN orders \subseteq told \/ failures > 0)

================================================================================
