------------------------------ MODULE LedgerProofs ------------------------------
(***************************************************************************)
(* What is booked is what happened.  The simulated broker is an order book as the trade    *)
(* cycle assumes one, and its position and cash are what its fills add up to, for any       *)
(* number of threads, orders, quantities, steps and failures.  The records of finished        *)
(* exits are complete, single and add up, for any number of positions, days, crashes and        *)
(* failures (R). Both are sums over data, treated by induction over a set.                 *)
(***************************************************************************)
EXTENDS SimulationBroker, SequenceTheorems, FiniteSetTheorems, WellFoundedInduction, TLAPS

CONSTANTS Position, DayOf, Pnls, LastDay, MaxFaults
VARIABLES day, step, exit_at, pnl, closed, collected, report, torn, rows, inserting, backfill, listed, todo,
          saved, botched, faults

\* The records of exits.
R == INSTANCE TradeRecords

Bounds == Quantities \subseteq Nat \ {0} /\ MaxSteps \in Nat \ {0}

\* What the book does not show, and what its moves rest on: an order due is open, one
\* that is to be rejected has no fill, and none has more than its quantity.
Sound(o) ==
    /\ o \in Order
    /\ o.filled <= o.quantity
    /\ o.rejects => o.filled = 0
    /\ o.due => o.status = "OPEN"

IInv == orders \in Seq(Order) /\ \A i \in DOMAIN orders : Sound(orders[i])

Seen(o) == [side |-> o.side, quantity |-> o.quantity, filled |-> o.filled, status |-> o.status]

--------------------------------------------------------------------------------
LEMMA MinOfTwo ==
    ASSUME NEW a \in Int, NEW b \in Int, NEW S, S = {a, b}
    PROVE  Min(S) \in S /\ Min(S) <= a /\ Min(S) <= b
  <1>1. \E x \in S : \A y \in S : x <= y
    <2>1. CASE a <= b BY <2>1
    <2>2. CASE b <= a BY <2>2
    <2> QED BY <2>1, <2>2
  <1>2. Min(S) \in S /\ \A y \in S : Min(S) <= y BY <1>1 DEF Min
  <1> QED BY <1>2

LEMMA MaxOfTwo ==
    ASSUME NEW a \in Int, NEW b \in Int, NEW S, S = {a, b}
    PROVE  Max(S) \in S
  <1>1. \E x \in S : \A y \in S : x >= y
    <2>1. CASE a <= b BY <2>1
    <2>2. CASE b <= a BY <2>2
    <2> QED BY <2>1, <2>2
  <1> QED BY <1>1 DEF Max

\* An order, field by field.
LEMMA OrderFields ==
    ASSUME Bounds, NEW o \in Order
    PROVE  /\ o.side \in {"BUY", "SELL"} /\ o.quantity \in Nat \ {0} /\ o.quantity \in Quantities
           /\ o.status \in {"OPEN"} \cup Ended /\ o.filled \in Nat /\ o.share \in Nat
           /\ o.rejects \in BOOLEAN /\ o.due \in BOOLEAN
           /\ o.steps \in Nat /\ o.steps <= MaxSteps
  <1>1. /\ o.side \in {"BUY", "SELL"} /\ o.quantity \in Quantities
        /\ o.status \in {"OPEN"} \cup Ended /\ o.filled \in Nat /\ o.share \in Nat
        /\ o.rejects \in BOOLEAN /\ o.due \in BOOLEAN /\ o.steps \in 0..MaxSteps
    BY DEF Order
  <1>2. o.quantity \in Nat \ {0} BY <1>1 DEF Bounds
  <1>3. o.steps \in Nat /\ o.steps <= MaxSteps BY <1>1 DEF Bounds
  <1> QED BY <1>1, <1>2, <1>3

\* An order that is rejected or cancelled keeps its fills.
LEMMA EndIsSound ==
    ASSUME Bounds, NEW o, Sound(o), NEW end \in Ended
    PROVE  Sound([o EXCEPT !.status = end, !.steps = 0, !.due = FALSE])
  <1> DEFINE p == [o EXCEPT !.status = end, !.steps = 0, !.due = FALSE]
  <1>1. o \in Order /\ 0 \in 0..MaxSteps BY DEF Sound, Bounds
  <1>2. p \in Order BY <1>1 DEF Order
  <1>3. p.filled = o.filled /\ p.quantity = o.quantity /\ p.rejects = o.rejects /\ p.due = FALSE
    BY <1>1 DEF Order
  <1> HIDE DEF p
  <1>4. Sound(p) BY <1>2, <1>3 DEF Sound
  <1> QED BY <1>4 DEF p

\* One step never fills more than is left.
LEMMA StepFits ==
    ASSUME Bounds, NEW o \in Order, o.filled <= o.quantity
    PROVE  StepQuantity(o) \in 0..(o.quantity - o.filled)
  <1>1. o.quantity \in Nat /\ o.filled \in Nat /\ o.share \in Nat /\ o.steps \in Int
    BY OrderFields
  <1>2. PICK left \in Nat : left = o.quantity - o.filled BY <1>1
  <1>3. PICK S : S = {o.share, left} OBVIOUS
  <1>4. Min(S) \in S /\ Min(S) <= left
    <2>1. o.share \in Int /\ left \in Int BY <1>1, <1>2
    <2> QED BY ONLY <1>3, <2>1, MinOfTwo
  <1>5. Min(S) \in 0..left BY <1>1, <1>2, <1>3, <1>4
  <1>6. Min({o.share, o.quantity - o.filled}) \in 0..left BY <1>2, <1>3, <1>5
  <1> QED BY <1>1, <1>2, <1>6 DEF StepQuantity

\* A step fills what it says, and completes the order exactly when nothing is left.
LEMMA StepIsSound ==
    ASSUME Bounds, NEW o, Sound(o), o.status = "OPEN", ~o.rejects,
           NEW n \in 0..(o.quantity - o.filled)
    PROVE  /\ Sound(Stepped(o, n))
           /\ Seen(Stepped(o, n)) =
                [side |-> o.side, quantity |-> o.quantity, filled |-> o.filled + n,
                 status |-> IF o.filled + n = o.quantity THEN "COMPLETE" ELSE "OPEN"]
  <1> DEFINE p == Stepped(o, n)
  <1>1. o \in Order /\ o.filled <= o.quantity BY DEF Sound
  <1>2. o.quantity \in Nat /\ o.filled \in Nat /\ o.steps \in Nat /\ o.steps <= MaxSteps
    BY <1>1, OrderFields
  <1>3. n \in Nat /\ o.filled + n <= o.quantity /\ MaxSteps \in Nat BY <1>2 DEF Bounds
  <1> DEFINE complete == o.filled + n >= o.quantity
             total == o.filled + n
             st == IF complete THEN "COMPLETE" ELSE "OPEN"
             k == IF complete \/ o.steps = 0 THEN 0 ELSE o.steps - 1
  <1>4. p = [o EXCEPT !.filled = total, !.due = FALSE, !.status = st, !.steps = k] BY DEF Stepped
  <1>5. st = IF total = o.quantity THEN "COMPLETE" ELSE "OPEN" BY <1>2, <1>3
  <1>6. st \in {"COMPLETE", "OPEN"} /\ k \in 0..MaxSteps /\ total \in Nat BY <1>2, <1>3
  <1> HIDE DEF p, st, k, total
  <1>7. p \in Order BY <1>1, <1>4, <1>6 DEF Order, Ended
  <1>8. /\ p.side = o.side /\ p.quantity = o.quantity /\ p.filled = total /\ p.rejects = o.rejects
        /\ p.status = st /\ p.due = FALSE
    BY <1>1, <1>4 DEF Order
  <1>9. Sound(p) BY <1>3, <1>7, <1>8 DEF Sound, total
  <1>10. Seen(p) = [side |-> o.side, quantity |-> o.quantity, filled |-> total, status |-> st]
    BY <1>8 DEF Seen
  <1> QED BY <1>5, <1>9, <1>10 DEF p, total

\* A change of one order is a change of one entry of the view.
LEMMA ChangeIsSeen ==
    ASSUME orders \in Seq(Order), NEW i \in DOMAIN orders, NEW o \in Order,
           orders' = [orders EXCEPT ![i] = o]
    PROVE  View' = [View EXCEPT ![i] = Seen(o)]
  <1>1. DOMAIN orders' = DOMAIN orders OBVIOUS
  <1>2. \A j \in DOMAIN orders : orders'[j] = IF j = i THEN o ELSE orders[j] OBVIOUS
  <1> QED BY <1>1, <1>2 DEF View, Seen

\* The invariant holds of the order that is put in, and of all others.
LEMMA ChangeKeepsIt ==
    ASSUME IInv, NEW i \in DOMAIN orders, NEW o, Sound(o),
           orders' = [orders EXCEPT ![i] = o]
    PROVE  IInv'
  <1>1. o \in Order BY DEF Sound
  <1>2. DOMAIN orders = 1..Len(orders) BY LenProperties DEF IInv
  <1>3. orders' \in Seq(Order) BY <1>1, <1>2, ExceptSeq DEF IInv
  <1>4. DOMAIN orders' = DOMAIN orders OBVIOUS
  <1>5. \A j \in DOMAIN orders : Sound(orders'[j])
    <2> TAKE j \in DOMAIN orders
    <2>1. orders'[j] = IF j = i THEN o ELSE orders[j] OBVIOUS
    <2> QED BY <2>1 DEF IInv
  <1> QED BY <1>3, <1>4, <1>5 DEF IInv

--------------------------------------------------------------------------------
\* place_order: the view gains an open order without fills.
LEMMA Placed ==
    ASSUME Bounds, IInv, NEW c \in Caller, Place(c)
    PROVE  IInv' /\ Book!Next
  <1>1. PICK side \in {"BUY", "SELL"}, q \in Quantities, steps \in 1..MaxSteps, rejects \in BOOLEAN :
          orders' = Append(orders, NewOrder(side, q, steps, rejects))
    BY DEF Place
  <1> DEFINE new == NewOrder(side, q, steps, rejects)
  <1>2. q \in Nat \ {0} /\ steps \in Nat \ {0} BY DEF Bounds
  <1>3. Max({1, q \div steps}) \in Nat
    <2>1. PICK S : S = {1, q \div steps} OBVIOUS
    <2>2. q \div steps \in Nat BY <1>2
    <2>3. Max(S) \in S BY <2>1, <2>2, MaxOfTwo
    <2> QED BY <2>1, <2>2, <2>3
  <1>4. Sound(new) BY <1>2, <1>3 DEF Sound, NewOrder, Order, Bounds
  <1>5. Seen(new) = [side |-> side, quantity |-> q, filled |-> 0, status |-> "OPEN"]
    BY DEF Seen, NewOrder
  <1> HIDE DEF new
  <1>6. new \in Order BY <1>4 DEF Sound
  <1>7. orders \in Seq(Order) /\ Len(orders) \in Nat /\ DOMAIN orders = 1..Len(orders)
    BY LenProperties DEF IInv
  <1>8. orders' = Append(orders, new) BY <1>1 DEF new
  <1>9. /\ orders' \in Seq(Order) /\ DOMAIN orders' = 1..(Len(orders) + 1)
        /\ orders'[Len(orders) + 1] = new
        /\ \A j \in 1..Len(orders) : orders'[j] = orders[j]
    BY <1>6, <1>7, <1>8
  <1>10. IInv'
    <2> SUFFICES ASSUME NEW j \in DOMAIN orders' PROVE Sound(orders'[j]) BY <1>9 DEF IInv
    <2>1. j \in 1..Len(orders) \/ j = Len(orders) + 1 BY <1>7, <1>9
    <2> QED BY <2>1, <1>4, <1>7, <1>9 DEF IInv
  <1>11. View' = Append(View, Seen(new))
    <2> DEFINE Shown == {Seen(o) : o \in Order}
    <2>1. View \in Seq(Shown) /\ Len(View) = Len(orders)
      <3>1. View = [j \in 1..Len(orders) |-> Seen(orders[j])] BY <1>7 DEF View, Seen
      <3>2. View \in [1..Len(orders) -> Shown] BY <1>7, <3>1
      <3> QED BY <1>7, <3>2, <3>1
    <2>2. View' \in Seq(Shown) /\ Len(View') = Len(orders) + 1
      <3>1. View' = [j \in 1..(Len(orders) + 1) |-> Seen(orders'[j])] BY <1>9 DEF View, Seen
      <3>2. \A j \in 1..(Len(orders) + 1) : orders'[j] \in Order BY <1>9, <1>7, <1>6
      <3>3. View' \in [1..(Len(orders) + 1) -> Shown] BY <3>1, <3>2
      <3> QED BY <1>7, <3>3, <3>1
    <2>3. Seen(new) \in Shown BY <1>6
    <2>4. Append(View, Seen(new)) \in Seq(Shown) /\ Len(Append(View, Seen(new))) = Len(orders) + 1
      BY <2>1, <2>3, AppendProperties
    <2>5. ASSUME NEW j \in 1..(Len(orders) + 1) PROVE View'[j] = Append(View, Seen(new))[j]
      <3>1. CASE j = Len(orders) + 1
        <4>1. View'[j] = Seen(new) BY <1>9, <3>1 DEF View, Seen
        <4> QED BY <4>1, <3>1, <2>1, <2>3, AppendProperties
      <3>2. CASE j \in 1..Len(orders)
        <4>1. View'[j] = Seen(orders[j]) /\ View[j] = Seen(orders[j]) BY <1>7, <1>9, <3>2 DEF View, Seen
        <4>2. Append(View, Seen(new))[j] = View[j] BY <2>1, <2>3, <3>2, AppendProperties
        <4> QED BY <4>1, <4>2
      <3>3. j = Len(orders) + 1 \/ j \in 1..Len(orders) BY <1>7
      <3> QED BY <3>1, <3>2, <3>3
    <2> HIDE DEF Shown
    <2> QED BY <2>2, <2>4, <2>5, SeqEqual
  <1>12. Book!Accept(side, q) BY <1>5, <1>11 DEF Book!Accept
  <1> QED BY <1>10, <1>12 DEF Book!Next, Book!Side

\* What a thread does to one open order is one move of the book.
LEMMA Moved ==
    ASSUME IInv, NEW i \in DOMAIN orders, NEW o, Sound(o), orders[i].status = "OPEN",
           orders' = [orders EXCEPT ![i] = o]
    PROVE  IInv' /\ Book!Becomes(i, Seen(o)) /\ i \in DOMAIN View /\ View[i] = Seen(orders[i])
  <1>1. o \in Order /\ orders \in Seq(Order) BY DEF Sound, IInv
  <1>2. View' = [View EXCEPT ![i] = Seen(o)] BY <1>1, ChangeIsSeen
  <1>3. DOMAIN View = DOMAIN orders /\ View[i] = Seen(orders[i]) BY DEF View, Seen
  <1>4. View[i].status = "OPEN" BY <1>3 DEF Seen
  <1> QED BY <1>2, <1>3, <1>4, ChangeKeepsIt DEF Book!Becomes

\* _process_due_order rejects.
LEMMA PassRejected ==
    ASSUME Bounds, IInv, NEW t \in Thread, NEW i \in 1..MaxOrders, PassRejects(t, i)
    PROVE  IInv' /\ Book!Next
  <1>1. /\ i \in DOMAIN orders /\ orders[i].due /\ orders[i].rejects
        /\ orders' = [orders EXCEPT ![i] = Rejected(orders[i])]
    BY DEF PassRejects, Turn, Coming, Resolves
  <1>2. Sound(orders[i]) BY <1>1 DEF IInv
  <1>3. Sound(Rejected(orders[i])) BY <1>1, <1>2, EndIsSound DEF Rejected, Ended
  <1>4. orders[i].status = "OPEN" /\ orders[i].filled = 0 BY <1>1, <1>2 DEF Sound
  <1>5. Seen(Rejected(orders[i])) = [Seen(orders[i]) EXCEPT !.status = "REJECTED"]
    BY <1>2 DEF Seen, Rejected, Sound, Order
  <1>6. /\ IInv' /\ Book!Becomes(i, Seen(Rejected(orders[i]))) /\ i \in DOMAIN View
        /\ View[i] = Seen(orders[i])
    BY <1>1, <1>3, <1>4, Moved
  <1>7. Book!Reject(i) BY <1>4, <1>5, <1>6 DEF Book!Reject, Seen
  <1> QED BY <1>6, <1>7 DEF Book!Next

\* _process_due_order fills a step of it, or the rest.
LEMMA PassFilled ==
    ASSUME Bounds, IInv, NEW t \in Thread, NEW i \in 1..MaxOrders, PassFills(t, i)
    PROVE  IInv' /\ Book!Next
  <1> DEFINE n == StepQuantity(orders[i])
             o == Stepped(orders[i], n)
  <1>1. /\ i \in DOMAIN orders /\ orders[i].due /\ ~orders[i].rejects
        /\ orders' = [orders EXCEPT ![i] = o]
    BY DEF PassFills, Turn, Coming, Resolves
  <1>2. Sound(orders[i]) BY <1>1 DEF IInv
  <1>3. n \in 0..(orders[i].quantity - orders[i].filled) BY <1>2, StepFits DEF Sound
  <1> HIDE DEF n
  <1>4. /\ orders[i].quantity \in Nat /\ orders[i].filled \in Nat /\ orders[i].steps \in 0..MaxSteps
        /\ orders[i].status = "OPEN"
    BY <1>1, <1>2 DEF Sound, Order, Bounds
  <1>6. Sound(o) BY <1>1, <1>2, <1>3, <1>4, StepIsSound
  <1>7. Seen(o) = [side |-> orders[i].side, quantity |-> orders[i].quantity,
                   filled |-> orders[i].filled + n,
                   status |-> IF orders[i].filled + n = orders[i].quantity THEN "COMPLETE" ELSE "OPEN"]
    BY <1>1, <1>2, <1>3, <1>4, StepIsSound
  <1> HIDE DEF o
  <1>8. IInv' /\ Book!Becomes(i, Seen(o)) /\ i \in DOMAIN View /\ View[i] = Seen(orders[i])
    BY <1>1, <1>4, <1>6, Moved
  <1>9. Book!Fill(i, orders[i].filled + n)
    <2>1. View[i] = [side |-> orders[i].side, quantity |-> orders[i].quantity,
                     filled |-> orders[i].filled, status |-> orders[i].status]
      BY <1>8 DEF Seen
    <2>2. PICK total : total = orders[i].filled + n OBVIOUS
    <2>3. PICK st : st = IF total = orders[i].quantity THEN "COMPLETE" ELSE "OPEN" OBVIOUS
    <2>4. PICK v : v = View[i] OBVIOUS
    <2>5. Seen(o) = [side |-> orders[i].side, quantity |-> orders[i].quantity, filled |-> total,
                     status |-> st]
      BY <1>7, <2>2, <2>3
    <2>6. Seen(o) = [v EXCEPT !.filled = total, !.status = st]
      <3>1. PICK z : z = [v EXCEPT !.filled = total, !.status = st] OBVIOUS
      <3>2. PICK a, b, c, d : /\ v = [side |-> a, quantity |-> b, filled |-> c, status |-> d]
                              /\ a = orders[i].side /\ b = orders[i].quantity
        BY <2>1, <2>4
      <3>3. z = [side |-> a, quantity |-> b, filled |-> total, status |-> st] BY ONLY <3>1, <3>2
      <3> QED BY <2>5, <3>1, <3>2, <3>3
    <2>7. v.quantity = orders[i].quantity BY <2>1, <2>4
    <2> QED BY <1>8, <2>2, <2>3, <2>4, <2>6, <2>7 DEF Book!Fill
  <1>10. orders[i].filled + n \in View[i].filled..View[i].quantity BY <1>3, <1>4, <1>8 DEF Seen
  <1> QED BY <1>8, <1>9, <1>10 DEF Book!Next

\* cancel_order.
LEMMA CancelIsCancel ==
    ASSUME Bounds, IInv, NEW c \in Caller, NEW i \in 1..MaxOrders, Cancel(c, i)
    PROVE  IInv' /\ Book!Next
  <1>1. /\ i \in DOMAIN orders /\ orders[i].status = "OPEN"
        /\ orders' = [orders EXCEPT ![i] = Cancelled(orders[i])]
    BY DEF Cancel, Changeable, Change
  <1>2. Sound(orders[i]) BY <1>1 DEF IInv
  <1>3. Sound(Cancelled(orders[i])) BY <1>1, <1>2, EndIsSound DEF Cancelled, Ended
  <1>4. Seen(Cancelled(orders[i])) = [Seen(orders[i]) EXCEPT !.status = "CANCELLED"]
    BY <1>2 DEF Seen, Cancelled, Sound, Order
  <1>5. /\ IInv' /\ Book!Becomes(i, Seen(Cancelled(orders[i]))) /\ i \in DOMAIN View
        /\ View[i] = Seen(orders[i])
    BY <1>1, <1>3, Moved
  <1>6. Book!Cancel(i) BY <1>4, <1>5 DEF Book!Cancel
  <1> QED BY <1>5, <1>6 DEF Book!Next

\* modify_order.
LEMMA ModifyIsAmend ==
    ASSUME Bounds, IInv, NEW c \in Caller, NEW i \in 1..MaxOrders, Modify(c, i)
    PROVE  IInv' /\ Book!Next
  <1>1. PICK q \in Quantities :
          /\ i \in DOMAIN orders /\ orders[i].status = "OPEN" /\ q >= orders[i].filled
          /\ orders' = [orders EXCEPT ![i] = [orders[i] EXCEPT !.quantity = q]]
    BY DEF Modify, Changeable, Change
  <1> DEFINE o == [orders[i] EXCEPT !.quantity = q]
  <1>2. Sound(orders[i]) BY <1>1 DEF IInv
  <1>3. Sound(o) BY <1>1, <1>2 DEF Sound, Order, Bounds
  <1>4. Seen(o) = [Seen(orders[i]) EXCEPT !.quantity = q] BY <1>2 DEF Seen, Sound, Order
  <1> HIDE DEF o
  <1>5. orders' = [orders EXCEPT ![i] = o] BY <1>1 DEF o
  <1>6. IInv' /\ Book!Becomes(i, Seen(o)) /\ i \in DOMAIN View /\ View[i] = Seen(orders[i])
    BY <1>1, <1>3, <1>5, Moved
  <1>7. Book!Amend(i, q) BY <1>1, <1>4, <1>6 DEF Book!Amend, Seen
  <1> QED BY <1>6, <1>7 DEF Book!Next

\* A clock that comes to an order is not seen by its owner.
LEMMA DueIsUnseen ==
    ASSUME Bounds, IInv, NEW i \in 1..MaxOrders, ComesDue(i)
    PROVE  IInv' /\ View' = View
  <1> DEFINE o == [orders[i] EXCEPT !.due = TRUE]
  <1>1. i \in DOMAIN orders /\ orders[i].status = "OPEN" /\ orders' = [orders EXCEPT ![i] = o]
    BY DEF ComesDue
  <1>2. Sound(orders[i]) BY <1>1 DEF IInv
  <1>3. Sound(o) /\ Seen(o) = Seen(orders[i]) BY <1>1, <1>2 DEF Sound, Seen, Order
  <1> HIDE DEF o
  <1>4. IInv' BY <1>1, <1>3, ChangeKeepsIt
  <1>5. View' = [View EXCEPT ![i] = Seen(orders[i])]
    BY <1>1, <1>3, ChangeIsSeen DEF IInv, Sound
  <1>6. View[i] = Seen(orders[i]) /\ i \in DOMAIN View BY <1>1 DEF View, Seen
  <1> QED BY <1>4, <1>5, <1>6 DEF View

--------------------------------------------------------------------------------
\* Every step keeps the orders sound and is a step of the book, or none.
LEMMA BookStep == ASSUME Bounds, IInv, [Next]_vars PROVE IInv' /\ [Book!Next]_View
  <1>1. CASE orders' = orders BY <1>1 DEF IInv, View
  <1>2. CASE \E c \in Caller : Place(c) BY <1>2, Placed
  <1>3. CASE \E c \in Caller, o \in 1..MaxOrders : Cancel(c, o) BY <1>3, CancelIsCancel
  <1>4. CASE \E c \in Caller, o \in 1..MaxOrders : Modify(c, o) BY <1>4, ModifyIsAmend
  <1>5. CASE \E t \in Thread, o \in 1..MaxOrders : PassRejects(t, o) BY <1>5, PassRejected
  <1>6. CASE \E t \in Thread, o \in 1..MaxOrders : PassFills(t, o) BY <1>6, PassFilled
  <1>7. CASE \E o \in 1..MaxOrders : ComesDue(o) BY <1>7, DueIsUnseen
  <1>8. CASE UNCHANGED vars BY <1>1, <1>8 DEF vars
  <1>9. CASE \E c \in Caller : Pump(c) \/ Returns(c) BY <1>1, <1>9 DEF Pump, Returns
  <1>10. CASE EngineTicks \/ \E t \in Thread : PassEnds(t) \/ Push(t) \/ PriceFails(t)
    BY <1>1, <1>10 DEF EngineTicks, PassEnds, Push, PriceFails
  <1> QED BY <1>2, <1>3, <1>4, <1>5, <1>6, <1>7, <1>8, <1>9, <1>10 DEF Next, Calls, Pass

\* No step of a caller, of the engine or of the clock does to an order what the trade
\* cycle does not reckon with (place_order, _process_due_order, cancel, modify).
THEOREM BookIsImplemented == ASSUME Bounds PROVE Spec => OrdersFollowTheBook
  <1>1. Init => IInv /\ Book!Init
    <2> SUFFICES ASSUME orders = <<>> PROVE IInv /\ Book!Init BY DEF Init
    <2>1. IInv BY EmptySeq DEF IInv
    <2>2. View = <<>> BY DEF View
    <2> QED BY <2>1, <2>2 DEF Book!Init
  <1>2. IInv /\ [Next]_vars => IInv' /\ [Book!Next]_View BY BookStep
  <1> QED BY <1>1, <1>2, PTL DEF Spec, OrdersFollowTheBook, Book!Spec

--------------------------------------------------------------------------------
(* The ledger.  A sum over the orders is a recursive function; what it is after   *)
(* one order changed is found by induction, from the least natural number of a set. *)

LEMMA LeastNatural ==
    ASSUME NEW T, T \subseteq Nat, T # {}
    PROVE  \E x \in T : \A y \in T : x <= y
  <1> DEFINE Less == {p \in Nat \X Nat : p[1] < p[2]}
  <1>1. IsWellFoundedOn(Less, Nat) BY NatLessThanWellFounded DEF OpToRel
  <1>2. \E x \in T : \A y \in T : <<y, x>> \notin Less
    <2> HIDE DEF Less
    <2> QED BY <1>1, WFMin
  <1>3. ASSUME NEW x \in T, NEW y \in T, <<y, x>> \notin Less PROVE x <= y BY <1>3
  <1> QED BY <1>2, <1>3

\* Induction, of a set.
LEMMA AllNaturals ==
    ASSUME NEW T, 0 \in T, \A n \in Nat : n \in T => n + 1 \in T
    PROVE  Nat \subseteq T
  <1> SUFFICES ASSUME Nat \ T # {} PROVE FALSE OBVIOUS
  <1>1. PICK m \in Nat \ T : \A y \in Nat \ T : m <= y BY LeastNatural
  <1>2. m - 1 \in Nat /\ m - 1 \notin Nat \ T BY <1>1
  <1>3. (m - 1) + 1 \in T BY <1>2
  <1> QED BY <1>1, <1>3

\* f[n] is the sum of the first n values of v.
Sums(f, v, n) == f = [k \in 0..n |-> IF k = 0 THEN 0 ELSE f[k - 1] + v[k]]

LEMMA SumExists ==
    ASSUME NEW N \in Nat, NEW v
    PROVE  \E f : Sums(f, v, N)
  <1> DEFINE T == {n \in Nat : \E f : Sums(f, v, n)}
  <1>1. 0 \in T
    <2> DEFINE f == [k \in 0..0 |-> 0]
    <2>1. Sums(f, v, 0) BY DEF Sums
    <2> QED BY <2>1
  <1>2. ASSUME NEW n \in Nat, n \in T PROVE n + 1 \in T
    <2>1. PICK f : Sums(f, v, n) BY <1>2
    <2> DEFINE g == [k \in 0..(n + 1) |-> IF k <= n THEN f[k] ELSE f[n] + v[n + 1]]
    <2>2. ASSUME NEW k \in 0..(n + 1) PROVE g[k] = IF k = 0 THEN 0 ELSE g[k - 1] + v[k]
      <3>1. CASE k = n + 1 BY <3>1
      <3>2. CASE k <= n
        <4>1. f[k] = IF k = 0 THEN 0 ELSE f[k - 1] + v[k] BY <2>1, <3>2 DEF Sums
        <4> QED BY <3>2, <4>1
      <3> QED BY <3>1, <3>2
    <2>3. Sums(g, v, n + 1) BY <2>2 DEF Sums
    <2> QED BY <2>3
  <1> HIDE DEF T
  <1>3. N \in T BY <1>1, <1>2, AllNaturals
  <1> QED BY <1>3 DEF T

\* Sums of integers are integers.
LEMMA SumIsInt ==
    ASSUME NEW N \in Nat, NEW v \in [1..N -> Int], NEW f, Sums(f, v, N)
    PROVE  \A n \in 0..N : f[n] \in Int
  <1> DEFINE T == {n \in Nat : n <= N => f[n] \in Int}
  <1>1. 0 \in T BY DEF Sums
  <1>2. ASSUME NEW n \in Nat, n \in T PROVE n + 1 \in T
    <2> SUFFICES ASSUME n + 1 <= N PROVE f[n + 1] \in Int OBVIOUS
    <2>1. f[n] \in Int /\ v[n + 1] \in Int BY <1>2
    <2>2. f[n + 1] = f[n] + v[n + 1] BY DEF Sums
    <2> QED BY <2>1, <2>2
  <1> HIDE DEF T
  <1>3. Nat \subseteq T BY <1>1, <1>2, AllNaturals
  <1> QED BY <1>3 DEF T

\* d at k only, and from k on.
AtOnly(n, k, d) == IF n = k THEN d ELSE 0
From(n, k, d) == IF 1 <= k /\ k <= n THEN d ELSE 0

\* Sums of two lists of values that differ by d, at k at most.
Differ(f, v, n, g, w, m, k, d) ==
    /\ n \in Nat /\ m \in Nat /\ n <= m /\ k \in Nat /\ d \in Int
    /\ v \in [1..n -> Int] /\ w \in [1..m -> Int]
    /\ Sums(f, v, n) /\ Sums(g, w, m)
    /\ \A i \in 1..n : w[i] = v[i] + AtOnly(i, k, d)

LEMMA SumDiffers ==
    ASSUME NEW f, NEW v, NEW N, NEW g, NEW w, NEW M, NEW k, NEW d, Differ(f, v, N, g, w, M, k, d)
    PROVE  \A n \in 0..N : g[n] = f[n] + From(n, k, d)
  <1> DEFINE T == {n \in Nat : n <= N => g[n] = f[n] + From(n, k, d)}
  <1> USE DEF Differ
  <1>0. \A n \in 0..N : f[n] \in Int BY SumIsInt
  <1>1. 0 \in T BY DEF Sums, From
  <1>2. ASSUME NEW n \in Nat, n \in T PROVE n + 1 \in T
    <2> SUFFICES ASSUME n + 1 <= N PROVE g[n + 1] = f[n + 1] + From(n + 1, k, d) OBVIOUS
    <2>1. n \in 0..N /\ n + 1 \in 0..N /\ n + 1 # 0 OBVIOUS
    <2>2. f[n] \in Int /\ f[n + 1] = f[n] + v[n + 1]
      <3>1. f[n] \in Int BY <1>0, <2>1
      <3>2. f[n + 1] = f[n] + v[n + 1] BY <2>1 DEF Sums
      <3> QED BY <3>1, <3>2
    <2>3. g[n + 1] = g[n] + w[n + 1] BY DEF Sums
    <2>4. g[n] = f[n] + From(n, k, d) BY <1>2
    <2>5. w[n + 1] = v[n + 1] + AtOnly(n + 1, k, d) /\ v[n + 1] \in Int OBVIOUS
    <2> QED BY <2>2, <2>3, <2>4, <2>5 DEF AtOnly, From
  <1> HIDE DEF T
  <1>3. Nat \subseteq T BY <1>1, <1>2, AllNaturals
  <1> QED BY <1>3 DEF T

\* What each order has filled.
Fills(book) == [n \in 1..Len(book) |-> Signed(book[n], book[n].filled)]

LEMMA NetIsSum ==
    ASSUME NEW book \in Seq(Order)
    PROVE  /\ Fills(book) \in [1..Len(book) -> Int]
           /\ \E f : Sums(f, Fills(book), Len(book)) /\ NetFilled(book) = f[Len(book)]
  <1> DEFINE N == Len(book)
             Rec(f) == [n \in 0..N |-> IF n = 0 THEN 0 ELSE f[n - 1] + Signed(book[n], book[n].filled)]
             net == CHOOSE f : f = Rec(f)
  <1>1. N \in Nat BY LenProperties
  <1>2. \A n \in 1..N : book[n] \in Order OBVIOUS
  <1>3. Fills(book) \in [1..N -> Int] BY <1>2 DEF Fills, Signed, Order
  <1>4. ASSUME NEW f PROVE Sums(f, Fills(book), N) <=> f = Rec(f)
    <2>1. [k \in 0..N |-> IF k = 0 THEN 0 ELSE f[k - 1] + Fills(book)[k]] = Rec(f)
      BY <1>1 DEF Fills
    <2> QED BY <2>1 DEF Sums
  <1>5. PICK f : Sums(f, Fills(book), N) BY <1>1, SumExists
  <1>6. net = Rec(net)
    <2>1. f = Rec(f) BY <1>4, <1>5
    <2> HIDE DEF Rec
    <2> QED BY <2>1
  <1>7. NetFilled(book) = net[N] BY DEF NetFilled
  <1> HIDE DEF net, Rec
  <1> QED BY <1>3, <1>4, <1>6, <1>7

\* A new order with no fill adds nothing.
LEMMA NetOfAppend ==
    ASSUME NEW book \in Seq(Order), NEW o \in Order, o.filled = 0
    PROVE  NetFilled(Append(book, o)) = NetFilled(book)
  <1> DEFINE longer == Append(book, o)
             N == Len(book)
  <1>1. /\ N \in Nat /\ longer \in Seq(Order) /\ Len(longer) = N + 1
        /\ longer[N + 1] = o /\ \A n \in 1..N : longer[n] = book[n]
    BY LenProperties, AppendProperties
  <1> HIDE DEF longer
  <1>2. PICK f : Sums(f, Fills(book), N) /\ NetFilled(book) = f[N] BY NetIsSum
  <1>3. PICK g : Sums(g, Fills(longer), N + 1) /\ NetFilled(longer) = g[N + 1] BY <1>1, NetIsSum
  <1>4. Fills(book) \in [1..N -> Int] /\ Fills(longer) \in [1..(N + 1) -> Int]
    BY <1>1, NetIsSum
  <1>5. \A n \in 1..N : Fills(longer)[n] = Fills(book)[n] BY <1>1 DEF Fills
  <1>6. Fills(longer)[N + 1] = 0 BY <1>1 DEF Fills, Signed
  <1>7. g[N] = f[N]
    <2>1. PICK v : v = Fills(book) OBVIOUS
    <2>2. PICK w : w = Fills(longer) OBVIOUS
    <2>3. v \in [1..N -> Int] /\ Sums(f, v, N) BY <1>2, <1>4, <2>1
    <2>4. w \in [1..(N + 1) -> Int] /\ Sums(g, w, N + 1) BY <1>3, <1>4, <2>2
    <2>5. \A n \in 1..N : w[n] = v[n] + AtOnly(n, 0, 0)
      BY <1>1, <1>5, <2>1, <2>2, <2>3 DEF AtOnly
    <2>6. N \in Nat /\ N + 1 \in Nat /\ N <= N + 1 /\ N \in 0..N BY <1>1
    <2> HIDE DEF N
    <2>7. Differ(f, v, N, g, w, N + 1, 0, 0) BY <2>3, <2>4, <2>5, <2>6 DEF Differ
    <2>8. \A n \in 0..N : g[n] = f[n] + From(n, 0, 0) BY ONLY <2>7, SumDiffers
    <2>9. f[N] \in Int BY ONLY <2>3, <2>6, SumIsInt
    <2> QED BY <2>6, <2>8, <2>9 DEF From
  <1>8. g[N + 1] = g[N] + Fills(longer)[N + 1] BY <1>1, <1>3 DEF Sums
  <1>9. f[N] \in Int
    <2>1. N \in 0..N BY <1>1
    <2>2. PICK v : v = Fills(book) OBVIOUS
    <2>3. v \in [1..N -> Int] /\ Sums(f, v, N) BY <1>2, <1>4, <2>2
    <2> HIDE DEF N
    <2> QED BY ONLY <1>1, <2>1, <2>3, SumIsInt
  <1> QED BY <1>2, <1>3, <1>6, <1>7, <1>8, <1>9 DEF longer

\* A change of one order changes the sum by the change of its fills.
LEMMA NetOfChange ==
    ASSUME NEW book \in Seq(Order), NEW i \in DOMAIN book, NEW o \in Order
    PROVE  NetFilled([book EXCEPT ![i] = o])
               = NetFilled(book) + Signed(o, o.filled) - Signed(book[i], book[i].filled)
  <1> DEFINE changed == [book EXCEPT ![i] = o]
             N == Len(book)
             d == Signed(o, o.filled) - Signed(book[i], book[i].filled)
  <1>1. N \in Nat /\ DOMAIN book = 1..N /\ book[i] \in Order BY LenProperties
  <1>2. /\ changed \in Seq(Order) /\ Len(changed) = N
        /\ \A n \in 1..N : changed[n] = IF n = i THEN o ELSE book[n]
    BY <1>1, ExceptSeq
  <1>3. d \in Int /\ Signed(o, o.filled) \in Int /\ Signed(book[i], book[i].filled) \in Int
    <2>1. \A x \in Order : x.filled \in Nat BY DEF Order
    <2>2. \A x \in Order : Signed(x, x.filled) \in Int BY <2>1 DEF Signed
    <2> QED BY <1>1, <2>2
  <1> HIDE DEF changed
  <1>4. PICK f : Sums(f, Fills(book), N) /\ NetFilled(book) = f[N] BY NetIsSum
  <1>5. PICK g : Sums(g, Fills(changed), N) /\ NetFilled(changed) = g[N] BY <1>2, NetIsSum
  <1>6. Fills(book) \in [1..N -> Int] /\ Fills(changed) \in [1..N -> Int] BY <1>2, NetIsSum
  <1>7. \A n \in 1..N : Fills(changed)[n] = Fills(book)[n] + AtOnly(n, i, d)
    <2> TAKE n \in 1..N
    <2>1. CASE n = i BY <1>2, <1>3, <2>1 DEF Fills, AtOnly
    <2>2. CASE n # i
      <3>1. Fills(changed)[n] = Fills(book)[n] BY <1>2, <2>2 DEF Fills
      <3> QED BY <1>6, <2>2, <3>1 DEF AtOnly
    <2> QED BY <2>1, <2>2
  <1> HIDE DEF d
  <1>8. PICK v : v = Fills(book) OBVIOUS
  <1>9. PICK w : w = Fills(changed) OBVIOUS
  <1>10. v \in [1..N -> Int] /\ Sums(f, v, N) BY <1>4, <1>6, <1>8
  <1>11. w \in [1..N -> Int] /\ Sums(g, w, N) BY <1>5, <1>6, <1>9
  <1>12. \A n \in 1..N : w[n] = v[n] + AtOnly(n, i, d) BY <1>7, <1>8, <1>9
  <1>13. N <= N /\ N \in 0..N /\ i \in Nat BY <1>1
  <1> HIDE DEF N
  <1>14. Differ(f, v, N, g, w, N, i, d) BY <1>1, <1>3, <1>10, <1>11, <1>12, <1>13 DEF Differ
  <1>15. \A n \in 0..N : g[n] = f[n] + From(n, i, d) BY ONLY <1>14, SumDiffers
  <1>16. f[N] \in Int BY ONLY <1>1, <1>10, <1>13, SumIsInt
  <1>17. g[N] = f[N] + d BY <1>1, <1>13, <1>15 DEF From
  <1> QED BY <1>3, <1>4, <1>5, <1>17, <1>16 DEF changed, d

--------------------------------------------------------------------------------
LedgerOK ==
    /\ position \in [quantity : Int, average : Nat, realized : Int]
    /\ cash \in Int
    /\ FillsAreHeld

\* A fill that enlarges the position leaves a mean price without a remainder (the code
\* divides decimals, to 28 digits, where the model has whole numbers).
MeanIsExact ==
    Abs(position'.quantity) > Abs(position.quantity) /\ position.quantity * position'.quantity >= 0
        => (position.average * Abs(position.quantity) + Abs(cash' - cash)) % Abs(position'.quantity) = 0

\* Added and Reduced keep the types, and the quantity is what was filled.
LEMMA UpdateAdds ==
    ASSUME NEW p \in [quantity : Int, average : Nat, realized : Int],
           NEW delta \in Int \ {0}, NEW price \in Nat
    PROVE  /\ UpdatePosition(p, delta, price) \in [quantity : Int, average : Nat, realized : Int]
           /\ UpdatePosition(p, delta, price).quantity = p.quantity + delta
  <1>1. CASE p.quantity = 0 \/ (p.quantity > 0) = (delta > 0)
    <2> DEFINE whole == Abs(p.quantity + delta)
               sum == p.average * Abs(p.quantity) + price * Abs(delta)
    <2>1. p.quantity \in Int /\ p.average \in Nat /\ p.quantity + delta # 0 BY <1>1
    <2>2. whole \in Nat \ {0} /\ Abs(p.quantity) \in Nat /\ Abs(delta) \in Nat BY <2>1 DEF Abs
    <2>3. sum \in Nat BY <2>1, <2>2
    <2> HIDE DEF whole, sum
    <2>4. sum \div whole \in Nat BY <2>2, <2>3
    <2>5. UpdatePosition(p, delta, price)
            = [p EXCEPT !.quantity = p.quantity + delta, !.average = sum \div whole]
      BY <1>1 DEF UpdatePosition, Added, sum, whole
    <2>6. PICK m \in Nat : m = sum \div whole BY <2>4
    <2>7. UpdatePosition(p, delta, price)
            = [quantity |-> p.quantity + delta, average |-> m, realized |-> p.realized]
      BY <2>5, <2>6
    <2> QED BY <2>1, <2>6, <2>7
  <1>2. CASE ~(p.quantity = 0 \/ (p.quantity > 0) = (delta > 0))
    <2>1. p.quantity \in Int /\ p.average \in Nat /\ p.realized \in Int OBVIOUS
    <2>2. Min({Abs(p.quantity), Abs(delta)}) \in Nat
      <3>1. PICK S : S = {Abs(p.quantity), Abs(delta)} OBVIOUS
      <3>2. Abs(p.quantity) \in Nat /\ Abs(delta) \in Nat BY <2>1 DEF Abs
      <3>3. Min(S) \in S
        <4>1. Abs(p.quantity) \in Int /\ Abs(delta) \in Int BY <3>2
        <4> QED BY ONLY <3>1, <4>1, MinOfTwo
      <3> QED BY <3>1, <3>2, <3>3
    <2>3. PICK closing \in Nat : closing = Min({Abs(p.quantity), Abs(delta)}) BY <2>2
    <2>4. PICK a \in Nat : a = IF Abs(delta) > closing THEN price
                               ELSE IF p.quantity + delta = 0 THEN 0 ELSE p.average
      BY <2>1
    <2>5. PICK r \in Int : r = p.realized + closing * (IF p.quantity > 0 THEN price - p.average
                                                                  ELSE p.average - price)
      BY <2>1, <2>3
    <2>6. UpdatePosition(p, delta, price)
            = [quantity |-> p.quantity + delta, average |-> a, realized |-> r]
      BY <1>2, <2>3, <2>4, <2>5 DEF UpdatePosition, Reduced
    <2> QED BY <2>1, <2>6
  <1> QED BY <1>1, <1>2

\* What the position is worth at its mean price is its profit less what the fills paid.
LEMMA UpdateBalances ==
    ASSUME NEW p \in [quantity : Int, average : Nat, realized : Int],
           NEW delta \in Int \ {0}, NEW price \in Nat,
           NEW q, q = UpdatePosition(p, delta, price),
           Abs(q.quantity) > Abs(p.quantity) /\ p.quantity * q.quantity >= 0
               => (p.average * Abs(p.quantity) + price * Abs(delta)) % Abs(q.quantity) = 0
    PROVE  q.realized - q.quantity * q.average = p.realized - p.quantity * p.average - delta * price
  <1>1. p.quantity \in Int /\ p.average \in Nat /\ p.realized \in Int OBVIOUS
  <1>2. PICK h \in Int, a \in Nat, z \in Int : h = p.quantity /\ a = p.average /\ z = p.realized
    BY <1>1
  <1>3. CASE h = 0 \/ (h > 0) = (delta > 0)
    <2>1. q = [p EXCEPT !.quantity = h + delta,
                        !.average = (a * Abs(h) + price * Abs(delta)) \div Abs(h + delta)]
      BY <1>2, <1>3 DEF UpdatePosition, Added
    <2>2. PICK sum : sum = a * Abs(h) + price * Abs(delta) OBVIOUS
    <2>3. PICK n : n = Abs(h + delta) OBVIOUS
    <2>4. n \in Nat \ {0} /\ n > Abs(h) BY <1>3, <2>3 DEF Abs
    <2>5. sum \in Nat
      <3>1. Abs(h) \in Nat /\ Abs(delta) \in Nat BY DEF Abs
      <3> QED BY <3>1, <2>2
    <2>6. q.quantity = h + delta /\ q.realized = z /\ q.average = sum \div n
      BY <1>2, <2>1, <2>2, <2>3
    <2>7. h * (h + delta) >= 0
      <3>1. CASE h >= 0 /\ h + delta >= 0 BY <3>1
      <3>2. CASE h <= 0 /\ h + delta <= 0 BY <3>2
      <3> QED BY <1>3, <3>1, <3>2
    <2>8. sum % n = 0 BY <1>2, <2>2, <2>3, <2>4, <2>6, <2>7
    <2>9. PICK m \in Nat : m = sum \div n /\ m * n = sum
      <3>1. (sum \div n) * n = sum /\ sum \div n \in Nat BY ONLY <2>4, <2>5, <2>8
      <3> QED BY <3>1
    <2>10. m * (h + delta) = a * h + price * delta
      <3>1. CASE h + delta > 0
        <4>1. n = h + delta /\ Abs(h) = h /\ Abs(delta) = delta BY <1>3, <2>3, <3>1 DEF Abs
        <4> QED BY <2>2, <2>9, <4>1
      <3>2. CASE h + delta < 0
        <4>1. n = -(h + delta) /\ Abs(h) = -h /\ Abs(delta) = -delta BY <1>3, <2>3, <3>2 DEF Abs
        <4>2. m * (-(h + delta)) = a * (-h) + price * (-delta) BY <2>2, <2>9, <4>1
        <4> QED BY <4>2
      <3> QED BY <1>3, <3>1, <3>2
    <2> QED BY <1>2, <2>6, <2>9, <2>10
  <1>4. CASE ~(h = 0 \/ (h > 0) = (delta > 0))
    <2>1. Abs(h) \in Nat /\ Abs(delta) \in Nat BY DEF Abs
    <2>2. PICK c : c = Min({Abs(h), Abs(delta)}) OBVIOUS
    <2>3. c \in {Abs(h), Abs(delta)} /\ c <= Abs(h) /\ c <= Abs(delta)
      <3>1. PICK S : S = {Abs(h), Abs(delta)} OBVIOUS
      <3>2. Min(S) \in S /\ Min(S) <= Abs(h) /\ Min(S) <= Abs(delta)
        <4>1. Abs(h) \in Int /\ Abs(delta) \in Int BY <2>1
        <4> QED BY ONLY <3>1, <4>1, MinOfTwo
      <3> QED BY <2>2, <3>1, <3>2
    <2>4. /\ q.quantity = h + delta
          /\ q.average = IF Abs(delta) > c THEN price ELSE IF h + delta = 0 THEN 0 ELSE a
          /\ q.realized = z + c * (IF h > 0 THEN price - a ELSE a - price)
      BY <1>2, <1>4, <2>2 DEF UpdatePosition, Reduced
    <2>5. CASE Abs(delta) > Abs(h)
      <3>1. c = Abs(h) BY <2>1, <2>3, <2>5
      <3>2. c * (IF h > 0 THEN price - a ELSE a - price) = h * (price - a)
        <4>1. CASE h > 0 BY <3>1, <4>1 DEF Abs
        <4>2. CASE h < 0 BY <3>1, <4>2 DEF Abs
        <4> QED BY <1>4, <4>1, <4>2
      <3>3. q.realized = z + h * (price - a) /\ q.average = price BY <2>4, <2>5, <3>1, <3>2
      <3> QED BY <1>2, <2>4, <3>3
    <2>6. CASE Abs(delta) <= Abs(h)
      <3>1. c = Abs(delta) BY <2>1, <2>3, <2>6
      <3>2. c * (IF h > 0 THEN price - a ELSE a - price) = -delta * (price - a)
        <4>1. CASE h > 0
          <5>1. c = -delta BY <1>4, <3>1, <4>1 DEF Abs
          <5> QED BY <4>1, <5>1
        <4>2. CASE h < 0
          <5>1. c = delta BY <1>4, <3>1, <4>2 DEF Abs
          <5> QED BY <4>2, <5>1
        <4> QED BY <1>4, <4>1, <4>2
      <3>3. q.realized = z + -delta * (price - a) BY <2>4, <3>2
      <3>4. (h + delta) * q.average = (h + delta) * a
        <4>1. CASE h + delta = 0 BY <2>1, <2>4, <3>1, <4>1
        <4>2. CASE h + delta # 0 BY <2>1, <2>4, <3>1, <4>2
        <4> QED BY <4>1, <4>2
      <3> QED BY <1>2, <2>4, <3>3, <3>4
    <2> QED BY <2>1, <2>5, <2>6
  <1> QED BY <1>3, <1>4

\* A move that changes no fill, and not the ledger.
LEMMA KeepsLedger ==
    ASSUME IInv, LedgerOK, UNCHANGED ledger, NetFilled(orders') = NetFilled(orders)
    PROVE  LedgerOK'
  <1>1. position' = position /\ cash' = cash BY DEF ledger
  <1> QED BY <1>1 DEF LedgerOK, FillsAreHeld

\* An order that is replaced by one of the same side and fill.
LEMMA SameFill ==
    ASSUME IInv, LedgerOK, UNCHANGED ledger, NEW i \in DOMAIN orders, NEW o \in Order,
           o.side = orders[i].side, o.filled = orders[i].filled,
           orders' = [orders EXCEPT ![i] = o]
    PROVE  LedgerOK'
  <1>1. orders \in Seq(Order) /\ orders[i] \in Order BY DEF IInv, Sound
  <1>2. Signed(o, o.filled) = Signed(orders[i], orders[i].filled) BY DEF Signed
  <1>3. NetFilled(orders') = NetFilled(orders) + Signed(o, o.filled) - Signed(orders[i], orders[i].filled)
    BY <1>1, NetOfChange
  <1>4. NetFilled(orders) \in Int BY DEF LedgerOK, FillsAreHeld
  <1>5. Signed(o, o.filled) \in Int
    <2>1. o.filled \in Nat BY DEF Order
    <2> QED BY <2>1 DEF Signed
  <1>6. NetFilled(orders') = NetFilled(orders) BY <1>2, <1>3, <1>4, <1>5
  <1> QED BY <1>6, KeepsLedger

\* A fill moves the position by what the order gained.
LEMMA FillIsHeld ==
    ASSUME Bounds, Prices \subseteq Nat, IInv, LedgerOK,
           NEW t \in Thread, NEW i \in 1..MaxOrders, PassFills(t, i)
    PROVE  LedgerOK' /\ (CostIsPaid /\ MeanIsExact => CostIsPaid')
  <1> DEFINE n == StepQuantity(orders[i])
             o == Stepped(orders[i], n)
             delta == Signed(orders[i], n)
  <1>1. /\ i \in DOMAIN orders /\ orders[i].due /\ ~orders[i].rejects
        /\ orders' = [orders EXCEPT ![i] = o]
    BY DEF PassFills, Turn, Coming, Resolves
  <1>2. PICK price \in Prices :
          /\ position' = IF n > 0 THEN UpdatePosition(position, delta, price) ELSE position
          /\ cash' = cash - delta * price
    BY DEF PassFills
  <1>3. Sound(orders[i]) /\ orders \in Seq(Order) BY <1>1 DEF IInv
  <1>4. n \in 0..(orders[i].quantity - orders[i].filled) BY <1>3, StepFits DEF Sound
  <1>5. /\ orders[i] \in Order /\ orders[i].quantity \in Nat /\ orders[i].filled \in Nat
        /\ orders[i].status = "OPEN"
    BY <1>1, <1>3 DEF Sound, Order, Bounds
  <1>6. n \in Nat BY <1>4, <1>5
  <1>7. o \in Order /\ o.side = orders[i].side /\ o.filled = orders[i].filled + n
    <2> HIDE DEF n
    <2>1. Sound(o) BY <1>1, <1>3, <1>4, <1>5, StepIsSound
    <2>2. Seen(o).side = orders[i].side /\ Seen(o).filled = orders[i].filled + n
      BY <1>1, <1>3, <1>4, <1>5, StepIsSound
    <2> HIDE DEF o
    <2> QED BY <2>1, <2>2 DEF Sound, Seen
  <1> HIDE DEF n, o
  <1>8. delta \in Int /\ price \in Nat /\ (n > 0 => delta # 0) /\ (n = 0 => delta = 0)
    BY <1>2, <1>6 DEF Signed
  <1>9. Signed(o, o.filled) - Signed(orders[i], orders[i].filled) = delta
    BY <1>5, <1>6, <1>7 DEF Signed
  <1>10. NetFilled(orders') = NetFilled(orders) + delta
    <2>1. NetFilled(orders') = NetFilled(orders) + Signed(o, o.filled) - Signed(orders[i], orders[i].filled)
      BY <1>1, <1>3, <1>7, NetOfChange
    <2>2. NetFilled(orders) \in Int BY DEF LedgerOK, FillsAreHeld
    <2>3. Signed(o, o.filled) \in Int /\ Signed(orders[i], orders[i].filled) \in Int
      BY <1>5, <1>6, <1>7 DEF Signed
    <2> HIDE DEF delta
    <2> QED BY <1>9, <2>1, <2>2, <2>3
  <1> HIDE DEF delta
  <1>11. position \in [quantity : Int, average : Nat, realized : Int] /\ cash \in Int
    BY DEF LedgerOK
  <1>12. /\ position' \in [quantity : Int, average : Nat, realized : Int]
         /\ position'.quantity = position.quantity + delta
    <2>1. CASE n > 0
      <3>1. position' = UpdatePosition(position, delta, price) /\ delta \in Int \ {0}
        BY <1>2, <1>8, <2>1
      <3> QED BY <1>8, <1>11, <3>1, UpdateAdds
    <2>2. CASE n = 0 BY <1>2, <1>8, <1>11, <2>2
    <2> QED BY <1>6, <2>1, <2>2
  <1>13. cash' \in Int BY <1>2, <1>8, <1>11
  <1>14. LedgerOK' BY <1>10, <1>12, <1>13 DEF LedgerOK, FillsAreHeld
  <1>15. ASSUME CostIsPaid, MeanIsExact PROVE CostIsPaid'
    <2>1. CASE n = 0
      <3>1. position' = position /\ cash' = cash BY <1>2, <1>8, <1>11, <2>1
      <3> QED BY <1>15, <3>1 DEF CostIsPaid
    <2>2. CASE n > 0
      <3>1. position' = UpdatePosition(position, delta, price) /\ delta \in Int \ {0}
        BY <1>2, <1>8, <2>2
      <3>2. Abs(cash' - cash) = price * Abs(delta)
        <4>1. cash' - cash = -(delta * price) BY <1>2, <1>8, <1>11
        <4>2. CASE delta > 0 BY <1>8, <4>1, <4>2 DEF Abs
        <4>3. CASE delta < 0 BY <1>8, <4>1, <4>3 DEF Abs
        <4> QED BY <3>1, <4>2, <4>3
      <3>3. position'.realized - position'.quantity * position'.average
              = position.realized - position.quantity * position.average - delta * price
        BY <1>8, <1>11, <1>15, <3>1, <3>2, UpdateBalances DEF MeanIsExact
      <3> QED BY <1>2, <1>15, <3>3 DEF CostIsPaid
    <2> QED BY <1>6, <2>1, <2>2
  <1> QED BY <1>14, <1>15

\* Every step keeps the ledger; only a fill moves it.
LEMMA LedgerStep ==
    ASSUME Bounds, Prices \subseteq Nat, IInv, LedgerOK, [Next]_vars
    PROVE  LedgerOK' /\ (CostIsPaid /\ [MeanIsExact]_vars => CostIsPaid')
  <1>1. ASSUME UNCHANGED ledger, LedgerOK'
        PROVE  LedgerOK' /\ (CostIsPaid => CostIsPaid')
    <2>1. position' = position /\ cash' = cash BY <1>1 DEF ledger
    <2> QED BY <1>1, <2>1 DEF CostIsPaid
  <1>2. CASE orders' = orders /\ UNCHANGED ledger BY <1>1, <1>2, KeepsLedger
  <1>3. ASSUME NEW c \in Caller, Place(c) PROVE UNCHANGED ledger /\ LedgerOK'
    <2>1. PICK side \in {"BUY", "SELL"}, q \in Quantities, steps \in 1..MaxSteps, rejects \in BOOLEAN :
            orders' = Append(orders, NewOrder(side, q, steps, rejects))
      BY <1>3 DEF Place
    <2> DEFINE new == NewOrder(side, q, steps, rejects)
    <2>2. IInv' BY <1>3, Placed
    <2>3. new \in Order
      <3>1. orders \in Seq(Order) /\ orders' \in Seq(Order) BY <2>2 DEF IInv
      <3>2. Len(orders) + 1 \in DOMAIN orders' /\ orders'[Len(orders) + 1] = new
        <4> HIDE DEF new
        <4>1. orders' = Append(orders, new) BY <2>1 DEF new
        <4> QED BY <3>1, <4>1
      <3> QED BY <3>1, <3>2
    <2>4. new.filled = 0 BY DEF NewOrder
    <2> HIDE DEF new
    <2>5. NetFilled(orders') = NetFilled(orders)
      <3>1. orders' = Append(orders, new) /\ orders \in Seq(Order) BY <2>1 DEF new, IInv
      <3> QED BY <2>3, <2>4, <3>1, NetOfAppend
    <2>6. UNCHANGED ledger BY <1>3 DEF Place
    <2> QED BY <2>5, <2>6, KeepsLedger
  <1>4. ASSUME NEW c \in Caller, NEW i \in 1..MaxOrders, Cancel(c, i)
        PROVE  UNCHANGED ledger /\ LedgerOK'
    <2>1. /\ i \in DOMAIN orders /\ UNCHANGED ledger
          /\ orders' = [orders EXCEPT ![i] = Cancelled(orders[i])]
      BY <1>4 DEF Cancel, Change
    <2>2. Sound(orders[i]) /\ orders[i] \in Order BY <2>1 DEF IInv, Sound
    <2>3. Cancelled(orders[i]) \in Order BY <2>2, EndIsSound DEF Cancelled, Ended, Sound
    <2>4. Cancelled(orders[i]).side = orders[i].side /\ Cancelled(orders[i]).filled = orders[i].filled
      BY <2>2 DEF Cancelled, Order
    <2> QED BY <2>1, <2>3, <2>4, SameFill
  <1>5. ASSUME NEW c \in Caller, NEW i \in 1..MaxOrders, Modify(c, i)
        PROVE  UNCHANGED ledger /\ LedgerOK'
    <2>1. PICK q \in Quantities :
            /\ i \in DOMAIN orders /\ UNCHANGED ledger
            /\ orders' = [orders EXCEPT ![i] = [orders[i] EXCEPT !.quantity = q]]
      BY <1>5 DEF Modify, Change
    <2> DEFINE o == [orders[i] EXCEPT !.quantity = q]
    <2>2. orders[i] \in Order BY <2>1 DEF IInv, Sound
    <2>3. o \in Order /\ o.side = orders[i].side /\ o.filled = orders[i].filled
      BY <2>2 DEF Order
    <2> HIDE DEF o
    <2>4. orders' = [orders EXCEPT ![i] = o] BY <2>1 DEF o
    <2> QED BY <2>1, <2>3, <2>4, SameFill
  <1>6. ASSUME NEW t \in Thread, NEW i \in 1..MaxOrders, PassRejects(t, i)
        PROVE  UNCHANGED ledger /\ LedgerOK'
    <2>1. /\ i \in DOMAIN orders /\ UNCHANGED ledger
          /\ orders' = [orders EXCEPT ![i] = Rejected(orders[i])]
      BY <1>6 DEF PassRejects, Turn, Coming, Resolves
    <2>2. Sound(orders[i]) /\ orders[i] \in Order BY <2>1 DEF IInv, Sound
    <2>3. Rejected(orders[i]) \in Order BY <2>2, EndIsSound DEF Rejected, Ended, Sound
    <2>4. Rejected(orders[i]).side = orders[i].side /\ Rejected(orders[i]).filled = orders[i].filled
      BY <2>2 DEF Rejected, Order
    <2> QED BY <2>1, <2>3, <2>4, SameFill
  <1>7. ASSUME NEW t \in Thread, NEW i \in 1..MaxOrders, PassFills(t, i)
        PROVE  LedgerOK' /\ (CostIsPaid /\ [MeanIsExact]_vars => CostIsPaid')
    <2>1. CASE UNCHANGED vars
      <3>1. orders' = orders /\ UNCHANGED ledger BY <2>1 DEF vars, ledger
      <3> QED BY <1>1, <3>1, KeepsLedger
    <2>2. CASE ~(UNCHANGED vars) BY <1>7, <2>2, FillIsHeld
    <2> QED BY <2>1, <2>2
  <1>8. ASSUME NEW i \in 1..MaxOrders, ComesDue(i) PROVE UNCHANGED ledger /\ LedgerOK'
    <2> DEFINE o == [orders[i] EXCEPT !.due = TRUE]
    <2>1. i \in DOMAIN orders /\ UNCHANGED ledger /\ orders' = [orders EXCEPT ![i] = o]
      BY <1>8 DEF ComesDue
    <2>2. orders[i] \in Order BY <2>1 DEF IInv, Sound
    <2>3. o \in Order /\ o.side = orders[i].side /\ o.filled = orders[i].filled
      BY <2>2 DEF Order
    <2> HIDE DEF o
    <2> QED BY <2>1, <2>3, SameFill
  <1>9. CASE UNCHANGED vars BY <1>2, <1>9 DEF vars, ledger
  <1>10. CASE \E c \in Caller : Pump(c) \/ Returns(c) BY <1>2, <1>10 DEF Pump, Returns
  <1>11. CASE EngineTicks \/ \E t \in Thread : PassEnds(t) \/ Push(t) \/ PriceFails(t)
    BY <1>2, <1>11 DEF EngineTicks, PassEnds, Push, PriceFails
  <1>12. CASE (\E c \in Caller : Place(c)) \/ (\E o \in 1..MaxOrders : ComesDue(o))
    BY <1>1, <1>3, <1>8, <1>12
  <1>13. CASE \E c \in Caller, o \in 1..MaxOrders : Cancel(c, o) \/ Modify(c, o)
    BY <1>1, <1>4, <1>5, <1>13
  <1>14. CASE \E t \in Thread, o \in 1..MaxOrders : PassRejects(t, o) BY <1>1, <1>6, <1>14
  <1>15. CASE \E t \in Thread, o \in 1..MaxOrders : PassFills(t, o) BY <1>7, <1>15
  <1> QED
    BY <1>9, <1>10, <1>11, <1>12, <1>13, <1>14, <1>15 DEF Next, Calls, Pass

\* Every order is sound and the quantity held is what the orders have filled.
LEMMA LedgerInvariant == ASSUME Bounds, Prices \subseteq Nat PROVE Spec => [](IInv /\ LedgerOK)
  <1>1. Init => IInv /\ LedgerOK
    <2> SUFFICES ASSUME Init PROVE IInv /\ LedgerOK OBVIOUS
    <2>1. orders = <<>> /\ position = [quantity |-> 0, average |-> 0, realized |-> 0] /\ cash = 0
      BY DEF Init
    <2>2. IInv BY <2>1, EmptySeq DEF IInv
    <2>3. NetFilled(orders) = 0
      <3>1. orders \in Seq(Order) /\ Len(orders) = 0 BY <2>1, EmptySeq
      <3>2. PICK f : Sums(f, Fills(orders), 0) /\ NetFilled(orders) = f[0] BY <3>1, NetIsSum
      <3> QED BY <3>2 DEF Sums
    <2> QED BY <2>1, <2>2, <2>3 DEF LedgerOK, FillsAreHeld
  <1>2. IInv /\ LedgerOK /\ [Next]_vars => (IInv /\ LedgerOK)' BY LedgerStep, BookStep
  <1> QED BY <1>1, <1>2, PTL DEF Spec

\* What the simulated broker holds is what its orders have filled, for any number of
\* threads and orders, through partial fills, flips, cancels and failures in a pass.
THEOREM FillsAddUp == ASSUME Bounds, Prices \subseteq Nat PROVE Spec => []FillsAreHeld
  <1>1. IInv /\ LedgerOK => FillsAreHeld BY DEF LedgerOK
  <1> QED BY <1>1, LedgerInvariant, PTL

\* The whole ledger balances, as long as no mean price leaves a remainder.
THEOREM LedgerIsKept ==
    ASSUME Bounds, Prices \subseteq Nat
    PROVE  Spec /\ [][MeanIsExact]_vars => []LedgerBalances
  <1>1. Init => CostIsPaid BY DEF Init, CostIsPaid
  <1>2. IInv /\ LedgerOK /\ CostIsPaid /\ [Next]_vars /\ [MeanIsExact]_vars => CostIsPaid'
    BY LedgerStep
  <1>3. IInv /\ LedgerOK /\ CostIsPaid => LedgerBalances BY DEF LedgerOK, LedgerBalances
  <1> QED BY <1>1, <1>2, <1>3, LedgerInvariant, PTL DEF Spec

\* The bounds of the broker: orders and incidents.
SimBounds == Bounds /\ MaxOrders \in Nat /\ MaxIncidents \in Nat /\ Prices \subseteq Nat

\* The place of an order and what may be said of it.
Update == (1..MaxOrders) \X ({"OPEN"} \cup Ended)

\* The threads, the pass, and what is still to be pushed; a pass never comes to an order
\* beyond the last.
SimThreads ==
    /\ Len(orders) <= MaxOrders
    /\ lock \in Thread \cup {Nobody} /\ next \in 1..(MaxOrders + 1)
    /\ updates \in [Thread -> Seq(Update)]
    /\ told \subseteq 1..MaxOrders
    /\ engine \in {"running", "dead"}
    /\ caller \in [Caller -> {"idle", "placed", "calling"}]
    /\ changes \in Nat /\ failures \in Nat /\ changes + failures <= MaxIncidents

\* An order that is resolved, or changed, stays in its place and has a status.
LEMMA PlaceIsKept ==
    ASSUME SimBounds, IInv, SimThreads, NEW i \in 1..MaxOrders, i \in DOMAIN orders, NEW order,
           orders' = [orders EXCEPT ![i] = order], order.status \in {"OPEN"} \cup Ended
    PROVE  Len(orders') <= MaxOrders /\ <<i, order.status>> \in Update /\ i + 1 \in 1..(MaxOrders + 1)
  <1>1. Len(orders') = Len(orders) BY DEF IInv
  <1>2. <<i, order.status>> \in Update BY DEF Update
  <1>3. i + 1 \in 1..(MaxOrders + 1) BY DEF SimBounds
  <1> QED BY <1>1, <1>2, <1>3 DEF SimThreads

LEMMA ThreadsStep == ASSUME SimBounds, IInv, SimThreads, [Next]_vars PROVE SimThreads'
  <1> USE DEF SimThreads
  <1>0. /\ 1 \in 1..(MaxOrders + 1) /\ MaxIncidents \in Nat /\ <<>> \in Seq(Update)
        /\ \A c \in Caller : c \in Thread
        /\ orders \in Seq(Order) /\ Bounds
    BY DEF SimBounds, Thread, IInv
  <1>1. ASSUME NEW c \in Caller, Place(c) PROVE SimThreads'
    <2>1. PICK o : orders' = Append(orders, o) BY <1>1 DEF Place
    <2>2. Len(orders') = Len(orders) + 1 BY <1>0, <2>1
    <2>3. Len(orders') <= MaxOrders BY <1>0, <1>1, <2>2 DEF Place, SimBounds
    <2> QED BY <1>1, <2>3 DEF Place
  <1>2. ASSUME NEW c \in Caller, Pump(c) PROVE SimThreads' BY <1>0, <1>2 DEF Pump
  <1>3. CASE EngineTicks BY <1>0, <1>3 DEF EngineTicks, Thread
  <1>4. ASSUME NEW i, ComesDue(i) PROVE SimThreads'
    <2>1. Len(orders') = Len(orders) BY <1>0, <1>4 DEF ComesDue
    <2> QED BY <1>4, <2>1 DEF ComesDue
  <1>5. ASSUME NEW t \in Thread, NEW i \in 1..MaxOrders, NEW order, i \in DOMAIN orders, Resolves(t, i, order),
               order.status \in {"OPEN"} \cup Ended
        PROVE  SimThreads'
    <2>1. Len(orders') <= MaxOrders /\ <<i, order.status>> \in Update /\ i + 1 \in 1..(MaxOrders + 1)
      BY <1>5, PlaceIsKept DEF Resolves
    <2>2. Append(updates[t], <<i, order.status>>) \in Seq(Update) BY <2>1
    <2> QED BY <1>5, <2>1, <2>2 DEF Resolves
  <1>6. ASSUME NEW t \in Thread, NEW i \in 1..MaxOrders, PassRejects(t, i) PROVE SimThreads'
    <2>1. i \in DOMAIN orders /\ Resolves(t, i, Rejected(orders[i]))
      BY <1>6 DEF PassRejects, Turn, Coming
    <2>2. Rejected(orders[i]).status = "REJECTED"
      <3>1. orders[i] \in Order BY <1>0, <2>1
      <3> QED BY <3>1 DEF Rejected, Order
    <2> QED BY <1>5, <2>1, <2>2 DEF Ended
  <1>7. ASSUME NEW t \in Thread, NEW i \in 1..MaxOrders, PassFills(t, i) PROVE SimThreads'
    <2>1. i \in DOMAIN orders /\ Resolves(t, i, Stepped(orders[i], StepQuantity(orders[i])))
      BY <1>7 DEF PassFills, Turn, Coming
    <2>2. Stepped(orders[i], StepQuantity(orders[i])).status \in {"OPEN"} \cup Ended
      <3>1. orders[i] \in Order BY <1>0, <2>1
      <3>2. PICK n, old : n = StepQuantity(orders[i]) /\ old = orders[i] OBVIOUS
      <3> DEFINE complete == old.filled + n >= old.quantity
                 s == IF complete THEN "COMPLETE" ELSE "OPEN"
                 k == IF complete \/ old.steps = 0 THEN 0 ELSE old.steps - 1
      <3>3. Stepped(old, n) = [old EXCEPT !.filled = @ + n, !.due = FALSE, !.status = s, !.steps = k]
        BY DEF Stepped
      <3>4. s \in {"OPEN"} \cup Ended BY DEF Ended
      <3> HIDE DEF s, k
      <3>5. Stepped(old, n).status = s BY <3>1, <3>2, <3>3 DEF Order
      <3> QED BY <3>2, <3>4, <3>5
    <2> QED BY <1>5, <2>1, <2>2
  <1>8. ASSUME NEW t \in Thread, PassEnds(t) PROVE SimThreads' BY <1>0, <1>8 DEF PassEnds
  <1>9. ASSUME NEW t \in Thread, PriceFails(t) PROVE SimThreads'
    <2>1. failures' \in Nat /\ changes' + failures' <= MaxIncidents
      BY <1>0, <1>9 DEF PriceFails
    <2>2. caller' \in [Caller -> {"idle", "placed", "calling"}] /\ engine' \in {"running", "dead"}
      BY <1>9 DEF PriceFails
    <2> QED BY <1>0, <1>9, <2>1, <2>2 DEF PriceFails
  <1>10. ASSUME NEW t \in Thread, Push(t) PROVE SimThreads'
    <2>1. PICK u : u = updates[t] OBVIOUS
    <2>2. u \in Seq(Update) /\ u # <<>> BY <1>10, <2>1 DEF Push
    <2>3. Head(u) \in Update /\ Tail(u) \in Seq(Update) BY <2>2
    <2>4. told' \subseteq 1..MaxOrders
      <3>1. Head(u)[1] \in 1..MaxOrders BY <2>3 DEF Update
      <3> QED BY <1>10, <2>1, <3>1 DEF Push
    <2>5. updates' \in [Thread -> Seq(Update)] BY <1>10, <2>1, <2>3 DEF Push
    <2> QED BY <1>10, <2>4, <2>5 DEF Push
  <1>11. ASSUME NEW c \in Caller, Returns(c) PROVE SimThreads' BY <1>11 DEF Returns
  <1>12. ASSUME NEW c \in Caller, NEW i \in 1..MaxOrders, NEW order, i \in DOMAIN orders, Change(c, i, order),
                order.status \in {"OPEN"} \cup Ended
         PROVE  SimThreads'
    <2>1. Len(orders') <= MaxOrders /\ <<i, order.status>> \in Update
      BY <1>12, PlaceIsKept DEF Change
    <2>2. <<<<i, order.status>>>> \in Seq(Update) BY <2>1
    <2>3. changes' \in Nat /\ changes' + failures' <= MaxIncidents BY <1>0, <1>12 DEF Change
    <2> QED BY <1>0, <1>12, <2>1, <2>2, <2>3 DEF Change
  <1>13. ASSUME NEW c \in Caller, NEW i \in 1..MaxOrders, Cancel(c, i) PROVE SimThreads'
    <2>1. i \in DOMAIN orders /\ Change(c, i, Cancelled(orders[i])) BY <1>13 DEF Cancel
    <2>2. Cancelled(orders[i]).status = "CANCELLED"
      <3>1. orders[i] \in Order BY <1>0, <2>1
      <3> QED BY <3>1 DEF Cancelled, Order
    <2> QED BY <1>12, <2>1, <2>2 DEF Ended
  <1>14. ASSUME NEW c \in Caller, NEW i \in 1..MaxOrders, Modify(c, i) PROVE SimThreads'
    <2>1. PICK q : i \in DOMAIN orders /\ Change(c, i, [orders[i] EXCEPT !.quantity = q]) BY <1>14 DEF Modify
    <2>2. orders[i] \in Order BY <1>0, <2>1
    <2>3. [orders[i] EXCEPT !.quantity = q].status \in {"OPEN"} \cup Ended BY <2>2 DEF Order
    <2> QED BY <1>12, <2>1, <2>3
  <1>15. CASE UNCHANGED vars BY <1>15 DEF vars
  <1> QED
    BY <1>1, <1>2, <1>3, <1>4, <1>6, <1>7, <1>8, <1>9, <1>10, <1>11, <1>13, <1>14, <1>15
       DEF Next, Calls, Pass

\* The types of the simulated broker: no order beyond the last is ever passed over, pushed
\* or told (_process_due_order, _dispatch_order_update).
THEOREM SimTypes == ASSUME SimBounds PROVE Spec => []TypeOK
  <1>0. Bounds /\ Prices \subseteq Nat BY DEF SimBounds
  <1>1. Init => SimThreads
    BY EmptySeq DEF Init, SimThreads, SimBounds
  <1>2. IInv /\ SimThreads /\ [Next]_vars => SimThreads' BY ThreadsStep
  <1>3. IInv /\ LedgerOK /\ SimThreads => TypeOK BY DEF IInv, LedgerOK, SimThreads, Update, TypeOK
  <1> QED BY <1>0, <1>1, <1>2, <1>3, LedgerInvariant, PTL DEF Spec

--------------------------------------------------------------------------------
(* The records.                                                                *)

\* What the records are about: finitely many positions, each of a day.
Exits ==
    /\ IsFiniteSet(Position) /\ R!Backfill \notin Position
    /\ DayOf \in [Position -> R!Day] /\ Pnls \in [Position -> SUBSET Int]
    /\ LastDay \in Nat \ {0} /\ MaxFaults \in Nat

First(T) == CHOOSE p \in T : TRUE

\* Induction over the subsets of a finite set.
LEMMA AllSubsets ==
    ASSUME NEW S, IsFiniteSet(S), NEW C, {} \in C,
           \A T \in SUBSET S : T # {} /\ T \ {First(T)} \in C => T \in C
    PROVE  SUBSET S \subseteq C
  <1> DEFINE N == {n \in Nat : \A T \in SUBSET S : Cardinality(T) = n => T \in C}
  <1>1. \A T \in SUBSET S : IsFiniteSet(T) /\ Cardinality(T) \in Nat
      BY FS_Subset, FS_CardinalityType
  <1>2. 0 \in N BY <1>1, FS_EmptySet
  <1>3. ASSUME NEW n \in Nat, n \in N PROVE n + 1 \in N
    <2> SUFFICES ASSUME NEW T \in SUBSET S, Cardinality(T) = n + 1 PROVE T \in C OBVIOUS
    <2>1. T # {} BY FS_EmptySet
    <2>2. First(T) \in T BY <2>1 DEF First
    <2>3. Cardinality(T \ {First(T)}) = n BY <1>1, <2>2, FS_RemoveElement
    <2>4. T \ {First(T)} \in C BY <1>3, <2>3
    <2> QED BY <2>1, <2>4
  <1> HIDE DEF N
  <1>4. Nat \subseteq N BY <1>2, <1>3, AllNaturals
  <1> QED BY <1>1, <1>4 DEF N

\* The recursive sum is one.
LEMMA TotalUnfolds ==
    ASSUME IsFiniteSet(Position), NEW v
    PROVE  /\ R!Total(v, {}) = 0
           /\ \A S \in SUBSET Position : S # {} =>
                 First(S) \in S /\ R!Total(v, S) = v[First(S)] + R!Total(v, S \ {First(S)})
  <1> DEFINE Step(f, T) == IF T = {} THEN 0 ELSE v[First(T)] + f[T \ {First(T)}]
             Sum(f) == [T \in SUBSET Position |-> Step(f, T)]
             sum == CHOOSE f : f = Sum(f)
             N == {n \in Nat : \E f : \A T \in SUBSET Position :
                                  Cardinality(T) <= n => f[T] = Step(f, T)}
  <1>1. \A T \in SUBSET Position : IsFiniteSet(T) /\ Cardinality(T) \in Nat
      BY FS_Subset, FS_CardinalityType
  <1>2. \A T \in SUBSET Position : T # {} => First(T) \in T BY DEF First
  <1>3. \A T \in SUBSET Position : T # {} => Cardinality(T \ {First(T)}) = Cardinality(T) - 1
    BY <1>1, <1>2, FS_RemoveElement
  <1>4. 0 \in N
    <2> DEFINE f == [T \in SUBSET Position |-> 0]
    <2>1. \A T \in SUBSET Position : Cardinality(T) <= 0 => T = {} BY <1>1, FS_EmptySet
    <2>2. \A T \in SUBSET Position : Cardinality(T) <= 0 => f[T] = Step(f, T) BY <2>1
    <2> QED BY <2>2
  <1>5. ASSUME NEW n \in Nat, n \in N PROVE n + 1 \in N
    <2>1. PICK f : \A T \in SUBSET Position : Cardinality(T) <= n => f[T] = Step(f, T) BY <1>5
    <2> DEFINE g == [T \in SUBSET Position |-> IF Cardinality(T) <= n THEN f[T] ELSE Step(f, T)]
    <2>2. ASSUME NEW T \in SUBSET Position, Cardinality(T) <= n + 1 PROVE g[T] = Step(g, T)
      <3>1. g[T] = Step(f, T) BY <2>1
      <3>2. CASE T = {} BY <3>1, <3>2
      <3>3. CASE T # {}
        <4>1. Cardinality(T \ {First(T)}) <= n BY <1>1, <1>3, <2>2, <3>3
        <4>2. g[T \ {First(T)}] = f[T \ {First(T)}] BY <4>1
        <4> QED BY <3>1, <3>3, <4>2
      <3> QED BY <3>2, <3>3
    <2> HIDE DEF g, Step
    <2> QED BY <2>2
  <1>6. Nat \subseteq N
    <2> HIDE DEF N
    <2> QED BY <1>4, <1>5, AllNaturals
  <1>7. Cardinality(Position) \in N BY <1>1, <1>6
  <1>8. \A T \in SUBSET Position : Cardinality(T) <= Cardinality(Position) BY FS_Subset
  <1>9. PICK f : \A T \in SUBSET Position : f[T] = Step(f, T)
    <2> HIDE DEF Step
    <2> QED BY <1>7, <1>8
  <1>10. Sum(f) = Sum(Sum(f))
    <2>1. ASSUME NEW T \in SUBSET Position PROVE Step(f, T) = Step(Sum(f), T)
      <3>1. CASE T = {} BY <3>1
      <3>2. CASE T # {} BY <1>9, <3>2
      <3> QED BY <3>1, <3>2
    <2> HIDE DEF Step
    <2> QED BY <2>1
  <1>11. sum = Sum(sum)
    <2> DEFINE h == Sum(f)
    <2>1. h = Sum(h) BY <1>10
    <2> HIDE DEF h, Sum
    <2> QED BY <2>1
  <1>12. ASSUME NEW S PROVE R!Total(v, S) = sum[S] BY DEF R!Total, First
  <1> HIDE DEF sum
  <1>13. \A S \in SUBSET Position : R!Total(v, S) = Step(sum, S) BY <1>11, <1>12
  <1>14. R!Total(v, {}) = 0 BY <1>13
  <1>15. ASSUME NEW S \in SUBSET Position, S # {}
      PROVE R!Total(v, S) = v[First(S)] + R!Total(v, S \ {First(S)})
    BY <1>2, <1>12, <1>13, <1>15
  <1> QED BY <1>2, <1>14, <1>15

\* A sum of numbers is a number, and no less than zero if they are.
LEMMA TotalIsInt ==
    ASSUME IsFiniteSet(Position), NEW v \in [Position -> Int]
    PROVE  /\ \A S \in SUBSET Position : R!Total(v, S) \in Int
           /\ v \in [Position -> Nat] => \A S \in SUBSET Position : R!Total(v, S) \in Nat
  <1> DEFINE C == {T \in SUBSET Position :
                     R!Total(v, T) \in Int /\ (v \in [Position -> Nat] => R!Total(v, T) \in Nat)}
  <1>1. {} \in C BY TotalUnfolds
  <1>2. ASSUME NEW T \in SUBSET Position, T # {}, T \ {First(T)} \in C PROVE T \in C
    <2>1. First(T) \in Position /\ R!Total(v, T) = v[First(T)] + R!Total(v, T \ {First(T)})
        BY <1>2, TotalUnfolds
    <2>2. v[First(T)] \in Int /\ (v \in [Position -> Nat] => v[First(T)] \in Nat) BY <2>1
    <2> QED BY <1>2, <2>1, <2>2
  <1> HIDE DEF C
  <1>3. SUBSET Position \subseteq C BY <1>1, <1>2, AllSubsets
  <1> QED BY <1>3 DEF C

\* Sums of the same values are equal.
LEMMA TotalOfSame ==
    ASSUME IsFiniteSet(Position), NEW v, NEW w, NEW S \in SUBSET Position, \A p \in S : v[p] = w[p]
    PROVE  R!Total(v, S) = R!Total(w, S)
  <1> DEFINE C == {T \in SUBSET S : R!Total(v, T) = R!Total(w, T)}
  <1>1. {} \in C BY TotalUnfolds
  <1>2. ASSUME NEW T \in SUBSET S, T # {}, T \ {First(T)} \in C PROVE T \in C
    <2>1. R!Total(v, T) = v[First(T)] + R!Total(v, T \ {First(T)}) BY <1>2, TotalUnfolds
    <2>2. R!Total(w, T) = w[First(T)] + R!Total(w, T \ {First(T)}) BY <1>2, TotalUnfolds
    <2>3. First(T) \in S BY <1>2, TotalUnfolds
    <2> QED BY <1>2, <2>1, <2>2, <2>3
  <1> HIDE DEF C
  <1>3. IsFiniteSet(S) BY FS_Subset
  <1>4. SUBSET S \subseteq C BY <1>1, <1>2, <1>3, AllSubsets
  <1> QED BY <1>4 DEF C

\* Profits less losses are the sum of the P&L.
LEMMA NetOfTotals ==
    ASSUME IsFiniteSet(Position), pnl \in [Position -> Int]
    PROVE  \A S \in SUBSET Position : R!Total(R!Gains, S) - R!Total(R!Losses, S) = R!Total(pnl, S)
  <1> DEFINE C == {T \in SUBSET Position : R!Total(R!Gains, T) - R!Total(R!Losses, T) = R!Total(pnl, T)}
  <1>1. {} \in C BY TotalUnfolds
  <1>2. \A p \in Position : R!Gains[p] - R!Losses[p] = pnl[p] BY DEF R!Gains, R!Losses
  <1>3. R!Gains \in [Position -> Int] /\ R!Losses \in [Position -> Int] BY DEF R!Gains, R!Losses
  <1>4. ASSUME NEW T \in SUBSET Position, T # {}, T \ {First(T)} \in C PROVE T \in C
    <2> DEFINE p == First(T)  U == T \ {p}
    <2>1. p \in Position /\ U \in SUBSET Position BY <1>4, TotalUnfolds
    <2>2. R!Total(R!Gains, T) = R!Gains[p] + R!Total(R!Gains, U) BY <1>4, TotalUnfolds
    <2>3. R!Total(R!Losses, T) = R!Losses[p] + R!Total(R!Losses, U) BY <1>4, TotalUnfolds
    <2>4. R!Total(pnl, T) = pnl[p] + R!Total(pnl, U) BY <1>4, TotalUnfolds
    <2>5. R!Total(R!Gains, U) \in Int /\ R!Total(R!Losses, U) \in Int BY <1>3, <2>1, TotalIsInt
    <2>6. R!Gains[p] \in Int /\ R!Losses[p] \in Int /\ R!Gains[p] - R!Losses[p] = pnl[p]
        BY <1>2, <1>3, <2>1
    <2>7. R!Total(R!Gains, U) - R!Total(R!Losses, U) = R!Total(pnl, U) BY <1>4
    <2>8. R!Total(R!Gains, T) - R!Total(R!Losses, T) = R!Total(pnl, T)
      <3> HIDE DEF p, U
      <3> QED BY <2>2, <2>3, <2>4, <2>5, <2>6, <2>7
    <2> QED BY <2>8
  <1> HIDE DEF C
  <1>5. SUBSET Position \subseteq C BY <1>1, <1>4, AllSubsets
  <1> QED BY <1>5 DEF C

\* There is a latest exit, once there is a position.
LEMMA LatestExists ==
    ASSUME IsFiniteSet(Position), Position # {}, exit_at \in [Position -> Nat]
    PROVE  R!Latest \in Nat
  <1> DEFINE C == {T \in SUBSET Position : T # {} => \E m \in T : \A q \in T : exit_at[q] <= exit_at[m]}
  <1>1. {} \in C OBVIOUS
  <1>2. ASSUME NEW T \in SUBSET Position, T # {}, T \ {First(T)} \in C PROVE T \in C
    <2>1. First(T) \in T BY <1>2 DEF First
    <2>2. CASE T \ {First(T)} = {} BY <2>1, <2>2
    <2>3. CASE T \ {First(T)} # {}
      <3>1. PICK m \in T : \A q \in T \ {First(T)} : exit_at[q] <= exit_at[m] BY <1>2, <2>3
      <3>2. CASE exit_at[First(T)] <= exit_at[m] BY <3>1, <3>2
      <3>3. CASE exit_at[m] <= exit_at[First(T)] BY <2>1, <3>1, <3>3
      <3> QED BY <2>1, <3>2, <3>3
    <2> QED BY <2>2, <2>3
  <1> HIDE DEF C
  <1>3. SUBSET Position \subseteq C BY <1>1, <1>2, AllSubsets
  <1>4. PICK m \in Position : \A q \in Position : exit_at[q] <= exit_at[m] BY <1>3 DEF C
  <1>5. exit_at[m] \in {exit_at[q] : q \in Position} OBVIOUS
  <1>6. R!Latest \in {exit_at[q] : q \in Position} BY <1>4, <1>5 DEF R!Latest
  <1> QED BY <1>6

--------------------------------------------------------------------------------
\* One transaction at a time has inserted the row of a position, which is that of the
\* exit or the backfill that stands there; it has none yet, and is closed.
KeyIsHeld ==
    /\ backfill \in {"insert", "record"} => todo # {}
    /\ \A p \in Position :
          /\ p \in inserting[p] <=> step[p] = "record"
          /\ R!Backfill \in inserting[p] <=> backfill = "record" /\ p = R!Current
          /\ inserting[p] \subseteq {p} \/ inserting[p] \subseteq {R!Backfill}
          /\ inserting[p] # {} => rows[p] = 0

\* What the backfill is done with has a row, unless a record failed.
BackfillKeepsUp ==
    /\ backfill = "idle" => listed = {}
    /\ backfill = "finished" => todo = {}
    /\ ~botched => \A p \in listed \ todo : rows[p] > 0

\* Where the exit of a position stands, and what the database says of it.
ExitsAdvance ==
    \A p \in Position :
        /\ step[p] = "commit" => exit_at[p] > 0
        /\ step[p] \in {"export", "save", "look", "insert", "record"} => p \in closed /\ exit_at[p] > 0
        /\ step[p] \in {"open", "commit"} => p \notin closed
        /\ step[p] \notin {"open", "over"} => DayOf[p] = day
        /\ p \in closed => DayOf[p] <= day
        /\ p \in saved => p \in closed /\ exit_at[p] > 0 /\ step[p] \notin {"export", "save"}

RowsFollow == \A p \in Position : rows[p] <= 1 /\ (rows[p] > 0 => p \in closed)

\* The rows of a report are of closed positions of its day, with totals up to each.
Faithful(d, lines) ==
    /\ DOMAIN lines \subseteq {p \in closed : DayOf[p] = d /\ exit_at[p] > 0}
    /\ \A p \in DOMAIN lines :
          lines[p].profit - lines[p].loss = R!Total(pnl, R!UpTo(d, DOMAIN lines, p))

\* One export is at its report, and what it has read has all that was saved.
ReportsKeepUp ==
    /\ \A p, q \in Position : step[p] = "save" /\ step[q] = "save" => p = q
    /\ \A p \in Position : step[p] = "save" =>
          /\ Faithful(DayOf[p], collected[p])
          /\ {q \in saved : DayOf[q] = DayOf[p]} \cup {p} \subseteq DOMAIN collected[p]
    /\ \A d \in R!Day : Faithful(d, report[d])
    /\ \A d \in R!Day \ torn : {p \in saved : DayOf[p] = d} \subseteq DOMAIN report[d]

RecordsInv == R!TypeOK /\ KeyIsHeld /\ BackfillKeepsUp /\ ExitsAdvance /\ RowsFollow /\ ReportsKeepUp

LEMMA CurrentIsListed ==
    /\ todo # {} => R!Current \in todo
    /\ todo' = todo => R!Current' = R!Current
  BY DEF R!Current

LEMMA InsertIsTyped ==
    ASSUME R!TypeOK, NEW p \in Position, NEW writer \in Position \cup {R!Backfill}, R!Insert(p,
        writer) \/ R!FindsIt(p)
    PROVE  inserting' \in [Position -> SUBSET (Position \cup {R!Backfill})]
  <1> DEFINE Writers == Position \cup {R!Backfill}
  <1>1. inserting \in [Position -> SUBSET Writers] BY DEF R!TypeOK
  <1>2. CASE R!Insert(p, writer)
    <2>1. inserting[p] \cup {writer} \in SUBSET Writers BY <1>1
    <2>2. inserting' \in [Position -> SUBSET Writers]
      <3> HIDE DEF Writers
      <3> QED BY <1>1, <1>2, <2>1 DEF R!Insert
    <2> QED BY <2>2
  <1>3. CASE R!FindsIt(p) BY <1>1, <1>3 DEF R!FindsIt, R!history
  <1> QED BY <1>2, <1>3

LEMMA RowsAreReport == ASSUME Exits, R!TypeOK PROVE \A d : R!IsReport(R!Rows(d))
  <1> SUFFICES ASSUME NEW d PROVE R!IsReport(R!Rows(d)) OBVIOUS
  <1> DEFINE today == {p \in closed : DayOf[p] = d /\ exit_at[p] > 0}
  <1>1. \A p : R!UpTo(d, today, p) \in SUBSET Position BY DEF R!UpTo, R!TypeOK
  <1>2. R!Gains \in [Position -> Nat] /\ R!Losses \in [Position -> Nat]
      BY DEF R!Gains, R!Losses, R!TypeOK
  <1>3. \A p : /\ R!Total(R!Gains, R!UpTo(d, today, p)) \in Nat
               /\ R!Total(R!Losses, R!UpTo(d, today, p)) \in Nat
    BY <1>1, <1>2, TotalIsInt DEF Exits
  <1>4. today \subseteq Position BY DEF R!TypeOK
  <1> HIDE DEF today
  <1> QED BY <1>3, <1>4 DEF R!IsReport, R!Rows, today

LEMMA TypeStep ==
    ASSUME Exits, R!TypeOK, KeyIsHeld, BackfillKeepsUp, [R!Next]_(R!vars)
    PROVE  R!TypeOK'
  <1> USE DEF Exits, R!TypeOK, R!Day, R!db, R!file, R!history, R!other, R!Goes, R!Fault,
      R!EndsExport, R!Insert, R!FindsIt, R!KeyTaken, R!Commit, R!RollsBack, R!NextOne
  <1>0. R!IsReport(R!Nothing) /\ (todo # {} => R!Current \in todo)
      BY CurrentIsListed DEF R!IsReport, R!Nothing
  <1>1. ASSUME NEW p \in Position, R!Finalize(p) PROVE R!TypeOK'
    <2>1. R!Latest + 1 \in Nat BY LatestExists
    <2> QED BY <1>1, <2>1 DEF R!Finalize
  <1>2. ASSUME NEW p \in Position, R!CommitClosed(p)
        PROVE  R!TypeOK'
    BY <1>2, <1>0 DEF R!CommitClosed
  <1>3. ASSUME NEW p \in Position, R!Aborted(p) PROVE R!TypeOK' BY <1>3, <1>0 DEF R!Aborted
  <1>4. ASSUME NEW p \in Position, R!Collect(p) PROVE R!TypeOK'
    BY <1>4, RowsAreReport DEF R!Collect
  <1>5. ASSUME NEW p \in Position, R!Save(p) PROVE R!TypeOK' BY <1>5, <1>0 DEF R!Save
  <1>6. ASSUME NEW p \in Position, R!ExportFails(p) PROVE R!TypeOK'
    <2>1. /\ collected' = [q \in Position |-> collected'[q]]
          /\ \A q \in Position : R!IsReport(collected'[q])
      BY <1>6, <1>0 DEF R!ExportFails
    <2>2. faults' \in 0..MaxFaults BY <1>6 DEF R!ExportFails
    <2> QED BY <1>6, <2>1, <2>2 DEF R!ExportFails
  <1>7. ASSUME NEW p \in Position, R!Look(p) PROVE R!TypeOK' BY <1>7, <1>0 DEF R!Look
  <1>8. ASSUME NEW p \in Position, R!InsertRow(p) PROVE R!TypeOK'
    <2>1. inserting' \in [Position -> SUBSET (Position \cup {R!Backfill})]
        BY <1>8, InsertIsTyped DEF R!InsertRow
    <2>2. step'[p] \in {"record", "over"} /\ step' = [step EXCEPT ![p] = step'[p]]
        BY <1>8 DEF R!InsertRow
    <2>3. rows' = rows BY <1>8 DEF R!InsertRow
    <2> QED BY <1>8, <2>1, <2>2, <2>3 DEF R!InsertRow
  <1>9. ASSUME NEW p \in Position, R!Record(p) PROVE R!TypeOK' BY <1>9, <1>0 DEF R!Record
  <1>10. ASSUME NEW p \in Position, R!RecordFails(p)
        PROVE  R!TypeOK'
    BY <1>10, <1>0 DEF R!RecordFails
  <1>11. CASE R!BackfillBegins BY <1>11, <1>0 DEF R!BackfillBegins
  <1>12. CASE R!BackfillLooks BY <1>12, <1>0 DEF R!BackfillLooks
  <1>13. CASE R!BackfillInserts
    <2>1. R!Current \in todo BY <1>13, <1>0 DEF R!BackfillInserts, KeyIsHeld
    <2>2. inserting' \in [Position -> SUBSET (Position \cup {R!Backfill})]
        BY <1>13, <2>1, InsertIsTyped DEF R!BackfillInserts
    <2>3. todo' \subseteq todo /\ backfill' \in {"record", "look"} BY <1>13 DEF R!BackfillInserts
    <2>4. rows' = rows BY <1>13 DEF R!BackfillInserts
    <2> QED BY <1>13, <2>2, <2>3, <2>4 DEF R!BackfillInserts
  <1>14. CASE R!BackfillRecords BY <1>14, <1>0 DEF R!BackfillRecords, KeyIsHeld
  <1>15. CASE R!BackfillFails
    <2>1. inserting' \in [Position -> SUBSET (Position \cup {R!Backfill})]
      BY <1>15 DEF R!BackfillFails
    <2>2. faults' \in 0..MaxFaults /\ todo' \subseteq todo BY <1>15 DEF R!BackfillFails
    <2>3. backfill' = "look" /\ botched' = TRUE /\ UNCHANGED <<day, step, exit_at, pnl, closed>>
      BY <1>15 DEF R!BackfillFails
    <2>4. UNCHANGED <<collected, report, torn, saved, rows, listed>> BY <1>15 DEF R!BackfillFails
    <2> QED BY <2>1, <2>2, <2>3, <2>4
  <1>16. CASE R!BackfillEnds BY <1>16, <1>0 DEF R!BackfillEnds
  <1>17. CASE R!Crash
    <2>1. /\ step' \in [Position -> {"open", "commit", "export", "save", "look", "insert", "record", "over"}]
          /\ exit_at' \in [Position -> Nat] /\ pnl' \in [Position -> Int]
      BY <1>17 DEF R!Crash
    <2>2. PICK lost \in SUBSET {DayOf[p] : p \in {q \in Position : step[q] = "save"}} :
             /\ torn' = torn \cup lost
             /\ report' = [d \in R!Day |-> IF d \in lost THEN R!Nothing ELSE report[d]]
      BY <1>17 DEF R!Crash
    <2>3. torn' \subseteq R!Day BY <2>2
    <2>4. report' = [d \in R!Day |-> report'[d]] /\ \A d \in R!Day : R!IsReport(report'[d])
      BY <1>0, <2>2
    <2>5. collected' = [p \in Position |-> collected'[p]] /\ \A p \in Position : R!IsReport(collected'[p])
      BY <1>0, <1>17 DEF R!Crash
    <2>6. inserting' \in [Position -> SUBSET (Position \cup {R!Backfill})] BY <1>17 DEF R!Crash
    <2>7. faults' \in 0..MaxFaults BY <1>17 DEF R!Crash
    <2>8. UNCHANGED <<day, closed, saved, rows, backfill, listed, todo, botched>> BY <1>17 DEF R!Crash
    <2> QED BY <2>1, <2>3, <2>4, <2>5, <2>6, <2>7, <2>8
  <1>18. CASE R!Midnight BY <1>18, <1>0 DEF R!Midnight
  <1>19. CASE UNCHANGED R!vars BY <1>19, <1>0 DEF R!vars
  <1> QED BY <1>1, <1>2, <1>3, <1>4, <1>5, <1>6, <1>7, <1>8, <1>9, <1>10, <1>11, <1>12, <1>13,
      <1>14, <1>15, <1>16, <1>17, <1>18, <1>19
      DEF R!Next, R!Exit

LEMMA KeyStep == ASSUME Exits, R!TypeOK, KeyIsHeld, [R!Next]_(R!vars) PROVE KeyIsHeld'
  <1> USE DEF Exits, R!TypeOK, KeyIsHeld, R!db, R!file, R!history, R!other, R!Goes, R!Fault,
      R!EndsExport, R!Insert, R!FindsIt, R!KeyTaken, R!Commit, R!RollsBack, R!NextOne
  <1>0. (todo # {} => R!Current \in todo) /\ (todo' = todo => R!Current' = R!Current)
      BY CurrentIsListed
  <1>1. ASSUME NEW p \in Position, R!Finalize(p) PROVE KeyIsHeld' BY <1>1, <1>0 DEF R!Finalize
  <1>2. ASSUME NEW p \in Position, R!CommitClosed(p)
        PROVE  KeyIsHeld'
    BY <1>2, <1>0 DEF R!CommitClosed
  <1>3. ASSUME NEW p \in Position, R!Aborted(p) PROVE KeyIsHeld' BY <1>3, <1>0 DEF R!Aborted
  <1>4. ASSUME NEW p \in Position, R!Collect(p) PROVE KeyIsHeld' BY <1>4, <1>0 DEF R!Collect
  <1>5. ASSUME NEW p \in Position, R!Save(p) PROVE KeyIsHeld' BY <1>5, <1>0 DEF R!Save
  <1>6. ASSUME NEW p \in Position, R!ExportFails(p) PROVE KeyIsHeld' BY <1>6, <1>0 DEF R!ExportFails
  <1>7. ASSUME NEW p \in Position, R!Look(p) PROVE KeyIsHeld' BY <1>7, <1>0 DEF R!Look
  <1>8. ASSUME NEW p \in Position, R!InsertRow(p) PROVE KeyIsHeld' BY <1>8, <1>0 DEF R!InsertRow
  <1>9. ASSUME NEW p \in Position, R!Record(p) PROVE KeyIsHeld' BY <1>9, <1>0 DEF R!Record
  <1>10. ASSUME NEW p \in Position, R!RecordFails(p)
        PROVE  KeyIsHeld'
    BY <1>10, <1>0 DEF R!RecordFails
  <1>11. CASE R!BackfillBegins BY <1>11, <1>0 DEF R!BackfillBegins
  <1>12. CASE R!BackfillLooks BY <1>12, <1>0 DEF R!BackfillLooks
  <1>13. CASE R!BackfillInserts BY <1>13, <1>0 DEF R!BackfillInserts
  <1>14. CASE R!BackfillRecords BY <1>14, <1>0 DEF R!BackfillRecords
  <1>15. CASE R!BackfillFails BY <1>15, <1>0 DEF R!BackfillFails
  <1>16. CASE R!BackfillEnds BY <1>16, <1>0 DEF R!BackfillEnds
  <1>17. CASE R!Crash BY <1>17, <1>0 DEF R!Crash
  <1>18. CASE R!Midnight BY <1>18, <1>0 DEF R!Midnight
  <1>19. CASE UNCHANGED R!vars BY <1>19, <1>0 DEF R!vars
  <1> QED BY <1>1, <1>2, <1>3, <1>4, <1>5, <1>6, <1>7, <1>8, <1>9, <1>10, <1>11, <1>12, <1>13,
      <1>14, <1>15, <1>16, <1>17, <1>18, <1>19
      DEF R!Next, R!Exit

LEMMA BackfillStep ==
    ASSUME Exits, R!TypeOK, KeyIsHeld, BackfillKeepsUp, [R!Next]_(R!vars)
    PROVE  BackfillKeepsUp'
  <1> USE DEF Exits, R!TypeOK, KeyIsHeld, BackfillKeepsUp, R!db, R!file, R!history, R!other,
      R!Goes, R!Fault, R!EndsExport, R!Insert, R!FindsIt, R!KeyTaken, R!Commit, R!RollsBack, R!NextOne
  <1>0. todo # {} => R!Current \in todo BY CurrentIsListed
  <1>1. ASSUME NEW p \in Position, R!Finalize(p) PROVE BackfillKeepsUp' BY <1>1, <1>0 DEF R!Finalize
  <1>2. ASSUME NEW p \in Position, R!CommitClosed(p)
        PROVE  BackfillKeepsUp'
    BY <1>2, <1>0 DEF R!CommitClosed
  <1>3. ASSUME NEW p \in Position, R!Aborted(p) PROVE BackfillKeepsUp' BY <1>3, <1>0 DEF R!Aborted
  <1>4. ASSUME NEW p \in Position, R!Collect(p) PROVE BackfillKeepsUp' BY <1>4, <1>0 DEF R!Collect
  <1>5. ASSUME NEW p \in Position, R!Save(p) PROVE BackfillKeepsUp' BY <1>5, <1>0 DEF R!Save
  <1>6. ASSUME NEW p \in Position, R!ExportFails(p)
        PROVE  BackfillKeepsUp'
    BY <1>6, <1>0 DEF R!ExportFails
  <1>7. ASSUME NEW p \in Position, R!Look(p) PROVE BackfillKeepsUp' BY <1>7, <1>0 DEF R!Look
  <1>8. ASSUME NEW p \in Position, R!InsertRow(p)
        PROVE  BackfillKeepsUp'
    BY <1>8, <1>0 DEF R!InsertRow
  <1>9. ASSUME NEW p \in Position, R!Record(p) PROVE BackfillKeepsUp' BY <1>9, <1>0 DEF R!Record
  <1>10. ASSUME NEW p \in Position, R!RecordFails(p)
        PROVE  BackfillKeepsUp'
    BY <1>10, <1>0 DEF R!RecordFails
  <1>11. CASE R!BackfillBegins BY <1>11, <1>0 DEF R!BackfillBegins
  <1>12. CASE R!BackfillLooks BY <1>12, <1>0 DEF R!BackfillLooks
  <1>13. CASE R!BackfillInserts BY <1>13, <1>0 DEF R!BackfillInserts
  <1>14. CASE R!BackfillRecords BY <1>14, <1>0 DEF R!BackfillRecords
  <1>15. CASE R!BackfillFails BY <1>15, <1>0 DEF R!BackfillFails
  <1>16. CASE R!BackfillEnds BY <1>16, <1>0 DEF R!BackfillEnds
  <1>17. CASE R!Crash BY <1>17, <1>0 DEF R!Crash
  <1>18. CASE R!Midnight BY <1>18, <1>0 DEF R!Midnight
  <1>19. CASE UNCHANGED R!vars BY <1>19, <1>0 DEF R!vars
  <1> QED BY <1>1, <1>2, <1>3, <1>4, <1>5, <1>6, <1>7, <1>8, <1>9, <1>10, <1>11, <1>12, <1>13,
      <1>14, <1>15, <1>16, <1>17, <1>18, <1>19
      DEF R!Next, R!Exit

LEMMA ExitsStep == ASSUME Exits, R!TypeOK, ExitsAdvance, [R!Next]_(R!vars) PROVE ExitsAdvance'
  <1> USE DEF Exits, R!TypeOK, R!Day, ExitsAdvance, R!db, R!file, R!history, R!other, R!Goes,
      R!Fault, R!EndsExport, R!Insert, R!FindsIt, R!KeyTaken, R!Commit, R!RollsBack, R!NextOne
  <1>1. ASSUME NEW p \in Position, R!Finalize(p) PROVE ExitsAdvance'
    <2>1. R!Latest + 1 \in Nat /\ R!Latest + 1 > 0 BY LatestExists
    <2> QED BY <1>1, <2>1 DEF R!Finalize
  <1>2. ASSUME NEW p \in Position, R!CommitClosed(p) PROVE ExitsAdvance' BY <1>2 DEF R!CommitClosed
  <1>3. ASSUME NEW p \in Position, R!Aborted(p) PROVE ExitsAdvance' BY <1>3 DEF R!Aborted
  <1>4. ASSUME NEW p \in Position, R!Collect(p) PROVE ExitsAdvance' BY <1>4 DEF R!Collect
  <1>5. ASSUME NEW p \in Position, R!Save(p) PROVE ExitsAdvance' BY <1>5 DEF R!Save
  <1>6. ASSUME NEW p \in Position, R!ExportFails(p) PROVE ExitsAdvance' BY <1>6 DEF R!ExportFails
  <1>7. ASSUME NEW p \in Position, R!Look(p) PROVE ExitsAdvance' BY <1>7 DEF R!Look
  <1>8. ASSUME NEW p \in Position, R!InsertRow(p) PROVE ExitsAdvance' BY <1>8 DEF R!InsertRow
  <1>9. ASSUME NEW p \in Position, R!Record(p) PROVE ExitsAdvance' BY <1>9 DEF R!Record
  <1>10. ASSUME NEW p \in Position, R!RecordFails(p) PROVE ExitsAdvance' BY <1>10 DEF R!RecordFails
  <1>11. CASE R!BackfillBegins BY <1>11 DEF R!BackfillBegins
  <1>12. CASE R!BackfillLooks BY <1>12 DEF R!BackfillLooks
  <1>13. CASE R!BackfillInserts BY <1>13 DEF R!BackfillInserts
  <1>14. CASE R!BackfillRecords BY <1>14 DEF R!BackfillRecords
  <1>15. CASE R!BackfillFails BY <1>15 DEF R!BackfillFails
  <1>16. CASE R!BackfillEnds BY <1>16 DEF R!BackfillEnds
  <1>17. CASE R!Crash BY <1>17 DEF R!Crash
  <1>18. CASE R!Midnight BY <1>18 DEF R!Midnight
  <1>19. CASE UNCHANGED R!vars BY <1>19 DEF R!vars
  <1> QED BY <1>1, <1>2, <1>3, <1>4, <1>5, <1>6, <1>7, <1>8, <1>9, <1>10, <1>11, <1>12, <1>13,
      <1>14, <1>15, <1>16, <1>17, <1>18, <1>19
      DEF R!Next, R!Exit

LEMMA RowsStep ==
    ASSUME Exits, R!TypeOK, KeyIsHeld, ExitsAdvance, RowsFollow, [R!Next]_(R!vars)
    PROVE  RowsFollow'
  <1> USE DEF Exits, R!TypeOK, KeyIsHeld, ExitsAdvance, RowsFollow, R!db, R!file, R!history,
      R!other, R!Goes, R!Fault, R!EndsExport, R!Insert, R!FindsIt, R!KeyTaken, R!Commit, R!RollsBack, R!NextOne
  <1>0. todo # {} => R!Current \in todo BY CurrentIsListed
  <1>1. ASSUME NEW p \in Position, R!Finalize(p) PROVE RowsFollow' BY <1>1, <1>0 DEF R!Finalize
  <1>2. ASSUME NEW p \in Position, R!CommitClosed(p)
        PROVE  RowsFollow'
    BY <1>2, <1>0 DEF R!CommitClosed
  <1>3. ASSUME NEW p \in Position, R!Aborted(p) PROVE RowsFollow' BY <1>3, <1>0 DEF R!Aborted
  <1>4. ASSUME NEW p \in Position, R!Collect(p) PROVE RowsFollow' BY <1>4, <1>0 DEF R!Collect
  <1>5. ASSUME NEW p \in Position, R!Save(p) PROVE RowsFollow' BY <1>5, <1>0 DEF R!Save
  <1>6. ASSUME NEW p \in Position, R!ExportFails(p)
        PROVE  RowsFollow'
    BY <1>6, <1>0 DEF R!ExportFails
  <1>7. ASSUME NEW p \in Position, R!Look(p) PROVE RowsFollow' BY <1>7, <1>0 DEF R!Look
  <1>8. ASSUME NEW p \in Position, R!InsertRow(p) PROVE RowsFollow' BY <1>8, <1>0 DEF R!InsertRow
  <1>9. ASSUME NEW p \in Position, R!Record(p) PROVE RowsFollow' BY <1>9, <1>0 DEF R!Record
  <1>10. ASSUME NEW p \in Position, R!RecordFails(p)
        PROVE  RowsFollow'
    BY <1>10, <1>0 DEF R!RecordFails
  <1>11. CASE R!BackfillBegins BY <1>11, <1>0 DEF R!BackfillBegins
  <1>12. CASE R!BackfillLooks BY <1>12, <1>0 DEF R!BackfillLooks
  <1>13. CASE R!BackfillInserts BY <1>13, <1>0 DEF R!BackfillInserts
  <1>14. CASE R!BackfillRecords BY <1>14, <1>0 DEF R!BackfillRecords
  <1>15. CASE R!BackfillFails BY <1>15, <1>0 DEF R!BackfillFails
  <1>16. CASE R!BackfillEnds BY <1>16, <1>0 DEF R!BackfillEnds
  <1>17. CASE R!Crash BY <1>17, <1>0 DEF R!Crash
  <1>18. CASE R!Midnight BY <1>18, <1>0 DEF R!Midnight
  <1>19. CASE UNCHANGED R!vars BY <1>19, <1>0 DEF R!vars
  <1> QED BY <1>1, <1>2, <1>3, <1>4, <1>5, <1>6, <1>7, <1>8, <1>9, <1>10, <1>11, <1>12, <1>13,
      <1>14, <1>15, <1>16, <1>17, <1>18, <1>19
      DEF R!Next, R!Exit


\* What has closed is as it was, and what closes is of today.
ClosedStays ==
    /\ closed \subseteq closed'
    /\ \A p \in closed : pnl'[p] = pnl[p] /\ exit_at'[p] = exit_at[p]
    /\ \A p \in closed' \ closed : DayOf[p] = day

LEMMA ClosedStep == ASSUME Exits, R!TypeOK, ExitsAdvance, [R!Next]_(R!vars) PROVE ClosedStays
  <1> USE DEF Exits, R!TypeOK, ExitsAdvance, ClosedStays, R!db, R!file, R!history, R!other, R!Goes,
      R!Fault, R!EndsExport, R!Insert, R!FindsIt, R!KeyTaken, R!Commit, R!RollsBack, R!NextOne
  <1>1. ASSUME NEW p \in Position, R!Finalize(p) PROVE ClosedStays BY <1>1 DEF R!Finalize
  <1>2. ASSUME NEW p \in Position, R!CommitClosed(p) PROVE ClosedStays BY <1>2 DEF R!CommitClosed
  <1>3. ASSUME NEW p \in Position, R!Aborted(p) PROVE ClosedStays BY <1>3 DEF R!Aborted
  <1>4. ASSUME NEW p \in Position, R!Collect(p) PROVE ClosedStays BY <1>4 DEF R!Collect
  <1>5. ASSUME NEW p \in Position, R!Save(p) PROVE ClosedStays BY <1>5 DEF R!Save
  <1>6. ASSUME NEW p \in Position, R!ExportFails(p) PROVE ClosedStays BY <1>6 DEF R!ExportFails
  <1>7. ASSUME NEW p \in Position, R!Look(p) PROVE ClosedStays BY <1>7 DEF R!Look
  <1>8. ASSUME NEW p \in Position, R!InsertRow(p) PROVE ClosedStays BY <1>8 DEF R!InsertRow
  <1>9. ASSUME NEW p \in Position, R!Record(p) PROVE ClosedStays BY <1>9 DEF R!Record
  <1>10. ASSUME NEW p \in Position, R!RecordFails(p) PROVE ClosedStays BY <1>10 DEF R!RecordFails
  <1>11. CASE R!BackfillBegins BY <1>11 DEF R!BackfillBegins
  <1>12. CASE R!BackfillLooks BY <1>12 DEF R!BackfillLooks
  <1>13. CASE R!BackfillInserts BY <1>13 DEF R!BackfillInserts
  <1>14. CASE R!BackfillRecords BY <1>14 DEF R!BackfillRecords
  <1>15. CASE R!BackfillFails BY <1>15 DEF R!BackfillFails
  <1>16. CASE R!BackfillEnds BY <1>16 DEF R!BackfillEnds
  <1>17. CASE R!Crash BY <1>17 DEF R!Crash
  <1>18. CASE R!Midnight BY <1>18 DEF R!Midnight
  <1>19. CASE UNCHANGED R!vars BY <1>19 DEF R!vars
  <1> QED BY <1>1, <1>2, <1>3, <1>4, <1>5, <1>6, <1>7, <1>8, <1>9, <1>10, <1>11, <1>12, <1>13,
      <1>14, <1>15, <1>16, <1>17, <1>18, <1>19
      DEF R!Next, R!Exit

LEMMA FaithfulStays ==
    ASSUME Exits, R!TypeOK, ExitsAdvance, ClosedStays, NEW d \in R!Day, NEW lines, Faithful(d,
        lines)
    PROVE  Faithful(d, lines)'
  <1>1. DOMAIN lines \subseteq {q \in closed : DayOf[q] = d /\ exit_at[q] > 0} BY DEF Faithful
  <1>2. DOMAIN lines \subseteq {q \in closed' : DayOf[q] = d /\ exit_at'[q] > 0}
      BY <1>1 DEF ClosedStays
  <1>3. ASSUME NEW p \in DOMAIN lines
        PROVE  lines[p].profit - lines[p].loss = R!Total(pnl', R!UpTo(d, DOMAIN lines, p)')
    <2> DEFINE U == R!UpTo(d, DOMAIN lines, p)
    <2>1. p \in closed /\ DayOf[p] = d /\ p \in Position BY <1>1 DEF R!TypeOK
    <2>2. d <= day /\ d \in Int /\ day \in Int BY <2>1 DEF ExitsAdvance, R!TypeOK, R!Day
    <2>3. {q \in closed' : DayOf[q] < d} = {q \in closed : DayOf[q] < d} BY <2>2 DEF ClosedStays
    <2>4. {q \in DOMAIN lines : exit_at'[q] <= exit_at'[p]} = {q \in DOMAIN lines : exit_at[q] <= exit_at[p]}
      BY <1>1 DEF ClosedStays
    <2>5. U' = U BY <2>3, <2>4 DEF R!UpTo
    <2>6. U \subseteq closed BY <1>1 DEF R!UpTo
    <2>7. U \in SUBSET Position /\ \A q \in U : pnl[q] = pnl'[q] BY <2>6 DEF R!TypeOK, ClosedStays
    <2>8. R!Total(pnl, U) = R!Total(pnl', U)
      <3> HIDE DEF U
      <3> QED BY <2>7, TotalOfSame DEF Exits
    <2>9. lines[p].profit - lines[p].loss = R!Total(pnl, U) BY DEF Faithful
    <2> QED BY <2>5, <2>8, <2>9
  <1> QED BY <1>2, <1>3 DEF Faithful

LEMMA RowsAreFaithful ==
    ASSUME Exits, R!TypeOK, NEW d PROVE Faithful(d, R!Rows(d))
  <1> DEFINE today == {p \in closed : DayOf[p] = d /\ exit_at[p] > 0}
  <1>1. DOMAIN R!Rows(d) = today BY DEF R!Rows
  <1>2. ASSUME NEW p \in today
      PROVE R!Rows(d)[p].profit - R!Rows(d)[p].loss = R!Total(pnl, R!UpTo(d, today, p))
    <2>1. R!UpTo(d, today, p) \in SUBSET Position BY DEF R!UpTo, R!TypeOK
    <2>2. pnl \in [Position -> Int] BY DEF R!TypeOK
    <2>3. /\ R!Rows(d)[p].profit = R!Total(R!Gains, R!UpTo(d, today, p))
          /\ R!Rows(d)[p].loss = R!Total(R!Losses, R!UpTo(d, today, p)) BY DEF R!Rows
    <2> HIDE DEF today
    <2> QED BY <2>1, <2>2, <2>3, NetOfTotals DEF Exits
  <1> HIDE DEF today
  <1>3. \A p \in DOMAIN R!Rows(d) :
           R!Rows(d)[p].profit - R!Rows(d)[p].loss = R!Total(pnl, R!UpTo(d, DOMAIN R!Rows(d), p))
    BY <1>1, <1>2
  <1> QED BY <1>1, <1>3 DEF Faithful, today

LEMMA NothingIsFaithful == \A d : Faithful(d, R!Nothing)
  BY DEF Faithful, R!Nothing

\* A step that leaves the files alone, and the exports that have read them.
LEMMA ReportsStay ==
    ASSUME Exits, R!TypeOK, ExitsAdvance, ClosedStays, ReportsKeepUp, UNCHANGED <<report, torn,
        saved>>,
           \A p \in Position : step'[p] = "save" => step[p] = "save" /\ collected'[p] = collected[p]
    PROVE  ReportsKeepUp'
  <1>1. \A p, q \in Position : step'[p] = "save" /\ step'[q] = "save" => p = q BY DEF ReportsKeepUp
  <1>2. ASSUME NEW p \in Position, step'[p] = "save"
        PROVE  /\ Faithful(DayOf[p], collected[p])'
               /\ {q \in saved' : DayOf[q] = DayOf[p]} \cup {p} \subseteq DOMAIN collected'[p]
    <2>1. PICK lines : lines = collected[p] OBVIOUS
    <2>2. Faithful(DayOf[p], lines) /\ DayOf[p] \in R!Day BY <1>2, <2>1 DEF ReportsKeepUp, Exits
    <2>3. Faithful(DayOf[p], lines)' BY <2>2, FaithfulStays
    <2>4. collected'[p] = lines BY <1>2, <2>1
    <2>5. Faithful(DayOf[p], collected[p])' BY <2>3, <2>4 DEF Faithful, R!UpTo
    <2> QED BY <1>2, <2>5 DEF ReportsKeepUp
  <1>3. ASSUME NEW d \in R!Day PROVE Faithful(d, report[d])'
    <2>1. PICK lines : lines = report[d] OBVIOUS
    <2>2. Faithful(d, lines)' BY <2>1, FaithfulStays DEF ReportsKeepUp
    <2> QED BY <2>1, <2>2 DEF Faithful, R!UpTo
  <1> QED BY <1>1, <1>2, <1>3 DEF ReportsKeepUp

LEMMA ReportsStep ==
    ASSUME Exits, R!TypeOK, ExitsAdvance, ReportsKeepUp, [R!Next]_(R!vars)
    PROVE  ReportsKeepUp'
  <1> USE DEF R!Goes
  <1>0. ClosedStays BY ClosedStep
  <1>1. ASSUME NEW p \in Position, R!Collect(p) PROVE ReportsKeepUp'
    <2>1. UNCHANGED <<report, torn, saved, exit_at, pnl, closed, day>> BY <1>1 DEF R!Collect, R!db
    <2>2. step' = [step EXCEPT ![p] = "save"] /\ collected' = [collected EXCEPT ![p] = R!Rows(DayOf[p])]
      BY <1>1 DEF R!Collect
    <2>3. \A q \in Position : step'[q] = "save" <=> q = p
        BY <1>1, <2>2 DEF R!Collect, R!MayCollect, R!TypeOK
    <2>4. collected'[p] = R!Rows(DayOf[p]) BY <2>2 DEF R!TypeOK
    <2>5. Faithful(DayOf[p], collected[p])' BY <2>1, <2>4, RowsAreFaithful DEF Faithful, R!UpTo
    <2>6. {q \in saved : DayOf[q] = DayOf[p]} \cup {p} \subseteq DOMAIN R!Rows(DayOf[p])
      BY <1>1 DEF R!Collect, R!Rows, ExitsAdvance, R!TypeOK
    <2>7. ASSUME NEW d \in R!Day PROVE Faithful(d, report[d])'
      <3>1. PICK lines : lines = report[d] OBVIOUS
      <3>2. Faithful(d, lines)' BY <1>0, <3>1, FaithfulStays DEF ReportsKeepUp
      <3> QED BY <2>1, <3>1, <3>2 DEF Faithful, R!UpTo
    <2> QED BY <2>1, <2>3, <2>4, <2>5, <2>6, <2>7 DEF ReportsKeepUp
  <1>2. ASSUME NEW p \in Position, R!Save(p) PROVE ReportsKeepUp'
    <2>1. UNCHANGED <<exit_at, pnl, closed, day>> BY <1>2 DEF R!Save, R!db
    <2>2. \A q \in Position : step'[q] # "save"
        BY <1>2 DEF R!Save, R!EndsExport, ReportsKeepUp, R!TypeOK
    <2>3. ASSUME NEW d \in R!Day
          PROVE  /\ Faithful(d, report[d])'
                 /\ d \notin torn' => {q \in saved' : DayOf[q] = d} \subseteq DOMAIN report'[d]
      <3>1. CASE d = DayOf[p]
        <4>1. report'[d] = collected[p] BY <1>2, <3>1 DEF R!Save, R!TypeOK
        <4>2. Faithful(d, collected[p]) BY <1>2, <3>1 DEF R!Save, ReportsKeepUp
        <4>3. {q \in saved' : DayOf[q] = d} \subseteq DOMAIN collected[p]
          BY <1>2, <3>1 DEF R!Save, ReportsKeepUp
        <4> QED BY <2>1, <4>1, <4>2, <4>3 DEF Faithful, R!UpTo
      <3>2. CASE d # DayOf[p]
        <4>1. report'[d] = report[d] BY <1>2, <3>2 DEF R!Save, R!TypeOK
        <4>2. Faithful(d, report[d])' BY <2>1, <4>1 DEF ReportsKeepUp, Faithful, R!UpTo
        <4>3. (d \notin torn' => d \notin torn) /\ {q \in saved' : DayOf[q] = d} = {q \in saved : DayOf[q] = d}
          BY <1>2, <3>2 DEF R!Save
        <4> QED BY <4>1, <4>2, <4>3 DEF ReportsKeepUp
      <3> QED BY <3>1, <3>2
    <2> QED BY <2>2, <2>3 DEF ReportsKeepUp
  <1>3. CASE R!Crash
    <2>1. \A p \in Position : step'[p] # "save" BY <1>3 DEF R!Crash
    <2>2. PICK lost : /\ torn' = torn \cup lost
                      /\ report' = [d \in R!Day |-> IF d \in lost THEN R!Nothing ELSE report[d]]
      BY <1>3 DEF R!Crash
    <2>3. saved' = saved BY <1>3 DEF R!Crash
    <2>4. ASSUME NEW d \in R!Day PROVE Faithful(d, report[d])'
      <3>1. PICK lines : lines = report'[d] OBVIOUS
      <3>2. Faithful(d, lines) BY <2>2, <3>1, NothingIsFaithful DEF ReportsKeepUp
      <3>3. Faithful(d, lines)' BY <1>0, <3>2, FaithfulStays
      <3> QED BY <3>1, <3>3 DEF Faithful, R!UpTo
    <2>5. ASSUME NEW d \in R!Day \ torn'
        PROVE {p \in saved' : DayOf[p] = d} \subseteq DOMAIN report'[d]
      BY <2>2, <2>3 DEF ReportsKeepUp
    <2> QED BY <2>1, <2>4, <2>5 DEF ReportsKeepUp
  <1>4. ASSUME UNCHANGED <<report, torn, saved>>,
               \A p \in Position : step'[p] = "save" => step[p] = "save" /\ collected'[p] = collected[p]
        PROVE  ReportsKeepUp'
    BY <1>0, <1>4, ReportsStay
  <1>5. ASSUME NEW p \in Position, R!Exit(p) PROVE ReportsKeepUp'
    <2>1. CASE R!Collect(p) BY <1>1, <2>1
    <2>2. CASE R!Save(p) BY <1>2, <2>2
    <2>3. CASE R!ExportFails(p)
      <3>1. step' = [step EXCEPT ![p] = "look"] /\ collected' = [collected EXCEPT ![p] = R!Nothing]
        BY <2>3 DEF R!ExportFails, R!EndsExport
      <3>2. UNCHANGED <<report, torn, saved>> BY <2>3 DEF R!ExportFails
      <3> QED BY <1>4, <3>1, <3>2 DEF R!TypeOK
    <2>4. CASE R!Finalize(p) \/ R!CommitClosed(p) \/ R!Aborted(p) \/ R!Look(p)
      <3>1. UNCHANGED R!file BY <2>4 DEF R!Finalize, R!CommitClosed, R!Aborted, R!Look
      <3>2. step'[p] # "save" /\ \A q \in Position \ {p} : step'[q] = step[q]
        BY <2>4 DEF R!Finalize, R!CommitClosed, R!Aborted, R!Look, R!TypeOK
      <3> QED BY <1>4, <3>1, <3>2 DEF R!file
    <2>5. CASE R!InsertRow(p) \/ R!Record(p) \/ R!RecordFails(p)
      <3>1. UNCHANGED R!file BY <2>5 DEF R!InsertRow, R!Record, R!RecordFails
      <3>2. step'[p] # "save" /\ \A q \in Position \ {p} : step'[q] = step[q]
        BY <2>5 DEF R!InsertRow, R!Record, R!RecordFails, R!TypeOK
      <3> QED BY <1>4, <3>1, <3>2 DEF R!file
    <2> QED BY <1>5, <2>1, <2>2, <2>3, <2>4, <2>5 DEF R!Exit
  <1>6. CASE R!BackfillBegins \/ R!BackfillLooks \/ R!BackfillInserts
    BY <1>4, <1>6 DEF R!BackfillBegins, R!BackfillLooks, R!BackfillInserts, R!file
  <1>7. CASE R!BackfillRecords \/ R!BackfillFails \/ R!BackfillEnds
    BY <1>4, <1>7 DEF R!BackfillRecords, R!BackfillFails, R!BackfillEnds, R!file
  <1>8. CASE R!Midnight
    <2>1. UNCHANGED <<step, R!file>> BY <1>8 DEF R!Midnight
    <2> QED BY <1>4, <2>1 DEF R!file
  <1>9. CASE UNCHANGED R!vars BY <1>4, <1>9 DEF R!vars
  <1> QED BY <1>3, <1>5, <1>6, <1>7, <1>8, <1>9 DEF R!Next

\* The inductive invariant of the records.
LEMMA RecordsInvariant == ASSUME Exits PROVE R!Spec => []RecordsInv
  <1>1. R!Init => RecordsInv
    <2> SUFFICES ASSUME R!Init PROVE RecordsInv OBVIOUS
    <2> USE DEF R!Init
    <2>1. R!IsReport(R!Nothing) BY DEF R!IsReport, R!Nothing
    <2>2. R!TypeOK
      <3>1. /\ collected = [p \in Position |-> collected[p]]
            /\ \A p \in Position : R!IsReport(collected[p])
          BY <2>1
      <3>2. report = [d \in R!Day |-> report[d]] /\ \A d \in R!Day : R!IsReport(report[d]) BY <2>1
      <3>3. day \in R!Day BY DEF R!Day, Exits
      <3>4. inserting \in [Position -> SUBSET (Position \cup {R!Backfill})] OBVIOUS
      <3>5. faults \in 0..MaxFaults BY DEF Exits
      <3>6. /\ exit_at \in [Position -> Nat] /\ pnl \in [Position -> Int] /\ rows \in [Position -> Nat]
            /\ step \in [Position -> {"open", "commit", "export", "save", "look", "insert", "record", "over"}]
        OBVIOUS
      <3>7. closed \subseteq Position /\ torn \subseteq R!Day /\ saved \subseteq Position OBVIOUS
      <3>8. backfill = "idle" /\ listed \subseteq closed /\ todo \subseteq listed /\ botched \in BOOLEAN OBVIOUS
      <3> HIDE DEF R!Init
      <3> QED BY <3>1, <3>2, <3>3, <3>4, <3>5, <3>6, <3>7, <3>8 DEF R!TypeOK
    <2>3. KeyIsHeld BY DEF KeyIsHeld
    <2>4. BackfillKeepsUp /\ ExitsAdvance /\ RowsFollow
        BY DEF BackfillKeepsUp, ExitsAdvance, RowsFollow
    <2>5. ReportsKeepUp
      <3>1. \A d \in R!Day : report[d] = R!Nothing OBVIOUS
      <3>2. \A d \in R!Day : Faithful(d, report[d]) BY <3>1, NothingIsFaithful
      <3> QED BY <3>2 DEF ReportsKeepUp
    <2> QED BY <2>2, <2>3, <2>4, <2>5 DEF RecordsInv
  <1>2. RecordsInv /\ [R!Next]_(R!vars) => RecordsInv'
    BY TypeStep, KeyStep, BackfillStep, ExitsStep, RowsStep, ReportsStep DEF RecordsInv
  <1> QED BY <1>1, <1>2, PTL DEF R!Spec

\* However exits, their exports and a backfill interleave, fail or die, no closed position has two
\* history rows, and the reports are complete and add up (_get_or_create, export_day).
THEOREM RecordsAreKept == ASSUME Exits PROVE R!Spec => []R!RecordsAreTrue
  <1>1. RecordsInv => R!RecordsAreTrue
    <2> SUFFICES ASSUME RecordsInv PROVE R!RecordsAreTrue OBVIOUS
    <2>1. R!HistoryIsOnce
      BY DEF RecordsInv, R!TypeOK, RowsFollow, BackfillKeepsUp, R!HistoryIsOnce
    <2>2. R!ReportsAreTrue BY DEF RecordsInv, ReportsKeepUp, Faithful, R!ReportsAreTrue
    <2> QED BY <2>1, <2>2 DEF R!RecordsAreTrue
  <1> QED BY <1>1, RecordsInvariant, PTL

\* The types of the records: a report holds totals of one state of the database
\* (TradeReportExporter, TradeHistoryRecorder).
THEOREM RecordTypes == ASSUME Exits PROVE R!Spec => []R!TypeOK
  <1>1. RecordsInv => R!TypeOK BY DEF RecordsInv
  <1> QED BY <1>1, RecordsInvariant, PTL
================================================================================
