--------------------------- MODULE Strategy1Properties ---------------------------
(***************************************************************************)
(* What the trade cycle of module Strategy1 promises.  Each property relates *)
(* what the database says to what the broker holds, across crashes and         *)
(* restarts; README.md names the run that checks it and the theorem, if any,   *)
(* that proves it.                                                           *)
(***************************************************************************)
EXTENDS Strategy1

\* Two orders never carry the same tag: whatever entry, exit, unwind, a retry or
\* recovery after a crash did, each action of the day reached the broker once.
AtMostOneOrderPerTag == \A t \in Tag : Len(book[t]) <= 1

\* Write-ahead: an order exists at the broker only under a tag whose intent row
\* was committed and marked broker_call_started_at before the call was made.
IntentBeforeOrder ==
    \A t \in Tag : book[t] # <<>> => t \in started /\ intent[t] \notin {"NONE", "PENDING"}

\* The whole quantity of the order under tag t was filled.
FullyFilled(t) == book[t] # <<>> /\ LastOrder(t).filled = Qty

\* The put is sold only after the broker filled the whole call order, so a failed
\* entry leaves at most the call leg to buy back.
PutOnlyAfterCall == book[E("PE")] # <<>> => FullyFilled(E("CE"))

\* A leg is bought back only if it had been sold in full, and by one of unwind
\* and exit, never both: the platform does not buy itself into a long position.
NeverOverClosed ==
    \A l \in Leg :
        /\ \A t \in {<<"U", l>>, X(l)} : book[t] # <<>> => FullyFilled(E(l))
        /\ book[<<"U", l>>] = <<>> \/ book[X(l)] = <<>>

\* OPEN in the database: both legs are short in full at the broker at a known
\* price, and no order that would buy them back has been sent yet.
OpenMeansHedged ==
    posState = "OPEN" =>
        \A l \in Leg : /\ FullyFilled(E(l))
                       /\ entryPrice[l] = "real" /\ tradeStatus[l] = "OPEN"
                       /\ book[X(l)] = <<>> /\ book[<<"U", l>>] = <<>>

\* The leg has no position at the broker and no order that could give it one.
FlatAtBroker(l) ==
    /\ Short(l) = 0
    /\ \A k \in {"E", "U", "X"} : \A i \in DOMAIN book[<<k, l>>] : ~Working(<<k, l>>, i)

\* A position that closed after an exit is flat at the broker, each leg has a
\* price and a P&L, and the recorded reason is the one that triggered the exit,
\* also when recovery finished the exit after a crash.
ExitedMeansFlat ==
    posState = "CLOSED" /\ trigger # "none" =>
        /\ \A l \in Leg : FlatAtBroker(l) /\ exitPrice[l] = "real"
        /\ fullyPriced
        /\ exitReason = trigger

\* A position that reconciliation closed because the entry never filled is flat
\* at the broker: no filled leg and no order that could still fill.
AbortMeansFlat ==
    posState = "CLOSED" /\ trigger = "none" => \A l \in Leg : FlatAtBroker(l)

\* However a position came to be CLOSED, by exit, recovery or reconciliation
\* (_finalize_closed, _reconcile_entry_pending).
ClosedMeansFlat == ExitedMeansFlat /\ AbortMeansFlat

\* Exposure is never forgotten.  Between hooks, a leg that is short at the broker
\* is watched by the monitor of an OPEN position, or somebody is told: the
\* position is in ERROR, the instance is frozen, or a break is recorded.
ExposureIsWatched ==
    pc = "idle" /\ (\E l \in Leg : ~FlatAtBroker(l)) =>
        \/ posState = "OPEN" /\ monitor /\ runner = "RUNNING"
        \/ posState = "ERROR" \/ runner = "FROZEN" \/ breaks # {}

\* A leg that entry gives up as FAILED was not filled by the broker in full: a
\* complete fill is always recognised, whichever of poll and push saw it first.
CompleteFillIsRecognised ==
    pc \in EntryStep => \A l \in Leg : outcome[l] = "FAILED" => ~FullyFilled(E(l))

\* Order o accounts for what row r says of it.
Backs(o, r) ==
    /\ r.filled <= o.filled
    /\ r.status = "COMPLETE" => o.status \in Terminal /\ o.filled > 0 /\ r.filled = o.filled

\* One order of the tag accounts for its row; a row without a broker order id
\* claims nothing.
Accounted(t) ==
    IF row[t].acked THEN \E i \in DOMAIN book[t] : Backs(book[t][i], row[t])
                    ELSE row[t].filled = 0 /\ row[t].status # "COMPLETE"

\* The orders row never claims more than the broker did, whoever wrote it from which
\* snapshot: what it calls filled one order filled, and a COMPLETE row stands for an
\* order that ended with just that fill.
RowsBelieveTheBroker == \A t \in Tag : Accounted(t)

--------------------------------------------------------------------------------
(* The inductive invariant: what every step relies on and re-establishes. *)

\* The step a hook is at tells the state of the position: nobody else moves it
\* while a hook runs, for the runner's lock admits one hook at a time.
PcMatchesState ==
    /\ pc = "e_create" => posState = "IDLE"
    /\ pc \in EntryStep \ {"e_create", "e_attach"} => posState = "ENTRY_PENDING"
    /\ pc \in ExitStep \ {"x_prepare"} => posState = "EXIT_PENDING"

\* While the position row does not exist, nothing of the day does.
IdleIsClean ==
    posState = "IDLE" => started = {} /\ \A t \in Tag : intent[t] = "NONE"

\* Reconciliation examines only intents that are in doubt and still are.
TodoIsInDoubt ==
    /\ todo # {} => pc = "r_intents"
    /\ \A t \in todo : intent[t] \in InDoubt

\* The write-ahead rule, with what keeps it: a started intent has left PENDING,
\* and a step that is about to send has started its intent.
WriteAhead ==
    /\ \A t \in Tag : book[t] # <<>> => t \in started
    /\ \A t \in started : intent[t] \notin {"NONE", "PENDING"}
    /\ pc = "e_send" => E(leg) \in started
    /\ pc = "u_send" => U \in started
    /\ pc = "x_send" => X(leg) \in started

\* The steps of entry up to the answer of one leg.
LegStep == {"e_mark", "e_send", "e_reject", "e_unsent", "e_ack", "e_poll",
            "e_load", "e_apply", "e_read"}

\* Nothing has been sent under the tag the next send will use: entry has not
\* started a leg it has not reached, nor the unwind; exit looked before it leapt.
TagIsFresh ==
    /\ pc = "e_mark" => E(leg) \notin started
    /\ pc \in LegStep /\ leg = "CE" => E("PE") \notin started
    /\ pc \in LegStep \cup {"u_mark"} => U \notin started
    /\ pc = "e_send" => book[E(leg)] = <<>>
    /\ pc = "u_send" => book[U] = <<>>
    /\ pc = "x_mark" => book[X(leg)] = <<>>
    /\ pc = "x_send" => "reset" \in Env \/ book[X(leg)] = <<>>

\* An acknowledged order is in the book, so that polling it finds something.
PolledExists ==
    /\ pc \in {"e_ack", "e_poll"} => book[E(leg)] # <<>>
    /\ pc = "u_poll" => book[U] # <<>>
    /\ pc \in {"x_ack", "x_poll", "x_adopt"} => book[X(leg)] # <<>>

\* Unless a connection may be reset under a call, no tag is sent twice.
SentOnce == "reset" \notin Env => AtMostOneOrderPerTag

Ledger ==
    /\ PcMatchesState /\ IdleIsClean /\ TodoIsInDoubt
    /\ WriteAhead /\ TagIsFresh /\ PolledExists /\ SentOnce

\* Proved inductive in module Strategy1Proofs.
IndInv == TypeOK /\ Ledger

--------------------------------------------------------------------------------
(* The second inductive invariant: what is known of the legs that were sold. *)

\* An entry order is sent once, whatever happens to exits.
EntryOnce == \A l \in Leg : Len(book[E(l)]) <= 1

\* COMPLETE, at the broker, is the whole quantity.
CompleteIsFull ==
    \A t \in Tag : \A i \in DOMAIN book[t] :
        book[t][i].status = "COMPLETE" => book[t][i].filled = Qty

\* While the position row does not exist, neither does an orders row.
IdleHasNoRows == posState = "IDLE" => \A t \in Tag : row[t] = NoRow

\* While entry runs, a COMPLETE row or snapshot of a leg is a complete order:
\* only reconciliation may call a fill that was cut short COMPLETE.
EntryRowsAreFilled ==
    /\ pc \in LegStep => \A l \in Leg : row[E(l)].status = "COMPLETE" => FullyFilled(E(l))
    /\ pc \in {"e_load", "e_apply"} /\ polled.status = "COMPLETE" => FullyFilled(E(leg))

\* The leg was filled in full, and its row says so and at what price.
Sold(l) == FullyFilled(E(l)) /\ row[E(l)].status = "COMPLETE" /\ row[E(l)].price = "real"

UnwindStep == {"u_mark", "u_send", "u_poll", "u_record"}

\* Where the entry stands tells which legs were sold.
SoldSoFar ==
    /\ pc \in LegStep /\ leg = "PE" => Sold("CE")
    /\ pc \in UnwindStep => Sold("CE")
    /\ pc = "e_final" => Sold("CE") /\ Sold("PE") /\ U \notin started

\* Nothing is bought back before its time: no exit before EXIT_PENDING, and no
\* unwind but that of a call that was sold.
NothingBoughtEarly ==
    /\ posState \in {"IDLE", "ENTRY_PENDING", "OPEN"} =>
          \A l \in Leg : X(l) \notin started /\ intent[X(l)] = "NONE"
    /\ \A l \in Leg : <<"U", l>> \in started \/ intent[<<"U", l>>] = "NONE"
    /\ <<"U", "PE">> \notin started
    /\ pc = "u_record" => U \in started
    /\ book[U] # <<>> => FullyFilled(E("CE"))

\* An OPEN position leaves reconciliation nothing to resolve.
OpenIsSettled ==
    posState = "OPEN" => U \notin started /\ \A t \in Tag : intent[t] \notin InDoubt

\* An exit finds both legs sold, and no unwind of either.
ExitFollowsSale ==
    posState = "EXIT_PENDING" => U \notin started /\ \A l \in Leg : FullyFilled(E(l))

\* Proved inductive, beside IndInv, in module Strategy1Proofs.
SaleInv ==
    /\ EntryOnce /\ CompleteIsFull /\ IdleHasNoRows /\ EntryRowsAreFilled /\ SoldSoFar
    /\ NothingBoughtEarly /\ PutOnlyAfterCall /\ OpenMeansHedged /\ OpenIsSettled
    /\ ExitFollowsSale /\ NeverOverClosed

--------------------------------------------------------------------------------
(* The third inductive invariant: the snapshots the hooks act on. *)

\* What has become of order bo, as it was seen.
Follows(o, bo) ==
    /\ o.filled >= bo.filled
    /\ bo.status \in Terminal => o.status = bo.status /\ o.filled = bo.filled

\* The broker reports an average price or none.
NeverPricedZero == \A t \in Tag : \A i \in DOMAIN book[t] : book[t][i].price # "zero"

\* The snapshot a poll hands on is of an order of the leg, and of one that ended.
PolledFrom(t) ==
    polled.status \in Terminal /\ \E i \in DOMAIN book[t] : Follows(book[t][i], polled)

PolledIsTrue ==
    /\ pc \in {"e_load", "e_apply"} => PolledFrom(E(leg))
    /\ pc \in {"x_load", "x_apply"} => PolledFrom(X(leg))

\* What reconciliation saw of an intent it has still to resolve is an order of the
\* tag, and accounts for the row.
ViewIsTrue ==
    pc = "r_intents" => \A t \in todo :
        Len(view[t]) = 1 =>
            /\ view[t][1].price # "zero"
            /\ row[t].acked => Backs(view[t][1], row[t])
            /\ \E i \in DOMAIN book[t] : Follows(book[t][i], view[t][1])

\* Proved inductive, beside IndInv and SaleInv, in module Strategy1Proofs.
RowInv == RowsBelieveTheBroker /\ NeverPricedZero /\ PolledIsTrue /\ ViewIsTrue

--------------------------------------------------------------------------------
(* The fourth inductive invariant: what an exit, and a watch, have come to. *)

\* An order under the tag has filled in full.
Completed(t) == \E i \in DOMAIN book[t] : book[t][i].status = "COMPLETE"

\* The steps that close one leg, once it is known to be open.
CloseStep == ExitStep \ {"x_prepare", "x_leg", "x_final", "x_diverge", "x_break", "x_error"}

\* Nothing of an exit is there before EXIT_PENDING, and an exit that goes on, in
\* this life of the process or the next, carries the reason that began it.
ReasonIsKept ==
    /\ posState \in {"IDLE", "ENTRY_PENDING", "OPEN"} => trigger = "none" /\ pnl = {}
    /\ posState = "EXIT_PENDING" => trigger # "none"
    /\ pc = "x_prepare" =>
          /\ posState \in {"OPEN", "EXIT_PENDING"} /\ reason # "none"
          /\ posState = "EXIT_PENDING" => reason = trigger
    /\ pc \in ExitStep \ {"x_prepare"} => reason = trigger

\* The monitor of a running instance watches an OPEN position, and entry begins
\* without one.
WatchIsOpen ==
    /\ pc = "idle" /\ monitor /\ runner = "RUNNING" => posState = "OPEN"
    /\ pc \in EntryStep => ~monitor

\* A leg with a P&L was bought back in full at a known price, and nothing that may
\* still happen to it changes that.
PricedIsClosed ==
    /\ pnl # {} => U \notin started
    /\ \A l \in pnl : /\ tradeStatus[l] = "CLOSED" /\ exitPrice[l] = "real"
                      /\ intent[X(l)] = "CONFIRMED" /\ Completed(X(l))
    /\ pc \in CloseStep => leg \notin pnl
    /\ pc \in {"x_load", "x_apply", "x_record"} /\ polled.status = "COMPLETE" =>
          polled.price = "real" /\ Completed(X(leg))

\* A position that closed after an exit sold both legs, priced both buy-backs and
\* kept the reason.
ClosedIsPriced ==
    posState = "CLOSED" /\ trigger # "none" =>
        pnl = Leg /\ exitReason = trigger /\ \A l \in Leg : FullyFilled(E(l))

\* An order that filled in full has ended.
FullIsEnded == \A t \in Tag : \A i \in DOMAIN book[t] : book[t][i].filled = Qty => ~Working(t, i)

\* Only a broker that squares off does.
NothingSquared == "squareoff" \notin Env => squared = {}

\* Proved inductive, beside the three above, in module Strategy1ExposureProofs.
ExitInv ==
    /\ ReasonIsKept /\ WatchIsOpen /\ PricedIsClosed /\ ClosedIsPriced /\ FullIsEnded
    /\ NothingSquared

--------------------------------------------------------------------------------
(* The fifth, of a world in which orders end before a restart, whole or not at    *)
(* all, and the book is the platform's: where nothing of an entry is lost.         *)

OrdersSettle == Env \subseteq {"noprice", "push", "halt", "unfreeze"}

\* An order has filled whole or not at all, and an unwind is never turned down.
WholeOrders ==
    \A t \in Tag : \A i \in DOMAIN book[t] :
        book[t][i].status # "COMPLETE" => book[t][i].filled = 0 /\ (t[1] = "U" => Working(t, i))

\* Startup finds no order at work, and reads the book as it is.
StartsSettled ==
    /\ pc \in StartStep => BrokerIdle
    /\ pc = "r_intents" =>
          \A t \in Tag : /\ Len(view[t]) = Len(book[t])
                         /\ \A i \in DOMAIN book[t] : view[t][i].status = book[t][i].status

\* Reconciliation leaves no intent in doubt behind.
DoubtIsResolved ==
    /\ pc = "r_intents" => \A t \in Tag : intent[t] \in InDoubt => t \in todo
    /\ pc \in {"r_orphans", "r_position"} => \A t \in Tag : intent[t] \notin InDoubt

\* An order under the tag is at work, or has filled.
Live(t) == \E i \in DOMAIN book[t] : book[t][i].status \in {"OPEN", "COMPLETE"}

\* While entry is pending, a leg whose trade does not say that it was sold has an
\* intent in doubt, or no order that could sell it; and only the call was bought back.
LegsOfEntry ==
    /\ posState = "ENTRY_PENDING" => \A l \in Leg :
          /\ tradeStatus[l] \in {"PENDING", "OPEN", "UNWOUND", "CLOSED"}
          /\ tradeStatus[l] = "PENDING" /\ Live(E(l)) => intent[E(l)] \in InDoubt
          /\ tradeStatus[l] \in {"UNWOUND", "CLOSED"} => l = "CE" /\ Completed(U)
    /\ pc = "e_send" => intent[E(leg)] \in InDoubt
    /\ pc \in {"e_reject", "e_unsent"} => book[E(leg)] = <<>>
    /\ pc = "u_record" => polled.status = "COMPLETE" /\ Completed(U)

\* What the broker says of the order in question comes to be in its row.
EntryRowFollows ==
    /\ pc \in {"e_poll", "e_load", "e_apply"} =>
          row[E(leg)].acked /\ row[E(leg)].status \in {"OPEN", LastOrder(E(leg)).status}
    /\ pc \in {"e_load", "e_apply"} =>
          polled.status \in Terminal /\ polled.status = LastOrder(E(leg)).status
    /\ pc = "e_apply" => seen.acked /\ (row[E(leg)] = seen \/ row[E(leg)].status \in Terminal)
    /\ pc = "e_read" => row[E(leg)].status \in Terminal /\ row[E(leg)].status = LastOrder(E(leg)).status

\* A leg whose trade, or whose outcome in this exit, is CLOSED was bought back.
ClosedIsBought ==
    /\ posState = "EXIT_PENDING" => \A l \in Leg : tradeStatus[l] = "CLOSED" => Completed(X(l))
    /\ \A l \in Leg : outcome[l] = "CLOSED" => pc \in ExitStep /\ tradeStatus[l] = "CLOSED"
    /\ pc \in {"x_final", "x_diverge"} => \A l \in Leg : tradeStatus[l] = "CLOSED"

\* What was sold of the leg was bought back, and no order of it is at work.
Even(l) ==
    /\ Completed(E(l)) => Completed(<<"U", l>>) \/ Completed(X(l))
    /\ \A k \in {"E", "U", "X"} : \A i \in DOMAIN book[<<k, l>>] : ~Working(<<k, l>>, i)

AbortIsEven == posState = "CLOSED" /\ trigger = "none" => \A l \in Leg : Even(l)

\* Between hooks a position that has begun is watched, or flagged, or has nothing
\* left to buy.  That one of two records is written takes that one fault at most
\* befalls the hook that writes them.
WatchedOrFlagged ==
    /\ pc = "e_attach" => posState = "OPEN"
    /\ pc = "e_orphan" => faults > 0
    /\ pc = "idle" =>
          /\ posState = "OPEN" => runner = "FROZEN" \/ (monitor /\ runner = "RUNNING")
          /\ posState = "ENTRY_PENDING" => runner = "FROZEN" \/ breaks # {} \/ MaxFaults > 1
          /\ posState = "EXIT_PENDING" =>
                runner = "FROZEN" \/ breaks # {} \/ \A l \in Leg : tradeStatus[l] = "CLOSED"

\* Proved inductive, beside the four above, in module Strategy1ExposureProofs.
SettledInv ==
    /\ WholeOrders /\ StartsSettled /\ DoubtIsResolved /\ LegsOfEntry /\ EntryRowFollows
    /\ ClosedIsBought /\ AbortIsEven /\ WatchedOrFlagged

--------------------------------------------------------------------------------
(* The sixth, of a world in which entry cannot overlook a fill. *)

\* No connection is reset under a call, and a fill is not both partial and pushed.
FillsAreSeen == "reset" \notin Env /\ ~({"partial", "push"} \subseteq Env)

\* Only a broker that fills in part leaves an order with a part of its quantity.
NothingInPart ==
    "partial" \notin Env =>
        \A t \in Tag : \A i \in DOMAIN book[t] :
            book[t][i].status # "COMPLETE" => book[t][i].filled = 0

\* An order that filled in full is COMPLETE: it cannot be killed any more.
FullIsComplete ==
    \A t \in Tag : \A i \in DOMAIN book[t] :
        book[t][i].filled = Qty => book[t][i].status = "COMPLETE"

\* What was refused or never sent is not in the book.
UnsentIsAbsent == pc \in {"e_reject", "e_unsent"} => book[E(leg)] = <<>>

\* A leg is given up last, once no order of it is at work or has filled.
FailedIsOver ==
    \A l \in Leg : outcome[l] = "FAILED" =>
        /\ pc \in ExitStep \cup UnwindStep \cup {"e_break", "e_error"}
        /\ pc \in EntryStep => ~Live(E(l))

\* Proved inductive, beside IndInv and SaleInv, in module Strategy1ExposureProofs.
FillInv ==
    /\ NothingInPart /\ FullIsComplete /\ EntryRowFollows /\ UnsentIsAbsent /\ FailedIsOver

--------------------------------------------------------------------------------
(* Action properties *)

\* The whole system, reconciliation's unvalidated writes included, moves the
\* Position row only along the graph of the state machine.
PSM == INSTANCE PositionStateMachine WITH state <- posState

FollowsStateMachine == PSM!Spec

\* Once an exit has been recorded nothing is sold any more, and once the position
\* is CLOSED or in ERROR between hooks no order of any kind is sent.
NoOrderAfterTheEnd ==
    [][\A t \in Tag :
          Len(book'[t]) > Len(book[t]) =>
              /\ posState \in {"ENTRY_PENDING", "EXIT_PENDING"}
              /\ t[1] = "X" <=> posState = "EXIT_PENDING"]_vars

\* What may become of the row of an order: ended is ended, a fill is never lost
\* or reduced, and the price of a complete order, once known, stays known.
Advances(r, r1) ==
    /\ r.status \in Terminal => r1.status \in Terminal
    /\ r1.filled >= r.filled
    /\ r.status = "COMPLETE" => r1.status = "COMPLETE"
    /\ r.status = "COMPLETE" /\ r.price = "real" => r1.price = "real"

\* Whichever of poll, push and reconciliation writes an orders row, in whatever
\* order, the row of one order only advances.  A new row is a new order; so is a
\* REJECTED row without a broker order id in which reconciliation records the
\* order of a later attempt (get_by_broker_tag, mark_acknowledged).
RowsOnlyAdvance ==
    [][\A t \in Tag : row'[t].copies = row[t].copies /\ row'[t].acked = row[t].acked =>
          Advances(row[t], row'[t])]_vars

--------------------------------------------------------------------------------
(* Liveness *)

\* The threads that call the hooks keep running, a stopped process is started
\* again, and the broker ends every order.  The clock owes nothing: no property
\* below holds only because the cutoff comes.
BrokerSettles ==
    \E t \in Tag : \E i \in DOMAIN book[t] :
        \/ \E k \in 1..Qty : BrokerFills(t, i, k)
        \/ \E s \in {"REJECTED", "CANCELLED"} : BrokerKills(t, i, s)

Fairness == WF_vars(Hooks) /\ WF_vars(BrokerSettles)

FairSpec == Spec /\ Fairness

\* Every hook and every startup ends: no wait for the broker is unbounded.
HooksEnd == []<>(pc = "idle")

\* An OPEN position does not outlive the cutoff, nor a kill switch that stays
\* engaged, with or without prices, unless its instance was frozen.
MustExit == clock = "cutoff" \/ halted

MustExitCloses ==
    posState = "OPEN" /\ MustExit ~> posState # "OPEN" \/ ~MustExit \/ runner = "FROZEN"

\* An exit in progress ends in CLOSED or ERROR, or it is flagged to the operator.
ExitEndsOrIsFlagged ==
    posState = "EXIT_PENDING" ~> posState \in {"CLOSED", "ERROR"} \/ breaks # {}

\* An exit in progress ends in CLOSED or ERROR.
ExitEnds == posState = "EXIT_PENDING" ~> posState \in {"CLOSED", "ERROR"}
================================================================================
