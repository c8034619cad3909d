------------------------- MODULE Strategy1ExposureProofs -------------------------
(***************************************************************************)
(* What is left at the broker: a position that closed is flat, and what is    *)
(* short between hooks is watched or flagged.  ExitInv is inductive beside    *)
(* the three invariants of Strategy1Proofs in every environment; SettledInv   *)
(* where orders have ended before a restart, whole or not at all, and the book *)
(* is the platform's alone (OrdersSettle).                                     *)
(* A complete fill is recognised where FillsAreSeen (FillInv).                   *)
(* With orders of strangers under its tags (Strangers), a duplicate in doubt     *)
(* stops the work, and the state machine is kept.                                *)
(***************************************************************************)
EXTENDS Strategy1Proofs, Strangers

\* The sum over the orders of a tag that has one at most.
LEMMA FilledByOne ==
    ASSUME BrokerOK, NEW t \in Tag, Len(book[t]) <= 1
    PROVE  Filled(t) = IF book[t] = <<>> THEN 0 ELSE book[t][1].filled
<1> DEFINE n == Len(book[t])
           Sum(f) == [k \in 0..n |-> IF k = 0 THEN 0 ELSE f[k - 1] + book[t][k].filled]
           g == [k \in 0..n |-> IF k = 0 THEN 0 ELSE book[t][1].filled]
           upTo == CHOOSE f : f = Sum(f)
<1>1. book[t] \in Seq(Order) BY DEF BrokerOK
<1>2. n \in {0, 1}
  <2>1. \A k \in Nat : k <= 1 => k \in {0, 1} OBVIOUS
  <2>2. n \in Nat BY <1>1
  <2> HIDE DEF n
  <2>3. n <= 1 BY DEF n
  <2> QED BY <2>1, <2>2, <2>3
<1>3. ASSUME n = 1 PROVE book[t][1].filled \in Nat
  <2>1. book[t][1] \in Order BY <1>1, <1>3
  <2> QED BY <2>1, ConstantsAssumption DEF Order
<1>4. g = Sum(g)
  <2>1. CASE n = 0 BY <2>1
  <2>2. CASE n = 1 BY <1>3, <2>2
  <2> QED BY <1>2, <2>1, <2>2
<1>5. upTo = Sum(upTo)
  <2> HIDE DEF g, Sum
  <2> QED BY <1>4
<1>6. Filled(t) = upTo[n] BY DEF Filled
<1>7. CASE n = 0 BY <1>1, <1>5, <1>6, <1>7
<1>8. CASE n = 1
  <2> HIDE DEF upTo
  <2>1. upTo[0] = 0 /\ upTo[1] = upTo[0] + book[t][1].filled BY <1>5, <1>8
  <2>2. book[t] # <<>> BY <1>8
  <2> QED BY <1>3, <1>6, <1>8, <2>1, <2>2
<1> QED BY <1>2, <1>7, <1>8

\* An order that has filled in full stays so.
LEMMA CompletedStays ==
    ASSUME IndInv, NeverPricedZero, Next, NEW t \in Tag, Completed(t)
    PROVE  Completed(t)'
<1>1. PICK i \in DOMAIN book[t] : book[t][i].status = "COMPLETE" BY DEF Completed
<1>2. i \in DOMAIN book'[t] /\ Follows(book'[t][i], book[t][i]) BY OrdersFollow
<1> QED BY <1>1, <1>2 DEF Completed, Follows, Terminal

\* The broker flattens a leg only where it may.
LEMMA NothingSquaredStep ==
    ASSUME IndInv, NothingSquared, Next
    PROVE  NothingSquared'
<1>1. CASE \E l \in Leg : SquaresOff(l) BY <1>1 DEF SquaresOff, NothingSquared
<1>2. CASE ~\E l \in Leg : SquaresOff(l)
  <2>1. squared' = squared
    <3>1. CASE World
      BY <1>2, <3>1 DEF World, BrokerMoves, BrokerFills, BrokerKills, BrokerPrices, brokerMoves,
            process, time_passes, engage_kill_switch, disengage_kill_switch, unfreeze,
            hook_raises, monitor_raises, crash, brokerVars
    <3>2. CASE EntryNext
      BY <3>2 DEF EntryNext, enter, approve_entry, create_durable_record, place_leg_mark,
          place_leg_send, record_leg_rejection, mark_intent_failed, confirm_and_record, poll_entry,
          read_back, reconcile_order_load, reconcile_order_terminal, finalize_open,
          finalize_open_fails, record_orphan_fill, auto_unwind_mark, auto_unwind_send,
          auto_unwind_poll, auto_unwind_record, entry_record_break, entry_fail_to_error,
          keepsPosition, brokerVars
    <3>3. CASE ExitNext
      BY <3>3 DEF ExitNext, prepare_exit, close_leg, find_order_by_tag, adopt_existing_order,
          place_close_mark, place_close_send, record_close_rejection, close_never_sent,
          confirm_close, poll_close, record_close, reconcile_order_load,
          reconcile_order_terminal, finalize_closed, finalize_closed_fails, record_divergence,
          exit_record_break, exit_fail_to_error, keepsPosition, brokerVars
    <3>4. CASE ReconcileNext
      BY <3>4 DEF ReconcileNext, fetch_orders, intents_reconciled, detect_orphans, startup_aborts,
              reconcile_one_position, reconcile_one_intent, brokerVars
    <3>5. CASE start \/ recover_settled \/ recover_exit_pending \/ recover_entry_pending
                \/ attach \/ trigger_exit
      BY <3>5 DEF start, recover_settled, recover_exit_pending, recover_entry_pending, attach,
              trigger_exit, brokerVars
    <3> QED BY <3>1, <3>2, <3>3, <3>4, <3>5 DEF Next, Hooks
  <2> QED BY <2>1 DEF NothingSquared
<1> QED BY <1>1, <1>2

\* What one step makes of an order that was there.
Became(t, o, o1) ==
    \/ o1 = o
    \/ /\ o.status = "OPEN" /\ o1.filled > o.filled
       /\ o1.status = IF o1.filled = Qty THEN "COMPLETE" ELSE "OPEN"
       /\ o1.filled = Qty \/ "partial" \in Env
    \/ /\ o.status = "OPEN" /\ o1.status \in {"REJECTED", "CANCELLED"} /\ o1.filled = o.filled
       /\ t[1] = "U" => "badunwind" \in Env
    \/ o.status = "COMPLETE" /\ o1.status = "COMPLETE" /\ o1.filled = o.filled

\* An order appears as it is accepted, and changes as the broker fills, kills or prices it.
LEMMA OrderMoves ==
    ASSUME IndInv, Next
    PROVE  \A t \in Tag : \A i \in DOMAIN book'[t] :
              IF i \in DOMAIN book[t] THEN Became(t, book[t][i], book'[t][i])
              ELSE book'[t][i].status = "OPEN" /\ book'[t][i].filled = 0
<1> DEFINE Goal == \A t \in Tag : \A i \in DOMAIN book'[t] :
              IF i \in DOMAIN book[t] THEN Became(t, book[t][i], book'[t][i])
              ELSE book'[t][i].status = "OPEN" /\ book'[t][i].filled = 0
<1> SUFFICES Goal OBVIOUS
<1>0. Qty \in Nat \ {0} /\ book \in [Tag -> Seq(Order)] /\ leg \in Leg
  BY ConstantsAssumption DEF ConstantsAssumption, IndInv, TypeOK, BrokerOK, LocalsOK
<1>1. \A t \in Tag : \A i \in DOMAIN book[t] : book[t][i] \in Order BY <1>0
<1>2. ASSUME NEW t \in Tag, NEW i \in DOMAIN book[t], NEW o \in Order,
             book' = [book EXCEPT ![t][i] = o], Became(t, book[t][i], o)
      PROVE  Goal
  <2>1. \A s \in Tag : DOMAIN book'[s] = DOMAIN book[s] BY <1>0, <1>2
  <2>2. \A s \in Tag : \A j \in DOMAIN book[s] :
          book'[s][j] = IF s = t /\ j = i THEN o ELSE book[s][j]
    BY <1>0, <1>2
  <2> QED BY <1>2, <2>1, <2>2 DEF Became
<1>3. ASSUME NEW t \in Tag, Acknowledges(t) \/ Refuses(t) \/ TimesOut(t) \/ NotSent(t)
      PROVE  Goal
  <2> DEFINE o == [status |-> "OPEN", filled |-> 0, price |-> "none"]
  <2>1. book' \in {book, Accepted(t)} BY <1>3 DEF Acknowledges, Refuses, TimesOut, NotSent
  <2>2. CASE book' = book BY <2>2 DEF Became
  <2>3. CASE book' = Accepted(t)
    <3>1. book'[t] = Append(book[t], o) /\ \A s \in Tag : s # t => book'[s] = book[s]
      BY <1>0, <2>3 DEF Accepted
    <3>2. \A i \in DOMAIN Append(book[t], o) :
             IF i \in DOMAIN book[t] THEN Append(book[t], o)[i] = book[t][i]
                                     ELSE Append(book[t], o)[i] = o
      BY <1>0
    <3> QED BY <3>1, <3>2 DEF Became
  <2> QED BY <2>1, <2>2, <2>3
<1>4. ASSUME NEW t \in Tag, NEW i \in DOMAIN book[t], NEW k \in 1..Qty, BrokerFills(t, i, k)
      PROVE  Goal
  <2>1. PICK price \in {"real", "none"} :
          book' = [book EXCEPT ![t][i] = [status |-> IF k = Qty THEN "COMPLETE" ELSE "OPEN",
                                          filled |-> k, price |-> price]]
    BY <1>4 DEF BrokerFills
  <2> DEFINE o == [status |-> IF k = Qty THEN "COMPLETE" ELSE "OPEN", filled |-> k, price |-> price]
  <2>2. o \in Order BY <1>0 DEF Order, OrderStatus, Price
  <2>3. k > book[t][i].filled /\ book[t][i].status = "OPEN" /\ (k = Qty \/ "partial" \in Env)
    BY <1>0, <1>4 DEF BrokerFills, Working
  <2>4. Became(t, book[t][i], o) BY <2>3 DEF Became
  <2> QED BY <1>2, <2>1, <2>2, <2>4
<1>5. ASSUME NEW t \in Tag, NEW i \in DOMAIN book[t], NEW s \in {"REJECTED", "CANCELLED"},
             BrokerKills(t, i, s)
      PROVE  Goal
  <2> DEFINE o == [book[t][i] EXCEPT !.status = s]
  <2>1. book' = [book EXCEPT ![t][i] = o] BY <1>0, <1>5 DEF BrokerKills
  <2>2. book[t][i].status = "OPEN" /\ (t[1] = "U" => "badunwind" \in Env)
    BY <1>5 DEF BrokerKills, Working
  <2>3. o \in Order /\ Became(t, book[t][i], o) BY <1>1, <2>2 DEF Order, OrderStatus, Became
  <2> QED BY <1>2, <2>1, <2>3
<1>6. ASSUME NEW t \in Tag, NEW i \in DOMAIN book[t], BrokerPrices(t, i) PROVE Goal
  <2> DEFINE o == [book[t][i] EXCEPT !.price = "real"]
  <2>1. book' = [book EXCEPT ![t][i] = o] /\ book[t][i].status = "COMPLETE"
    BY <1>0, <1>6 DEF BrokerPrices
  <2>2. o \in Order /\ Became(t, book[t][i], o) BY <1>1, <2>1 DEF Order, Price, Became
  <2> QED BY <1>2, <2>1, <2>2
<1>7. CASE BrokerMoves
  <2>1. CASE \E l \in Leg : SquaresOff(l) BY <2>1 DEF SquaresOff, Became
  <2> QED BY <1>4, <1>5, <1>6, <1>7, <2>1 DEF BrokerMoves
<1>8. CASE place_leg_send \/ auto_unwind_send \/ place_close_send
  BY <1>0, <1>3, <1>8, TagFacts DEF place_leg_send, auto_unwind_send, place_close_send
<1>9. CASE ~(place_leg_send \/ auto_unwind_send \/ place_close_send \/ BrokerMoves)
  BY <1>9, OnlyTheBrokerMoves DEF Became
<1> QED BY <1>7, <1>8, <1>9

\* A full fill ends an order.
LEMMA FullIsEndedStep ==
    ASSUME IndInv, FullIsEnded, Next
    PROVE  FullIsEnded'
<1> SUFFICES ASSUME NEW t \in Tag, NEW i \in DOMAIN book'[t], book'[t][i].filled = Qty
             PROVE  book'[t][i].status # "OPEN"
  BY DEF FullIsEnded, Working
<1>1. Qty # 0 BY ConstantsAssumption DEF ConstantsAssumption
<1>2. i \in DOMAIN book[t] /\ Became(t, book[t][i], book'[t][i]) BY <1>1, OrderMoves
<1>3. book[t][i].filled = Qty => book[t][i].status # "OPEN" BY <1>2 DEF FullIsEnded, Working
<1> QED BY <1>2, <1>3 DEF Became

--------------------------------------------------------------------------------
(* The reason of an exit. *)

\* The reason is recorded with EXIT_PENDING, and a P&L is added when a leg's closing
\* fill is recorded.
LEMMA ReasonWriters ==
    ASSUME IndInv, Next
    PROVE  /\ prepare_exit \/ trigger' = trigger
           /\ record_close \/ pnl' = pnl
<1>1. CASE World
  <2>1. CASE BrokerMoves BY <2>1, BrokerMovesForm DEF IndInv, dbVars, positionVars, tradeVars
  <2> QED BY <1>1, <2>1 DEF World, process, time_passes, engage_kill_switch,
             disengage_kill_switch, unfreeze, hook_raises, monitor_raises, crash,
             dbVars, positionVars, tradeVars
<1>2. CASE EntryNext
  BY <1>2 DEF EntryNext, enter, approve_entry, create_durable_record, place_leg_mark,
      place_leg_send, record_leg_rejection, mark_intent_failed, confirm_and_record, poll_entry,
      read_back, reconcile_order_load, reconcile_order_terminal, finalize_open,
      finalize_open_fails, record_orphan_fill, auto_unwind_mark, auto_unwind_send,
      auto_unwind_poll, auto_unwind_record, entry_record_break, entry_fail_to_error,
      failToError, keepsPosition, dbVars, positionVars, tradeVars
<1>3. CASE ExitNext
  <2>1. CASE prepare_exit BY <2>1 DEF prepare_exit, tradeVars
  <2>2. CASE record_close BY <2>2 DEF record_close, keepsPosition, positionVars
  <2> QED BY <1>3, <2>1, <2>2 DEF ExitNext, close_leg, find_order_by_tag, adopt_existing_order,
          place_close_mark, place_close_send, record_close_rejection, close_never_sent,
          confirm_close, poll_close, reconcile_order_load, reconcile_order_terminal,
          finalize_closed, finalize_closed_fails, record_divergence, exit_record_break,
          exit_fail_to_error, failToError, keepsPosition, dbVars, positionVars, tradeVars
<1>4. CASE ReconcileNext
  BY <1>4 DEF ReconcileNext, fetch_orders, intents_reconciled, detect_orphans, startup_aborts,
              reconcile_one_position, reconcile_one_intent, dbVars, positionVars, tradeVars
<1>5. CASE start \/ recover_settled \/ recover_exit_pending \/ recover_entry_pending
            \/ attach \/ trigger_exit
  BY <1>5 DEF start, recover_settled, recover_exit_pending, recover_entry_pending, attach,
              trigger_exit, dbVars, positionVars, tradeVars
<1> QED BY <1>1, <1>2, <1>3, <1>4, <1>5 DEF Next, Hooks

\* Only the record of an exit takes a position from OPEN to EXIT_PENDING.
LEMMA OnlyExitLeavesOpen ==
    ASSUME IndInv, Next, posState = "OPEN", posState' = "EXIT_PENDING"
    PROVE  prepare_exit
<1>1. ~World
  <2>1. CASE BrokerMoves BY <2>1, BrokerMovesForm DEF IndInv, dbVars, positionVars
  <2> QED BY <2>1 DEF World, process, time_passes, engage_kill_switch, disengage_kill_switch,
             unfreeze, hook_raises, monitor_raises, crash, dbVars, positionVars
<1>2. ~EntryNext
  BY DEF EntryNext, enter, create_durable_record, place_leg_mark,
        place_leg_send, record_leg_rejection, mark_intent_failed, confirm_and_record, poll_entry,
        read_back, reconcile_order_load, reconcile_order_terminal, finalize_open,
        finalize_open_fails, record_orphan_fill, auto_unwind_mark, auto_unwind_send,
        auto_unwind_poll, auto_unwind_record, entry_record_break, entry_fail_to_error,
        failToError, Errored, keepsPosition, dbVars, positionVars
<1>3. ExitNext => prepare_exit
  BY DEF ExitNext, close_leg, find_order_by_tag,
        adopt_existing_order, place_close_mark, place_close_send, record_close_rejection,
        close_never_sent, confirm_close, poll_close, record_close, reconcile_order_load,
        reconcile_order_terminal, finalize_closed, finalize_closed_fails, record_divergence,
        exit_record_break, exit_fail_to_error, failToError, Errored, keepsPosition, dbVars, positionVars
<1>4. ~ReconcileNext
  <2>1. ~\E t \in Tag : reconcile_one_intent(t)
    BY DEF reconcile_one_intent, flag_duplicate_orders, Errored, fail_intent_not_at_broker,
           resolve_intent_against_order, apply_fill
  <2>2. ~reconcile_one_position
    BY DEF reconcile_one_position, reconcile_entry_pending, reconcile_exit_pending,
           reconcile_open, leaveAlone, flag_for_finalization, error_position
  <2> QED
    BY <2>1, <2>2 DEF ReconcileNext, fetch_orders, intents_reconciled, detect_orphans,
        startup_aborts, dbVars, positionVars
<1>5. ~(start \/ recover_settled \/ recover_exit_pending \/ recover_entry_pending
        \/ attach \/ trigger_exit)
  BY DEF start, recover_settled, recover_exit_pending, recover_entry_pending, attach,
         trigger_exit, dbVars, positionVars
<1> QED BY <1>1, <1>2, <1>3, <1>4, <1>5 DEF Next, Hooks

\* How a step comes to be in an exit: from before it, or from within.
LEMMA WhoExits ==
    ASSUME IndInv, Next, pc' \in ExitStep
    PROVE  \/ ExitNext
           \/ recover_exit_pending \/ trigger_exit
           \/ UNCHANGED <<positionVars, tradeVars, intent, started, pc, localVars>>
<1>1. CASE World
  <2>1. CASE BrokerMoves
    BY <2>1, BrokerMovesForm DEF IndInv, dbVars, positionVars, orderVars
  <2>2. CASE hook_raises \/ monitor_raises \/ crash
    BY <2>2 DEF hook_raises, monitor_raises, crash, hookRaises, ExitStep
  <2> QED BY <1>1, <2>1, <2>2 DEF World, process, time_passes, engage_kill_switch,
             disengage_kill_switch, unfreeze, dbVars, orderVars
<1>2. ~EntryNext
  <2>1. ~\E result \in {"FILLED", "FAILED", "AMBIGUOUS"} : legEnds(result)
    BY LegEndsStep DEF IndInv, TypeOK, ExitStep
  <2> QED
    BY <2>1 DEF EntryNext, enter, create_durable_record, place_leg_mark, place_leg_send,
        record_leg_rejection, mark_intent_failed, confirm_and_record, poll_entry, read_back,
        hookRaises, reconcile_order_load, reconcile_order_terminal, finalize_open,
        finalize_open_fails, record_orphan_fill, auto_unwind_mark, auto_unwind_send,
        auto_unwind_poll, auto_unwind_record, entry_record_break, entry_fail_to_error,
        hookReturns, ExitStep
<1>3. ~ReconcileNext
  BY DEF ReconcileNext, fetch_orders, intents_reconciled, detect_orphans, startup_aborts,
         reconcile_one_position, reconcile_one_intent, ExitStep
<1>4. ~(start \/ recover_settled \/ recover_entry_pending \/ attach)
  BY DEF start, recover_settled, recover_entry_pending, attach, hookReturns, ExitStep
<1> QED BY <1>1, <1>2, <1>3, <1>4 DEF Next, Hooks

\* An exit has one reason from beginning to end.
LEMMA ReasonStep ==
    ASSUME IndInv, IndInv', ReasonIsKept, WatchIsOpen, Next
    PROVE  ReasonIsKept'
<1>1. posState' \in {"IDLE", "ENTRY_PENDING", "OPEN"} => trigger' = "none" /\ pnl' = {}
  <2> SUFFICES ASSUME posState' \in {"IDLE", "ENTRY_PENDING", "OPEN"}
               PROVE  trigger' = "none" /\ pnl' = {}
    OBVIOUS
  <2>1. posState \in {"IDLE", "ENTRY_PENDING", "OPEN"} BY PositionMoves DEF Moves
  <2>2. ~record_close BY <2>1 DEF record_close, IndInv, Ledger, PcMatchesState, ExitStep
  <2>3. prepare_exit => trigger' = trigger BY DEF prepare_exit
  <2> QED BY <2>1, <2>2, <2>3, ReasonWriters DEF ReasonIsKept
<1>2. posState' = "EXIT_PENDING" => trigger' # "none"
  <2> SUFFICES ASSUME posState' = "EXIT_PENDING" PROVE trigger' # "none" OBVIOUS
  <2>1. CASE prepare_exit BY <2>1 DEF prepare_exit, ReasonIsKept
  <2>2. CASE ~prepare_exit /\ posState = "EXIT_PENDING"
    BY <2>2, ReasonWriters DEF ReasonIsKept
  <2>3. CASE ~prepare_exit /\ posState = "OPEN"
    BY <2>3, OnlyExitLeavesOpen
  <2>4. posState \in {"OPEN", "EXIT_PENDING"} BY PositionMoves DEF Moves
  <2> QED BY <2>1, <2>2, <2>3, <2>4
<1>3. CASE pc' \notin ExitStep BY <1>1, <1>2, <1>3 DEF ReasonIsKept, ExitStep
<1>4. CASE pc' \in ExitStep
  <2> DEFINE Goal == /\ pc' = "x_prepare" =>
                          /\ posState' \in {"OPEN", "EXIT_PENDING"} /\ reason' # "none"
                          /\ posState' = "EXIT_PENDING" => reason' = trigger'
                     /\ pc' \in ExitStep \ {"x_prepare"} => reason' = trigger'
  <2> SUFFICES Goal BY <1>1, <1>2 DEF ReasonIsKept
  <2>1. CASE UNCHANGED <<positionVars, tradeVars, intent, started, pc, localVars>>
    BY <2>1 DEF positionVars, localVars, ReasonIsKept
  <2>2. CASE recover_exit_pending
    BY <2>2 DEF recover_exit_pending, dbVars, positionVars, ReasonIsKept
  <2>3. CASE trigger_exit
    BY <2>3 DEF trigger_exit, dbVars, positionVars, WatchIsOpen
  <2>4. CASE prepare_exit
    BY <2>4 DEF prepare_exit, ReasonIsKept, hookReturns, ExitStep
  <2>5. CASE ExitNext /\ ~prepare_exit
    <3>1. pc \in ExitStep \ {"x_prepare"} /\ pc' # "x_prepare" /\ reason' = reason
      BY <1>4, <2>5 DEF ExitNext, close_leg, find_order_by_tag, adopt_existing_order,
          place_close_mark, place_close_send, record_close_rejection, close_never_sent,
          confirm_close, poll_close, record_close, reconcile_order_load,
          reconcile_order_terminal, finalize_closed, finalize_closed_fails, record_divergence,
          exit_record_break, exit_fail_to_error, closeEnds, hookReturns, localVars, ExitStep
    <3> QED BY <2>5, <3>1, ReasonWriters DEF ReasonIsKept
  <2> QED BY <1>4, <2>1, <2>2, <2>3, <2>4, <2>5, WhoExits
<1> QED BY <1>3, <1>4

\* Between hooks the monitor of a running instance watches an OPEN position.
LEMMA WatchStep ==
    ASSUME IndInv, WatchIsOpen, Next
    PROVE  WatchIsOpen'
<1> DEFINE Goal == /\ pc' = "idle" /\ monitor' /\ runner' = "RUNNING" => posState' = "OPEN"
                   /\ pc' \in EntryStep => ~monitor'
<1> SUFFICES Goal BY DEF WatchIsOpen
<1>1. CASE World
  <2>1. CASE UNCHANGED <<pc, monitor, runner, posState>> BY <2>1 DEF WatchIsOpen
  <2>2. CASE BrokerMoves
    BY <2>1, <2>2, BrokerMovesForm DEF IndInv, dbVars, positionVars, runnerVars
  <2>3. CASE hook_raises \/ monitor_raises \/ crash
    BY <2>3 DEF hook_raises, monitor_raises, crash, hookRaises, EntryStep
  <2> QED BY <1>1, <2>1, <2>2, <2>3 DEF World, process, time_passes, engage_kill_switch,
             disengage_kill_switch, unfreeze, dbVars, positionVars, runnerVars
<1>2. CASE EntryNext
  <2>1. CASE enter
    BY <2>1 DEF enter, dbVars, positionVars, WatchIsOpen, EntryStep
  <2>2. CASE ~enter
    <3>1. pc \in EntryStep /\ monitor' = monitor
      BY <1>2, <2>2 DEF EntryNext, create_durable_record, place_leg_mark,
          place_leg_send, record_leg_rejection, mark_intent_failed, confirm_and_record, poll_entry,
          read_back, reconcile_order_load, reconcile_order_terminal, finalize_open,
          finalize_open_fails, record_orphan_fill, auto_unwind_mark, auto_unwind_send,
          auto_unwind_poll, auto_unwind_record, entry_record_break, entry_fail_to_error,
          hookReturns, keepsPosition, runnerVars, EntryStep
    <3> QED BY <3>1 DEF WatchIsOpen
  <2> QED BY <2>1, <2>2
<1>3. CASE ExitNext
  <2>1. CASE hookReturns(FALSE) BY <2>1 DEF hookReturns, EntryStep
  <2>2. CASE ~hookReturns(FALSE)
    <3>1. pc' \in ExitStep
      <4>1. CASE \E result \in {"CLOSED", "FAILED", "AMBIGUOUS"} : closeEnds(result)
        BY <4>1, CloseEndsStep DEF ExitStep
      <4>2. CASE ~\E result \in {"CLOSED", "FAILED", "AMBIGUOUS"} : closeEnds(result)
        BY <1>3, <2>2, <4>2 DEF ExitNext, prepare_exit, close_leg, find_order_by_tag,
          adopt_existing_order, place_close_mark, place_close_send, record_close_rejection,
          close_never_sent, confirm_close, poll_close, record_close, reconcile_order_load,
          reconcile_order_terminal, finalize_closed, finalize_closed_fails, record_divergence,
          exit_record_break, exit_fail_to_error, ExitStep
      <4> QED BY <4>1, <4>2
    <3> QED BY <3>1 DEF ExitStep, EntryStep
  <2> QED BY <2>1, <2>2
<1>4. CASE ReconcileNext
  BY <1>4 DEF ReconcileNext, fetch_orders, intents_reconciled, detect_orphans, startup_aborts,
              reconcile_one_position, reconcile_one_intent, EntryStep
<1>5. CASE recover_settled \/ attach
  <2>1. pc' = "idle" /\ posState' = posState /\ monitor' = (posState = "OPEN")
    BY <1>5 DEF recover_settled, attach, hookReturns, dbVars, positionVars
  <2>2. "idle" \notin EntryStep BY DEF EntryStep
  <2> QED BY <2>1, <2>2, Zenon
<1>6. CASE start \/ recover_exit_pending \/ recover_entry_pending \/ trigger_exit
  BY <1>6 DEF start, recover_exit_pending, recover_entry_pending, trigger_exit, hookReturns, EntryStep
<1> QED BY <1>1, <1>2, <1>3, <1>4, <1>5, <1>6 DEF Next, Hooks

--------------------------------------------------------------------------------
(* Legs with a P&L. *)

\* A step that closes a leg goes on with the leg it was closing, or begins one whose
\* trade is not closed; what it polled stays as it was, or is the newest order.
LEMMA WhoCloses ==
    ASSUME IndInv, Next, pc' \in CloseStep
    PROVE  /\ leg' = leg /\ pnl' = pnl
           /\ pc \in CloseStep \/ (pc = "x_leg" /\ tradeStatus[leg] # "CLOSED")
           /\ pc' \in {"x_load", "x_apply", "x_record"} =>
                 \/ pc \in {"x_load", "x_apply", "x_record"} /\ polled' = polled
                 \/ /\ book[X(leg)] # <<>> /\ polled' = LastOrder(X(leg)) /\ book' = book
                    /\ polled'.status = "COMPLETE" => polled'.price = "real"
<1> DEFINE Goal == /\ leg' = leg /\ pnl' = pnl
                   /\ pc \in CloseStep \/ (pc = "x_leg" /\ tradeStatus[leg] # "CLOSED")
                   /\ pc' \in {"x_load", "x_apply", "x_record"} =>
                         \/ pc \in {"x_load", "x_apply", "x_record"} /\ polled' = polled
                         \/ /\ book[X(leg)] # <<>> /\ polled' = LastOrder(X(leg)) /\ book' = book
                            /\ polled'.status = "COMPLETE" => polled'.price = "real"
<1>0. pc' \in ExitStep /\ PolledExists BY DEF CloseStep, IndInv, Ledger
<1>1. CASE UNCHANGED <<positionVars, tradeVars, intent, started, pc, localVars>>
  BY <1>1 DEF tradeVars, localVars
<1>2. CASE ~ExitNext /\ (recover_exit_pending \/ trigger_exit)
  BY <1>2 DEF recover_exit_pending, trigger_exit, CloseStep
<1>3. CASE \E result \in {"CLOSED", "FAILED", "AMBIGUOUS"} : closeEnds(result)
  BY <1>3, CloseEndsStep DEF CloseStep
<1>4. CASE ExitNext /\ ~\E result \in {"CLOSED", "FAILED", "AMBIGUOUS"} : closeEnds(result)
  <2> USE DEF CloseStep, ExitStep
  <2>1. CASE poll_close \/ adopt_existing_order
    <3>1. /\ pc \in {"x_poll", "x_adopt"} /\ leg' = leg /\ pnl' = pnl /\ book' = book
          /\ polled' = LastOrder(X(leg))
          /\ LastOrder(X(leg)).status = "COMPLETE" => LastOrder(X(leg)).price = "real"
      BY <1>4, <2>1 DEF poll_close, adopt_existing_order, tradeVars
    <3> QED BY <1>0, <3>1 DEF PolledExists
  <2>2. CASE reconcile_order_load("x_load", "x_apply") \/ reconcile_order_terminal("x_apply", "x_record")
    BY <2>2 DEF reconcile_order_load, reconcile_order_terminal, dbVars, tradeVars, localVars
  <2>3. CASE close_leg \/ find_order_by_tag \/ place_close_mark \/ place_close_send \/ confirm_close
    BY <1>4, <2>3 DEF close_leg, find_order_by_tag, place_close_mark, place_close_send,
                      confirm_close, tradeVars, localVars
  <2>4. CASE prepare_exit \/ finalize_closed \/ finalize_closed_fails \/ record_divergence
             \/ exit_record_break \/ exit_fail_to_error
    BY <2>4 DEF prepare_exit, finalize_closed, finalize_closed_fails, record_divergence,
                exit_record_break, exit_fail_to_error, hookReturns
  <2>5. CASE record_close_rejection \/ close_never_sent \/ record_close
    BY <1>4, <2>5 DEF record_close_rejection, close_never_sent, record_close
  <2> QED BY <1>4, <2>1, <2>2, <2>3, <2>4, <2>5 DEF ExitNext
<1> QED BY <1>0, <1>1, <1>2, <1>3, <1>4, WhoExits

\* Nothing that happens after a leg got its P&L changes what it was closed at.
LEMMA PricedLegKept ==
    ASSUME IndInv, SaleInv, ReasonIsKept, PricedIsClosed, Next, NEW l \in pnl
    PROVE  tradeStatus'[l] = "CLOSED" /\ exitPrice'[l] = "real" /\ intent'[X(l)] = "CONFIRMED"
<1> DEFINE Goal == tradeStatus'[l] = "CLOSED" /\ exitPrice'[l] = "real" /\ intent'[X(l)] = "CONFIRMED"
<1>0. /\ tradeStatus[l] = "CLOSED" /\ exitPrice[l] = "real" /\ intent[X(l)] = "CONFIRMED"
      /\ posState \notin {"IDLE", "ENTRY_PENDING", "OPEN"}
      /\ U \notin started /\ l \in Leg /\ leg \in Leg
      /\ tradeStatus \in [Leg -> TradeStatus] /\ exitPrice \in [Leg -> Price]
      /\ intent \in [Tag -> IntentStatus] /\ X(l) \in Tag
      /\ pc \in CloseStep => leg # l
  BY TagFacts DEF PricedIsClosed, ReasonIsKept, IndInv, TypeOK, TradesOK, OrdersOK, LocalsOK
<1>1. CASE UNCHANGED <<tradeStatus, exitPrice, intent>> BY <1>0, <1>1
<1>2. CASE World
  <2>1. CASE BrokerMoves BY <1>1, <2>1, BrokerMovesForm DEF IndInv, dbVars, tradeVars, orderVars
  <2> QED BY <1>1, <1>2, <2>1 DEF World, process, time_passes, engage_kill_switch,
             disengage_kill_switch, unfreeze, hook_raises, monitor_raises, crash,
             dbVars, tradeVars, orderVars
<1>3. CASE EntryNext
  <2>1. pc \notin EntryStep \ {"e_attach"} BY <1>0 DEF IndInv, Ledger, PcMatchesState, EntryStep
  <2> QED
    BY <1>1, <1>3, <2>1 DEF EntryStep, EntryNext, enter, create_durable_record, place_leg_mark,
          place_leg_send, record_leg_rejection, mark_intent_failed, confirm_and_record, poll_entry,
          read_back, reconcile_order_load, reconcile_order_terminal, finalize_open,
          finalize_open_fails, record_orphan_fill, auto_unwind_mark, auto_unwind_send,
          auto_unwind_poll, auto_unwind_record, entry_record_break, entry_fail_to_error,
          dbVars, tradeVars, orderVars
<1>4. CASE ExitNext
  <2>1. CASE prepare_exit BY <1>0, <2>1 DEF prepare_exit, tradeVars
  <2>2. CASE place_close_mark \/ record_close_rejection \/ close_never_sent \/ confirm_close
    <3>1. pc \in CloseStep /\ UNCHANGED <<tradeStatus, exitPrice>>
      BY <2>2 DEF place_close_mark, record_close_rejection, close_never_sent, confirm_close,
                  CloseStep, ExitStep, tradeVars
    <3>2. \E v : intent' = [intent EXCEPT ![X(leg)] = v]
      BY <2>2 DEF place_close_mark, record_close_rejection, close_never_sent, confirm_close
    <3> QED BY <1>0, <3>1, <3>2, TagsDiffer
  <2>3. CASE record_close
    <3>1. pc \in CloseStep BY <2>3 DEF record_close, CloseStep, ExitStep
    <3>2. \E v, w, x : /\ intent' = [intent EXCEPT ![X(leg)] = v]
                       /\ tradeStatus' = [tradeStatus EXCEPT ![leg] = w]
                       /\ exitPrice' = [exitPrice EXCEPT ![leg] = x]
      BY <2>3 DEF record_close
    <3> QED BY <1>0, <3>1, <3>2, TagsDiffer
  <2> QED BY <1>1, <1>4, <2>1, <2>2, <2>3 DEF ExitNext, close_leg, find_order_by_tag,
          adopt_existing_order, place_close_send, poll_close, reconcile_order_load,
          reconcile_order_terminal, finalize_closed, finalize_closed_fails, record_divergence,
          exit_record_break, exit_fail_to_error, dbVars, tradeVars, orderVars
<1>5. CASE ReconcileNext
  <2>1. ASSUME NEW t \in Tag, reconcile_one_intent(t) PROVE Goal
    <3>1. intent[t] \in InDoubt
      BY <2>1 DEF reconcile_one_intent, IndInv, Ledger, TodoIsInDoubt
    <3>2. t # X(l) BY <1>0, <3>1 DEF InDoubt
    <3>3. t # <<"U", l>>
      <4>1. intent[<<"U", l>>] = "NONE"
        BY <1>0 DEF SaleInv, NothingBoughtEarly, Leg, U
      <4> QED BY <3>1, <4>1 DEF InDoubt
    <3>4. t[1] # "E" => t[2] # l /\ t[2] \in Leg BY <3>2, <3>3 DEF Tag, X
    <3>5. \E v \in IntentStatus : intent' = [intent EXCEPT ![t] = v]
      <4>1. \/ intent' = intent \/ \E v \in {"CONFIRMED", "FAILED"} : intent' = [intent EXCEPT ![t] = v]
        BY <2>1 DEF reconcile_one_intent, flag_duplicate_orders, fail_intent_not_at_broker,
                    resolve_intent_against_order, apply_fill
      <4>2. CASE intent' = intent
        <5>1. intent' = [intent EXCEPT ![t] = intent[t]] /\ intent[t] \in IntentStatus BY <1>0, <4>2
        <5> QED BY <5>1
      <4> QED BY <4>1, <4>2 DEF IntentStatus
    <3>6. CASE UNCHANGED <<tradeStatus, exitPrice>> BY <1>0, <3>2, <3>5, <3>6
    <3>7. CASE \E bo : apply_fill(t, bo)
      <4>1. CASE t[1] = "E"
        <5>1. /\ tradeStatus' = [tradeStatus EXCEPT ![t[2]] = IF @ = "PENDING" THEN "OPEN" ELSE @]
              /\ exitPrice' = exitPrice
          BY <3>7, <4>1 DEF apply_fill
        <5> QED BY <1>0, <3>2, <3>5, <5>1
      <4>2. CASE t[1] # "E"
        <5>1. \E x, w : /\ exitPrice' = [exitPrice EXCEPT ![t[2]] = x]
                        /\ tradeStatus' = [tradeStatus EXCEPT ![t[2]] = w]
          BY <3>7, <4>2 DEF apply_fill
        <5> QED BY <1>0, <3>2, <3>4, <3>5, <4>2, <5>1
      <4> QED BY <4>1, <4>2
    <3> QED BY <2>1, <3>6, <3>7 DEF reconcile_one_intent, flag_duplicate_orders,
               fail_intent_not_at_broker, resolve_intent_against_order
  <2> QED BY <1>1, <1>5, <2>1 DEF ReconcileNext, fetch_orders, intents_reconciled, detect_orphans,
              startup_aborts, reconcile_one_position, dbVars, tradeVars, orderVars
<1>6. CASE start \/ recover_settled \/ recover_exit_pending \/ recover_entry_pending
            \/ attach \/ trigger_exit
  BY <1>1, <1>6 DEF start, recover_settled, recover_exit_pending, recover_entry_pending, attach,
              trigger_exit, dbVars, tradeVars, orderVars
<1> QED BY <1>2, <1>3, <1>4, <1>5, <1>6 DEF Next, Hooks

\* The unwind is begun while entry is pending.
LEMMA UnwindStarts ==
    ASSUME IndInv, Next, U \notin started, U \in started'
    PROVE  posState = "ENTRY_PENDING"
<1>0. \A l \in Leg : E(l) # U /\ X(l) # U BY TagsDiffer
<1>1. leg \in Leg BY DEF IndInv, TypeOK, LocalsOK
<1>2. auto_unwind_mark
  BY <1>0, <1>1, IntentWriters DEF create_durable_record, prepare_exit, finalize_open, place_leg_mark,
                                   place_close_mark
<1> QED BY <1>2 DEF auto_unwind_mark, IndInv, Ledger, PcMatchesState, EntryStep

\* A leg has a P&L only if it was bought back in full, at a price.
LEMMA PricedStep ==
    ASSUME IndInv, IndInv', SaleInv, NeverPricedZero, ReasonIsKept, PricedIsClosed, Next
    PROVE  PricedIsClosed'
<1>0. /\ leg \in Leg /\ X(leg) \in Tag /\ pnl \subseteq Leg
      /\ tradeStatus \in [Leg -> TradeStatus] /\ exitPrice \in [Leg -> Price]
      /\ intent \in [Tag -> IntentStatus]
      /\ book \in [Tag -> Seq(Order)]
  BY TagFacts DEF IndInv, TypeOK, LocalsOK, TradesOK, OrdersOK, BrokerOK
<1>1. pnl' # {} => U \notin started'
  <2> SUFFICES ASSUME pnl' # {} PROVE U \notin started' OBVIOUS
  <2>1. posState # "ENTRY_PENDING"
    <3>1. CASE record_close BY <3>1 DEF record_close, IndInv, Ledger, PcMatchesState, ExitStep
    <3>2. CASE ~record_close BY <3>2, ReasonWriters DEF ReasonIsKept
    <3> QED BY <3>1, <3>2
  <2>2. U \notin started
    <3>1. CASE record_close
      BY <3>1 DEF record_close, IndInv, Ledger, PcMatchesState, ExitStep, SaleInv, ExitFollowsSale
    <3>2. CASE ~record_close BY <3>2, ReasonWriters DEF PricedIsClosed
    <3> QED BY <3>1, <3>2
  <2> QED BY <2>1, <2>2, UnwindStarts
<1>2. ASSUME NEW l \in pnl'
      PROVE  /\ tradeStatus'[l] = "CLOSED" /\ exitPrice'[l] = "real"
             /\ intent'[X(l)] = "CONFIRMED" /\ Completed(X(l))'
  <2>1. CASE l \in pnl
    <3>1. X(l) \in Tag /\ Completed(X(l)) BY <1>0, <2>1, TagFacts DEF PricedIsClosed
    <3> QED BY <2>1, <3>1, PricedLegKept, CompletedStays
  <2>2. CASE l \notin pnl
    <3>1. record_close BY <1>2, <2>2, ReasonWriters
    <3>2. polled.status = "COMPLETE" /\ l = leg /\ pc = "x_record" /\ book' = book
      BY <1>2, <2>2, <3>1 DEF record_close
    <3>3. /\ tradeStatus' = [tradeStatus EXCEPT ![leg] = "CLOSED"]
          /\ exitPrice' = [exitPrice EXCEPT ![leg] = polled.price]
          /\ intent' = [intent EXCEPT ![X(leg)] = "CONFIRMED"]
      BY <3>1, <3>2 DEF record_close
    <3>4. polled.price = "real" /\ Completed(X(leg)) BY <3>2 DEF PricedIsClosed
    <3> QED BY <1>0, <3>2, <3>3, <3>4 DEF Completed
  <2> QED BY <2>1, <2>2
<1>3. pc' \in CloseStep => leg' \notin pnl'
  <2> SUFFICES ASSUME pc' \in CloseStep PROVE leg' \notin pnl' OBVIOUS
  <2> QED BY WhoCloses DEF PricedIsClosed
<1>4. ASSUME pc' \in {"x_load", "x_apply", "x_record"}, polled'.status = "COMPLETE"
      PROVE  polled'.price = "real" /\ Completed(X(leg))'
  <2>1. pc' \in CloseStep BY <1>4 DEF CloseStep, ExitStep
  <2>2. leg' = leg BY <2>1, WhoCloses
  <2>3. CASE pc \in {"x_load", "x_apply", "x_record"} /\ polled' = polled
    <3>1. polled.price = "real" /\ Completed(X(leg)) BY <1>4, <2>3 DEF PricedIsClosed
    <3>2. Completed(X(leg)) => \E i \in DOMAIN book'[X(leg)] : book'[X(leg)][i].status = "COMPLETE"
      BY <1>0, CompletedStays DEF Completed
    <3> QED BY <2>2, <2>3, <3>1, <3>2 DEF Completed
  <2>4. CASE /\ book[X(leg)] # <<>> /\ polled' = LastOrder(X(leg)) /\ book' = book
             /\ polled'.status = "COMPLETE" => polled'.price = "real"
    <3> DEFINE os == book[X(leg)]
    <3>1. os \in Seq(Order) /\ os # <<>> /\ os[Len(os)].status = "COMPLETE"
      BY <1>0, <1>4, <2>4 DEF LastOrder
    <3> HIDE DEF os
    <3>2. Len(os) \in DOMAIN os BY <3>1
    <3>3. \E i \in DOMAIN os : os[i].status = "COMPLETE" BY <3>1, <3>2
    <3>4. \E i \in DOMAIN book[X(leg)] : book[X(leg)][i].status = "COMPLETE" BY <3>3 DEF os
    <3> QED BY <1>4, <2>2, <2>4, <3>4 DEF Completed
  <2> QED BY <1>4, <2>1, <2>3, <2>4, WhoCloses
<1> QED BY <1>1, <1>2, <1>3, <1>4 DEF PricedIsClosed

\* How a position comes to be CLOSED: _finalize_closed after an exit, and
\* reconciliation after an entry in which no leg is OPEN.
LEMMA WhoClosesPosition ==
    ASSUME IndInv, Next, posState # "CLOSED", posState' = "CLOSED"
    PROVE  \/ finalize_closed
           \/ /\ reconcile_one_position /\ posState = "ENTRY_PENDING"
              /\ \A l \in Leg : tradeStatus[l] # "OPEN"
<1>1. ~World
  <2>1. CASE BrokerMoves BY <2>1, BrokerMovesForm DEF IndInv, dbVars, positionVars
  <2> QED BY <2>1 DEF World, process, time_passes, engage_kill_switch, disengage_kill_switch,
             unfreeze, hook_raises, monitor_raises, crash, dbVars, positionVars
<1>2. ~EntryNext
  BY DEF EntryNext, enter, create_durable_record, place_leg_mark,
        place_leg_send, record_leg_rejection, mark_intent_failed, confirm_and_record, poll_entry,
        read_back, reconcile_order_load, reconcile_order_terminal, finalize_open,
        finalize_open_fails, record_orphan_fill, auto_unwind_mark, auto_unwind_send,
        auto_unwind_poll, auto_unwind_record, entry_record_break, entry_fail_to_error,
        failToError, Errored, keepsPosition, dbVars, positionVars
<1>3. ExitNext => finalize_closed
  BY DEF ExitNext, prepare_exit, close_leg, find_order_by_tag,
        adopt_existing_order, place_close_mark, place_close_send, record_close_rejection,
        close_never_sent, confirm_close, poll_close, record_close, reconcile_order_load,
        reconcile_order_terminal, finalize_closed_fails, record_divergence,
        exit_record_break, exit_fail_to_error, failToError, Errored, keepsPosition, dbVars, positionVars
<1>4. ReconcileNext => reconcile_one_position
  <2>1. ~\E t \in Tag : reconcile_one_intent(t)
    BY DEF reconcile_one_intent, flag_duplicate_orders, Errored, fail_intent_not_at_broker,
           resolve_intent_against_order, apply_fill
  <2> QED
    BY <2>1 DEF ReconcileNext, fetch_orders, intents_reconciled, detect_orphans,
        startup_aborts, dbVars, positionVars
<1>5. reconcile_one_position => posState = "ENTRY_PENDING" /\ \A l \in Leg : tradeStatus[l] # "OPEN"
  <2> SUFFICES ASSUME reconcile_one_position
               PROVE  posState = "ENTRY_PENDING" /\ LegsIn("OPEN") = {}
    BY DEF LegsIn
  <2>1. ~leaveAlone /\ ~flag_for_finalization /\ \A b : ~error_position(b)
    BY DEF leaveAlone, flag_for_finalization, error_position
  <2>2. reconcile_entry_pending /\ posState = "ENTRY_PENDING"
    BY <2>1 DEF reconcile_one_position, reconcile_exit_pending, reconcile_open
  <2> QED BY <2>1, <2>2 DEF reconcile_entry_pending
<1>6. ~(start \/ recover_settled \/ recover_exit_pending \/ recover_entry_pending
        \/ attach \/ trigger_exit)
  BY DEF start, recover_settled, recover_exit_pending, recover_entry_pending, attach,
         trigger_exit, dbVars, positionVars
<1> QED BY <1>1, <1>2, <1>3, <1>4, <1>5, <1>6 DEF Next, Hooks

\* Nobody rewrites the reason of a position that is CLOSED.
LEMMA ClosedKeepsReason ==
    ASSUME IndInv, Next, posState = "CLOSED"
    PROVE  exitReason' = exitReason /\ trigger' = trigger /\ pnl \subseteq pnl'
<1>1. pnl \subseteq pnl' BY ReasonWriters DEF record_close
<1>2. trigger' = trigger BY ReasonWriters DEF prepare_exit
<1>3. CASE World
  <2>1. CASE BrokerMoves BY <1>1, <1>2, <2>1, BrokerMovesForm DEF IndInv, dbVars, positionVars
  <2> QED BY <1>1, <1>2, <1>3, <2>1 DEF World, process, time_passes, engage_kill_switch,
        disengage_kill_switch, unfreeze, hook_raises, monitor_raises, crash, dbVars, positionVars
<1>4. CASE EntryNext
  BY <1>1, <1>2, <1>4 DEF EntryNext, enter, create_durable_record, place_leg_mark,
        place_leg_send, record_leg_rejection, mark_intent_failed, confirm_and_record, poll_entry,
        read_back, reconcile_order_load, reconcile_order_terminal, finalize_open,
        finalize_open_fails, record_orphan_fill, auto_unwind_mark, auto_unwind_send,
        auto_unwind_poll, auto_unwind_record, entry_record_break, entry_fail_to_error,
        failToError, Errored, keepsPosition, dbVars, positionVars
<1>5. CASE ExitNext
  <2>1. ~finalize_closed BY DEF finalize_closed, IndInv, Ledger, PcMatchesState, ExitStep
  <2> QED
    BY <1>1, <1>2, <1>5, <2>1 DEF ExitNext, prepare_exit, close_leg, find_order_by_tag,
        adopt_existing_order, place_close_mark, place_close_send, record_close_rejection,
        close_never_sent, confirm_close, poll_close, record_close, reconcile_order_load,
        reconcile_order_terminal, finalize_closed_fails, record_divergence,
        exit_record_break, exit_fail_to_error, failToError, Errored, keepsPosition, dbVars, positionVars
<1>6. CASE ReconcileNext
  BY <1>1, <1>2, <1>6 DEF ReconcileNext, fetch_orders, intents_reconciled, detect_orphans,
        startup_aborts, reconcile_one_position, reconcile_one_intent, dbVars, positionVars
<1>7. CASE start \/ recover_settled \/ recover_exit_pending \/ recover_entry_pending
            \/ attach \/ trigger_exit
  BY <1>1, <1>2, <1>7 DEF start, recover_settled, recover_exit_pending, recover_entry_pending, attach,
         trigger_exit, dbVars, positionVars
<1> QED BY <1>3, <1>4, <1>5, <1>6, <1>7 DEF Next, Hooks

\* A position that closes after an exit has both legs priced.
LEMMA ClosedStep ==
    ASSUME IndInv, IndInv', SaleInv, SaleInv', ReasonIsKept, PricedIsClosed, ClosedIsPriced, Next
    PROVE  ClosedIsPriced'
<1> SUFFICES ASSUME posState' = "CLOSED", trigger' # "none"
             PROVE  pnl' = Leg /\ exitReason' = trigger' /\ \A l \in Leg : FullyFilled(E(l))'
  BY DEF ClosedIsPriced
<1>0. pnl' \subseteq Leg /\ \A l \in Leg : FullyFilled(E(l)) => FullyFilled(E(l))'
  BY BookStep DEF SaleInv, IndInv, TypeOK, TradesOK
<1>1. CASE posState = "CLOSED"
  BY <1>0, <1>1, ClosedKeepsReason DEF ClosedIsPriced
<1>2. CASE finalize_closed
  <2>1. posState = "EXIT_PENDING" /\ reason = trigger
    BY <1>2 DEF finalize_closed, IndInv, Ledger, PcMatchesState, ExitStep, ReasonIsKept
  <2>2. fullyPriced /\ exitReason' = reason /\ UNCHANGED <<trigger, pnl>>
    BY <1>2 DEF finalize_closed, tradeVars
  <2> QED BY <1>0, <2>1, <2>2 DEF fullyPriced, SaleInv, ExitFollowsSale
<1>3. CASE reconcile_one_position /\ posState = "ENTRY_PENDING"
  BY <1>3 DEF reconcile_one_position, ReasonIsKept
<1> QED BY <1>1, <1>2, <1>3, WhoClosesPosition

\* The invariant is inductive, beside those of the ledger, the sale and the rows.
LEMMA ExitInvStep ==
    IndInv /\ IndInv' /\ SaleInv /\ SaleInv' /\ RowInv /\ ExitInv /\ [Next]_vars => ExitInv'
<1> SUFFICES ASSUME IndInv, IndInv', SaleInv, SaleInv', RowInv, ExitInv, [Next]_vars
             PROVE  ExitInv'
  OBVIOUS
<1>1. CASE Next
  BY <1>1, ReasonStep, WatchStep, PricedStep, ClosedStep, FullIsEndedStep, NothingSquaredStep
     DEF ExitInv, RowInv
<1>2. CASE UNCHANGED vars
  BY <1>2 DEF vars, dbVars, positionVars, tradeVars, orderVars, flagVars, brokerVars, localVars,
              runnerVars, ExitInv, ReasonIsKept, WatchIsOpen, PricedIsClosed, ClosedIsPriced,
              FullIsEnded, Working, NothingSquared, Completed, FullyFilled, LastOrder
<1> QED BY <1>1, <1>2

LEMMA ExitInvHolds == Spec => [](IndInv /\ SaleInv /\ RowInv /\ ExitInv)
<1>1. Init => ExitInv
  BY DEF Init, ExitInv, ReasonIsKept, WatchIsOpen, PricedIsClosed, ClosedIsPriced, FullIsEnded,
         NothingSquared, NoBook, ExitStep, EntryStep, CloseStep
<1> QED BY <1>1, RowInvHolds, IndInvStep, SaleInvStep, ExitInvStep, PTL DEF Spec

\* What was sold in full and bought back in full, by one order each, is flat.
LEMMA BoughtBack ==
    ASSUME IndInv, SaleInv, AtMostOneOrderPerTag, squared = {}, NEW l \in Leg,
           FullIsEnded, FullyFilled(E(l)), Completed(X(l))
    PROVE  FlatAtBroker(l)
<1>0. /\ E(l) \in Tag /\ X(l) \in Tag /\ <<"U", l>> \in Tag
      /\ BrokerOK /\ book \in [Tag -> Seq(Order)]
      /\ Qty \in Nat
      /\ E(l) = <<"E", l>> /\ X(l) = <<"X", l>>
  BY TagFacts, ConstantsAssumption DEF IndInv, TypeOK, BrokerOK, E, X, Tag
<1>1. ASSUME NEW t \in Tag, book[t] # <<>> PROVE DOMAIN book[t] = {1} /\ Len(book[t]) = 1
  <2> DEFINE os == book[t]
  <2>1. os \in Seq(Order) /\ os # <<>> /\ Len(os) <= 1
    BY <1>0, <1>1 DEF AtMostOneOrderPerTag
  <2> HIDE DEF os
  <2>2. Len(os) \in Nat /\ Len(os) # 0 BY <2>1
  <2>3. \A k \in Nat : k # 0 /\ k <= 1 => k = 1 OBVIOUS
  <2>4. Len(os) = 1 BY <2>1, <2>2, <2>3
  <2>5. DOMAIN os = 1..1 BY <2>1, <2>4
  <2>6. 1..1 = {1} OBVIOUS
  <2> QED BY <2>4, <2>5, <2>6 DEF os
<1>2. book[E(l)] # <<>> /\ book[E(l)][1].filled = Qty /\ book[E(l)][1].status # "OPEN"
  BY <1>0, <1>1 DEF FullyFilled, LastOrder, FullIsEnded, Working
<1>3. book[X(l)] # <<>> /\ book[X(l)][1].status = "COMPLETE" /\ book[X(l)][1].filled = Qty
  <2>1. PICK i \in DOMAIN book[X(l)] : book[X(l)][i].status = "COMPLETE" BY DEF Completed
  <2>2. book[X(l)] # <<>> BY <2>1
  <2>3. i = 1 BY <1>0, <1>1, <2>1, <2>2
  <2> QED BY <1>0, <2>1, <2>2, <2>3 DEF SaleInv, CompleteIsFull
<1>4. book[<<"U", l>>] = <<>> BY <1>3 DEF SaleInv, NeverOverClosed
<1>5. /\ Filled(E(l)) = Qty /\ Filled(X(l)) = Qty /\ Filled(<<"U", l>>) = 0
  <2>1. \A t \in Tag : Len(book[t]) <= 1 BY DEF AtMostOneOrderPerTag
  <2> QED BY <1>0, <1>2, <1>3, <1>4, <2>1, FilledByOne
<1>6. Short(l) = 0 BY <1>0, <1>5 DEF Short
<1>7. ASSUME NEW k \in {"E", "U", "X"}, NEW i \in DOMAIN book[<<k, l>>]
      PROVE  ~Working(<<k, l>>, i)
  <2>1. <<k, l>> \in Tag BY DEF Tag
  <2>2. CASE k = "U" BY <1>4, <1>7, <2>2
  <2>3. CASE k # "U"
    <3>1. book[<<k, l>>] # <<>> /\ i = 1 BY <1>0, <1>1, <1>2, <1>3, <1>7, <2>1, <2>3
    <3> QED BY <1>0, <1>2, <1>3, <1>7, <2>3, <3>1 DEF Working
  <2> QED BY <2>2, <2>3
<1> QED BY <1>6, <1>7 DEF FlatAtBroker

\* A position that closed after an exit is flat, priced and says why, unless the broker
\* itself flattens legs or a reset connection hides an order that it accepted.
THEOREM ExitedIsFlat ==
    ASSUME {"reset", "squareoff"} \cap Env = {}
    PROVE  Spec => []ExitedMeansFlat
<1>1. IndInv /\ SaleInv /\ RowInv /\ ExitInv => ExitedMeansFlat
  <2> SUFFICES ASSUME IndInv, SaleInv, ExitInv, posState = "CLOSED", trigger # "none"
               PROVE  /\ \A l \in Leg : FlatAtBroker(l) /\ exitPrice[l] = "real"
                      /\ fullyPriced /\ exitReason = trigger
    BY DEF ExitedMeansFlat
  <2>1. AtMostOneOrderPerTag /\ squared = {}
    BY DEF IndInv, Ledger, SentOnce, ExitInv, NothingSquared
  <2>2. pnl = Leg /\ exitReason = trigger /\ \A l \in Leg : FullyFilled(E(l))
    BY DEF ExitInv, ClosedIsPriced
  <2>3. \A l \in Leg : exitPrice[l] = "real" /\ Completed(X(l)) BY <2>2 DEF ExitInv, PricedIsClosed
  <2>4. \A l \in Leg : FlatAtBroker(l) BY <2>1, <2>2, <2>3, BoughtBack DEF ExitInv
  <2> QED BY <2>2, <2>3, <2>4 DEF fullyPriced
<1> QED BY <1>1, ExitInvHolds, PTL

--------------------------------------------------------------------------------
(* Where orders have ended before a restart. *)

\* What such a world excludes.
LEMMA SettledEnv ==
    ASSUME OrdersSettle
    PROVE  {"slow", "partial", "squareoff", "badunwind", "reset"} \cap Env = {}
BY DEF OrdersSettle

\* There a fill cannot be overlooked.
LEMMA SettledIsSeen ==
    ASSUME OrdersSettle
    PROVE  FillsAreSeen /\ (WholeOrders => NothingInPart)
BY DEF OrdersSettle, FillsAreSeen, WholeOrders, NothingInPart

\* The world leaves the hooks alone, or ends the one that runs.
LEMMA WorldSteps ==
    ASSUME TypeOK, World
    PROVE  /\ UNCHANGED <<positionVars, tradeVars, intent, started, breaks>>
           /\ faults' >= faults
           /\ row' = row \/ \E t \in Tag : process(t)
           /\ \/ UNCHANGED <<pc, localVars, runnerVars>>
              \/ /\ pc' \in {"idle", "down"} /\ dropLocals /\ book' = book
                 /\ pc' = "idle" => runner' = "FROZEN"
<1>0. faults \in Int BY DEF TypeOK, WorldOK
<1>1. CASE BrokerMoves
  BY <1>0, <1>1, BrokerMovesForm DEF dbVars, orderVars, flagVars, worldVars
<1>2. CASE \E t \in Tag : process(t)
  <2>1. UNCHANGED <<positionVars, tradeVars, intent, started, breaks, faults, pc, localVars, runnerVars>>
    BY <1>2 DEF process, flagVars, worldVars
  <2> QED BY <1>0, <1>2, <2>1
<1>3. CASE time_passes \/ engage_kill_switch \/ disengage_kill_switch \/ unfreeze
  BY <1>0, <1>3 DEF time_passes, engage_kill_switch, disengage_kill_switch, unfreeze, dbVars,
     orderVars, flagVars, worldVars
<1>4. CASE hook_raises \/ monitor_raises
  BY <1>0, <1>4 DEF hook_raises, monitor_raises, hookRaises, orderVars, brokerVars
<1>5. CASE crash BY <1>0, <1>5 DEF crash, dbVars, orderVars, flagVars, brokerVars
<1> QED BY <1>1, <1>2, <1>3, <1>4, <1>5 DEF World

\* So it does in every state of the inductive invariant.
LEMMA WorldForm ==
    ASSUME IndInv, World
    PROVE  /\ UNCHANGED <<positionVars, tradeVars, intent, started, breaks>>
           /\ faults' >= faults
           /\ row' = row \/ \E t \in Tag : process(t)
           /\ \/ UNCHANGED <<pc, localVars, runnerVars>>
              \/ /\ pc' \in {"idle", "down"} /\ dropLocals /\ book' = book
                 /\ pc' = "idle" => runner' = "FROZEN"
BY WorldSteps DEF IndInv

\* No order is filled in part, and an unwind is not turned down.
LEMMA WholeStep ==
    ASSUME OrdersSettle, IndInv, WholeOrders, Next
    PROVE  WholeOrders'
<1> SUFFICES ASSUME NEW t \in Tag, NEW i \in DOMAIN book'[t], book'[t][i].status # "COMPLETE"
             PROVE  book'[t][i].filled = 0 /\ (t[1] = "U" => book'[t][i].status = "OPEN")
  BY DEF WholeOrders, Working
<1>1. CASE i \in DOMAIN book[t]
  <2>1. Became(t, book[t][i], book'[t][i]) BY <1>1, OrderMoves
  <2>2. book[t][i].status # "COMPLETE" =>
          book[t][i].filled = 0 /\ (t[1] = "U" => book[t][i].status = "OPEN")
    BY <1>1 DEF WholeOrders, Working
  <2> QED BY <2>1, <2>2, SettledEnv DEF Became
<1>2. CASE i \notin DOMAIN book[t] BY <1>2, OrderMoves
<1> QED BY <1>1, <1>2

\* A hook neither begins startup nor ends the process.
LEMMA HooksStayUp ==
    ASSUME TypeOK,
           \/ EntryNext \/ ExitNext \/ recover_settled \/ recover_exit_pending
           \/ recover_entry_pending \/ attach \/ trigger_exit
    PROVE  pc' \notin StartStep \cup {"down"}
<1>1. CASE EntryNext
  <2>1. CASE \E result \in {"FILLED", "FAILED", "AMBIGUOUS"} : legEnds(result)
    BY <2>1, LegEndsWhere DEF TypeOK, StartStep
  <2>2. CASE ~\E result \in {"FILLED", "FAILED", "AMBIGUOUS"} : legEnds(result)
    BY <1>1, <2>2 DEF EntryNext, enter, create_durable_record, place_leg_mark, place_leg_send,
        record_leg_rejection, mark_intent_failed, confirm_and_record, read_back, hookRaises,
        poll_entry, reconcile_order_load, reconcile_order_terminal, finalize_open,
        finalize_open_fails, record_orphan_fill, auto_unwind_mark, auto_unwind_send,
        auto_unwind_poll, auto_unwind_record, entry_record_break, entry_fail_to_error, hookReturns,
        StartStep
  <2> QED BY <2>1, <2>2
<1>2. CASE ExitNext
  <2>1. CASE place_close_send /\ pc' = pc BY <2>1 DEF place_close_send, StartStep
  <2>2. CASE \E result \in {"CLOSED", "FAILED", "AMBIGUOUS"} : closeEnds(result)
    BY <2>2, CloseEndsStep DEF StartStep
  <2>3. CASE /\ ~(place_close_send /\ pc' = pc)
             /\ ~\E result \in {"CLOSED", "FAILED", "AMBIGUOUS"} : closeEnds(result)
    BY <1>2, <2>3 DEF ExitNext, prepare_exit, close_leg, find_order_by_tag, adopt_existing_order,
          place_close_mark, place_close_send, record_close_rejection, close_never_sent,
          confirm_close, poll_close, record_close, reconcile_order_load,
          reconcile_order_terminal, finalize_closed, finalize_closed_fails, record_divergence,
          exit_record_break, exit_fail_to_error, hookReturns, StartStep
  <2> QED BY <2>1, <2>2, <2>3
<1>3. CASE recover_settled \/ recover_exit_pending \/ recover_entry_pending \/ attach \/ trigger_exit
  BY <1>3 DEF recover_settled, recover_exit_pending, recover_entry_pending, attach,
              trigger_exit, hookReturns, StartStep
<1> QED BY <1>1, <1>2, <1>3

\* Startup begins with start() and goes on with its own steps.
LEMMA WhoStarts ==
    ASSUME IndInv, Next, pc' \in StartStep
    PROVE  start \/ pc \in StartStep
<1>1. CASE World
  <2>1. pc' = pc BY <1>1, WorldForm DEF StartStep
  <2> QED BY <2>1
<1>2. CASE ReconcileNext
  BY <1>2 DEF ReconcileNext, fetch_orders, intents_reconciled, detect_orphans, startup_aborts,
              reconcile_one_position, reconcile_one_intent, StartStep
<1> QED BY <1>1, <1>2, HooksStayUp DEF IndInv, Next, Hooks

\* An order that has ended keeps its status, and only a step that sends adds one.
LEMMA EndedStays ==
    ASSUME IndInv, Next, pc \notin {"e_send", "u_send", "x_send"}, NEW t \in Tag
    PROVE  /\ DOMAIN book'[t] = DOMAIN book[t] /\ Len(book'[t]) = Len(book[t])
           /\ \A i \in DOMAIN book[t] :
                 book[t][i].status # "OPEN" => book'[t][i].status = book[t][i].status
<1>1. DOMAIN book'[t] = DOMAIN book[t] /\ Len(book'[t]) = Len(book[t])
  <2>1. CASE BrokerMoves
    <3>1. book[t] \in Seq(Order) /\ book'[t] \in Seq(Order) /\ Len(book'[t]) = Len(book[t])
      BY <2>1, BrokerMovesShape, BrokerMovesType DEF IndInv, TypeOK, BrokerOK
    <3> QED BY <3>1
  <2>2. CASE ~BrokerMoves
    <3>1. book' = book
      BY <2>2, OnlyTheBrokerMoves DEF place_leg_send, auto_unwind_send, place_close_send
    <3> QED BY <3>1
  <2> QED BY <2>1, <2>2
<1>2. \A i \in DOMAIN book[t] : Became(t, book[t][i], book'[t][i]) BY <1>1, OrderMoves
<1> QED BY <1>1, <1>2 DEF Became

\* From start() on, nothing is at work at the broker.
LEMMA StartsStep ==
    ASSUME OrdersSettle, IndInv, StartsSettled, Next
    PROVE  StartsSettled'
<1>1. ASSUME pc' \in StartStep PROVE BrokerIdle /\ BrokerIdle' /\ pc \notin {"e_send", "u_send", "x_send"}
  <2>1. start \/ pc \in StartStep BY <1>1, WhoStarts
  <2>2. BrokerIdle /\ pc \notin {"e_send", "u_send", "x_send"}
    BY <2>1, SettledEnv DEF start, StartsSettled, StartStep
  <2>3. BrokerIdle' BY <2>2, EndedStays DEF BrokerIdle
  <2> QED BY <2>2, <2>3
<1>2. ASSUME pc' = "r_intents", NEW t \in Tag
      PROVE  /\ Len(view'[t]) = Len(book'[t])
             /\ \A i \in DOMAIN book'[t] : view'[t][i].status = book'[t][i].status
  <2>1. BrokerIdle /\ pc \notin {"e_send", "u_send", "x_send"} BY <1>1, <1>2 DEF StartStep
  <2>2. CASE fetch_orders BY <1>2, <2>2 DEF fetch_orders, brokerVars
  <2>3. CASE ~fetch_orders
    <3>1. pc = "r_intents" /\ view' = view
      BY <1>2, <2>3, WhoReconciles DEF reconcile_one_intent
    <3>2. /\ DOMAIN book'[t] = DOMAIN book[t] /\ Len(book'[t]) = Len(book[t])
          /\ \A i \in DOMAIN book[t] : book'[t][i].status = book[t][i].status
      BY <2>1, EndedStays DEF BrokerIdle
    <3> QED BY <3>1, <3>2 DEF StartsSettled
  <2> QED BY <2>2, <2>3
<1> QED BY <1>1, <1>2 DEF StartsSettled

\* Which hook a step belongs to tells where it is taken.
LEMMA HookPlaces ==
    /\ EntryNext => enter \/ pc \in EntryStep
    /\ ExitNext => pc \in ExitStep
    /\ ReconcileNext => pc \in {"r_fetch", "r_intents", "r_orphans", "r_position"}
<1>1. EntryNext => enter \/ pc \in EntryStep
  BY DEF EntryNext, create_durable_record, place_leg_mark, place_leg_send,
        record_leg_rejection, mark_intent_failed, confirm_and_record, read_back,
        poll_entry, reconcile_order_load, reconcile_order_terminal, finalize_open,
        finalize_open_fails, record_orphan_fill, auto_unwind_mark, auto_unwind_send,
        auto_unwind_poll, auto_unwind_record, entry_record_break, entry_fail_to_error, EntryStep
<1>2. ExitNext => pc \in ExitStep
  BY DEF ExitNext, prepare_exit, close_leg, find_order_by_tag, adopt_existing_order,
          place_close_mark, place_close_send, record_close_rejection, close_never_sent,
          confirm_close, poll_close, record_close, reconcile_order_load,
          reconcile_order_terminal, finalize_closed, finalize_closed_fails, record_divergence,
          exit_record_break, exit_fail_to_error, ExitStep
<1>3. ReconcileNext => pc \in {"r_fetch", "r_intents", "r_orphans", "r_position"}
  BY DEF ReconcileNext, fetch_orders, intents_reconciled, detect_orphans, startup_aborts,
              reconcile_one_position, reconcile_one_intent
<1> QED BY <1>1, <1>2, <1>3

\* One intent is resolved, and by what became of its order.
LEMMA Resolves ==
    ASSUME OrdersSettle, IndInv, RowInv, WholeOrders, StartsSettled,
           NEW t \in Tag, reconcile_one_intent(t)
    PROVE  /\ UNCHANGED <<posState, book, pc, started, outcome, polled, leg>>
           /\ t \in todo /\ todo' = todo \ {t}
           /\ \/ /\ intent' = [intent EXCEPT ![t] = "FAILED"]
                 /\ ~Live(t) /\ tradeStatus' = tradeStatus
              \/ /\ intent' = [intent EXCEPT ![t] = "CONFIRMED"]
                 /\ Completed(t)
                 /\ tradeStatus' = [tradeStatus EXCEPT ![t[2]] =
                        IF t[1] = "E" THEN (IF @ = "PENDING" THEN "OPEN" ELSE @)
                                      ELSE (IF @ = "OPEN" THEN "CLOSED" ELSE @)]
<1>0. /\ pc = "r_intents" /\ t \in todo /\ todo' = todo \ {t}
      /\ UNCHANGED <<book, pc, started, outcome, polled, leg>>
  BY DEF reconcile_one_intent, brokerVars
<1>1. /\ book[t] \in Seq(Order) /\ view[t] \in Seq(Order) /\ Len(book[t]) <= 1
      /\ Len(view[t]) = Len(book[t])
      /\ \A i \in DOMAIN book[t] : view[t][i].status = book[t][i].status /\ book[t][i].status # "OPEN"
  BY <1>0, SettledEnv DEF IndInv, TypeOK, BrokerOK, LocalsOK, Ledger, SentOnce, AtMostOneOrderPerTag,
     StartsSettled, BrokerIdle, StartStep
<1>2. CASE view[t] = <<>>
  <2>1. fail_intent_not_at_broker(t) BY <1>2 DEF reconcile_one_intent
  <2>2. Len(book[t]) = 0 BY <1>1, <1>2
  <2>3. book[t] = <<>> BY <1>1, <2>2
  <2> QED BY <1>0, <2>1, <2>3 DEF fail_intent_not_at_broker, Live
<1>3. CASE view[t] # <<>>
  <2> DEFINE n == Len(view[t])
  <2>1. n \in Nat /\ n # 0 /\ n <= 1 BY <1>1, <1>3
  <2>2. \A k \in Nat : k # 0 /\ k <= 1 => k = 1 OBVIOUS
  <2> HIDE DEF n
  <2>3. Len(view[t]) = 1 BY <2>1, <2>2 DEF n
  <2>4. DOMAIN book[t] = 1..1
    <3>1. Len(book[t]) = 1 BY <1>1, <2>3
    <3>2. book[t] \in Seq(Order) BY <1>1
    <3> QED BY <3>1, <3>2
  <2>5. 1..1 = {1} OBVIOUS
  <2>6. DOMAIN book[t] = {1} BY <2>4, <2>5
  <2> DEFINE bo == view[t][1]
  <2>7. bo.status = book[t][1].status /\ bo.status # "OPEN" BY <1>1, <2>6
  <2>8. bo.filled = 0 \/ bo.status = "COMPLETE"
    <3>1. \E i \in DOMAIN book[t] : Follows(book[t][i], bo)
      BY <1>0, <2>3 DEF RowInv, ViewIsTrue
    <3>2. bo.status \in Terminal => book[t][1].filled = bo.filled BY <2>6, <3>1 DEF Follows
    <3>3. bo \in Order BY <1>1, <2>3
    <3>4. book[t][1].status # "COMPLETE" => book[t][1].filled = 0 BY <2>6 DEF WholeOrders
    <3> QED BY <2>7, <3>2, <3>3, <3>4 DEF Order, OrderStatus, Terminal
  <2>9. resolve_intent_against_order(t, bo) BY <1>3, <2>3 DEF reconcile_one_intent
  <2>10. CASE apply_fill(t, bo) /\ bo.status = "COMPLETE"
    <3>1. Completed(t) BY <2>6, <2>7, <2>10 DEF Completed
    <3>2. posState' = posState /\ intent' = [intent EXCEPT ![t] = "CONFIRMED"]
      BY <2>10 DEF apply_fill
    <3>3. tradeStatus' = [tradeStatus EXCEPT ![t[2]] =
                        IF t[1] = "E" THEN (IF @ = "PENDING" THEN "OPEN" ELSE @)
                                      ELSE (IF @ = "OPEN" THEN "CLOSED" ELSE @)]
      BY <2>10 DEF apply_fill
    <3> QED BY <1>0, <3>1, <3>2, <3>3
  <2>11. CASE bo.status \in {"REJECTED", "CANCELLED"} /\ intent' = [intent EXCEPT ![t] = "FAILED"]
              /\ UNCHANGED <<posState, tradeStatus>>
    BY <1>0, <2>6, <2>7, <2>11 DEF Live
  <2> HIDE DEF bo
  <2>12. bo.filled > 0 => bo.filled # 0 OBVIOUS
  <2> QED BY <2>7, <2>8, <2>9, <2>10, <2>11, <2>12 DEF resolve_intent_against_order
<1> QED BY <1>2, <1>3

\* While reconciliation goes through the intents, nobody else writes one.
LEMMA OnlyReconcileResolves ==
    ASSUME IndInv, Next, pc \in {"r_intents", "r_orphans", "r_position"}
    PROVE  intent' = intent \/ \E t \in Tag : reconcile_one_intent(t)
<1>1. CASE World BY <1>1, WorldForm
<1>2. CASE ReconcileNext
  <2>1. CASE \E t \in Tag : reconcile_one_intent(t) BY <2>1
  <2>2. CASE ~\E t \in Tag : reconcile_one_intent(t)
    BY <1>2, <2>2 DEF ReconcileNext, fetch_orders, intents_reconciled, detect_orphans,
          startup_aborts, reconcile_one_position, dbVars, orderVars
  <2> QED BY <2>1, <2>2
<1>3. ~EntryNext /\ ~ExitNext BY HookPlaces DEF enter, EntryStep, ExitStep
<1>4. CASE start \/ recover_settled \/ recover_exit_pending \/ recover_entry_pending
           \/ attach \/ trigger_exit
  BY <1>4 DEF start, recover_settled, recover_exit_pending, recover_entry_pending, attach,
              trigger_exit, dbVars, orderVars
<1> QED BY <1>1, <1>2, <1>3, <1>4 DEF Next, Hooks

\* Reconciliation leaves no intent in doubt.
LEMMA DoubtStep ==
    ASSUME OrdersSettle, IndInv, IndInv', RowInv, WholeOrders, StartsSettled, DoubtIsResolved, Next
    PROVE  DoubtIsResolved'
<1>0. intent \in [Tag -> IntentStatus] /\ todo \subseteq Tag BY DEF IndInv, TypeOK, OrdersOK, LocalsOK
<1>1. ASSUME pc' = "r_intents", NEW s \in Tag, intent'[s] \in InDoubt PROVE s \in todo'
  <2>1. CASE fetch_orders BY <1>1, <2>1 DEF fetch_orders, dbVars, orderVars
  <2>2. ASSUME NEW t \in Tag, reconcile_one_intent(t) PROVE s \in todo'
    <3>1. todo' = todo \ {t} /\ \E v \in {"FAILED", "CONFIRMED"} : intent' = [intent EXCEPT ![t] = v]
      BY <2>2, Resolves
    <3>2. s # t /\ intent[s] \in InDoubt BY <1>0, <1>1, <3>1 DEF InDoubt
    <3>3. pc = "r_intents" BY <2>2 DEF reconcile_one_intent
    <3> QED BY <3>1, <3>2, <3>3 DEF DoubtIsResolved
  <2>3. CASE ~fetch_orders /\ ~\E t \in Tag : reconcile_one_intent(t)
    <3>1. pc = "r_intents" /\ todo' = todo BY <1>1, <2>3, WhoReconciles
    <3>2. intent' = intent BY <2>3, <3>1, OnlyReconcileResolves
    <3> QED BY <1>1, <3>1, <3>2 DEF DoubtIsResolved
  <2> QED BY <2>1, <2>2, <2>3
<1>2. ASSUME pc' \in {"r_orphans", "r_position"}, NEW s \in Tag PROVE intent'[s] \notin InDoubt
  <2>1. pc \in {"r_intents", "r_orphans", "r_position"} /\ (pc = "r_intents" => todo = {})
    <3>1. start \/ pc \in StartStep BY <1>2, WhoStarts DEF StartStep
    <3>2. ~start BY <1>2 DEF start
    <3>3. CASE World
      <4>1. pc' = pc BY <1>2, <3>3, WorldForm
      <4> QED BY <1>2, <4>1
    <3>4. CASE ReconcileNext
      BY <1>2, <3>4 DEF ReconcileNext, fetch_orders, intents_reconciled, detect_orphans,
          startup_aborts, reconcile_one_position, reconcile_one_intent
    <3>5. ~EntryNext /\ ~ExitNext BY <3>1, <3>2, HookPlaces DEF enter, EntryStep, ExitStep, StartStep
    <3>6. ~(recover_settled \/ recover_exit_pending \/ recover_entry_pending \/ attach \/ trigger_exit)
      BY <1>2 DEF recover_settled, recover_exit_pending, recover_entry_pending, attach,
         trigger_exit, hookReturns
    <3> QED BY <3>2, <3>3, <3>4, <3>5, <3>6 DEF Next, Hooks
  <2>2. ~\E t \in Tag : reconcile_one_intent(t)
    BY <1>2 DEF reconcile_one_intent
  <2>3. intent' = intent BY <2>1, <2>2, OnlyReconcileResolves
  <2> QED BY <2>1, <2>3 DEF DoubtIsResolved
<1> QED BY <1>1, <1>2 DEF DoubtIsResolved

\* Who writes the status of a trade.
LEMMA TradeWriters ==
    ASSUME IndInv, Next
    PROVE  \/ tradeStatus' = tradeStatus
           \/ create_durable_record \/ finalize_open \/ auto_unwind_record \/ record_close
           \/ \E t \in Tag : reconcile_one_intent(t)
<1>1. CASE World BY <1>1, WorldForm DEF tradeVars
<1>2. CASE EntryNext
  BY <1>2 DEF EntryNext, enter, place_leg_mark, place_leg_send, record_leg_rejection,
      mark_intent_failed, confirm_and_record, poll_entry, read_back, reconcile_order_load,
      reconcile_order_terminal, finalize_open_fails, record_orphan_fill, auto_unwind_mark,
      auto_unwind_send, auto_unwind_poll, entry_record_break, entry_fail_to_error, dbVars, tradeVars
<1>3. CASE ExitNext
  BY <1>3 DEF ExitNext, prepare_exit, close_leg, find_order_by_tag, adopt_existing_order,
      place_close_mark, place_close_send, record_close_rejection, close_never_sent, confirm_close,
      poll_close, reconcile_order_load, reconcile_order_terminal, finalize_closed,
      finalize_closed_fails, record_divergence, exit_record_break, exit_fail_to_error,
      dbVars, tradeVars
<1>4. CASE ReconcileNext
  <2>1. CASE ~\E t \in Tag : reconcile_one_intent(t)
    BY <1>4, <2>1 DEF ReconcileNext, fetch_orders, intents_reconciled, detect_orphans,
        startup_aborts, reconcile_one_position, dbVars, tradeVars
  <2> QED BY <2>1
<1>5. CASE start \/ recover_settled \/ recover_exit_pending \/ recover_entry_pending
            \/ attach \/ trigger_exit
  BY <1>5 DEF start, recover_settled, recover_exit_pending, recover_entry_pending, attach,
          trigger_exit, dbVars, tradeVars
<1> QED BY <1>1, <1>2, <1>3, <1>4, <1>5 DEF Next, Hooks

\* An entry begins with its durable record.
LEMMA OnlyCreateBegins ==
    ASSUME IndInv, Next, posState # "ENTRY_PENDING", posState' = "ENTRY_PENDING"
    PROVE  create_durable_record
<1>1. posState = "IDLE" BY PositionMoves DEF Moves
<1>2. ~World BY WorldForm DEF positionVars
<1>3. EntryNext => create_durable_record
  BY DEF EntryNext, enter, place_leg_mark,
        place_leg_send, record_leg_rejection, mark_intent_failed, confirm_and_record, poll_entry,
        read_back, reconcile_order_load, reconcile_order_terminal, finalize_open,
        finalize_open_fails, record_orphan_fill, auto_unwind_mark, auto_unwind_send,
        auto_unwind_poll, auto_unwind_record, entry_record_break, entry_fail_to_error,
        failToError, Errored, keepsPosition, dbVars, positionVars
<1>4. ~ExitNext
  BY <1>1 DEF ExitNext, prepare_exit, close_leg, find_order_by_tag,
        adopt_existing_order, place_close_mark, place_close_send, record_close_rejection,
        close_never_sent, confirm_close, poll_close, record_close, reconcile_order_load,
        reconcile_order_terminal, finalize_closed, finalize_closed_fails, record_divergence,
        exit_record_break, exit_fail_to_error, failToError, Errored, keepsPosition, dbVars, positionVars
<1>5. ~ReconcileNext
  <2>1. ~\E t \in Tag : reconcile_one_intent(t)
    BY DEF reconcile_one_intent, flag_duplicate_orders, Errored, fail_intent_not_at_broker,
           resolve_intent_against_order, apply_fill
  <2>2. ~reconcile_one_position
    BY <1>1 DEF reconcile_one_position, leaveAlone
  <2> QED
    BY <2>1, <2>2 DEF ReconcileNext, fetch_orders, intents_reconciled, detect_orphans,
        startup_aborts, dbVars, positionVars
<1>6. ~(start \/ recover_settled \/ recover_exit_pending \/ recover_entry_pending
        \/ attach \/ trigger_exit)
  BY DEF start, recover_settled, recover_exit_pending, recover_entry_pending, attach,
         trigger_exit, dbVars, positionVars
<1> QED BY <1>2, <1>3, <1>4, <1>5, <1>6 DEF Next, Hooks

\* The intent of a leg leaves doubt by an answer or by reconciliation.
LEMMA LeavesDoubt ==
    ASSUME IndInv, Next, NEW l \in Leg, intent[E(l)] \in InDoubt, intent'[E(l)] \notin InDoubt
    PROVE  \/ finalize_open
           \/ leg = l /\ (record_leg_rejection \/ mark_intent_failed)
           \/ leg = l /\ read_back /\ row[E(l)].status # "COMPLETE"
           \/ reconcile_one_intent(E(l))
<1>0. /\ intent \in [Tag -> IntentStatus] /\ leg \in Leg /\ E(l) \in Tag
      /\ \A t \in Tag : t = E(l) => t[1] = "E" /\ t # U
      /\ \A m \in Leg : X(m) # E(l) /\ (E(m) = E(l) => m = l)
      /\ \A m \in Leg : E(m) \in Tag /\ X(m) \in Tag
      /\ E(l)[1] = "E" /\ U # E(l) /\ U \in Tag
  BY TagFacts, TagsDiffer DEF IndInv, TypeOK, OrdersOK, LocalsOK
<1>1. intent'[E(l)] # intent[E(l)] OBVIOUS
<1>2. ~World BY <1>1, WorldForm
<1>3. CASE EntryNext
  <2>1. ~create_durable_record BY <1>0 DEF create_durable_record, InDoubt
  <2>2. ~place_leg_mark /\ ~confirm_and_record
    <3>1. ~place_leg_mark BY <1>0 DEF place_leg_mark, InDoubt
    <3>2. ~confirm_and_record BY <1>0 DEF confirm_and_record, InDoubt
    <3> QED BY <3>1, <3>2
  <2>3. ~auto_unwind_mark /\ ~auto_unwind_record
    BY <1>0, <1>1 DEF auto_unwind_mark, auto_unwind_record
  <2>4. record_leg_rejection \/ mark_intent_failed \/ read_back => E(leg) = E(l)
    <3>1. record_leg_rejection \/ mark_intent_failed =>
            intent' = [intent EXCEPT ![E(leg)] = "FAILED"]
      BY DEF record_leg_rejection, mark_intent_failed
    <3>2. read_back => intent' = intent \/ intent' = [intent EXCEPT ![E(leg)] = "FAILED"]
      BY DEF read_back, orderVars
    <3> QED BY <1>0, <1>1, <3>1, <3>2
  <2>5. read_back => row[E(leg)].status # "COMPLETE"
    BY <1>1 DEF read_back, orderVars
  <2>6. finalize_open \/ record_leg_rejection \/ mark_intent_failed \/ read_back
    BY <1>1, <1>3, <2>1, <2>2, <2>3 DEF EntryNext, enter, place_leg_send, poll_entry,
        reconcile_order_load, reconcile_order_terminal, finalize_open_fails, record_orphan_fill,
        auto_unwind_send, auto_unwind_poll, entry_record_break, entry_fail_to_error, dbVars, orderVars
  <2> QED BY <1>0, <2>4, <2>5, <2>6
<1>4. ~ExitNext
  <2>1. ~prepare_exit BY <1>0, <1>1 DEF prepare_exit
  <2>2. ~(place_close_mark \/ record_close_rejection \/ close_never_sent \/ confirm_close \/ record_close)
    BY <1>0, <1>1 DEF place_close_mark, record_close_rejection, close_never_sent, confirm_close,
                      record_close
  <2> QED BY <1>1, <2>1, <2>2 DEF ExitNext, close_leg, find_order_by_tag, adopt_existing_order,
          place_close_send, poll_close, reconcile_order_load, reconcile_order_terminal,
          finalize_closed, finalize_closed_fails, record_divergence, exit_record_break,
          exit_fail_to_error, dbVars, orderVars
<1>5. CASE ReconcileNext
  <2>1. ASSUME NEW t \in Tag, reconcile_one_intent(t) PROVE t = E(l)
    <3>1. intent' = intent \/ \E s \in {"CONFIRMED", "FAILED"} : intent' = [intent EXCEPT ![t] = s]
      BY <2>1 DEF reconcile_one_intent, flag_duplicate_orders, fail_intent_not_at_broker,
                  resolve_intent_against_order, apply_fill
    <3> QED BY <1>0, <1>1, <3>1
  <2>2. CASE ~\E t \in Tag : reconcile_one_intent(t)
    BY <1>1, <1>5, <2>2 DEF ReconcileNext, fetch_orders, intents_reconciled, detect_orphans,
          startup_aborts, reconcile_one_position, dbVars, orderVars
  <2> QED BY <2>1, <2>2
<1>6. ~(start \/ recover_settled \/ recover_exit_pending \/ recover_entry_pending
           \/ attach \/ trigger_exit)
  BY <1>1 DEF start, recover_settled, recover_exit_pending, recover_entry_pending, attach,
              trigger_exit, dbVars, orderVars
<1> QED BY <1>2, <1>3, <1>4, <1>5, <1>6 DEF Next, Hooks

\* An entry leg has one order, the last of its tag.
LEMMA EntryOrder ==
    ASSUME IndInv, EntryOnce, NEW l \in Leg, book[E(l)] # <<>>
    PROVE  /\ Len(book[E(l)]) = 1 /\ DOMAIN book[E(l)] = {1}
           /\ LastOrder(E(l)) = book[E(l)][1]
<1>1. book[E(l)] \in Seq(Order) /\ Len(book[E(l)]) <= 1
  BY TagFacts DEF IndInv, TypeOK, BrokerOK, EntryOnce
<1>2. Len(book[E(l)]) = 1
  <2> DEFINE n == Len(book[E(l)])
  <2>1. n \in Nat /\ n # 0 /\ n <= 1 BY <1>1
  <2>2. \A k \in Nat : k # 0 /\ k <= 1 => k = 1 OBVIOUS
  <2> HIDE DEF n
  <2> QED BY <2>1, <2>2 DEF n
<1>3. DOMAIN book[E(l)] = 1..1 BY <1>1, <1>2
<1>4. 1..1 = {1} OBVIOUS
<1> QED BY <1>2, <1>3, <1>4 DEF LastOrder

\* A leg that is given up has no order that is at work or has filled.
LEMMA GivenUpIsNotLive ==
    ASSUME OrdersSettle, IndInv, RowInv, WholeOrders, StartsSettled, EntryOnce,
           EntryRowFollows, LegsOfEntry, Next, posState' = "ENTRY_PENDING",
           NEW l \in Leg, tradeStatus[l] = "PENDING", tradeStatus'[l] = "PENDING",
           intent[E(l)] \in InDoubt, intent'[E(l)] \notin InDoubt
    PROVE  ~Live(E(l))
<1>1. ~finalize_open BY DEF finalize_open
<1>2. CASE leg = l /\ (record_leg_rejection \/ mark_intent_failed)
  BY <1>2 DEF record_leg_rejection, mark_intent_failed, LegsOfEntry, Live
<1>3. CASE leg = l /\ read_back /\ row[E(l)].status # "COMPLETE"
  <2>1. row[E(l)].status \in Terminal /\ row[E(l)].status = LastOrder(E(l)).status
    BY <1>3 DEF read_back, EntryRowFollows
  <2>2. LastOrder(E(l)).status \notin {"OPEN", "COMPLETE"} BY <1>3, <2>1 DEF Terminal
  <2>3. CASE book[E(l)] = <<>> BY <2>3 DEF Live
  <2>4. CASE book[E(l)] # <<>> BY <2>2, <2>4, EntryOrder DEF Live
  <2> QED BY <2>3, <2>4
<1>4. CASE reconcile_one_intent(E(l))
  <2>1. E(l) \in Tag /\ E(l)[1] = "E" /\ E(l)[2] = l /\ tradeStatus \in [Leg -> TradeStatus]
    BY TagFacts DEF E, IndInv, TypeOK, TradesOK
  <2> QED BY <1>4, <2>1, Resolves
<1> QED BY <1>1, <1>2, <1>3, <1>4, LeavesDoubt

\* A leg goes live when its order is sent.
LEMMA SendGoesLive ==
    ASSUME IndInv, Next, NEW l \in Leg, ~Live(E(l)), Live(E(l))'
    PROVE  place_leg_send /\ E(l) = E(leg)
<1>0. E(l) \in Tag /\ leg \in Leg /\ book[E(l)] \in Seq(Order)
  BY TagFacts DEF IndInv, TypeOK, BrokerOK, LocalsOK
<1>1. PICK i \in DOMAIN book'[E(l)] : book'[E(l)][i].status \in {"OPEN", "COMPLETE"}
  BY DEF Live
<1>2. i \notin DOMAIN book[E(l)]
  <2> SUFFICES ASSUME i \in DOMAIN book[E(l)] PROVE FALSE OBVIOUS
  <2>1. Became(E(l), book[E(l)][i], book'[E(l)][i]) BY <1>0, <1>1, OrderMoves
  <2>2. book[E(l)][i].status \in {"OPEN", "COMPLETE"} BY <1>1, <2>1 DEF Became
  <2> QED BY <2>2 DEF Live
<1>3. DOMAIN book'[E(l)] # DOMAIN book[E(l)] BY <1>1, <1>2
<1>4. pc \in {"e_send", "u_send", "x_send"} BY <1>0, <1>3, EndedStays
<1> QED
  <2>1. ~BrokerMoves
    <3>1. BrokerMoves => book'[E(l)] \in Seq(Order) /\ Len(book'[E(l)]) = Len(book[E(l)])
      BY <1>0, BrokerMovesShape, BrokerMovesType DEF IndInv, TypeOK, BrokerOK
    <3> QED BY <1>0, <1>3, <3>1
  <2>2. place_leg_send \/ auto_unwind_send \/ place_close_send
    BY <1>3, <2>1, OnlyTheBrokerMoves
  <2>3. ~auto_unwind_send
    <3>1. auto_unwind_send => \A s \in Tag : s # U => book'[s] = book[s]
      BY SendShape, TagFacts DEF auto_unwind_send, IndInv, TypeOK
    <3>2. E(l) # U BY TagsDiffer
    <3> QED BY <1>0, <1>3, <3>1, <3>2
  <2>4. ~place_close_send
    <3>1. place_close_send => \A s \in Tag : s # X(leg) => book'[s] = book[s]
      BY <1>0, SendShape, TagFacts DEF place_close_send, IndInv, TypeOK
    <3>2. E(l) # X(leg) BY <1>0, TagsDiffer
    <3> QED BY <1>0, <1>3, <3>1, <3>2
  <2>5. place_leg_send => \A s \in Tag : s # E(leg) => book'[s] = book[s]
    BY <1>0, SendShape, TagFacts DEF place_leg_send, IndInv, TypeOK
  <2> QED BY <1>0, <1>3, <2>2, <2>3, <2>4, <2>5

\* That order was marked before.
LEMMA GoesLive ==
    ASSUME IndInv, LegsOfEntry, Next, NEW l \in Leg, ~Live(E(l)), Live(E(l))'
    PROVE  intent'[E(l)] \in InDoubt
<1>1. place_leg_send /\ E(l) = E(leg) BY SendGoesLive
<1>2. pc = "e_send" /\ intent' = intent BY <1>1 DEF place_leg_send, orderVars
<1> QED BY <1>1, <1>2 DEF LegsOfEntry

\* While an entry is pending, its trades say what was sold and bought back.
LEMMA TradesOfEntryStep ==
    ASSUME OrdersSettle, IndInv, SaleInv, RowInv, WholeOrders, StartsSettled, EntryRowFollows,
           LegsOfEntry, Next, posState' = "ENTRY_PENDING", NEW l \in Leg
    PROVE  /\ tradeStatus'[l] \in {"PENDING", "OPEN", "UNWOUND", "CLOSED"}
           /\ tradeStatus'[l] = "PENDING" /\ Live(E(l))' => intent'[E(l)] \in InDoubt
           /\ tradeStatus'[l] \in {"UNWOUND", "CLOSED"} => l = "CE" /\ Completed(U)'
<1> DEFINE Goal == /\ tradeStatus'[l] \in {"PENDING", "OPEN", "UNWOUND", "CLOSED"}
                   /\ tradeStatus'[l] = "PENDING" /\ Live(E(l))' => intent'[E(l)] \in InDoubt
                   /\ tradeStatus'[l] \in {"UNWOUND", "CLOSED"} => l = "CE" /\ Completed(U)'
<1> SUFFICES Goal OBVIOUS
<1>0. /\ tradeStatus \in [Leg -> TradeStatus] /\ "CE" \in Leg /\ U \in Tag /\ U = <<"U", "CE">>
      /\ E(l) \in Tag /\ E(l)[1] = "E"
  BY TagFacts, TagsDiffer DEF IndInv, TypeOK, TradesOK, Leg, U
<1>1. Completed(U) => Completed(U)' BY <1>0, CompletedStays DEF RowInv
<1>2. CASE create_durable_record
  BY <1>0, <1>2 DEF create_durable_record, InDoubt
<1>3. CASE ~create_durable_record
  <2>1. posState = "ENTRY_PENDING" BY <1>3, OnlyCreateBegins
  <2>2. /\ tradeStatus[l] \in {"PENDING", "OPEN", "UNWOUND", "CLOSED"}
        /\ tradeStatus[l] = "PENDING" /\ Live(E(l)) => intent[E(l)] \in InDoubt
        /\ tradeStatus[l] \in {"UNWOUND", "CLOSED"} => l = "CE" /\ Completed(U)
    BY <2>1 DEF LegsOfEntry
  <2>3. \/ tradeStatus'[l] = tradeStatus[l]
        \/ tradeStatus'[l] \in {"OPEN", "UNWOUND", "CLOSED"}
           /\ (tradeStatus'[l] \in {"UNWOUND", "CLOSED"} => l = "CE" /\ Completed(U))
    <3>1. ~finalize_open BY DEF finalize_open
    <3>2. ~record_close BY <2>1 DEF record_close, IndInv, Ledger, PcMatchesState, ExitStep
    <3>3. CASE auto_unwind_record
      <4>1. polled.status = "COMPLETE" /\ Completed(U)
        BY <3>3 DEF auto_unwind_record, LegsOfEntry
      <4>2. tradeStatus' = [tradeStatus EXCEPT !["CE"] = "UNWOUND"]
        BY <3>3, <4>1 DEF auto_unwind_record
      <4> QED BY <1>0, <4>1, <4>2
    <3>4. ASSUME NEW t \in Tag, reconcile_one_intent(t)
          PROVE  \/ tradeStatus'[l] = tradeStatus[l]
                 \/ tradeStatus'[l] \in {"OPEN", "UNWOUND", "CLOSED"}
                    /\ (tradeStatus'[l] \in {"UNWOUND", "CLOSED"} => l = "CE" /\ Completed(U))
      <4>1. CASE tradeStatus' = tradeStatus BY <4>1
      <4>2. CASE t[1] = "E" /\ tradeStatus' # tradeStatus
        <5>1. tradeStatus' = [tradeStatus EXCEPT ![t[2]] = IF @ = "PENDING" THEN "OPEN" ELSE @]
          BY <3>4, <4>2, Resolves
        <5> QED BY <1>0, <5>1
      <4>3. CASE t[1] # "E" /\ tradeStatus' # tradeStatus
        <5>1. /\ Completed(t)
              /\ tradeStatus' = [tradeStatus EXCEPT ![t[2]] = IF @ = "OPEN" THEN "CLOSED" ELSE @]
          BY <3>4, <4>3, Resolves
        <5>2. t \in started
          <6>1. book[t] # <<>> BY <5>1 DEF Completed
          <6> QED BY <6>1 DEF IndInv, Ledger, WriteAhead
        <5>3. \A m \in Leg : X(m) \notin started /\ <<"U", "PE">> \notin started
          BY <2>1 DEF SaleInv, NothingBoughtEarly
        <5>4. t = U
          BY <4>3, <5>2, <5>3 DEF Tag, Leg, X, U
        <5> QED BY <1>0, <5>1, <5>4
      <4> QED BY <4>1, <4>2, <4>3
    <3> QED BY <1>3, <3>1, <3>2, <3>3, <3>4, TradeWriters
  <2>4. ASSUME tradeStatus'[l] = "PENDING", Live(E(l))' PROVE intent'[E(l)] \in InDoubt
    <3>1. tradeStatus[l] = "PENDING" BY <2>3, <2>4
    <3>2. CASE ~Live(E(l)) BY <2>4, <3>2, GoesLive
    <3>3. CASE Live(E(l))
      <4>1. intent[E(l)] \in InDoubt BY <2>2, <3>1, <3>3
      <4> QED BY <2>4, <3>1, <3>3, <4>1, GivenUpIsNotLive DEF SaleInv
    <3> QED BY <3>2, <3>3
  <2> QED BY <1>1, <2>2, <2>3, <2>4
<1> QED BY <1>2, <1>3

\* What was refused, or never sent, is not in the book.
LEMMA UnsentStep ==
    ASSUME FillsAreSeen, IndInv, IndInv', UnsentIsAbsent, Next
    PROVE  UnsentIsAbsent'
<1>0. leg \in Leg /\ E(leg) \in Tag /\ BrokerOK /\ BrokerOK'
  BY TagFacts DEF IndInv, TypeOK, LocalsOK
<1> SUFFICES ASSUME pc' \in {"e_reject", "e_unsent"} PROVE book'[E(leg')] = <<>>
  BY DEF UnsentIsAbsent
<1>1. CASE \E result \in {"FILLED", "FAILED", "AMBIGUOUS"} : legEnds(result)
  BY <1>1, LegEndsWhere DEF IndInv, TypeOK
<1>2. CASE /\ place_leg_send
           /\ ~\E result \in {"FILLED", "FAILED", "AMBIGUOUS"} : legEnds(result)
  <2>1. (Refuses(E(leg)) \/ NotSent(E(leg))) /\ leg' = leg
    BY <1>2 DEF place_leg_send, localVars
  <2>2. book' = book BY <2>1 DEF FillsAreSeen, Refuses, NotSent
  <2> QED BY <1>2, <2>1, <2>2 DEF place_leg_send, IndInv, Ledger, TagIsFresh
<1>3. CASE /\ EntryNext /\ ~place_leg_send
           /\ ~\E result \in {"FILLED", "FAILED", "AMBIGUOUS"} : legEnds(result)
  BY <1>3 DEF EntryNext, enter, create_durable_record, place_leg_mark, place_leg_send,
        record_leg_rejection, mark_intent_failed, confirm_and_record, read_back, hookRaises,
        poll_entry, reconcile_order_load, reconcile_order_terminal, finalize_open,
        finalize_open_fails, record_orphan_fill, auto_unwind_mark, auto_unwind_send,
        auto_unwind_poll, auto_unwind_record, entry_record_break, entry_fail_to_error, hookReturns
<1>4. CASE ~EntryNext
  <2>1. pc' = pc /\ leg' = leg /\ book[E(leg)] = <<>>
    BY <1>4, WhoMovesEntry DEF SellStep, LegStep, UnsentIsAbsent
  <2>2. Len(book'[E(leg)]) = Len(book[E(leg)]) BY <1>0, <2>1, EndedStays
  <2>3. Len(book'[E(leg)]) = 0 /\ book'[E(leg)] \in Seq(Order)
    BY <1>0, <2>1, <2>2 DEF BrokerOK
  <2> QED BY <2>1, <2>3
<1> QED BY <1>1, <1>2, <1>3, <1>4

\* What the steps of entry around one order know of it.
LEMMA LegsStep ==
    ASSUME OrdersSettle, IndInv, IndInv', SaleInv, RowInv, WholeOrders, StartsSettled,
           EntryRowFollows, LegsOfEntry, Next
    PROVE  LegsOfEntry'
<1>0. /\ leg \in Leg /\ E(leg) \in Tag /\ U \in Tag /\ U[1] = "U" /\ E(leg) # U
      /\ intent \in [Tag -> IntentStatus] /\ BrokerOK
      /\ BrokerOK'
  BY TagFacts, TagsDiffer DEF IndInv, TypeOK, OrdersOK, LocalsOK
<1>1. pc' = "e_send" => intent'[E(leg')] \in InDoubt
  <2> SUFFICES ASSUME pc' = "e_send" PROVE intent'[E(leg')] \in InDoubt OBVIOUS
  <2>1. CASE place_leg_mark BY <1>0, <2>1 DEF place_leg_mark, localVars, InDoubt
  <2>2. CASE EntryNext /\ ~place_leg_mark
    <3>1. CASE \E result \in {"FILLED", "FAILED", "AMBIGUOUS"} : legEnds(result)
      BY <3>1, LegEndsWhere DEF IndInv, TypeOK
    <3>2. CASE ~\E result \in {"FILLED", "FAILED", "AMBIGUOUS"} : legEnds(result)
      BY <2>2, <3>2 DEF EntryNext, enter, create_durable_record, place_leg_mark, place_leg_send,
        record_leg_rejection, mark_intent_failed, confirm_and_record, read_back, hookRaises,
        poll_entry, reconcile_order_load, reconcile_order_terminal, finalize_open,
        finalize_open_fails, record_orphan_fill, auto_unwind_mark, auto_unwind_send,
        auto_unwind_poll, auto_unwind_record, entry_record_break, entry_fail_to_error, hookReturns
    <3> QED BY <3>1, <3>2
  <2>3. CASE ~EntryNext
    BY <2>3, WhoMovesEntry DEF SellStep, LegStep, LegsOfEntry
  <2> QED BY <2>1, <2>2, <2>3
<1>2. pc' \in {"e_reject", "e_unsent"} => book'[E(leg')] = <<>>
  <2>1. FillsAreSeen /\ UnsentIsAbsent BY SettledIsSeen DEF LegsOfEntry, UnsentIsAbsent
  <2> QED BY <2>1, UnsentStep DEF UnsentIsAbsent
<1>3. pc' = "u_record" => polled'.status = "COMPLETE" /\ Completed(U)'
  <2> SUFFICES ASSUME pc' = "u_record" PROVE polled'.status = "COMPLETE" /\ Completed(U)' OBVIOUS
  <2>1. CASE auto_unwind_poll
    <3>1. LastOrder(U).status \in Terminal /\ polled' = LastOrder(U) /\ book' = book
      BY <2>1, SettledEnv DEF auto_unwind_poll
    <3>2. book[U] # <<>> /\ book[U] \in Seq(Order)
      BY <1>0, <2>1 DEF auto_unwind_poll, IndInv, Ledger, PolledExists, BrokerOK
    <3>3. Len(book[U]) \in DOMAIN book[U] BY <3>2
    <3>4. LastOrder(U).status = "COMPLETE"
      BY <1>0, <3>1, <3>3 DEF WholeOrders, Working, LastOrder, Terminal
    <3> QED BY <3>1, <3>3, <3>4 DEF Completed, LastOrder
  <2>2. CASE EntryNext /\ ~auto_unwind_poll
    <3>1. CASE \E result \in {"FILLED", "FAILED", "AMBIGUOUS"} : legEnds(result)
      BY <3>1, LegEndsWhere DEF IndInv, TypeOK
    <3>2. CASE ~\E result \in {"FILLED", "FAILED", "AMBIGUOUS"} : legEnds(result)
      BY <2>2, <3>2 DEF EntryNext, enter, create_durable_record, place_leg_mark, place_leg_send,
        record_leg_rejection, mark_intent_failed, confirm_and_record, read_back, hookRaises,
        poll_entry, reconcile_order_load, reconcile_order_terminal, finalize_open,
        finalize_open_fails, record_orphan_fill, auto_unwind_mark, auto_unwind_send,
        auto_unwind_poll, auto_unwind_record, entry_record_break, entry_fail_to_error, hookReturns
    <3> QED BY <3>1, <3>2
  <2>3. CASE ~EntryNext
    <3>1. pc' = pc /\ polled' = polled
      BY <2>3, WhoMovesEntry DEF SellStep, UnwindStep
    <3> QED BY <1>0, <3>1, CompletedStays DEF LegsOfEntry, RowInv
  <2> QED BY <2>1, <2>2, <2>3
<1>4. posState' = "ENTRY_PENDING" => \A l \in Leg :
         /\ tradeStatus'[l] \in {"PENDING", "OPEN", "UNWOUND", "CLOSED"}
         /\ tradeStatus'[l] = "PENDING" /\ Live(E(l))' => intent'[E(l)] \in InDoubt
         /\ tradeStatus'[l] \in {"UNWOUND", "CLOSED"} => l = "CE" /\ Completed(U)'
  BY TradesOfEntryStep
<1> QED BY <1>1, <1>2, <1>3, <1>4 DEF LegsOfEntry

\* What the status of a row becomes: the reported one, if that is an end.
LEMMA UpdateStatus ==
    ASSUME NEW r \in Row, NEW bo \in Order, bo.status = "COMPLETE" \/ bo.filled = 0,
           NEW r1, r1 = apply_broker_order_update(r, bo)
    PROVE  /\ r1.acked = r.acked
           /\ \/ r1 = r /\ (bo.status \in Terminal => r.status \in Terminal)
              \/ r.status \notin Terminal /\ r1.status = bo.status /\ bo.status \in Terminal
<1>0. r.filled \in 0..Qty /\ Qty \in Nat BY ConstantsAssumption DEF ConstantsAssumption, Row
<1>1. CASE r.status \in Terminal BY <1>1 DEF apply_broker_order_update
<1>2. CASE r.status \notin Terminal
  <2>1. CASE bo.status = "COMPLETE"
    BY <1>2, <2>1 DEF apply_broker_order_update, Terminal, Row
  <2>2. CASE bo.status \in {"REJECTED", "CANCELLED"}
    BY <1>2, <2>2 DEF apply_broker_order_update, Terminal, Row
  <2>3. CASE bo.status = "OPEN"
    <3>1. ~(bo.filled > r.filled) BY <1>0, <2>3
    <3> QED BY <1>2, <2>3, <3>1 DEF apply_broker_order_update, Terminal
  <2> QED BY <2>1, <2>2, <2>3 DEF Order, OrderStatus
<1> QED BY <1>1, <1>2

\* A pushed update ends the row of an entry order as the order ended, or leaves it.
LEMMA PushEnds ==
    ASSUME FillsAreSeen, IndInv, EntryOnce, NothingInPart, NEW t \in Tag, process(t), NEW l \in Leg
    PROVE  \/ row'[E(l)] = row[E(l)]
           \/ /\ row'[E(l)].acked = row[E(l)].acked /\ book[E(l)] # <<>>
              /\ row[E(l)].status \notin Terminal
              /\ row'[E(l)].status \in Terminal /\ row'[E(l)].status = LastOrder(E(l)).status
<1>0. /\ E(l) \in Tag /\ row \in [Tag -> Row] /\ book \in [Tag -> Seq(Order)]
  BY TagFacts DEF IndInv, TypeOK, OrdersOK, BrokerOK
<1>A. PICK i \in DOMAIN book[t] : \E bo \in Snapshots(book[t][i]) :
        row' = [row EXCEPT ![t] = apply_broker_order_update(row[t], bo)]
  BY DEF process
<1>1. PICK bo \in Snapshots(book[t][i]) :
        row' = [row EXCEPT ![t] = apply_broker_order_update(row[t], bo)]
  BY <1>A
<1>2. CASE t # E(l) BY <1>0, <1>1, <1>2
<1>3. CASE t = E(l)
  <2>1. book[E(l)] # <<>> /\ i = 1 /\ LastOrder(E(l)) = book[t][i]
    <3>1. book[E(l)] # <<>> BY <1>1, <1>3
    <3> QED BY <1>1, <1>3, <3>1, EntryOrder
  <2>0. "partial" \notin Env BY DEF process, FillsAreSeen
  <2>2. book[t][i] \in Order /\ (book[t][i].status = "COMPLETE" \/ book[t][i].filled = 0)
    BY <1>0, <1>1, <2>0 DEF NothingInPart
  <2>3. \/ bo = book[t][i]
        \/ bo = [status |-> "OPEN", filled |-> 0, price |-> "none"]
    BY <1>1, <2>0 DEF Snapshots
  <2>4. bo \in Order /\ (bo.status = "COMPLETE" \/ bo.filled = 0)
        /\ (bo.status \in Terminal => bo = book[t][i])
    BY <2>2, <2>3, ConstantsAssumption DEF Order, OrderStatus, Price, Terminal
  <2> DEFINE r1 == apply_broker_order_update(row[t], bo)
  <2>5. row'[E(l)] = r1 BY <1>0, <1>1, <1>3
  <2>6. /\ r1.acked = row[t].acked
        /\ \/ r1 = row[t]
           \/ row[t].status \notin Terminal /\ r1.status = bo.status /\ bo.status \in Terminal
    <3>1. row[t] \in Row BY <1>0
    <3> QED BY <2>4, <3>1, UpdateStatus
  <2> HIDE DEF r1
  <2> QED BY <1>3, <2>1, <2>4, <2>5, <2>6
<1> QED BY <1>2, <1>3

\* The last order of a leg stays the last while nothing is sent, and ended stays ended.
LEMMA LastStays ==
    ASSUME IndInv, IndInv', EntryOnce, Next, pc \notin {"e_send", "u_send", "x_send"}, NEW l \in Leg
    PROVE  \/ book'[E(l)][Len(book'[E(l)])].status = LastOrder(E(l)).status
           \/ LastOrder(E(l)).status = "OPEN"
<1>0. E(l) \in Tag /\ book[E(l)] \in Seq(Order) /\ book'[E(l)] \in Seq(Order)
  BY TagFacts DEF IndInv, TypeOK, BrokerOK
<1>1. /\ Len(book'[E(l)]) = Len(book[E(l)])
      /\ \A i \in DOMAIN book[E(l)] :
            book[E(l)][i].status # "OPEN" => book'[E(l)][i].status = book[E(l)][i].status
  BY <1>0, EndedStays
<1>2. CASE book[E(l)] = <<>>
  <2>1. book'[E(l)] = <<>> BY <1>0, <1>1, <1>2
  <2> QED BY <1>2, <2>1 DEF LastOrder
<1>3. CASE book[E(l)] # <<>>
  <2>1. Len(book[E(l)]) = 1 /\ DOMAIN book[E(l)] = {1} /\ LastOrder(E(l)) = book[E(l)][1]
    BY <1>3, EntryOrder
  <2> QED BY <1>1, <2>1
<1> QED BY <1>2, <1>3

\* The row of the order that is polled comes to say what the broker says.
LEMMA EntryRowStep ==
    ASSUME FillsAreSeen, IndInv, IndInv', SaleInv, EntryOnce', NothingInPart, EntryRowFollows, Next
    PROVE  EntryRowFollows'
<1> DEFINE Polling == {"e_poll", "e_load", "e_apply"}
           Known(s, last) == s \in {"OPEN", last}
           Goal ==
             /\ pc' \in Polling =>
                   row'[E(leg')].acked /\ Known(row'[E(leg')].status, LastOrder(E(leg))'.status)
             /\ pc' \in {"e_load", "e_apply"} =>
                   polled'.status \in Terminal /\ polled'.status = LastOrder(E(leg))'.status
             /\ pc' = "e_apply" =>
                   seen'.acked /\ (row'[E(leg')] = seen' \/ row'[E(leg')].status \in Terminal)
             /\ pc' = "e_read" =>
                   row'[E(leg')].status \in Terminal /\ row'[E(leg')].status = LastOrder(E(leg))'.status
<1> SUFFICES ASSUME pc' \in Polling \cup {"e_read"} PROVE Goal BY DEF EntryRowFollows
<1>0. /\ leg \in Leg /\ E(leg) \in Tag /\ row \in [Tag -> Row] /\ LocalsOK
      /\ pc' \in SellStep
      /\ EntryOnce /\ CompleteIsFull
  BY TagFacts DEF IndInv, TypeOK, OrdersOK, LocalsOK, SaleInv, SellStep, LegStep
<1>1. CASE EntryNext
  <2>1. CASE confirm_and_record
    <3>1. row'[E(leg)] = acknowledged(row[E(leg)]) /\ leg' = leg /\ pc' = "e_poll"
      BY <1>0, <2>1 DEF confirm_and_record, localVars
    <3> QED BY <3>1 DEF acknowledged
  <2>2. CASE poll_entry /\ pc' = "e_load"
    <3>1. /\ LastOrder(E(leg)).status \in Terminal /\ polled' = LastOrder(E(leg)) /\ leg' = leg
          /\ pc = "e_poll" /\ UNCHANGED <<row, book>>
      <4>1. ~legEnds("AMBIGUOUS") BY <1>0, <2>2, LegEndsWhere
      <4> QED BY <2>2, <4>1 DEF poll_entry, orderVars
    <3>2. LastOrder(E(leg))' = LastOrder(E(leg)) BY <3>1 DEF LastOrder
    <3> QED BY <2>2, <3>1, <3>2 DEF EntryRowFollows
  <2>3. CASE reconcile_order_load("e_load", "e_apply")
    <3>1. /\ pc = "e_load" /\ pc' = "e_apply" /\ seen' = row[E(leg)]
          /\ UNCHANGED <<leg, polled, row, book>>
      BY <2>3 DEF reconcile_order_load, dbVars, orderVars, brokerVars, E
    <3>2. LastOrder(E(leg))' = LastOrder(E(leg)) BY <3>1 DEF LastOrder
    <3> QED BY <3>1, <3>2 DEF EntryRowFollows
  <2>4. CASE reconcile_order_terminal("e_apply", "e_read")
    <3> DEFINE r == row[E(leg)]
    <3>1. /\ pc = "e_apply" /\ pc' = "e_read" /\ UNCHANGED <<leg, book>>
          /\ row' = [row EXCEPT ![E(leg)] =
               IF seen.acked /\ row[E(leg)] = seen THEN apply_broker_order_update(seen, polled) ELSE @]
      BY <2>4 DEF reconcile_order_terminal, localVars, brokerVars, E
    <3>2. LastOrder(E(leg))' = LastOrder(E(leg)) BY <3>1 DEF LastOrder
    <3>3. /\ r.status \in {"OPEN", LastOrder(E(leg)).status}
          /\ polled.status \in Terminal /\ polled.status = LastOrder(E(leg)).status
          /\ seen.acked /\ (r = seen \/ r.status \in Terminal)
      BY <3>1 DEF EntryRowFollows
    <3>4. CASE r = seen
      <4>1. row'[E(leg)] = apply_broker_order_update(r, polled) BY <1>0, <3>1, <3>3, <3>4
      <4>2. r \in Row BY <1>0
      <4>3. \/ row'[E(leg)] = r /\ r.status \in Terminal
            \/ row'[E(leg)].status = polled.status
        BY <3>3, <4>1, <4>2 DEF apply_broker_order_update, Row, Terminal
      <4>4. "OPEN" \notin Terminal BY DEF Terminal
      <4> QED BY <3>1, <3>2, <3>3, <4>3, <4>4
    <3>5. CASE r # seen
      <4>1. row'[E(leg)] = r BY <1>0, <3>1, <3>5
      <4>2. "OPEN" \notin Terminal BY DEF Terminal
      <4> QED BY <3>1, <3>2, <3>3, <3>5, <4>1, <4>2
    <3> QED BY <3>4, <3>5
  <2>5. CASE \E result \in {"FILLED", "FAILED", "AMBIGUOUS"} : legEnds(result)
    BY <1>0, <2>5, LegEndsWhere
  <2>6. CASE /\ ~\E result \in {"FILLED", "FAILED", "AMBIGUOUS"} : legEnds(result)
             /\ ~confirm_and_record /\ ~(poll_entry /\ pc' = "e_load")
             /\ ~reconcile_order_load("e_load", "e_apply")
             /\ ~reconcile_order_terminal("e_apply", "e_read")
    BY <1>1, <2>6 DEF EntryNext, enter, create_durable_record, place_leg_mark, place_leg_send,
        record_leg_rejection, mark_intent_failed, read_back, hookRaises,
        poll_entry, finalize_open,
        finalize_open_fails, record_orphan_fill, auto_unwind_mark, auto_unwind_send,
        auto_unwind_poll, auto_unwind_record, entry_record_break, entry_fail_to_error, hookReturns
  <2> QED BY <2>1, <2>2, <2>3, <2>4, <2>5, <2>6
<1>2. CASE ~EntryNext
  <2>1. /\ UNCHANGED <<pc, leg, polled>>
        /\ row' = row \/ \E t \in Tag : process(t)
    BY <1>0, <1>2, WhoMovesEntry
  <2>2. seen' = seen
    <3>1. CASE World BY <1>0, <2>1, <3>1, WorldForm DEF localVars
    <3>2. ~ExitNext /\ ~ReconcileNext
      BY <2>1, HookPlaces DEF ExitStep
    <3>3. ~(start \/ recover_settled \/ recover_exit_pending \/ recover_entry_pending
            \/ attach \/ trigger_exit)
      BY <2>1 DEF start, recover_settled, recover_exit_pending, recover_entry_pending, attach,
                  trigger_exit
    <3> QED BY <1>2, <3>1, <3>2, <3>3 DEF Next, Hooks
  <2>3. \/ row'[E(leg)] = row[E(leg)]
        \/ /\ row'[E(leg)].acked = row[E(leg)].acked
           /\ row[E(leg)].status \notin Terminal
           /\ row'[E(leg)].status \in Terminal
           /\ row'[E(leg)].status = LastOrder(E(leg)).status
    BY <1>0, <2>1, PushEnds
  <2> DEFINE last == LastOrder(E(leg)).status
             last1 == LastOrder(E(leg))'.status
  <2>4. last1 = last \/ last = "OPEN"
    <3>1. last1 = book'[E(leg)][Len(book'[E(leg)])].status BY <2>1 DEF LastOrder
    <3>2. pc \notin {"e_send", "u_send", "x_send"} BY <2>1
    <3> QED BY <1>0, <3>1, <3>2, LastStays
  <2> HIDE DEF last, last1
  <2>5. "OPEN" \notin Terminal BY DEF Terminal
  <2>6. /\ pc \in Polling => row[E(leg)].acked /\ Known(row[E(leg)].status, last)
        /\ pc \in {"e_load", "e_apply"} => polled.status \in Terminal /\ polled.status = last
        /\ pc = "e_apply" => seen.acked /\ (row[E(leg)] = seen \/ row[E(leg)].status \in Terminal)
        /\ pc = "e_read" => row[E(leg)].status \in Terminal /\ row[E(leg)].status = last
    BY DEF EntryRowFollows, last
  <2>7. \/ row'[E(leg)] = row[E(leg)]
        \/ /\ row'[E(leg)].acked = row[E(leg)].acked
           /\ row[E(leg)].status \notin Terminal
           /\ row'[E(leg)].status \in Terminal /\ row'[E(leg)].status = last
    BY <2>3 DEF last
  <2>8. /\ pc \in Polling =>
              row'[E(leg)].acked /\ Known(row'[E(leg)].status, last1)
        /\ pc \in {"e_load", "e_apply"} => polled.status \in Terminal /\ polled.status = last1
        /\ pc = "e_apply" => seen.acked /\ (row'[E(leg)] = seen \/ row'[E(leg)].status \in Terminal)
        /\ pc = "e_read" => row'[E(leg)].status \in Terminal /\ row'[E(leg)].status = last1
    BY <2>4, <2>5, <2>6, <2>7
  <2> QED BY <2>1, <2>2, <2>8 DEF last1
<1> QED BY <1>1, <1>2

\* In an exit, a leg that is CLOSED was bought back.
LEMMA ClosedTradesStep ==
    ASSUME OrdersSettle, IndInv, SaleInv, RowInv, PricedIsClosed, WholeOrders, StartsSettled,
           ClosedIsBought, Next, posState' = "EXIT_PENDING", NEW l \in Leg, tradeStatus'[l] = "CLOSED"
    PROVE  Completed(X(l))'
<1>0. /\ tradeStatus \in [Leg -> TradeStatus] /\ leg \in Leg /\ X(l) \in Tag /\ U = <<"U", "CE">>
  BY TagFacts DEF IndInv, TypeOK, TradesOK, LocalsOK, U
<1>1. posState = "EXIT_PENDING"
  <2> SUFFICES ASSUME posState # "EXIT_PENDING" PROVE FALSE OBVIOUS
  <2>1. posState = "OPEN" BY PositionMoves DEF Moves
  <2>2. tradeStatus' = tradeStatus BY <2>1, OnlyExitLeavesOpen DEF prepare_exit, tradeVars
  <2> QED BY <2>1, <2>2 DEF SaleInv, OpenMeansHedged
<1>2. CASE tradeStatus[l] = "CLOSED"
  BY <1>0, <1>1, <1>2, CompletedStays DEF ClosedIsBought, RowInv
<1>3. CASE tradeStatus[l] # "CLOSED"
  <2>1. ~create_durable_record /\ ~finalize_open /\ ~auto_unwind_record
    BY <1>1 DEF create_durable_record, finalize_open, auto_unwind_record,
                IndInv, Ledger, PcMatchesState, EntryStep
  <2>2. CASE record_close
    <3>1. l = leg /\ polled.status = "COMPLETE" /\ pc = "x_record"
      BY <1>0, <1>3, <2>2 DEF record_close
    <3>2. Completed(X(l)) BY <3>1 DEF PricedIsClosed
    <3> QED BY <1>0, <3>2, CompletedStays DEF RowInv
  <2>3. ASSUME NEW t \in Tag, reconcile_one_intent(t) PROVE Completed(X(l))'
    <3>1. tradeStatus' # tradeStatus BY <1>3
    <3>2. /\ Completed(t)
          /\ tradeStatus' = [tradeStatus EXCEPT ![t[2]] =
                        IF t[1] = "E" THEN (IF @ = "PENDING" THEN "OPEN" ELSE @)
                                      ELSE (IF @ = "OPEN" THEN "CLOSED" ELSE @)]
      BY <2>3, <3>1, Resolves
    <3>3. t[1] # "E" /\ t[2] = l
      <4>1. t[2] = l BY <1>0, <1>3, <3>2
      <4>2. t[1] # "E"
        <5>1. CASE t[1] = "E" BY <1>0, <1>3, <3>2, <4>1, <5>1
        <5> QED BY <5>1
      <4> QED BY <4>1, <4>2
    <3>4. t \in started
      <4>1. book[t] # <<>> BY <3>2 DEF Completed
      <4> QED BY <4>1 DEF IndInv, Ledger, WriteAhead
    <3>5. <<"U", "PE">> \notin started /\ U \notin started
      BY <1>1 DEF SaleInv, NothingBoughtEarly, ExitFollowsSale
    <3>6. t = X(l) BY <1>0, <3>3, <3>4, <3>5 DEF Tag, Leg, X
    <3> QED BY <1>0, <3>2, <3>6, CompletedStays DEF RowInv
  <2> QED BY <1>3, <2>1, <2>2, <2>3, TradeWriters
<1> QED BY <1>2, <1>3

\* The outcome CLOSED is given to a leg whose trade is CLOSED, and not kept past the exit.
LEMMA OutcomeStep ==
    ASSUME IndInv, IndInv', ClosedIsBought, Next, NEW l \in Leg, outcome'[l] = "CLOSED"
    PROVE  pc' \in ExitStep /\ tradeStatus'[l] = "CLOSED"
<1>0. /\ outcome \in [Leg -> Outcome] /\ leg \in Leg /\ tradeStatus \in [Leg -> TradeStatus] /\ LocalsOK
  BY DEF IndInv, TypeOK, LocalsOK, TradesOK
<1>1. ~dropLocals BY DEF dropLocals
<1>2. outcome[l] = "CLOSED" => pc \in ExitStep /\ tradeStatus[l] = "CLOSED" BY DEF ClosedIsBought
<1>3. CASE World BY <1>1, <1>2, <1>3, WorldForm DEF localVars, tradeVars
<1>4. CASE ExitNext
  <2>1. CASE close_leg /\ closeEnds("CLOSED")
    <3>1. outcome' = [outcome EXCEPT ![leg] = "CLOSED"] /\ tradeStatus[leg] = "CLOSED"
          /\ tradeStatus' = tradeStatus
      <4>1. outcome' = [outcome EXCEPT ![leg] = "CLOSED"] BY <2>1 DEF closeEnds
      <4>2. tradeStatus[leg] = "CLOSED"
        <5> SUFFICES ASSUME tradeStatus[leg] # "CLOSED" PROVE FALSE OBVIOUS
        <5>1. outcome' = outcome BY <2>1 DEF close_leg, localVars
        <5>2. outcome[leg] = "CLOSED" BY <1>0, <4>1, <5>1
        <5> QED BY <1>0, <5>2 DEF ClosedIsBought
      <4>3. tradeStatus' = tradeStatus BY <2>1 DEF close_leg, tradeVars
      <4> QED BY <4>1, <4>2, <4>3
    <3> QED BY <1>0, <1>2, <2>1, <3>1, CloseEndsStep DEF ExitStep
  <2>2. CASE record_close
    <3>1. /\ outcome' = [outcome EXCEPT ![leg] = IF polled.status = "COMPLETE" THEN "CLOSED" ELSE "FAILED"]
          /\ tradeStatus' = [tradeStatus EXCEPT ![leg] = IF polled.status = "COMPLETE" THEN "CLOSED" ELSE @]
          /\ pc' \in {"x_leg", "x_final", "x_break"}
      <4>1. closeEnds(IF polled.status = "COMPLETE" THEN "CLOSED" ELSE "FAILED")
        BY <2>2 DEF record_close
      <4> QED BY <2>2, <4>1, CloseEndsStep DEF record_close, closeEnds
    <3> QED BY <1>0, <1>2, <3>1 DEF ExitStep
  <2>3. CASE \E result \in {"FAILED", "AMBIGUOUS"} :
                outcome' = [outcome EXCEPT ![leg] = result] /\ UNCHANGED tradeStatus
                /\ pc' \in {"x_leg", "x_final", "x_break"}
    BY <1>0, <1>2, <2>3 DEF ExitStep
  <2>4. CASE UNCHANGED <<outcome, tradeStatus>> /\ pc' \in ExitStep BY <1>2, <2>4
  <2>5. CASE record_close_rejection \/ close_never_sent
    BY <2>3, <2>5, CloseEndsStep DEF record_close_rejection, close_never_sent, closeEnds, tradeVars
  <2>6. CASE find_order_by_tag \/ adopt_existing_order \/ place_close_send \/ poll_close
    <3>1. CASE closeEnds("AMBIGUOUS")
      BY <2>3, <2>6, <3>1, CloseEndsStep DEF find_order_by_tag, adopt_existing_order,
         place_close_send, poll_close, closeEnds, tradeVars
    <3>2. CASE ~closeEnds("AMBIGUOUS")
      BY <2>4, <2>6, <3>2 DEF find_order_by_tag, adopt_existing_order,
         place_close_send, poll_close, tradeVars, localVars, ExitStep
    <3> QED BY <3>1, <3>2
  <2>7. CASE close_leg /\ ~closeEnds("CLOSED")
    BY <2>4, <2>7 DEF close_leg, tradeVars, localVars, ExitStep
  <2> QED BY <1>1, <1>4, <2>1, <2>2, <2>4, <2>5, <2>6, <2>7 DEF ExitNext, prepare_exit, place_close_mark,
      confirm_close, reconcile_order_load, reconcile_order_terminal, finalize_closed,
      finalize_closed_fails, record_divergence, exit_record_break, exit_fail_to_error, hookReturns,
      dbVars, tradeVars, localVars, ExitStep
<1>5. CASE ~ExitNext /\ ~World
  <2>1. pc \notin ExitStep
    <3>1. EntryNext => pc \notin ExitStep BY HookPlaces DEF enter, EntryStep, ExitStep
    <3>2. ReconcileNext => pc \notin ExitStep BY HookPlaces DEF ExitStep
    <3>3. start \/ recover_settled \/ recover_exit_pending \/ recover_entry_pending
          \/ attach \/ trigger_exit => pc \notin ExitStep
      BY DEF start, recover_settled, recover_exit_pending, recover_entry_pending, attach,
             trigger_exit, ExitStep
    <3> QED BY <1>5, <3>1, <3>2, <3>3 DEF Next, Hooks
  <2>2. outcome' # outcome BY <1>2, <2>1
  <2>3. CASE EntryNext
    <3>1. \A result : legEnds(result) => outcome' = [outcome EXCEPT ![leg] = result] BY DEF legEnds
    <3>2. ASSUME NEW result \in {"FILLED", "FAILED", "AMBIGUOUS"}, legEnds(result) PROVE FALSE
      BY <1>0, <1>2, <2>1, <3>1, <3>2
    <3> QED BY <1>1, <2>2, <2>3, <3>2 DEF EntryNext, enter, create_durable_record, place_leg_mark,
        place_leg_send, record_leg_rejection, mark_intent_failed, confirm_and_record, read_back,
        hookRaises, poll_entry, reconcile_order_load, reconcile_order_terminal, finalize_open,
        finalize_open_fails, record_orphan_fill, auto_unwind_mark, auto_unwind_send,
        auto_unwind_poll, auto_unwind_record, entry_record_break, entry_fail_to_error, hookReturns,
        localVars
  <2>4. ~ReconcileNext
    BY <1>1, <2>2 DEF ReconcileNext, fetch_orders, intents_reconciled, detect_orphans,
        startup_aborts, reconcile_one_position, reconcile_one_intent, localVars
  <2>5. ~(start \/ recover_settled \/ recover_exit_pending \/ recover_entry_pending
          \/ attach \/ trigger_exit)
    BY <1>1, <2>2 DEF start, recover_settled, recover_exit_pending, recover_entry_pending, attach,
             trigger_exit, hookReturns, localVars
  <2> QED BY <1>5, <2>3, <2>4, <2>5 DEF Next, Hooks
<1> QED BY <1>3, <1>4, <1>5

\* What an exit calls CLOSED was bought back.
LEMMA ClosedIsBoughtStep ==
    ASSUME OrdersSettle, IndInv, IndInv', SaleInv, RowInv, PricedIsClosed, WholeOrders, StartsSettled,
           ClosedIsBought, Next
    PROVE  ClosedIsBought'
<1>1. posState' = "EXIT_PENDING" => \A l \in Leg : tradeStatus'[l] = "CLOSED" => Completed(X(l))'
  BY ClosedTradesStep
<1>2. \A l \in Leg : outcome'[l] = "CLOSED" => pc' \in ExitStep /\ tradeStatus'[l] = "CLOSED"
  BY OutcomeStep
<1>3. ASSUME pc' \in {"x_final", "x_diverge"} PROVE \A l \in Leg : tradeStatus'[l] = "CLOSED"
  <2>1. CASE \E result \in {"CLOSED", "FAILED", "AMBIGUOUS"} : closeEnds(result)
    <3>1. \A l \in Leg : outcome'[l] = "CLOSED" BY <1>3, <2>1 DEF closeEnds
    <3> QED BY <1>2, <3>1
  <2>2. CASE finalize_closed_fails
    BY <2>2 DEF finalize_closed_fails, ClosedIsBought, dbVars, tradeVars
  <2>3. CASE ExitNext /\ ~finalize_closed_fails
             /\ ~\E result \in {"CLOSED", "FAILED", "AMBIGUOUS"} : closeEnds(result)
    BY <1>3, <2>3 DEF ExitNext, prepare_exit, close_leg, find_order_by_tag, adopt_existing_order,
          place_close_mark, place_close_send, record_close_rejection, close_never_sent,
          confirm_close, poll_close, record_close, reconcile_order_load,
          reconcile_order_terminal, finalize_closed, record_divergence,
          exit_record_break, exit_fail_to_error, hookReturns
  <2>4. CASE ~ExitNext
    <3>1. pc' \in ExitStep BY <1>3 DEF ExitStep
    <3>2. ~recover_exit_pending /\ ~trigger_exit BY <1>3 DEF recover_exit_pending, trigger_exit
    <3>3. UNCHANGED <<tradeVars, pc>> BY <2>4, <3>1, <3>2, WhoExits
    <3> QED BY <1>3, <3>3 DEF ClosedIsBought, tradeVars
  <2> QED BY <2>1, <2>2, <2>3, <2>4
<1> QED BY <1>1, <1>2, <1>3 DEF ClosedIsBought

\* A position closed without an exit has nothing left to buy back.
LEMMA AbortIsEvenStep ==
    ASSUME IndInv, RowInv, ReasonIsKept, StartsSettled, DoubtIsResolved, LegsOfEntry, AbortIsEven, Next
    PROVE  AbortIsEven'
<1> SUFFICES ASSUME posState' = "CLOSED", trigger' = "none", NEW l \in Leg
             PROVE  Even(l)'
  BY DEF AbortIsEven
<1>0. /\ E(l) \in Tag /\ X(l) \in Tag /\ <<"U", l>> \in Tag /\ U = <<"U", "CE">>
      /\ \A k \in {"E", "U", "X"} : <<k, l>> \in Tag
  BY TagFacts DEF Tag, U
<1>1. CASE posState # "CLOSED"
  <2>1. ~finalize_closed
    BY <1>1 DEF finalize_closed, IndInv, Ledger, PcMatchesState, ExitStep, ReasonIsKept
  <2>2. /\ reconcile_one_position /\ posState = "ENTRY_PENDING"
        /\ \A m \in Leg : tradeStatus[m] # "OPEN"
    BY <1>1, <2>1, WhoClosesPosition
  <2>3. book' = book /\ pc = "r_position" BY <2>2 DEF reconcile_one_position, brokerVars
  <2>4. BrokerIdle /\ intent[E(l)] \notin InDoubt
    BY <1>0, <2>3 DEF StartsSettled, DoubtIsResolved, StartStep
  <2>5. Completed(E(l)) => Live(E(l)) BY DEF Completed, Live
  <2>6. Completed(E(l)) => Completed(<<"U", l>>)
    BY <1>0, <2>2, <2>4, <2>5 DEF LegsOfEntry
  <2>7. \A k \in {"E", "U", "X"} : \A i \in DOMAIN book[<<k, l>>] : ~Working(<<k, l>>, i)
    BY <1>0, <2>4 DEF BrokerIdle, Working
  <2> QED BY <2>3, <2>6, <2>7 DEF Even, Completed, Working
<1>2. CASE posState = "CLOSED"
  <2>1. trigger = "none" BY <1>2, ClosedKeepsReason
  <2>2. Even(l) BY <1>2, <2>1 DEF AbortIsEven
  <2>3. pc \notin {"e_send", "u_send", "x_send"}
    BY <1>2 DEF IndInv, Ledger, PcMatchesState, EntryStep, ExitStep
  <2>4. \A t \in Tag : /\ DOMAIN book'[t] = DOMAIN book[t]
                       /\ \A i \in DOMAIN book[t] :
                            book[t][i].status # "OPEN" => book'[t][i].status = book[t][i].status
    BY <2>3, EndedStays
  <2>5. \A k \in {"E", "U", "X"} : \A i \in DOMAIN book'[<<k, l>>] :
            book'[<<k, l>>][i].status = book[<<k, l>>][i].status
            /\ book'[<<k, l>>][i].status # "OPEN"
    BY <1>0, <2>2, <2>4 DEF Even, Working
  <2>6. \A k \in {"E", "U", "X"} : Completed(<<k, l>>) <=> Completed(<<k, l>>)'
    BY <1>0, <2>4, <2>5 DEF Completed
  <2>7. Completed(E(l))' => Completed(<<"U", l>>)' \/ Completed(X(l))'
    BY <2>2, <2>6 DEF Even, E, X
  <2> QED BY <2>5, <2>7 DEF Even, Working
<1> QED BY <1>1, <1>2

\* Every hook that ends leaves its position watched or flagged, or it has closed it.
LEMMA WatchedStep ==
    ASSUME IndInv, ReasonIsKept, ClosedIsBought, WatchedOrFlagged, Next
    PROVE  WatchedOrFlagged'
<1> DEFINE Idle == pc = "idle" =>
             /\ posState = "OPEN" => runner = "FROZEN" \/ (monitor /\ runner = "RUNNING")
             /\ posState = "ENTRY_PENDING" => runner = "FROZEN" \/ breaks # {} \/ MaxFaults > 1
             /\ posState = "EXIT_PENDING" =>
                   runner = "FROZEN" \/ breaks # {} \/ \A l \in Leg : tradeStatus[l] = "CLOSED"
           Goal == /\ pc' = "e_attach" => posState' = "OPEN"
                   /\ pc' = "e_orphan" => faults' > 0
                   /\ Idle'
<1> SUFFICES Goal BY DEF WatchedOrFlagged
<1>0. faults \in Nat /\ MaxFaults \in Nat
  BY ConstantsAssumption DEF IndInv, TypeOK, WorldOK
<1>1. (pc = "e_attach" => posState = "OPEN") /\ (pc = "e_orphan" => faults > 0) /\ Idle
  BY DEF WatchedOrFlagged
<1>2. CASE pc' \notin {"e_attach", "e_orphan", "idle"} BY <1>2
<1>3. CASE World
  <2>1. faults' >= faults /\ UNCHANGED <<positionVars, tradeVars, breaks>> BY <1>3, WorldForm
  <2>2. CASE UNCHANGED <<pc, localVars, runnerVars>>
    <3>1. UNCHANGED <<posState, tradeStatus, breaks, pc, runner, monitor>>
      BY <2>1, <2>2 DEF positionVars, tradeVars, runnerVars
    <3>2. faults > 0 => faults' > 0
      <4>1. faults' \in Int
        <5>1. faults' = faults \/ faults' = faults + 1
          <6>1. CASE BrokerMoves BY <6>1, BrokerMovesForm DEF IndInv, worldVars
          <6> QED BY <1>3, <6>1 DEF World, process, time_passes, engage_kill_switch,
             disengage_kill_switch, unfreeze, hook_raises, monitor_raises, crash, worldVars
        <5> QED BY <1>0, <5>1
      <4> QED BY <1>0, <2>1, <4>1
    <3> QED BY <1>1, <3>1, <3>2
  <2>3. CASE pc' \in {"idle", "down"} /\ (pc' = "idle" => runner' = "FROZEN") BY <2>3
  <2> QED BY <1>3, <2>2, <2>3, WorldForm
<1>4. CASE EntryNext
  <2>1. CASE enter BY <1>1, <2>1 DEF enter, dbVars, positionVars, tradeVars, flagVars
  <2>2. CASE \E result \in {"FILLED", "FAILED", "AMBIGUOUS"} : legEnds(result)
    BY <2>2, LegEndsWhere DEF IndInv, TypeOK
  <2>3. CASE finalize_open BY <2>3 DEF finalize_open
  <2>4. CASE finalize_open_fails BY <1>0, <2>4 DEF finalize_open_fails
  <2>5. CASE record_orphan_fill
    <3>1. posState' = "ENTRY_PENDING" /\ faults > 0 /\ pc' = "idle"
      BY <1>1, <2>5 DEF record_orphan_fill, positionVars, hookReturns, IndInv, Ledger,
                        PcMatchesState, EntryStep
    <3>2. breaks' # {} \/ MaxFaults > 1
      BY <1>0, <2>5, <3>1 DEF record_orphan_fill, recordBreak
    <3> QED BY <3>1, <3>2
  <2>6. CASE entry_fail_to_error
    BY <2>6 DEF entry_fail_to_error, failToError, Errored, hookReturns
  <2>7. CASE hookRaises({"FROZEN"}) BY <2>7 DEF hookRaises
  <2>8. CASE /\ ~\E result \in {"FILLED", "FAILED", "AMBIGUOUS"} : legEnds(result)
             /\ ~enter /\ ~finalize_open /\ ~finalize_open_fails /\ ~record_orphan_fill
             /\ ~entry_fail_to_error /\ ~hookRaises({"FROZEN"})
    BY <1>2, <1>4, <2>8 DEF EntryNext, create_durable_record, place_leg_mark, place_leg_send,
        record_leg_rejection, mark_intent_failed, confirm_and_record, read_back,
        poll_entry, reconcile_order_load, reconcile_order_terminal,
        auto_unwind_mark, auto_unwind_send, auto_unwind_poll, auto_unwind_record,
        entry_record_break
  <2> QED BY <2>1, <2>2, <2>3, <2>4, <2>5, <2>6, <2>7, <2>8
<1>5. CASE ExitNext
  <2>1. CASE \E result \in {"CLOSED", "FAILED", "AMBIGUOUS"} : closeEnds(result)
    BY <2>1, CloseEndsStep
  <2>2. CASE prepare_exit
    BY <1>2, <2>2 DEF prepare_exit, ReasonIsKept
  <2>3. CASE place_close_send /\ pc' = pc
    BY <1>2, <2>3 DEF place_close_send
  <2>4. CASE finalize_closed BY <2>4 DEF finalize_closed, hookReturns
  <2>5. CASE record_divergence
    <3>1. tradeStatus' = tradeStatus /\ pc' = "idle" /\ pc = "x_diverge" /\ posState' = posState
      BY <2>5 DEF record_divergence, hookReturns, tradeVars, positionVars
    <3>2. posState = "EXIT_PENDING" /\ \A l \in Leg : tradeStatus[l] = "CLOSED"
      BY <3>1 DEF ClosedIsBought, IndInv, Ledger, PcMatchesState, ExitStep
    <3> QED BY <3>1, <3>2
  <2>6. CASE exit_fail_to_error
    BY <2>6 DEF exit_fail_to_error, failToError, Errored, hookReturns
  <2>7. CASE /\ ~\E result \in {"CLOSED", "FAILED", "AMBIGUOUS"} : closeEnds(result)
             /\ ~prepare_exit /\ ~(place_close_send /\ pc' = pc) /\ ~finalize_closed
             /\ ~record_divergence /\ ~exit_fail_to_error
    BY <1>2, <1>5, <2>7 DEF ExitNext, close_leg, find_order_by_tag, adopt_existing_order,
          place_close_mark, place_close_send, record_close_rejection, close_never_sent,
          confirm_close, poll_close, record_close, reconcile_order_load,
          reconcile_order_terminal, finalize_closed_fails, exit_record_break
  <2> QED BY <2>1, <2>2, <2>3, <2>4, <2>5, <2>6, <2>7
<1>6. CASE ReconcileNext
  BY <1>2, <1>6 DEF ReconcileNext, fetch_orders, intents_reconciled, detect_orphans, startup_aborts,
              reconcile_one_position, reconcile_one_intent
<1>7. CASE start \/ recover_exit_pending \/ trigger_exit
  BY <1>2, <1>7 DEF start, recover_exit_pending, trigger_exit
<1>8. CASE recover_entry_pending
  BY <1>8 DEF recover_entry_pending, hookReturns
<1>9. CASE recover_settled \/ attach
  <2>1. /\ pc' = "idle" /\ runner' = "RUNNING" /\ monitor' = (posState = "OPEN")
        /\ posState' = posState /\ posState \notin {"ENTRY_PENDING", "EXIT_PENDING"}
    BY <1>1, <1>9 DEF recover_settled, attach, hookReturns, dbVars, positionVars
  <2> QED BY <2>1
<1> QED BY <1>3, <1>4, <1>5, <1>6, <1>7, <1>8, <1>9 DEF Next, Hooks

\* The fifth invariant is inductive beside the other four.
LEMMA SettledInvStep ==
    ASSUME OrdersSettle
    PROVE  IndInv /\ IndInv' /\ SaleInv /\ SaleInv' /\ RowInv /\ ExitInv /\ SettledInv /\ [Next]_vars
              => SettledInv'
<1> SUFFICES ASSUME IndInv, IndInv', SaleInv, SaleInv', RowInv, ExitInv, SettledInv, [Next]_vars
             PROVE  SettledInv'
  OBVIOUS
<1>1. CASE Next
  <2>1. SaleInv => EntryOnce BY DEF SaleInv
  <2>2. SaleInv' => EntryOnce' BY DEF SaleInv
  <2>3. /\ ReasonIsKept /\ PricedIsClosed /\ WholeOrders /\ StartsSettled /\ DoubtIsResolved
        /\ LegsOfEntry /\ EntryRowFollows /\ ClosedIsBought /\ AbortIsEven /\ WatchedOrFlagged
    BY DEF ExitInv, SettledInv
  <2>4. WholeOrders' /\ StartsSettled' /\ DoubtIsResolved'
    BY <1>1, <2>3, WholeStep, StartsStep, DoubtStep
  <2>5. LegsOfEntry' /\ EntryRowFollows'
    BY <1>1, <2>2, <2>3, LegsStep, EntryRowStep, SettledIsSeen
  <2>6. ClosedIsBought' /\ AbortIsEven' /\ WatchedOrFlagged'
    BY <1>1, <2>3, ClosedIsBoughtStep, AbortIsEvenStep, WatchedStep
  <2> QED BY <2>4, <2>5, <2>6 DEF SettledInv
<1>2. CASE UNCHANGED vars
  <2>1. UNCHANGED <<posState, trigger, tradeStatus, intent, started, row, breaks, book, pc, leg,
                    polled, seen, outcome, todo, view, runner, monitor, faults>>
    BY <1>2 DEF vars, dbVars, positionVars, tradeVars, orderVars, flagVars, brokerVars, localVars,
              runnerVars, worldVars
  <2>2. WholeOrders' /\ StartsSettled' /\ DoubtIsResolved'
    BY <2>1 DEF SettledInv, WholeOrders, StartsSettled, DoubtIsResolved, Working, BrokerIdle
  <2>3. LegsOfEntry' /\ EntryRowFollows'
    BY <2>1 DEF SettledInv, LegsOfEntry, EntryRowFollows, Live, Completed, LastOrder
  <2>4. ClosedIsBought' /\ AbortIsEven'
    BY <2>1 DEF SettledInv, ClosedIsBought, AbortIsEven, Even, Completed, Working
  <2>5. WatchedOrFlagged' BY <2>1 DEF SettledInv, WatchedOrFlagged
  <2> QED BY <2>2, <2>3, <2>4, <2>5 DEF SettledInv
<1> QED BY <1>1, <1>2

LEMMA SettledInvHolds ==
    ASSUME OrdersSettle
    PROVE  Spec => [](IndInv /\ SaleInv /\ RowInv /\ ExitInv /\ SettledInv)
<1>1. Init => SettledInv
  <2> SUFFICES ASSUME Init PROVE SettledInv OBVIOUS
  <2>1. /\ pc = "down" /\ posState = "IDLE" /\ \A t \in Tag : book[t] = <<>>
        /\ \A l \in Leg : outcome[l] = "none"
    BY DEF Init, NoBook
  <2> QED BY <2>1 DEF SettledInv, WholeOrders, StartsSettled, DoubtIsResolved, LegsOfEntry,
         EntryRowFollows, ClosedIsBought, AbortIsEven, WatchedOrFlagged, StartStep
<1>2. IndInv /\ IndInv' /\ SaleInv /\ SaleInv' /\ RowInv /\ ExitInv /\ SettledInv /\ [Next]_vars
              => SettledInv'
  BY SettledInvStep
<1> QED BY <1>1, <1>2, RowInvHolds, ExitInvHolds, IndInvStep, SaleInvStep, PTL DEF Spec

--------------------------------------------------------------------------------
(* What the invariants say of the broker. *)

\* An order that filled whole or not at all counts whole or not at all.
LEMMA FilledWhole ==
    ASSUME IndInv, CompleteIsFull, AtMostOneOrderPerTag, WholeOrders, NEW t \in Tag
    PROVE  Filled(t) = IF Completed(t) THEN Qty ELSE 0
<1>0. book[t] \in Seq(Order) /\ Len(book[t]) <= 1 /\ BrokerOK
  BY DEF IndInv, TypeOK, BrokerOK, AtMostOneOrderPerTag
<1>1. CASE book[t] = <<>> BY <1>0, <1>1, FilledByOne DEF Completed
<1>2. CASE book[t] # <<>>
  <2>1. DOMAIN book[t] = {1}
    <3>1. \A k \in Nat : k <= 1 /\ k # 0 => 1..k = {1} OBVIOUS
    <3> QED BY <1>0, <1>2, <3>1
  <2>2. Filled(t) = book[t][1].filled BY <1>0, <1>2, FilledByOne
  <2> QED BY <2>1, <2>2 DEF Completed, CompleteIsFull, WholeOrders
<1> QED BY <1>1, <1>2

\* A leg that is even is flat at the broker.
LEMMA EvenIsFlat ==
    ASSUME IndInv, SaleInv, AtMostOneOrderPerTag, WholeOrders, squared = {}, NEW l \in Leg, Even(l)
    PROVE  FlatAtBroker(l)
<1>0. /\ E(l) \in Tag /\ X(l) \in Tag /\ <<"U", l>> \in Tag /\ Qty \in Nat \ {0}
      /\ CompleteIsFull /\ NeverOverClosed
  BY ConstantsAssumption DEF Tag, E, X, SaleInv
<1>1. /\ Filled(E(l)) = IF Completed(E(l)) THEN Qty ELSE 0
      /\ Filled(X(l)) = IF Completed(X(l)) THEN Qty ELSE 0
      /\ Filled(<<"U", l>>) = IF Completed(<<"U", l>>) THEN Qty ELSE 0
  BY <1>0, FilledWhole
<1>2. ~Completed(<<"U", l>>) \/ ~Completed(X(l))
  BY <1>0 DEF NeverOverClosed, Completed
<1>3. Completed(<<"U", l>>) \/ Completed(X(l)) => Completed(E(l))
  <2> SUFFICES ASSUME NEW t \in {<<"U", l>>, X(l)}, Completed(t) PROVE Completed(E(l)) OBVIOUS
  <2>1. FullyFilled(E(l))
    <3>1. book[t] # <<>> BY DEF Completed
    <3> QED BY <1>0, <3>1 DEF NeverOverClosed
  <2>2. book[E(l)] # <<>> /\ LastOrder(E(l)).filled = Qty BY <2>1 DEF FullyFilled
  <2>3. Len(book[E(l)]) \in DOMAIN book[E(l)]
    <3>1. book[E(l)] \in Seq(Order) BY <1>0 DEF IndInv, TypeOK, BrokerOK
    <3> QED BY <2>2, <3>1
  <2> QED BY <1>0, <2>2, <2>3 DEF WholeOrders, LastOrder, Completed
<1>4. Completed(E(l)) => Completed(<<"U", l>>) \/ Completed(X(l)) BY DEF Even
<1>5. Short(l) = 0
  <2>1. Short(l) = Filled(E(l)) - Filled(<<"U", l>>) - Filled(X(l)) - 0 BY DEF Short
  <2> QED BY <1>0, <1>1, <1>2, <1>3, <1>4, <2>1
<1> QED BY <1>5 DEF Even, FlatAtBroker

\* A position that reconciliation closed because the entry never filled
\* (_reconcile_entry_pending) left nothing at the broker, where orders have ended,
\* whole or not at all, before a restart.  Any one hardship that OrdersSettle leaves
\* out refutes it; the run abort_while_working shows how an order still at work does.
THEOREM AbortedIsFlat ==
    ASSUME OrdersSettle
    PROVE  Spec => []AbortMeansFlat
<1>1. IndInv /\ SaleInv /\ ExitInv /\ SettledInv => AbortMeansFlat
  <2> SUFFICES ASSUME IndInv, SaleInv, ExitInv, SettledInv, posState = "CLOSED", trigger = "none",
                      NEW l \in Leg
               PROVE  FlatAtBroker(l)
    BY DEF AbortMeansFlat
  <2>1. AtMostOneOrderPerTag /\ squared = {} /\ WholeOrders
    BY SettledEnv DEF IndInv, Ledger, SentOnce, ExitInv, NothingSquared, SettledInv
  <2>2. Even(l) BY DEF SettledInv, AbortIsEven
  <2> QED BY <2>1, <2>2, EvenIsFlat
<1> QED BY <1>1, SettledInvHolds, PTL

\* However a position came to be CLOSED, by an exit, by recovery or by reconciliation
\* (_finalize_closed, _reconcile_entry_pending): the broker holds nothing of it and
\* nothing there is at work, where orders have ended, whole or not at all, before a
\* restart.
THEOREM ClosedIsFlat ==
    ASSUME OrdersSettle
    PROVE  Spec => []ClosedMeansFlat
<1>1. {"reset", "squareoff"} \cap Env = {} BY SettledEnv
<1>2. Spec => []ExitedMeansFlat BY <1>1, ExitedIsFlat
<1>3. ExitedMeansFlat /\ AbortMeansFlat => ClosedMeansFlat BY DEF ClosedMeansFlat
<1> QED BY <1>2, <1>3, AbortedIsFlat, PTL

\* Between hooks, what is short at the broker is watched by the monitor of an OPEN
\* position, or the position is in ERROR, the instance frozen or a break recorded
\* (PositionMonitor.attach, _run_guarded, _record_break).  A second fault in the
\* same hook is left out: finalize_open and the break that tells of its failure
\* would both be lost.
THEOREM ExposureWatched ==
    ASSUME OrdersSettle, MaxFaults <= 1
    PROVE  Spec => []ExposureIsWatched
<1>1. IndInv /\ SaleInv /\ ExitInv /\ SettledInv /\ ClosedMeansFlat => ExposureIsWatched
  <2> SUFFICES ASSUME IndInv, SaleInv, ExitInv, SettledInv, ClosedMeansFlat,
                      pc = "idle", posState # "ERROR", runner # "FROZEN", breaks = {},
                      ~(posState = "OPEN" /\ monitor /\ runner = "RUNNING"),
                      NEW l \in Leg
               PROVE  FlatAtBroker(l)
    BY DEF ExposureIsWatched
  <2>1. AtMostOneOrderPerTag /\ squared = {} /\ WholeOrders /\ FullIsEnded
    BY SettledEnv DEF IndInv, Ledger, SentOnce, ExitInv, NothingSquared, SettledInv
  <2>2. posState \in {"IDLE", "EXIT_PENDING", "CLOSED"}
    <3>1. MaxFaults \in Nat BY ConstantsAssumption
    <3>2. ~(MaxFaults > 1) BY <3>1
    <3> QED BY <3>2 DEF SettledInv, WatchedOrFlagged, IndInv, TypeOK, PositionOK
  <2>3. CASE posState = "IDLE"
    <3>1. \A t \in Tag : book[t] = <<>>
      BY <2>3 DEF IndInv, Ledger, IdleIsClean, WriteAhead
    <3>2. Even(l) BY <3>1 DEF Even, Completed, E, Tag
    <3> QED BY <2>1, <3>2, EvenIsFlat
  <2>4. CASE posState = "EXIT_PENDING"
    <3>1. Completed(X(l))
      BY <2>4 DEF SettledInv, WatchedOrFlagged, ClosedIsBought
    <3>2. FullyFilled(E(l)) BY <2>4 DEF SaleInv, ExitFollowsSale
    <3> QED BY <2>1, <3>1, <3>2, BoughtBack
  <2>5. CASE posState = "CLOSED"
    BY <2>5 DEF ClosedMeansFlat, ExitedMeansFlat, AbortMeansFlat
  <2> QED BY <2>2, <2>3, <2>4, <2>5
<1> QED BY <1>1, SettledInvHolds, ClosedIsFlat, PTL

--------------------------------------------------------------------------------
(* Where entry cannot overlook a fill. *)

\* An order that fills in full is COMPLETE from then on, and only one that fills in
\* part holds a part.
LEMMA FillsStep ==
    ASSUME IndInv, NothingInPart, FullIsComplete, Next
    PROVE  NothingInPart' /\ FullIsComplete'
<1>0. Qty \in Nat \ {0} BY ConstantsAssumption DEF ConstantsAssumption
<1>1. ASSUME "partial" \notin Env, NEW t \in Tag, NEW i \in DOMAIN book'[t],
             book'[t][i].status # "COMPLETE"
      PROVE  book'[t][i].filled = 0
  <2>1. CASE i \in DOMAIN book[t]
    <3>1. Became(t, book[t][i], book'[t][i]) BY <2>1, OrderMoves
    <3>2. book[t][i].status # "COMPLETE" => book[t][i].filled = 0
      BY <1>1, <2>1 DEF NothingInPart
    <3> QED BY <1>1, <3>1, <3>2 DEF Became
  <2>2. CASE i \notin DOMAIN book[t] BY <2>2, OrderMoves
  <2> QED BY <2>1, <2>2
<1>2. ASSUME NEW t \in Tag, NEW i \in DOMAIN book'[t], book'[t][i].filled = Qty
      PROVE  book'[t][i].status = "COMPLETE"
  <2>1. i \in DOMAIN book[t] /\ Became(t, book[t][i], book'[t][i]) BY <1>0, <1>2, OrderMoves
  <2>2. book[t][i].filled = Qty => book[t][i].status = "COMPLETE" BY <2>1 DEF FullIsComplete
  <2> QED BY <1>2, <2>1, <2>2 DEF Became
<1> QED BY <1>1, <1>2 DEF NothingInPart, FullIsComplete

\* Where an outcome can be FAILED.
GivenUp == ExitStep \cup UnwindStep \cup {"e_break", "e_error"}

\* An exit stays an exit, or drops its outcomes.
LEMMA ExitKeepsPlace ==
    ASSUME ExitNext
    PROVE  pc' \in ExitStep \/ dropLocals
<1>1. CASE \E result \in {"CLOSED", "FAILED", "AMBIGUOUS"} : closeEnds(result)
  BY <1>1, CloseEndsStep DEF ExitStep
<1>2. CASE ~\E result \in {"CLOSED", "FAILED", "AMBIGUOUS"} : closeEnds(result)
  BY <1>2 DEF ExitNext, prepare_exit, close_leg, find_order_by_tag, adopt_existing_order,
      place_close_mark, place_close_send, record_close_rejection, close_never_sent,
      confirm_close, poll_close, record_close, reconcile_order_load,
      reconcile_order_terminal, finalize_closed, finalize_closed_fails, record_divergence,
      exit_record_break, exit_fail_to_error, hookReturns, ExitStep
<1> QED BY <1>1, <1>2

\* Entry gives a leg up when nothing of it is at work or has filled.
LEMMA GivesUp ==
    ASSUME IndInv, SaleInv, EntryRowFollows, UnsentIsAbsent,
           record_leg_rejection \/ mark_intent_failed \/ read_back, legEnds("FAILED")
    PROVE  ~Live(E(leg)) /\ book' = book
<1>0. leg \in Leg /\ outcome \in [Leg -> Outcome] /\ E(leg) \in Tag
  BY TagFacts DEF IndInv, TypeOK, LocalsOK
<1>1. CASE record_leg_rejection \/ mark_intent_failed
  BY <1>1 DEF record_leg_rejection, mark_intent_failed, UnsentIsAbsent, Live
<1>2. CASE read_back
  <2>1. outcome' = [outcome EXCEPT ![leg] = "FAILED"] BY DEF legEnds
  <2>2. ~hookRaises({"FROZEN"})
    <3>1. hookRaises({"FROZEN"}) => outcome' = [l \in Leg |-> "none"] BY DEF hookRaises, dropLocals
    <3> QED BY <1>0, <2>1, <3>1
  <2>3. /\ pc = "e_read" /\ book' = book
        /\ legEnds(IF row[E(leg)].status = "COMPLETE" THEN "FILLED" ELSE "FAILED")
    BY <1>2, <2>2 DEF read_back
  <2>4. row[E(leg)].status # "COMPLETE"
    <3> SUFFICES ASSUME row[E(leg)].status = "COMPLETE" PROVE FALSE OBVIOUS
    <3>1. outcome' = [outcome EXCEPT ![leg] = "FILLED"] BY <2>3 DEF legEnds
    <3> QED BY <1>0, <2>1, <3>1
  <2>5. row[E(leg)].status \in Terminal /\ row[E(leg)].status = LastOrder(E(leg)).status
    BY <2>3 DEF EntryRowFollows
  <2>6. LastOrder(E(leg)).status \notin {"OPEN", "COMPLETE"} BY <2>4, <2>5 DEF Terminal
  <2>7. CASE book[E(leg)] = <<>> BY <2>3, <2>7 DEF Live
  <2>8. CASE book[E(leg)] # <<>>
    <3>1. EntryOnce BY DEF SaleInv
    <3> QED BY <1>0, <2>3, <2>6, <2>8, <3>1, EntryOrder DEF Live
  <2> QED BY <2>7, <2>8
<1> QED BY <1>1, <1>2

\* The outcome of one leg is given where it is known.
LEMMA EntryOutcome ==
    ASSUME IndInv, EntryNext
    PROVE  \/ legEnds("FAILED") /\ (record_leg_rejection \/ mark_intent_failed \/ read_back)
           \/ (legEnds("FILLED") \/ legEnds("AMBIGUOUS")) /\ pc \notin GivenUp
           \/ dropLocals
           \/ outcome' = outcome /\ (pc \in GivenUp => pc' \in GivenUp)
BY DEF EntryNext, enter, create_durable_record, place_leg_mark, place_leg_send,
       record_leg_rejection, mark_intent_failed, confirm_and_record, read_back, hookRaises,
       poll_entry, reconcile_order_load, reconcile_order_terminal, finalize_open,
       finalize_open_fails, record_orphan_fill, auto_unwind_mark, auto_unwind_send,
       auto_unwind_poll, auto_unwind_record, entry_record_break, entry_fail_to_error, hookReturns,
       localVars, GivenUp, ExitStep, UnwindStep

\* A leg that was given up stays so, and is one that nothing can fill.
LEMMA FailedStep ==
    ASSUME IndInv, SaleInv, EntryRowFollows, UnsentIsAbsent, FailedIsOver, Next
    PROVE  FailedIsOver'
<1> SUFFICES ASSUME NEW l \in Leg, outcome'[l] = "FAILED"
             PROVE  pc' \in GivenUp /\ (pc' \in EntryStep => ~Live(E(l))')
  BY Zenon DEF FailedIsOver, GivenUp
<1>0. outcome \in [Leg -> Outcome] /\ leg \in Leg /\ LocalsOK /\ ~dropLocals
  BY DEF IndInv, TypeOK, LocalsOK, dropLocals
<1>1. outcome[l] = "FAILED" => pc \in GivenUp /\ (pc \in EntryStep => ~Live(E(l)))
  BY DEF FailedIsOver, GivenUp
<1>2. ExitStep \cap EntryStep = {} BY DEF ExitStep, EntryStep
<1>3. ASSUME outcome[l] = "FAILED", pc \in EntryStep PROVE ~Live(E(l))'
  <2>1. ~place_leg_send BY <1>1, <1>3 DEF place_leg_send, GivenUp, ExitStep, UnwindStep
  <2> QED BY <1>1, <1>3, <2>1, SendGoesLive
<1>4. CASE World
  <2>1. UNCHANGED <<pc, outcome>> BY <1>0, <1>4, WorldForm DEF localVars
  <2> QED BY <1>1, <1>3, <2>1
<1>5. CASE ExitNext BY <1>0, <1>2, <1>5, ExitKeepsPlace DEF GivenUp
<1>6. CASE EntryNext /\ ~enter
  <2>1. pc \in EntryStep BY <1>6, HookPlaces
  <2>2. CASE legEnds("FAILED") /\ (record_leg_rejection \/ mark_intent_failed \/ read_back)
    <3>1. ~Live(E(leg)) /\ book' = book BY <2>2, GivesUp
    <3>2. pc' \in {"u_mark", "e_error"} BY <1>0, <2>2 DEF legEnds, afterLeg, LocalsOK, Leg
    <3>3. l = leg
      <4> SUFFICES ASSUME l # leg PROVE FALSE OBVIOUS
      <4>1. outcome' = [outcome EXCEPT ![leg] = "FAILED"] BY <2>2 DEF legEnds
      <4>2. pc \in GivenUp BY <1>0, <1>1, <4>1
      <4> QED BY <2>2, <4>2 DEF record_leg_rejection, mark_intent_failed, read_back, GivenUp,
             ExitStep, UnwindStep
    <3> QED BY <3>1, <3>2, <3>3 DEF Live, GivenUp, UnwindStep
  <2>3. CASE (legEnds("FILLED") \/ legEnds("AMBIGUOUS")) /\ pc \notin GivenUp
    <3>1. PICK result \in {"FILLED", "AMBIGUOUS"} : outcome' = [outcome EXCEPT ![leg] = result]
      BY <2>3 DEF legEnds
    <3>2. outcome[l] = "FAILED" BY <1>0, <3>1
    <3> QED BY <1>1, <2>3, <3>2
  <2>4. CASE outcome' = outcome /\ (pc \in GivenUp => pc' \in GivenUp)
    BY <1>1, <1>3, <2>1, <2>4
  <2> QED BY <1>0, <1>6, <2>2, <2>3, <2>4, EntryOutcome
<1>7. CASE ReconcileNext \/ start \/ enter \/ recover_settled \/ recover_exit_pending
           \/ recover_entry_pending \/ attach \/ trigger_exit
  <2>1. pc \notin GivenUp
    BY <1>7, HookPlaces DEF start, enter, recover_settled, recover_exit_pending,
       recover_entry_pending, attach, trigger_exit, GivenUp, ExitStep, UnwindStep
  <2>2. outcome' = outcome
    BY <1>0, <1>7 DEF ReconcileNext, fetch_orders, intents_reconciled, detect_orphans,
        startup_aborts, reconcile_one_position, reconcile_one_intent, start, enter,
        recover_settled, recover_exit_pending, recover_entry_pending, attach, trigger_exit,
        hookReturns, localVars
  <2> QED BY <1>1, <2>1, <2>2
<1> QED BY <1>4, <1>5, <1>6, <1>7 DEF Next, Hooks

LEMMA FillInvStep ==
    ASSUME FillsAreSeen
    PROVE  IndInv /\ IndInv' /\ SaleInv /\ SaleInv' /\ FillInv /\ [Next]_vars => FillInv'
<1> SUFFICES ASSUME IndInv, IndInv', SaleInv, SaleInv', FillInv, [Next]_vars PROVE FillInv'
  OBVIOUS
<1>1. /\ NothingInPart /\ FullIsComplete /\ EntryRowFollows /\ UnsentIsAbsent /\ FailedIsOver
      /\ EntryOnce'
  BY DEF FillInv, SaleInv
<1>2. CASE Next
  <2>1. NothingInPart' /\ FullIsComplete' BY <1>1, <1>2, FillsStep
  <2>2. EntryRowFollows' /\ UnsentIsAbsent' BY <1>1, <1>2, EntryRowStep, UnsentStep
  <2>3. FailedIsOver' BY <1>1, <1>2, FailedStep
  <2> QED BY <2>1, <2>2, <2>3 DEF FillInv
<1>3. CASE UNCHANGED vars
  <2>1. UNCHANGED <<row, book, pc, leg, polled, seen, outcome>>
    BY <1>3 DEF vars, dbVars, orderVars, brokerVars, localVars
  <2> QED BY <1>1, <2>1 DEF FillInv, NothingInPart, FullIsComplete, EntryRowFollows,
         UnsentIsAbsent, FailedIsOver, LastOrder, Live
<1> QED BY <1>2, <1>3

\* A complete fill of a leg is recognised by _confirm_and_record, whichever of poll and
\* push saw it first: the entry does not give the leg up as FAILED.  That is so where
\* no connection is reset under a call and a fill is not both partial and pushed, with
\* any number of crashes and faults; the run push_hides_fill shows the fill that is
\* overlooked when it is both.
THEOREM FillIsRecognised ==
    ASSUME FillsAreSeen
    PROVE  Spec => []CompleteFillIsRecognised
<1>1. Init => FillInv
  <2> SUFFICES ASSUME Init PROVE FillInv OBVIOUS
  <2>1. /\ pc = "down" /\ \A t \in Tag : book[t] = <<>>
        /\ \A l \in Leg : outcome[l] = "none"
    BY DEF Init, NoBook
  <2>2. NothingInPart /\ FullIsComplete BY <2>1 DEF NothingInPart, FullIsComplete
  <2>3. EntryRowFollows /\ UnsentIsAbsent BY <2>1 DEF EntryRowFollows, UnsentIsAbsent
  <2>4. FailedIsOver BY <2>1 DEF FailedIsOver
  <2> QED BY <2>2, <2>3, <2>4 DEF FillInv
<1>2. IndInv /\ IndInv' /\ SaleInv /\ SaleInv' /\ FillInv /\ [Next]_vars => FillInv'
  BY FillInvStep
<1>3. IndInv /\ FillInv => CompleteFillIsRecognised
  <2> SUFFICES ASSUME IndInv, FillInv, pc \in EntryStep, NEW l \in Leg, outcome[l] = "FAILED",
                      FullyFilled(E(l))
               PROVE  FALSE
    BY DEF CompleteFillIsRecognised
  <2>1. E(l) \in Tag /\ book[E(l)] \in Seq(Order) BY TagFacts DEF IndInv, TypeOK, BrokerOK
  <2>2. book[E(l)] # <<>> /\ LastOrder(E(l)).filled = Qty BY DEF FullyFilled
  <2>3. Len(book[E(l)]) \in DOMAIN book[E(l)] BY <2>1, <2>2
  <2>4. LastOrder(E(l)).status = "COMPLETE"
    BY <2>1, <2>2, <2>3 DEF FillInv, FullIsComplete, LastOrder
  <2>5. ~Live(E(l)) BY DEF FillInv, FailedIsOver
  <2> QED BY <2>3, <2>4, <2>5 DEF Live, LastOrder
<1> QED BY <1>1, <1>2, <1>3, SaleInvHolds, IndInvStep, SaleInvStep, PTL DEF Spec

--------------------------------------------------------------------------------
(* An order that the platform did not send.  Most of the ledger falls with it; what  *)
(* the theorems of module Strangers need is kept by every step.                       *)

\* A step that stays where it is loses no order.
LEMMA PlaceKept ==
    ASSUME TypeOK, PcMatchesState, PolledExists, UNCHANGED <<posState, pc, leg>>,
           \A t \in Tag : book[t] # <<>> => book'[t] # <<>>
    PROVE  PcMatchesState' /\ PolledExists'
<1>1. E(leg) \in Tag /\ X(leg) \in Tag /\ U \in Tag BY TagFacts DEF TypeOK, LocalsOK
<1> QED BY <1>1 DEF PcMatchesState, PolledExists

\* Outside entry and exit the two parts ask for nothing.
LEMMA PlaceLeft ==
    ASSUME pc' \notin EntryStep \cup ExitStep
    PROVE  PcMatchesState' /\ PolledExists'
BY DEF PcMatchesState, PolledExists, EntryStep, ExitStep

\* Entry keeps the state its step tells, and polls only what was acknowledged.
LEMMA EntryPlace ==
    ASSUME TypeOK, PcMatchesState, PolledExists, EntryNext
    PROVE  PcMatchesState' /\ PolledExists'
<1>0. E(leg) \in Tag /\ U \in Tag BY TagFacts DEF TypeOK, LocalsOK
<1>A. ASSUME pc \in EntryStep \ {"e_create", "e_attach"}, posState' = posState,
             pc' \in EntryStep \ {"e_create", "e_ack", "e_poll", "u_poll"}
      PROVE  PcMatchesState' /\ PolledExists'
  BY <1>A DEF PcMatchesState, PolledExists, EntryStep, ExitStep
<1>B. ASSUME pc \in EntryStep \ {"e_create", "e_attach"}, posState' = posState,
             NEW result \in {"FILLED", "FAILED", "AMBIGUOUS"}, legEnds(result)
      PROVE  PcMatchesState' /\ PolledExists'
  <2>1. pc' \in {"e_mark", "e_error", "e_break", "e_final", "u_mark"}
    BY <1>B, LegEndsStep DEF TypeOK
  <2> QED BY <1>A, <1>B, <2>1 DEF EntryStep
<1>1. CASE enter
  BY <1>1 DEF enter, dbVars, positionVars, PcMatchesState, PolledExists, EntryStep, ExitStep
<1>2. CASE create_durable_record
  BY <1>2 DEF create_durable_record, PcMatchesState, PolledExists, EntryStep, ExitStep
<1>3. CASE place_leg_send
  <2>1. pc = "e_send" /\ posState' = posState
    BY <1>3 DEF place_leg_send, keepsPosition, positionVars
  <2>2. CASE Acknowledges(E(leg)) /\ pc' = "e_ack" /\ UNCHANGED localVars
    <3>1. book'[E(leg)] # <<>> BY <1>0, <2>2, SendShape DEF TypeOK
    <3> QED BY <2>1, <2>2, <3>1 DEF localVars, PcMatchesState, PolledExists, EntryStep, ExitStep
  <2>3. CASE legEnds("AMBIGUOUS") BY <1>B, <2>1, <2>3 DEF EntryStep
  <2>4. CASE pc' \in {"e_reject", "e_unsent"} BY <1>A, <2>1, <2>4 DEF EntryStep
  <2> QED BY <1>3, <2>2, <2>3, <2>4 DEF place_leg_send
<1>4. CASE record_leg_rejection \/ mark_intent_failed
  BY <1>4, <1>B DEF record_leg_rejection, mark_intent_failed, keepsPosition, positionVars, EntryStep
<1>5. CASE confirm_and_record
  BY <1>5 DEF confirm_and_record, keepsPosition, positionVars, localVars, PcMatchesState,
              PolledExists, EntryStep, ExitStep
<1>6. CASE poll_entry
  BY <1>6, <1>A, <1>B DEF poll_entry, keepsPosition, positionVars, EntryStep
<1>7. CASE read_back
  <2>1. CASE pc' = "idle" BY <2>1, PlaceLeft DEF EntryStep, ExitStep
  <2>2. CASE \E result \in {"FILLED", "FAILED"} : legEnds(result)
    <3>1. pc = "e_read" /\ posState' = posState
      BY <1>7 DEF read_back, keepsPosition, positionVars
    <3> QED BY <1>B, <2>2, <3>1 DEF EntryStep
  <2> QED BY <1>7, <2>1, <2>2 DEF read_back, hookRaises
<1>8. CASE reconcile_order_load("e_load", "e_apply")
  BY <1>8, <1>A DEF reconcile_order_load, dbVars, positionVars, EntryStep
<1>9. CASE reconcile_order_terminal("e_apply", "e_read")
  BY <1>9, <1>A DEF reconcile_order_terminal, positionVars, EntryStep
<1>10. CASE finalize_open
  BY <1>10 DEF finalize_open, PcMatchesState, PolledExists, EntryStep, ExitStep
<1>11. CASE finalize_open_fails \/ place_leg_mark \/ auto_unwind_mark \/ auto_unwind_poll
             \/ auto_unwind_record \/ entry_record_break
  BY <1>11, <1>A DEF finalize_open_fails, place_leg_mark, auto_unwind_mark, auto_unwind_poll,
        auto_unwind_record, entry_record_break, keepsPosition, dbVars, positionVars, EntryStep
<1>12. CASE record_orphan_fill \/ entry_fail_to_error
  BY <1>12, PlaceLeft DEF record_orphan_fill, entry_fail_to_error, hookReturns, EntryStep, ExitStep
<1>13. CASE auto_unwind_send
  <2>1. CASE Acknowledges(U) /\ pc' = "u_poll"
    <3>1. book'[U] # <<>> BY <1>0, <2>1, SendShape DEF TypeOK
    <3> QED BY <1>13, <2>1, <3>1 DEF auto_unwind_send, keepsPosition, positionVars,
          PcMatchesState, PolledExists, EntryStep, ExitStep
  <2>2. CASE pc' = "e_break"
    BY <1>13, <1>A, <2>2 DEF auto_unwind_send, keepsPosition, positionVars, EntryStep
  <2> QED BY <1>13, <2>1, <2>2 DEF auto_unwind_send
<1> QED
  BY <1>1, <1>2, <1>3, <1>4, <1>5, <1>6, <1>7, <1>8, <1>9, <1>10, <1>11, <1>12, <1>13 DEF EntryNext

\* So does exit, which may also adopt an order it finds.
LEMMA ExitPlace ==
    ASSUME TypeOK, PcMatchesState, PolledExists, ExitNext
    PROVE  PcMatchesState' /\ PolledExists'
<1>0. X(leg) \in Tag BY TagFacts DEF TypeOK, LocalsOK
<1>A. ASSUME pc \in ExitStep \ {"x_prepare"}, posState' = posState,
             pc' \in ExitStep \ {"x_prepare", "x_ack", "x_poll", "x_adopt"}
      PROVE  PcMatchesState' /\ PolledExists'
  BY <1>A DEF PcMatchesState, PolledExists, EntryStep, ExitStep
<1>B. ASSUME pc \in ExitStep \ {"x_prepare"}, posState' = posState, NEW result, closeEnds(result)
      PROVE  PcMatchesState' /\ PolledExists'
  BY <1>A, <1>B, CloseEndsStep DEF ExitStep
<1>1. CASE prepare_exit
  <2>1. CASE posState \in {"OPEN", "EXIT_PENDING"}
    BY <1>1, <2>1 DEF prepare_exit, PcMatchesState, PolledExists, EntryStep, ExitStep
  <2>2. CASE posState \notin {"OPEN", "EXIT_PENDING"}
    BY <1>1, <2>2, PlaceLeft DEF prepare_exit, hookReturns, EntryStep, ExitStep
  <2> QED BY <2>1, <2>2
<1>2. CASE close_leg
  BY <1>2, <1>A, <1>B DEF close_leg, keepsPosition, positionVars, ExitStep
<1>3. CASE find_order_by_tag
  <2>1. pc = "x_find" /\ posState' = posState /\ book' = book
    BY <1>3 DEF find_order_by_tag, keepsPosition, positionVars
  <2>2. CASE closeEnds("AMBIGUOUS") BY <1>B, <2>1, <2>2 DEF ExitStep
  <2>3. CASE pc' = (IF book[X(leg)] = <<>> THEN "x_mark" ELSE "x_adopt") /\ UNCHANGED localVars
    BY <2>1, <2>3 DEF localVars, PcMatchesState, PolledExists, EntryStep, ExitStep
  <2> QED BY <1>3, <2>2, <2>3 DEF find_order_by_tag
<1>4. CASE place_close_send
  <2>1. pc = "x_send" /\ posState' = posState
    BY <1>4 DEF place_close_send, keepsPosition, positionVars
  <2>2. CASE Acknowledges(X(leg)) /\ pc' = "x_ack" /\ UNCHANGED localVars
    <3>1. book'[X(leg)] # <<>> BY <1>0, <2>2, SendShape DEF TypeOK
    <3> QED BY <2>1, <2>2, <3>1 DEF localVars, PcMatchesState, PolledExists, EntryStep, ExitStep
  <2>3. CASE closeEnds("AMBIGUOUS") BY <1>B, <2>1, <2>3 DEF ExitStep
  <2>4. CASE pc' \in {"x_reject", "x_unsent", "x_send"} BY <1>A, <2>1, <2>4 DEF ExitStep
  <2> QED BY <1>4, <2>1, <2>2, <2>3, <2>4 DEF place_close_send
<1>5. CASE adopt_existing_order \/ record_close_rejection \/ close_never_sent \/ poll_close
            \/ record_close
  BY <1>5, <1>A, <1>B DEF adopt_existing_order, record_close_rejection, close_never_sent,
        poll_close, record_close, keepsPosition, positionVars, ExitStep
<1>6. CASE place_close_mark
  BY <1>6, <1>A DEF place_close_mark, keepsPosition, positionVars, ExitStep
<1>7. CASE confirm_close
  BY <1>7 DEF confirm_close, keepsPosition, positionVars, localVars, PcMatchesState,
              PolledExists, EntryStep, ExitStep
<1>8. CASE reconcile_order_load("x_load", "x_apply")
  BY <1>8, <1>A DEF reconcile_order_load, dbVars, positionVars, ExitStep
<1>9. CASE reconcile_order_terminal("x_apply", "x_record")
  BY <1>9, <1>A DEF reconcile_order_terminal, positionVars, ExitStep
<1>10. CASE finalize_closed \/ record_divergence \/ exit_fail_to_error
  BY <1>10, PlaceLeft DEF finalize_closed, record_divergence, exit_fail_to_error, hookReturns,
                          EntryStep, ExitStep
<1>11. CASE finalize_closed_fails \/ exit_record_break
  BY <1>11, <1>A DEF finalize_closed_fails, exit_record_break, dbVars, positionVars, ExitStep
<1> QED
  BY <1>1, <1>2, <1>3, <1>4, <1>5, <1>6, <1>7, <1>8, <1>9, <1>10, <1>11 DEF ExitNext

\* No step of the platform or its world disturbs the two parts.
LEMMA PlaceStep ==
    ASSUME TypeOK, PcMatchesState, PolledExists, Next
    PROVE  PcMatchesState' /\ PolledExists'
<1>1. CASE World
  <2>1. CASE BrokerMoves
    BY <2>1, PlaceKept, BrokerMovesForm, BrokerMovesShape DEF dbVars, positionVars, localVars
  <2>2. CASE UNCHANGED <<pc, localVars, book>>
    BY <1>1, <2>2, PlaceKept, WorldSteps DEF positionVars, localVars
  <2>3. CASE pc' \in {"idle", "down"} BY <2>3, PlaceLeft DEF EntryStep, ExitStep
  <2>4. BrokerMoves \/ book' = book
    BY <1>1 DEF World, process, time_passes, engage_kill_switch, disengage_kill_switch, unfreeze,
                hook_raises, monitor_raises, crash, brokerVars
  <2> QED BY <1>1, <2>1, <2>2, <2>3, <2>4, WorldSteps
<1>2. CASE ReconcileNext
  BY <1>2, PlaceLeft DEF ReconcileNext, fetch_orders, intents_reconciled, detect_orphans,
        startup_aborts, reconcile_one_position, reconcile_one_intent, EntryStep, ExitStep
<1>3. CASE start \/ recover_settled \/ recover_entry_pending \/ attach
  BY <1>3, PlaceLeft DEF start, recover_settled, recover_entry_pending, attach, hookReturns,
                         EntryStep, ExitStep
<1>4. CASE recover_exit_pending \/ trigger_exit
  BY <1>4 DEF recover_exit_pending, trigger_exit, PcMatchesState, PolledExists, EntryStep, ExitStep
<1> QED BY <1>1, <1>2, <1>3, <1>4, EntryPlace, ExitPlace DEF Next, Hooks

\* What reconciliation has noted stays noted while it runs.
LEMMA NotedStays ==
    ASSUME NEW t \in Tag, Noted(t), view' = view, breaks \subseteq breaks',
           posState \in {"ERROR", "CLOSED"} => posState' \in {"ERROR", "CLOSED"}
    PROVE  Noted(t)'
BY DEF Noted

\* Examining one intent notes the orders under its tag if they are two, and leaves what
\* was noted of the others.
LEMMA IntentNoted ==
    ASSUME TypeOK, DuplicatesNoted, NEW t \in Tag, reconcile_one_intent(t)
    PROVE  DuplicatesNoted'
<1>1. pc = "r_intents" /\ pc' = pc /\ todo' = todo \ {t} /\ view' = view
  BY DEF reconcile_one_intent
<1>2. /\ breaks \subseteq breaks' /\ (posState \in {"ERROR", "CLOSED"} => posState' = posState)
      /\ intent' = intent \/ \E s \in {"CONFIRMED", "FAILED"} : intent' = [intent EXCEPT ![t] = s]
  BY DEF reconcile_one_intent, flag_duplicate_orders, Errored, fail_intent_not_at_broker,
         resolve_intent_against_order, apply_fill, flagVars
<1>3. Len(view[t]) > 1 => posState' \in {"ERROR", "CLOSED"} /\ breaks' # {}
  BY DEF reconcile_one_intent, flag_duplicate_orders, Errored
<1>4. Noted(t)' BY <1>1, <1>3 DEF Noted
<1>5. \A s \in Tag : s # t => intent'[s] = intent[s]
  BY <1>2 DEF TypeOK, OrdersOK
<1>6. \A s \in Tag : Noted(s) => Noted(s)' BY <1>1, <1>2, NotedStays
<1> QED BY <1>1, <1>4, <1>5, <1>6 DEF DuplicatesNoted

\* Startup looks at an orderbook only after it has fetched one, and leaves no tag with
\* two orders unnoted.
LEMMA NotedStep ==
    ASSUME TypeOK, DuplicatesNoted, Next
    PROVE  DuplicatesNoted'
<1>1. CASE pc' \notin StartStep \cup {"down"} BY <1>1 DEF DuplicatesNoted, StartStep
<1>2. CASE World
  <2>1. CASE UNCHANGED <<pc, localVars>>
    BY <1>2, <2>1, WorldSteps DEF DuplicatesNoted, Noted, positionVars, localVars
  <2>2. CASE pc' \in {"idle", "down"} /\ dropLocals BY <2>2 DEF DuplicatesNoted, dropLocals
  <2> QED BY <1>2, <2>1, <2>2, WorldSteps
<1>3. CASE start BY <1>3 DEF start, localVars, DuplicatesNoted
<1>4. CASE ReconcileNext
  <2>1. CASE fetch_orders
    <3>1. CASE pc' = "r_intents"
      BY <2>1, <3>1 DEF fetch_orders, dbVars, orderVars, DuplicatesNoted
    <3>2. CASE pc' = "s_recover" /\ UNCHANGED <<view, todo>>
      <4>1. view' = NoBook BY <2>1, <3>2 DEF fetch_orders, DuplicatesNoted
      <4>2. \A t \in Tag : view'[t] = <<>> BY <4>1 DEF NoBook
      <4>3. \A t \in Tag : Len(view'[t]) = 0 BY <4>2
      <4>4. \A t \in Tag : Noted(t)' BY <4>3 DEF Noted
      <4> QED BY <3>2, <4>4 DEF DuplicatesNoted
    <3> QED BY <2>1, <3>1, <3>2 DEF fetch_orders
  <2>2. CASE intents_reconciled
    BY <2>2 DEF intents_reconciled, dbVars, positionVars, orderVars, flagVars, localVars,
                DuplicatesNoted, Noted
  <2>3. CASE detect_orphans
    <3>1. pc = "r_orphans" /\ pc' = "r_position" /\ UNCHANGED <<intent, view, posState>>
          /\ breaks \subseteq breaks'
      BY <2>3 DEF detect_orphans, positionVars, orderVars, localVars
    <3>2. \A t \in Tag : Noted(t) => Noted(t)' BY <3>1, NotedStays
    <3> QED BY <3>1, <3>2 DEF DuplicatesNoted
  <2>4. CASE reconcile_one_position
    <3>1. pc = "r_position" /\ pc' = "s_recover" /\ UNCHANGED <<intent, view>>
      BY <2>4 DEF reconcile_one_position, orderVars, localVars
    <3>2. breaks \subseteq breaks' /\ (posState \in {"ERROR", "CLOSED"} => posState' = posState)
      BY <2>4 DEF reconcile_one_position, reconcile_entry_pending, reconcile_exit_pending,
                  reconcile_open, leaveAlone, flag_for_finalization, error_position
    <3>3. \A t \in Tag : Noted(t) => Noted(t)' BY <3>1, <3>2, NotedStays
    <3> QED BY <3>1, <3>3 DEF DuplicatesNoted
  <2>5. ASSUME NEW t \in Tag, startup_aborts(t) PROVE DuplicatesNoted'
    BY <2>5 DEF startup_aborts, dropLocals, DuplicatesNoted
  <2> QED BY <1>4, <2>1, <2>2, <2>3, <2>4, <2>5, IntentNoted DEF ReconcileNext
<1> QED BY <1>1, <1>2, <1>3, <1>4, HooksStayUp DEF Next, Hooks

\* A foreign order is one more in the book; no row and no memory of the process knows it.
LEMMA StrangerStep ==
    ASSUME StrangerInv, NEW t \in Tag, StrangerTrades(t)
    PROVE  StrangerInv'
<1> DEFINE o == [status |-> "COMPLETE", filled |-> Qty, price |-> "real"]
<1>1. o \in Order BY ConstantsAssumption DEF ConstantsAssumption, Order, OrderStatus, Price
<1>2. book \in [Tag -> Seq(Order)] BY DEF StrangerInv, TypeOK, BrokerOK
<1>3. book' = [book EXCEPT ![t] = Append(@, o)] BY DEF StrangerTrades
<1> HIDE DEF o
<1>4. Append(book[t], o) \in Seq(Order) /\ Append(book[t], o) # <<>> BY <1>1, <1>2
<1>5. book' \in [Tag -> Seq(Order)] /\ \A s \in Tag : book[s] # <<>> => book'[s] # <<>>
  BY <1>2, <1>3, <1>4
<1>6. UNCHANGED <<dbVars, squared, pc, localVars, runnerVars, worldVars>> BY DEF StrangerTrades
<1>7. TypeOK' BY <1>5, <1>6, Kept DEF StrangerInv, TypeOK, BrokerOK, dbVars
<1>8. PcMatchesState' /\ PolledExists'
  BY <1>5, <1>6, PlaceKept DEF StrangerInv, dbVars, positionVars, localVars
<1>9. DuplicatesNoted'
  BY <1>6 DEF StrangerInv, DuplicatesNoted, Noted, dbVars, positionVars, orderVars, flagVars, localVars
<1> QED BY <1>7, <1>8, <1>9 DEF StrangerInv

\* The invariant of the account that others act on is inductive.
LEMMA StrangerInvStep ==
    ASSUME StrangerInv, [Next \/ \E t \in Tag : StrangerTrades(t)]_vars
    PROVE  StrangerInv'
<1>1. CASE Next
  <2>1. [Next]_vars BY <1>1
  <2>2. TypeOK' BY <2>1, TypeStep DEF StrangerInv
  <2> QED BY <1>1, <2>2, PlaceStep, NotedStep DEF StrangerInv
<1>2. CASE \E t \in Tag : StrangerTrades(t) BY <1>2, StrangerStep
<1>3. CASE UNCHANGED vars
  <2>1. TypeOK' BY <1>3, TypeStep DEF StrangerInv
  <2> QED BY <1>3, <2>1 DEF vars, dbVars, positionVars, orderVars, flagVars, brokerVars, localVars,
        StrangerInv, PcMatchesState, PolledExists, DuplicatesNoted, Noted
<1> QED BY <1>1, <1>2, <1>3

\* It holds in every reachable state.
LEMMA StrangerInvHolds == StrangerSpec => []StrangerInv
<1>1. Init => StrangerInv
  <2>1. Init => TypeOK /\ Ledger BY InitType, InitLedger
  <2>2. Init => DuplicatesNoted BY DEF Init, DuplicatesNoted
  <2> QED BY <2>1, <2>2 DEF StrangerInv, Ledger
<1> QED BY <1>1, StrangerInvStep, PTL DEF StrangerSpec

\* When recovery begins, no intent in doubt has two orders under its tag unless the
\* position is out of trading and a break tells of it (_reconcile_one_intent), also with
\* an order in the book that the platform did not send.
THEOREM DuplicateStops == StrangerSpec => []DuplicateInDoubtStops
<1>1. StrangerInv => DuplicateInDoubtStops
  BY DEF StrangerInv, DuplicatesNoted, Noted, DuplicateInDoubtStops
<1> QED BY <1>1, StrangerInvHolds, PTL

\* An order that the platform did not send moves the position along no edge that
\* strategy_1/state_machine.py does not draw.
THEOREM StrangersKeepTheGraph == StrangerSpec => FollowsStateMachine
<1>1. Init => PSM!Init BY DEF Init, PSM!Init, PSM!IDLE
<1>2. ASSUME StrangerInv, [Next \/ \E t \in Tag : StrangerTrades(t)]_vars PROVE [PSM!Next]_posState
  <2>1. CASE UNCHANGED vars BY <2>1 DEF vars, dbVars, positionVars
  <2>2. CASE Next BY <1>2, <2>2, LegalMoves, MovesAreAllowed DEF StrangerInv
  <2>3. CASE \E t \in Tag : StrangerTrades(t) BY <2>3 DEF StrangerTrades, dbVars, positionVars
  <2> QED BY <1>2, <2>1, <2>2, <2>3
<1> QED BY <1>1, <1>2, StrangerInvHolds, PTL DEF StrangerSpec, PSM!Spec, FollowsStateMachine
================================================================================
