----------------------------- MODULE Strategy1Proofs -----------------------------
(***************************************************************************)
(* What holds for every quantity, environment and number of crashes and faults, *)
(* in three parts: the ledger (an order is announced before it is sent and is    *)
(* sent once; the type of polled needs an order to have been polled, so the type *)
(* invariant is proved together with it), the legs that were sold, and the       *)
(* orders rows, which say no more than the broker did and only advance.          *)
(***************************************************************************)
EXTENDS Strategy1Properties, TLAPS

--------------------------------------------------------------------------------
(* Every step keeps every variable in its type, given that an order being polled *)
(* is in the book (PolledExists). *)

\* The tags the hooks use are tags.
LEMMA TagFacts ==
    /\ \A l \in Leg : E(l) \in Tag /\ X(l) \in Tag
    /\ U \in Tag
    /\ \A t \in Tag : t[2] \in Leg
BY DEF Tag, Leg, E, X, U

\* The empty values the locals are reset to have the types of the locals.
LEMMA NoValues == NoOrder \in Order \cup {NoOrder} /\ NoRow \in Row /\ NoBook \in [Tag -> Seq(Order)]
BY ConstantsAssumption DEF NoRow, Row, NoBook, Price

\* The state before the first start is of type.
LEMMA InitType == Init => TypeOK
<1> SUFFICES ASSUME Init PROVE TypeOK OBVIOUS
<1>1. PositionOK BY DEF Init, PositionOK
<1>2. TradesOK BY DEF Init, TradesOK, TradeStatus, Price
<1>3. OrdersOK BY NoValues DEF Init, OrdersOK, IntentStatus
<1>4. FlagsOK BY DEF Init, FlagsOK
<1>5. BrokerOK BY NoValues DEF Init, BrokerOK
<1>6. LocalsOK BY NoValues DEF Init, LocalsOK, Leg, Outcome
<1>7. RunnerOK BY DEF Init, RunnerOK
<1>8. WorldOK
  <2>1. 0 \in 0..MaxCrashes /\ 0 \in 0..MaxFaults BY ConstantsAssumption DEF ConstantsAssumption
  <2>2. clock = "pre" /\ halted = FALSE /\ crashes = 0 /\ faults = 0 BY DEF Init
  <2> QED BY <2>1, <2>2 DEF WorldOK
<1>9. pc \in Step BY DEF Init, Step
<1> QED BY <1>1, <1>2, <1>3, <1>4, <1>5, <1>6, <1>7, <1>8, <1>9 DEF TypeOK

\* A new orders row, acknowledged or rejected, is a row.
LEMMA RowOperators ==
    ASSUME NEW r \in Row
    PROVE  acknowledged(r) \in Row /\ rejectedUnsent(r) \in Row
BY ConstantsAssumption DEF Row, acknowledged, rejectedUnsent, OrderStatus, Price

\* What one broker snapshot makes of an orders row is a row.
LEMMA UpdateType ==
    ASSUME NEW r \in Row, NEW bo \in Order
    PROVE  apply_broker_order_update(r, bo) \in Row
BY ConstantsAssumption
   DEF Row, Order, OrderStatus, Terminal, Price, orZero, apply_broker_order_update

\* The book with one more order is a book.
LEMMA AcceptedType ==
    ASSUME BrokerOK, NEW t \in Tag
    PROVE  Accepted(t) \in [Tag -> Seq(Order)]
<1> DEFINE o == [status |-> "OPEN", filled |-> 0, price |-> "none"]
<1>1. o \in Order BY ConstantsAssumption DEF ConstantsAssumption, Order, OrderStatus, Price
<1>2. book[t] \in Seq(Order) BY DEF BrokerOK
<1>3. Append(book[t], o) \in Seq(Order) BY <1>1, <1>2
<1> QED BY <1>3 DEF Accepted, BrokerOK

\* A part none of whose variables a step changes keeps its type.
LEMMA Kept ==
    /\ PositionOK /\ UNCHANGED positionVars => PositionOK'
    /\ TradesOK /\ UNCHANGED tradeVars => TradesOK'
    /\ OrdersOK /\ UNCHANGED orderVars => OrdersOK'
    /\ FlagsOK /\ UNCHANGED flagVars => FlagsOK'
    /\ BrokerOK /\ UNCHANGED brokerVars => BrokerOK'
    /\ LocalsOK /\ UNCHANGED localVars => LocalsOK'
    /\ RunnerOK /\ UNCHANGED runnerVars => RunnerOK'
    /\ WorldOK /\ UNCHANGED worldVars => WorldOK'
<1>1. PositionOK /\ UNCHANGED positionVars => PositionOK' BY DEF PositionOK, positionVars
<1>2. TradesOK /\ UNCHANGED tradeVars => TradesOK' BY DEF TradesOK, tradeVars
<1>3. OrdersOK /\ UNCHANGED orderVars => OrdersOK' BY DEF OrdersOK, orderVars
<1>4. FlagsOK /\ UNCHANGED flagVars => FlagsOK' BY DEF FlagsOK, flagVars
<1>5. BrokerOK /\ UNCHANGED brokerVars => BrokerOK' BY DEF BrokerOK, brokerVars
<1>6. LocalsOK /\ UNCHANGED localVars => LocalsOK' BY DEF LocalsOK, localVars
<1>7. RunnerOK /\ UNCHANGED runnerVars => RunnerOK' BY DEF RunnerOK, runnerVars
<1>8. WorldOK /\ UNCHANGED worldVars => WorldOK' BY DEF WorldOK, worldVars
<1> QED BY <1>1, <1>2, <1>3, <1>4, <1>5, <1>6, <1>7, <1>8

--------------------------------------------------------------------------------
(* What the shared operators do to the parts they assign. *)

\* Leaving a hook leaves locals of type.
LEMMA DropLocalsType == dropLocals => LocalsOK'
BY NoValues DEF dropLocals, LocalsOK, Leg, Outcome

\* A hook that returned leaves the runner RUNNING and idle.
LEMMA HookReturnsType ==
    ASSUME RunnerOK, NEW w \in BOOLEAN, hookReturns(w)
    PROVE  LocalsOK' /\ RunnerOK' /\ pc' \in Step
BY DropLocalsType DEF hookReturns, RunnerOK, Step

\* A hook that raised leaves the step and the locals of type.
LEMMA HookRaisesType ==
    ASSUME NEW S, hookRaises(S)
    PROVE  LocalsOK' /\ runner' = "FROZEN" /\ inst' \in S /\ pc' \in Step
BY DropLocalsType DEF hookRaises, Step

\* A break written, or its failure swallowed, keeps the flags and the fault budget.
LEMMA RecordBreakType ==
    ASSUME FlagsOK, WorldOK, NEW type \in BreakType, recordBreak(type)
    PROVE  breaks' \in SUBSET BreakType /\ faults' \in 0..MaxFaults
BY ConstantsAssumption DEF ConstantsAssumption, FlagsOK, WorldOK, recordBreak

\* _fail_to_error assigns the position a state and a reason of their columns.
LEMMA FailToErrorType ==
    ASSUME PositionOK, failToError
    PROVE  PositionOK' /\ inst' = "FROZEN"
BY DEF PositionOK, failToError, Errored, ExitReason

\* The end of an entry leg leads to a step of entry.
LEMMA LegEndsType ==
    ASSUME LocalsOK, NEW result \in {"FILLED", "FAILED", "AMBIGUOUS"}, legEnds(result),
           polled' \in Order \cup {NoOrder}
    PROVE  LocalsOK' /\ pc' \in Step
BY DEF LocalsOK, legEnds, afterLeg, Outcome, Leg, Step, EntryStep

\* The end of an exit leg leads to a step of exit.
LEMMA CloseEndsType ==
    ASSUME LocalsOK, NEW result \in {"CLOSED", "FAILED", "AMBIGUOUS"}, closeEnds(result)
    PROVE  LocalsOK' /\ pc' \in Step
BY DEF LocalsOK, closeEnds, other, Outcome, Leg, Step, ExitStep

--------------------------------------------------------------------------------
(* Type correctness, hook by hook. *)

\* reconcile_order_terminal, loading the row.
LEMMA LoadType ==
    ASSUME TypeOK, NEW from \in {"e_load", "x_load"}, NEW to \in {"e_apply", "x_apply"},
           reconcile_order_load(from, to)
    PROVE  TypeOK'
BY Kept, TagFacts DEF TypeOK, reconcile_order_load, dbVars, OrdersOK, LocalsOK, E, X,
                      Step, EntryStep, ExitStep

\* The poll path is the only place that reads polled, which by then is an order.
LEMMA UpdateRowType ==
    ASSUME NEW r \in Row, NEW bo \in Order \cup {NoOrder}
    PROVE  apply_broker_order_update(r, bo) \in Row
<1>1. CASE bo \in Order BY <1>1, UpdateType
<1>2. CASE bo = NoOrder
  <2>1. bo.status = "NONE" BY <1>2 DEF NoOrder
  <2>2. apply_broker_order_update(r, bo) = r BY <2>1 DEF apply_broker_order_update, Terminal
  <2> QED BY <2>2
<1> QED BY <1>1, <1>2

\* reconcile_order_terminal, writing the row.
LEMMA TerminalType ==
    ASSUME TypeOK, NEW from \in {"e_apply", "x_apply"}, NEW to \in {"e_read", "x_record"},
           reconcile_order_terminal(from, to)
    PROVE  TypeOK'
<1> DEFINE t == <<IF from = "e_apply" THEN "E" ELSE "X", leg>>
<1>1. t \in Tag BY TagFacts DEF TypeOK, LocalsOK, E, X
<1>2. apply_broker_order_update(seen, polled) \in Row BY UpdateRowType DEF TypeOK, LocalsOK
<1>3. OrdersOK' BY <1>1, <1>2 DEF TypeOK, OrdersOK, reconcile_order_terminal
<1> QED BY <1>3, Kept DEF TypeOK, reconcile_order_terminal, Step, EntryStep, ExitStep

\* Whatever place_order answers, the book stays a book.
LEMMA SendType ==
    ASSUME BrokerOK, NEW t \in Tag, Acknowledges(t) \/ Refuses(t) \/ TimesOut(t) \/ NotSent(t)
    PROVE  book' \in [Tag -> Seq(Order)]
BY AcceptedType DEF BrokerOK, Acknowledges, Refuses, TimesOut, NotSent

\* The order polled under a tag that has one is an order.
LEMMA LastOrderType ==
    ASSUME BrokerOK, NEW t \in Tag, book[t] # <<>>
    PROVE  LastOrder(t) \in Order
BY DEF BrokerOK, LastOrder

\* Every step of entry_logic keeps the types.
LEMMA EntryType == TypeOK /\ PolledExists /\ EntryNext => TypeOK'
<1> SUFFICES ASSUME TypeOK, PolledExists, EntryNext PROVE TypeOK' OBVIOUS
<1> USE DEF TypeOK
<1>1. CASE enter
  BY <1>1, Kept DEF enter, approve_entry, dbVars, RunnerOK, Step, EntryStep
<1>2. CASE create_durable_record
  BY <1>2, Kept DEF create_durable_record, PositionOK, TradesOK, OrdersOK, LocalsOK,
                    Leg, TradeStatus, IntentStatus, Step, EntryStep
<1>3. CASE place_leg_mark
  BY <1>3, Kept, TagFacts DEF place_leg_mark, keepsPosition, OrdersOK, BrokerOK, LocalsOK,
                              IntentStatus, Step, EntryStep
<1>4. CASE place_leg_send
  <2>1. book' \in [Tag -> Seq(Order)]
    BY <1>4, SendType, TagFacts DEF place_leg_send, LocalsOK
  <2>2. LocalsOK' /\ pc' \in Step
    BY <1>4, Kept, LegEndsType DEF place_leg_send, LocalsOK, Step, EntryStep
  <2> QED BY <1>4, <2>1, <2>2, Kept DEF place_leg_send, keepsPosition, BrokerOK
<1>5. CASE record_leg_rejection
  <2>1. OrdersOK'
    BY <1>5, TagFacts, RowOperators DEF record_leg_rejection, OrdersOK, LocalsOK, IntentStatus
  <2>2. LocalsOK' /\ pc' \in Step
    BY <1>5, LegEndsType DEF record_leg_rejection, LocalsOK
  <2> QED BY <1>5, <2>1, <2>2, Kept DEF record_leg_rejection, keepsPosition, BrokerOK
<1>6. CASE mark_intent_failed
  <2>1. OrdersOK'
    BY <1>6, TagFacts DEF mark_intent_failed, OrdersOK, LocalsOK, IntentStatus
  <2>2. LocalsOK' /\ pc' \in Step
    BY <1>6, LegEndsType DEF mark_intent_failed, LocalsOK
  <2> QED BY <1>6, <2>1, <2>2, Kept DEF mark_intent_failed, keepsPosition, BrokerOK
<1>7. CASE confirm_and_record
  <2>1. OrdersOK'
    BY <1>7, TagFacts, RowOperators DEF confirm_and_record, OrdersOK, LocalsOK, IntentStatus
  <2> QED BY <1>7, <2>1, Kept DEF confirm_and_record, keepsPosition, BrokerOK, Step, EntryStep
<1>8. CASE poll_entry
  <2>1. book[E(leg)] # <<>> BY <1>8 DEF poll_entry, PolledExists
  <2>2. LastOrder(E(leg)) \in Order BY <2>1, LastOrderType, TagFacts DEF LocalsOK
  <2>3. LocalsOK' /\ pc' \in Step
    <3>1. CASE pc' = "e_load" /\ polled' = LastOrder(E(leg))
                 /\ UNCHANGED <<leg, seen, outcome, reason, todo, view>>
      BY <3>1, <2>2 DEF LocalsOK, Step, EntryStep
    <3>2. CASE legEnds("AMBIGUOUS") /\ UNCHANGED polled
      BY <3>2, LegEndsType DEF LocalsOK
    <3> QED BY <1>8, <3>1, <3>2 DEF poll_entry
  <2> QED BY <1>8, <2>3, Kept DEF poll_entry, keepsPosition, BrokerOK
<1>9. CASE read_back
  <2>1. CASE row[E(leg)].status = "COMPLETE" /\ row[E(leg)].price # "real"
    BY <1>9, <2>1, HookRaisesType, Kept
       DEF read_back, FlagsOK, RunnerOK
  <2>2. CASE ~(row[E(leg)].status = "COMPLETE" /\ row[E(leg)].price # "real")
    <3>1. OrdersOK'
      BY <1>9, <2>2, TagFacts DEF read_back, OrdersOK, LocalsOK, IntentStatus
    <3>2. LocalsOK' /\ pc' \in Step
      BY <1>9, <2>2, LegEndsType DEF read_back
    <3> QED BY <1>9, <2>2, <3>1, <3>2, Kept DEF read_back, keepsPosition, BrokerOK
  <2> QED BY <2>1, <2>2
<1>10. CASE reconcile_order_load("e_load", "e_apply")
  BY <1>10, LoadType
<1>11. CASE reconcile_order_terminal("e_apply", "e_read")
  BY <1>11, TerminalType
<1>12. CASE finalize_open
  <2>1. TradesOK' /\ OrdersOK'
    BY <1>12, TagFacts
       DEF finalize_open, TradesOK, OrdersOK, TradeStatus, IntentStatus, Row, Price
  <2> QED BY <1>12, <2>1, Kept DEF finalize_open, PositionOK, Step, EntryStep
<1>13. CASE finalize_open_fails
  BY <1>13, Kept, ConstantsAssumption
     DEF finalize_open_fails, ConstantsAssumption, dbVars, WorldOK, Step, EntryStep
<1>14. CASE record_orphan_fill
  <2>1. breaks' \in SUBSET BreakType /\ faults' \in 0..MaxFaults
    BY <1>14, RecordBreakType DEF record_orphan_fill, BreakType
  <2>2. LocalsOK' /\ RunnerOK' /\ pc' \in Step
    BY <1>14, HookReturnsType DEF record_orphan_fill, RunnerOK
  <2> QED BY <1>14, <2>1, <2>2, Kept DEF record_orphan_fill, FlagsOK, WorldOK
<1>15. CASE auto_unwind_mark
  BY <1>15, Kept, TagFacts DEF auto_unwind_mark, keepsPosition, OrdersOK, BrokerOK,
                               IntentStatus, Step, EntryStep
<1>16. CASE auto_unwind_send
  <2>1. book' \in [Tag -> Seq(Order)]
    BY <1>16, SendType, TagFacts DEF auto_unwind_send
  <2> QED BY <1>16, <2>1, Kept DEF auto_unwind_send, keepsPosition, BrokerOK, Step, EntryStep
<1>17. CASE auto_unwind_poll
  <2>1. LastOrder(U) \in Order
    BY <1>17, LastOrderType, TagFacts DEF auto_unwind_poll, PolledExists
  <2>2. LocalsOK'
    BY <1>17, <2>1 DEF auto_unwind_poll, LocalsOK
  <2> QED BY <1>17, <2>2, Kept DEF auto_unwind_poll, keepsPosition, BrokerOK, Step, EntryStep
<1>18. CASE auto_unwind_record
  <2>1. polled.price \in Price
    BY DEF LocalsOK, Order, NoOrder, Price
  <2>2. TradesOK' /\ OrdersOK' /\ LocalsOK'
    BY <1>18, <2>1, TagFacts
       DEF auto_unwind_record, TradesOK, OrdersOK, LocalsOK, TradeStatus, IntentStatus, Leg
  <2> QED BY <1>18, <2>2, Kept DEF auto_unwind_record, keepsPosition, BrokerOK, Step, EntryStep
<1>19. CASE entry_record_break
  <2>1. breaks' \in SUBSET BreakType /\ faults' \in 0..MaxFaults
    BY <1>19, RecordBreakType DEF entry_record_break, BreakType
  <2> QED BY <1>19, <2>1, Kept DEF entry_record_break, FlagsOK, WorldOK, Step, EntryStep
<1>20. CASE entry_fail_to_error
  <2>1. PositionOK' /\ inst' = "FROZEN" BY <1>20, FailToErrorType DEF entry_fail_to_error
  <2>2. LocalsOK' /\ RunnerOK' /\ pc' \in Step
    BY <1>20, HookReturnsType DEF entry_fail_to_error, RunnerOK
  <2> QED BY <1>20, <2>1, <2>2, Kept DEF entry_fail_to_error, FlagsOK
<1> QED
  BY <1>1, <1>2, <1>3, <1>4, <1>5, <1>6, <1>7, <1>8, <1>9, <1>10, <1>11, <1>12, <1>13,
     <1>14, <1>15, <1>16, <1>17, <1>18, <1>19, <1>20 DEF EntryNext

\* Every step of exit_logic keeps the types.
LEMMA ExitType == TypeOK /\ PolledExists /\ ExitNext => TypeOK'
<1> SUFFICES ASSUME TypeOK, PolledExists, ExitNext PROVE TypeOK' OBVIOUS
<1> USE DEF TypeOK
<1>1. CASE prepare_exit
  <2>1. CASE posState \in {"OPEN", "EXIT_PENDING"}
    BY <1>1, <2>1, Kept DEF prepare_exit, PositionOK, OrdersOK, LocalsOK, IntentStatus,
                            Step, ExitStep
  <2>2. CASE posState \notin {"OPEN", "EXIT_PENDING"}
    <3>1. LocalsOK' /\ RunnerOK' /\ pc' \in Step
      BY <1>1, <2>2, HookReturnsType DEF prepare_exit
    <3> QED BY <1>1, <2>2, <3>1, Kept DEF prepare_exit, PositionOK, OrdersOK
  <2> QED BY <2>1, <2>2
<1>2. CASE close_leg
  <2>1. LocalsOK' /\ pc' \in Step
    BY <1>2, CloseEndsType, Kept DEF close_leg, Step, ExitStep
  <2> QED BY <1>2, <2>1, Kept DEF close_leg, keepsPosition, BrokerOK
<1>3. CASE find_order_by_tag
  <2>1. LocalsOK' /\ pc' \in Step
    BY <1>3, CloseEndsType, Kept DEF find_order_by_tag, Step, ExitStep
  <2> QED BY <1>3, <2>1, Kept DEF find_order_by_tag, keepsPosition, BrokerOK
<1>4. CASE adopt_existing_order
  <2>1. LastOrder(X(leg)) \in Order
    BY <1>4, LastOrderType, TagFacts DEF adopt_existing_order, PolledExists, LocalsOK
  <2>2. LocalsOK' /\ pc' \in Step
    <3>1. CASE closeEnds("AMBIGUOUS") BY <3>1, CloseEndsType
    <3>2. CASE polled' = LastOrder(X(leg)) /\ pc' = "x_load"
                 /\ UNCHANGED <<leg, seen, outcome, reason, todo, view>>
      BY <3>2, <2>1 DEF LocalsOK, Step, ExitStep
    <3> QED BY <1>4, <3>1, <3>2 DEF adopt_existing_order
  <2> QED BY <1>4, <2>2, Kept DEF adopt_existing_order, keepsPosition, BrokerOK
<1>5. CASE place_close_mark
  BY <1>5, Kept, TagFacts DEF place_close_mark, keepsPosition, OrdersOK, BrokerOK, LocalsOK,
                              IntentStatus, Step, ExitStep
<1>6. CASE place_close_send
  <2>1. book' \in [Tag -> Seq(Order)]
    BY <1>6, SendType, TagFacts DEF place_close_send, LocalsOK
  <2>2. LocalsOK' /\ pc' \in Step
    BY <1>6, CloseEndsType, Kept DEF place_close_send, Step, ExitStep
  <2> QED BY <1>6, <2>1, <2>2, Kept DEF place_close_send, keepsPosition, BrokerOK
<1>7. CASE record_close_rejection
  <2>1. OrdersOK'
    BY <1>7, TagFacts, RowOperators DEF record_close_rejection, OrdersOK, LocalsOK, IntentStatus
  <2>2. LocalsOK' /\ pc' \in Step BY <1>7, CloseEndsType DEF record_close_rejection
  <2> QED BY <1>7, <2>1, <2>2, Kept DEF record_close_rejection, keepsPosition, BrokerOK
<1>8. CASE close_never_sent
  <2>1. OrdersOK'
    BY <1>8, TagFacts DEF close_never_sent, OrdersOK, LocalsOK, IntentStatus
  <2>2. LocalsOK' /\ pc' \in Step BY <1>8, CloseEndsType DEF close_never_sent
  <2> QED BY <1>8, <2>1, <2>2, Kept DEF close_never_sent, keepsPosition, BrokerOK
<1>9. CASE confirm_close
  <2>1. OrdersOK'
    BY <1>9, TagFacts, RowOperators DEF confirm_close, OrdersOK, LocalsOK, IntentStatus
  <2> QED BY <1>9, <2>1, Kept DEF confirm_close, keepsPosition, BrokerOK, Step, ExitStep
<1>10. CASE poll_close
  <2>1. LastOrder(X(leg)) \in Order
    BY <1>10, LastOrderType, TagFacts DEF poll_close, PolledExists, LocalsOK
  <2>2. LocalsOK' /\ pc' \in Step
    <3>1. CASE closeEnds("AMBIGUOUS") BY <3>1, CloseEndsType
    <3>2. CASE polled' = LastOrder(X(leg)) /\ pc' = "x_load"
                 /\ UNCHANGED <<leg, seen, outcome, reason, todo, view>>
      BY <3>2, <2>1 DEF LocalsOK, Step, ExitStep
    <3> QED BY <1>10, <3>1, <3>2 DEF poll_close
  <2> QED BY <1>10, <2>2, Kept DEF poll_close, keepsPosition, BrokerOK
<1>11. CASE record_close
  <2>1. polled.price \in Price
    BY DEF LocalsOK, Order, NoOrder, Price
  <2>2. TradesOK' /\ OrdersOK'
    BY <1>11, <2>1, TagFacts
       DEF record_close, TradesOK, OrdersOK, LocalsOK, TradeStatus, IntentStatus
  <2>3. LocalsOK' /\ pc' \in Step BY <1>11, CloseEndsType DEF record_close
  <2> QED BY <1>11, <2>2, <2>3, Kept DEF record_close, keepsPosition, BrokerOK
<1>12. CASE reconcile_order_load("x_load", "x_apply")
  BY <1>12, LoadType
<1>13. CASE reconcile_order_terminal("x_apply", "x_record")
  BY <1>13, TerminalType
<1>14. CASE finalize_closed
  <2>1. LocalsOK' /\ RunnerOK' /\ pc' \in Step
    BY <1>14, HookReturnsType DEF finalize_closed
  <2> QED BY <1>14, <2>1, Kept DEF finalize_closed, PositionOK, LocalsOK
<1>15. CASE finalize_closed_fails
  BY <1>15, Kept, ConstantsAssumption
     DEF finalize_closed_fails, ConstantsAssumption, dbVars, WorldOK, Step, ExitStep
<1>16. CASE record_divergence
  <2>1. breaks' \in SUBSET BreakType /\ faults' \in 0..MaxFaults
    BY <1>16, RecordBreakType DEF record_divergence, BreakType
  <2>2. LocalsOK' /\ RunnerOK' /\ pc' \in Step
    BY <1>16, HookReturnsType DEF record_divergence
  <2> QED BY <1>16, <2>1, <2>2, Kept DEF record_divergence, FlagsOK, WorldOK
<1>17. CASE exit_record_break
  <2>1. breaks' \in SUBSET BreakType /\ faults' \in 0..MaxFaults
    BY <1>17, RecordBreakType DEF exit_record_break, BreakType
  <2> QED BY <1>17, <2>1, Kept DEF exit_record_break, FlagsOK, WorldOK, Step, ExitStep
<1>18. CASE exit_fail_to_error
  <2>1. PositionOK' /\ inst' = "FROZEN" BY <1>18, FailToErrorType DEF exit_fail_to_error
  <2>2. LocalsOK' /\ RunnerOK' /\ pc' \in Step
    BY <1>18, HookReturnsType DEF exit_fail_to_error
  <2> QED BY <1>18, <2>1, <2>2, Kept DEF exit_fail_to_error, FlagsOK
<1> QED
  BY <1>1, <1>2, <1>3, <1>4, <1>5, <1>6, <1>7, <1>8, <1>9, <1>10, <1>11, <1>12, <1>13,
     <1>14, <1>15, <1>16, <1>17, <1>18 DEF ExitNext

\* The row an intent is resolved into is a row.
LEMMA ResolvedRowType ==
    ASSUME OrdersOK, NEW t \in Tag
    PROVE  resolvedRow(t) \in Row
<1>1. row[t] \in Row BY DEF OrdersOK
<1>2. acknowledged(row[t]) \in Row BY <1>1, RowOperators
<1>3. [row[t] EXCEPT !.status = "OPEN", !.acked = TRUE] \in Row BY <1>1 DEF Row, OrderStatus
<1> QED BY <1>1, <1>2, <1>3 DEF resolvedRow

\* The price reconciliation records is a price.
LEMMA FillPriceType ==
    ASSUME OrdersOK, NEW t \in Tag, NEW bo \in Order
    PROVE  fillPrice(t, bo) \in Price
BY DEF OrdersOK, fillPrice, orZero, Row, Order, Price

\* _apply_fill keeps the types of orders and trades.
LEMMA ApplyFillType ==
    ASSUME TypeOK, NEW t \in Tag, NEW bo \in Order, apply_fill(t, bo)
    PROVE  /\ tradeStatus' \in [Leg -> TradeStatus]
           /\ entryPrice' \in [Leg -> Price]
           /\ exitPrice' \in [Leg -> Price]
           /\ intent' \in [Tag -> IntentStatus]
           /\ row' \in [Tag -> Row]
           /\ breaks' \in SUBSET BreakType
           /\ UNCHANGED <<posState, inst>>
<1>1. fillPrice(t, bo) \in Price BY FillPriceType DEF TypeOK
<1>2. t[2] \in Leg BY TagFacts
<1>3. [resolvedRow(t) EXCEPT !.status = "COMPLETE", !.filled = bo.filled,
                             !.price = fillPrice(t, bo)] \in Row
  BY <1>1, ResolvedRowType DEF TypeOK, Row, Order, OrderStatus
<1>4. row' \in [Tag -> Row]
  BY <1>3 DEF apply_fill, TypeOK, OrdersOK
<1>5. intent' \in [Tag -> IntentStatus]
  BY DEF apply_fill, TypeOK, OrdersOK, IntentStatus
<1>6. breaks' \in SUBSET BreakType
  BY DEF apply_fill, TypeOK, FlagsOK, BreakType
<1>7. /\ tradeStatus' \in [Leg -> TradeStatus]
      /\ entryPrice' \in [Leg -> Price]
      /\ exitPrice' \in [Leg -> Price]
  BY <1>1, <1>2 DEF apply_fill, TypeOK, TradesOK, TradeStatus
<1> QED BY <1>4, <1>5, <1>6, <1>7 DEF apply_fill

\* _reconcile_one_intent keeps the types.
LEMMA ReconcileIntentType ==
    ASSUME TypeOK, NEW t \in Tag, reconcile_one_intent(t)
    PROVE  TypeOK'
<1> DEFINE Repaired == /\ tradeStatus' \in [Leg -> TradeStatus]
                       /\ entryPrice' \in [Leg -> Price]
                       /\ exitPrice' \in [Leg -> Price]
                       /\ intent' \in [Tag -> IntentStatus]
                       /\ row' \in [Tag -> Row]
                       /\ breaks' \in SUBSET BreakType
                       /\ inst' \in {"ACTIVE", "FROZEN"}
                       /\ posState' \in {posState, "ERROR"}
<1> USE DEF TypeOK
<1>1. Repaired
  <2>1. CASE Len(view[t]) > 1
    <3>1. flag_duplicate_orders(t) BY <2>1 DEF reconcile_one_intent
    <3> QED BY <3>1 DEF flag_duplicate_orders, Errored, TradesOK, OrdersOK, FlagsOK, BreakType
  <2>2. CASE view[t] = <<>>
    <3>1. fail_intent_not_at_broker(t) BY <2>2 DEF reconcile_one_intent
    <3> QED BY <3>1 DEF fail_intent_not_at_broker, TradesOK, OrdersOK, FlagsOK, IntentStatus,
                            flagVars
  <2>3. CASE ~(Len(view[t]) > 1) /\ view[t] # <<>>
    <3> DEFINE bo == view[t][1]
    <3>1. bo \in Order BY <2>3 DEF LocalsOK
    <3>2. resolve_intent_against_order(t, bo) BY <2>3 DEF reconcile_one_intent
    <3> HIDE DEF bo
    <3>3. resolvedRow(t) \in Row BY ResolvedRowType
    <3>4. [resolvedRow(t) EXCEPT !.status = "REJECTED"] \in Row
      BY <3>3 DEF Row, OrderStatus
    <3>5. CASE apply_fill(t, bo)
      BY <3>5, <3>1, ApplyFillType DEF FlagsOK
    <3>6. CASE /\ row' = [row EXCEPT ![t] = [resolvedRow(t) EXCEPT !.status = "REJECTED"]]
               /\ intent' = [intent EXCEPT ![t] = "FAILED"]
               /\ UNCHANGED <<posState, tradeStatus, entryPrice, exitPrice, flagVars>>
      BY <3>6, <3>4 DEF TradesOK, OrdersOK, FlagsOK, IntentStatus, flagVars
    <3>7. CASE /\ row' = [row EXCEPT ![t] = resolvedRow(t)]
               /\ UNCHANGED <<posState, tradeStatus, entryPrice, exitPrice, intent, flagVars>>
      BY <3>7, <3>3 DEF TradesOK, OrdersOK, FlagsOK, flagVars
    <3> HIDE DEF Repaired
    <3> QED BY <3>2, <3>5, <3>6, <3>7 DEF resolve_intent_against_order
  <2> QED BY <2>1, <2>2, <2>3
<1>2. PositionOK' /\ TradesOK' /\ OrdersOK' /\ FlagsOK'
  BY <1>1 DEF reconcile_one_intent, PositionOK, TradesOK, OrdersOK, FlagsOK
<1>3. LocalsOK' BY DEF reconcile_one_intent, LocalsOK
<1> QED BY <1>2, <1>3, Kept DEF reconcile_one_intent

\* _reconcile_one_position keeps the types.
LEMMA ReconcilePositionType == TypeOK /\ reconcile_one_position => TypeOK'
<1> SUFFICES ASSUME TypeOK, reconcile_one_position PROVE TypeOK' OBVIOUS
<1> USE DEF TypeOK
<1>1. \/ leaveAlone \/ flag_for_finalization
      \/ \E type \in BreakType : error_position(type)
      \/ posState' = "CLOSED" /\ UNCHANGED <<inst, breaks>>
  BY DEF reconcile_one_position, reconcile_entry_pending, reconcile_exit_pending,
         reconcile_open, BreakType
<1>2. PositionOK' /\ FlagsOK'
  BY <1>1 DEF reconcile_one_position, leaveAlone, flag_for_finalization, error_position,
              PositionOK, FlagsOK, BreakType
<1> QED BY <1>2, Kept DEF reconcile_one_position, Step, StartStep

\* Every step of startup reconciliation keeps the types.
LEMMA ReconcileType == TypeOK /\ ReconcileNext => TypeOK'
<1> SUFFICES ASSUME TypeOK, ReconcileNext PROVE TypeOK' OBVIOUS
<1> USE DEF TypeOK
<1>1. CASE fetch_orders
  BY <1>1, Kept DEF fetch_orders, dbVars, LocalsOK, BrokerOK, Step, StartStep
<1>2. CASE intents_reconciled
  BY <1>2, Kept DEF intents_reconciled, dbVars, Step, StartStep
<1>3. CASE detect_orphans
  BY <1>3, Kept DEF detect_orphans, FlagsOK, BreakType, Step, StartStep
<1>4. CASE reconcile_one_position BY <1>4, ReconcilePositionType
<1>5. ASSUME NEW t \in Tag, reconcile_one_intent(t) PROVE TypeOK'
  BY <1>5, ReconcileIntentType
<1>6. ASSUME NEW t \in Tag, startup_aborts(t) PROVE TypeOK'
  BY <1>6, DropLocalsType, Kept DEF startup_aborts, dbVars, Step
<1> QED BY <1>1, <1>2, <1>3, <1>4, <1>5, <1>6 DEF ReconcileNext

\* Whatever the broker does on its own, at most one order changes.
LEMMA BrokerMovesForm ==
    ASSUME TypeOK, BrokerMoves
    PROVE  /\ UNCHANGED <<dbVars, pc, localVars, runnerVars, worldVars>>
           /\ squared' \in SUBSET Leg
           /\ \/ UNCHANGED book
              \/ \E t \in Tag : \E i \in DOMAIN book[t] : \E o \in Order :
                    book' = [book EXCEPT ![t][i] = o]
<1> USE DEF TypeOK
<1>1. ASSUME NEW t \in Tag, NEW i \in DOMAIN book[t], NEW k \in 1..Qty, BrokerFills(t, i, k)
      PROVE  \E o \in Order : book' = [book EXCEPT ![t][i] = o]
  <2>1. PICK price \in {"real", "none"} :
          book' = [book EXCEPT ![t][i] = [status |-> IF k = Qty THEN "COMPLETE" ELSE "OPEN",
                                          filled |-> k, price |-> price]]
    BY <1>1 DEF BrokerFills
  <2>2. [status |-> IF k = Qty THEN "COMPLETE" ELSE "OPEN", filled |-> k, price |-> price] \in Order
    BY ConstantsAssumption DEF ConstantsAssumption, Order, OrderStatus, Price
  <2> QED BY <2>1, <2>2
<1>2. ASSUME NEW t \in Tag, NEW i \in DOMAIN book[t], NEW s \in {"REJECTED", "CANCELLED"},
             BrokerKills(t, i, s)
      PROVE  \E o \in Order : book' = [book EXCEPT ![t][i] = o]
  <2>1. book' = [book EXCEPT ![t][i] = [book[t][i] EXCEPT !.status = s]]
    BY <1>2 DEF BrokerKills, BrokerOK
  <2>2. book[t][i] \in Order BY DEF BrokerOK
  <2>3. [book[t][i] EXCEPT !.status = s] \in Order BY <2>2 DEF Order, OrderStatus
  <2> QED BY <2>1, <2>3
<1>3. ASSUME NEW t \in Tag, NEW i \in DOMAIN book[t], BrokerPrices(t, i)
      PROVE  \E o \in Order : book' = [book EXCEPT ![t][i] = o]
  <2>1. book' = [book EXCEPT ![t][i] = [book[t][i] EXCEPT !.price = "real"]]
    BY <1>3 DEF BrokerPrices, BrokerOK
  <2>2. book[t][i] \in Order BY DEF BrokerOK
  <2>3. [book[t][i] EXCEPT !.price = "real"] \in Order BY <2>2 DEF Order, Price
  <2> QED BY <2>1, <2>3
<1>4. CASE \E l \in Leg : SquaresOff(l)
  BY <1>4 DEF SquaresOff, BrokerOK
<1>5. CASE \E t \in Tag : \E i \in DOMAIN book[t] :
             \/ \E k \in 1..Qty : BrokerFills(t, i, k)
             \/ \E s \in {"REJECTED", "CANCELLED"} : BrokerKills(t, i, s)
             \/ BrokerPrices(t, i)
  <2>1. brokerMoves BY <1>5 DEF BrokerFills, BrokerKills, BrokerPrices
  <2>2. \E t \in Tag : \E i \in DOMAIN book[t] : \E o \in Order :
           book' = [book EXCEPT ![t][i] = o]
    BY <1>5, <1>1, <1>2, <1>3
  <2> QED BY <2>1, <2>2 DEF brokerMoves, BrokerOK
<1> QED BY <1>4, <1>5 DEF BrokerMoves

\* Nothing the broker does on its own breaks a type.
LEMMA BrokerMovesType == TypeOK /\ BrokerMoves => TypeOK'
<1> SUFFICES ASSUME TypeOK, BrokerMoves PROVE TypeOK' OBVIOUS
<1> USE DEF TypeOK
<1>1. ASSUME NEW t \in Tag, NEW i \in DOMAIN book[t], NEW o \in Order,
             book' = [book EXCEPT ![t][i] = o]
      PROVE  book' \in [Tag -> Seq(Order)]
  BY <1>1 DEF BrokerOK
<1>2. BrokerOK' BY <1>1, BrokerMovesForm DEF BrokerOK
<1> QED BY <1>2, BrokerMovesForm, Kept DEF dbVars

\* A pushed order update keeps the types.
LEMMA ProcessType ==
    ASSUME TypeOK, NEW t \in Tag, process(t)
    PROVE  TypeOK'
<1> USE DEF TypeOK
<1>0. PICK i \in DOMAIN book[t] : \E bo \in Snapshots(book[t][i]) :
        row' = [row EXCEPT ![t] = apply_broker_order_update(@, bo)]
  BY DEF process
<1>1. PICK bo \in Snapshots(book[t][i]) :
        row' = [row EXCEPT ![t] = apply_broker_order_update(@, bo)]
  BY <1>0
<1>2. book[t][i] \in Order BY DEF BrokerOK
<1>3. bo \in Order
  BY <1>2, ConstantsAssumption
     DEF ConstantsAssumption, Snapshots, Order, OrderStatus, Price
<1>4. row' \in [Tag -> Row] BY <1>1, <1>3, UpdateType DEF OrdersOK
<1> QED BY <1>4, Kept DEF process, OrdersOK

\* Startup, recovery, monitoring and raising hooks keep the types.
LEMMA RunnerType ==
    ASSUME TypeOK,
           \/ start \/ recover_settled \/ recover_exit_pending \/ recover_entry_pending
           \/ attach \/ trigger_exit
    PROVE  TypeOK'
<1> USE DEF TypeOK
<1>1. CASE start BY <1>1, Kept DEF start, dbVars, RunnerOK, Step, StartStep
<1>2. CASE recover_settled
  <2>1. LocalsOK' /\ RunnerOK' /\ pc' \in Step BY <1>2, HookReturnsType DEF recover_settled
  <2> QED BY <1>2, <2>1, Kept DEF recover_settled, dbVars
<1>3. CASE recover_exit_pending
  BY <1>3, Kept DEF recover_exit_pending, dbVars, LocalsOK, PositionOK, ExitReason, Step, ExitStep
<1>4. CASE recover_entry_pending
  <2>1. LocalsOK' /\ RunnerOK' /\ pc' \in Step BY <1>4, HookReturnsType DEF recover_entry_pending
  <2> QED BY <1>4, <2>1, Kept DEF recover_entry_pending, PositionOK, FlagsOK
<1>5. CASE attach
  <2>1. LocalsOK' /\ RunnerOK' /\ pc' \in Step BY <1>5, HookReturnsType DEF attach
  <2> QED BY <1>5, <2>1, Kept DEF attach, dbVars
<1>6. CASE trigger_exit
  <2>1. \A late, halt, premium, target, stoploss :
          evaluate_exit(late, halt, premium, target, stoploss) \in ExitReason \cup {"none"}
    BY DEF evaluate_exit, ExitReason
  <2>2. reason' \in ExitReason \cup {"none"} BY <1>6, <2>1 DEF trigger_exit
  <2> QED BY <1>6, <2>2, Kept DEF trigger_exit, dbVars, LocalsOK, Step, ExitStep
<1> QED BY <1>1, <1>2, <1>3, <1>4, <1>5, <1>6

\* A crash, the clock and the operators keep the types.
LEMMA WorldType ==
    ASSUME TypeOK,
           \/ time_passes \/ engage_kill_switch \/ disengage_kill_switch \/ unfreeze
           \/ hook_raises \/ monitor_raises \/ crash
    PROVE  TypeOK'
<1> USE DEF TypeOK
<1>1. CASE time_passes BY <1>1, Kept DEF time_passes, dbVars, WorldOK
<1>2. CASE engage_kill_switch BY <1>2, Kept DEF engage_kill_switch, dbVars, WorldOK
<1>3. CASE disengage_kill_switch BY <1>3, Kept DEF disengage_kill_switch, dbVars, WorldOK
<1>4. CASE unfreeze BY <1>4, Kept DEF unfreeze, FlagsOK
<1>5. CASE hook_raises
  <2>1. LocalsOK' /\ runner' = "FROZEN" /\ inst' \in {"FROZEN", inst} /\ pc' \in Step
    BY <1>5, HookRaisesType DEF hook_raises
  <2>2. faults' \in 0..MaxFaults
    BY <1>5, ConstantsAssumption DEF hook_raises, WorldOK, ConstantsAssumption
  <2> QED BY <1>5, <2>1, <2>2, Kept DEF hook_raises, FlagsOK, RunnerOK, WorldOK
<1>6. CASE monitor_raises
  <2>1. LocalsOK' /\ runner' = "FROZEN" /\ inst' \in {"FROZEN", inst} /\ pc' \in Step
    BY <1>6, HookRaisesType DEF monitor_raises
  <2>2. faults' \in 0..MaxFaults
    BY <1>6, ConstantsAssumption DEF monitor_raises, WorldOK, ConstantsAssumption
  <2> QED BY <1>6, <2>1, <2>2, Kept DEF monitor_raises, FlagsOK, RunnerOK, WorldOK
<1>7. CASE crash
  <2>1. crashes' \in 0..MaxCrashes
    BY <1>7, ConstantsAssumption DEF crash, WorldOK, ConstantsAssumption
  <2> QED BY <1>7, <2>1, DropLocalsType, Kept DEF crash, dbVars, RunnerOK, WorldOK, Step
<1> QED BY <1>1, <1>2, <1>3, <1>4, <1>5, <1>6, <1>7

\* Types are kept by every step, given that a polled order exists.
LEMMA TypeStep == TypeOK /\ PolledExists /\ [Next]_vars => TypeOK'
<1> SUFFICES ASSUME TypeOK, PolledExists, [Next]_vars PROVE TypeOK' OBVIOUS
<1>1. CASE Hooks
  BY <1>1, EntryType, ExitType, ReconcileType, RunnerType DEF Hooks
<1>2. CASE World
  BY <1>2, BrokerMovesType, ProcessType, WorldType DEF World
<1>3. CASE UNCHANGED vars
  BY <1>3, Kept DEF TypeOK, vars, dbVars
<1> QED BY <1>1, <1>2, <1>3 DEF Next

--------------------------------------------------------------------------------
(* The ledger, and with it the inductive invariant. *)

\* Tags of different kinds, or of different legs, are different.
LEMMA TagsDiffer ==
    /\ \A l \in Leg : E(l)[1] = "E" /\ X(l)[1] = "X" /\ U[1] = "U"
    /\ \A l, m \in Leg : E(l) = E(m) => l = m
    /\ \A l, m \in Leg : X(l) = X(m) => l = m
BY DEF Leg, E, X, U

\* What accepting an order does to the book.
LEMMA AcceptedShape ==
    ASSUME BrokerOK, NEW t \in Tag
    PROVE  /\ Accepted(t)[t] # <<>>
           /\ book[t] = <<>> => Len(Accepted(t)[t]) = 1
           /\ \A s \in Tag : s # t => Accepted(t)[s] = book[s]
<1> DEFINE o == [status |-> "OPEN", filled |-> 0, price |-> "none"]
<1>1. o \in Order BY ConstantsAssumption DEF ConstantsAssumption, Order, OrderStatus, Price
<1>2. book[t] \in Seq(Order) BY DEF BrokerOK
<1>3. Accepted(t)[t] = Append(book[t], o) BY DEF Accepted, BrokerOK
<1> HIDE DEF o
<1>4. Len(Append(book[t], o)) = Len(book[t]) + 1 /\ Append(book[t], o) # <<>> BY <1>1, <1>2
<1>5. book[t] = <<>> => Len(book[t]) = 0 OBVIOUS
<1> QED BY <1>3, <1>4, <1>5 DEF Accepted, BrokerOK

\* One call of place_order touches its own tag only, and fills it at most once.
LEMMA SendShape ==
    ASSUME BrokerOK, NEW t \in Tag, Acknowledges(t) \/ Refuses(t) \/ TimesOut(t) \/ NotSent(t)
    PROVE  /\ \A s \in Tag : s # t => book'[s] = book[s]
           /\ book[t] = <<>> => Len(book'[t]) <= 1
           /\ Acknowledges(t) => book'[t] # <<>>
<1>1. book' \in {book, Accepted(t)} BY DEF Acknowledges, Refuses, TimesOut, NotSent
<1>2. book[t] = <<>> => Len(book[t]) = 0 OBVIOUS
<1>3. CASE book' = book
  <2>1. Acknowledges(t) => book = Accepted(t) BY <1>3 DEF Acknowledges
  <2> QED BY <1>2, <1>3, <2>1, AcceptedShape
<1>4. CASE book' = Accepted(t)
  <2>1. (book[t] = <<>> => Len(Accepted(t)[t]) = 1) /\ Accepted(t)[t] # <<>> BY AcceptedShape
  <2>2. \A s \in Tag : s # t => Accepted(t)[s] = book[s] BY AcceptedShape
  <2>3. (book[t] = <<>> => Len(book'[t]) = 1) /\ book'[t] # <<>> BY <1>4, <2>1
  <2>5. ASSUME book[t] = <<>> PROVE Len(book'[t]) <= 1
    <3>1. Len(book'[t]) = 1 BY <2>3, <2>5
    <3> QED BY <3>1
  <2>4. \A s \in Tag : s # t => book'[s] = book[s] BY <1>4, <2>2
  <2> QED BY <2>3, <2>4, <2>5
<1> QED BY <1>1, <1>3, <1>4

\* The broker moves orders, but neither adds nor removes one.
LEMMA BrokerMovesShape ==
    ASSUME TypeOK, BrokerMoves
    PROVE  \A t \in Tag : Len(book'[t]) = Len(book[t]) /\ (book'[t] = <<>> <=> book[t] = <<>>)
<1>1. ASSUME NEW t \in Tag, NEW i \in DOMAIN book[t], NEW o \in Order,
             book' = [book EXCEPT ![t][i] = o], NEW s \in Tag
      PROVE  Len(book'[s]) = Len(book[s])
  BY <1>1 DEF TypeOK, BrokerOK
<1>2. \A s \in Tag : Len(book'[s]) = Len(book[s])
  BY <1>1, BrokerMovesForm
<1>3. book \in [Tag -> Seq(Order)] /\ book' \in [Tag -> Seq(Order)]
  BY BrokerMovesType DEF TypeOK, BrokerOK
<1>4. \A s \in Seq(Order) : s = <<>> <=> Len(s) = 0 OBVIOUS
<1> QED BY <1>2, <1>3, <1>4

--------------------------------------------------------------------------------
(* The inductive invariant. *)

\* Steps that do not touch what the invariant speaks of.
LEMMA QuietStep ==
    ASSUME Ledger, UNCHANGED <<posState, intent, started, book, todo, pc, leg>>
    PROVE  Ledger'
BY DEF Ledger, PcMatchesState, IdleIsClean, TodoIsInDoubt, WriteAhead, TagIsFresh,
       PolledExists, SentOnce, AtMostOneOrderPerTag

\* Steps that leave the hook, or run between hooks.
LEMMA BetweenHooks ==
    ASSUME Ledger, pc' \notin EntryStep \cup ExitStep, todo' = {},
           UNCHANGED <<intent, started, book>>, posState' = "IDLE" => posState = "IDLE"
    PROVE  Ledger'
BY DEF Ledger, PcMatchesState, IdleIsClean, TodoIsInDoubt, WriteAhead, TagIsFresh,
       PolledExists, SentOnce, AtMostOneOrderPerTag, LegStep, EntryStep, ExitStep

\* Before the first start the ledger holds.
LEMMA InitLedger == Init => Ledger
BY DEF Init, Ledger, PcMatchesState, IdleIsClean, TodoIsInDoubt, WriteAhead, TagIsFresh,
       PolledExists, SentOnce, AtMostOneOrderPerTag, NoBook, LegStep, EntryStep, ExitStep

\* The world beside the hooks keeps the ledger.
LEMMA WorldLedger ==
    ASSUME TypeOK, Ledger, World
    PROVE  Ledger'
<1>1. CASE BrokerMoves
  <2>1. UNCHANGED <<posState, intent, started, todo, pc, leg>>
    BY <1>1, BrokerMovesForm DEF dbVars, positionVars, orderVars, localVars
  <2>2. E(leg) \in Tag /\ X(leg) \in Tag /\ U \in Tag
    BY TagFacts DEF TypeOK, LocalsOK
  <2> QED
    BY <1>1, <2>1, <2>2, BrokerMovesShape
       DEF Ledger, PcMatchesState, IdleIsClean, TodoIsInDoubt, WriteAhead, TagIsFresh,
           PolledExists, SentOnce, AtMostOneOrderPerTag
<1>2. CASE \E t \in Tag : process(t)
  BY <1>2, QuietStep DEF process, positionVars, brokerVars, localVars
<1>3. CASE time_passes \/ engage_kill_switch \/ disengage_kill_switch
  BY <1>3, QuietStep DEF time_passes, engage_kill_switch, disengage_kill_switch,
                         dbVars, positionVars, orderVars, brokerVars, localVars
<1>4. CASE unfreeze
  BY <1>4, QuietStep DEF unfreeze, positionVars, orderVars, brokerVars, localVars
<1>5. CASE hook_raises
  BY <1>5, BetweenHooks DEF hook_raises, hookRaises, dropLocals, positionVars, orderVars,
                            brokerVars, EntryStep, ExitStep
<1>6. CASE monitor_raises
  BY <1>6, BetweenHooks DEF monitor_raises, hookRaises, dropLocals, positionVars, orderVars,
                            brokerVars, EntryStep, ExitStep
<1>7. CASE crash
  BY <1>7, BetweenHooks DEF crash, dropLocals, dbVars, positionVars, orderVars, brokerVars,
                            EntryStep, ExitStep
<1> QED BY <1>1, <1>2, <1>3, <1>4, <1>5, <1>6, <1>7 DEF World

\* Startup reconciliation keeps the ledger: it resolves intents and sends nothing.
LEMMA ReconcileLedger ==
    ASSUME TypeOK, Ledger, ReconcileNext
    PROVE  Ledger'
<1>1. CASE fetch_orders
  BY <1>1 DEF fetch_orders, dbVars, positionVars, orderVars, brokerVars, Ledger, PcMatchesState,
              IdleIsClean, TodoIsInDoubt, WriteAhead, TagIsFresh, PolledExists,
              SentOnce, AtMostOneOrderPerTag, LegStep, EntryStep, ExitStep
<1>2. CASE intents_reconciled
  BY <1>2, BetweenHooks DEF intents_reconciled, dbVars, positionVars, orderVars, brokerVars,
                            localVars, EntryStep, ExitStep
<1>3. CASE detect_orphans
  BY <1>3, BetweenHooks DEF detect_orphans, positionVars, orderVars, brokerVars,
                            localVars, EntryStep, ExitStep, Ledger, TodoIsInDoubt
<1>4. CASE reconcile_one_position
  <2>1. posState' = "IDLE" => posState = "IDLE"
    BY <1>4 DEF reconcile_one_position, reconcile_entry_pending, reconcile_exit_pending,
                reconcile_open, leaveAlone, flag_for_finalization, error_position
  <2> QED
    BY <1>4, <2>1, BetweenHooks DEF reconcile_one_position, orderVars, brokerVars, localVars,
                                    EntryStep, ExitStep, Ledger, TodoIsInDoubt
<1>5. ASSUME NEW t \in Tag, startup_aborts(t) PROVE Ledger'
  BY <1>5, BetweenHooks DEF startup_aborts, dropLocals, dbVars, positionVars, orderVars,
                            brokerVars, EntryStep, ExitStep
<1>6. ASSUME NEW t \in Tag, reconcile_one_intent(t) PROVE Ledger'
  <2>1. /\ intent' = intent \/ \E s \in {"CONFIRMED", "FAILED"} : intent' = [intent EXCEPT ![t] = s]
        /\ posState' \in {posState, "ERROR"} /\ (posState = "IDLE" => posState' \in {"IDLE", "ERROR"})
    BY <1>6 DEF reconcile_one_intent, flag_duplicate_orders, Errored, fail_intent_not_at_broker,
                resolve_intent_against_order, apply_fill
  <2>2. pc = "r_intents" /\ t \in todo /\ todo' = todo \ {t}
        /\ UNCHANGED <<started, book, pc, leg>>
    BY <1>6 DEF reconcile_one_intent, brokerVars
  <2>3. posState # "IDLE"
    BY <2>2 DEF Ledger, IdleIsClean, TodoIsInDoubt, InDoubt
  <2>4. posState' # "IDLE" BY <2>1, <2>3
  <2>5. PcMatchesState' /\ TagIsFresh' /\ PolledExists' /\ SentOnce'
    BY <2>2 DEF Ledger, PcMatchesState, TagIsFresh, PolledExists, SentOnce, AtMostOneOrderPerTag, LegStep,
                EntryStep, ExitStep
  <2>6. \A s \in Tag : s # t => intent'[s] = intent[s]
    BY <2>1 DEF TypeOK, OrdersOK
  <2>7. intent'[t] \notin {"NONE", "PENDING"} \/ intent'[t] = intent[t]
    BY <2>1 DEF TypeOK, OrdersOK
  <2>8. TodoIsInDoubt'
    BY <2>2, <2>6 DEF TypeOK, LocalsOK, Ledger, TodoIsInDoubt
  <2>9. WriteAhead'
    BY <2>2, <2>6, <2>7 DEF TypeOK, OrdersOK, Ledger, WriteAhead
  <2> QED BY <2>4, <2>5, <2>8, <2>9 DEF Ledger, IdleIsClean
<1> QED BY <1>1, <1>2, <1>3, <1>4, <1>5, <1>6 DEF ReconcileNext

\* How one entry leg's end moves the hook on.
LEMMA LegEndsStep ==
    ASSUME LocalsOK, NEW result \in {"FILLED", "FAILED", "AMBIGUOUS"}, legEnds(result)
    PROVE  /\ pc' \in {"e_mark", "e_error", "e_break", "e_final", "u_mark"}
           /\ pc' = "e_mark" => leg = "CE" /\ leg' = "PE"
           /\ todo' = todo
BY DEF LocalsOK, legEnds, afterLeg, Leg

\* Entry keeps the ledger: each leg is marked, then sent once, then polled.
LEMMA EntryLedger ==
    ASSUME TypeOK, Ledger, EntryNext
    PROVE  Ledger'
<1> DEFINE Onward == {"e_mark", "e_error", "e_break", "e_final", "u_mark"}
<1>0. E(leg) \in Tag /\ E("CE") \in Tag /\ E("PE") \in Tag /\ U \in Tag
      /\ E("CE") # E("PE") /\ U # E(leg) /\ leg \in {"CE", "PE"}
  BY TagFacts, TagsDiffer DEF TypeOK, LocalsOK, Leg
\* A leg has ended: whatever its intent became, nothing new was started.
<1>A. ASSUME pc \in LegStep \ {"e_mark", "e_send"}, UNCHANGED <<posState, started, book>>,
             NEW result \in {"FILLED", "FAILED", "AMBIGUOUS"}, legEnds(result),
             intent' = intent \/ intent' = [intent EXCEPT ![E(leg)] = "FAILED"]
      PROVE  Ledger'
  <2>1. pc' \in Onward /\ (pc' = "e_mark" => leg = "CE" /\ leg' = "PE") /\ todo' = todo
    BY <1>A, LegEndsStep DEF TypeOK
  <2>2. posState = "ENTRY_PENDING" /\ todo = {}
    BY <1>A DEF Ledger, PcMatchesState, TodoIsInDoubt, LegStep, EntryStep
  <2>3. \A t \in started : intent'[t] \notin {"NONE", "PENDING"}
    BY <1>A DEF Ledger, WriteAhead, TypeOK, OrdersOK
  <2>4. PcMatchesState' /\ IdleIsClean' /\ TodoIsInDoubt'
    BY <1>A, <2>1, <2>2 DEF PcMatchesState, IdleIsClean, TodoIsInDoubt, EntryStep, ExitStep
  <2>5. WriteAhead' /\ PolledExists' /\ SentOnce'
    BY <1>A, <2>1, <2>3 DEF Ledger, WriteAhead, PolledExists, SentOnce, AtMostOneOrderPerTag
  <2>6. TagIsFresh'
    BY <1>0, <1>A, <2>1 DEF Ledger, TagIsFresh, LegStep
  <2> QED BY <2>4, <2>5, <2>6 DEF Ledger
<1>1. CASE enter
  BY <1>1, <1>0 DEF enter, approve_entry, dbVars, positionVars, orderVars, brokerVars, localVars, Ledger,
              PcMatchesState, IdleIsClean, TodoIsInDoubt, WriteAhead, TagIsFresh, PolledExists,
              SentOnce, AtMostOneOrderPerTag, LegStep, EntryStep, ExitStep
<1>2. CASE create_durable_record
  <2>1. started = {} /\ todo = {} /\ \A t \in Tag : book[t] = <<>>
    BY <1>2 DEF create_durable_record, Ledger, PcMatchesState, IdleIsClean, TodoIsInDoubt,
                WriteAhead
  <2> QED
    BY <1>0, <1>2, <2>1 DEF create_durable_record, brokerVars, Ledger, PcMatchesState, IdleIsClean,
              TodoIsInDoubt, WriteAhead, TagIsFresh, PolledExists, SentOnce, AtMostOneOrderPerTag, LegStep,
              EntryStep, ExitStep
<1>3. CASE place_leg_mark
  <2>1. /\ intent' = [intent EXCEPT ![E(leg)] = "SUBMITTED_UNCONFIRMED"]
        /\ started' = started \cup {E(leg)} /\ pc = "e_mark" /\ pc' = "e_send"
        /\ UNCHANGED <<posState, book, leg, todo>>
    BY <1>3 DEF place_leg_mark, keepsPosition, positionVars, localVars
  <2>2. posState = "ENTRY_PENDING" /\ todo = {} /\ book[E(leg)] = <<>>
    BY <1>0, <2>1 DEF Ledger, PcMatchesState, TodoIsInDoubt, TagIsFresh, WriteAhead, EntryStep
  <2>3. PcMatchesState' /\ IdleIsClean' /\ TodoIsInDoubt' /\ PolledExists' /\ SentOnce'
    BY <2>1, <2>2 DEF Ledger, PcMatchesState, IdleIsClean, TodoIsInDoubt, PolledExists,
                      SentOnce, AtMostOneOrderPerTag, EntryStep, ExitStep
  <2>4. WriteAhead' BY <1>0, <2>1 DEF Ledger, WriteAhead, TypeOK, OrdersOK
  <2>5. TagIsFresh' BY <1>0, <2>1, <2>2 DEF Ledger, TagIsFresh, LegStep
  <2> QED BY <2>3, <2>4, <2>5 DEF Ledger
<1>4. CASE place_leg_send
  <2>1. pc = "e_send" /\ book[E(leg)] = <<>> /\ E(leg) \in started
    BY <1>4 DEF place_leg_send, Ledger, TagIsFresh, WriteAhead
  <2>2. /\ \A s \in Tag : s # E(leg) => book'[s] = book[s]
        /\ Len(book'[E(leg)]) <= 1
        /\ Acknowledges(E(leg)) => book'[E(leg)] # <<>>
    BY <1>0, <1>4, <2>1, SendShape DEF place_leg_send, TypeOK
  <2>3. UNCHANGED <<posState, intent, started>>
    BY <1>4 DEF place_leg_send, keepsPosition, positionVars, orderVars
  <2>4. /\ pc' \in Onward \cup {"e_ack", "e_reject", "e_unsent"}
        /\ pc' = "e_mark" => leg = "CE" /\ leg' = "PE"
        /\ pc' \in {"e_ack", "e_reject", "e_unsent"} => leg' = leg
        /\ pc' = "e_ack" => Acknowledges(E(leg))
        /\ todo' = todo
    BY <1>4, LegEndsStep DEF place_leg_send, localVars, TypeOK
  <2>5. posState = "ENTRY_PENDING" /\ todo = {}
    BY <2>1 DEF Ledger, PcMatchesState, TodoIsInDoubt, EntryStep
  <2>6. PcMatchesState' /\ IdleIsClean' /\ TodoIsInDoubt'
    BY <2>3, <2>4, <2>5 DEF PcMatchesState, IdleIsClean, TodoIsInDoubt, EntryStep, ExitStep
  <2>7. WriteAhead' /\ SentOnce'
    BY <2>1, <2>2, <2>3, <2>4 DEF Ledger, WriteAhead, SentOnce, AtMostOneOrderPerTag
  <2>8. PolledExists' BY <2>2, <2>4 DEF PolledExists
  <2>9. TagIsFresh' BY <1>0, <2>1, <2>3, <2>4 DEF Ledger, TagIsFresh, LegStep
  <2> QED BY <2>6, <2>7, <2>8, <2>9 DEF Ledger
<1>5. CASE record_leg_rejection
  <2>1. pc \in LegStep \ {"e_mark", "e_send"} BY <1>5 DEF record_leg_rejection, LegStep
  <2> QED BY <1>5, <2>1, <1>A DEF record_leg_rejection, keepsPosition, positionVars
<1>6. CASE mark_intent_failed
  <2>1. pc \in LegStep \ {"e_mark", "e_send"} BY <1>6 DEF mark_intent_failed, LegStep
  <2> QED BY <1>6, <2>1, <1>A DEF mark_intent_failed, keepsPosition, positionVars
<1>7. CASE confirm_and_record
  <2>1. /\ pc = "e_ack" /\ pc' = "e_poll"
        /\ intent' = [intent EXCEPT ![E(leg)] = "PLACED"]
        /\ UNCHANGED <<posState, started, book, leg, todo>>
    BY <1>7 DEF confirm_and_record, keepsPosition, positionVars, localVars
  <2>2. posState = "ENTRY_PENDING" /\ todo = {}
    BY <2>1 DEF Ledger, PcMatchesState, TodoIsInDoubt, EntryStep
  <2>3. PcMatchesState' /\ IdleIsClean' /\ TodoIsInDoubt' /\ PolledExists' /\ SentOnce'
    BY <2>1, <2>2 DEF Ledger, PcMatchesState, IdleIsClean, TodoIsInDoubt, PolledExists,
                      SentOnce, AtMostOneOrderPerTag, EntryStep, ExitStep
  <2>4. WriteAhead' BY <2>1 DEF Ledger, WriteAhead, TypeOK, OrdersOK
  <2>5. TagIsFresh' BY <2>1 DEF Ledger, TagIsFresh, LegStep
  <2> QED BY <2>3, <2>4, <2>5 DEF Ledger
<1>8. CASE poll_entry
  <2>1. pc = "e_poll" /\ UNCHANGED <<posState, intent, started, book>>
    BY <1>8 DEF poll_entry, keepsPosition, positionVars, orderVars
  <2>2. CASE pc' = "e_load" /\ UNCHANGED <<leg, todo>>
    BY <2>1, <2>2 DEF Ledger, PcMatchesState, IdleIsClean, TodoIsInDoubt, WriteAhead, TagIsFresh,
                      PolledExists, SentOnce, AtMostOneOrderPerTag, LegStep, EntryStep, ExitStep
  <2>3. CASE legEnds("AMBIGUOUS")
    BY <2>1, <2>3, <1>A DEF LegStep
  <2> QED BY <1>8, <2>2, <2>3 DEF poll_entry
<1>9. CASE read_back
  <2>1. pc = "e_read" BY <1>9 DEF read_back
  <2>2. CASE row[E(leg)].status = "COMPLETE" /\ row[E(leg)].price # "real"
    BY <1>9, <2>2, BetweenHooks DEF read_back, hookRaises, dropLocals, positionVars, orderVars,
                                    brokerVars, EntryStep, ExitStep
  <2>3. CASE ~(row[E(leg)].status = "COMPLETE" /\ row[E(leg)].price # "real")
    <3>1. PICK result \in {"FILLED", "FAILED", "AMBIGUOUS"} : legEnds(result)
      BY <1>9, <2>3 DEF read_back
    <3>2. intent' = intent \/ intent' = [intent EXCEPT ![E(leg)] = "FAILED"]
      BY <1>9, <2>3 DEF read_back
    <3>3. UNCHANGED <<posState, started, book>>
      BY <1>9, <2>3 DEF read_back, keepsPosition, positionVars
    <3> QED BY <2>1, <3>1, <3>2, <3>3, <1>A DEF LegStep
  <2> QED BY <2>2, <2>3
<1>10. CASE reconcile_order_load("e_load", "e_apply")
  BY <1>10 DEF reconcile_order_load, dbVars, positionVars, orderVars, brokerVars, Ledger,
               PcMatchesState, IdleIsClean, TodoIsInDoubt, WriteAhead, TagIsFresh, PolledExists,
               SentOnce, AtMostOneOrderPerTag, LegStep, EntryStep, ExitStep
<1>11. CASE reconcile_order_terminal("e_apply", "e_read")
  BY <1>11 DEF reconcile_order_terminal, positionVars, brokerVars, localVars, Ledger,
               PcMatchesState, IdleIsClean, TodoIsInDoubt, WriteAhead, TagIsFresh, PolledExists,
               SentOnce, AtMostOneOrderPerTag, LegStep, EntryStep, ExitStep
\* From here on the hook only counts what it has done.
<1>B. ASSUME pc \in EntryStep \ {"e_create", "e_mark", "e_send", "u_mark", "u_send"},
             pc' \in {"e_attach", "e_orphan", "e_break", "e_error", "u_record"},
             pc' # "e_attach" => posState' = posState, posState' # "IDLE",
             \A t \in started : intent'[t] \notin {"NONE", "PENDING"},
             pc # "e_attach", UNCHANGED <<started, book, leg, todo>>
      PROVE  Ledger'
  <2>1. posState = "ENTRY_PENDING" /\ todo = {}
    BY <1>B DEF Ledger, PcMatchesState, TodoIsInDoubt, EntryStep
  <2> QED
    BY <1>B, <2>1 DEF Ledger, PcMatchesState, IdleIsClean, TodoIsInDoubt, WriteAhead, TagIsFresh,
                      PolledExists, SentOnce, AtMostOneOrderPerTag, LegStep, EntryStep, ExitStep
<1>12. CASE finalize_open
  <2>1. \A t \in started : intent'[t] \notin {"NONE", "PENDING"}
    BY <1>12 DEF finalize_open, Ledger, WriteAhead, TypeOK, OrdersOK
  <2> QED BY <1>12, <2>1, <1>B DEF finalize_open, brokerVars, localVars, EntryStep
<1>13. CASE finalize_open_fails
  <2>1. posState # "IDLE" BY <1>13 DEF finalize_open_fails, Ledger, PcMatchesState, EntryStep
  <2> QED BY <1>13, <2>1, <1>B DEF finalize_open_fails, dbVars, positionVars, orderVars,
             brokerVars, localVars, EntryStep, Ledger, WriteAhead
<1>14. CASE record_orphan_fill
  BY <1>14, BetweenHooks DEF record_orphan_fill, hookReturns, dropLocals, positionVars, orderVars,
                             brokerVars, EntryStep, ExitStep
<1>15. CASE auto_unwind_mark
  <2>1. /\ intent' = [intent EXCEPT ![U] = "SUBMITTED_UNCONFIRMED"]
        /\ started' = started \cup {U} /\ pc = "u_mark" /\ pc' = "u_send"
        /\ UNCHANGED <<posState, book, leg, todo>>
    BY <1>15 DEF auto_unwind_mark, keepsPosition, positionVars, localVars
  <2>2. posState = "ENTRY_PENDING" /\ todo = {} /\ book[U] = <<>>
    BY <1>0, <2>1 DEF Ledger, PcMatchesState, TodoIsInDoubt, TagIsFresh, WriteAhead, EntryStep
  <2>3. PcMatchesState' /\ IdleIsClean' /\ TodoIsInDoubt' /\ PolledExists' /\ SentOnce'
    BY <2>1, <2>2 DEF Ledger, PcMatchesState, IdleIsClean, TodoIsInDoubt, PolledExists,
                      SentOnce, AtMostOneOrderPerTag, EntryStep, ExitStep
  <2>4. WriteAhead' BY <1>0, <2>1 DEF Ledger, WriteAhead, TypeOK, OrdersOK
  <2>5. TagIsFresh' BY <2>1, <2>2 DEF TagIsFresh, LegStep
  <2> QED BY <2>3, <2>4, <2>5 DEF Ledger
<1>16. CASE auto_unwind_send
  <2>1. pc = "u_send" /\ book[U] = <<>> /\ U \in started
    BY <1>16 DEF auto_unwind_send, Ledger, TagIsFresh, WriteAhead
  <2>2. /\ \A s \in Tag : s # U => book'[s] = book[s]
        /\ Len(book'[U]) <= 1
        /\ Acknowledges(U) => book'[U] # <<>>
    BY <1>0, <1>16, <2>1, SendShape DEF auto_unwind_send, TypeOK
  <2>3. UNCHANGED <<posState, intent, started, leg, todo>> /\ pc' \in {"u_poll", "e_break"}
        /\ (pc' = "u_poll" => Acknowledges(U))
    BY <1>16 DEF auto_unwind_send, keepsPosition, positionVars, orderVars, localVars
  <2>4. posState = "ENTRY_PENDING" /\ todo = {}
    BY <2>1 DEF Ledger, PcMatchesState, TodoIsInDoubt, EntryStep
  <2>5. PcMatchesState' /\ IdleIsClean' /\ TodoIsInDoubt' /\ PolledExists' /\ TagIsFresh'
    BY <2>2, <2>3, <2>4 DEF PcMatchesState, IdleIsClean, TodoIsInDoubt, PolledExists, TagIsFresh,
                            LegStep, EntryStep, ExitStep
  <2>6. WriteAhead' /\ SentOnce'
    BY <2>1, <2>2, <2>3 DEF Ledger, WriteAhead, SentOnce, AtMostOneOrderPerTag
  <2> QED BY <2>5, <2>6 DEF Ledger
<1>17. CASE auto_unwind_poll
  <2>1. posState # "IDLE" BY <1>17 DEF auto_unwind_poll, Ledger, PcMatchesState, EntryStep
  <2> QED BY <1>17, <2>1, <1>B DEF auto_unwind_poll, keepsPosition, positionVars, orderVars,
             EntryStep, Ledger, WriteAhead
<1>18. CASE auto_unwind_record
  <2>1. posState # "IDLE" BY <1>18 DEF auto_unwind_record, Ledger, PcMatchesState, EntryStep
  <2>2. \A t \in started : intent'[t] \notin {"NONE", "PENDING"}
    BY <1>18 DEF auto_unwind_record, Ledger, WriteAhead, TypeOK, OrdersOK
  <2> QED BY <1>18, <2>1, <2>2, <1>B DEF auto_unwind_record, keepsPosition, positionVars, EntryStep
<1>19. CASE entry_record_break
  <2>1. posState # "IDLE" BY <1>19 DEF entry_record_break, Ledger, PcMatchesState, EntryStep
  <2> QED BY <1>19, <2>1, <1>B DEF entry_record_break, positionVars, orderVars, brokerVars,
             localVars, EntryStep, Ledger, WriteAhead
<1>20. CASE entry_fail_to_error
  BY <1>20, BetweenHooks DEF entry_fail_to_error, failToError, Errored, hookReturns, dropLocals,
                             orderVars, brokerVars, EntryStep, ExitStep
<1> QED
  BY <1>1, <1>2, <1>3, <1>4, <1>5, <1>6, <1>7, <1>8, <1>9, <1>10, <1>11, <1>12, <1>13,
     <1>14, <1>15, <1>16, <1>17, <1>18, <1>19, <1>20 DEF EntryNext

\* How one exit leg's end moves the hook on.
LEMMA CloseEndsStep ==
    ASSUME NEW result, closeEnds(result)
    PROVE  pc' \in {"x_leg", "x_final", "x_break"} /\ todo' = todo
BY DEF closeEnds

\* Exit keeps the ledger: a leg is sent only after its tag was found unused.
LEMMA ExitLedger ==
    ASSUME TypeOK, Ledger, ExitNext
    PROVE  Ledger'
<1>0. X(leg) \in Tag BY TagFacts DEF TypeOK, LocalsOK
\* A step from one point of the exit to another that sends nothing.
<1>A. ASSUME pc \in ExitStep \ {"x_prepare"},
             pc' \in {"x_leg", "x_find", "x_load", "x_apply", "x_record", "x_final", "x_diverge",
                     "x_break", "x_error", "x_reject", "x_unsent"},
             UNCHANGED <<posState, started, book, todo>>,
             \A t \in started : intent'[t] \notin {"NONE", "PENDING"}
      PROVE  Ledger'
  <2>1. posState = "EXIT_PENDING" /\ todo = {}
    BY <1>A DEF Ledger, PcMatchesState, TodoIsInDoubt, ExitStep
  <2> QED
    BY <1>A, <2>1 DEF Ledger, PcMatchesState, IdleIsClean, TodoIsInDoubt, WriteAhead, TagIsFresh,
                      PolledExists, SentOnce, AtMostOneOrderPerTag, LegStep, EntryStep, ExitStep
<1>B. \A t \in started : intent[t] \notin {"NONE", "PENDING"}
  BY DEF Ledger, WriteAhead
<1>1. CASE prepare_exit
  <2>1. CASE posState \in {"OPEN", "EXIT_PENDING"}
    <3>1. \A t \in started : intent'[t] \notin {"NONE", "PENDING"}
      BY <1>1, <1>B, <2>1 DEF prepare_exit, TypeOK, OrdersOK
    <3>2. /\ pc = "x_prepare" /\ pc' = "x_leg" /\ posState' = "EXIT_PENDING"
          /\ UNCHANGED <<started, book, todo>>
      BY <1>1, <2>1 DEF prepare_exit, brokerVars
    <3> QED
      BY <3>1, <3>2 DEF Ledger, PcMatchesState, IdleIsClean, TodoIsInDoubt, WriteAhead, TagIsFresh,
                        PolledExists, SentOnce, AtMostOneOrderPerTag, LegStep, EntryStep, ExitStep
  <2>2. CASE posState \notin {"OPEN", "EXIT_PENDING"}
    BY <1>1, <2>2, BetweenHooks DEF prepare_exit, hookReturns, dropLocals, brokerVars,
                                    EntryStep, ExitStep
  <2> QED BY <2>1, <2>2
<1>2. CASE close_leg
  <2>1. UNCHANGED <<posState, intent, started, book>> /\ pc = "x_leg"
    BY <1>2 DEF close_leg, keepsPosition, positionVars, orderVars
  <2>2. CASE tradeStatus[leg] = "CLOSED"
    BY <1>2, <1>A, <1>B, <2>1, <2>2, CloseEndsStep DEF close_leg, ExitStep
  <2>3. CASE tradeStatus[leg] # "CLOSED" /\ X(leg) \in started
    BY <1>2, <1>A, <1>B, <2>1, <2>3 DEF close_leg, localVars, ExitStep
  <2>4. CASE tradeStatus[leg] # "CLOSED" /\ X(leg) \notin started
    <3>1. pc' = "x_mark" /\ UNCHANGED <<leg, todo>>
      BY <1>2, <2>4 DEF close_leg, localVars
    <3>2. book[X(leg)] = <<>> BY <1>0, <2>4 DEF Ledger, WriteAhead
    <3> QED
      BY <2>1, <3>1, <3>2 DEF Ledger, PcMatchesState, IdleIsClean, TodoIsInDoubt, WriteAhead,
            TagIsFresh, PolledExists, SentOnce, AtMostOneOrderPerTag, LegStep, EntryStep, ExitStep
  <2> QED BY <2>2, <2>3, <2>4
<1>3. CASE find_order_by_tag
  <2>1. UNCHANGED <<posState, intent, started, book>> /\ pc = "x_find"
    BY <1>3 DEF find_order_by_tag, keepsPosition, positionVars, orderVars
  <2>2. CASE closeEnds("AMBIGUOUS")
    BY <1>A, <1>B, <2>1, <2>2, CloseEndsStep DEF ExitStep
  <2>3. CASE pc' = (IF book[X(leg)] = <<>> THEN "x_mark" ELSE "x_adopt") /\ UNCHANGED localVars
    BY <2>1, <2>3 DEF localVars, Ledger, PcMatchesState, IdleIsClean, TodoIsInDoubt, WriteAhead,
            TagIsFresh, PolledExists, SentOnce, AtMostOneOrderPerTag, LegStep, EntryStep, ExitStep
  <2> QED BY <1>3, <2>2, <2>3 DEF find_order_by_tag
<1>4. CASE adopt_existing_order
  <2>1. UNCHANGED <<posState, intent, started, book>> /\ pc = "x_adopt"
    BY <1>4 DEF adopt_existing_order, keepsPosition, positionVars, orderVars
  <2>2. pc' \in {"x_load", "x_leg", "x_final", "x_break"} /\ todo' = todo
    BY <1>4, CloseEndsStep DEF adopt_existing_order
  <2> QED BY <1>A, <1>B, <2>1, <2>2 DEF ExitStep
<1>5. CASE place_close_mark
  <2>1. /\ intent' = [intent EXCEPT ![X(leg)] = "SUBMITTED_UNCONFIRMED"]
        /\ started' = started \cup {X(leg)} /\ pc = "x_mark" /\ pc' = "x_send"
        /\ UNCHANGED <<posState, book, leg, todo>>
    BY <1>5 DEF place_close_mark, keepsPosition, positionVars, localVars
  <2>2. posState = "EXIT_PENDING" /\ todo = {}
    BY <2>1 DEF Ledger, PcMatchesState, TodoIsInDoubt, ExitStep
  <2>3. PcMatchesState' /\ IdleIsClean' /\ TodoIsInDoubt' /\ PolledExists' /\ SentOnce'
    BY <2>1, <2>2 DEF Ledger, PcMatchesState, IdleIsClean, TodoIsInDoubt, PolledExists,
                      SentOnce, AtMostOneOrderPerTag, EntryStep, ExitStep
  <2>4. WriteAhead' BY <1>0, <2>1 DEF Ledger, WriteAhead, TypeOK, OrdersOK
  <2>5. TagIsFresh' BY <2>1 DEF Ledger, TagIsFresh, LegStep
  <2> QED BY <2>3, <2>4, <2>5 DEF Ledger
<1>6. CASE place_close_send
  <2>1. /\ pc = "x_send" /\ X(leg) \in started
        /\ "reset" \notin Env => book[X(leg)] = <<>>
    BY <1>6 DEF place_close_send, Ledger, TagIsFresh, WriteAhead
  <2>2. /\ \A s \in Tag : s # X(leg) => book'[s] = book[s]
        /\ "reset" \notin Env => Len(book'[X(leg)]) <= 1
        /\ Acknowledges(X(leg)) => book'[X(leg)] # <<>>
        /\ NotSent(X(leg)) /\ "reset" \notin Env => book'[X(leg)] = <<>>
    BY <1>0, <1>6, <2>1, SendShape DEF place_close_send, NotSent, TypeOK
  <2>3. UNCHANGED <<posState, intent, started>>
    BY <1>6 DEF place_close_send, keepsPosition, positionVars, orderVars
  <2>4. /\ pc' \in {"x_send", "x_ack", "x_reject", "x_unsent", "x_leg", "x_final", "x_break"}
        /\ pc' = "x_ack" => Acknowledges(X(leg)) /\ leg' = leg
        /\ pc' = "x_send" => NotSent(X(leg)) /\ leg' = leg
        /\ todo' = todo
    BY <1>6, <2>1, CloseEndsStep DEF place_close_send, localVars
  <2>5. posState = "EXIT_PENDING" /\ todo = {}
    BY <2>1 DEF Ledger, PcMatchesState, TodoIsInDoubt, ExitStep
  <2>6. PcMatchesState' /\ IdleIsClean' /\ TodoIsInDoubt' /\ PolledExists' /\ TagIsFresh'
    BY <2>2, <2>3, <2>4, <2>5 DEF PcMatchesState, IdleIsClean, TodoIsInDoubt, PolledExists,
                                  TagIsFresh, LegStep, EntryStep, ExitStep
  <2>7. WriteAhead'
    BY <2>1, <2>2, <2>3, <2>4 DEF Ledger, WriteAhead
  <2>8. SentOnce' BY <2>2 DEF Ledger, SentOnce, AtMostOneOrderPerTag
  <2> QED BY <2>6, <2>7, <2>8 DEF Ledger
<1>7. CASE record_close_rejection
  <2>1. \A t \in started : intent'[t] \notin {"NONE", "PENDING"}
    BY <1>7, <1>B DEF record_close_rejection, TypeOK, OrdersOK
  <2> QED BY <1>7, <2>1, <1>A, CloseEndsStep
             DEF record_close_rejection, keepsPosition, positionVars, ExitStep
<1>8. CASE close_never_sent
  <2>1. \A t \in started : intent'[t] \notin {"NONE", "PENDING"}
    BY <1>8, <1>B DEF close_never_sent, TypeOK, OrdersOK
  <2> QED BY <1>8, <2>1, <1>A, CloseEndsStep
             DEF close_never_sent, keepsPosition, positionVars, ExitStep
<1>9. CASE confirm_close
  <2>1. /\ pc = "x_ack" /\ pc' = "x_poll"
        /\ intent' = [intent EXCEPT ![X(leg)] = "PLACED"]
        /\ UNCHANGED <<posState, started, book, leg, todo>>
    BY <1>9 DEF confirm_close, keepsPosition, positionVars, localVars
  <2>2. posState = "EXIT_PENDING" /\ todo = {}
    BY <2>1 DEF Ledger, PcMatchesState, TodoIsInDoubt, ExitStep
  <2>3. PcMatchesState' /\ IdleIsClean' /\ TodoIsInDoubt' /\ PolledExists' /\ SentOnce'
    BY <2>1, <2>2 DEF Ledger, PcMatchesState, IdleIsClean, TodoIsInDoubt, PolledExists,
                      SentOnce, AtMostOneOrderPerTag, EntryStep, ExitStep
  <2>4. WriteAhead' BY <2>1 DEF Ledger, WriteAhead, TypeOK, OrdersOK
  <2>5. TagIsFresh' BY <2>1 DEF TagIsFresh, LegStep
  <2> QED BY <2>3, <2>4, <2>5 DEF Ledger
<1>10. CASE poll_close
  <2>1. UNCHANGED <<posState, intent, started, book>> /\ pc = "x_poll"
    BY <1>10 DEF poll_close, keepsPosition, positionVars, orderVars
  <2>2. pc' \in {"x_load", "x_leg", "x_final", "x_break"} /\ todo' = todo
    BY <1>10, CloseEndsStep DEF poll_close
  <2> QED BY <1>A, <1>B, <2>1, <2>2 DEF ExitStep
<1>11. CASE record_close
  <2>1. \A t \in started : intent'[t] \notin {"NONE", "PENDING"}
    BY <1>11, <1>B DEF record_close, TypeOK, OrdersOK
  <2>2. pc = "x_record" /\ UNCHANGED <<posState, started, book>>
    BY <1>11 DEF record_close, keepsPosition, positionVars
  <2>3. pc' \in {"x_leg", "x_final", "x_break"} /\ todo' = todo
    BY <1>11, CloseEndsStep DEF record_close
  <2> QED BY <2>1, <2>2, <2>3, <1>A DEF ExitStep
<1>12. CASE reconcile_order_load("x_load", "x_apply")
  BY <1>12, <1>A, <1>B DEF reconcile_order_load, dbVars, positionVars, orderVars, brokerVars, ExitStep
<1>13. CASE reconcile_order_terminal("x_apply", "x_record")
  BY <1>13, <1>A, <1>B DEF reconcile_order_terminal, positionVars, brokerVars, localVars, ExitStep
<1>14. CASE finalize_closed
  BY <1>14, BetweenHooks DEF finalize_closed, hookReturns, dropLocals, orderVars, brokerVars,
                             EntryStep, ExitStep
<1>15. CASE finalize_closed_fails
  BY <1>15, <1>A, <1>B DEF finalize_closed_fails, dbVars, positionVars, orderVars, brokerVars,
                           localVars, ExitStep
<1>16. CASE record_divergence
  BY <1>16, BetweenHooks DEF record_divergence, hookReturns, dropLocals, positionVars, orderVars,
                             brokerVars, EntryStep, ExitStep
<1>17. CASE exit_record_break
  BY <1>17, <1>A, <1>B DEF exit_record_break, positionVars, orderVars, brokerVars, localVars, ExitStep
<1>18. CASE exit_fail_to_error
  BY <1>18, BetweenHooks DEF exit_fail_to_error, failToError, Errored, hookReturns, dropLocals,
                             orderVars, brokerVars, EntryStep, ExitStep
<1> QED
  BY <1>1, <1>2, <1>3, <1>4, <1>5, <1>6, <1>7, <1>8, <1>9, <1>10, <1>11, <1>12, <1>13,
     <1>14, <1>15, <1>16, <1>17, <1>18 DEF ExitNext

\* Startup, recovery and monitoring keep the ledger: they only choose the next hook.
LEMMA RunnerLedger ==
    ASSUME TypeOK, Ledger,
           \/ start \/ recover_settled \/ recover_exit_pending \/ recover_entry_pending
           \/ attach \/ trigger_exit
    PROVE  Ledger'
<1>1. CASE start
  BY <1>1, BetweenHooks DEF start, dbVars, positionVars, orderVars, brokerVars, localVars,
                            EntryStep, ExitStep, Ledger, TodoIsInDoubt
<1>2. CASE recover_settled \/ attach
  BY <1>2, BetweenHooks DEF recover_settled, attach, hookReturns, dropLocals, dbVars, positionVars,
                            orderVars, brokerVars, EntryStep, ExitStep
<1>3. CASE recover_entry_pending
  BY <1>3, BetweenHooks DEF recover_entry_pending, hookReturns, dropLocals, orderVars, brokerVars,
                            EntryStep, ExitStep
<1>4. CASE recover_exit_pending \/ trigger_exit
  <2>1. /\ UNCHANGED <<posState, intent, started, book, todo>> /\ pc' = "x_prepare"
        /\ pc \in {"s_recover", "idle"}
    BY <1>4 DEF recover_exit_pending, trigger_exit, dbVars, positionVars, orderVars, brokerVars
  <2> QED
    BY <2>1 DEF Ledger, PcMatchesState, IdleIsClean, TodoIsInDoubt, WriteAhead, TagIsFresh,
                PolledExists, SentOnce, AtMostOneOrderPerTag, LegStep, EntryStep, ExitStep
<1> QED BY <1>1, <1>2, <1>3, <1>4

\* The invariant is inductive.
LEMMA IndInvStep == IndInv /\ [Next]_vars => IndInv'
<1> SUFFICES ASSUME IndInv, [Next]_vars PROVE IndInv' OBVIOUS
<1>1. TypeOK /\ Ledger BY DEF IndInv
<1>2. TypeOK' BY <1>1, TypeStep DEF Ledger
<1>3. CASE Hooks
  BY <1>1, <1>2, <1>3, EntryLedger, ExitLedger, ReconcileLedger, RunnerLedger DEF Hooks, IndInv
<1>4. CASE World
  BY <1>1, <1>2, <1>4, WorldLedger DEF IndInv
<1>5. CASE UNCHANGED vars
  BY <1>1, <1>2, <1>5, QuietStep DEF vars, dbVars, positionVars, orderVars, brokerVars, localVars,
                                     IndInv
<1> QED BY <1>3, <1>4, <1>5 DEF Next

\* The invariant holds in every reachable state.
LEMMA IndInvHolds == Spec => []IndInv
<1>1. Init => IndInv BY InitType, InitLedger DEF IndInv
<1> QED BY <1>1, IndInvStep, PTL DEF Spec

--------------------------------------------------------------------------------
(* The theorems. *)

\* Every variable keeps its type in every behaviour: no hook, restart or broker
\* answer puts a status, price or label where the code could not put it.
THEOREM TypeCorrect == Spec => []TypeOK
BY IndInvHolds, PTL DEF IndInv

\* No action of the day reaches the broker twice, for any number of crashes,
\* faults, restarts and whatever the broker answers, as long as an order whose
\* connection failed was not accepted: the close retries on that answer.
THEOREM NoDuplicateOrders == "reset" \notin Env => (Spec => []AtMostOneOrderPerTag)
<1> SUFFICES ASSUME "reset" \notin Env PROVE Spec => []AtMostOneOrderPerTag OBVIOUS
<1>1. IndInv => AtMostOneOrderPerTag BY DEF IndInv, Ledger, SentOnce
<1> QED BY <1>1, IndInvHolds, PTL

\* Every order at the broker was announced in the database before it was sent.
THEOREM WriteAheadHolds == Spec => []IntentBeforeOrder
<1>1. IndInv => IntentBeforeOrder BY DEF IndInv, Ledger, WriteAhead, IntentBeforeOrder
<1> QED BY <1>1, IndInvHolds, PTL

\* The moves of the position row that steps of the system make.
Moves == {<<"IDLE", "ENTRY_PENDING">>, <<"ENTRY_PENDING", "OPEN">>, <<"ENTRY_PENDING", "CLOSED">>,
          <<"OPEN", "EXIT_PENDING">>, <<"EXIT_PENDING", "CLOSED">>, <<"IDLE", "ERROR">>,
          <<"ENTRY_PENDING", "ERROR">>, <<"OPEN", "ERROR">>, <<"EXIT_PENDING", "ERROR">>}

\* _fail_to_error moves the position along an edge to ERROR, or not at all.
LEMMA FailToErrorMove ==
    ASSUME PositionOK, failToError
    PROVE  <<posState, posState'>> \in Moves \/ posState' = posState
BY DEF PositionOK, failToError, Errored, Moves

\* Every step moves the position along one of these edges, or not at all.
LEMMA LegalMoves ==
    ASSUME TypeOK, PcMatchesState, Next
    PROVE  <<posState, posState'>> \in Moves \/ posState' = posState
<1> USE DEF TypeOK
<1>1. CASE World
  <2>1. CASE BrokerMoves BY <2>1, BrokerMovesForm DEF dbVars, positionVars
  <2>2. CASE ~BrokerMoves
    BY <1>1, <2>2 DEF World, process, time_passes, engage_kill_switch, disengage_kill_switch,
          unfreeze, hook_raises, monitor_raises, crash, dbVars, positionVars
  <2> QED BY <2>1, <2>2
<1>2. CASE EntryNext
  <2>1. CASE create_durable_record
    BY <2>1 DEF create_durable_record, PcMatchesState, Moves
  <2>2. CASE finalize_open
    BY <2>2 DEF finalize_open, PcMatchesState, EntryStep, Moves
  <2>3. CASE entry_fail_to_error
    BY <2>3, FailToErrorMove DEF entry_fail_to_error
  <2>4. CASE ~create_durable_record /\ ~finalize_open /\ ~entry_fail_to_error
    BY <1>2, <2>4 DEF EntryNext, enter, approve_entry, place_leg_mark, place_leg_send, record_leg_rejection,
          mark_intent_failed, confirm_and_record, poll_entry, read_back, reconcile_order_load,
          reconcile_order_terminal, finalize_open_fails, record_orphan_fill, auto_unwind_mark,
          auto_unwind_send, auto_unwind_poll, auto_unwind_record, entry_record_break,
          keepsPosition, dbVars, positionVars
  <2> QED BY <2>1, <2>2, <2>3, <2>4
<1>3. CASE ExitNext
  <2>1. CASE prepare_exit BY <2>1 DEF prepare_exit, Moves
  <2>2. CASE finalize_closed
    BY <2>2 DEF finalize_closed, PcMatchesState, ExitStep, Moves
  <2>3. CASE exit_fail_to_error
    BY <2>3, FailToErrorMove DEF exit_fail_to_error
  <2>4. CASE ~prepare_exit /\ ~finalize_closed /\ ~exit_fail_to_error
    BY <1>3, <2>4 DEF ExitNext, close_leg, find_order_by_tag, adopt_existing_order,
          place_close_mark, place_close_send, record_close_rejection, close_never_sent,
          confirm_close, poll_close, record_close, reconcile_order_load,
          reconcile_order_terminal, finalize_closed_fails, record_divergence, exit_record_break,
          keepsPosition, dbVars, positionVars
  <2> QED BY <2>1, <2>2, <2>3, <2>4
<1>4. CASE ReconcileNext
  <2>1. CASE reconcile_one_position
    BY <2>1 DEF reconcile_one_position, reconcile_entry_pending, reconcile_exit_pending,
          reconcile_open, leaveAlone, flag_for_finalization, error_position, Moves
  <2>2. ASSUME NEW t \in Tag, reconcile_one_intent(t)
        PROVE  <<posState, posState'>> \in Moves \/ posState' = posState
    BY <2>2 DEF reconcile_one_intent, flag_duplicate_orders, Errored, fail_intent_not_at_broker,
          resolve_intent_against_order, apply_fill, PositionOK, Moves
  <2>3. CASE fetch_orders \/ intents_reconciled \/ detect_orphans \/ \E t \in Tag : startup_aborts(t)
    BY <2>3 DEF fetch_orders, intents_reconciled, detect_orphans, startup_aborts, dbVars, positionVars
  <2> QED BY <1>4, <2>1, <2>2, <2>3 DEF ReconcileNext
<1>5. CASE recover_entry_pending BY <1>5 DEF recover_entry_pending, Moves
<1>6. CASE start \/ recover_settled \/ recover_exit_pending \/ attach \/ trigger_exit
  BY <1>6 DEF start, recover_settled, recover_exit_pending, attach, trigger_exit, dbVars, positionVars
<1> QED BY <1>1, <1>2, <1>3, <1>4, <1>5, <1>6 DEF Next, Hooks

\* So it is in every state of the inductive invariant.
LEMMA PositionMoves ==
    ASSUME IndInv, Next
    PROVE  <<posState, posState'>> \in Moves \/ posState' = posState
BY LegalMoves DEF IndInv, Ledger

\* Each of these edges is one that recovery may take, if nobody else.
LEMMA MovesAreAllowed ==
    ASSUME <<posState, posState'>> \in Moves \/ posState' = posState
    PROVE  [PSM!Next]_posState
<1>1. \A m \in Moves : PSM!is_transition_allowed_for_actor(m[1], m[2], "RECOVERY")
  BY DEF Moves, PSM!is_transition_allowed_for_actor, PSM!is_transition_allowed,
         PSM!allowed_transitions, PSM!PositionState, PSM!IDLE, PSM!ENTRY_PENDING, PSM!OPEN,
         PSM!EXIT_PENDING, PSM!CLOSED, PSM!ERROR
<1>2. CASE posState' = posState BY <1>2
<1>3. CASE <<posState, posState'>> \in Moves
  <2>1. PSM!transition(posState', "RECOVERY") BY <1>1, <1>3 DEF PSM!transition
  <2>2. posState' \in PSM!PositionState /\ "RECOVERY" \in PSM!Actor
    BY <1>3 DEF Moves, PSM!PositionState, PSM!Actor, PSM!ENTRY_PENDING, PSM!OPEN,
                PSM!EXIT_PENDING, PSM!CLOSED, PSM!ERROR, PSM!IDLE
  <2> QED BY <2>1, <2>2 DEF PSM!Next
<1> QED BY <1>2, <1>3

\* The trade cycle, with the writes of reconciliation that no code validates,
\* implements the state machine of strategy_1/state_machine.py.
THEOREM ImplementsStateMachine == Spec => FollowsStateMachine
<1>1. Init => PSM!Init BY DEF Init, PSM!Init, PSM!IDLE
<1>2. ASSUME IndInv, [Next]_vars PROVE [PSM!Next]_posState
  <2>1. CASE UNCHANGED vars BY <2>1 DEF vars, dbVars, positionVars
  <2>2. CASE Next BY <1>2, <2>2, PositionMoves, MovesAreAllowed
  <2> QED BY <1>2, <2>1, <2>2
<1> QED BY <1>1, <1>2, IndInvHolds, PTL DEF Spec, PSM!Spec, FollowsStateMachine

\* Only the three sends add an order to the book.
LEMMA OnlySendsAdd ==
    ASSUME IndInv, Next, NEW t \in Tag, Len(book'[t]) > Len(book[t])
    PROVE  \/ place_leg_send /\ t = E(leg)
           \/ auto_unwind_send /\ t = U
           \/ place_close_send /\ t = X(leg)
<1> USE DEF IndInv, TypeOK
<1>1. Len(book[t]) \in Nat /\ book' # book /\ book'[t] # book[t]
  BY DEF BrokerOK
<1>2. CASE World
  <2>1. ~BrokerMoves BY <1>1, BrokerMovesShape
  <2> QED BY <1>1, <1>2, <2>1 DEF World, process, time_passes, engage_kill_switch,
            disengage_kill_switch, unfreeze, hook_raises, monitor_raises, crash, brokerVars
<1>3. CASE EntryNext
  <2>1. place_leg_send \/ auto_unwind_send
    BY <1>1, <1>3 DEF EntryNext, enter, approve_entry, create_durable_record, place_leg_mark,
          record_leg_rejection, mark_intent_failed, confirm_and_record, poll_entry, read_back,
          reconcile_order_load, reconcile_order_terminal, finalize_open, finalize_open_fails,
          record_orphan_fill, auto_unwind_mark, auto_unwind_poll, auto_unwind_record,
          entry_record_break, entry_fail_to_error, brokerVars
  <2>2. CASE place_leg_send
    <3>1. E(leg) \in Tag BY TagFacts DEF LocalsOK
    <3>2. \A s \in Tag : s # E(leg) => book'[s] = book[s]
      BY <2>2, <3>1, SendShape DEF place_leg_send
    <3> QED BY <1>1, <2>2, <3>2
  <2>3. CASE auto_unwind_send
    <3>1. U \in Tag BY TagFacts
    <3>2. \A s \in Tag : s # U => book'[s] = book[s]
      BY <2>3, <3>1, SendShape DEF auto_unwind_send
    <3> QED BY <1>1, <2>3, <3>2
  <2> QED BY <2>1, <2>2, <2>3
<1>4. CASE ExitNext
  <2>1. place_close_send
    BY <1>1, <1>4 DEF ExitNext, prepare_exit, close_leg, find_order_by_tag, adopt_existing_order,
          place_close_mark, record_close_rejection, close_never_sent, confirm_close, poll_close,
          record_close, reconcile_order_load, reconcile_order_terminal, finalize_closed,
          finalize_closed_fails, record_divergence, exit_record_break, exit_fail_to_error, brokerVars
  <2>2. X(leg) \in Tag BY TagFacts DEF LocalsOK
  <2>3. \A s \in Tag : s # X(leg) => book'[s] = book[s]
    BY <2>1, <2>2, SendShape DEF place_close_send
  <2> QED BY <1>1, <2>1, <2>3
<1>5. ~ReconcileNext
  BY <1>1 DEF ReconcileNext, fetch_orders, intents_reconciled, detect_orphans, startup_aborts,
              reconcile_one_position, reconcile_one_intent, brokerVars
<1>6. ~(start \/ recover_settled \/ recover_exit_pending \/ recover_entry_pending
        \/ attach \/ trigger_exit)
  BY <1>1 DEF start, recover_settled, recover_exit_pending, recover_entry_pending, attach,
              trigger_exit, brokerVars
<1> QED BY <1>2, <1>3, <1>4, <1>5, <1>6 DEF Next, Hooks

\* Entry and unwind orders are sent while the position is ENTRY_PENDING, closing
\* orders while it is EXIT_PENDING, and nothing in any other state.
THEOREM OrdersMatchTheState == Spec => NoOrderAfterTheEnd
<1>1. ASSUME IndInv, [Next]_vars, NEW t \in Tag, Len(book'[t]) > Len(book[t])
      PROVE  posState \in {"ENTRY_PENDING", "EXIT_PENDING"}
             /\ (t[1] = "X" <=> posState = "EXIT_PENDING")
  <2>1. Next
    <3>1. CASE UNCHANGED vars
      <4>1. book' = book BY <3>1 DEF vars, brokerVars
      <4>2. Len(book[t]) \in Nat BY <1>1 DEF IndInv, TypeOK, BrokerOK
      <4> QED BY <1>1, <4>1, <4>2
    <3> QED BY <1>1, <3>1
  <2>2. leg \in Leg BY <1>1 DEF IndInv, TypeOK, LocalsOK
  <2>3. CASE place_leg_send /\ t = E(leg)
    BY <1>1, <2>2, <2>3, TagsDiffer DEF place_leg_send, IndInv, Ledger, PcMatchesState, EntryStep
  <2>4. CASE auto_unwind_send /\ t = U
    BY <1>1, <2>2, <2>4, TagsDiffer DEF auto_unwind_send, IndInv, Ledger, PcMatchesState, EntryStep
  <2>5. CASE place_close_send /\ t = X(leg)
    BY <1>1, <2>2, <2>5, TagsDiffer DEF place_close_send, IndInv, Ledger, PcMatchesState, ExitStep
  <2> QED BY <1>1, <2>1, <2>3, <2>4, <2>5, OnlySendsAdd
<1>2. IndInv /\ [Next]_vars =>
        [\A t \in Tag : Len(book'[t]) > Len(book[t]) =>
              /\ posState \in {"ENTRY_PENDING", "EXIT_PENDING"}
              /\ t[1] = "X" <=> posState = "EXIT_PENDING"]_vars
  BY <1>1
<1> QED BY <1>2, IndInvHolds, PTL DEF Spec, NoOrderAfterTheEnd

--------------------------------------------------------------------------------
(***************************************************************************)
(* What is known of the legs that were sold: the put is sold only over a full *)
(* call, a position called OPEN is short both legs in full, and no leg is     *)
(* bought back twice.  SaleInv is inductive beside the ledger.                *)
(***************************************************************************)

\* The broker takes nothing back: an order that filled in full stays so.
LEMMA BrokerKeepsFills ==
    ASSUME TypeOK, CompleteIsFull, BrokerMoves
    PROVE  CompleteIsFull' /\ \A t \in Tag : FullyFilled(t) => FullyFilled(t)'
<1>0. Qty \in Nat \ {0} /\ book \in [Tag -> Seq(Order)]
  BY ConstantsAssumption DEF ConstantsAssumption, TypeOK, BrokerOK
\* An order only moves up to the quantity, and is COMPLETE only there.
<1>1. ASSUME NEW t \in Tag, NEW i \in DOMAIN book[t], NEW o \in Order,
             book' = [book EXCEPT ![t][i] = o],
             book[t][i].filled = Qty => o.filled = Qty,
             o.status = "COMPLETE" => o.filled = Qty
      PROVE  CompleteIsFull' /\ \A s \in Tag : FullyFilled(s) => FullyFilled(s)'
  <2>1. \A s \in Tag : Len(book'[s]) = Len(book[s]) /\ DOMAIN book'[s] = DOMAIN book[s]
                       /\ (book'[s] = <<>> <=> book[s] = <<>>)
    BY <1>0, <1>1, BrokerMovesShape
  <2>2. \A s \in Tag : \A j \in DOMAIN book[s] :
          book'[s][j] = IF s = t /\ j = i THEN o ELSE book[s][j]
    BY <1>0, <1>1
  <2>3. CompleteIsFull' BY <1>1, <2>1, <2>2 DEF CompleteIsFull
  <2>4. ASSUME NEW s \in Tag, FullyFilled(s) PROVE FullyFilled(s)'
    <3>1. Len(book[s]) \in DOMAIN book[s] BY <1>0, <2>4 DEF FullyFilled
    <3> QED BY <1>1, <2>1, <2>2, <2>4, <3>1 DEF FullyFilled, LastOrder
  <2> QED BY <2>3, <2>4
<1>2. ASSUME NEW t \in Tag, NEW i \in DOMAIN book[t], NEW k \in 1..Qty, BrokerFills(t, i, k)
      PROVE  CompleteIsFull' /\ \A s \in Tag : FullyFilled(s) => FullyFilled(s)'
  <2>1. PICK price \in {"real", "none"} :
          book' = [book EXCEPT ![t][i] = [status |-> IF k = Qty THEN "COMPLETE" ELSE "OPEN",
                                          filled |-> k, price |-> price]]
    BY <1>2 DEF BrokerFills
  <2> DEFINE o == [status |-> IF k = Qty THEN "COMPLETE" ELSE "OPEN", filled |-> k, price |-> price]
  <2>2. o \in Order BY <1>0 DEF Order, OrderStatus, Price
  <2>3. o.status = "COMPLETE" => o.filled = Qty OBVIOUS
  <2>4. k > book[t][i].filled BY <1>2 DEF BrokerFills
  <2>5. book[t][i].filled # Qty BY <1>0, <2>4
  <2> QED BY <1>1, <2>1, <2>2, <2>3, <2>5
<1>3. ASSUME NEW t \in Tag, NEW i \in DOMAIN book[t], NEW s \in {"REJECTED", "CANCELLED"},
             BrokerKills(t, i, s)
      PROVE  CompleteIsFull' /\ \A u \in Tag : FullyFilled(u) => FullyFilled(u)'
  <2>1. book' = [book EXCEPT ![t][i] = [book[t][i] EXCEPT !.status = s]]
    BY <1>0, <1>3 DEF BrokerKills
  <2>2. book[t][i] \in Order BY <1>0
  <2>3. [book[t][i] EXCEPT !.status = s] \in Order
        /\ [book[t][i] EXCEPT !.status = s].filled = book[t][i].filled
        /\ [book[t][i] EXCEPT !.status = s].status # "COMPLETE"
    BY <2>2 DEF Order, OrderStatus
  <2> QED BY <1>1, <2>1, <2>3
<1>4. ASSUME NEW t \in Tag, NEW i \in DOMAIN book[t], BrokerPrices(t, i)
      PROVE  CompleteIsFull' /\ \A u \in Tag : FullyFilled(u) => FullyFilled(u)'
  <2>1. book' = [book EXCEPT ![t][i] = [book[t][i] EXCEPT !.price = "real"]]
    BY <1>0, <1>4 DEF BrokerPrices
  <2>2. book[t][i] \in Order /\ book[t][i].filled = Qty
    BY <1>0, <1>4 DEF BrokerPrices, CompleteIsFull
  <2>3. [book[t][i] EXCEPT !.price = "real"] \in Order
        /\ [book[t][i] EXCEPT !.price = "real"].filled = book[t][i].filled
    BY <2>2 DEF Order, Price
  <2> QED BY <1>1, <2>1, <2>2, <2>3
<1>5. CASE \E l \in Leg : SquaresOff(l)
  BY <1>5 DEF SquaresOff, CompleteIsFull, FullyFilled, LastOrder
<1> QED BY <1>2, <1>3, <1>4, <1>5 DEF BrokerMoves

\* A call of place_order leaves the orders of other tags alone, and what it adds
\* has filled nothing.
LEMMA SendKeepsFills ==
    ASSUME BrokerOK, CompleteIsFull, NEW t \in Tag,
           Acknowledges(t) \/ Refuses(t) \/ TimesOut(t) \/ NotSent(t)
    PROVE  CompleteIsFull' /\ \A s \in Tag : s # t /\ FullyFilled(s) => FullyFilled(s)'
<1>1. book' \in {book, Accepted(t)} BY DEF Acknowledges, Refuses, TimesOut, NotSent
<1>2. CASE book' = book BY <1>2 DEF CompleteIsFull, FullyFilled, LastOrder
<1>3. CASE book' = Accepted(t)
  <2> DEFINE o == [status |-> "OPEN", filled |-> 0, price |-> "none"]
  <2>1. book[t] \in Seq(Order) BY DEF BrokerOK
  <2>2. book'[t] = Append(book[t], o) /\ \A s \in Tag : s # t => book'[s] = book[s]
    BY <1>3 DEF Accepted, BrokerOK
  <2>3. \A i \in DOMAIN Append(book[t], o) :
          Append(book[t], o)[i] = o \/ (i \in DOMAIN book[t] /\ Append(book[t], o)[i] = book[t][i])
    BY <2>1
  <2>4. CompleteIsFull' BY <2>2, <2>3 DEF CompleteIsFull
  <2> QED BY <2>2, <2>4 DEF FullyFilled, LastOrder
<1> QED BY <1>1, <1>2, <1>3

\* The book changes when an order is sent and when the broker moves one.
LEMMA OnlyTheBrokerMoves ==
    ASSUME Next, ~BrokerMoves, ~place_leg_send, ~auto_unwind_send, ~place_close_send
    PROVE  book' = book
<1>1. CASE World
  BY <1>1 DEF World, process, time_passes, engage_kill_switch,
        disengage_kill_switch, unfreeze, hook_raises, monitor_raises, crash, brokerVars
<1>2. CASE EntryNext
  BY <1>2 DEF EntryNext, enter, approve_entry, create_durable_record, place_leg_mark,
      record_leg_rejection, mark_intent_failed, confirm_and_record, poll_entry, read_back,
      reconcile_order_load, reconcile_order_terminal, finalize_open, finalize_open_fails,
      record_orphan_fill, auto_unwind_mark, auto_unwind_poll, auto_unwind_record,
      entry_record_break, entry_fail_to_error, brokerVars
<1>3. CASE ExitNext
  BY <1>3 DEF ExitNext, prepare_exit, close_leg, find_order_by_tag, adopt_existing_order,
      place_close_mark, record_close_rejection, close_never_sent, confirm_close, poll_close,
      record_close, reconcile_order_load, reconcile_order_terminal, finalize_closed,
      finalize_closed_fails, record_divergence, exit_record_break, exit_fail_to_error, brokerVars
<1>4. CASE ReconcileNext
  BY <1>4 DEF ReconcileNext, fetch_orders, intents_reconciled, detect_orphans, startup_aborts,
          reconcile_one_position, reconcile_one_intent, brokerVars
<1>5. CASE start \/ recover_settled \/ recover_exit_pending \/ recover_entry_pending
            \/ attach \/ trigger_exit
  BY <1>5 DEF start, recover_settled, recover_exit_pending, recover_entry_pending, attach,
          trigger_exit, brokerVars
<1> QED BY <1>1, <1>2, <1>3, <1>4, <1>5 DEF Next, Hooks

\* What one step makes of the book, as far as the legs sold are concerned.
LEMMA BookStep ==
    ASSUME IndInv, IndInv', EntryOnce, CompleteIsFull, Next
    PROVE  /\ EntryOnce' /\ CompleteIsFull'
           /\ \A l \in Leg : FullyFilled(E(l)) => FullyFilled(E(l))'
           /\ book[E("PE")] = <<>> /\ book'[E("PE")] # <<>> => pc = "e_send" /\ leg = "PE"
           /\ book[U] = <<>> /\ book'[U] # <<>> => pc = "u_send"
<1> DEFINE Sends == place_leg_send \/ auto_unwind_send \/ place_close_send
<1>0. /\ leg \in Leg /\ U \in Tag /\ \A l \in Leg : E(l) \in Tag /\ X(l) \in Tag
      /\ "PE" \in Leg /\ book \in [Tag -> Seq(Order)] /\ book' \in [Tag -> Seq(Order)]
  BY TagFacts DEF IndInv, TypeOK, LocalsOK, BrokerOK, Leg
<1>1. CASE place_leg_send
  <2>1. pc = "e_send" /\ book[E(leg)] = <<>>
    BY <1>1 DEF place_leg_send, IndInv, Ledger, TagIsFresh
  <2>2. Acknowledges(E(leg)) \/ Refuses(E(leg)) \/ NotSent(E(leg)) \/ TimesOut(E(leg))
    BY <1>1 DEF place_leg_send
  <2>3. CompleteIsFull' /\ \A s \in Tag : s # E(leg) /\ FullyFilled(s) => FullyFilled(s)'
    BY <1>0, <2>2, SendKeepsFills DEF IndInv, TypeOK
  <2>4. /\ \A s \in Tag : s # E(leg) => book'[s] = book[s]
        /\ Len(book'[E(leg)]) <= 1
    BY <1>0, <2>1, <2>2, SendShape DEF IndInv, TypeOK
  <2>5. ~FullyFilled(E(leg)) BY <2>1 DEF FullyFilled
  <2>6. U # E(leg) BY <1>0, TagsDiffer
  <2>7. EntryOnce'
    <3> SUFFICES ASSUME NEW l \in Leg PROVE Len(book'[E(l)]) <= 1 BY DEF EntryOnce
    <3>1. CASE E(l) = E(leg) BY <2>4, <3>1
    <3>2. CASE E(l) # E(leg) BY <1>0, <2>4, <3>2 DEF EntryOnce
    <3> QED BY <3>1, <3>2
  <2> QED BY <1>0, <2>1, <2>3, <2>4, <2>5, <2>6, <2>7, TagsDiffer
<1>2. ASSUME NEW t \in Tag, \A l \in Leg : t # E(l),
             Acknowledges(t) \/ Refuses(t) \/ NotSent(t) \/ TimesOut(t)
      PROVE  /\ EntryOnce' /\ CompleteIsFull'
             /\ \A l \in Leg : FullyFilled(E(l)) => FullyFilled(E(l))'
             /\ book'[E("PE")] = book[E("PE")]
             /\ U # t => book'[U] = book[U]
  <2>1. CompleteIsFull' /\ \A s \in Tag : s # t /\ FullyFilled(s) => FullyFilled(s)'
    BY <1>2, SendKeepsFills DEF IndInv, TypeOK
  <2>2. \A s \in Tag : s # t => book'[s] = book[s]
    BY <1>2, SendShape DEF IndInv, TypeOK
  <2> QED BY <1>0, <1>2, <2>1, <2>2 DEF EntryOnce
<1>3. CASE auto_unwind_send
  <2>1. pc = "u_send" /\ (Acknowledges(U) \/ TimesOut(U)) BY <1>3 DEF auto_unwind_send
  <2>2. \A l \in Leg : U # E(l) BY TagsDiffer
  <2> QED BY <1>0, <1>2, <2>1, <2>2
<1>4. CASE place_close_send
  <2>1. Acknowledges(X(leg)) \/ Refuses(X(leg)) \/ NotSent(X(leg)) \/ TimesOut(X(leg))
    BY <1>4 DEF place_close_send
  <2>2. (\A l \in Leg : X(leg) # E(l)) /\ U # X(leg) BY <1>0, TagsDiffer
  <2> QED BY <1>0, <1>2, <2>1, <2>2
<1>5. CASE BrokerMoves
  <2>1. \A t \in Tag : Len(book'[t]) = Len(book[t]) /\ (book'[t] = <<>> <=> book[t] = <<>>)
    BY <1>5, BrokerMovesShape DEF IndInv
  <2> QED BY <1>0, <1>5, <2>1, BrokerKeepsFills DEF IndInv, EntryOnce
<1>6. CASE ~Sends /\ ~BrokerMoves
  <2>1. book' = book BY <1>6, OnlyTheBrokerMoves
  <2> QED BY <2>1 DEF EntryOnce, CompleteIsFull, FullyFilled, LastOrder
<1> QED BY <1>1, <1>3, <1>4, <1>5, <1>6

\* Who writes an intent: the steps that begin something, one leg's answer, and
\* reconciliation, which touches only what is in doubt.
LEMMA IntentWriters ==
    ASSUME IndInv, Next
    PROVE  \/ UNCHANGED <<intent, started>>
           \/ create_durable_record \/ prepare_exit \/ finalize_open
           \/ place_leg_mark \/ auto_unwind_mark \/ place_close_mark
           \/ /\ started' = started
              /\ \E t \in Tag : \E s \in IntentStatus : /\ intent' = [intent EXCEPT ![t] = s]
                                 /\ \/ pc \in LegStep /\ t = E(leg)
                                    \/ pc = "u_record" /\ t = U
                                    \/ pc \in ExitStep \ {"x_prepare"} /\ t = X(leg)
                                    \/ pc = "r_intents" /\ t \in todo
<1> DEFINE One == /\ started' = started
                  /\ \E t \in Tag : \E s \in IntentStatus : /\ intent' = [intent EXCEPT ![t] = s]
                                     /\ \/ pc \in LegStep /\ t = E(leg)
                                        \/ pc = "u_record" /\ t = U
                                        \/ pc \in ExitStep \ {"x_prepare"} /\ t = X(leg)
                                        \/ pc = "r_intents" /\ t \in todo
<1>0. /\ E(leg) \in Tag /\ X(leg) \in Tag /\ U \in Tag
      /\ {"SUBMITTED_UNCONFIRMED", "PLACED", "CONFIRMED", "FAILED"} \subseteq IntentStatus
  BY TagFacts DEF IndInv, TypeOK, LocalsOK, IntentStatus
<1>1. CASE World
  <2>1. CASE BrokerMoves BY <2>1, BrokerMovesForm DEF IndInv, dbVars, orderVars
  <2>2. CASE ~BrokerMoves
    BY <1>1, <2>2 DEF World, process, time_passes, engage_kill_switch,
            disengage_kill_switch, unfreeze, hook_raises, monitor_raises, crash, dbVars, orderVars
  <2> QED BY <2>1, <2>2
<1>2. CASE EntryNext
  <2>1. CASE record_leg_rejection \/ mark_intent_failed \/ confirm_and_record \/ auto_unwind_record
    BY <1>0, <2>1 DEF record_leg_rejection, mark_intent_failed, confirm_and_record,
                      auto_unwind_record, LegStep
  <2>2. CASE read_back
    <3>1. CASE intent' = intent /\ started' = started BY <3>1
    <3>2. CASE intent' = [intent EXCEPT ![E(leg)] = "FAILED"] /\ started' = started
      <4>1. pc \in LegStep BY <2>2 DEF read_back, LegStep
      <4> QED BY <1>0, <3>2, <4>1
    <3> QED BY <2>2, <3>1, <3>2 DEF read_back, orderVars
  <2>3. CASE ~(record_leg_rejection \/ mark_intent_failed \/ confirm_and_record \/ auto_unwind_record
               \/ read_back)
    BY <1>2, <2>3 DEF EntryNext, enter, place_leg_send, poll_entry, reconcile_order_load,
          reconcile_order_terminal, finalize_open_fails, record_orphan_fill, auto_unwind_send,
          auto_unwind_poll, entry_record_break, entry_fail_to_error, dbVars, orderVars
  <2> QED BY <2>1, <2>2, <2>3
<1>3. CASE ExitNext
  <2>1. CASE record_close_rejection \/ close_never_sent \/ confirm_close
    BY <1>0, <2>1 DEF record_close_rejection, close_never_sent, confirm_close, ExitStep
  <2>2. CASE record_close
    <3>1. started' = started /\ pc = "x_record" BY <2>2 DEF record_close
    <3>2. \E s \in {"CONFIRMED", "FAILED"} : intent' = [intent EXCEPT ![X(leg)] = s]
      BY <2>2 DEF record_close
    <3> QED BY <1>0, <3>1, <3>2 DEF ExitStep
  <2>3. CASE ~(record_close_rejection \/ close_never_sent \/ confirm_close \/ record_close)
    BY <1>3, <2>3 DEF ExitNext, close_leg, find_order_by_tag, adopt_existing_order,
          place_close_send, poll_close, reconcile_order_load, reconcile_order_terminal,
          finalize_closed, finalize_closed_fails, record_divergence, exit_record_break,
          exit_fail_to_error, dbVars, orderVars
  <2> QED BY <2>1, <2>2, <2>3
<1>4. CASE ReconcileNext
  <2>1. ASSUME NEW t \in Tag, reconcile_one_intent(t) PROVE One \/ UNCHANGED <<intent, started>>
    <3>1. pc = "r_intents" /\ t \in todo /\ started' = started
      BY <2>1 DEF reconcile_one_intent
    <3>2. intent' = intent \/ \E s \in {"CONFIRMED", "FAILED"} : intent' = [intent EXCEPT ![t] = s]
      BY <2>1 DEF reconcile_one_intent, flag_duplicate_orders, fail_intent_not_at_broker,
                  resolve_intent_against_order, apply_fill
    <3> QED BY <1>0, <2>1, <3>1, <3>2
  <2>2. CASE ~\E t \in Tag : reconcile_one_intent(t)
    BY <1>4, <2>2 DEF ReconcileNext, fetch_orders, intents_reconciled, detect_orphans,
          startup_aborts, reconcile_one_position, dbVars, orderVars
  <2> QED BY <2>1, <2>2
<1>5. CASE start \/ recover_settled \/ recover_exit_pending \/ recover_entry_pending
           \/ attach \/ trigger_exit
  BY <1>5 DEF start, recover_settled, recover_exit_pending, recover_entry_pending, attach,
              trigger_exit, dbVars, orderVars
<1> QED BY <1>1, <1>2, <1>3, <1>4, <1>5 DEF Next, Hooks

\* The steps of entry that sell a leg, or buy the call back.
SellStep == LegStep \cup UnwindStep \cup {"e_final"}

\* Only a step of entry moves entry; beside it, the world may move the rows.
LEMMA WhoMovesEntry ==
    ASSUME IndInv, Next, pc' \in SellStep
    PROVE  \/ EntryNext
           \/ /\ UNCHANGED <<pc, leg, polled, started, intent, posState>>
              /\ row' = row \/ \E t \in Tag : process(t)
<1> USE DEF SellStep, LegStep, UnwindStep
<1>1. CASE World
  <2>1. CASE BrokerMoves
    BY <2>1, BrokerMovesForm DEF IndInv, dbVars, positionVars, orderVars, localVars
  <2>2. CASE \E t \in Tag : process(t) BY <2>2 DEF process, positionVars, localVars
  <2>3. CASE time_passes \/ engage_kill_switch \/ disengage_kill_switch \/ unfreeze
    BY <2>3 DEF time_passes, engage_kill_switch, disengage_kill_switch, unfreeze, dbVars,
                positionVars, orderVars, localVars
  <2>4. CASE hook_raises \/ monitor_raises \/ crash
    BY <2>4 DEF hook_raises, monitor_raises, crash, hookRaises
  <2> QED BY <1>1, <2>1, <2>2, <2>3, <2>4 DEF World
<1>2. ~ExitNext
  <2>1. CASE \E result \in {"CLOSED", "FAILED", "AMBIGUOUS"} : closeEnds(result)
    BY <2>1, CloseEndsStep
  <2>2. CASE pc' = pc /\ pc = "x_send" BY <2>2
  <2>3. CASE ~(\E result \in {"CLOSED", "FAILED", "AMBIGUOUS"} : closeEnds(result)) /\ ~(pc' = pc /\ pc = "x_send")
    BY <2>3 DEF ExitNext, prepare_exit, close_leg, find_order_by_tag, adopt_existing_order,
          place_close_mark, place_close_send, record_close_rejection, close_never_sent,
          confirm_close, poll_close, record_close, reconcile_order_load,
          reconcile_order_terminal, finalize_closed, finalize_closed_fails, record_divergence,
          exit_record_break, exit_fail_to_error, hookReturns
  <2> QED BY <2>1, <2>2, <2>3
<1>3. ~ReconcileNext
  BY DEF ReconcileNext, fetch_orders, intents_reconciled, detect_orphans, startup_aborts,
         reconcile_one_position, reconcile_one_intent
<1>4. ~(start \/ recover_settled \/ recover_exit_pending \/ recover_entry_pending
        \/ attach \/ trigger_exit)
  BY DEF start, recover_settled, recover_exit_pending, recover_entry_pending, attach,
         trigger_exit, hookReturns
<1> QED BY <1>1, <1>2, <1>3, <1>4 DEF Next, Hooks

\* Exits and unwinds begin no earlier than they should.
LEMMA NothingBoughtEarlyStep ==
    ASSUME IndInv, IndInv', SaleInv, Next
    PROVE  NothingBoughtEarly'
<1> DEFINE Early == {"IDLE", "ENTRY_PENDING", "OPEN"}
<1>0. /\ leg \in Leg /\ intent \in [Tag -> IntentStatus] /\ todo \subseteq Tag
      /\ \A l \in Leg : E(l) \in Tag /\ X(l) \in Tag /\ <<"U", l>> \in Tag
      /\ "CE" \in Leg /\ "PE" \in Leg /\ U \in Tag /\ U = <<"U", "CE">> /\ U # <<"U", "PE">>
  BY TagFacts DEF IndInv, TypeOK, LocalsOK, OrdersOK, Leg, Tag, U
<1>1. \A l, m \in Leg : E(l) # X(m) /\ <<"U", l>> # X(m) /\ <<"U", l>> # E(m) /\ E(l)[1] = "E"
                        /\ X(l)[1] = "X" /\ <<"U", l>>[1] = "U"
  BY DEF E, X
<1>2. posState' \in Early => posState \in Early
  BY PositionMoves DEF Moves
<1>3. /\ posState \in Early => \A l \in Leg : X(l) \notin started /\ intent[X(l)] = "NONE"
      /\ \A l \in Leg : <<"U", l>> \in started \/ intent[<<"U", l>>] = "NONE"
      /\ <<"U", "PE">> \notin started
  BY DEF SaleInv, NothingBoughtEarly
<1> DEFINE Goal == /\ posState' \in Early =>
                         \A l \in Leg : X(l) \notin started' /\ intent'[X(l)] = "NONE"
                   /\ \A l \in Leg : <<"U", l>> \in started' \/ intent'[<<"U", l>>] = "NONE"
                   /\ <<"U", "PE">> \notin started'
<1>4. Goal
  <2>1. CASE UNCHANGED <<intent, started>> BY <1>2, <1>3, <2>1
  <2>2. CASE create_durable_record
    BY <1>0, <1>1, <1>2, <1>3, <2>2 DEF create_durable_record
  <2>3. CASE prepare_exit
    <3>1. CASE posState' = "EXIT_PENDING"
      <4>1. started' = started /\ \A l \in Leg : intent'[<<"U", l>>] = intent[<<"U", l>>]
        BY <1>0, <1>1, <2>3 DEF prepare_exit
      <4> QED BY <1>3, <3>1, <4>1
    <3>2. CASE posState' # "EXIT_PENDING"
      <4>1. UNCHANGED <<intent, started>> BY <2>3, <3>2 DEF prepare_exit
      <4> QED BY <1>2, <1>3, <4>1
    <3> QED BY <3>1, <3>2
  <2>4. CASE finalize_open
    BY <1>0, <1>1, <1>2, <1>3, <2>4 DEF finalize_open
  <2>5. CASE place_leg_mark
    BY <1>0, <1>1, <1>2, <1>3, <2>5 DEF place_leg_mark
  <2>6. CASE auto_unwind_mark
    BY <1>0, <1>1, <1>2, <1>3, <2>6 DEF auto_unwind_mark
  <2>7. CASE place_close_mark
    <3>1. posState' = "EXIT_PENDING"
      BY <2>7 DEF place_close_mark, keepsPosition, positionVars, IndInv, Ledger, PcMatchesState, ExitStep
    <3> QED BY <1>0, <1>1, <1>3, <2>7, <3>1 DEF place_close_mark
  <2>8. ASSUME started' = started, NEW t \in Tag, NEW s \in IntentStatus,
               intent' = [intent EXCEPT ![t] = s],
               \/ pc \in LegStep /\ t = E(leg)
               \/ pc = "u_record" /\ t = U
               \/ pc \in ExitStep \ {"x_prepare"} /\ t = X(leg)
               \/ pc = "r_intents" /\ t \in todo
        PROVE  Goal
    <3>0. \A u \in Tag : u # t => intent'[u] = intent[u] BY <1>0, <2>8
    <3>1. CASE pc \in LegStep /\ t = E(leg) BY <1>0, <1>1, <1>2, <1>3, <2>8, <3>0, <3>1
    <3>2. CASE pc = "u_record" /\ t = U
      <4>2. U \in started BY <3>2 DEF SaleInv, NothingBoughtEarly
      <4> QED BY <1>0, <1>1, <1>2, <1>3, <2>8, <3>0, <3>2, <4>2
    <3>3. CASE pc \in ExitStep \ {"x_prepare"} /\ t = X(leg)
      <4>1. posState \notin Early BY <3>3 DEF IndInv, Ledger, PcMatchesState
      <4> QED BY <1>0, <1>1, <1>2, <1>3, <2>8, <3>0, <3>3, <4>1
    <3>4. CASE pc = "r_intents" /\ t \in todo
      <4>1. intent[t] # "NONE" BY <3>4 DEF IndInv, Ledger, TodoIsInDoubt, InDoubt
      <4>2. posState' \in Early => \A l \in Leg : t # X(l) BY <1>2, <1>3, <4>1
      <4>3. \A l \in Leg : t = <<"U", l>> => t \in started BY <1>3, <4>1
      <4> QED BY <1>0, <1>2, <1>3, <2>8, <3>0, <4>2, <4>3
    <3> QED BY <2>8, <3>1, <3>2, <3>3, <3>4
  <2> QED BY <2>1, <2>2, <2>3, <2>4, <2>5, <2>6, <2>7, <2>8, IntentWriters
<1>5. book'[U] # <<>> => FullyFilled(E("CE"))'
  <2>1. book[U] # <<>> => FullyFilled(E("CE")) BY DEF SaleInv, NothingBoughtEarly
  <2>2. pc = "u_send" => FullyFilled(E("CE")) BY DEF SaleInv, SoldSoFar, UnwindStep, Sold
  <2> QED BY <1>0, <2>1, <2>2, BookStep DEF SaleInv
<1>6. pc' = "u_record" => U \in started'
  <2> SUFFICES ASSUME pc' = "u_record" PROVE U \in started' OBVIOUS
  <2>1. CASE auto_unwind_poll
    <3>1. book[U] # <<>> BY <2>1 DEF auto_unwind_poll, IndInv, Ledger, PolledExists
    <3> QED BY <1>0, <2>1, <3>1 DEF auto_unwind_poll, orderVars, IndInv, Ledger, WriteAhead
  <2>2. CASE ~auto_unwind_poll
    <3>1. pc' \in SellStep BY DEF SellStep, UnwindStep
    <3>2. ~EntryNext
      <4>1. CASE \E result \in {"FILLED", "FAILED", "AMBIGUOUS"} : legEnds(result)
        BY <4>1, LegEndsStep DEF IndInv, TypeOK
      <4>2. CASE ~\E result \in {"FILLED", "FAILED", "AMBIGUOUS"} : legEnds(result)
        BY <2>2, <4>2 DEF EntryNext, enter, create_durable_record, place_leg_mark,
          place_leg_send, record_leg_rejection, mark_intent_failed, confirm_and_record, poll_entry,
          read_back, reconcile_order_load, reconcile_order_terminal, finalize_open,
          finalize_open_fails, record_orphan_fill, auto_unwind_mark, auto_unwind_send,
          auto_unwind_record, entry_record_break, entry_fail_to_error, hookReturns, hookRaises
      <4> QED BY <4>1, <4>2
    <3>3. pc = "u_record" /\ UNCHANGED started BY <3>1, <3>2, WhoMovesEntry
    <3> QED BY <3>3 DEF SaleInv, NothingBoughtEarly
  <2> QED BY <2>1, <2>2
<1> QED BY <1>4, <1>5, <1>6 DEF NothingBoughtEarly

\* While there is no position row nothing writes an orders row.
LEMMA IdleHasNoRowsStep ==
    ASSUME IndInv, IdleHasNoRows, Next
    PROVE  IdleHasNoRows'
<1> SUFFICES ASSUME posState' = "IDLE" PROVE \A t \in Tag : row'[t] = NoRow
  BY DEF IdleHasNoRows
<1>1. posState = "IDLE" /\ \A t \in Tag : row[t] = NoRow
  BY PositionMoves DEF Moves, IdleHasNoRows
<1>2. /\ \A t \in Tag : intent[t] = "NONE"
      /\ todo = {} /\ pc \notin EntryStep \ {"e_create", "e_attach"} /\ pc \notin ExitStep \ {"x_prepare"}
  BY <1>1 DEF IndInv, Ledger, IdleIsClean, TodoIsInDoubt, InDoubt, PcMatchesState, TypeOK, LocalsOK
<1>3. row' = row
  <2>1. CASE World
    <3>1. CASE BrokerMoves BY <3>1, BrokerMovesForm DEF IndInv, dbVars, orderVars
    <3>2. ~\E t \in Tag : process(t) BY <1>1 DEF process, NoRow
    <3>3. CASE ~BrokerMoves
      BY <2>1, <3>2, <3>3 DEF World, time_passes, engage_kill_switch, disengage_kill_switch,
            unfreeze, hook_raises, monitor_raises, crash, dbVars, orderVars
    <3> QED BY <3>1, <3>3
  <2>2. CASE EntryNext
    BY <1>2, <2>2 DEF EntryStep, EntryNext, enter, create_durable_record, place_leg_mark,
          place_leg_send, record_leg_rejection, mark_intent_failed, confirm_and_record, poll_entry,
          read_back, reconcile_order_load, reconcile_order_terminal, finalize_open,
          finalize_open_fails, record_orphan_fill, auto_unwind_mark, auto_unwind_send,
          auto_unwind_poll, auto_unwind_record, entry_record_break, entry_fail_to_error,
          dbVars, orderVars
  <2>3. CASE ExitNext
    BY <1>2, <2>3 DEF ExitStep, ExitNext, prepare_exit, close_leg, find_order_by_tag,
          adopt_existing_order, place_close_mark, place_close_send, record_close_rejection,
          close_never_sent, confirm_close, poll_close, record_close, reconcile_order_load,
          reconcile_order_terminal, finalize_closed, finalize_closed_fails, record_divergence,
          exit_record_break, exit_fail_to_error
  <2>4. CASE ReconcileNext
    BY <1>2, <2>4 DEF ReconcileNext, fetch_orders, intents_reconciled, detect_orphans,
          startup_aborts, reconcile_one_position, reconcile_one_intent, dbVars, orderVars
  <2>5. CASE start \/ recover_settled \/ recover_exit_pending \/ recover_entry_pending
             \/ attach \/ trigger_exit
    BY <2>5 DEF start, recover_settled, recover_exit_pending, recover_entry_pending, attach,
              trigger_exit, dbVars, orderVars
  <2> QED BY <2>1, <2>2, <2>3, <2>4, <2>5 DEF Next, Hooks
<1> QED BY <1>1, <1>3

\* An OPEN position is left as it is until it is exited or found broken.
LEMMA OpenStays ==
    ASSUME IndInv, OpenIsSettled, Next, posState = "OPEN", posState' = "OPEN"
    PROVE  UNCHANGED <<tradeStatus, entryPrice, intent, started>>
<1>1. /\ todo = {} /\ pc \notin EntryStep \ {"e_create", "e_attach"} /\ pc \notin ExitStep \ {"x_prepare"}
      /\ pc # "e_create"
  BY DEF IndInv, Ledger, TodoIsInDoubt, OpenIsSettled, PcMatchesState, TypeOK, LocalsOK
<1>2. CASE World
  <2>1. CASE BrokerMoves
    BY <2>1, BrokerMovesForm DEF IndInv, dbVars, tradeVars, orderVars
  <2>2. CASE ~BrokerMoves
    BY <1>2, <2>2 DEF World, process, time_passes, engage_kill_switch, disengage_kill_switch,
          unfreeze, hook_raises, monitor_raises, crash, dbVars, tradeVars, orderVars
  <2> QED BY <2>1, <2>2
<1>3. CASE EntryNext
  BY <1>1, <1>3 DEF EntryStep, EntryNext, enter, create_durable_record, place_leg_mark,
        place_leg_send, record_leg_rejection, mark_intent_failed, confirm_and_record, poll_entry,
        read_back, reconcile_order_load, reconcile_order_terminal, finalize_open,
        finalize_open_fails, record_orphan_fill, auto_unwind_mark, auto_unwind_send,
        auto_unwind_poll, auto_unwind_record, entry_record_break, entry_fail_to_error,
        dbVars, tradeVars, orderVars
<1>4. CASE ExitNext
  <2>1. ~prepare_exit \/ (UNCHANGED <<tradeVars, intent, started>>) BY DEF prepare_exit
  <2> QED
    BY <1>1, <1>4, <2>1 DEF ExitStep, ExitNext, close_leg, find_order_by_tag,
        adopt_existing_order, place_close_mark, place_close_send, record_close_rejection,
        close_never_sent, confirm_close, poll_close, record_close, reconcile_order_load,
        reconcile_order_terminal, finalize_closed, finalize_closed_fails, record_divergence,
        exit_record_break, exit_fail_to_error, tradeVars
<1>5. CASE ReconcileNext
  BY <1>1, <1>5 DEF ReconcileNext, fetch_orders, intents_reconciled, detect_orphans,
        startup_aborts, reconcile_one_position, reconcile_one_intent, dbVars, tradeVars, orderVars
<1>6. CASE start \/ recover_settled \/ recover_exit_pending \/ recover_entry_pending
           \/ attach \/ trigger_exit
  BY <1>6 DEF start, recover_settled, recover_exit_pending, recover_entry_pending, attach,
            trigger_exit, dbVars, tradeVars, orderVars
<1> QED BY <1>2, <1>3, <1>4, <1>5, <1>6 DEF Next, Hooks

\* Only the commit of both fills makes a position OPEN.
LEMMA OnlyFinalizeOpens ==
    ASSUME IndInv, Next, posState # "OPEN", posState' = "OPEN"
    PROVE  finalize_open
<1>1. posState = "ENTRY_PENDING" BY PositionMoves DEF Moves
<1>2. ~World
  <2>1. CASE BrokerMoves BY <2>1, BrokerMovesForm DEF IndInv, dbVars, positionVars
  <2>2. CASE ~BrokerMoves
    BY <2>2 DEF World, process, time_passes, engage_kill_switch, disengage_kill_switch,
          unfreeze, hook_raises, monitor_raises, crash, dbVars, positionVars
  <2> QED BY <2>1, <2>2
<1>3. EntryNext => finalize_open
  BY DEF EntryNext, enter, create_durable_record, place_leg_mark,
        place_leg_send, record_leg_rejection, mark_intent_failed, confirm_and_record, poll_entry,
        read_back, reconcile_order_load, reconcile_order_terminal,
        finalize_open_fails, record_orphan_fill, auto_unwind_mark, auto_unwind_send,
        auto_unwind_poll, auto_unwind_record, entry_record_break, entry_fail_to_error,
        failToError, Errored, keepsPosition, dbVars, positionVars
<1>4. ~ExitNext
  BY <1>1 DEF ExitNext, prepare_exit, close_leg, find_order_by_tag,
        adopt_existing_order, place_close_mark, place_close_send, record_close_rejection,
        close_never_sent, confirm_close, poll_close, record_close, reconcile_order_load,
        reconcile_order_terminal, finalize_closed, finalize_closed_fails, record_divergence,
        exit_record_break, exit_fail_to_error, failToError, Errored, keepsPosition, dbVars, positionVars
<1>5. ~ReconcileNext
  <2>1. ~\E t \in Tag : reconcile_one_intent(t)
    BY DEF reconcile_one_intent, flag_duplicate_orders, Errored, fail_intent_not_at_broker,
           resolve_intent_against_order, apply_fill
  <2>2. ~reconcile_one_position
    BY DEF reconcile_one_position, reconcile_entry_pending, reconcile_exit_pending,
           reconcile_open, leaveAlone, flag_for_finalization, error_position
  <2> QED
    BY <2>1, <2>2 DEF ReconcileNext, fetch_orders, intents_reconciled, detect_orphans,
        startup_aborts, dbVars, positionVars
<1>6. ~(start \/ recover_settled \/ recover_exit_pending \/ recover_entry_pending
        \/ attach \/ trigger_exit)
  BY DEF start, recover_settled, recover_exit_pending, recover_entry_pending, attach,
         trigger_exit, dbVars, positionVars
<1> QED BY <1>2, <1>3, <1>4, <1>5, <1>6 DEF Next, Hooks

\* An OPEN position has sold both legs in full, and bought nothing back.
LEMMA OpenStep ==
    ASSUME IndInv, IndInv', SaleInv, NothingBoughtEarly', Next
    PROVE  OpenMeansHedged' /\ OpenIsSettled'
<1> SUFFICES ASSUME posState' = "OPEN"
             PROVE  /\ \A l \in Leg : /\ FullyFilled(E(l))'
                                      /\ entryPrice'[l] = "real" /\ tradeStatus'[l] = "OPEN"
                                      /\ book'[X(l)] = <<>> /\ book'[<<"U", l>>] = <<>>
                    /\ U \notin started' /\ \A t \in Tag : intent'[t] \notin InDoubt
  BY DEF OpenMeansHedged, OpenIsSettled
<1>0. /\ \A l \in Leg : X(l) \in Tag /\ <<"U", l>> \in Tag /\ (l = "CE" \/ l = "PE")
      /\ U = <<"U", "CE">>
  BY TagFacts DEF Leg, Tag, U
<1>1. \A l \in Leg : X(l) \notin started' /\ <<"U", "PE">> \notin started'
  BY DEF NothingBoughtEarly
<1>2. CASE posState = "OPEN"
  <2>1. UNCHANGED <<tradeStatus, entryPrice, intent, started>>
    BY <1>2, OpenStays DEF SaleInv
  <2>2. /\ \A l \in Leg : FullyFilled(E(l)) /\ entryPrice[l] = "real" /\ tradeStatus[l] = "OPEN"
        /\ U \notin started /\ \A t \in Tag : intent[t] \notin InDoubt
    BY <1>2 DEF SaleInv, OpenMeansHedged, OpenIsSettled
  <2>3. \A l \in Leg : FullyFilled(E(l))' BY <2>2, BookStep DEF SaleInv
  <2>4. \A l \in Leg : book'[X(l)] = <<>> /\ book'[<<"U", l>>] = <<>>
    BY <1>0, <1>1, <2>1, <2>2 DEF IndInv, Ledger, WriteAhead
  <2> QED BY <2>1, <2>2, <2>3, <2>4
<1>3. CASE posState # "OPEN"
  <2>1. finalize_open BY <1>3, OnlyFinalizeOpens
  <2>2. Sold("CE") /\ Sold("PE") /\ U \notin started
    BY <2>1 DEF finalize_open, SaleInv, SoldSoFar
  <2>3. posState = "ENTRY_PENDING"
    BY <2>1 DEF finalize_open, IndInv, Ledger, PcMatchesState, EntryStep
  <2>4. UNCHANGED <<started, row>>
        /\ intent' = [t \in Tag |-> IF t[1] = "E" THEN "CONFIRMED" ELSE intent[t]]
        /\ tradeStatus' = [l \in Leg |-> "OPEN"]
        /\ entryPrice' = [l \in Leg |-> row[E(l)].price]
    BY <2>1 DEF finalize_open
  <2>5. \A l \in Leg : FullyFilled(E(l))' /\ entryPrice'[l] = "real" /\ tradeStatus'[l] = "OPEN"
    BY <1>0, <2>2, <2>4, BookStep DEF SaleInv, Sold
  <2>6. ASSUME NEW t \in Tag PROVE intent'[t] \notin InDoubt
    <3>1. t[1] \in {"E", "U", "X"} /\ t[2] \in Leg /\ t = <<t[1], t[2]>> BY DEF Tag
    <3>2. \A l \in Leg : intent[X(l)] = "NONE" BY <2>3 DEF SaleInv, NothingBoughtEarly
    <3>3. \A l \in Leg : intent[<<"U", l>>] = "NONE"
      BY <1>0, <2>2 DEF SaleInv, NothingBoughtEarly
    <3> QED BY <2>4, <3>1, <3>2, <3>3 DEF InDoubt, X
  <2>7. \A l \in Leg : book'[X(l)] = <<>> /\ book'[<<"U", l>>] = <<>>
    BY <1>0, <1>1, <2>2, <2>4 DEF IndInv, Ledger, WriteAhead
  <2> QED BY <2>2, <2>4, <2>5, <2>6, <2>7
<1> QED BY <1>2, <1>3

\* A snapshot leaves an ended row alone, and completes a row only if it is complete.
LEMMA UpdateMeans ==
    ASSUME NEW r \in Row, NEW bo
    PROVE  /\ r.status \in Terminal => apply_broker_order_update(r, bo) = r
           /\ apply_broker_order_update(r, bo).status = "COMPLETE" =>
                 r.status = "COMPLETE" \/ bo.status = "COMPLETE"
<1>1. CASE r.status \in Terminal BY <1>1 DEF apply_broker_order_update
<1>2. CASE r.status \notin Terminal
  <2>1. r.status # "COMPLETE" BY <1>2 DEF Terminal
  <2> QED BY <1>2, <2>1 DEF apply_broker_order_update, Row
<1> QED BY <1>1, <1>2

\* The last order of a tag that has one is in the book; if COMPLETE, it is full.
LEMMA CompleteLastIsFull ==
    ASSUME BrokerOK, CompleteIsFull, NEW t \in Tag, book[t] # <<>>, LastOrder(t).status = "COMPLETE"
    PROVE  FullyFilled(t)
<1>1. book[t] \in Seq(Order) /\ Len(book[t]) \in DOMAIN book[t] BY DEF BrokerOK
<1> QED BY <1>1 DEF CompleteIsFull, FullyFilled, LastOrder

\* A pushed update completes the row of an entry order only with a full fill.
LEMMA ProcessCompletes ==
    ASSUME IndInv, EntryOnce, CompleteIsFull, NEW t \in Tag, process(t), NEW l \in Leg
    PROVE  /\ row[E(l)].status = "COMPLETE" => row'[E(l)] = row[E(l)]
           /\ row'[E(l)].status = "COMPLETE" => row[E(l)].status = "COMPLETE" \/ FullyFilled(E(l))
<1>0. E(l) \in Tag /\ row \in [Tag -> Row] /\ row[E(l)] \in Row /\ book \in [Tag -> Seq(Order)]
  BY TagFacts DEF IndInv, TypeOK, OrdersOK, BrokerOK
<1>1. PICK i \in DOMAIN book[t] : \E bo \in Snapshots(book[t][i]) :
          row' = [row EXCEPT ![t] = apply_broker_order_update(@, bo)]
  BY DEF process
<1>2. PICK bo \in Snapshots(book[t][i]) :
          row' = [row EXCEPT ![t] = apply_broker_order_update(row[t], bo)]
  BY <1>1
<1>3. CASE E(l) # t BY <1>0, <1>2, <1>3
<1>4. CASE E(l) = t
  <2>1. row'[t] = apply_broker_order_update(row[t], bo) BY <1>0, <1>2
  <2>2. bo.status = "COMPLETE" => bo = book[t][i] BY <1>2 DEF Snapshots
  <2>3. book[t] # <<>> /\ i = Len(book[t])
    <3>1. Len(book[t]) <= 1 BY <1>4 DEF EntryOnce
    <3> QED BY <1>0, <1>4, <3>1
  <2>4. bo.status = "COMPLETE" => FullyFilled(t)
    BY <2>2, <2>3, CompleteLastIsFull DEF LastOrder, IndInv, TypeOK
  <2> QED BY <1>0, <1>4, <2>1, <2>4, UpdateMeans DEF Terminal
<1> QED BY <1>3, <1>4

\* Where one leg's answer takes the entry.
LEMMA LegEndsWhere ==
    ASSUME LocalsOK, NEW result \in {"FILLED", "FAILED", "AMBIGUOUS"}, legEnds(result)
    PROVE  \/ leg = "CE" /\ result = "FILLED" /\ pc' = "e_mark" /\ leg' = "PE"
           \/ leg = "PE" /\ result = "FILLED" /\ pc' = "e_final" /\ leg' = "PE"
           \/ leg = "PE" /\ pc' = "u_mark" /\ leg' = "PE"
           \/ pc' \in {"e_error", "e_break"}
BY DEF LocalsOK, legEnds, afterLeg, Leg

\* Where the entry stands tells which legs were sold, and its rows do not deceive.
LEMMA EntryProgress ==
    ASSUME IndInv, IndInv', SaleInv, Next
    PROVE  EntryRowsAreFilled' /\ SoldSoFar'
<1> DEFINE Goal == EntryRowsAreFilled' /\ SoldSoFar'
<1>0. /\ leg \in Leg /\ leg \in {"CE", "PE"} /\ row \in [Tag -> Row] /\ LocalsOK /\ BrokerOK
      /\ \A l \in Leg : E(l) \in Tag /\ X(l) \in Tag /\ "CE" \in Leg /\ "PE" \in Leg
      /\ E("CE") # E("PE") /\ "CE" \in Leg /\ "PE" \in Leg
  BY TagFacts, TagsDiffer DEF IndInv, TypeOK, LocalsOK, OrdersOK, Leg
<1>F. \A l \in Leg : FullyFilled(E(l)) => FullyFilled(E(l))' BY BookStep DEF SaleInv
<1>I. EntryRowsAreFilled /\ SoldSoFar /\ EntryOnce /\ CompleteIsFull BY DEF SaleInv
<1>S. SellStep = {"e_mark", "e_send", "e_reject", "e_unsent", "e_ack", "e_poll", "e_load",
                  "e_apply", "e_read", "u_mark", "u_send", "u_poll", "u_record", "e_final"}
  BY DEF SellStep, LegStep, UnwindStep
\* Outside of these steps nothing is claimed.
<1>1. CASE pc' \notin SellStep
  BY <1>1 DEF SellStep, LegStep, UnwindStep, EntryRowsAreFilled, SoldSoFar
\* The rows stay and one leg ends.
<1>A. ASSUME pc \in LegStep, NEW result \in {"FILLED", "FAILED", "AMBIGUOUS"}, legEnds(result),
             \A l \in Leg : row[E(l)].status = "COMPLETE" => row'[E(l)] = row[E(l)],
             result = "FILLED" => row' = row /\ started' = started
                                  /\ row[E(leg)].status = "COMPLETE" /\ row[E(leg)].price = "real"
      PROVE  Goal
  <2>1. result = "FILLED" => Sold(leg) BY <1>0, <1>A, <1>I DEF EntryRowsAreFilled, Sold
  <2>2. leg = "PE" => Sold("CE") BY <1>A, <1>I DEF SoldSoFar
  <2>3. \A l \in Leg : Sold(l) => Sold(l)' BY <1>A, <1>F DEF Sold
  <2>4. U \notin started BY <1>A DEF IndInv, Ledger, TagIsFresh
  <2>5. CASE leg = "CE" /\ result = "FILLED" /\ pc' = "e_mark" /\ leg' = "PE"
    <3>1. EntryRowsAreFilled'
      BY <1>A, <1>F, <1>I, <2>5 DEF EntryRowsAreFilled
    <3>2. SoldSoFar' BY <1>0, <2>1, <2>3, <2>5 DEF SoldSoFar, UnwindStep
    <3> QED BY <3>1, <3>2
  <2>6. CASE leg = "PE" /\ result = "FILLED" /\ pc' = "e_final" /\ leg' = "PE"
    <3>1. Sold("CE")' /\ Sold("PE")' /\ U \notin started'
      BY <1>0, <1>A, <2>1, <2>2, <2>3, <2>4, <2>6
    <3> QED BY <2>6, <3>1 DEF EntryRowsAreFilled, SoldSoFar, LegStep, UnwindStep
  <2>7. CASE leg = "PE" /\ pc' = "u_mark" /\ leg' = "PE"
    <3>1. Sold("CE")' BY <1>0, <2>2, <2>3, <2>7
    <3> QED BY <2>7, <3>1 DEF EntryRowsAreFilled, SoldSoFar, LegStep, UnwindStep
  <2>8. CASE pc' \in {"e_error", "e_break"}
    BY <2>8 DEF EntryRowsAreFilled, SoldSoFar, LegStep, UnwindStep
  <2> QED BY <1>0, <1>A, <2>5, <2>6, <2>7, <2>8, LegEndsWhere
\* The leg goes on, from one step to the next.
<1>B. ASSUME pc \in LegStep, pc' \in LegStep, leg' = leg,
             \A l \in Leg : row[E(l)].status = "COMPLETE" => row'[E(l)] = row[E(l)],
             \A l \in Leg : row'[E(l)].status = "COMPLETE" =>
                               row[E(l)].status = "COMPLETE" \/ FullyFilled(E(l)),
             pc' \in {"e_load", "e_apply"} /\ polled'.status = "COMPLETE" => FullyFilled(E(leg))
      PROVE  Goal
  <2>1. EntryRowsAreFilled' BY <1>0, <1>B, <1>F, <1>I DEF EntryRowsAreFilled
  <2>2. leg = "PE" => Sold("CE") BY <1>B, <1>I DEF SoldSoFar
  <2>3. \A l \in Leg : Sold(l) => Sold(l)' BY <1>B, <1>F DEF Sold
  <2>4. SoldSoFar' BY <1>0, <1>B, <2>2, <2>3 DEF SoldSoFar, LegStep, UnwindStep
  <2> QED BY <2>1, <2>4
\* The unwind goes on.
<1>C. ASSUME pc \in UnwindStep, pc' \in UnwindStep, row' = row PROVE Goal
  <2>1. Sold("CE") BY <1>C, <1>I DEF SoldSoFar
  <2>2. Sold("CE")' BY <1>0, <1>C, <1>F, <2>1 DEF Sold
  <2> QED BY <1>C, <2>2 DEF EntryRowsAreFilled, SoldSoFar, LegStep, UnwindStep
<1>2. CASE EntryNext /\ pc' \in SellStep
  <2>1. CASE create_durable_record
    <3>1. posState = "IDLE" /\ pc' = "e_mark" /\ leg' = "CE" /\ row' = row
      BY <2>1 DEF create_durable_record, IndInv, Ledger, PcMatchesState
    <3>2. \A l \in Leg : row'[E(l)].status # "COMPLETE"
      BY <1>0, <3>1 DEF SaleInv, IdleHasNoRows, NoRow
    <3> QED BY <3>1, <3>2 DEF EntryRowsAreFilled, SoldSoFar, LegStep, UnwindStep
  <2>2. CASE place_leg_mark
    BY <1>B, <2>2 DEF place_leg_mark, localVars, LegStep
  <2>3. CASE place_leg_send
    <3>1. row' = row /\ pc = "e_send" BY <2>3 DEF place_leg_send, orderVars
    <3>2. CASE legEnds("AMBIGUOUS") BY <1>A, <3>1, <3>2 DEF LegStep
    <3>3. CASE pc' \in {"e_ack", "e_reject", "e_unsent"} /\ UNCHANGED localVars
      BY <1>B, <3>1, <3>3 DEF localVars, LegStep
    <3> QED BY <2>3, <3>2, <3>3 DEF place_leg_send
  <2>4. CASE record_leg_rejection
    <3>1. /\ pc = "e_reject" /\ legEnds("FAILED")
          /\ row' = [row EXCEPT ![E(leg)] = rejectedUnsent(row[E(leg)])]
      BY <2>4 DEF record_leg_rejection
    <3>2. CASE leg = "CE"
      <4>1. pc' = "e_error" BY <3>1, <3>2 DEF legEnds, afterLeg
      <4> QED BY <1>S, <1>2, <4>1
    <3>3. CASE leg = "PE"
      <4>1. pc' = "u_mark" BY <3>1, <3>3 DEF legEnds, afterLeg
      <4>2. Sold("CE") BY <1>I, <3>1, <3>3 DEF SoldSoFar, LegStep
      <4>3. row'[E("CE")] = row[E("CE")] BY <1>0, <3>1, <3>3
      <4>4. Sold("CE")' BY <1>0, <1>F, <4>2, <4>3 DEF Sold
      <4> QED BY <4>1, <4>4 DEF EntryRowsAreFilled, SoldSoFar, LegStep, UnwindStep
    <3> QED BY <1>0, <3>2, <3>3
  <2>5. CASE mark_intent_failed
    BY <1>A, <2>5 DEF mark_intent_failed, LegStep
  <2>6. CASE confirm_and_record
    <3>1. /\ pc = "e_ack" /\ pc' = "e_poll" /\ leg' = leg
          /\ row' = [row EXCEPT ![E(leg)] = acknowledged(row[E(leg)])]
      BY <2>6 DEF confirm_and_record, localVars
    <3>2. /\ row'[E(leg)].status = "OPEN"
          /\ \A l \in Leg : l # leg => row'[E(l)] = row[E(l)]
      BY <1>0, <3>1, TagsDiffer DEF acknowledged
    <3>3. EntryRowsAreFilled'
      BY <1>0, <1>F, <1>I, <3>1, <3>2 DEF EntryRowsAreFilled, LegStep
    <3>4. leg = "PE" => Sold("CE")'
      BY <1>0, <1>F, <1>I, <3>1, <3>2 DEF SoldSoFar, LegStep, Sold
    <3>5. SoldSoFar' BY <3>1, <3>4 DEF SoldSoFar, UnwindStep
    <3> QED BY <3>3, <3>5
  <2>7. CASE poll_entry
    <3>1. row' = row /\ pc = "e_poll" BY <2>7 DEF poll_entry, orderVars
    <3>2. CASE legEnds("AMBIGUOUS") BY <1>A, <3>1, <3>2 DEF LegStep
    <3>3. CASE pc' = "e_load" /\ leg' = leg /\ polled' = LastOrder(E(leg))
      <4>1. book[E(leg)] # <<>> BY <3>1 DEF IndInv, Ledger, PolledExists
      <4>2. polled'.status = "COMPLETE" => FullyFilled(E(leg))
        BY <1>0, <1>I, <3>3, <4>1, CompleteLastIsFull
      <4> QED BY <1>B, <3>1, <3>3, <4>2 DEF LegStep
    <3> QED BY <2>7, <3>2, <3>3 DEF poll_entry
  <2>8. CASE reconcile_order_load("e_load", "e_apply")
    <3>1. pc = "e_load" /\ pc' = "e_apply" /\ UNCHANGED <<row, leg, polled>>
      BY <2>8 DEF reconcile_order_load, dbVars, orderVars
    <3> QED BY <1>B, <1>I, <3>1 DEF EntryRowsAreFilled, LegStep
  <2>9. CASE reconcile_order_terminal("e_apply", "e_read")
    <3>1. /\ pc = "e_apply" /\ pc' = "e_read" /\ UNCHANGED <<leg, polled>>
          /\ row' = [row EXCEPT ![E(leg)] =
                       IF seen.acked /\ row[E(leg)] = seen
                         THEN apply_broker_order_update(seen, polled) ELSE row[E(leg)]]
      BY <2>9 DEF reconcile_order_terminal, localVars, E
    <3>2. polled.status = "COMPLETE" => FullyFilled(E(leg))
      BY <1>I, <3>1 DEF EntryRowsAreFilled
    <3>3. \A l \in Leg : l # leg => row'[E(l)] = row[E(l)]
      BY <1>0, <3>1, TagsDiffer
    <3>4. row'[E(leg)] = row[E(leg)]
          \/ row'[E(leg)] = apply_broker_order_update(row[E(leg)], polled)
      BY <1>0, <3>1
    <3>5. /\ row[E(leg)].status = "COMPLETE" => row'[E(leg)] = row[E(leg)]
          /\ row'[E(leg)].status = "COMPLETE" =>
                row[E(leg)].status = "COMPLETE" \/ FullyFilled(E(leg))
      BY <1>0, <3>2, <3>4, UpdateMeans DEF Terminal
    <3> QED BY <1>B, <3>1, <3>3, <3>5 DEF LegStep
  <2>10. CASE read_back
    <3>1. pc = "e_read" BY <2>10 DEF read_back
    <3>2. CASE row[E(leg)].status = "COMPLETE" /\ row[E(leg)].price # "real"
      <4>1. pc' = "idle" BY <2>10, <3>2 DEF read_back, hookRaises
      <4> QED BY <1>S, <1>2, <4>1
    <3>3. CASE ~(row[E(leg)].status = "COMPLETE" /\ row[E(leg)].price # "real")
      <4>1. /\ row' = row /\ started' = started
            /\ legEnds(IF row[E(leg)].status = "COMPLETE" THEN "FILLED" ELSE "FAILED")
        BY <2>10, <3>3 DEF read_back
      <4>2. CASE row[E(leg)].status = "COMPLETE"
        <5>1. legEnds("FILLED") BY <4>1, <4>2
        <5> QED BY <1>A, <3>1, <3>3, <4>1, <4>2, <5>1 DEF LegStep
      <4>3. CASE row[E(leg)].status # "COMPLETE"
        <5>1. legEnds("FAILED") BY <4>1, <4>3
        <5> QED BY <1>A, <3>1, <4>1, <5>1 DEF LegStep
      <4> QED BY <4>2, <4>3
    <3> QED BY <3>2, <3>3
  <2>11. CASE auto_unwind_mark
    BY <1>C, <2>11 DEF auto_unwind_mark, UnwindStep
  <2>12. CASE auto_unwind_send
    <3>1. row' = row /\ pc = "u_send" /\ pc' \in {"u_poll", "e_break"}
      BY <2>12 DEF auto_unwind_send, orderVars
    <3> QED BY <1>C, <1>S, <1>2, <3>1 DEF UnwindStep
  <2>13. CASE auto_unwind_poll
    BY <1>C, <2>13 DEF auto_unwind_poll, orderVars, UnwindStep
  <2>14. ~( \/ enter \/ finalize_open \/ finalize_open_fails \/ record_orphan_fill
            \/ auto_unwind_record \/ entry_record_break \/ entry_fail_to_error)
    BY <1>S, <1>2 DEF enter, finalize_open, finalize_open_fails, record_orphan_fill,
          auto_unwind_record, entry_record_break, entry_fail_to_error, hookReturns
  <2> QED BY <1>2, <2>1, <2>2, <2>3, <2>4, <2>5, <2>6, <2>7, <2>8, <2>9, <2>10, <2>11, <2>12,
             <2>13, <2>14 DEF EntryNext
<1>3. CASE ~EntryNext /\ pc' \in SellStep
  <2>1. /\ UNCHANGED <<pc, leg, polled, started>>
        /\ row' = row \/ \E t \in Tag : process(t)
    BY <1>3, WhoMovesEntry
  <2>2. \A l \in Leg :
           /\ row[E(l)].status = "COMPLETE" => row'[E(l)] = row[E(l)]
           /\ row'[E(l)].status = "COMPLETE" => row[E(l)].status = "COMPLETE" \/ FullyFilled(E(l))
    BY <1>I, <2>1, ProcessCompletes
  <2>3. \A l \in Leg : Sold(l) => Sold(l)' BY <1>F, <2>2 DEF Sold
  <2>4. EntryRowsAreFilled' BY <1>0, <1>F, <1>I, <2>1, <2>2 DEF EntryRowsAreFilled
  <2>5. SoldSoFar' BY <1>0, <1>I, <2>1, <2>3 DEF SoldSoFar
  <2> QED BY <2>4, <2>5
<1> QED BY <1>1, <1>2, <1>3

\* What is bought back had been sold in full, and is bought back once.
LEMMA ClosingStep ==
    ASSUME IndInv, IndInv', SaleInv, NothingBoughtEarly', Next
    PROVE  ExitFollowsSale' /\ NeverOverClosed'
<1>0. /\ leg \in Leg /\ U = <<"U", "CE">> /\ U \in Tag
      /\ \A l \in Leg : /\ E(l) \in Tag /\ X(l) \in Tag /\ <<"U", l>> \in Tag
                        /\ (l = "CE" \/ l = "PE") /\ X(l) # U /\ E(l) # U
  BY TagFacts, TagsDiffer DEF IndInv, TypeOK, LocalsOK, Leg, Tag, U
<1>1. \A l \in Leg : FullyFilled(E(l)) => FullyFilled(E(l))' BY BookStep DEF SaleInv
<1>2. posState = "EXIT_PENDING" => U \notin started /\ \A l \in Leg : FullyFilled(E(l))
  BY DEF SaleInv, ExitFollowsSale
<1>3. ExitFollowsSale'
  <2> SUFFICES ASSUME posState' = "EXIT_PENDING"
               PROVE  U \notin started' /\ \A l \in Leg : FullyFilled(E(l))'
    BY DEF ExitFollowsSale
  <2>1. posState \in {"OPEN", "EXIT_PENDING"} BY PositionMoves DEF Moves
  <2>2. U \notin started /\ \A l \in Leg : FullyFilled(E(l))
    BY <1>2, <2>1 DEF SaleInv, OpenMeansHedged, OpenIsSettled
  <2>3. pc # "u_mark" BY <2>1 DEF IndInv, Ledger, PcMatchesState, EntryStep
  <2>4. started' \in {started, started \cup {E(leg)}, started \cup {X(leg)}}
    BY <2>3, IntentWriters DEF create_durable_record, prepare_exit, finalize_open, place_leg_mark,
                               auto_unwind_mark, place_close_mark
  <2> QED BY <1>0, <1>1, <2>2, <2>4
\* A close is sent from EXIT_PENDING only, an unwind before the position is OPEN.
<1>4. ASSUME NEW l \in Leg, book[X(l)] = <<>>, book'[X(l)] # <<>>
      PROVE  posState = "EXIT_PENDING"
  <2>1. Len(book'[X(l)]) > Len(book[X(l)])
    <3>1. book'[X(l)] \in Seq(Order) BY <1>0 DEF IndInv, TypeOK, BrokerOK
    <3>2. Len(book'[X(l)]) > 0 BY <1>4, <3>1
    <3>3. Len(<<>>) = 0 OBVIOUS
    <3>4. Len(book[X(l)]) = 0 BY <1>4, <3>3
    <3> QED BY <3>2, <3>4
  <2>2. place_close_send BY <1>0, <2>1, OnlySendsAdd, TagsDiffer
  <2> QED BY <2>2 DEF place_close_send, IndInv, Ledger, PcMatchesState, ExitStep
<1>5. book[U] = <<>> /\ book'[U] # <<>> => posState = "ENTRY_PENDING"
  BY BookStep DEF SaleInv, IndInv, Ledger, PcMatchesState, EntryStep
<1>6. \A l \in Leg : posState = "ENTRY_PENDING" => book[X(l)] = <<>>
  BY <1>0 DEF SaleInv, NothingBoughtEarly, IndInv, Ledger, WriteAhead
<1>7. posState = "EXIT_PENDING" => book[U] = <<>>
  BY <1>0, <1>2 DEF IndInv, Ledger, WriteAhead
<1>8. book'[<<"U", "PE">>] = <<>>
  BY <1>0 DEF NothingBoughtEarly, IndInv, Ledger, WriteAhead, Leg
<1>9. ASSUME NEW l \in Leg
      PROVE  /\ book'[<<"U", l>>] # <<>> => FullyFilled(E(l))'
             /\ book'[X(l)] # <<>> => FullyFilled(E(l))'
             /\ book'[<<"U", l>>] = <<>> \/ book'[X(l)] = <<>>
  <2>1. /\ book[X(l)] # <<>> => FullyFilled(E(l))
        /\ book[<<"U", l>>] = <<>> \/ book[X(l)] = <<>>
    BY DEF SaleInv, NeverOverClosed
  <2>2. book'[X(l)] # <<>> => FullyFilled(E(l))' BY <1>1, <1>2, <1>4, <2>1
  <2>3. CASE l = "PE" BY <1>8, <2>2, <2>3
  <2>4. CASE l = "CE"
    <3>1. book'[U] # <<>> => FullyFilled(E("CE"))' BY DEF NothingBoughtEarly
    <3>2. book'[U] = <<>> \/ book'[X(l)] = <<>>
      BY <1>0, <1>4, <1>5, <1>6, <1>7, <2>1, <2>4
    <3> QED BY <1>0, <2>2, <2>4, <3>1, <3>2
  <2> QED BY <1>0, <2>3, <2>4
<1>10. NeverOverClosed' BY <1>9 DEF NeverOverClosed
<1> QED BY <1>3, <1>10

\* The invariant is inductive, given the ledger.
LEMMA SaleInvStep == IndInv /\ IndInv' /\ SaleInv /\ [Next]_vars => SaleInv'
<1> SUFFICES ASSUME IndInv, IndInv', SaleInv, [Next]_vars PROVE SaleInv' OBVIOUS
<1>1. CASE Next
  <2>1. EntryOnce' /\ CompleteIsFull' BY <1>1, BookStep DEF SaleInv
  <2>2. IdleHasNoRows' BY <1>1, IdleHasNoRowsStep DEF SaleInv
  <2>3. EntryRowsAreFilled' /\ SoldSoFar' BY <1>1, EntryProgress
  <2>4. NothingBoughtEarly' BY <1>1, NothingBoughtEarlyStep
  <2>5. OpenMeansHedged' /\ OpenIsSettled' BY <1>1, <2>4, OpenStep
  <2>6. PutOnlyAfterCall'
    <3>1. pc = "e_send" /\ leg = "PE" => FullyFilled(E("CE"))
      BY DEF SaleInv, SoldSoFar, LegStep, Sold
    <3>2. book[E("PE")] # <<>> => FullyFilled(E("CE")) BY DEF SaleInv, PutOnlyAfterCall
    <3>3. "CE" \in Leg BY DEF Leg
    <3> QED BY <1>1, <3>1, <3>2, <3>3, BookStep DEF SaleInv, PutOnlyAfterCall
  <2>7. ExitFollowsSale' /\ NeverOverClosed' BY <1>1, <2>4, ClosingStep
  <2> QED BY <2>1, <2>2, <2>3, <2>4, <2>5, <2>6, <2>7 DEF SaleInv
<1>2. CASE UNCHANGED vars
  BY <1>2 DEF vars, dbVars, positionVars, tradeVars, orderVars, brokerVars, localVars, SaleInv,
        EntryOnce, CompleteIsFull, IdleHasNoRows, EntryRowsAreFilled, SoldSoFar, Sold,
        NothingBoughtEarly, PutOnlyAfterCall, OpenMeansHedged, OpenIsSettled, ExitFollowsSale,
        NeverOverClosed, FullyFilled, LastOrder
<1> QED BY <1>1, <1>2

\* The invariant holds in every reachable state.
LEMMA SaleInvHolds == Spec => [](IndInv /\ SaleInv)
<1>1. Init => IndInv /\ SaleInv
  <2> SUFFICES ASSUME Init PROVE SaleInv
    BY InitType, InitLedger DEF IndInv
  <2>1. /\ posState = "IDLE" /\ pc = "down" /\ started = {} /\ book = NoBook
        /\ intent = [t \in Tag |-> "NONE"] /\ row = [t \in Tag |-> NoRow]
    BY DEF Init
  <2>2. /\ \A l \in Leg : E(l) \in Tag /\ X(l) \in Tag /\ <<"U", l>> \in Tag
        /\ U \in Tag /\ E("PE") \in Tag
    BY TagFacts DEF Leg, Tag
  <2>3. EntryOnce
    <3>1. \A l \in Leg : book[E(l)] = <<>> BY <2>1, <2>2 DEF NoBook
    <3>2. Len(<<>>) = 0 OBVIOUS
    <3>3. \A l \in Leg : Len(book[E(l)]) = 0 BY <3>1, <3>2
    <3> QED BY <3>3 DEF EntryOnce
  <2>4. CompleteIsFull BY <2>1 DEF CompleteIsFull, NoBook
  <2>5. IdleHasNoRows BY <2>1 DEF IdleHasNoRows
  <2>6. EntryRowsAreFilled /\ SoldSoFar BY <2>1 DEF EntryRowsAreFilled, SoldSoFar, LegStep, UnwindStep
  <2>7. NothingBoughtEarly /\ PutOnlyAfterCall
    BY <2>1, <2>2 DEF NothingBoughtEarly, PutOnlyAfterCall, NoBook
  <2>8. OpenMeansHedged /\ OpenIsSettled BY <2>1 DEF OpenMeansHedged, OpenIsSettled
  <2>9. ExitFollowsSale /\ NeverOverClosed
    BY <2>1, <2>2 DEF ExitFollowsSale, NeverOverClosed, NoBook
  <2> QED BY <2>3, <2>4, <2>5, <2>6, <2>7, <2>8, <2>9 DEF SaleInv
<1>2. IndInv /\ SaleInv /\ [Next]_vars => (IndInv /\ SaleInv)'
  BY IndInvStep, SaleInvStep
<1> QED BY <1>1, <1>2, PTL DEF Spec

\* The put is sold only over a call the broker filled in full, whatever crashes,
\* times out, fills in part or is pushed late.
THEOREM CallBeforePut == Spec => []PutOnlyAfterCall
<1>1. SaleInv => PutOnlyAfterCall BY DEF SaleInv
<1> QED BY <1>1, SaleInvHolds, PTL

\* A position the database calls OPEN is short both legs in full at known prices,
\* and nothing that would buy either back has been sent.
THEOREM OpenIsHedged == Spec => []OpenMeansHedged
<1>1. SaleInv => OpenMeansHedged BY DEF SaleInv
<1> QED BY <1>1, SaleInvHolds, PTL

\* A leg is bought back only if it had been sold in full, and by one of unwind and
\* exit: no crash, retry or late answer makes the platform buy itself long.
THEOREM NeverBoughtTwice == Spec => []NeverOverClosed
<1>1. SaleInv => NeverOverClosed BY DEF SaleInv
<1> QED BY <1>1, SaleInvHolds, PTL

--------------------------------------------------------------------------------
(* The rows of the orders. *)

\* An order follows itself; what follows accounts for what was accounted for.
LEMMA FollowFacts ==
    /\ \A o \in Order : Follows(o, o)
    /\ \A o, p, q \in Order : Follows(o, p) /\ Follows(p, q) => Follows(o, q)
    /\ \A o, p \in Order, r \in Row : Follows(o, p) /\ Backs(p, r) => Backs(o, r)
BY ConstantsAssumption DEF ConstantsAssumption, Follows, Backs, Order, Row

\* Orders are not forgotten, and an order that ended changes no more.
LEMMA OrdersFollow ==
    ASSUME IndInv, NeverPricedZero, Next
    PROVE  /\ NeverPricedZero'
           /\ \A t \in Tag : \A i \in DOMAIN book[t] :
                 i \in DOMAIN book'[t] /\ Follows(book'[t][i], book[t][i])
<1> DEFINE Goal == /\ NeverPricedZero'
                   /\ \A t \in Tag : \A i \in DOMAIN book[t] :
                         i \in DOMAIN book'[t] /\ Follows(book'[t][i], book[t][i])
<1>0. Qty \in Nat \ {0} /\ book \in [Tag -> Seq(Order)] /\ leg \in Leg
  BY ConstantsAssumption DEF ConstantsAssumption, IndInv, TypeOK, BrokerOK, LocalsOK
<1>1. \A t \in Tag : \A i \in DOMAIN book[t] :
        book[t][i] \in Order /\ Follows(book[t][i], book[t][i]) /\ book[t][i].price # "zero"
  BY <1>0, FollowFacts DEF NeverPricedZero
\* The broker moves one order.
<1>2. ASSUME NEW t \in Tag, NEW i \in DOMAIN book[t], NEW o \in Order,
             book' = [book EXCEPT ![t][i] = o], Follows(o, book[t][i]), o.price # "zero"
      PROVE  Goal
  <2>1. \A s \in Tag : DOMAIN book'[s] = DOMAIN book[s] BY <1>0, <1>2
  <2>2. \A s \in Tag : \A j \in DOMAIN book[s] :
          book'[s][j] = IF s = t /\ j = i THEN o ELSE book[s][j]
    BY <1>0, <1>2
  <2> QED BY <1>1, <1>2, <2>1, <2>2 DEF NeverPricedZero
\* A new order joins those of its tag.
<1>3. ASSUME NEW t \in Tag, Acknowledges(t) \/ Refuses(t) \/ TimesOut(t) \/ NotSent(t)
      PROVE  Goal
  <2> DEFINE o == [status |-> "OPEN", filled |-> 0, price |-> "none"]
  <2>1. book' \in {book, Accepted(t)} BY <1>3 DEF Acknowledges, Refuses, TimesOut, NotSent
  <2>2. CASE book' = book BY <1>1, <2>2 DEF NeverPricedZero
  <2>3. CASE book' = Accepted(t)
    <3>1. book'[t] = Append(book[t], o) /\ \A s \in Tag : s # t => book'[s] = book[s]
      BY <1>0, <2>3 DEF Accepted
    <3>2. /\ DOMAIN book[t] \subseteq DOMAIN Append(book[t], o)
          /\ \A i \in DOMAIN book[t] : Append(book[t], o)[i] = book[t][i]
          /\ \A i \in DOMAIN Append(book[t], o) :
                Append(book[t], o)[i] = o \/ (i \in DOMAIN book[t] /\ Append(book[t], o)[i] = book[t][i])
      BY <1>0
    <3> QED BY <1>1, <3>1, <3>2 DEF NeverPricedZero
  <2> QED BY <2>1, <2>2, <2>3
<1>4. ASSUME NEW t \in Tag, NEW i \in DOMAIN book[t], NEW k \in 1..Qty, BrokerFills(t, i, k)
      PROVE  Goal
  <2>1. PICK price \in {"real", "none"} :
          book' = [book EXCEPT ![t][i] = [status |-> IF k = Qty THEN "COMPLETE" ELSE "OPEN",
                                          filled |-> k, price |-> price]]
    BY <1>4 DEF BrokerFills
  <2> DEFINE o == [status |-> IF k = Qty THEN "COMPLETE" ELSE "OPEN", filled |-> k, price |-> price]
  <2>2. o \in Order /\ o.price # "zero" BY <1>0 DEF Order, OrderStatus, Price
  <2>3. k > book[t][i].filled /\ book[t][i].status = "OPEN" BY <1>4 DEF BrokerFills, Working
  <2>4. Follows(o, book[t][i]) BY <1>0, <1>1, <2>3 DEF Follows, Terminal, Order
  <2> QED BY <1>2, <2>1, <2>2, <2>4
<1>5. ASSUME NEW t \in Tag, NEW i \in DOMAIN book[t], NEW s \in {"REJECTED", "CANCELLED"},
             BrokerKills(t, i, s)
      PROVE  Goal
  <2> DEFINE o == [book[t][i] EXCEPT !.status = s]
  <2>1. book' = [book EXCEPT ![t][i] = o] BY <1>0, <1>5 DEF BrokerKills
  <2>2. book[t][i].status = "OPEN" BY <1>5 DEF BrokerKills, Working
  <2>3. o \in Order /\ o.price # "zero" /\ Follows(o, book[t][i])
    BY <1>0, <1>1, <2>2 DEF Order, OrderStatus, Follows, Terminal
  <2> QED BY <1>2, <2>1, <2>3
<1>6. ASSUME NEW t \in Tag, NEW i \in DOMAIN book[t], BrokerPrices(t, i) PROVE Goal
  <2> DEFINE o == [book[t][i] EXCEPT !.price = "real"]
  <2>1. book' = [book EXCEPT ![t][i] = o] BY <1>0, <1>6 DEF BrokerPrices
  <2>2. o \in Order /\ o.price # "zero" /\ Follows(o, book[t][i])
    BY <1>0, <1>1 DEF Order, Price, Follows, Terminal
  <2> QED BY <1>2, <2>1, <2>2
<1>7. CASE BrokerMoves
  <2>1. CASE \E l \in Leg : SquaresOff(l) BY <1>1, <2>1 DEF SquaresOff, NeverPricedZero
  <2> QED BY <1>4, <1>5, <1>6, <1>7, <2>1 DEF BrokerMoves
<1>8. CASE place_leg_send \/ auto_unwind_send \/ place_close_send
  BY <1>0, <1>3, <1>8, TagFacts DEF place_leg_send, auto_unwind_send, place_close_send
<1>9. CASE ~(place_leg_send \/ auto_unwind_send \/ place_close_send \/ BrokerMoves)
  BY <1>1, <1>9, OnlyTheBrokerMoves DEF NeverPricedZero
<1> QED BY <1>7, <1>8, <1>9

\* What one snapshot makes of a row: the same order's row, which only advances, and
\* is accounted for by the old order or by the one reported.
LEMMA UpdateAdvances ==
    ASSUME NEW r \in Row, NEW bo \in Order, bo.status = "COMPLETE" => bo.filled = Qty,
           NEW r1, r1 = apply_broker_order_update(r, bo)
    PROVE  /\ r1.copies = r.copies /\ r1.acked = r.acked /\ Advances(r, r1)
           /\ \/ r1 = r
              \/ r1.filled = r.filled /\ r1.status # "COMPLETE"
              \/ r1.filled = bo.filled /\ (r1.status = "COMPLETE" => bo.status = "COMPLETE")
<1>0. /\ Qty \in Nat \ {0} /\ r.filled \in 0..Qty /\ bo.filled \in 0..Qty
      /\ "COMPLETE" \in Terminal
  BY ConstantsAssumption DEF ConstantsAssumption, Row, Order, Terminal
<1>1. CASE r1 = r BY <1>0, <1>1 DEF Advances
<1>2. CASE r.status \notin Terminal /\ bo.status = "COMPLETE"
  <2>1. r1 = [r EXCEPT !.status = "COMPLETE", !.filled = bo.filled, !.price = orZero(bo.price)]
    BY <1>2 DEF apply_broker_order_update
  <2>2. r1.copies = r.copies /\ r1.acked = r.acked /\ r1.filled = bo.filled BY <2>1 DEF Row
  <2> QED BY <1>0, <1>2, <2>2 DEF Advances
<1>3. CASE r.status \notin Terminal /\ bo.status \in {"REJECTED", "CANCELLED"}
  <2>1. r1 = [r EXCEPT !.status = bo.status]
    BY <1>3 DEF apply_broker_order_update
  <2>2. /\ r1.copies = r.copies /\ r1.acked = r.acked /\ r1.filled = r.filled
        /\ r1.status = bo.status
    BY <2>1 DEF Row
  <2> QED BY <1>0, <1>3, <2>2 DEF Advances
<1>4. CASE r.status \notin Terminal /\ bo.status = "OPEN" /\ bo.filled > r.filled
  <2> DEFINE price == IF bo.price # "none" THEN bo.price ELSE orZero(r.price)
  <2>1. r1 = [r EXCEPT !.filled = bo.filled, !.price = price]
    BY <1>4 DEF apply_broker_order_update
  <2>2. /\ r1.copies = r.copies /\ r1.acked = r.acked /\ r1.filled = bo.filled
        /\ r1.status = r.status
    BY <2>1 DEF Row
  <2> QED BY <1>0, <1>4, <2>2 DEF Advances
<1>5. CASE r.status \in Terminal \/ (bo.status = "OPEN" /\ ~(bo.filled > r.filled))
  <2>1. r1 = r
    BY <1>5 DEF apply_broker_order_update
  <2> QED BY <1>1, <2>1
<1> QED BY <1>1, <1>2, <1>3, <1>4, <1>5 DEF Order, OrderStatus

\* Who writes an orders row.
LEMMA RowWriters ==
    ASSUME IndInv, Next
    PROVE  \/ row' = row
           \/ \E t \in Tag : process(t) \/ reconcile_one_intent(t)
           \/ reconcile_order_terminal("e_apply", "e_read")
           \/ reconcile_order_terminal("x_apply", "x_record")
           \/ \E t \in Tag : row' = [row EXCEPT ![t] = rejectedUnsent(row[t])]
           \/ \E t \in Tag : row' = [row EXCEPT ![t] = acknowledged(row[t])] /\ book[t] # <<>> /\ book' = book
<1>0. E(leg) \in Tag /\ X(leg) \in Tag
  BY TagFacts DEF IndInv, TypeOK, LocalsOK
<1>1. CASE record_leg_rejection \/ record_close_rejection
  BY <1>0, <1>1 DEF record_leg_rejection, record_close_rejection
<1>2. CASE confirm_and_record \/ confirm_close
  BY <1>0, <1>2 DEF confirm_and_record, confirm_close, IndInv, Ledger, PolledExists
<1>3. CASE World
  <2>1. CASE BrokerMoves BY <2>1, BrokerMovesForm DEF IndInv, dbVars, orderVars
  <2> QED BY <1>3, <2>1 DEF World, time_passes, engage_kill_switch, disengage_kill_switch,
             unfreeze, hook_raises, monitor_raises, crash, dbVars, orderVars
<1>4. CASE EntryNext /\ ~(record_leg_rejection \/ confirm_and_record)
  BY <1>4 DEF EntryNext, enter, create_durable_record, place_leg_mark, place_leg_send,
      mark_intent_failed, poll_entry, read_back, reconcile_order_load, finalize_open,
      finalize_open_fails, record_orphan_fill, auto_unwind_mark, auto_unwind_send,
      auto_unwind_poll, auto_unwind_record, entry_record_break, entry_fail_to_error,
      dbVars, orderVars
<1>5. CASE ExitNext /\ ~(record_close_rejection \/ confirm_close)
  BY <1>5 DEF ExitNext, prepare_exit, close_leg, find_order_by_tag, adopt_existing_order,
      place_close_mark, place_close_send, close_never_sent, poll_close, record_close,
      reconcile_order_load, finalize_closed, finalize_closed_fails, record_divergence,
      exit_record_break, exit_fail_to_error, dbVars, orderVars
<1>6. CASE ReconcileNext
  BY <1>6 DEF ReconcileNext, fetch_orders, intents_reconciled, detect_orphans, startup_aborts,
      reconcile_one_position, dbVars, orderVars
<1>7. CASE start \/ recover_settled \/ recover_exit_pending \/ recover_entry_pending
            \/ attach \/ trigger_exit
  BY <1>7 DEF start, recover_settled, recover_exit_pending, recover_entry_pending, attach,
          trigger_exit, dbVars, orderVars
<1> QED BY <1>1, <1>2, <1>3, <1>4, <1>5, <1>6, <1>7 DEF Next, Hooks

\* A snapshot that waits to be applied has just been polled, or was waiting before.
LEMMA WhoPolled ==
    ASSUME IndInv, Next, pc' \in {"e_load", "e_apply", "x_load", "x_apply"}
    PROVE  \/ /\ leg' = leg /\ book' = book
              /\ polled'.status \in Terminal
              /\ \/ pc' = "e_load" /\ book[E(leg)] # <<>> /\ polled' = LastOrder(E(leg))
                 \/ pc' = "x_load" /\ book[X(leg)] # <<>> /\ polled' = LastOrder(X(leg))
           \/ /\ leg' = leg /\ polled' = polled
              /\ \/ pc' \in {"e_load", "e_apply"} /\ pc \in {"e_load", "e_apply"}
                 \/ pc' \in {"x_load", "x_apply"} /\ pc \in {"x_load", "x_apply"}
<1> DEFINE Goal == \/ /\ leg' = leg /\ book' = book
                      /\ polled'.status \in Terminal
                      /\ \/ pc' = "e_load" /\ book[E(leg)] # <<>> /\ polled' = LastOrder(E(leg))
                         \/ pc' = "x_load" /\ book[X(leg)] # <<>> /\ polled' = LastOrder(X(leg))
                   \/ /\ leg' = leg /\ polled' = polled
                      /\ \/ pc' \in {"e_load", "e_apply"} /\ pc \in {"e_load", "e_apply"}
                         \/ pc' \in {"x_load", "x_apply"} /\ pc \in {"x_load", "x_apply"}
<1>0. PolledExists BY DEF IndInv, Ledger
<1>1. CASE World
  <2>1. CASE BrokerMoves BY <2>1, BrokerMovesForm DEF IndInv, localVars
  <2>2. CASE hook_raises \/ monitor_raises \/ crash
    BY <2>2 DEF hook_raises, monitor_raises, crash, hookRaises
  <2> QED BY <1>1, <2>1, <2>2 DEF World, process, time_passes, engage_kill_switch,
             disengage_kill_switch, unfreeze, localVars
<1>2. CASE EntryNext
  <2>1. CASE \E result \in {"FILLED", "FAILED", "AMBIGUOUS"} : legEnds(result)
    BY <2>1, LegEndsWhere DEF IndInv, TypeOK
  <2>2. CASE poll_entry /\ ~\E result \in {"FILLED", "FAILED", "AMBIGUOUS"} : legEnds(result)
    <3>1. /\ pc = "e_poll" /\ pc' = "e_load" /\ leg' = leg /\ book' = book
          /\ LastOrder(E(leg)).status \in Terminal /\ polled' = LastOrder(E(leg))
      BY <2>2 DEF poll_entry
    <3> QED BY <1>0, <3>1 DEF PolledExists
  <2>3. CASE reconcile_order_load("e_load", "e_apply") BY <2>3 DEF reconcile_order_load
  <2>4. CASE ~(poll_entry \/ reconcile_order_load("e_load", "e_apply")
               \/ \E result \in {"FILLED", "FAILED", "AMBIGUOUS"} : legEnds(result))
    BY <1>2, <2>4 DEF EntryNext, enter, create_durable_record, place_leg_mark, place_leg_send,
        record_leg_rejection, mark_intent_failed, confirm_and_record, read_back, hookRaises,
        reconcile_order_terminal, finalize_open, finalize_open_fails, record_orphan_fill,
        auto_unwind_mark, auto_unwind_send, auto_unwind_poll, auto_unwind_record,
        entry_record_break, entry_fail_to_error, hookReturns
  <2> QED BY <2>1, <2>2, <2>3, <2>4
<1>3. CASE ExitNext
  <2>1. CASE \E result \in {"CLOSED", "FAILED", "AMBIGUOUS"} : closeEnds(result)
    BY <2>1, CloseEndsStep
  <2>2. CASE (poll_close \/ adopt_existing_order)
             /\ ~\E result \in {"CLOSED", "FAILED", "AMBIGUOUS"} : closeEnds(result)
    <3>1. /\ pc \in {"x_poll", "x_adopt"} /\ pc' = "x_load" /\ leg' = leg /\ book' = book
          /\ LastOrder(X(leg)).status \in Terminal /\ polled' = LastOrder(X(leg))
      BY <2>2 DEF poll_close, adopt_existing_order, Terminal
    <3> QED BY <1>0, <3>1 DEF PolledExists
  <2>3. CASE reconcile_order_load("x_load", "x_apply") BY <2>3 DEF reconcile_order_load
  <2>4. CASE ~(poll_close \/ adopt_existing_order \/ reconcile_order_load("x_load", "x_apply")
               \/ \E result \in {"CLOSED", "FAILED", "AMBIGUOUS"} : closeEnds(result))
    BY <1>3, <2>4 DEF ExitNext, prepare_exit, close_leg, find_order_by_tag,
          place_close_mark, place_close_send, record_close_rejection, close_never_sent,
          confirm_close, record_close, reconcile_order_terminal, finalize_closed,
          finalize_closed_fails, record_divergence, exit_record_break,
          exit_fail_to_error, hookReturns
  <2> QED BY <2>1, <2>2, <2>3, <2>4
<1>4. CASE ReconcileNext
  BY <1>4 DEF ReconcileNext, fetch_orders, intents_reconciled, detect_orphans, startup_aborts,
              reconcile_one_position, reconcile_one_intent
<1>5. CASE start \/ recover_settled \/ recover_exit_pending \/ recover_entry_pending
            \/ attach \/ trigger_exit
  BY <1>5 DEF start, recover_settled, recover_exit_pending, recover_entry_pending, attach,
              trigger_exit, hookReturns
<1> QED BY <1>1, <1>2, <1>3, <1>4, <1>5 DEF Next, Hooks

\* While reconciliation resolves intents nobody else writes rows or the snapshot.
LEMMA WhoReconciles ==
    ASSUME IndInv, Next, pc' = "r_intents"
    PROVE  \/ fetch_orders
           \/ \E t \in Tag : reconcile_one_intent(t)
           \/ UNCHANGED <<pc, todo, view, row>>
<1>1. CASE World
  <2>1. CASE BrokerMoves BY <2>1, BrokerMovesForm DEF IndInv, localVars, dbVars, orderVars
  <2>2. CASE hook_raises \/ monitor_raises \/ crash
    BY <2>2 DEF hook_raises, monitor_raises, crash, hookRaises
  <2>3. CASE \E t \in Tag : process(t) BY <2>3 DEF process
  <2> QED BY <1>1, <2>1, <2>2, <2>3 DEF World, time_passes, engage_kill_switch,
             disengage_kill_switch, unfreeze, localVars, dbVars, orderVars
<1>2. ~EntryNext
  <2>1. CASE \E result \in {"FILLED", "FAILED", "AMBIGUOUS"} : legEnds(result)
    BY <2>1, LegEndsWhere DEF IndInv, TypeOK
  <2>2. CASE ~\E result \in {"FILLED", "FAILED", "AMBIGUOUS"} : legEnds(result)
    BY <2>2 DEF EntryNext, enter, create_durable_record, place_leg_mark, place_leg_send,
        record_leg_rejection, mark_intent_failed, confirm_and_record, read_back, hookRaises,
        poll_entry, reconcile_order_load, reconcile_order_terminal, finalize_open,
        finalize_open_fails, record_orphan_fill, auto_unwind_mark, auto_unwind_send,
        auto_unwind_poll, auto_unwind_record, entry_record_break, entry_fail_to_error, hookReturns
  <2> QED BY <2>1, <2>2
<1>3. ~ExitNext
  <2>1. CASE \E result \in {"CLOSED", "FAILED", "AMBIGUOUS"} : closeEnds(result)
    BY <2>1, CloseEndsStep
  <2>2. CASE ~\E result \in {"CLOSED", "FAILED", "AMBIGUOUS"} : closeEnds(result)
    BY <2>2 DEF ExitNext, prepare_exit, close_leg, find_order_by_tag, adopt_existing_order,
          place_close_mark, place_close_send, record_close_rejection, close_never_sent,
          confirm_close, poll_close, record_close, reconcile_order_load,
          reconcile_order_terminal, finalize_closed, finalize_closed_fails, record_divergence,
          exit_record_break, exit_fail_to_error, hookReturns
  <2> QED BY <2>1, <2>2
<1>4. CASE ReconcileNext
  BY <1>4 DEF ReconcileNext, intents_reconciled, detect_orphans, startup_aborts,
              reconcile_one_position
<1>5. ~(start \/ recover_settled \/ recover_exit_pending \/ recover_entry_pending
        \/ attach \/ trigger_exit)
  BY DEF start, recover_settled, recover_exit_pending, recover_entry_pending, attach,
         trigger_exit, hookReturns
<1> QED BY <1>1, <1>2, <1>3, <1>4, <1>5 DEF Next, Hooks

\* Each writer leaves every row accounted for, and the row of an order advances.
LEMMA RowStep ==
    ASSUME IndInv, IndInv', CompleteIsFull, RowInv, Next, NEW t \in Tag
    PROVE  /\ Accounted(t)'
           /\ row'[t].copies = row[t].copies /\ row'[t].acked = row[t].acked => Advances(row[t], row'[t])
<1> DEFINE Fine(s) ==
      /\ Accounted(s)'
      /\ row'[s].copies = row[s].copies /\ row'[s].acked = row[s].acked => Advances(row[s], row'[s])
<1>0. /\ Qty \in Nat \ {0} /\ row \in [Tag -> Row] /\ row' \in [Tag -> Row]
      /\ book \in [Tag -> Seq(Order)] /\ book' \in [Tag -> Seq(Order)]
      /\ leg \in Leg /\ E(leg) \in Tag /\ X(leg) \in Tag
      /\ polled \in Order \cup {NoOrder} /\ view \in [Tag -> Seq(Order)]
  BY ConstantsAssumption, TagFacts
     DEF ConstantsAssumption, IndInv, TypeOK, OrdersOK, BrokerOK, LocalsOK
\* The orders that account for the rows still do.
<1>1. ASSUME NEW s \in Tag, NEW r \in Row, NEW i \in DOMAIN book[s], Backs(book[s][i], r)
      PROVE  \E j \in DOMAIN book'[s] : Backs(book'[s][j], r)
  <2>1. i \in DOMAIN book'[s] /\ Follows(book'[s][i], book[s][i])
    BY <1>1, OrdersFollow DEF RowInv
  <2>2. book[s][i] \in Order /\ book'[s][i] \in Order BY <1>0, <2>1
  <2> QED BY <1>1, <2>1, <2>2, FollowFacts
\* A row that is left alone.
<1>2. ASSUME NEW s \in Tag, row'[s] = row[s] PROVE Fine(s)
  <2>1. Accounted(s) BY DEF RowInv, RowsBelieveTheBroker
  <2>2. Accounted(s)'
    <3>1. CASE row[s].acked
      <4>1. PICK i \in DOMAIN book[s] : Backs(book[s][i], row[s]) BY <2>1, <3>1 DEF Accounted
      <4>2. \E j \in DOMAIN book'[s] : Backs(book'[s][j], row[s]) BY <1>0, <1>1, <4>1
      <4> QED BY <1>2, <3>1, <4>2 DEF Accounted
    <3>2. CASE ~row[s].acked BY <1>2, <2>1, <3>2 DEF Accounted
    <3> QED BY <3>1, <3>2
  <2>3. row[s].filled \in Nat BY <1>0 DEF Row
  <2> QED BY <1>2, <2>2, <2>3 DEF Advances
\* A row to which a true snapshot of an order is applied.
<1>3. ASSUME NEW s \in Tag, NEW bo \in Order, bo.status = "COMPLETE" => bo.filled = Qty,
             NEW i \in DOMAIN book[s], bo.filled <= book[s][i].filled,
             bo.status = "COMPLETE" => book[s][i].status = "COMPLETE",
             row[s].acked,
             row' = [row EXCEPT ![s] = apply_broker_order_update(row[s], bo)]
      PROVE  Fine(t)
  <2>1. CASE s # t BY <1>0, <1>2, <1>3, <2>1
  <2>2. CASE s = t /\ row'[s] = row[s] BY <1>2, <2>2
  <2>3. CASE s = t /\ row'[s] # row[s]
    <3> DEFINE r1 == row'[s]
    <3>0. row[s] \in Row BY <1>0
    <3>1. r1 = apply_broker_order_update(row[s], bo) BY <1>0, <1>3
    <3> HIDE DEF r1
    <3>2. /\ r1.copies = row[s].copies /\ r1.acked = row[s].acked /\ Advances(row[s], r1)
          /\ \/ r1.filled = row[s].filled /\ r1.status # "COMPLETE"
             \/ r1.filled = bo.filled /\ (r1.status = "COMPLETE" => bo.status = "COMPLETE")
      <4>1. r1 # row[s] BY <2>3 DEF r1
      <4> QED BY <1>3, <3>0, <3>1, <4>1, UpdateAdvances
    <3>3. r1 \in Row /\ book[s][i] \in Order BY <1>0 DEF r1
    <3>4. PICK j \in DOMAIN book[s] : Backs(book[s][j], row[s])
      BY <1>3 DEF RowInv, RowsBelieveTheBroker, Accounted
    <3>5. Backs(book[s][i], r1) \/ Backs(book[s][j], r1)
      <4>1. CASE r1.filled = row[s].filled /\ r1.status # "COMPLETE" BY <3>4, <4>1 DEF Backs
      <4>2. CASE r1.filled = bo.filled /\ (r1.status = "COMPLETE" => bo.status = "COMPLETE")
        <5>1. r1.status = "COMPLETE" => book[s][i].status = "COMPLETE" /\ bo.filled = Qty
          BY <1>3, <4>2
        <5>2. book[s][i].filled \in 0..Qty BY <3>3 DEF Order
        <5> QED BY <1>0, <1>3, <4>2, <5>1, <5>2 DEF Backs, Terminal
      <4> QED BY <3>2, <4>1, <4>2
    <3>6. \E k \in DOMAIN book'[s] : Backs(book'[s][k], r1) BY <1>1, <3>3, <3>5
    <3> QED BY <1>3, <2>3, <3>2, <3>6 DEF Accounted, r1
  <2> QED BY <2>1, <2>2, <2>3
<1>4. ASSUME NEW s \in Tag, process(s) PROVE Fine(t)
  <2>1. PICK i \in DOMAIN book[s] : \E bo \in Snapshots(book[s][i]) :
          row' = [row EXCEPT ![s] = apply_broker_order_update(@, bo)]
    BY <1>4 DEF process
  <2>2. PICK bo \in Snapshots(book[s][i]) :
          row' = [row EXCEPT ![s] = apply_broker_order_update(row[s], bo)]
    BY <2>1
  <2>3. book[s][i] \in Order /\ row[s].acked BY <1>0, <1>4 DEF process
  <2>4. bo = book[s][i] \/ (bo.status = "OPEN" /\ bo.filled <= book[s][i].filled /\ bo \in Order)
    <3> SUFFICES ASSUME bo # book[s][i]
                 PROVE  bo.status = "OPEN" /\ bo.filled <= book[s][i].filled /\ bo \in Order
      OBVIOUS
    <3>1. book[s][i].filled \in 0..Qty BY <2>3 DEF Order
    <3>2. PICK k \in 0..book[s][i].filled :
            bo = [status |-> "OPEN", filled |-> k, price |-> IF k = 0 THEN "none" ELSE "real"]
      BY <1>0, <3>1 DEF Snapshots
    <3> QED BY <1>0, <3>1, <3>2 DEF Order, OrderStatus, Price
  <2>5. bo \in Order /\ bo.filled <= book[s][i].filled BY <1>0, <2>3, <2>4 DEF Order
  <2>6. bo.status = "COMPLETE" => bo = book[s][i] BY <2>4
  <2> QED BY <1>3, <2>2, <2>3, <2>5, <2>6 DEF CompleteIsFull
\* The polled snapshot, applied to the row that was loaded.
<1>5. ASSUME NEW s \in Tag, PolledFrom(s),
             row' = [row EXCEPT ![s] = IF seen.acked /\ row[s] = seen
                                         THEN apply_broker_order_update(seen, polled) ELSE @]
      PROVE  Fine(t)
  <2>1. CASE seen.acked /\ row[s] = seen
    <3>1. PICK i \in DOMAIN book[s] : Follows(book[s][i], polled) BY <1>5 DEF PolledFrom
    <3>2. polled \in Order BY <1>0, <1>5 DEF PolledFrom, NoOrder, Terminal
    <3>3. book[s][i].status = polled.status /\ book[s][i].filled = polled.filled
      BY <1>5, <3>1 DEF PolledFrom, Follows
    <3>4. polled.status = "COMPLETE" => polled.filled = Qty BY <3>3 DEF CompleteIsFull
    <3>5. polled.filled <= book[s][i].filled BY <1>0, <3>2, <3>3 DEF Order
    <3>6. row' = [row EXCEPT ![s] = apply_broker_order_update(row[s], polled)] BY <1>5, <2>1
    <3> QED BY <1>3, <2>1, <3>2, <3>3, <3>4, <3>5, <3>6
  <2>2. CASE ~(seen.acked /\ row[s] = seen)
    <3>1. row' = row BY <1>0, <1>5, <2>2
    <3> QED BY <1>2, <3>1
  <2> QED BY <2>1, <2>2
<1>6. ASSUME reconcile_order_terminal("e_apply", "e_read") PROVE Fine(t)
  <2>1. PolledFrom(E(leg)) BY <1>6 DEF reconcile_order_terminal, RowInv, PolledIsTrue
  <2>2. row' = [row EXCEPT ![E(leg)] = IF seen.acked /\ row[E(leg)] = seen
                                         THEN apply_broker_order_update(seen, polled) ELSE @]
    BY <1>6 DEF reconcile_order_terminal, E
  <2> QED BY <1>0, <1>5, <2>1, <2>2
<1>7. ASSUME reconcile_order_terminal("x_apply", "x_record") PROVE Fine(t)
  <2>1. PolledFrom(X(leg)) BY <1>7 DEF reconcile_order_terminal, RowInv, PolledIsTrue
  <2>2. row' = [row EXCEPT ![X(leg)] = IF seen.acked /\ row[X(leg)] = seen
                                         THEN apply_broker_order_update(seen, polled) ELSE @]
    BY <1>7 DEF reconcile_order_terminal, X
  <2> QED BY <1>0, <1>5, <2>1, <2>2
\* A new row.
<1>8. ASSUME NEW s \in Tag, \/ row' = [row EXCEPT ![s] = rejectedUnsent(row[s])]
                            \/ /\ row' = [row EXCEPT ![s] = acknowledged(row[s])]
                               /\ book[s] # <<>> /\ book' = book
      PROVE  Fine(t)
  <2>1. CASE s # t BY <1>0, <1>2, <1>8, <2>1
  <2>2. CASE s = t
    <3>1. row[s].copies \in Nat BY <1>0 DEF Row
    <3>2. row'[s].copies # row[s].copies
      BY <1>0, <1>8, <3>1 DEF rejectedUnsent, acknowledged
    <3>3. CASE row'[s] = rejectedUnsent(row[s])
      <4>1. ~row'[s].acked /\ row'[s].filled = 0 /\ row'[s].status # "COMPLETE"
        BY <3>3 DEF rejectedUnsent
      <4> QED BY <2>2, <3>2, <4>1 DEF Accounted
    <3>4. CASE row'[s] = acknowledged(row[s]) /\ book[s] # <<>> /\ book' = book
      <4>1. 1 \in DOMAIN book'[s] /\ book'[s][1] \in Order BY <1>0, <3>4
      <4>2. Backs(book'[s][1], row'[s])
        BY <1>0, <3>4, <4>1 DEF Backs, acknowledged, Order
      <4>3. row'[s].acked BY <3>4 DEF acknowledged
      <4> QED BY <2>2, <3>2, <4>1, <4>2, <4>3 DEF Accounted
    <3> QED BY <1>0, <1>8, <3>3, <3>4
  <2> QED BY <2>1, <2>2
<1>9. ASSUME NEW s \in Tag, reconcile_one_intent(s) PROVE Fine(t)
  <2>1. pc = "r_intents" /\ s \in todo BY <1>9 DEF reconcile_one_intent
  <2>2. CASE row' = row BY <1>2, <2>2
  <2>3. CASE row' # row
    <3> DEFINE bo == view[s][1]
               r0 == resolvedRow(s)
    <3>1. /\ Len(view[s]) = 1 /\ resolve_intent_against_order(s, bo)
      <4>1. view[s] # <<>> /\ ~(Len(view[s]) > 1) /\ resolve_intent_against_order(s, bo)
        BY <1>9, <2>3 DEF reconcile_one_intent, flag_duplicate_orders, fail_intent_not_at_broker
      <4>2. view[s] \in Seq(Order) BY <1>0
      <4>3. \A q \in Seq(Order) : Len(q) \in Nat /\ (q = <<>> <=> Len(q) = 0) OBVIOUS
      <4>4. Len(view[s]) \in Nat /\ Len(view[s]) # 0 BY <4>1, <4>2, <4>3
      <4>5. \A n \in Nat : n # 0 /\ ~(n > 1) => n = 1 OBVIOUS
      <4> QED BY <4>1, <4>4, <4>5
    <3>2. bo \in Order
      <4>1. view[s] \in Seq(Order) BY <1>0
      <4> QED BY <3>1, <4>1
    <3>3. /\ bo.price # "zero" /\ (row[s].acked => Backs(bo, row[s]))
          /\ \E i \in DOMAIN book[s] : Follows(book[s][i], bo)
      BY <2>1, <3>1 DEF RowInv, ViewIsTrue
    <3>4. PICK i \in DOMAIN book[s] : Follows(book[s][i], bo) BY <3>3
    <3>5. book[s][i] \in Order BY <1>0
    <3>6. CASE s # t
      <4>1. \E r : row' = [row EXCEPT ![s] = r]
        BY <3>1 DEF resolve_intent_against_order, apply_fill
      <4> QED BY <1>0, <1>2, <3>6, <4>1
    <3>7. CASE s = t
      <4>1. /\ r0 \in Row /\ r0.acked
            /\ row[s].acked => r0 = row[s]
            /\ ~row[s].acked => r0.filled = 0 /\ r0.status = "OPEN"
        <5>1. row[s] \in Row /\ row[s].copies \in Nat BY <1>0 DEF Row
        <5>2. CASE row[s].acked BY <5>1, <5>2 DEF resolvedRow
        <5>3. CASE ~row[s].acked /\ row[s].copies = 0
          <6>1. r0 = acknowledged(row[s]) BY <5>3 DEF resolvedRow
          <6> QED BY <1>0, <5>1, <5>3, <6>1 DEF acknowledged, Row, OrderStatus, Price
        <5>4. CASE ~row[s].acked /\ row[s].copies # 0
          <6>1. r0 = [row[s] EXCEPT !.status = "OPEN", !.acked = TRUE] BY <5>4 DEF resolvedRow
          <6>2. row[s].filled = 0 BY <5>4 DEF RowInv, RowsBelieveTheBroker, Accounted
          <6> QED BY <1>0, <5>1, <5>4, <6>1, <6>2 DEF Row, OrderStatus
        <5> QED BY <5>2, <5>3, <5>4
      <4>2. r0.filled <= bo.filled
        <5>1. bo.filled \in Nat BY <1>0, <3>2 DEF Order
        <5>2. CASE row[s].acked BY <3>3, <4>1, <5>2 DEF Backs
        <5>3. CASE ~row[s].acked BY <4>1, <5>1, <5>3
        <5> QED BY <5>2, <5>3
      <4>3. CASE bo.status = "COMPLETE" \/ (bo.status \in Terminal /\ bo.filled > 0)
        <5>1. row' = [row EXCEPT ![s] = [r0 EXCEPT !.status = "COMPLETE",
                                           !.filled = bo.filled, !.price = fillPrice(s, bo)]]
          BY <3>1, <3>2, <4>3 DEF resolve_intent_against_order, apply_fill, Terminal
        <5>2. /\ row'[s].status = "COMPLETE" /\ row'[s].filled = bo.filled
              /\ row'[s].price = fillPrice(s, bo) /\ row'[s].acked
          BY <1>0, <4>1, <5>1 DEF Row
        <5>3. bo.status \in Terminal /\ bo.filled > 0 /\ bo.filled \in 0..Qty
          <6>1. book[s][i].status = bo.status /\ book[s][i].filled = bo.filled
            BY <3>4, <4>3 DEF Follows, Terminal
          <6>2. bo.status = "COMPLETE" => bo.filled = Qty BY <6>1 DEF CompleteIsFull
          <6>3. bo.filled \in 0..Qty BY <3>2 DEF Order
          <6>4. bo.status \in Terminal BY <4>3 DEF Terminal
          <6>5. CASE bo.status = "COMPLETE"
            <7>1. Qty \in Nat \ {0} BY <1>0
            <7>2. bo.filled = Qty BY <6>2, <6>5
            <7> QED BY <6>3, <6>4, <7>1, <7>2
          <6>6. CASE bo.filled > 0 BY <6>3, <6>4, <6>6
          <6> QED BY <4>3, <6>5, <6>6
        <5>4. Backs(bo, row'[s]) BY <1>0, <5>2, <5>3 DEF Backs
        <5>5. row'[s] \in Row BY <1>0
        <5>6. Backs(book[s][i], row'[s]) BY <3>2, <3>4, <3>5, <5>4, <5>5, FollowFacts
        <5>7. \E j \in DOMAIN book'[s] : Backs(book'[s][j], row'[s]) BY <1>1, <5>5, <5>6
        <5>8. row[s].price = "real" => row'[s].price = "real"
          BY <3>2, <3>3, <5>2 DEF fillPrice, orZero, Order, Price
        <5>9. row[s].acked => Advances(row[s], row'[s])
          BY <1>0, <3>2, <4>1, <4>2, <5>2, <5>8 DEF Advances, Terminal, Order, Row
        <5> QED BY <3>7, <5>2, <5>7, <5>9 DEF Accounted
      <4>4. CASE bo.status \in {"REJECTED", "CANCELLED"} /\ bo.filled = 0
        <5>1. row' = [row EXCEPT ![s] = [r0 EXCEPT !.status = "REJECTED"]]
          BY <1>0, <3>1, <4>4 DEF resolve_intent_against_order, Terminal
        <5>2. row'[s].status = "REJECTED" /\ row'[s].filled = r0.filled /\ row'[s].acked
          BY <1>0, <4>1, <5>1 DEF Row
        <5>3. row'[s] \in Row BY <1>0
        <5>4. Backs(bo, row'[s]) BY <4>2, <5>2 DEF Backs
        <5>5. Backs(book[s][i], row'[s]) BY <3>2, <3>4, <3>5, <5>3, <5>4, FollowFacts
        <5>6. \E j \in DOMAIN book'[s] : Backs(book'[s][j], row'[s]) BY <1>1, <5>3, <5>5
        <5>7. row[s].acked => row[s].status # "COMPLETE" BY <3>3, <4>4 DEF Backs
        <5>8. row[s].acked => Advances(row[s], row'[s])
          BY <1>0, <4>1, <5>2, <5>7 DEF Advances, Terminal, Row
        <5> QED BY <3>7, <5>2, <5>6, <5>8 DEF Accounted
      <4>5. CASE bo.status = "OPEN"
        <5>1. row' = [row EXCEPT ![s] = r0]
          BY <3>1, <4>5 DEF resolve_intent_against_order, Terminal
        <5>2. row'[s] = r0 BY <1>0, <5>1
        <5>3. ~row[s].acked BY <1>0, <2>3, <4>1, <5>1
        <5>4. Backs(bo, r0) BY <4>1, <4>2, <5>3 DEF Backs
        <5>5. Backs(book[s][i], r0) BY <3>2, <3>4, <3>5, <4>1, <5>4, FollowFacts
        <5>6. \E j \in DOMAIN book'[s] : Backs(book'[s][j], r0) BY <1>1, <4>1, <5>5
        <5> QED BY <3>7, <4>1, <5>2, <5>3, <5>6 DEF Accounted
      <4> QED BY <3>1, <4>3, <4>4, <4>5 DEF resolve_intent_against_order
    <3> QED BY <3>6, <3>7
  <2> QED BY <2>2, <2>3
<1>10. CASE row' = row BY <1>2, <1>10
<1> QED BY <1>4, <1>6, <1>7, <1>8, <1>9, <1>10, RowWriters

\* The snapshots the hooks hold stay true.
LEMMA SnapshotStep ==
    ASSUME IndInv, IndInv', RowInv, RowsBelieveTheBroker', Next
    PROVE  PolledIsTrue' /\ ViewIsTrue'
<1>0. /\ row \in [Tag -> Row] /\ row' \in [Tag -> Row]
      /\ book \in [Tag -> Seq(Order)] /\ book' \in [Tag -> Seq(Order)]
      /\ leg \in Leg /\ E(leg) \in Tag /\ X(leg) \in Tag
      /\ polled \in Order \cup {NoOrder} /\ view \in [Tag -> Seq(Order)] /\ todo \subseteq Tag
  BY TagFacts DEF IndInv, TypeOK, OrdersOK, BrokerOK, LocalsOK
\* An order that was seen is still there.
<1>1. ASSUME NEW t \in Tag, NEW bo \in Order, NEW i \in DOMAIN book[t], Follows(book[t][i], bo)
      PROVE  \E j \in DOMAIN book'[t] : Follows(book'[t][j], bo)
  <2>1. i \in DOMAIN book'[t] /\ Follows(book'[t][i], book[t][i])
    BY <1>1, OrdersFollow DEF RowInv
  <2>2. book[t][i] \in Order /\ book'[t][i] \in Order BY <1>0, <2>1
  <2> QED BY <1>1, <2>1, <2>2, FollowFacts
<1>2. ASSUME NEW t \in Tag, polled' = polled, PolledFrom(t) PROVE PolledFrom(t)'
  <2>1. PICK i \in DOMAIN book[t] : Follows(book[t][i], polled) BY <1>2 DEF PolledFrom
  <2>2. polled \in Order BY <1>0, <1>2 DEF PolledFrom, NoOrder, Terminal
  <2>3. \E j \in DOMAIN book'[t] : Follows(book'[t][j], polled) BY <1>1, <2>1, <2>2
  <2> QED BY <1>2, <2>3 DEF PolledFrom
<1>3. ASSUME NEW t \in Tag, book[t] # <<>>, book' = book, polled' = LastOrder(t),
             polled'.status \in Terminal
      PROVE  PolledFrom(t)'
  <2>1. Len(book[t]) \in DOMAIN book[t] /\ book[t][Len(book[t])] \in Order BY <1>0, <1>3
  <2>2. Follows(book[t][Len(book[t])], polled') BY <1>3, <2>1, FollowFacts DEF LastOrder
  <2> QED BY <1>3, <2>1, <2>2 DEF PolledFrom
<1>4. PolledIsTrue'
  <2>1. CASE pc' \in {"e_load", "e_apply", "x_load", "x_apply"}
    <3>1. leg' = leg BY <2>1, WhoPolled
    <3>2. ASSUME pc' \in {"e_load", "e_apply"} PROVE PolledFrom(E(leg))'
      <4>1. CASE pc \in {"e_load", "e_apply"} /\ polled' = polled
        BY <1>0, <1>2, <3>1, <4>1 DEF RowInv, PolledIsTrue, PolledFrom, E
      <4>2. CASE book[E(leg)] # <<>> /\ polled' = LastOrder(E(leg)) /\ book' = book
                 /\ polled'.status \in Terminal
        BY <1>0, <1>3, <3>1, <4>2 DEF PolledFrom, E
      <4> QED BY <3>2, <4>1, <4>2, WhoPolled
    <3>3. ASSUME pc' \in {"x_load", "x_apply"} PROVE PolledFrom(X(leg))'
      <4>1. CASE pc \in {"x_load", "x_apply"} /\ polled' = polled
        BY <1>0, <1>2, <3>1, <4>1 DEF RowInv, PolledIsTrue, PolledFrom, X
      <4>2. CASE book[X(leg)] # <<>> /\ polled' = LastOrder(X(leg)) /\ book' = book
                 /\ polled'.status \in Terminal
        BY <1>0, <1>3, <3>1, <4>2 DEF PolledFrom, X
      <4> QED BY <3>3, <4>1, <4>2, WhoPolled
    <3> QED BY <3>2, <3>3 DEF PolledIsTrue
  <2>2. CASE pc' \notin {"e_load", "e_apply", "x_load", "x_apply"} BY <2>2 DEF PolledIsTrue
  <2> QED BY <2>1, <2>2
<1>5. ViewIsTrue'
  <2> SUFFICES ASSUME pc' = "r_intents", NEW t \in todo', Len(view'[t]) = 1
               PROVE  /\ view'[t][1].price # "zero"
                      /\ row'[t].acked => Backs(view'[t][1], row'[t])
                      /\ \E i \in DOMAIN book'[t] : Follows(book'[t][i], view'[t][1])
    BY DEF ViewIsTrue
  <2>0. t \in Tag BY DEF IndInv, TypeOK, LocalsOK
  <2>1. CASE fetch_orders
    <3>1. view' = book /\ book' = book /\ row' = row
      BY <2>1 DEF fetch_orders, dbVars, orderVars, brokerVars
    <3>2. DOMAIN book[t] = {1} /\ book[t][1] \in Order
      <4>1. book[t] \in Seq(Order) /\ Len(book[t]) = 1 BY <1>0, <2>0, <3>1
      <4> QED BY <4>1
    <3>3. book[t][1].price # "zero" BY <2>0, <3>2 DEF RowInv, NeverPricedZero
    <3>4. row[t].acked => Backs(book[t][1], row[t])
      BY <2>0, <3>2 DEF RowInv, RowsBelieveTheBroker, Accounted
    <3>5. Follows(book[t][1], book[t][1]) BY <3>2, FollowFacts
    <3> QED BY <3>1, <3>2, <3>3, <3>4, <3>5
  <2>2. ASSUME NEW bo, bo = view[t][1], view' = view, pc = "r_intents", t \in todo,
               row'[t] = row[t]
        PROVE  /\ view'[t][1].price # "zero"
               /\ row'[t].acked => Backs(view'[t][1], row'[t])
               /\ \E i \in DOMAIN book'[t] : Follows(book'[t][i], view'[t][1])
    <3>1. Len(view[t]) = 1 BY <2>2
    <3>2. /\ bo.price # "zero" /\ (row[t].acked => Backs(bo, row[t]))
          /\ \E i \in DOMAIN book[t] : Follows(book[t][i], bo)
      BY <2>2, <3>1 DEF RowInv, ViewIsTrue
    <3>3. bo \in Order
      <4>1. view[t] \in Seq(Order) BY <1>0, <2>0
      <4> QED BY <2>2, <3>1, <4>1
    <3>4. \E j \in DOMAIN book'[t] : Follows(book'[t][j], bo) BY <1>1, <2>0, <3>2, <3>3
    <3> QED BY <2>2, <3>2, <3>4
  <2>3. ASSUME NEW s \in Tag, reconcile_one_intent(s)
        PROVE  /\ view' = view /\ pc = "r_intents" /\ t \in todo /\ row'[t] = row[t]
    <3>1. view' = view /\ pc = "r_intents" /\ t \in todo /\ t # s
      BY <2>3 DEF reconcile_one_intent
    <3>2. row' = row \/ \E r : row' = [row EXCEPT ![s] = r]
      BY <2>3 DEF reconcile_one_intent, flag_duplicate_orders, fail_intent_not_at_broker,
                  resolve_intent_against_order, apply_fill
    <3> QED BY <1>0, <2>0, <3>1, <3>2
  <2>4. CASE UNCHANGED <<pc, todo, view, row>> BY <2>2, <2>4
  <2> QED BY <2>1, <2>2, <2>3, <2>4, WhoReconciles
<1> QED BY <1>4, <1>5

LEMMA RowInvStep ==
    IndInv /\ IndInv' /\ SaleInv /\ RowInv /\ [Next]_vars => RowInv'
<1> SUFFICES ASSUME IndInv, IndInv', SaleInv, RowInv, [Next]_vars PROVE RowInv' OBVIOUS
<1>1. CASE Next
  <2>1. CompleteIsFull BY DEF SaleInv
  <2>2. RowsBelieveTheBroker' BY <1>1, <2>1, RowStep DEF RowsBelieveTheBroker
  <2>3. NeverPricedZero' BY <1>1, OrdersFollow DEF RowInv
  <2> QED BY <1>1, <2>2, <2>3, SnapshotStep DEF RowInv
<1>2. CASE UNCHANGED vars
  BY <1>2 DEF vars, dbVars, orderVars, brokerVars, localVars, RowInv, RowsBelieveTheBroker,
        Accounted, NeverPricedZero, PolledIsTrue, PolledFrom, ViewIsTrue
<1> QED BY <1>1, <1>2

LEMMA RowInvHolds == Spec => [](IndInv /\ SaleInv /\ RowInv)
<1>1. Init => RowInv
  <2> SUFFICES ASSUME Init PROVE RowInv OBVIOUS
  <2>1. pc = "down" /\ book = NoBook /\ row = [t \in Tag |-> NoRow] BY DEF Init
  <2>2. RowsBelieveTheBroker BY <2>1 DEF RowsBelieveTheBroker, Accounted, NoRow
  <2>3. NeverPricedZero BY <2>1 DEF NeverPricedZero, NoBook
  <2> QED BY <2>1, <2>2, <2>3 DEF RowInv, PolledIsTrue, ViewIsTrue
<1>2. IndInv /\ IndInv' /\ SaleInv /\ RowInv /\ [Next]_vars => RowInv'
  BY RowInvStep
<1> QED BY <1>1, <1>2, SaleInvHolds, PTL DEF Spec

\* No row claims more than an order of its tag did: what a poll, a push or
\* reconciliation writes is what one order did, whichever of them came late.
THEOREM RowsAreTrue == Spec => []RowsBelieveTheBroker
<1>1. RowInv => RowsBelieveTheBroker BY DEF RowInv
<1> QED BY <1>1, RowInvHolds, PTL

\* The row of one order only advances, whoever writes it and in whatever order.
THEOREM RowsAdvance == Spec => RowsOnlyAdvance
<1>1. IndInv /\ IndInv' /\ SaleInv /\ RowInv /\ [Next]_vars =>
        [\A t \in Tag : row'[t].copies = row[t].copies /\ row'[t].acked = row[t].acked =>
            Advances(row[t], row'[t])]_vars
  BY RowStep DEF SaleInv
<1> QED BY <1>1, RowInvHolds, PTL DEF Spec, RowsOnlyAdvance
================================================================================
