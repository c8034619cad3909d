----------------------------- MODULE StraddleState -----------------------------
(***************************************************************************)
(* The state of one Strategy-1 instance over one trading day: a short       *)
(* straddle whose call and put legs are sold at the entry time and bought   *)
(* back at a stop-loss, a target, a halt or the cutoff.                      *)
(*                                                                         *)
(* The state has three parts that fail independently: the rows PostgreSQL   *)
(* has committed, the orders in the broker's book, and the memory of the    *)
(* platform process, which a crash erases.  One transaction, or one call of  *)
(* the broker, is one step; a crash may fall between any two of them.        *)
(***************************************************************************)
EXTENDS Integers, Sequences, FiniteSets

CONSTANTS
    Qty,          \* units one leg trades (lots * lot_size); 2 allows partial fills
    Env,          \* which hard behaviours of the outside world are let happen
    MaxCrashes,   \* how many times the process may die or be stopped
    MaxFaults     \* how many database or authentication errors may hit a hook

(***************************************************************************)
(* "slow"       an order may still be working when the process restarts     *)
(* "partial"    an order may fill in part and be cancelled afterwards       *)
(* "noprice"    a complete order may be reported before its average price   *)
(* "push"       the order-update websocket is connected                     *)
(* "squareoff"  the broker may flatten a leg on its own (RMS square-off)     *)
(* "badunwind"  the buy-back of a half-entered straddle may fail            *)
(* "halt"       the kill switch may be engaged and disengaged               *)
(* "unfreeze"   an operator may set a FROZEN instance ACTIVE again           *)
(* "reset"      the connection may be reset after an order was sent          *)
(***************************************************************************)
Hardships == {"slow", "partial", "noprice", "push", "squareoff", "badunwind",
              "halt", "unfreeze", "reset"}

ASSUME ConstantsAssumption ==
    /\ Qty \in Nat \ {0}
    /\ Env \subseteq Hardships
    /\ MaxCrashes \in Nat
    /\ MaxFaults \in Nat

VARIABLES
    \* rows committed to the database
    posState,     \* positions.state of today's row; "IDLE" while there is no row
    trigger,      \* the reason in the OPEN -> EXIT_PENDING audit row
    exitReason,   \* positions.exit_reason
    tradeStatus,  \* trades.status, per leg; "NONE" while there is no row
    entryPrice,   \* trades.entry_price, per leg
    exitPrice,    \* trades.exit_price, per leg
    pnl,          \* the legs whose trades.realized_pnl is set
    intent,       \* order_intents.status, per tag; "NONE" while there is no row
    started,      \* the tags whose intent has broker_call_started_at
    row,          \* the newest orders row of each tag
    breaks,       \* the types of the reconciliation_breaks rows
    inst,         \* strategy_instances.status
    \* the broker (external)
    book,         \* the orders accepted under each tag, oldest first
    squared,      \* the legs the broker flattened on its own
    \* the memory of the process
    pc,           \* the next step of the hook, or of startup, being run
    leg,          \* the leg being placed or closed
    polled,       \* the snapshot the last poll of get_order returned
    seen,         \* the orders row as the poll path loaded it
    outcome,      \* the outcome of each leg in this entry or exit
    reason,       \* the reason exit() was called with
    todo,         \* reconciliation: the in-doubt intents not yet examined
    view,         \* reconciliation: the orderbook fetched up front
    runner,       \* StrategyRunner status
    monitor,      \* PositionMonitor is active
    entryDue,     \* the entry trigger has neither fired nor been skipped
    \* the world
    clock,        \* "pre" entry time, "open", or past the hard "cutoff"
    halted,       \* a risk flag applies to the instance
    crashes, faults

positionVars == <<posState, trigger, exitReason>>
tradeVars == <<tradeStatus, entryPrice, exitPrice, pnl>>
orderVars == <<intent, started, row>>
flagVars == <<breaks, inst>>
dbVars == <<positionVars, tradeVars, orderVars, flagVars>>
brokerVars == <<book, squared>>
localVars == <<leg, polled, seen, outcome, reason, todo, view>>
runnerVars == <<runner, monitor, entryDue>>
worldVars == <<clock, halted, crashes, faults>>
vars == <<dbVars, brokerVars, pc, localVars, runnerVars, worldVars>>

--------------------------------------------------------------------------------
(* The values rows and orders take. *)

Leg == {"CE", "PE"}

other(l) == IF l = "CE" THEN "PE" ELSE "CE"

\* A tag names an action of the day: E sells a leg, U buys it back after half an
\* entry, X closes it.  Instance and date, the rest of the tag, are fixed here.
Tag == {"E", "U", "X"} \X Leg

E(l) == <<"E", l>>
X(l) == <<"X", l>>
U == <<"U", "CE">>

IntentStatus == {"NONE", "PENDING", "SUBMITTED_UNCONFIRMED", "PLACED", "CONFIRMED", "FAILED"}

InDoubt == {"PENDING", "SUBMITTED_UNCONFIRMED", "PLACED"}

TradeStatus == {"NONE", "PENDING", "OPEN", "CLOSED", "UNWOUND", "ERROR"}

BreakType == {"AMBIGUOUS_ACK", "PARTIAL_ENTRY", "ORPHAN_FILL", "BROKER_FLAT_DB_OPEN",
              "QUANTITY_MISMATCH", "OTHER"}

ExitReason == {"TARGET", "STOPLOSS", "TIMEOUT", "KILL_SWITCH", "MANUAL", "ERROR"}

\* A price is absent, zero (what "or Decimal(0)" makes of an absent one) or real.
Price == {"none", "zero", "real"}

OrderStatus == {"OPEN", "COMPLETE", "REJECTED", "CANCELLED"}

Terminal == {"COMPLETE", "REJECTED", "CANCELLED"}

\* What get_order and get_orders report of an order.
Order == [status : OrderStatus, filled : 0..Qty, price : Price]

NoOrder == [status |-> "NONE", filled |-> 0, price |-> "none"]

\* acked: broker_order_id is set.  copies: how many rows carry the tag, for
\* get_by_broker_tag (scalar_one_or_none) raises when it finds two.
Row == [status : OrderStatus \cup {"NONE"}, filled : 0..Qty, price : Price,
        acked : BOOLEAN, copies : Nat]

NoRow == [status |-> "NONE", filled |-> 0, price |-> "none", acked |-> FALSE, copies |-> 0]

\* create() followed by mark_acknowledged(), and by record_rejection().
acknowledged(r) ==
    [status |-> "OPEN", filled |-> 0, price |-> "none", acked |-> TRUE, copies |-> r.copies + 1]

rejectedUnsent(r) ==
    [status |-> "REJECTED", filled |-> 0, price |-> "none", acked |-> FALSE, copies |-> r.copies + 1]

Outcome == {"none", "FILLED", "CLOSED", "FAILED", "AMBIGUOUS"}

EntryStep == {"e_create", "e_mark", "e_send", "e_reject", "e_unsent", "e_ack", "e_poll",
              "e_load", "e_apply", "e_read", "e_final", "e_orphan", "e_attach",
              "u_mark", "u_send", "u_poll", "u_record", "e_break", "e_error"}

ExitStep == {"x_prepare", "x_leg", "x_find", "x_adopt", "x_mark", "x_send", "x_reject",
             "x_unsent", "x_ack", "x_poll", "x_load", "x_apply", "x_record",
             "x_final", "x_diverge", "x_break", "x_error"}

StartStep == {"r_fetch", "r_intents", "r_orphans", "r_position", "s_recover"}

Step == {"down", "idle"} \cup EntryStep \cup ExitStep \cup StartStep

PositionOK ==
    /\ posState \in {"IDLE", "ENTRY_PENDING", "OPEN", "EXIT_PENDING", "CLOSED", "ERROR"}
    /\ trigger \in ExitReason \cup {"none"}
    /\ exitReason \in ExitReason \cup {"none"}

TradesOK ==
    /\ tradeStatus \in [Leg -> TradeStatus]
    /\ entryPrice \in [Leg -> Price]
    /\ exitPrice \in [Leg -> Price]
    /\ pnl \in SUBSET Leg

OrdersOK ==
    /\ intent \in [Tag -> IntentStatus]
    /\ started \in SUBSET Tag
    /\ row \in [Tag -> Row]

FlagsOK == breaks \in SUBSET BreakType /\ inst \in {"ACTIVE", "FROZEN"}

BrokerOK == book \in [Tag -> Seq(Order)] /\ squared \in SUBSET Leg

LocalsOK ==
    /\ leg \in Leg
    /\ polled \in Order \cup {NoOrder}
    /\ seen \in Row
    /\ outcome \in [Leg -> Outcome]
    /\ reason \in ExitReason \cup {"none"}
    /\ todo \in SUBSET Tag
    /\ view \in [Tag -> Seq(Order)]

RunnerOK ==
    /\ runner \in {"CREATED", "RUNNING", "FROZEN"}
    /\ monitor \in BOOLEAN
    /\ entryDue \in BOOLEAN

WorldOK ==
    /\ clock \in {"pre", "open", "cutoff"}
    /\ halted \in BOOLEAN
    /\ crashes \in 0..MaxCrashes
    /\ faults \in 0..MaxFaults

\* Every variable has a value of its type: a step of a hook that assigned a
\* status, a price or a label of another column would break it.
TypeOK ==
    /\ PositionOK /\ TradesOK /\ OrdersOK /\ FlagsOK /\ BrokerOK
    /\ pc \in Step
    /\ LocalsOK /\ RunnerOK /\ WorldOK

\* The values of the locals while no hook runs: nothing of a call outlives it.
NoBook == [t \in Tag |-> <<>>]

Init ==
    /\ posState = "IDLE" /\ trigger = "none" /\ exitReason = "none"
    /\ tradeStatus = [l \in Leg |-> "NONE"]
    /\ entryPrice = [l \in Leg |-> "none"]
    /\ exitPrice = [l \in Leg |-> "none"]
    /\ pnl = {}
    /\ intent = [t \in Tag |-> "NONE"]
    /\ started = {}
    /\ row = [t \in Tag |-> NoRow]
    /\ breaks = {} /\ inst = "ACTIVE"
    /\ book = NoBook /\ squared = {}
    /\ pc = "down"
    /\ leg = "CE" /\ polled = NoOrder /\ seen = NoRow
    /\ outcome = [l \in Leg |-> "none"] /\ reason = "none" /\ todo = {} /\ view = NoBook
    /\ runner = "CREATED" /\ monitor = FALSE /\ entryDue = FALSE
    /\ clock = "pre" /\ halted = FALSE /\ crashes = 0 /\ faults = 0

--------------------------------------------------------------------------------
(* Leaving a hook.  Its locals die with it. *)

dropLocals ==
    /\ leg' = "CE" /\ polled' = NoOrder /\ seen' = NoRow
    /\ outcome' = [l \in Leg |-> "none"] /\ reason' = "none"
    /\ todo' = {} /\ view' = NoBook

\* The hook returned.  If it was recover(), start() makes the runner RUNNING and
\* register() then skips an entry trigger whose time has already passed.
hookReturns(watching) ==
    /\ pc' = "idle"
    /\ runner' = "RUNNING"
    /\ monitor' = watching
    /\ entryDue' = IF runner = "CREATED" THEN clock = "pre" ELSE entryDue
    /\ dropLocals

\* _run_guarded: the hook raised.  The runner is FROZEN at once; _freeze_instance
\* persists it best effort, so the row may keep the status it had.
hookRaises(statuses) ==
    /\ pc' = "idle"
    /\ runner' = "FROZEN"
    /\ inst' \in statuses
    /\ dropLocals

\* A step of entry or exit that writes orders, trades and locals only.
keepsPosition == UNCHANGED <<positionVars, flagVars, squared, runnerVars, worldVars>>

--------------------------------------------------------------------------------
(* Writes that entry, exit, recovery and reconciliation share. *)

\* A break in its own transaction; a failure to write it is logged and swallowed.
recordBreak(type) ==
    \/ breaks' = breaks \cup {type} /\ UNCHANGED faults
    \/ faults < MaxFaults /\ faults' = faults + 1 /\ UNCHANGED breaks

\* The position goes to ERROR unless it is CLOSED or ERROR; the instance FROZEN.
Errored == IF posState \in {"CLOSED", "ERROR"} THEN posState ELSE "ERROR"

failToError ==
    /\ posState' = Errored
    /\ exitReason' = IF posState \in {"CLOSED", "ERROR"} THEN exitReason ELSE "ERROR"
    /\ inst' = "FROZEN"
    /\ UNCHANGED trigger
================================================================================
