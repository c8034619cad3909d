-------------------------------- MODULE RiskCore --------------------------------
(***************************************************************************)
(* The pre-trade checks of one account while its instances enter at the same  *)
(* time, operators set and clear control flags from other processes, and other  *)
(* positions of the account close.  Every check reads the database in a session   *)
(* of its own, so the world may change between any two of them.                    *)
(* Trading hours, connectivity and margin may fail at will.                          *)
(***************************************************************************)
EXTENDS Integers, FiniteSets

CONSTANTS
    Entrants,          \* instances whose entry trigger fires
    Target,            \* what a flag can be set on: Everything, Account, an entrant, others
    FlagType,          \* RiskFlagType
    MaxDailyEntries,   \* max_daily_entries_per_account
    LossLimit,         \* daily_loss_limit_by_account, or None
    Outcomes,          \* realized P&L a position may close with
    MaxOpen,           \* bound: positions opened earlier in the day
    MaxEngaged         \* bound: flags operators set

None == -1
Everything == "global"
Account == "account"

VARIABLES
    stage,       \* stage[i]: the check that instance i runs next, or its verdict
    seen,        \* seen[i]: total and latch that the loss check of i decided on
    loaded,      \* loaded[i]: the daily risk row as the persist of i loaded it
    since,       \* history: what has barred i ever since its validation began
    flags,       \* risk_control_flags: number of active rows per type and target
    engaged,     \* flags set so far
    row,         \* daily_risk_state of the account
    open,        \* other positions of the account still open
    closed,      \* other positions of the account that have closed
    realized     \* realized P&L over the positions of the account

vars == <<stage, seen, loaded, since, flags, engaged, row, open, closed, realized>>
world == <<flags, engaged, row, open, closed, realized>>

Flag == FlagType \X Target
Row == [exists : BOOLEAN, realized : Int, breached : BOOLEAN, version : Nat]
NoRow == [exists |-> FALSE, realized |-> 0, breached |-> FALSE, version |-> 0]
NotSeen == [total |-> 0, breached |-> FALSE]

Checks == {"strategy_state", "kill_switch", "emergency_stop", "daily_loss_limit",
           "persist_load", "persist_write", "max_daily_entries", "broker"}
Reason == Flag \cup ({"loss", "latch", "cap"} \X {Account})

TypeOK ==
    /\ stage \in [Entrants -> Checks \cup {"idle", "approved", "rejected", "entered"}]
    /\ seen \in [Entrants -> [total : Int, breached : BOOLEAN]]
    /\ loaded \in [Entrants -> Row]
    /\ since \in [Entrants -> SUBSET Reason]
    /\ flags \in [Flag -> 0..2]
    /\ engaged \in 0..MaxEngaged
    /\ row \in Row
    /\ open \in 0..MaxOpen /\ closed \in 0..MaxOpen
    /\ realized \in Int

\* Positions opened earlier in the day were validated then, which made the row.
Init ==
    /\ stage = [i \in Entrants |-> "idle"]
    /\ seen = [i \in Entrants |-> NotSeen]
    /\ loaded = [i \in Entrants |-> NoRow]
    /\ since = [i \in Entrants |-> {}]
    /\ flags = [f \in Flag |-> 0] /\ engaged = 0
    /\ open \in 0..MaxOpen /\ closed = 0 /\ realized = 0
    /\ row = [NoRow EXCEPT !.exists = LossLimit # None /\ open > 0]

--------------------------------------------------------------------------------
\* count_for_account_on_date: every position of the day counts, open or closed.
Positions == open + closed + Cardinality({i \in Entrants : stage[i] = "entered"})

\* Slip: flags on the account are taken for flags on its instances.
Relevant_unscoped(i) == {f \in Flag : flags[f] > 0 /\ f[2] \in {Everything, i}}
\* list_active_relevant_to
Relevant(i) == {f \in Flag : flags[f] > 0 /\ f[2] \in {Everything, Account, i}}

Crossed(total) == LossLimit # None /\ total <= -LossLimit

\* What should keep instance i out of the market now: the promise, not the code.
Standing(i) ==
    {f \in Flag : flags[f] > 0 /\ f[2] \notin Target \ {Everything, Account, i}}
        \cup {r \in {<<"loss", Account>>} : Crossed(realized)}
        \cup {r \in {<<"latch", Account>>} : row.breached}
        \cup {r \in {<<"cap", Account>>} : Positions >= MaxDailyEntries}

InProgress(i) == stage[i] \in Checks

\* Every step but the first of a validation: what no longer stands no longer bars.
Remember == since' = [i \in Entrants |-> IF InProgress(i) THEN since[i] \cap Standing(i)' ELSE since[i]]

Goes(i, to) == stage' = [stage EXCEPT ![i] = to]

\* A check that reads and decides: the next check, or fail-fast.
Decides(i, name, passes, next) ==
    /\ stage[i] = name
    /\ Goes(i, IF passes THEN next ELSE "rejected")
    /\ UNCHANGED <<seen, loaded, world>>
    /\ Remember

\* The trigger fires inside trading hours (outside them nothing follows).
Begin(i) ==
    /\ stage[i] = "idle"
    /\ Goes(i, "strategy_state")
    /\ UNCHANGED <<seen, loaded, world>>
    /\ since' = [since EXCEPT ![i] = Standing(i)]

FlagCheck(i, name, type, next) ==
    Decides(i, name, \A f \in Relevant(i) : f[1] # type, next)

FlagChecks(i) ==
    \/ FlagCheck(i, "strategy_state", "FREEZE", "kill_switch")
    \/ FlagCheck(i, "kill_switch", "KILL_SWITCH", "emergency_stop")
    \/ FlagCheck(i, "emergency_stop", "EMERGENCY_EXIT", "daily_loss_limit")

\* _check_strategy_state: the instance's row is gone or not ACTIVE.
NotActive(i) == Decides(i, "strategy_state", FALSE, "kill_switch")

\* _check_daily_loss_limit: the decision, from positions and the latch, read-only.
LossCheck(i) ==
    /\ stage[i] = "daily_loss_limit"
    /\ seen' = [seen EXCEPT ![i] = [total |-> realized, breached |-> row.breached]]
    /\ Goes(i, IF LossLimit = None THEN "max_daily_entries" ELSE "persist_load")
    /\ UNCHANGED <<loaded, world>>
    /\ Remember

LossVerdict(i) ==
    IF seen[i].breached \/ Crossed(seen[i].total) THEN "rejected" ELSE "max_daily_entries"

\* _persist_daily_risk: get_or_create.  Who creates the row commits it with the figures;
\* who loses the insert to another loads what that one committed.
PersistLoad(i) ==
    /\ stage[i] = "persist_load"
    /\ IF row.exists
       THEN /\ loaded' = [loaded EXCEPT ![i] = row]
            /\ Goes(i, "persist_write")
            /\ UNCHANGED row
       ELSE /\ row' = [exists |-> TRUE, realized |-> seen[i].total,
                       breached |-> Crossed(seen[i].total), version |-> 1]
            /\ Goes(i, LossVerdict(i))
            /\ UNCHANGED loaded
    /\ UNCHANGED <<seen, flags, engaged, open, closed, realized>>
    /\ Remember

\* Slip: the row is written as it was loaded, whatever happened since.
Persisted_last_wins(i) ==
    [row EXCEPT !.realized = seen[i].total,
                !.breached = loaded[i].breached \/ Crossed(seen[i].total), !.version = @ + 1]
\* What the persist of i writes over the row as it is now: nothing if nothing changed,
\* and nothing, without an error, if the row is no longer the one it loaded.
Persisted(i) ==
    LET latch == Crossed(seen[i].total) /\ ~loaded[i].breached
    IN  IF (loaded[i].realized = seen[i].total /\ ~latch) \/ row.version # loaded[i].version
        THEN row
        ELSE [row EXCEPT !.realized = seen[i].total, !.breached = @ \/ latch, !.version = @ + 1]

\* update_pnl, mark_breached and the commit; the verdict does not depend on them.
PersistWrite(i) ==
    /\ stage[i] = "persist_write"
    /\ row' = Persisted(i)
    /\ Goes(i, LossVerdict(i))
    /\ UNCHANGED <<seen, loaded, flags, engaged, open, closed, realized>>
    /\ Remember

\* The instance has no position today (its trigger fires once), so only the cap decides.
CapCheck(i) ==
    Decides(i, "max_daily_entries", Positions < MaxDailyEntries, "broker")

\* Connectivity and margin.
BrokerChecks(i) ==
    \/ Decides(i, "broker", TRUE, "approved")
    \/ Decides(i, "broker", FALSE, "approved")

\* The entry creates its position, a transaction after the verdict.
Enter(i) ==
    /\ stage[i] = "approved"
    /\ Goes(i, "entered")
    /\ UNCHANGED <<seen, loaded, world>>
    /\ Remember

--------------------------------------------------------------------------------
\* Another position of the account closes.
Close ==
    /\ open > 0
    /\ open' = open - 1 /\ closed' = closed + 1
    /\ \E p \in Outcomes : realized' = realized + p
    /\ UNCHANGED <<stage, seen, loaded, flags, engaged, row>>
    /\ Remember

\* KillSwitch.engage: a flag already active is left; two operators whose transactions
\* overlap both find none and both insert.
Engage(f) ==
    /\ engaged < MaxEngaged /\ flags[f] = 0
    /\ \E n \in 1..2 : n <= MaxEngaged - engaged
                         /\ flags' = [flags EXCEPT ![f] = n] /\ engaged' = engaged + n
    /\ UNCHANGED <<stage, seen, loaded, row, open, closed, realized>>
    /\ Remember

\* KillSwitch.disengage: every matching row.
Disengage(f) ==
    /\ flags[f] > 0
    /\ flags' = [flags EXCEPT ![f] = 0]
    /\ UNCHANGED <<stage, seen, loaded, engaged, row, open, closed, realized>>
    /\ Remember

Validates(i) ==
    Begin(i) \/ NotActive(i) \/ FlagChecks(i) \/ LossCheck(i) \/ PersistLoad(i) \/ PersistWrite(i)
        \/ CapCheck(i) \/ BrokerChecks(i) \/ Enter(i)

Operators == \E f \in Flag : Engage(f) \/ Disengage(f)

Next == Close \/ Operators \/ \E i \in Entrants : Validates(i)

Spec == Init /\ [][Next]_vars

--------------------------------------------------------------------------------
\* No entry is approved over a reason that stood during all of its validation: a flag of
\* any type on anything that covers the instance, a loss beyond the limit, a breach
\* latched earlier, a full day (RiskCore.validate_entry).
StandingReasonRejects == \A i \in Entrants : stage[i] = "approved" => since[i] = {}

\* Once the breach of the day is committed no other writer of the row undoes it, neither
\* one that computed its figures before the breach nor one that no longer sees a loss.
BreachIsSticky == [][row.breached => row'.breached]_vars

\* risk_core.py:141: "Maximum number of new positions that may be opened across the whole
\* account on one trading day".
EntryCapHolds == Positions <= MaxDailyEntries

================================================================================
