-------------------------------- MODULE Strategy1 --------------------------------
(***************************************************************************)
(* One instance from startup to the end of the day: the StrategyRunner that   *)
(* serializes its hooks and freezes it when one raises, recover(), the        *)
(* PositionMonitor, and the process around them, which may die at any step    *)
(* and is started again through reconciliation.                                *)
(***************************************************************************)
EXTENDS EntryLogic, ExitLogic, ReconciliationEngine

CONSTANTS
    Premiums,         \* combined premiums the market may show
    Target, Stoploss  \* the levels stored on the position at entry

ASSUME LevelsAssumption == Premiums \subseteq Nat /\ Target \in Nat /\ Stoploss \in Nat

--------------------------------------------------------------------------------
(* Startup *)

\* DependencyContainer.start(): reconciliation first, then the runners.  Without
\* "slow" the broker has settled every order before the process is back.
start ==
    /\ pc = "down"
    /\ "slow" \in Env \/ BrokerIdle
    /\ pc' = "r_fetch"
    /\ runner' = "CREATED" /\ monitor' = FALSE /\ entryDue' = FALSE
    /\ UNCHANGED <<dbVars, brokerVars, localVars, worldVars>>

\* Slip: recovery does not resume the watch over an OPEN position.
recover_settled_unwatched ==
    /\ pc = "s_recover"
    /\ posState \in {"IDLE", "CLOSED", "ERROR", "OPEN"}
    /\ hookReturns(FALSE)
    /\ UNCHANGED <<dbVars, brokerVars, worldVars>>

\* Strategy1.recover() on a position that needs no more than a look: nothing yet,
\* CLOSED, ERROR, or OPEN, which the monitor attaches to.
recover_settled ==
    /\ pc = "s_recover"
    /\ posState \in {"IDLE", "CLOSED", "ERROR", "OPEN"}
    /\ hookReturns(posState = "OPEN")
    /\ UNCHANGED <<dbVars, brokerVars, worldVars>>

\* Slips: the recovered exit forgets why it was begun; it is not recovered at all.
recover_exit_pending_as_manual ==
    /\ pc = "s_recover" /\ posState = "EXIT_PENDING"
    /\ reason' = "MANUAL"
    /\ pc' = "x_prepare"
    /\ UNCHANGED <<dbVars, brokerVars, leg, polled, seen, outcome, todo, view,
                   runnerVars, worldVars>>

recover_exit_pending_never ==
    /\ pc = "s_recover" /\ posState = "EXIT_PENDING"
    /\ hookReturns(FALSE)
    /\ UNCHANGED <<dbVars, brokerVars, worldVars>>

\* EXIT_PENDING: exit() again, with the reason read from the audit trail.
recover_exit_pending ==
    /\ pc = "s_recover" /\ posState = "EXIT_PENDING"
    /\ reason' = IF trigger = "none" THEN "MANUAL" ELSE trigger
    /\ pc' = "x_prepare"
    /\ UNCHANGED <<dbVars, brokerVars, leg, polled, seen, outcome, todo, view,
                   runnerVars, worldVars>>

\* ENTRY_PENDING cannot be resumed: _mark_position_error_and_freeze.
recover_entry_pending ==
    /\ pc = "s_recover" /\ posState = "ENTRY_PENDING"
    /\ posState' = "ERROR" /\ inst' = "FROZEN"
    /\ hookReturns(FALSE)
    /\ UNCHANGED <<trigger, exitReason, tradeVars, orderVars, breaks, brokerVars, worldVars>>

--------------------------------------------------------------------------------
(* Monitoring *)

\* PositionMonitor.attach() after ENTERED.
attach ==
    /\ pc = "e_attach"
    /\ hookReturns(posState = "OPEN")
    /\ UNCHANGED <<dbVars, brokerVars, worldVars>>

\* One tick, poll cycle or cutoff trigger that decides to exit.  A decision not to
\* exit changes nothing.
trigger_exit ==
    /\ pc = "idle" /\ runner = "RUNNING" /\ monitor
    /\ \E premium \in Premiums \cup {NoPremium} :
          LET why == evaluate_exit(clock = "cutoff", halted, premium, Target, Stoploss) IN
          why # "none" /\ reason' = why
    /\ pc' = "x_prepare"
    /\ UNCHANGED <<dbVars, brokerVars, leg, polled, seen, outcome, todo, view,
                   runnerVars, worldVars>>

--------------------------------------------------------------------------------
(* Failures *)

\* A hook raises: a transaction fails, or the broker answers with an error entry
\* and exit do not handle.  finalize_* and record_break contain their own.
hook_raises ==
    /\ pc \in (EntryStep \cup ExitStep \cup {"s_recover"})
                \ {"e_final", "e_orphan", "e_break", "x_final", "x_diverge", "x_break"}
    /\ faults < MaxFaults /\ faults' = faults + 1
    /\ hookRaises({"FROZEN", inst})
    /\ monitor' = FALSE
    /\ UNCHANGED <<positionVars, tradeVars, orderVars, breaks, brokerVars, entryDue,
                   clock, halted, crashes>>

\* A monitor cycle raises before it has decided (is_halted reads the database).
monitor_raises ==
    /\ pc = "idle" /\ runner = "RUNNING" /\ monitor
    /\ faults < MaxFaults /\ faults' = faults + 1
    /\ hookRaises({"FROZEN", inst})
    /\ UNCHANGED <<positionVars, tradeVars, orderVars, breaks, brokerVars, monitor, entryDue,
                   clock, halted, crashes>>

\* The process dies, in the middle of anything; a graceful stop() looks the same
\* once the hook in progress has returned.
crash ==
    /\ pc # "down"
    /\ crashes < MaxCrashes /\ crashes' = crashes + 1
    /\ pc' = "down"
    /\ runner' = "CREATED" /\ monitor' = FALSE /\ entryDue' = FALSE
    /\ dropLocals
    /\ UNCHANGED <<dbVars, brokerVars, clock, halted, faults>>

--------------------------------------------------------------------------------
(* The world *)

time_passes ==
    /\ clock # "cutoff"
    /\ clock' = IF clock = "pre" THEN "open" ELSE "cutoff"
    /\ UNCHANGED <<dbVars, brokerVars, pc, localVars, runnerVars, halted, crashes, faults>>

\* KillSwitch.engage, for the instance, its account or everyone.
engage_kill_switch ==
    /\ "halt" \in Env
    /\ ~halted /\ halted' = TRUE
    /\ UNCHANGED <<dbVars, brokerVars, pc, localVars, runnerVars, clock, crashes, faults>>

disengage_kill_switch ==
    /\ halted /\ halted' = FALSE
    /\ UNCHANGED <<dbVars, brokerVars, pc, localVars, runnerVars, clock, crashes, faults>>

\* instance_admin unfreeze: an operator clears the row; the runner is unaffected.
unfreeze ==
    /\ "unfreeze" \in Env
    /\ inst = "FROZEN" /\ inst' = "ACTIVE"
    /\ UNCHANGED <<positionVars, tradeVars, orderVars, breaks, brokerVars, pc, localVars,
                   runnerVars, worldVars>>

Hooks ==
    \/ start \/ ReconcileNext
    \/ recover_settled \/ recover_exit_pending \/ recover_entry_pending
    \/ EntryNext \/ ExitNext \/ attach \/ trigger_exit

World ==
    \/ BrokerMoves \/ (\E t \in Tag : process(t))
    \/ time_passes \/ engage_kill_switch \/ disengage_kill_switch \/ unfreeze
    \/ hook_raises \/ monitor_raises \/ crash

Next == Hooks \/ World

Spec == Init /\ [][Next]_vars
================================================================================
