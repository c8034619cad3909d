------------------------------ MODULE Scheduling -------------------------------
(***************************************************************************)
(* The life of the process and the threads that share its runners: the main  *)
(* thread (Application, DependencyContainer), the loop of PlatformScheduler  *)
(* with a dispatch thread per due trigger, the heartbeat of                  *)
(* MonitoringScheduler and the thread of the market feed.  What a hook does  *)
(* is module Strategy1; here it takes the runner's lock, lasts, and returns  *)
(* or raises.  The row that _freeze_instance writes is Strategy1's inst.     *)
(*                                                                           *)
(* Instances are numbered in the order of app.yaml.  Both loops start after  *)
(* the last registration, so the list a pass copies is everyone, or no one   *)
(* once stop() has cleared it.  PlatformScheduler._lock is never held while  *)
(* another thread wants it: registration precedes the loop, the loop and     *)
(* stop() release it before they dispatch.                                   *)
(***************************************************************************)
EXTENDS Naturals, FiniteSets

CONSTANTS
    Instances,      \* how many instances app.yaml declares
    Trigger,        \* names of the triggers each strategy declares
    TriggerTime,    \* [Trigger -> time of day]
    FireOnStartup,  \* the triggers whose catch_up is FIRE_ON_STARTUP
    TradingDay,     \* the days on which the calendar trades
    MaxDay, MaxTime, MaxLives,   \* bounds: days, times of a day, processes
    Pushing,        \* the processes configured with a feed that pushes ticks
    MayFail         \* the steps of DependencyContainer.start that may raise

Runner == 1..Instances

\* No trigger is due at midnight, when both parts of the clock change.
ASSUME SchedulingAssumption ==
    /\ Instances \in Nat \ {0} /\ MaxDay \in Nat \ {0} /\ MaxTime \in Nat \ {0}
    /\ MaxLives \in Nat \ {0}
    /\ TriggerTime \in [Trigger -> 1..MaxTime]
    /\ FireOnStartup \subseteq Trigger /\ TradingDay \subseteq 1..MaxDay
    /\ Pushing \subseteq 1..MaxLives
    /\ Trigger \cap {"free", "main", "monitor", "feed"} = {}

VARIABLES
    main,         \* the next step of the main thread
    at,           \* the runner that step is about
    broker,       \* "closed", "session" or "updates" (order-update feed open)
    market,       \* the market feed's thread runs
    shutdown,     \* Application._shutdown_event
    status,       \* StrategyRunner._status
    lock,         \* the thread that holds StrategyRunner._lock
    registered,   \* PlatformScheduler._schedules: the first so many runners
    firedOn, skippedOn,   \* _RunnerSchedule: the last such day, 0 for none
    stopEvent,    \* PlatformScheduler._stop_event
    loop,         \* its thread: "off", "idle", "dated" or "dispatching"
    today,        \* the date that a pass, or a registration, has read
    due,          \* the dispatches of this pass that have not got the lock yet
    watched,      \* MonitoringScheduler._runners
    monitorStop,  \* its _stop_event
    beating,      \* its thread runs
    beat,         \* the runner it is at, 0 between heartbeats
    consumers,    \* TickRouter._consumers
    tick,         \* the consumer the feed's thread is at, 0 between ticks
    audience,     \* the consumers that existed when this tick arrived
    day, time,    \* the wall clock
    lives,        \* processes so far
    delivered     \* history: the SKIP triggers that have begun, and for which day

mainVars == <<main, at, broker, market, shutdown>>
loopVars == <<registered, firedOn, skippedOn, stopEvent, loop, today, due>>
monitorVars == <<watched, monitorStop, beating, beat>>
feedVars == <<consumers, tick, audience>>
worldVars == <<day, time, lives>>
vars == <<mainVars, status, lock, loopVars, monitorVars, feedVars, worldVars, delivered>>

Thread == {"main", "monitor", "feed"} \cup Trigger
Step == {"authenticate", "accounts", "reconcile", "updates", "market", "start", "recover",
         "register", "loops", "up", "stopLoop", "stopRunner", "close", "exited", "failed"}
Never == [r \in Runner |-> [t \in Trigger |-> 0]]

ThreadsOK ==
    /\ main \in Step /\ at \in Runner
    /\ broker \in {"closed", "session", "updates"} /\ market \in BOOLEAN
    /\ shutdown \in BOOLEAN
    /\ registered \in 0..Instances /\ watched \in 0..Instances /\ consumers \in 0..Instances
    /\ stopEvent \in BOOLEAN /\ monitorStop \in BOOLEAN
    /\ loop \in {"off", "idle", "dated", "dispatching"} /\ today \in 0..MaxDay
    /\ beating \in BOOLEAN /\ beat \in 0..Instances
    /\ tick \in 0..Instances /\ audience \in 0..Instances
    /\ day \in 1..MaxDay /\ time \in 0..MaxTime /\ lives \in 1..MaxLives

RunnersOK ==
    /\ status \in [Runner -> {"CREATED", "RUNNING", "STOPPED", "FROZEN"}]
    /\ lock \in [Runner -> Thread \cup {"free"}]

TriggersOK ==
    /\ firedOn \in [Runner -> [Trigger -> 0..MaxDay]]
    /\ skippedOn \in [Runner -> [Trigger -> 0..MaxDay]]
    /\ due \in SUBSET (Runner \X Trigger)
    /\ delivered \in SUBSET (Runner \X (Trigger \ FireOnStartup) \X (1..MaxDay))

TypeOK == ThreadsOK /\ RunnersOK /\ TriggersOK

Init ==
    /\ main = "authenticate" /\ at = 1 /\ broker = "closed"
    /\ market = FALSE /\ shutdown = FALSE
    /\ status = [r \in Runner |-> "CREATED"] /\ lock = [r \in Runner |-> "free"]
    /\ registered = 0 /\ firedOn = Never /\ skippedOn = Never
    /\ stopEvent = FALSE /\ loop = "off" /\ today = 0 /\ due = {}
    /\ watched = 0 /\ monitorStop = FALSE /\ beating = FALSE /\ beat = 0
    /\ consumers = 0 /\ tick = 0 /\ audience = 0
    /\ day = 1 /\ time = 0 /\ lives = 1 /\ delivered = {}

--------------------------------------------------------------------------------
(* StrategyRunner: every call waits for the lock, then looks at the status.  *)

\* The lock is free and the runner accepts hooks: the hook begins.
HookBegins(r, thread) ==
    /\ lock[r] = "free" /\ status[r] = "RUNNING"
    /\ lock' = [lock EXCEPT ![r] = thread]

\* The lock is free and the runner takes no hooks: the dispatch is dropped.
HookDropped(r) == lock[r] = "free" /\ status[r] # "RUNNING" /\ UNCHANGED lock

\* Slip: the lock is taken and released without "with", so a raise keeps it.
HookEnds_keeps_lock(r, thread) ==
    /\ lock[r] = thread
    /\ \/ lock' = [lock EXCEPT ![r] = "free"] /\ UNCHANGED status
       \/ status' = [status EXCEPT ![r] = "FROZEN"] /\ UNCHANGED lock

\* _run_guarded: a hook that raises freezes the runner, and the lock is released.
HookEnds(r, thread) ==
    /\ lock[r] = thread
    /\ lock' = [lock EXCEPT ![r] = "free"]
    /\ status' \in {status, [status EXCEPT ![r] = "FROZEN"]}

--------------------------------------------------------------------------------
(* The main thread: Application.run over DependencyContainer.start and stop. *)

Goes(from, to) == main = from /\ main' = to

Authenticate ==
    /\ Goes("authenticate", "accounts") /\ broker' = "session"
    /\ UNCHANGED <<at, market, shutdown, status, lock, loopVars, monitorVars, feedVars,
                   worldVars, delivered>>

\* Accounts, runners (constructed, not started) and reconciliation keep their
\* state in the database; all they do here is come before the runners start.
Prepare ==
    /\ Goes("accounts", "reconcile") \/ Goes("reconcile", "updates")
    /\ UNCHANGED <<at, broker, market, shutdown, status, lock, loopVars, monitorVars,
                   feedVars, worldVars, delivered>>

\* The order-update feed may be unavailable; polling takes over.
ConnectUpdates ==
    /\ Goes("updates", "market") /\ broker' \in {"session", "updates"}
    /\ UNCHANGED <<at, market, shutdown, status, lock, loopVars, monitorVars, feedVars,
                   worldVars, delivered>>

StartMarket ==
    /\ Goes("market", "start") /\ market' = TRUE
    /\ UNCHANGED <<at, broker, shutdown, status, lock, loopVars, monitorVars, feedVars,
                   worldVars, delivered>>

\* PlatformScheduler.register starts the runner: recover() runs under its lock.
StartRunner ==
    /\ Goes("start", "recover") /\ lock[at] = "free"
    /\ lock' = [lock EXCEPT ![at] = "main"]
    /\ UNCHANGED <<at, broker, market, shutdown, status, loopVars, monitorVars, feedVars,
                   worldVars, delivered>>

\* recover() returned or raised; the seeding of missed triggers reads the date.
Recovered ==
    /\ Goes("recover", "register")
    /\ lock' = [lock EXCEPT ![at] = "free"]
    /\ status' \in {[status EXCEPT ![at] = s] : s \in {"RUNNING", "FROZEN"}}
    /\ today' = day
    /\ UNCHANGED <<at, broker, market, shutdown, registered, firedOn, skippedOn, stopEvent,
                   loop, due, monitorVars, feedVars, worldVars, delivered>>

\* Slip: "not yet due" includes the exact time.
MissedTriggers_strictly ==
    IF today \in TradingDay THEN {t \in Trigger \ FireOnStartup : time > TriggerTime[t]} ELSE {}

\* _seed_missed_triggers reads the time of day after the date.
MissedTriggers ==
    IF today \in TradingDay THEN {t \in Trigger \ FireOnStartup : time >= TriggerTime[t]} ELSE {}

Register ==
    /\ main = "register"
    /\ skippedOn' = [skippedOn EXCEPT ![at] =
                        [t \in Trigger |-> IF t \in MissedTriggers THEN today ELSE @[t]]]
    /\ registered' = at /\ watched' = at /\ consumers' = at /\ today' = 0
    /\ IF at = Instances THEN main' = "loops" /\ at' = 1 ELSE main' = "start" /\ at' = at + 1
    /\ UNCHANGED <<broker, market, shutdown, status, lock, firedOn, stopEvent, loop, due,
                   monitorStop, beating, beat, tick, audience, worldVars, delivered>>

StartLoops ==
    /\ Goes("loops", "up")
    /\ loop' = "idle" /\ stopEvent' = FALSE /\ beating' = TRUE /\ monitorStop' = FALSE
    /\ UNCHANGED <<at, broker, market, shutdown, status, lock, registered, firedOn,
                   skippedOn, today, due, watched, beat, feedVars, worldVars, delivered>>

\* A step of start() raises.  Application.start calls DependencyContainer.stop,
\* which returns at once because _started is not set, and raises again.
\* An instance that app.yaml names twice is refused at its second registration.
StartFails ==
    /\ main \in MayFail /\ (main = "start" => at > 1)
    /\ main' = "failed"
    /\ UNCHANGED <<at, broker, market, shutdown, status, lock, loopVars, monitorVars,
                   feedVars, worldVars, delivered>>

\* wait_for_shutdown returns: a signal, also one that came during start().
StopMonitor ==
    /\ Goes("up", "stopLoop") /\ shutdown
    /\ monitorStop' = TRUE
    /\ UNCHANGED <<at, broker, market, shutdown, status, lock, loopVars, watched, beating, beat,
                   feedVars, worldVars, delivered>>

\* A join returns because the thread has ended or because its timeout has passed,
\* so the main thread goes on at any time: past the heartbeat, whose list it
\* clears, and past the loop, which has been told to stop.
StopLoop ==
    /\ Goes("stopLoop", "stopRunner")
    /\ watched' = 0 /\ stopEvent' = TRUE
    /\ UNCHANGED <<at, broker, market, shutdown, status, lock, registered, firedOn, skippedOn,
                   loop, today, due, monitorStop, beating, beat, feedVars, worldVars, delivered>>

\* Slip: stop() without the runner's lock.
StopRunner_at_once ==
    /\ main = "stopRunner"
    /\ status' = [status EXCEPT ![at] = IF @ = "FROZEN" THEN @ ELSE "STOPPED"]
    /\ IF at = Instances
       THEN main' = "close" /\ at' = 1 /\ registered' = 0
       ELSE at' = at + 1 /\ UNCHANGED <<main, registered>>
    /\ UNCHANGED <<broker, market, shutdown, lock, firedOn, skippedOn, stopEvent, loop,
                   today, due, monitorVars, feedVars, worldVars, delivered>>

\* StrategyRunner.stop waits for the hook that holds the lock; on_shutdown may
\* raise without effect, and a frozen runner stays frozen.
StopRunner ==
    /\ main = "stopRunner" /\ lock[at] = "free"
    /\ status' = [status EXCEPT ![at] = IF @ = "FROZEN" THEN @ ELSE "STOPPED"]
    /\ IF at = Instances
       THEN main' = "close" /\ at' = 1 /\ registered' = 0
       ELSE at' = at + 1 /\ UNCHANGED <<main, registered>>
    /\ UNCHANGED <<broker, market, shutdown, lock, firedOn, skippedOn, stopEvent, loop,
                   today, due, monitorVars, feedVars, worldVars, delivered>>

\* The market feed, the broker and the database pool; each failure is logged.
Close ==
    /\ Goes("close", "exited") /\ market' = FALSE /\ broker' = "closed"
    /\ UNCHANGED <<at, shutdown, status, lock, loopVars, monitorVars, feedVars, worldVars,
                   delivered>>

Main ==
    \/ Authenticate \/ Prepare \/ ConnectUpdates \/ StartMarket
    \/ StartRunner \/ Recovered \/ Register \/ StartLoops
    \/ StopMonitor \/ StopLoop \/ StopRunner \/ Close

--------------------------------------------------------------------------------
(* PlatformScheduler: the loop and the threads it dispatches on.             *)

LoopEnds ==
    /\ loop = "idle" /\ stopEvent /\ loop' = "off"
    /\ UNCHANGED <<mainVars, status, lock, registered, firedOn, skippedOn, stopEvent, today,
                   due, monitorVars, feedVars, worldVars, delivered>>

\* _tick reads the date, and then the time of day.
ReadDate ==
    /\ loop = "idle" /\ ~stopEvent
    /\ loop' = "dated" /\ today' = day
    /\ UNCHANGED <<mainVars, status, lock, registered, firedOn, skippedOn, stopEvent, due,
                   monitorVars, feedVars, worldVars, delivered>>

\* Slip: the calendar asked at registration only.
IsDue_holidays(r, t) ==
    /\ r <= registered /\ status[r] = "RUNNING"
    /\ firedOn[r][t] # today /\ skippedOn[r][t] # today
    /\ time >= TriggerTime[t]

\* Slip: a runner that is not RUNNING ends the search instead of being passed over.
IsDue_breaks(r, t) ==
    /\ r <= registered /\ \A q \in 1..r : status[q] = "RUNNING"
    /\ today \in TradingDay
    /\ firedOn[r][t] # today /\ skippedOn[r][t] # today
    /\ time >= TriggerTime[t]

IsDue(r, t) ==
    /\ r <= registered /\ status[r] = "RUNNING"
    /\ today \in TradingDay
    /\ firedOn[r][t] # today /\ skippedOn[r][t] # today
    /\ time >= TriggerTime[t]

\* Everything due is marked as fired before any of it is dispatched.
FindDue ==
    /\ loop = "dated" /\ loop' = "dispatching"
    /\ due' = {d \in Runner \X Trigger : IsDue(d[1], d[2])}
    /\ firedOn' = [r \in Runner |-> [t \in Trigger |->
                      IF IsDue(r, t) THEN today ELSE firedOn[r][t]]]
    /\ UNCHANGED <<mainVars, status, lock, registered, skippedOn, stopEvent, today,
                   monitorVars, feedVars, worldVars, delivered>>

\* A dispatch thread gets the lock of its runner.
DispatchTrigger(r, t) ==
    /\ <<r, t>> \in due /\ due' = due \ {<<r, t>>}
    /\ \/ HookBegins(r, t) /\ delivered' = delivered \cup {<<r, u, today>> : u \in {t} \ FireOnStartup}
       \/ HookDropped(r) /\ UNCHANGED delivered
    /\ UNCHANGED <<mainVars, status, registered, firedOn, skippedOn, stopEvent, loop, today,
                   monitorVars, feedVars, worldVars>>

TriggerHookEnds(r, t) ==
    /\ HookEnds(r, t)
    /\ UNCHANGED <<mainVars, loopVars, monitorVars, feedVars, worldVars, delivered>>

\* All dispatch threads have been joined: the pass is over.
PassEnds ==
    /\ loop = "dispatching" /\ due = {} /\ \A r \in Runner : lock[r] \notin Trigger
    /\ loop' = "idle" /\ today' = 0
    /\ UNCHANGED <<mainVars, status, lock, registered, firedOn, skippedOn, stopEvent, due,
                   monitorVars, feedVars, worldVars, delivered>>

Loop == LoopEnds \/ ReadDate \/ FindDue \/ PassEnds

--------------------------------------------------------------------------------
(* MonitoringScheduler and the market feed: one runner after the other.      *)

BeatEnds ==
    /\ beating /\ beat = 0 /\ monitorStop /\ beating' = FALSE
    /\ UNCHANGED <<mainVars, status, lock, loopVars, watched, monitorStop, beat, feedVars,
                   worldVars, delivered>>

BeatStarts ==
    /\ beating /\ beat = 0 /\ ~monitorStop /\ watched > 0 /\ beat' = 1
    /\ UNCHANGED <<mainVars, status, lock, loopVars, watched, monitorStop, beating,
                   feedVars, worldVars, delivered>>

\* Slip: the heartbeat runs one past the end of its list.
After_past_end(r) == IF r > Instances THEN 0 ELSE r + 1

After(r) == IF r = Instances THEN 0 ELSE r + 1

\* A runner that is not RUNNING is passed over without waiting for its lock.
MonitorDispatch(r) ==
    /\ beat = r
    /\ \/ lock[r] # "monitor" /\ HookBegins(r, "monitor") /\ UNCHANGED beat
       \/ /\ lock[r] # "monitor" /\ status[r] # "RUNNING" /\ UNCHANGED lock
          /\ beat' = After(r)
    /\ UNCHANGED <<mainVars, status, loopVars, watched, monitorStop, beating, feedVars,
                   worldVars, delivered>>

MonitorHookEnds(r) ==
    /\ HookEnds(r, "monitor") /\ beat' = After(r)
    /\ UNCHANGED <<mainVars, loopVars, watched, monitorStop, beating, feedVars, worldVars,
                   delivered>>

TickArrives ==
    /\ market /\ lives \in Pushing /\ tick = 0 /\ consumers > 0
    /\ tick' = 1 /\ audience' = consumers
    /\ UNCHANGED <<mainVars, status, lock, loopVars, monitorVars, consumers, worldVars,
                   delivered>>

\* TickRouter.broadcast goes through the consumers it copied.
NextConsumer(r) ==
    IF r < audience THEN tick' = r + 1 /\ UNCHANGED audience ELSE tick' = 0 /\ audience' = 0

FeedDispatch(r) ==
    /\ tick = r /\ lock[r] # "feed"
    /\ \/ HookBegins(r, "feed") /\ UNCHANGED <<tick, audience>>
       \/ HookDropped(r) /\ NextConsumer(r)
    /\ UNCHANGED <<mainVars, status, loopVars, monitorVars, consumers, worldVars,
                   delivered>>

FeedHookEnds(r) ==
    /\ HookEnds(r, "feed") /\ NextConsumer(r)
    /\ UNCHANGED <<mainVars, loopVars, monitorVars, consumers, worldVars, delivered>>

--------------------------------------------------------------------------------
(* The world.                                                                *)

ClockTicks ==
    /\ IF time < MaxTime
       THEN time' = time + 1 /\ day' = day
       ELSE day < MaxDay /\ day' = day + 1 /\ time' = 0
    /\ UNCHANGED <<mainVars, status, lock, loopVars, monitorVars, feedVars, lives,
                   delivered>>

\* SIGINT or SIGTERM: the handler only sets the event.
Signal ==
    /\ ~shutdown /\ main \notin {"exited", "failed"} /\ shutdown' = TRUE
    /\ UNCHANGED <<main, at, broker, market, status, lock, loopVars, monitorVars, feedVars,
                   worldVars, delivered>>

\* The process is gone, after its exit or in the middle of anything, and the
\* service manager starts another: nothing of the memory of the last is left.
Restart ==
    /\ lives < MaxLives /\ lives' = lives + 1
    /\ main' = "authenticate" /\ at' = 1 /\ broker' = "closed"
    /\ market' = FALSE /\ shutdown' = FALSE
    /\ status' = [r \in Runner |-> "CREATED"] /\ lock' = [r \in Runner |-> "free"]
    /\ registered' = 0 /\ firedOn' = Never /\ skippedOn' = Never
    /\ stopEvent' = FALSE /\ loop' = "off" /\ today' = 0 /\ due' = {}
    /\ watched' = 0 /\ monitorStop' = FALSE /\ beating' = FALSE /\ beat' = 0
    /\ consumers' = 0 /\ tick' = 0 /\ audience' = 0
    /\ UNCHANGED <<day, time, delivered>>

Next ==
    \/ Main \/ StartFails \/ Loop
    \/ \E r \in Runner, t \in Trigger : DispatchTrigger(r, t) \/ TriggerHookEnds(r, t)
    \/ BeatEnds \/ BeatStarts \/ TickArrives
    \/ \E r \in Runner : MonitorDispatch(r) \/ MonitorHookEnds(r)
                            \/ FeedDispatch(r) \/ FeedHookEnds(r)
    \/ ClockTicks \/ Signal \/ Restart

\* The one hook that holds the lock of r, and the dispatch threads waiting for it.
SomeHookEnds(r) ==
    MonitorHookEnds(r) \/ FeedHookEnds(r) \/ \E t \in Trigger : TriggerHookEnds(r, t)
SomeTriggerStarts(r) == \E t \in Trigger : DispatchTrigger(r, t)

\* The threads run and every hook ends, because its waits for the broker are
\* bounded.  Waiting for a runner's lock needs strong fairness: the lock is taken
\* again and again, but its holders pause between two hooks (the heartbeat for its
\* interval, the feed for the next tick).
Fairness ==
    /\ WF_vars(Main) /\ SF_vars(StopRunner) /\ WF_vars(Loop)
    /\ \A r \in Runner : WF_vars(SomeHookEnds(r)) /\ SF_vars(SomeTriggerStarts(r))

Spec == Init /\ [][Next]_vars
FairSpec == Spec /\ Fairness

--------------------------------------------------------------------------------
(* Properties.                                                               *)

\* Once stop() is past its runners no hook runs, and none ever will: the process
\* cannot exit between the two legs of an entry, even when a join timed out, nor
\* close the broker under a hook.
NoHookOutlivesStop ==
    main \in {"close", "exited"} =>
        \A r \in Runner : lock[r] = "free" /\ status[r] \in {"STOPPED", "FROZEN"}

\* A trigger begins only for a trading day whose trigger time has come, also when
\* midnight passes between the two reads of the clock or before the lock is free.
BeginsWhenDue ==
    [][\A r \in Runner, t \in Trigger : lock'[r] = t /\ lock[r] # t =>
          /\ today \in TradingDay
          /\ today < day \/ (today = day /\ time >= TriggerTime[t])]_vars

\* A trigger with catch_up SKIP, as the entry is, begins at most once a day,
\* however often the process restarts.
EntryBeginsOnceADay ==
    [][\A r \in Runner, t \in Trigger \ FireOnStartup :
          lock'[r] = t /\ lock[r] # t => <<r, t, today>> \notin delivered]_vars

\* A shutdown request ends the process, whoever holds the runners' locks.
ShutdownEnds == shutdown ~> (main \in {"exited", "failed"} \/ ~shutdown)

\* A trigger with catch_up FIRE_ON_STARTUP, as the cutoff is, reaches every runner
\* that runs, whatever became of the other runners, and also when the process
\* starts after its time.
Reachable(r) == main = "up" /\ ~shutdown /\ status[r] = "RUNNING"
CutoffIsDelivered ==
    \A r \in Runner, t \in FireOnStartup :
        (Reachable(r) /\ day = MaxDay /\ day \in TradingDay /\ time >= TriggerTime[t])
            ~> ((firedOn[r][t] = day /\ <<r, t>> \notin due) \/ ~Reachable(r))

\* app.py, start(): a failed startup never leaves a broker connection, market
\* data thread, or scheduler running behind it.
FailedStartLeavesNothing ==
    main = "failed" => broker = "closed" /\ ~market /\ loop = "off" /\ ~beating
================================================================================
