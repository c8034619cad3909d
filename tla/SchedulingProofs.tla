---------------------------- MODULE SchedulingProofs ---------------------------
(***************************************************************************)
(* For any number of instances, triggers, days and processes: the types, that  *)
(* no hook runs once stop() is past the runners, that no trigger begins early, *)
(* and that a trigger with catch_up SKIP begins at most once a day.            *)
(***************************************************************************)
EXTENDS Scheduling, TLAPS

\* The pass is over a real day while dispatches are pending, and the loop does
\* not run before all runners are registered.
PassHasADay ==
    /\ due # {} => loop = "dispatching" /\ today \in 1..MaxDay
    /\ main \in {"authenticate", "accounts", "reconcile", "updates", "market", "start",
                 "recover", "register", "loops"} => loop = "off"

\* What is pending has been due since the pass read the clock, also when midnight
\* came between its two reads or since; a pass never has a date of the future.
PendingIsDue ==
    /\ loop = "dated" => today \in 1..day
    /\ \A r \in Runner, t \in Trigger : <<r, t>> \in due =>
          /\ today \in TradingDay
          /\ today < day \/ (today = day /\ time >= TriggerTime[t])

\* stop() is past runner r.
Past(r) == main \in {"close", "exited"} \/ (main = "stopRunner" /\ r < at)

\* Between start() and stop() the index is back at the first runner, and the
\* runners stop() is past have neither a hook nor a status that admits one.
StopIsFinal ==
    /\ main \in {"loops", "up", "stopLoop"} => at = 1
    /\ \A r \in Runner : Past(r) => lock[r] = "free" /\ status[r] \in {"STOPPED", "FROZEN"}

SchedulingInv == TypeOK /\ PassHasADay /\ PendingIsDue /\ StopIsFinal

USE SchedulingAssumption DEF Runner

\* The invariant holds initially.
LEMMA InitEstablishes == Init => SchedulingInv
<1> SUFFICES ASSUME Init PROVE SchedulingInv
    OBVIOUS
<1>1. /\ Instances \in Nat /\ Instances >= 1 /\ MaxTime \in Nat
      /\ MaxDay \in Nat /\ MaxDay >= 1 /\ MaxLives \in Nat /\ MaxLives >= 1
    OBVIOUS
<1>2. /\ at \in Runner /\ beat \in 0..Instances /\ registered \in 0..Instances
      /\ watched \in 0..Instances /\ consumers \in 0..Instances
      /\ tick \in 0..Instances /\ audience \in 0..Instances
    BY <1>1 DEF Init
<1>3. day \in 1..MaxDay /\ lives \in 1..MaxLives /\ today \in 0..MaxDay /\ time \in 0..MaxTime
    BY <1>1 DEF Init
<1>4. ThreadsOK
    BY <1>2, <1>3 DEF Init, ThreadsOK, Step
<1>5. RunnersOK
    BY DEF Init, RunnersOK, Thread
<1>6. TriggersOK
    BY DEF Init, TriggersOK, Never
<1>7. PassHasADay /\ PendingIsDue /\ StopIsFinal
    BY DEF Init, PassHasADay, PendingIsDue, StopIsFinal, Past
<1> QED
    BY <1>4, <1>5, <1>6, <1>7 DEF SchedulingInv, TypeOK

\* Every action keeps the types of the threads' own variables.
LEMMA ThreadsPreserved == ThreadsOK /\ [Next]_vars => ThreadsOK'
<1> SUFFICES ASSUME ThreadsOK, [Next]_vars PROVE ThreadsOK'
    OBVIOUS
<1> USE DEF ThreadsOK, Step
<1>1. CASE Authenticate
    BY <1>1 DEF Authenticate, Goes, mainVars, loopVars, monitorVars, feedVars, worldVars
<1>2. CASE Prepare
    BY <1>2 DEF Prepare, Goes, mainVars, loopVars, monitorVars, feedVars, worldVars
<1>3. CASE ConnectUpdates
    BY <1>3 DEF ConnectUpdates, Goes, mainVars, loopVars, monitorVars, feedVars, worldVars
<1>4. CASE StartMarket
    BY <1>4 DEF StartMarket, Goes, mainVars, loopVars, monitorVars, feedVars, worldVars
<1>5. CASE StartRunner
    BY <1>5 DEF StartRunner, Goes, mainVars, loopVars, monitorVars, feedVars, worldVars
<1>6. CASE Recovered
    BY <1>6 DEF Recovered, Goes, mainVars, loopVars, monitorVars, feedVars, worldVars
<1>7. CASE Register
    BY <1>7 DEF Register, MissedTriggers, mainVars, loopVars, monitorVars, feedVars,
        worldVars
<1>8. CASE StartLoops
    BY <1>8 DEF StartLoops, Goes, mainVars, loopVars, monitorVars, feedVars, worldVars
<1>9. CASE StopMonitor
    BY <1>9 DEF StopMonitor, Goes, mainVars, loopVars, monitorVars, feedVars, worldVars
<1>10. CASE StopLoop
    BY <1>10 DEF StopLoop, Goes, mainVars, loopVars, monitorVars, feedVars, worldVars
<1>11. CASE StopRunner
    BY <1>11 DEF StopRunner, mainVars, loopVars, monitorVars, feedVars, worldVars
<1>12. CASE Close
    BY <1>12 DEF Close, Goes, mainVars, loopVars, monitorVars, feedVars, worldVars
<1>13. CASE StartFails
    BY <1>13 DEF StartFails, mainVars, loopVars, monitorVars, feedVars, worldVars
<1>14. CASE LoopEnds
    BY <1>14 DEF LoopEnds, mainVars, loopVars, monitorVars, feedVars, worldVars
<1>15. CASE ReadDate
    BY <1>15 DEF ReadDate, mainVars, loopVars, monitorVars, feedVars, worldVars
<1>16. CASE FindDue
    BY <1>16 DEF FindDue, IsDue, mainVars, loopVars, monitorVars, feedVars, worldVars
<1>17. CASE PassEnds
    BY <1>17 DEF PassEnds, mainVars, loopVars, monitorVars, feedVars, worldVars
<1>18. CASE BeatEnds
    BY <1>18 DEF BeatEnds, mainVars, loopVars, monitorVars, feedVars, worldVars
<1>19. CASE BeatStarts
    BY <1>19 DEF BeatStarts, mainVars, loopVars, monitorVars, feedVars, worldVars
<1>20. CASE TickArrives
    BY <1>20 DEF TickArrives, mainVars, loopVars, monitorVars, feedVars, worldVars
<1>21. CASE ClockTicks
    BY <1>21 DEF ClockTicks, mainVars, loopVars, monitorVars, feedVars, worldVars
<1>22. CASE Signal
    BY <1>22 DEF Signal, mainVars, loopVars, monitorVars, feedVars, worldVars
<1>23. CASE Restart
    <2>1. /\ Instances \in Nat /\ Instances >= 1
          /\ MaxDay \in Nat /\ MaxDay >= 1 /\ MaxLives \in Nat
        OBVIOUS
    <2>2. /\ at' \in Runner /\ beat' \in 0..Instances /\ registered' \in 0..Instances
          /\ watched' \in 0..Instances /\ consumers' \in 0..Instances
          /\ tick' \in 0..Instances /\ audience' \in 0..Instances
        BY <1>23, <2>1 DEF Restart
    <2>3. /\ day' \in 1..MaxDay /\ lives' \in 1..MaxLives
          /\ today' \in 0..MaxDay /\ time' \in 0..MaxTime
        BY <1>23, <2>1 DEF Restart
    <2> QED
        BY <1>23, <2>2, <2>3 DEF Restart
<1>24. ASSUME NEW r \in Runner, NEW t \in Trigger, DispatchTrigger(r, t) PROVE ThreadsOK'
    BY <1>24 DEF DispatchTrigger, HookBegins, HookDropped, mainVars, loopVars, monitorVars,
        feedVars, worldVars
<1>25. ASSUME NEW r \in Runner, NEW t \in Trigger, TriggerHookEnds(r, t) PROVE ThreadsOK'
    BY <1>25 DEF TriggerHookEnds, HookEnds, mainVars, loopVars, monitorVars, feedVars,
        worldVars
<1>26. ASSUME NEW r \in Runner, MonitorDispatch(r) PROVE ThreadsOK'
    BY <1>26 DEF MonitorDispatch, HookBegins, After, mainVars, loopVars, monitorVars,
        feedVars, worldVars
<1>27. ASSUME NEW r \in Runner, MonitorHookEnds(r) PROVE ThreadsOK'
    BY <1>27 DEF MonitorHookEnds, HookEnds, After, mainVars, loopVars, monitorVars,
        feedVars, worldVars
<1>28. ASSUME NEW r \in Runner, FeedDispatch(r) PROVE ThreadsOK'
    BY <1>28 DEF FeedDispatch, HookBegins, HookDropped, NextConsumer, mainVars, loopVars,
        monitorVars, feedVars, worldVars
<1>29. ASSUME NEW r \in Runner, FeedHookEnds(r) PROVE ThreadsOK'
    BY <1>29 DEF FeedHookEnds, HookEnds, NextConsumer, mainVars, loopVars, monitorVars,
        feedVars, worldVars
<1>30. CASE UNCHANGED vars
    BY <1>30 DEF vars, mainVars, loopVars, monitorVars, feedVars, worldVars
<1> QED
    BY <1>1, <1>2, <1>3, <1>4, <1>5, <1>6, <1>7, <1>8, <1>9, <1>10, <1>11, <1>12, <1>13,
        <1>14, <1>15, <1>16, <1>17, <1>18, <1>19, <1>20, <1>21, <1>22, <1>23, <1>24, <1>25,
        <1>26, <1>27, <1>28, <1>29, <1>30 DEF Next, Main, Loop

\* Every action keeps the types of the runners.
LEMMA RunnersPreserved == RunnersOK /\ ThreadsOK /\ [Next]_vars => RunnersOK'
<1> SUFFICES ASSUME RunnersOK /\ ThreadsOK, [Next]_vars PROVE RunnersOK'
    OBVIOUS
<1> USE DEF RunnersOK, ThreadsOK, Thread
<1>1. CASE StartRunner
    BY <1>1 DEF StartRunner, Goes, mainVars, loopVars, monitorVars, feedVars, worldVars
<1>2. CASE Recovered
    BY <1>2 DEF Recovered, Goes, mainVars, loopVars, monitorVars, feedVars, worldVars
<1>3. CASE StopRunner
    BY <1>3 DEF StopRunner, mainVars, loopVars, monitorVars, feedVars, worldVars
<1>4. CASE Restart
    BY <1>4 DEF Restart, Never, mainVars, loopVars, monitorVars, feedVars, worldVars
<1>5. ASSUME NEW r \in Runner, NEW t \in Trigger, DispatchTrigger(r, t) PROVE RunnersOK'
    BY <1>5 DEF DispatchTrigger, HookBegins, HookDropped, mainVars, loopVars, monitorVars,
        feedVars, worldVars
<1>6. ASSUME NEW r \in Runner, NEW t \in Trigger, TriggerHookEnds(r, t) PROVE RunnersOK'
    BY <1>6 DEF TriggerHookEnds, HookEnds, mainVars, loopVars, monitorVars, feedVars,
        worldVars
<1>7. ASSUME NEW r \in Runner, MonitorDispatch(r) PROVE RunnersOK'
    BY <1>7 DEF MonitorDispatch, HookBegins, After, mainVars, loopVars, monitorVars,
        feedVars, worldVars
<1>8. ASSUME NEW r \in Runner, MonitorHookEnds(r) PROVE RunnersOK'
    BY <1>8 DEF MonitorHookEnds, HookEnds, After, mainVars, loopVars, monitorVars, feedVars,
        worldVars
<1>9. ASSUME NEW r \in Runner, FeedDispatch(r) PROVE RunnersOK'
    BY <1>9 DEF FeedDispatch, HookBegins, HookDropped, NextConsumer, mainVars, loopVars,
        monitorVars, feedVars, worldVars
<1>10. ASSUME NEW r \in Runner, FeedHookEnds(r) PROVE RunnersOK'
    BY <1>10 DEF FeedHookEnds, HookEnds, NextConsumer, mainVars, loopVars, monitorVars,
        feedVars, worldVars
<1>11. CASE Authenticate \/ Prepare \/ ConnectUpdates \/ StartMarket \/ Register \/
        StartLoops \/ StopMonitor \/ StopLoop \/ Close \/ StartFails \/ LoopEnds \/ ReadDate
        \/ FindDue \/ PassEnds \/ BeatEnds \/ BeatStarts \/ TickArrives \/ ClockTicks \/
        Signal \/ UNCHANGED vars
    BY <1>11 DEF Authenticate, Prepare, ConnectUpdates, StartMarket, Register, StartLoops,
        StopMonitor, StopLoop, Close, StartFails, LoopEnds, ReadDate, FindDue, PassEnds,
        BeatEnds, BeatStarts, TickArrives, ClockTicks, Signal, MissedTriggers, IsDue, Goes,
        vars, mainVars, loopVars, monitorVars, feedVars, worldVars
<1> QED
    BY <1>1, <1>2, <1>3, <1>4, <1>5, <1>6, <1>7, <1>8, <1>9, <1>10, <1>11 DEF Next, Main,
        Loop

\* Every action keeps the types of the schedules: what is dispatched has a day.
LEMMA TriggersPreserved == TriggersOK /\ ThreadsOK /\ PassHasADay /\ [Next]_vars => TriggersOK'
<1> SUFFICES ASSUME TriggersOK /\ ThreadsOK /\ PassHasADay, [Next]_vars PROVE TriggersOK'
    OBVIOUS
<1> USE DEF TriggersOK, ThreadsOK, PassHasADay
<1>1. CASE Register
    BY <1>1 DEF Register, MissedTriggers, mainVars, loopVars, monitorVars, feedVars,
        worldVars
<1>2. CASE FindDue
    BY <1>2 DEF FindDue, IsDue, mainVars, loopVars, monitorVars, feedVars, worldVars
<1>3. CASE Restart
    BY <1>3 DEF Restart, Never, mainVars, loopVars, monitorVars, feedVars, worldVars
<1>4. ASSUME NEW r \in Runner, NEW t \in Trigger, DispatchTrigger(r, t) PROVE TriggersOK'
    <2>1. today \in 1..MaxDay /\ due' \in SUBSET (Runner \X Trigger)
        BY <1>4 DEF DispatchTrigger
    <2>2. {<<r, u, today>> : u \in {t} \ FireOnStartup}
              \in SUBSET (Runner \X (Trigger \ FireOnStartup) \X (1..MaxDay))
        BY <2>1
    <2>3. delivered' \in SUBSET (Runner \X (Trigger \ FireOnStartup) \X (1..MaxDay))
        BY <1>4, <2>2 DEF DispatchTrigger
    <2> QED
        BY <1>4, <2>1, <2>3 DEF DispatchTrigger
<1>5. ASSUME NEW r \in Runner, NEW t \in Trigger, TriggerHookEnds(r, t) PROVE TriggersOK'
    BY <1>5 DEF TriggerHookEnds, HookEnds, mainVars, loopVars, monitorVars, feedVars,
        worldVars
<1>6. ASSUME NEW r \in Runner, MonitorDispatch(r) PROVE TriggersOK'
    BY <1>6 DEF MonitorDispatch, HookBegins, After, mainVars, loopVars, monitorVars,
        feedVars, worldVars
<1>7. ASSUME NEW r \in Runner, MonitorHookEnds(r) PROVE TriggersOK'
    BY <1>7 DEF MonitorHookEnds, HookEnds, After, mainVars, loopVars, monitorVars, feedVars,
        worldVars
<1>8. ASSUME NEW r \in Runner, FeedDispatch(r) PROVE TriggersOK'
    BY <1>8 DEF FeedDispatch, HookBegins, HookDropped, NextConsumer, mainVars, loopVars,
        monitorVars, feedVars, worldVars
<1>9. ASSUME NEW r \in Runner, FeedHookEnds(r) PROVE TriggersOK'
    BY <1>9 DEF FeedHookEnds, HookEnds, NextConsumer, mainVars, loopVars, monitorVars,
        feedVars, worldVars
<1>10. CASE Authenticate \/ Prepare \/ ConnectUpdates \/ StartMarket \/ StartRunner \/
        Recovered \/ StartLoops \/ StopMonitor \/ StopLoop \/ StopRunner \/ Close \/
        StartFails \/ LoopEnds \/ ReadDate \/ PassEnds \/ BeatEnds \/ BeatStarts \/
        TickArrives \/ ClockTicks \/ Signal \/ UNCHANGED vars
    BY <1>10 DEF Authenticate, Prepare, ConnectUpdates, StartMarket, StartRunner, Recovered,
        StartLoops, StopMonitor, StopLoop, StopRunner, Close, StartFails, LoopEnds,
        ReadDate, PassEnds, BeatEnds, BeatStarts, TickArrives, ClockTicks, Signal, Goes,
        vars, mainVars, loopVars, monitorVars, feedVars, worldVars
<1> QED
    BY <1>1, <1>2, <1>3, <1>4, <1>5, <1>6, <1>7, <1>8, <1>9, <1>10 DEF Next, Main, Loop

\* Every action keeps the day of a pass.
LEMMA PassPreserved == ThreadsOK /\ PassHasADay /\ [Next]_vars => PassHasADay'
<1> SUFFICES ASSUME ThreadsOK /\ PassHasADay, [Next]_vars PROVE PassHasADay'
    OBVIOUS
<1> USE DEF ThreadsOK, PassHasADay
<1>1. CASE Authenticate
    BY <1>1 DEF Authenticate, Goes, mainVars, loopVars, monitorVars, feedVars, worldVars
<1>2. CASE Prepare
    BY <1>2 DEF Prepare, Goes, mainVars, loopVars, monitorVars, feedVars, worldVars
<1>3. CASE ConnectUpdates
    BY <1>3 DEF ConnectUpdates, Goes, mainVars, loopVars, monitorVars, feedVars, worldVars
<1>4. CASE StartMarket
    BY <1>4 DEF StartMarket, Goes, mainVars, loopVars, monitorVars, feedVars, worldVars
<1>5. CASE StartRunner
    BY <1>5 DEF StartRunner, Goes, mainVars, loopVars, monitorVars, feedVars, worldVars
<1>6. CASE Recovered
    BY <1>6 DEF Recovered, Goes, mainVars, loopVars, monitorVars, feedVars, worldVars
<1>7. CASE Register
    BY <1>7 DEF Register, MissedTriggers, mainVars, loopVars, monitorVars, feedVars,
        worldVars
<1>8. CASE StartLoops
    BY <1>8 DEF StartLoops, Goes, mainVars, loopVars, monitorVars, feedVars, worldVars
<1>9. CASE StopMonitor
    BY <1>9 DEF StopMonitor, Goes, mainVars, loopVars, monitorVars, feedVars, worldVars
<1>10. CASE StopLoop
    BY <1>10 DEF StopLoop, Goes, mainVars, loopVars, monitorVars, feedVars, worldVars
<1>11. CASE StopRunner
    BY <1>11 DEF StopRunner, mainVars, loopVars, monitorVars, feedVars, worldVars
<1>12. CASE Close
    BY <1>12 DEF Close, Goes, mainVars, loopVars, monitorVars, feedVars, worldVars
<1>13. CASE StartFails
    BY <1>13 DEF StartFails, mainVars, loopVars, monitorVars, feedVars, worldVars
<1>14. CASE LoopEnds
    BY <1>14 DEF LoopEnds, mainVars, loopVars, monitorVars, feedVars, worldVars
<1>15. CASE ReadDate
    BY <1>15 DEF ReadDate, mainVars, loopVars, monitorVars, feedVars, worldVars
<1>16. CASE FindDue
    BY <1>16 DEF FindDue, IsDue, mainVars, loopVars, monitorVars, feedVars, worldVars
<1>17. CASE PassEnds
    BY <1>17 DEF PassEnds, mainVars, loopVars, monitorVars, feedVars, worldVars
<1>18. CASE Restart
    BY <1>18 DEF Restart, Never, mainVars, loopVars, monitorVars, feedVars, worldVars
<1>19. ASSUME NEW r \in Runner, NEW t \in Trigger, DispatchTrigger(r, t) PROVE PassHasADay'
    BY <1>19 DEF DispatchTrigger, HookBegins, HookDropped, mainVars, loopVars, monitorVars,
        feedVars, worldVars
<1>20. ASSUME NEW r \in Runner, NEW t \in Trigger, TriggerHookEnds(r, t) PROVE PassHasADay'
    BY <1>20 DEF TriggerHookEnds, HookEnds, mainVars, loopVars, monitorVars, feedVars,
        worldVars
<1>21. ASSUME NEW r \in Runner, MonitorDispatch(r) PROVE PassHasADay'
    BY <1>21 DEF MonitorDispatch, HookBegins, After, mainVars, loopVars, monitorVars,
        feedVars, worldVars
<1>22. ASSUME NEW r \in Runner, MonitorHookEnds(r) PROVE PassHasADay'
    BY <1>22 DEF MonitorHookEnds, HookEnds, After, mainVars, loopVars, monitorVars,
        feedVars, worldVars
<1>23. ASSUME NEW r \in Runner, FeedDispatch(r) PROVE PassHasADay'
    BY <1>23 DEF FeedDispatch, HookBegins, HookDropped, NextConsumer, mainVars, loopVars,
        monitorVars, feedVars, worldVars
<1>24. ASSUME NEW r \in Runner, FeedHookEnds(r) PROVE PassHasADay'
    BY <1>24 DEF FeedHookEnds, HookEnds, NextConsumer, mainVars, loopVars, monitorVars,
        feedVars, worldVars
<1>25. CASE BeatEnds \/ BeatStarts \/ TickArrives \/ ClockTicks \/ Signal \/ UNCHANGED vars
    BY <1>25 DEF BeatEnds, BeatStarts, TickArrives, ClockTicks, Signal, vars, mainVars,
        loopVars, monitorVars, feedVars, worldVars
<1> QED
    BY <1>1, <1>2, <1>3, <1>4, <1>5, <1>6, <1>7, <1>8, <1>9, <1>10, <1>11, <1>12, <1>13,
        <1>14, <1>15, <1>16, <1>17, <1>18, <1>19, <1>20, <1>21, <1>22, <1>23, <1>24, <1>25
        DEF Next, Main, Loop

\* Every action keeps what is pending due.
LEMMA ClockPreserved == ThreadsOK /\ TriggersOK /\ PassHasADay /\ PendingIsDue /\ [Next]_vars => PendingIsDue'
<1> SUFFICES ASSUME ThreadsOK /\ TriggersOK /\ PassHasADay /\ PendingIsDue, [Next]_vars PROVE PendingIsDue'
    OBVIOUS
<1> USE DEF ThreadsOK, TriggersOK, PassHasADay, PendingIsDue
<1>1. CASE Authenticate
    BY <1>1 DEF Authenticate, Goes, mainVars, loopVars, monitorVars, feedVars, worldVars
<1>2. CASE Prepare
    BY <1>2 DEF Prepare, Goes, mainVars, loopVars, monitorVars, feedVars, worldVars
<1>3. CASE ConnectUpdates
    BY <1>3 DEF ConnectUpdates, Goes, mainVars, loopVars, monitorVars, feedVars, worldVars
<1>4. CASE StartMarket
    BY <1>4 DEF StartMarket, Goes, mainVars, loopVars, monitorVars, feedVars, worldVars
<1>5. CASE StartRunner
    BY <1>5 DEF StartRunner, Goes, mainVars, loopVars, monitorVars, feedVars, worldVars
<1>6. CASE Recovered
    BY <1>6 DEF Recovered, Goes, mainVars, loopVars, monitorVars, feedVars, worldVars
<1>7. CASE Register
    BY <1>7 DEF Register, MissedTriggers, mainVars, loopVars, monitorVars, feedVars,
        worldVars
<1>8. CASE StartLoops
    BY <1>8 DEF StartLoops, Goes, mainVars, loopVars, monitorVars, feedVars, worldVars
<1>9. CASE StopMonitor
    BY <1>9 DEF StopMonitor, Goes, mainVars, loopVars, monitorVars, feedVars, worldVars
<1>10. CASE StopLoop
    BY <1>10 DEF StopLoop, Goes, mainVars, loopVars, monitorVars, feedVars, worldVars
<1>11. CASE StopRunner
    BY <1>11 DEF StopRunner, mainVars, loopVars, monitorVars, feedVars, worldVars
<1>12. CASE Close
    BY <1>12 DEF Close, Goes, mainVars, loopVars, monitorVars, feedVars, worldVars
<1>13. CASE StartFails
    BY <1>13 DEF StartFails, mainVars, loopVars, monitorVars, feedVars, worldVars
<1>14. CASE LoopEnds
    BY <1>14 DEF LoopEnds, mainVars, loopVars, monitorVars, feedVars, worldVars
<1>15. CASE ReadDate
    BY <1>15 DEF ReadDate, mainVars, loopVars, monitorVars, feedVars, worldVars
<1>16. CASE FindDue
    BY <1>16 DEF FindDue, IsDue, mainVars, loopVars, monitorVars, feedVars, worldVars
<1>17. CASE PassEnds
    BY <1>17 DEF PassEnds, mainVars, loopVars, monitorVars, feedVars, worldVars
<1>18. CASE ClockTicks
    BY <1>18 DEF ClockTicks, mainVars, loopVars, monitorVars, feedVars, worldVars
<1>19. CASE Restart
    BY <1>19 DEF Restart, Never, mainVars, loopVars, monitorVars, feedVars, worldVars
<1>20. ASSUME NEW r \in Runner, NEW t \in Trigger, DispatchTrigger(r, t) PROVE PendingIsDue'
    BY <1>20 DEF DispatchTrigger, HookBegins, HookDropped, mainVars, loopVars, monitorVars,
        feedVars, worldVars
<1>21. ASSUME NEW r \in Runner, NEW t \in Trigger, TriggerHookEnds(r, t) PROVE PendingIsDue'
    BY <1>21 DEF TriggerHookEnds, HookEnds, mainVars, loopVars, monitorVars, feedVars,
        worldVars
<1>22. ASSUME NEW r \in Runner, MonitorDispatch(r) PROVE PendingIsDue'
    BY <1>22 DEF MonitorDispatch, HookBegins, After, mainVars, loopVars, monitorVars,
        feedVars, worldVars
<1>23. ASSUME NEW r \in Runner, MonitorHookEnds(r) PROVE PendingIsDue'
    BY <1>23 DEF MonitorHookEnds, HookEnds, After, mainVars, loopVars, monitorVars,
        feedVars, worldVars
<1>24. ASSUME NEW r \in Runner, FeedDispatch(r) PROVE PendingIsDue'
    BY <1>24 DEF FeedDispatch, HookBegins, HookDropped, NextConsumer, mainVars, loopVars,
        monitorVars, feedVars, worldVars
<1>25. ASSUME NEW r \in Runner, FeedHookEnds(r) PROVE PendingIsDue'
    BY <1>25 DEF FeedHookEnds, HookEnds, NextConsumer, mainVars, loopVars, monitorVars,
        feedVars, worldVars
<1>26. CASE BeatEnds \/ BeatStarts \/ TickArrives \/ Signal \/ UNCHANGED vars
    BY <1>26 DEF BeatEnds, BeatStarts, TickArrives, Signal, vars, mainVars, loopVars,
        monitorVars, feedVars, worldVars
<1> QED
    BY <1>1, <1>2, <1>3, <1>4, <1>5, <1>6, <1>7, <1>8, <1>9, <1>10, <1>11, <1>12, <1>13,
        <1>14, <1>15, <1>16, <1>17, <1>18, <1>19, <1>20, <1>21, <1>22, <1>23, <1>24, <1>25,
        <1>26 DEF Next, Main, Loop

\* No action gives a hook, or the means to begin one, to a runner stop() is past.
LEMMA StopPreserved == ThreadsOK /\ RunnersOK /\ StopIsFinal /\ [Next]_vars => StopIsFinal'
<1> SUFFICES ASSUME ThreadsOK /\ RunnersOK /\ StopIsFinal, [Next]_vars PROVE StopIsFinal'
    OBVIOUS
<1> USE DEF ThreadsOK, RunnersOK, StopIsFinal, Past, Thread
<1>1. CASE Authenticate
    BY <1>1 DEF Authenticate, Goes, mainVars, loopVars, monitorVars, feedVars, worldVars
<1>2. CASE Prepare
    BY <1>2 DEF Prepare, Goes, mainVars, loopVars, monitorVars, feedVars, worldVars
<1>3. CASE ConnectUpdates
    BY <1>3 DEF ConnectUpdates, Goes, mainVars, loopVars, monitorVars, feedVars, worldVars
<1>4. CASE StartMarket
    BY <1>4 DEF StartMarket, Goes, mainVars, loopVars, monitorVars, feedVars, worldVars
<1>5. CASE StartRunner
    BY <1>5 DEF StartRunner, Goes, mainVars, loopVars, monitorVars, feedVars, worldVars
<1>6. CASE Recovered
    BY <1>6 DEF Recovered, Goes, mainVars, loopVars, monitorVars, feedVars, worldVars
<1>7. CASE Register
    BY <1>7 DEF Register, MissedTriggers, mainVars, loopVars, monitorVars, feedVars,
        worldVars
<1>8. CASE StartLoops
    BY <1>8 DEF StartLoops, Goes, mainVars, loopVars, monitorVars, feedVars, worldVars
<1>9. CASE StopMonitor
    BY <1>9 DEF StopMonitor, Goes, mainVars, loopVars, monitorVars, feedVars, worldVars
<1>10. CASE StopLoop
    BY <1>10 DEF StopLoop, Goes, mainVars, loopVars, monitorVars, feedVars, worldVars
<1>11. CASE StopRunner
    BY <1>11 DEF StopRunner, mainVars, loopVars, monitorVars, feedVars, worldVars
<1>12. CASE Close
    BY <1>12 DEF Close, Goes, mainVars, loopVars, monitorVars, feedVars, worldVars
<1>13. CASE StartFails
    BY <1>13 DEF StartFails, mainVars, loopVars, monitorVars, feedVars, worldVars
<1>14. CASE Restart
    BY <1>14 DEF Restart, Never, mainVars, loopVars, monitorVars, feedVars, worldVars
<1>15. ASSUME NEW r \in Runner, NEW t \in Trigger, DispatchTrigger(r, t) PROVE StopIsFinal'
    BY <1>15 DEF DispatchTrigger, HookBegins, HookDropped, mainVars, loopVars, monitorVars,
        feedVars, worldVars
<1>16. ASSUME NEW r \in Runner, NEW t \in Trigger, TriggerHookEnds(r, t) PROVE StopIsFinal'
    BY <1>16 DEF TriggerHookEnds, HookEnds, mainVars, loopVars, monitorVars, feedVars,
        worldVars
<1>17. ASSUME NEW r \in Runner, MonitorDispatch(r) PROVE StopIsFinal'
    BY <1>17 DEF MonitorDispatch, HookBegins, After, mainVars, loopVars, monitorVars,
        feedVars, worldVars
<1>18. ASSUME NEW r \in Runner, MonitorHookEnds(r) PROVE StopIsFinal'
    BY <1>18 DEF MonitorHookEnds, HookEnds, After, mainVars, loopVars, monitorVars,
        feedVars, worldVars
<1>19. ASSUME NEW r \in Runner, FeedDispatch(r) PROVE StopIsFinal'
    BY <1>19 DEF FeedDispatch, HookBegins, HookDropped, NextConsumer, mainVars, loopVars,
        monitorVars, feedVars, worldVars
<1>20. ASSUME NEW r \in Runner, FeedHookEnds(r) PROVE StopIsFinal'
    BY <1>20 DEF FeedHookEnds, HookEnds, NextConsumer, mainVars, loopVars, monitorVars,
        feedVars, worldVars
<1>21. CASE LoopEnds \/ ReadDate \/ FindDue \/ PassEnds \/ BeatEnds \/ BeatStarts \/
        TickArrives \/ ClockTicks \/ Signal \/ UNCHANGED vars
    BY <1>21 DEF LoopEnds, ReadDate, FindDue, PassEnds, BeatEnds, BeatStarts, TickArrives,
        ClockTicks, Signal, IsDue, vars, mainVars, loopVars, monitorVars, feedVars,
        worldVars
<1> QED
    BY <1>1, <1>2, <1>3, <1>4, <1>5, <1>6, <1>7, <1>8, <1>9, <1>10, <1>11, <1>12, <1>13,
        <1>14, <1>15, <1>16, <1>17, <1>18, <1>19, <1>20, <1>21 DEF Next, Main, Loop

\* The strengthened invariant of the process and its threads.
THEOREM InvariantHolds == Spec => []SchedulingInv
<1>1. SchedulingInv /\ [Next]_vars => SchedulingInv'
    BY ThreadsPreserved, RunnersPreserved, TriggersPreserved, PassPreserved, ClockPreserved,
       StopPreserved
    DEF SchedulingInv, TypeOK
<1> QED
    BY InitEstablishes, <1>1, PTL DEF Spec

\* Every variable of the process keeps its type.
THEOREM SchedulingTypes == Spec => []TypeOK
<1>1. SchedulingInv => TypeOK
    BY DEF SchedulingInv
<1> QED
    BY InvariantHolds, <1>1, PTL

\* After DependencyContainer.stop no hook runs on any runner.
THEOREM QuietAfterStop == Spec => []NoHookOutlivesStop
<1>1. SchedulingInv => NoHookOutlivesStop
    BY DEF SchedulingInv, StopIsFinal, Past, NoHookOutlivesStop
<1> QED
    BY InvariantHolds, <1>1, PTL

\* A trigger's hook begins only from the pending dispatches of a pass.
LEMMA BeganFromDue ==
    ASSUME SchedulingInv, Next, NEW q \in Runner, NEW u \in Trigger, lock'[q] = u, lock[q] # u
    PROVE  <<q, u>> \in due
<1> USE DEF SchedulingInv, TypeOK, RunnersOK, ThreadsOK, Thread
<1>1. CASE StartRunner
    BY <1>1 DEF StartRunner, Goes
<1>2. CASE Recovered
    BY <1>2 DEF Recovered, Goes
<1>3. CASE Restart
    BY <1>3 DEF Restart, Never
<1>4. ASSUME NEW r \in Runner, NEW t \in Trigger, DispatchTrigger(r, t) PROVE <<q, u>> \in due
    BY <1>4 DEF DispatchTrigger, HookBegins, HookDropped
<1>5. ASSUME NEW r \in Runner, NEW t \in Trigger, TriggerHookEnds(r, t) PROVE <<q, u>> \in due
    BY <1>5 DEF TriggerHookEnds, HookEnds
<1>6. ASSUME NEW r \in Runner, MonitorDispatch(r) PROVE <<q, u>> \in due
    BY <1>6 DEF MonitorDispatch, HookBegins, After
<1>7. ASSUME NEW r \in Runner, MonitorHookEnds(r) PROVE <<q, u>> \in due
    BY <1>7 DEF MonitorHookEnds, HookEnds, After
<1>8. ASSUME NEW r \in Runner, FeedDispatch(r) PROVE <<q, u>> \in due
    BY <1>8 DEF FeedDispatch, HookBegins, HookDropped, NextConsumer
<1>9. ASSUME NEW r \in Runner, FeedHookEnds(r) PROVE <<q, u>> \in due
    BY <1>9 DEF FeedHookEnds, HookEnds, NextConsumer
<1>10. CASE Authenticate \/ Prepare \/ ConnectUpdates \/ StartMarket \/ Register \/
        StartLoops \/ StopMonitor \/ StopLoop \/ StopRunner \/ Close \/ StartFails \/
        LoopEnds \/ ReadDate \/ FindDue \/ PassEnds \/ BeatEnds \/ BeatStarts \/
        TickArrives \/ ClockTicks \/ Signal
    BY <1>10 DEF Authenticate, Prepare, ConnectUpdates, StartMarket, Register,
        StartLoops, StopMonitor, StopLoop, StopRunner, Close, StartFails, LoopEnds,
        ReadDate, FindDue, PassEnds, BeatEnds, BeatStarts, TickArrives, ClockTicks,
        Signal
<1> QED
    BY <1>1, <1>2, <1>3, <1>4, <1>5, <1>6, <1>7, <1>8, <1>9, <1>10 DEF Next, Main, Loop

\* A trigger begins only for a trading day and at or after its time.
THEOREM NeverEarly == Spec => BeginsWhenDue
<1> DEFINE Begins ==
        \A r \in Runner, t \in Trigger : lock'[r] = t /\ lock[r] # t =>
            /\ today \in TradingDay
            /\ today < day \/ (today = day /\ time >= TriggerTime[t])
<1>1. SchedulingInv /\ [Next]_vars => [Begins]_vars
    BY BeganFromDue DEF SchedulingInv, PendingIsDue
<1>2. Spec => [][Begins]_vars
  <2> HIDE DEF Begins
  <2> QED
      BY InvariantHolds, <1>1, PTL DEF Spec
<1> QED
    BY <1>2 DEF BeginsWhenDue

--------------------------------------------------------------------------------
(* A trigger with catch_up SKIP begins at most once a day.  What has begun is   *)
(* remembered by the process that began it in firedOn, and by the next one in   *)
(* skippedOn, because it was due and is still due when the next one registers.  *)

\* What was delivered was due: on a trading day, not before the trigger's time.
DeliveredWasDue ==
    \A r \in Runner, t \in Trigger, d \in 1..MaxDay : <<r, t, d>> \in delivered =>
        /\ d \in TradingDay
        /\ d < day \/ (d = day /\ time >= TriggerTime[t])

\* The day that the next look at firedOn and skippedOn is about.
Passing == loop \in {"dated", "dispatching"}
PassDate == IF Passing THEN today ELSE day

\* A date once read is not after the wall clock's, nor before a delivery.
DatesAreLate ==
    Passing \/ main = "register" =>
        /\ today \in 1..day
        /\ \A r \in Runner, t \in Trigger, d \in 1..MaxDay : <<r, t, d>> \in delivered => d <= today

\* start() registers the runners one after the other.
RegistersInOrder ==
    main \in {"authenticate", "accounts", "reconcile", "updates", "market", "start",
              "recover", "register"} => registered + 1 = at

\* What is pending is marked as fired and has not been delivered.
PendingIsMarked ==
    \A r \in Runner, t \in Trigger : <<r, t>> \in due =>
        firedOn[r][t] = today /\ <<r, t, today>> \notin delivered

\* A delivery of the pass's day is marked on the schedule of its runner.
Remembered ==
    \A r \in Runner, t \in Trigger, d \in 1..MaxDay :
        <<r, t, d>> \in delivered /\ r <= registered =>
            d < PassDate \/ d = firedOn[r][t] \/ d = skippedOn[r][t]

OnceInv == DeliveredWasDue /\ DatesAreLate /\ RegistersInOrder /\ PendingIsMarked /\ Remembered

onceVars == <<main, at, registered, firedOn, skippedOn, loop, today, due, day, time, delivered>>

\* Hooks, heartbeats, ticks and signals leave the schedules and the clock alone.
LEMMA OnceSteps ==
    ASSUME [Next]_vars
    PROVE  \/ Main \/ StartFails \/ Loop \/ ClockTicks \/ Restart
           \/ \E r \in Runner, t \in Trigger : DispatchTrigger(r, t)
           \/ UNCHANGED onceVars
<1> USE DEF onceVars, mainVars, loopVars, monitorVars, feedVars, worldVars
<1>1. ASSUME NEW r \in Runner, NEW t \in Trigger, TriggerHookEnds(r, t) PROVE UNCHANGED onceVars
    BY <1>1 DEF TriggerHookEnds
<1>2. ASSUME NEW r \in Runner,
             MonitorDispatch(r) \/ MonitorHookEnds(r) \/ FeedDispatch(r) \/ FeedHookEnds(r)
      PROVE  UNCHANGED onceVars
    BY <1>2 DEF MonitorDispatch, MonitorHookEnds, FeedDispatch, FeedHookEnds
<1>3. CASE BeatEnds \/ BeatStarts \/ TickArrives \/ Signal \/ UNCHANGED vars
    BY <1>3 DEF BeatEnds, BeatStarts, TickArrives, Signal, vars
<1> QED
    BY <1>1, <1>2, <1>3 DEF Next

\* A hook that begins was due.
LEMMA DeliveredStep ==
    TypeOK /\ PendingIsDue /\ DeliveredWasDue /\ [Next]_vars
        => DeliveredWasDue'
<1> SUFFICES ASSUME TypeOK /\ PendingIsDue /\ DeliveredWasDue, [Next]_vars
             PROVE  DeliveredWasDue'
    OBVIOUS
<1> USE DEF TypeOK, ThreadsOK, DeliveredWasDue
<1>1. CASE ClockTicks
    BY <1>1 DEF ClockTicks, mainVars, loopVars, monitorVars, feedVars, worldVars
<1>2. ASSUME NEW r \in Runner, NEW t \in Trigger, DispatchTrigger(r, t) PROVE DeliveredWasDue'
    <2>1. <<r, t>> \in due /\ delivered' \subseteq delivered \cup {<<r, t, today>>}
        BY <1>2 DEF DispatchTrigger
    <2>2. UNCHANGED <<main, at, registered, firedOn, skippedOn, loop, today, day, time>>
        BY <1>2 DEF DispatchTrigger, mainVars, loopVars, worldVars
    <2> QED
        BY <2>1, <2>2 DEF PendingIsDue
<1>3. CASE Authenticate \/ Prepare \/ ConnectUpdates \/ StartMarket \/ StartRunner \/
        Recovered \/ Register \/ StartLoops \/ StopMonitor \/ StopLoop \/ StopRunner \/ Close \/
        StartFails \/ LoopEnds \/ ReadDate \/ FindDue \/ PassEnds \/ Restart \/ UNCHANGED
        onceVars
    BY <1>3 DEF Authenticate, Prepare, ConnectUpdates, StartMarket, StartRunner, Recovered,
        Register, StartLoops, StopMonitor, StopLoop, StopRunner, Close, StartFails, LoopEnds,
        ReadDate, FindDue, PassEnds, Restart, onceVars, Goes, mainVars, loopVars, monitorVars,
        feedVars, worldVars
<1> QED
    BY OnceSteps, <1>1, <1>2, <1>3 DEF Main, Loop

\* A date is read from a clock that no delivery is ahead of.
LEMMA DatesStep ==
    TypeOK /\ PassHasADay /\ DeliveredWasDue /\ DatesAreLate /\ [Next]_vars
        => DatesAreLate'
<1> SUFFICES ASSUME TypeOK /\ PassHasADay /\ DeliveredWasDue /\ DatesAreLate, [Next]_vars
             PROVE  DatesAreLate'
    OBVIOUS
<1> USE DEF TypeOK, ThreadsOK, PassHasADay, DatesAreLate, Passing
<1>1. CASE Recovered
    BY <1>1 DEF Recovered, Goes, DeliveredWasDue, mainVars, loopVars, monitorVars, feedVars,
        worldVars
<1>2. CASE Register
    BY <1>2 DEF Register, mainVars, loopVars, monitorVars, feedVars, worldVars
<1>3. CASE StartLoops
    BY <1>3 DEF StartLoops, Goes, mainVars, loopVars, monitorVars, feedVars, worldVars
<1>4. CASE LoopEnds
    BY <1>4 DEF LoopEnds, mainVars, loopVars, monitorVars, feedVars, worldVars
<1>5. CASE ReadDate
    BY <1>5 DEF ReadDate, DeliveredWasDue, mainVars, loopVars, monitorVars, feedVars, worldVars
<1>6. CASE FindDue
    BY <1>6 DEF FindDue, mainVars, loopVars, monitorVars, feedVars, worldVars
<1>7. CASE PassEnds
    BY <1>7 DEF PassEnds, mainVars, loopVars, monitorVars, feedVars, worldVars
<1>8. CASE ClockTicks
    BY <1>8 DEF ClockTicks, mainVars, loopVars, monitorVars, feedVars, worldVars
<1>9. CASE Restart
    BY <1>9 DEF Restart, mainVars, loopVars, monitorVars, feedVars, worldVars
<1>10. ASSUME NEW r \in Runner, NEW t \in Trigger, DispatchTrigger(r, t) PROVE DatesAreLate'
    <2>1. <<r, t>> \in due /\ delivered' \subseteq delivered \cup {<<r, t, today>>}
        BY <1>10 DEF DispatchTrigger
    <2>2. UNCHANGED <<main, at, registered, firedOn, skippedOn, loop, today, day, time>>
        BY <1>10 DEF DispatchTrigger, mainVars, loopVars, worldVars
    <2> QED
        BY <2>1, <2>2
<1>11. CASE Authenticate \/ Prepare \/ ConnectUpdates \/ StartMarket \/ StartRunner \/
        StopMonitor \/ StopLoop \/ StopRunner \/ Close \/ StartFails \/ UNCHANGED onceVars
    BY <1>11 DEF Authenticate, Prepare, ConnectUpdates, StartMarket, StartRunner, StopMonitor,
        StopLoop, StopRunner, Close, StartFails, onceVars, Goes, mainVars, loopVars,
        monitorVars, feedVars, worldVars
<1> QED
    BY OnceSteps, <1>1, <1>2, <1>3, <1>4, <1>5, <1>6, <1>7, <1>8, <1>9, <1>10, <1>11 DEF Main,
        Loop

\* Registration stays in order.
LEMMA OrderStep ==
    TypeOK /\ RegistersInOrder /\ [Next]_vars
        => RegistersInOrder'
<1> SUFFICES ASSUME TypeOK /\ RegistersInOrder, [Next]_vars
             PROVE  RegistersInOrder'
    OBVIOUS
<1> USE DEF TypeOK, ThreadsOK, RegistersInOrder
<1>1. CASE Register
    BY <1>1 DEF Register, mainVars, loopVars, monitorVars, feedVars, worldVars
<1>2. CASE StopRunner
    BY <1>2 DEF StopRunner, mainVars, loopVars, monitorVars, feedVars, worldVars
<1>3. CASE Restart
    BY <1>3 DEF Restart, mainVars, loopVars, monitorVars, feedVars, worldVars
<1>4. CASE Authenticate \/ Prepare \/ ConnectUpdates \/ StartMarket \/ StartRunner \/
        Recovered \/ StartLoops \/ StopMonitor \/ StopLoop \/ Close \/ StartFails \/ LoopEnds \/
        ReadDate \/ FindDue \/ PassEnds \/ ClockTicks \/ (\E r \in Runner, t \in Trigger :
        DispatchTrigger(r, t)) \/ UNCHANGED onceVars
    BY <1>4 DEF Authenticate, Prepare, ConnectUpdates, StartMarket, StartRunner, Recovered,
        StartLoops, StopMonitor, StopLoop, Close, StartFails, LoopEnds, ReadDate, FindDue,
        PassEnds, ClockTicks, onceVars, Goes, DispatchTrigger, mainVars, loopVars, monitorVars,
        feedVars, worldVars
<1> QED
    BY OnceSteps, <1>1, <1>2, <1>3, <1>4 DEF Main, Loop

\* What a pass finds due is not delivered yet, and it is marked at once.
LEMMA PendingStep ==
    TypeOK /\ PassHasADay /\ DatesAreLate /\ PendingIsMarked /\ Remembered /\ [Next]_vars
        => PendingIsMarked'
<1> SUFFICES ASSUME TypeOK /\ PassHasADay /\ DatesAreLate /\ PendingIsMarked
                        /\ Remembered, [Next]_vars
             PROVE  PendingIsMarked'
    OBVIOUS
<1> USE DEF TypeOK, ThreadsOK, TriggersOK, PassHasADay, PendingIsMarked
<1>1. CASE FindDue
    <2>1. UNCHANGED <<today, delivered>> /\ today \in 1..MaxDay /\ PassDate = today
        BY <1>1 DEF FindDue, DatesAreLate, Passing, PassDate, worldVars
    <2> SUFFICES ASSUME NEW r \in Runner, NEW t \in Trigger, <<r, t>> \in due'
                 PROVE  firedOn'[r][t] = today /\ <<r, t, today>> \notin delivered
        BY <2>1
    <2>2. IsDue(r, t)
        BY <1>1 DEF FindDue
    <2>3. firedOn'[r][t] = today
        BY <1>1, <2>2 DEF FindDue
    <2> QED
        BY <2>1, <2>2, <2>3 DEF IsDue, Remembered
<1>2. CASE Restart
    BY <1>2 DEF Restart, mainVars, loopVars, monitorVars, feedVars, worldVars
<1>3. ASSUME NEW r \in Runner, NEW t \in Trigger, DispatchTrigger(r, t) PROVE PendingIsMarked'
    <2>1. <<r, t>> \in due /\ delivered' \subseteq delivered \cup {<<r, t, today>>}
        BY <1>3 DEF DispatchTrigger
    <2>2. UNCHANGED <<main, at, registered, firedOn, skippedOn, loop, today, day, time>>
        BY <1>3 DEF DispatchTrigger, mainVars, loopVars, worldVars
    <2>3. due' = due \ {<<r, t>>}
        BY <1>3 DEF DispatchTrigger
    <2> QED
        BY <2>1, <2>2, <2>3
<1>4. CASE Authenticate \/ Prepare \/ ConnectUpdates \/ StartMarket \/ StartRunner \/
        Recovered \/ Register \/ StartLoops \/ StopMonitor \/ StopLoop \/ StopRunner \/ Close \/
        StartFails \/ LoopEnds \/ ReadDate \/ PassEnds \/ ClockTicks \/ UNCHANGED onceVars
    BY <1>4 DEF Authenticate, Prepare, ConnectUpdates, StartMarket, StartRunner, Recovered,
        Register, StartLoops, StopMonitor, StopLoop, StopRunner, Close, StartFails, LoopEnds,
        ReadDate, PassEnds, ClockTicks, onceVars, Goes, mainVars, loopVars, monitorVars,
        feedVars, worldVars
<1> QED
    BY OnceSteps, <1>1, <1>2, <1>3, <1>4 DEF Main, Loop

\* Every process marks what it begins, and what the ones before it began.
LEMMA RememberedStep == TypeOK /\ PassHasADay /\ OnceInv /\ [Next]_vars => Remembered'
<1> SUFFICES ASSUME TypeOK /\ PassHasADay /\ OnceInv, [Next]_vars PROVE Remembered'
    OBVIOUS
<1> USE DEF TypeOK, ThreadsOK, TriggersOK, PassHasADay, OnceInv, Remembered, Passing, PassDate
<1>1. CASE Recovered
    BY <1>1 DEF Recovered, Goes, mainVars, loopVars, monitorVars, feedVars, worldVars
<1>2. CASE Register
    <2>1. /\ registered' = at /\ registered + 1 = at /\ loop = "off" /\ today \in 1..day
          /\ UNCHANGED <<firedOn, loop, day, time, delivered>>
        BY <1>2 DEF Register, RegistersInOrder, DatesAreLate, worldVars
    <2> SUFFICES ASSUME NEW r \in Runner, NEW t \in Trigger, NEW d \in 1..MaxDay,
                        <<r, t, d>> \in delivered, r <= registered', ~(d < day)
                 PROVE  d = firedOn[r][t] \/ d = skippedOn'[r][t]
        BY <2>1
    <2>2. CASE r = at
        <3>1. d = today /\ d = day /\ d \in TradingDay /\ time >= TriggerTime[t]
            BY <1>2, <2>1 DEF Register, DatesAreLate, DeliveredWasDue
        <3>2. t \in MissedTriggers
            BY <3>1 DEF MissedTriggers
        <3> QED
            BY <1>2, <2>2, <3>1, <3>2 DEF Register
    <2>3. CASE r # at
        <3>1. r <= registered /\ skippedOn'[r] = skippedOn[r]
            BY <1>2, <2>1, <2>3 DEF Register
        <3> QED
            BY <2>1, <3>1
    <2> QED
        BY <2>2, <2>3
<1>3. CASE StartLoops
    BY <1>3 DEF StartLoops, Goes, mainVars, loopVars, monitorVars, feedVars, worldVars
<1>4. CASE StopRunner
    <2>1. registered' \in {registered, 0} /\ (\A r \in Runner : ~(r <= 0))
        BY <1>4 DEF StopRunner
    <2>2. UNCHANGED <<firedOn, skippedOn, loop, today, day, delivered>>
        BY <1>4 DEF StopRunner, worldVars
    <2> QED
        BY <2>1, <2>2
<1>5. CASE LoopEnds
    BY <1>5 DEF LoopEnds, mainVars, loopVars, monitorVars, feedVars, worldVars
<1>6. CASE ReadDate
    BY <1>6 DEF ReadDate, mainVars, loopVars, monitorVars, feedVars, worldVars
<1>7. CASE FindDue
    <2>1. /\ PassDate = today /\ PassDate' = today
          /\ UNCHANGED <<registered, skippedOn, today, delivered>>
        BY <1>7 DEF FindDue
    <2> SUFFICES ASSUME NEW r \in Runner, NEW t \in Trigger, NEW d \in 1..MaxDay,
                        <<r, t, d>> \in delivered, r <= registered
                 PROVE  d < today \/ d = firedOn'[r][t] \/ d = skippedOn[r][t]
        BY <2>1
    <2>2. d <= today
        BY <1>7 DEF FindDue, DatesAreLate
    <2>3. firedOn'[r][t] = IF IsDue(r, t) THEN today ELSE firedOn[r][t]
        BY <1>7 DEF FindDue
    <2> QED
        BY <2>1, <2>2, <2>3
<1>8. CASE PassEnds
    BY <1>8 DEF PassEnds, DatesAreLate, mainVars, loopVars, monitorVars, feedVars, worldVars
<1>9. CASE ClockTicks
    BY <1>9 DEF ClockTicks, mainVars, loopVars, monitorVars, feedVars, worldVars
<1>10. CASE Restart
    BY <1>10 DEF Restart, mainVars, loopVars, monitorVars, feedVars, worldVars
<1>11. ASSUME NEW r \in Runner, NEW t \in Trigger, DispatchTrigger(r, t) PROVE Remembered'
    <2>1. <<r, t>> \in due /\ delivered' \subseteq delivered \cup {<<r, t, today>>}
        BY <1>11 DEF DispatchTrigger
    <2>2. UNCHANGED <<main, at, registered, firedOn, skippedOn, loop, today, day, time>>
        BY <1>11 DEF DispatchTrigger, mainVars, loopVars, worldVars
    <2> QED
        BY <2>1, <2>2 DEF PendingIsMarked
<1>12. CASE Authenticate \/ Prepare \/ ConnectUpdates \/ StartMarket \/ StartRunner \/
        StopMonitor \/ StopLoop \/ Close \/ StartFails \/ UNCHANGED onceVars
    <2>1. UNCHANGED <<registered, firedOn, skippedOn, loop, today, day, delivered>>
        BY <1>12 DEF Authenticate, Prepare, ConnectUpdates, StartMarket, StartRunner, StopMonitor,
            StopLoop, Close, StartFails, onceVars, Goes, mainVars, loopVars, monitorVars, feedVars,
            worldVars
    <2> QED
        BY <2>1
<1> QED
    BY OnceSteps, <1>1, <1>2, <1>3, <1>4, <1>5, <1>6, <1>7, <1>8, <1>9, <1>10, <1>11, <1>12 DEF
        Main, Loop

\* The memory of what began is kept by every step, across restarts.
LEMMA OnceHolds == Spec => []OnceInv
<1>1. Init => OnceInv
    BY DEF Init, OnceInv, DeliveredWasDue, DatesAreLate, RegistersInOrder, PendingIsMarked,
        Remembered, Passing
<1>2. SchedulingInv /\ OnceInv /\ [Next]_vars => OnceInv'
    BY DeliveredStep, DatesStep, OrderStep, PendingStep, RememberedStep
    DEF SchedulingInv, OnceInv
<1> QED
    BY InvariantHolds, <1>1, <1>2, PTL DEF Spec

\* The entry, like every trigger that is not caught up, begins at most once a day,
\* however many processes the day sees.
THEOREM OnceADay == Spec => EntryBeginsOnceADay
<1> DEFINE Once ==
        \A r \in Runner, t \in Trigger \ FireOnStartup :
            lock'[r] = t /\ lock[r] # t => <<r, t, today>> \notin delivered
<1>1. SchedulingInv /\ OnceInv /\ [Next]_vars => [Once]_vars
    BY BeganFromDue DEF OnceInv, PendingIsMarked
<1>2. Spec => [][Once]_vars
  <2> HIDE DEF Once
  <2> QED
      BY InvariantHolds, OnceHolds, <1>1, PTL DEF Spec
<1> QED
    BY <1>2 DEF EntryBeginsOnceADay

--------------------------------------------------------------------------------
(* What a failed start leaves behind.                                        *)

Starting == {"authenticate", "accounts", "reconcile", "updates", "market", "start", "recover",
             "register", "loops"}

\* Until start() returns nothing of the two schedulers runs.
SchedulersOff ==
    /\ loop = "off" /\ ~beating /\ beat = 0 /\ due = {}
    /\ \A r \in Runner : lock[r] \notin Trigger \cup {"monitor"}
OffWhileStarting == main \in Starting \cup {"failed"} => SchedulersOff

LEMMA OffStep ==
    ASSUME MayFail \subseteq Starting, TypeOK, OffWhileStarting, [Next]_vars
    PROVE  OffWhileStarting'
<1> USE DEF OffWhileStarting, SchedulersOff, Starting, TypeOK, RunnersOK, ThreadsOK, Thread
<1>1. CASE Authenticate \/ Prepare \/ ConnectUpdates \/ StartMarket \/ Register
    BY <1>1 DEF Authenticate, Prepare, ConnectUpdates, StartMarket, Register, Goes, loopVars, monitorVars
<1>2. CASE StartRunner
    BY <1>2 DEF StartRunner, Goes, loopVars, monitorVars
<1>3. CASE Recovered
    BY <1>3 DEF Recovered, Goes, monitorVars
<1>4. CASE StartLoops \/ StopMonitor \/ StopLoop \/ StopRunner \/ Close
    BY <1>4 DEF StartLoops, StopMonitor, StopLoop, StopRunner, Close, Goes
<1>5. CASE StartFails
    BY <1>5 DEF StartFails, loopVars, monitorVars
<1>6. CASE Loop
    BY <1>6 DEF Loop, LoopEnds, ReadDate, FindDue, PassEnds, mainVars, monitorVars
<1>7. ASSUME NEW r \in Runner, NEW t \in Trigger, DispatchTrigger(r, t) \/ TriggerHookEnds(r, t)
      PROVE  OffWhileStarting'
    BY <1>7 DEF DispatchTrigger, TriggerHookEnds, HookEnds, mainVars
<1>8. CASE BeatEnds \/ BeatStarts
    BY <1>8 DEF BeatEnds, BeatStarts, mainVars, loopVars
<1>9. ASSUME NEW r \in Runner, MonitorDispatch(r) \/ MonitorHookEnds(r) PROVE OffWhileStarting'
    BY <1>9 DEF MonitorDispatch, MonitorHookEnds, HookEnds, mainVars
<1>10. CASE TickArrives \/ ClockTicks \/ Signal \/ UNCHANGED vars
    BY <1>10 DEF TickArrives, ClockTicks, Signal, vars, mainVars, loopVars, monitorVars
<1>11. ASSUME NEW r \in Runner, FeedDispatch(r) \/ FeedHookEnds(r) PROVE OffWhileStarting'
  <2>1. /\ UNCHANGED <<main, loop, due, beating, beat>>
        /\ \A q \in Runner : lock'[q] \in {lock[q], "feed", "free"}
    BY <1>11 DEF FeedDispatch, FeedHookEnds, HookBegins, HookDropped, HookEnds, mainVars, loopVars,
        monitorVars
  <2>2. "feed" \notin Trigger \cup {"monitor"} /\ "free" \notin Trigger \cup {"monitor"}
    OBVIOUS
  <2> QED
    BY <2>1, <2>2
<1>12. CASE Restart
    BY <1>12 DEF Restart
<1> QED
    BY <1>1, <1>2, <1>3, <1>4, <1>5, <1>6, <1>7, <1>8, <1>9, <1>10, <1>11, <1>12 DEF Next, Main

\* Whichever step of start() raises, neither scheduler has begun: no trigger and no
\* heartbeat ever runs in a process whose start failed (Application.start,
\* DependencyContainer.start).
THEOREM FailedStartIsQuiet ==
    MayFail \subseteq Starting => (Spec => [](main = "failed" => SchedulersOff))
<1> SUFFICES ASSUME MayFail \subseteq Starting PROVE Spec => [](main = "failed" => SchedulersOff)
    OBVIOUS
<1>1. Init => OffWhileStarting
    BY DEF Init, OffWhileStarting, SchedulersOff
<1>2. TypeOK /\ OffWhileStarting /\ [Next]_vars => OffWhileStarting'
    BY OffStep
<1>3. OffWhileStarting => (main = "failed" => SchedulersOff)
    BY DEF OffWhileStarting
<1> QED
    BY <1>1, <1>2, <1>3, SchedulingTypes, PTL DEF Spec

\* What app.py promises of a failed start holds as far as the first step: where only the
\* broker's refusal of the session can fail it, nothing is left running.  Every later step
\* that may raise is one after which something is (DependencyContainer.stop returns at
\* once).
THEOREM EarlyFailureLeavesNothing ==
    MayFail \subseteq {"authenticate"} => (Spec => []FailedStartLeavesNothing)
<1> SUFFICES ASSUME MayFail \subseteq {"authenticate"} PROVE Spec => []FailedStartLeavesNothing
    OBVIOUS
<1> DEFINE Closed == main \in {"authenticate", "failed"} => broker = "closed" /\ ~market
<1>1. Init => Closed
    BY DEF Init
<1>2. Closed /\ [Next]_vars => Closed'
  <2> SUFFICES ASSUME Closed, [Next]_vars PROVE Closed'
    OBVIOUS
  <2>1. CASE Main
      BY <2>1 DEF Main, Authenticate, Prepare, ConnectUpdates, StartMarket, StartRunner, Recovered,
          Register, StartLoops, StopMonitor, StopLoop, StopRunner, Close, Goes
  <2>2. CASE StartFails \/ Restart
      BY <2>2 DEF StartFails, Restart
  <2>3. CASE UNCHANGED <<main, broker, market>>
      BY <2>3
  <2>4. CASE Signal
      BY <2>4 DEF Signal
  <2> QED
      BY <2>1, <2>2, <2>3, <2>4 DEF Next, Loop, LoopEnds, ReadDate, FindDue, PassEnds, DispatchTrigger,
          TriggerHookEnds, BeatEnds, BeatStarts, TickArrives, MonitorDispatch, MonitorHookEnds,
          FeedDispatch, FeedHookEnds, ClockTicks, mainVars, vars
<1>3. Spec => [](main = "failed" => SchedulersOff)
    BY FailedStartIsQuiet DEF Starting
<1>4. Closed /\ (main = "failed" => SchedulersOff) => FailedStartLeavesNothing
    BY DEF FailedStartLeavesNothing, SchedulersOff
<1> QED
    BY <1>1, <1>2, <1>3, <1>4, PTL DEF Spec
================================================================================
