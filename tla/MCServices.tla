------------------------------- MODULE MCServices -------------------------------
(***************************************************************************)
(* The services that share no state with one another, in one run: the rate      *)
(* limiter, the pre-trade checks, the collector's tick writer and its session, the *)
(* simulated broker, the way of a price to the monitors (once with two that share a  *)
(* contract, once with one that watches two legs), the choice of the contracts, the    *)
(* calls to Kite, its daily token, and the records of an exit.  `focus` names the one    *)
(* that runs in a behaviour while the others stay as they began, so their state spaces     *)
(* add up instead of multiplying.                                                           *)
(***************************************************************************)
EXTENDS RateLimiter

VARIABLES
    focus,
    stage, seen, loaded, since, flags, engaged, row, open, closed, realized,
    arrived, dq, flush, stopping, writer, final, batch, attempt, db, outages, stored, dropped, late,
    orders, position, cash, lock, next, updates, told, engine, client, changes, failures,
    counts, tokens, connected, socket, served, thread, replay, arriving, fan, cache, hook, delta, got,
    watching, latest, ticked, raced, moves, drops, failed_polls,
    day, pc, phase, due, window, adds, leaving, lost, websocket, online, dead, subscribed, streamed,
    applying, replaced, down, up, silence, backoff, faults,
    config, exchange, date, age, dump, mapped, selecting, spot, expiry, ticking, failed, misses,
    book, sending, about, reading, tries, reply, absent, answer, straying, valid, foreign, asks, errors,
    login_day, accepted, issued, file, stamp, script, checks, token, dated, approved, reason, trader, env, mishaps,
    trade_day, step, exit_at, pnl, settled, collected, report, torn, rows, inserting, backfill, listed, todo,
    saved, botched, upsets

limiter == vars
risk == <<stage, seen, loaded, since, flags, engaged, row, open, closed, realized>>
ticks == <<arrived, dq, flush, stopping, writer, final, batch, attempt, db, outages, stored, dropped, late>>
sim == <<orders, position, cash, lock, next, updates, told, engine, client, changes, failures>>
prices == <<counts, tokens, connected, socket, served, thread, replay, arriving, fan, cache, hook, delta,
            got, watching, latest, ticked, raced, moves, drops, failed_polls>>
session == <<day, pc, phase, due, window, adds, leaving, lost, websocket, online, dead, subscribed,
             streamed, applying, replaced, down, up, silence, backoff, faults>>

contracts == <<config, exchange, date, age, dump, mapped, selecting, spot, expiry, ticking, failed, misses>>
kite == <<book, sending, about, reading, tries, reply, absent, answer, straying, valid, foreign, asks, errors>>
login == <<login_day, accepted, issued, file, stamp, script, checks, token, dated, approved, reason, trader,
           env, mishaps>>
records == <<trade_day, step, exit_at, pnl, settled, collected, report, torn, rows, inserting, backfill, listed,
             todo, saved, botched, upsets>>

SomeOrNone == {None, 1}

Risk == INSTANCE RiskCore WITH
    Entrants <- {"i1", "i2"}, Target <- {"i1", "account", "other"},
    FlagType <- {"FREEZE", "KILL_SWITCH", "EMERGENCY_EXIT"},
    MaxDailyEntries <- 2, LossLimit <- 1, Outcomes <- {-2, 3}, MaxOpen <- 1, MaxEngaged <- 1

Ticks == INSTANCE TickWriter WITH
    QueueMax <- 2, BatchSize <- 2, OverflowPolicy <- "drop_oldest", MaxTicks <- 4, MaxOutages <- 2

\* Prices are so far apart that every average cost is a whole number.
Sim == INSTANCE SimulationBroker WITH
    Caller <- {"c"}, Quantities <- {1, 2}, Prices <- {720, 1440}, MaxSteps <- 2,
    MaxOrders <- 2, FirstSides <- {"SELL"}, MaxIncidents <- 1, caller <- client

\* Two runners that may trade the same contract.
Shared == INSTANCE MarketData WITH
    Monitor <- {"m1", "m2"}, Instrument <- {"i1"}, Legs <- [m \in {"m1", "m2"} |-> {"i1"}],
    MaxMoves <- 0, MaxDrops <- 1, MaxFailures <- 0, ticks <- arriving, failures <- failed_polls

\* One runner and the two legs of its straddle.
Legged == INSTANCE MarketData WITH
    Monitor <- {"m1"}, Instrument <- {"i1", "i2"}, Legs <- [m \in {"m1"} |-> {"i1", "i2"}],
    MaxMoves <- 1, MaxDrops <- 1, MaxFailures <- 1, ticks <- arriving, failures <- failed_polls

Session == INSTANCE Collector WITH
    Windows <- {{1}, {1, 2}}, MaxDays <- 1, MaxFaults <- 1,
    drops <- leaving, socket <- websocket, connected <- online, served <- streamed

\* A weekly and a monthly contract of one exchange, around a holiday, with a configured
\* weekday and calendar that may or may not be the exchange's.
CalendarRules ==
    {[weekday |-> w, holidays |-> [e \in {"NFO", "BFO"} |-> IF e = "NFO" THEN h ELSE {2}]] :
        w \in {1, 4}, h \in {{}, {7, 8}}}
Choice == INSTANCE Contracts WITH
    Exchange <- {"NFO", "BFO"}, Instance <- {"w", "m"}, ExchangeOf <- [i \in {"w", "m"} |-> "NFO"],
    Cadence <- [i \in {"w", "m"} |-> IF i = "w" THEN "weekly" ELSE "monthly"], Skipping <- {"m"},
    MonthEnds <- {9, 37, 68}, Rules <- CalendarRules, Spots <- {130}, Interval <- 50,
    FirstDays <- {0, 4, 7}, MaxDays <- 2, MaxFaults <- 1,
    day <- date, tokens <- mapped, pc <- selecting, streamed <- ticking, faults <- misses

\* Two threads, one of which may send an order while the other looks for it.
Calls == INSTANCE KiteCalls WITH
    Caller <- {"c1", "c2"}, Request <- {"r"}, ReadAttempts <- 2, Resets <- FALSE,
    MaxCalls <- 3, MaxFaults <- 2,
    stage <- sending, late <- straying, calls <- asks, faults <- errors

Login == INSTANCE KiteTokens WITH
    MaxTokens <- 2, MaxDays <- 2, MaxFaults <- 2, day <- login_day, faults <- mishaps

\* Two exits of one day and one of the next.
Records == INSTANCE TradeRecords WITH
    Position <- {"p1", "p2", "p3"}, DayOf <- [p \in {"p1", "p2", "p3"} |-> IF p = "p3" THEN 2 ELSE 1],
    Pnls <- [p \in {"p1", "p2", "p3"} |-> IF p = "p2" THEN {-1} ELSE {2}], LastDay <- 2, MaxFaults <- 1,
    day <- trade_day, closed <- settled, faults <- upsets

Service == {"limiter", "risk", "ticks", "sim", "shared", "legged", "session",
            "choice", "calls", "login", "records"}

ServicesInit ==
    /\ focus \in Service
    /\ Init /\ Risk!Init /\ Ticks!Init /\ Sim!Init /\ Session!Init
    /\ Choice!Init /\ Calls!Init /\ Login!Init /\ Records!Init
    /\ IF focus = "legged" THEN Legged!Init ELSE Shared!Init
    /\ focus # "risk" => open = 0
    /\ focus # "choice" => date = 0 /\ config = exchange /\ config.weekday = 1 /\ config.holidays["NFO"] = {}

Runs(f) == focus = f /\ focus' = focus

\* A step of the service that runs.
InLimiter(A) == Runs("limiter") /\ A /\ UNCHANGED <<risk, ticks, sim, prices, session, contracts, kite, login, records>>
InRisk(A) == Runs("risk") /\ A /\ UNCHANGED <<limiter, ticks, sim, prices, session, contracts, kite, login, records>>
InTicks(A) == Runs("ticks") /\ A /\ UNCHANGED <<limiter, risk, sim, prices, session, contracts, kite, login, records>>
InSim(A) == Runs("sim") /\ A /\ UNCHANGED <<limiter, risk, ticks, prices, session, contracts, kite, login, records>>
InShared(A) == Runs("shared") /\ A /\ UNCHANGED <<limiter, risk, ticks, sim, session, contracts, kite, login, records>>
InLegged(A) == Runs("legged") /\ A /\ UNCHANGED <<limiter, risk, ticks, sim, session, contracts, kite, login, records>>
InSession(A) == Runs("session") /\ A /\ UNCHANGED <<limiter, risk, ticks, sim, prices, contracts, kite, login, records>>
InChoice(A) == Runs("choice") /\ A /\ UNCHANGED <<limiter, risk, ticks, sim, prices, session, kite, login, records>>
InCalls(A) == Runs("calls") /\ A /\ UNCHANGED <<limiter, risk, ticks, sim, prices, session, contracts, login, records>>
InLogin(A) == Runs("login") /\ A /\ UNCHANGED <<limiter, risk, ticks, sim, prices, session, contracts, kite, records>>
InRecords(A) == Runs("records") /\ A /\ UNCHANGED <<limiter, risk, ticks, sim, prices, session, contracts, kite, login>>

ServicesNext ==
    \/ InLimiter(Next) \/ InRisk(Risk!Next) \/ InTicks(Ticks!Next) \/ InSim(Sim!Next)
    \/ InShared(Shared!Next) \/ InLegged(Legged!Next) \/ InSession(Session!Next)
    \/ InChoice(Choice!Next) \/ InCalls(Calls!Next) \/ InLogin(Login!Next) \/ InRecords(Records!Next)

everything == <<focus, limiter, risk, ticks, sim, prices, session, contracts, kite, login, records>>

\* The state of the service that runs.
running ==
    CASE focus = "limiter" -> limiter [] focus = "risk" -> risk [] focus = "ticks" -> ticks
      [] focus = "sim" -> sim [] focus = "session" -> session [] focus \in {"shared", "legged"} -> prices
      [] focus = "choice" -> contracts [] focus = "calls" -> kite [] focus = "login" -> login
      [] focus = "records" -> records

\* The fairness of each module.  Only one of them runs in a behaviour, so a fair action
\* of one and a fair action of another make one that is as fair as both.
Fair1 ==
    \/ Runs("limiter") /\ TimePasses
    \/ Runs("ticks") /\ Ticks!Writer
    \/ Runs("sim") /\ \E t \in Sim!Thread : Sim!Pass(t)
    \/ Runs("legged") /\ Legged!Polling("m1")
    \/ Runs("session") /\ Session!Controller
Fair2 ==
    \/ Runs("sim") /\ Sim!Returns("c")
    \/ Runs("legged") /\ Legged!Ticker
    \/ Runs("session") /\ Session!LongTimePasses
Fair3 ==
    \/ Runs("sim") /\ \E o \in 1..2 : Sim!ComesDue(o)
    \/ Runs("legged") /\ Legged!TimePasses
    \/ Runs("session") /\ (Session!Connects \/ Session!HandleClose)
Fair4 ==
    \/ Runs("sim") /\ Sim!EngineTicks
    \/ Runs("session") /\ Session!ReadTokens
Fair5 == Runs("session") /\ Session!SendTokens

ServicesSpec ==
    /\ ServicesInit /\ [][ServicesNext]_everything
    /\ WF_running(Fair1) /\ WF_running(Fair2) /\ WF_running(Fair3)
    /\ \A c \in Callers : WF_running(Runs("limiter") /\ Acquires(c))
    /\ SF_running(Fair4) /\ SF_running(Fair5)

\* The type invariant of the module whose service runs.
ServicesTypeOK ==
    CASE focus = "limiter" -> TypeOK [] focus = "risk" -> Risk!TypeOK [] focus = "ticks" -> Ticks!TypeOK
      [] focus = "sim" -> Sim!TypeOK [] focus = "shared" -> Shared!TypeOK
      [] focus = "legged" -> Legged!TypeOK [] focus = "session" -> Session!TypeOK
      [] focus = "choice" -> Choice!TypeOK [] focus = "calls" -> Calls!TypeOK
      [] focus = "login" -> Login!TypeOK [] focus = "records" -> Records!TypeOK

\* A check with a standing reason rejects the entry (RiskCore).
StandingReasonRejects == Risk!StandingReasonRejects

\* A loss limit once breached stays breached for the day (RiskCore).
BreachIsSticky == Risk!BreachIsSticky

\* Every tick is queued, being written, stored in its order, or counted as lost (TickWriter).
TicksAreAccounted == Ticks!TicksAreAccounted

\* With the database up, every tick is stored or counted as lost (TickWriter).
EveryTickEnds == Ticks!EveryTickEnds

\* Cash and positions are what the fills add up to (SimulationBroker).
LedgerBalances == Sim!LedgerBalances

\* The simulated orders implement the abstract order book (SimulationBroker).
OrdersFollowTheBook == Sim!OrdersFollowTheBook

\* The engine hears of the end of every order (SimulationBroker).
EveryEndIsTold == Sim!EveryEndIsTold

\* The server sends what some monitor wants (MarketData, two monitors).
WantedIsStreamed == focus = "shared" => Shared!WantedIsStreamed

\* A monitor comes to know the price of both its legs (MarketData, one monitor).
MonitorsCatchUp == []<>(focus = "legged" => Legged!CaughtUp)

\* The server sends the whole window of strikes (Collector).
WindowIsStreamed == Session!WindowIsStreamed

\* In trading hours the collector comes back to streaming its window (Collector).
StreamComesBack == Session!StreamComesBack

\* The contracts an entry chooses are the ones the exchange would name (Contracts).
SelectionIsRight == Choice!SelectionIsRight

\* Kite's errors, translated, say no more of an order than is true (KiteCalls, OrderCalls).
KeepsContract == Calls!KeepsContract

\* The login script vouches for a token only after Kite has (KiteTokens).
TokensAreVerified == Login!TokensAreVerified

\* Reports and history rows agree with what was closed (TradeRecords).
RecordsAreTrue == Records!RecordsAreTrue
================================================================================
