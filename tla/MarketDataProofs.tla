---------------------------- MODULE MarketDataProofs ----------------------------
(***************************************************************************)
(* What the market data side promises, for any number of monitors, contracts, ticks,  *)
(* windows, drops and failures: the server sends what the monitors want (MarketData) *)
(* and what the collector's window holds (Collector), and the collector's writer         *)
(* accounts for every tick (TickWriter).                                                  *)
(***************************************************************************)
EXTENDS MarketData, SequenceTheorems, FiniteSetTheorems, TLAPS

CONSTANTS
    Windows, MaxDays, MaxFaults,                               \* of the collector
    QueueMax, BatchSize, OverflowPolicy, MaxTicks, MaxOutages  \* of its writer

VARIABLES
    day, pc, phase, due, window, adds, leaving, lost, websocket, online, dead, subscribed, streamed,
    applying, replaced, down, up, silence, backoff, faults,
    arrived, dq, flush, stopping, writer, final, batch, attempt, db, outages, stored, dropped, late

Session == INSTANCE Collector WITH
    drops <- leaving, socket <- websocket, connected <- online, served <- streamed

Ticks == INSTANCE TickWriter

--------------------------------------------------------------------------------
(* The feed of the monitors.                                                   *)

\* Monitors there are finitely many, and each watches contracts.
Feeds ==
    /\ IsFiniteSet(Monitor) /\ Legs \in [Monitor -> SUBSET Instrument]
    /\ MaxMoves \in Nat /\ MaxDrops \in Nat /\ MaxFailures \in Nat

\* The monitors that hold a contract can be counted.
LEMMA HoldersAreMonitors ==
    ASSUME Feeds, NEW i \in Instrument
    PROVE  IsFiniteSet(Holders(i)) /\ Cardinality(Holders(i)) \in 0..Cardinality(Monitor)
  <1>1. Holders(i) \subseteq Monitor BY DEF Holders
  <1>2. IsFiniteSet(Monitor) BY DEF Feeds
  <1>3. Cardinality(Monitor) \in Nat BY <1>2, FS_CardinalityType
  <1>4. IsFiniteSet(Holders(i)) /\ Cardinality(Holders(i)) <= Cardinality(Monitor)
    BY <1>1, <1>2, FS_Subset
  <1>5. Cardinality(Holders(i)) \in Nat BY <1>4, FS_CardinalityType
  <1> QED BY <1>3, <1>4, <1>5

\* Whoever held a contract still does, so its count is right as it was.
LEMMA SameHolders ==
    ASSUME TypeOK, CountsAreHolders, UNCHANGED counts,
           \A n \in Monitor : Holds(n)' = Holds(n)
    PROVE  CountsAreHolders'
  <1>1. \A i \in Instrument : Holders(i)' = Holders(i) BY DEF Holders
  <1> QED BY <1>1 DEF CountsAreHolders

\* A monitor that attaches is counted once for each of its legs (SubscriptionManager.subscribe).
LEMMA AttachCounts ==
    ASSUME Feeds, TypeOK, CountsAreHolders, NEW m \in Monitor, Attach(m)
    PROVE  CountsAreHolders'
  <1> SUFFICES ASSUME NEW i \in Instrument PROVE counts'[i] = Cardinality(Holders(i)')
    BY DEF CountsAreHolders
  <1>1. counts[i] = Cardinality(Holders(i)) BY DEF CountsAreHolders
  <1>2. ~Holds(m) /\ Holds(m)' BY DEF Attach, Goes, Holds, TypeOK
  <1>3. \A n \in Monitor \ {m} : Holds(n)' = Holds(n) BY DEF Attach, Goes, Holds, TypeOK
  <1>4. CASE i \in Legs[m]
    <2>1. Holders(i)' = Holders(i) \cup {m} /\ m \notin Holders(i) BY <1>2, <1>3, <1>4 DEF Holders
    <2>2. IsFiniteSet(Holders(i)) BY HoldersAreMonitors
    <2>3. Cardinality(Holders(i)') = Cardinality(Holders(i)) + 1 BY <2>1, <2>2, FS_AddElement
    <2>4. counts'[i] = counts[i] + 1 BY <1>4 DEF Attach, Counted
    <2> QED BY <1>1, <2>3, <2>4
  <1>5. CASE i \notin Legs[m]
    <2>1. Holders(i)' = Holders(i) BY <1>3, <1>5 DEF Holders
    <2>2. counts'[i] = counts[i] BY <1>5 DEF Attach, Counted
    <2> QED BY <1>1, <2>1, <2>2
  <1> QED BY <1>4, <1>5

\* A monitor that leaves is no longer counted (SubscriptionManager.unsubscribe).
LEMMA DetachCounts ==
    ASSUME Feeds, TypeOK, CountsAreHolders, NEW m \in Monitor, Detach(m)
    PROVE  CountsAreHolders'
  <1> SUFFICES ASSUME NEW i \in Instrument PROVE counts'[i] = Cardinality(Holders(i)')
    BY DEF CountsAreHolders
  <1>1. counts[i] = Cardinality(Holders(i)) BY DEF CountsAreHolders
  <1>2. Holds(m) /\ ~Holds(m)' BY DEF Detach, Goes, Holds, TypeOK
  <1>3. \A n \in Monitor \ {m} : Holds(n)' = Holds(n) BY DEF Detach, Goes, Holds, TypeOK
  <1>4. CASE i \in Legs[m]
    <2>1. Holders(i)' = Holders(i) \ {m} /\ m \in Holders(i) BY <1>2, <1>3, <1>4 DEF Holders
    <2>2. IsFiniteSet(Holders(i)) BY HoldersAreMonitors
    <2>3. Cardinality(Holders(i)') = Cardinality(Holders(i)) - 1 BY <2>1, <2>2, FS_RemoveElement
    <2>4. counts'[i] = counts[i] - 1 BY <1>4 DEF Detach, Released
    <2> QED BY <1>1, <2>3, <2>4
  <1>5. CASE i \notin Legs[m]
    <2>1. Holders(i)' = Holders(i) BY <1>3, <1>5 DEF Holders
    <2>2. counts'[i] = counts[i] BY <1>5 DEF Detach, Released
    <2> QED BY <1>1, <2>1, <2>2
  <1> QED BY <1>4, <1>5

\* Every step keeps the counts equal to the monitors that hold the contracts.
LEMMA CountsStep ==
    ASSUME Feeds, TypeOK, CountsAreHolders, [Next]_vars
    PROVE  CountsAreHolders'
  <1>1. ASSUME NEW m \in Monitor, Attach(m) PROVE CountsAreHolders' BY <1>1, AttachCounts
  <1>2. ASSUME NEW m \in Monitor, Detach(m) PROVE CountsAreHolders' BY <1>2, DetachCounts
  <1> DEFINE Rest(m) == SubCheck(m) \/ SubSend(m) \/ UnsubCheck(m) \/ UnsubSend(m) \/ UnsubCache(m) \/ Polls(m)
  <1>3. ASSUME NEW m \in Monitor, Rest(m) PROVE CountsAreHolders'
    <2>1. UNCHANGED counts
      BY <1>3 DEF SubCheck, SubSend, UnsubCheck, UnsubSend, UnsubCache, Polls, Poll, Look, Judge, Store, feed
    <2>2. Holds(m)' = Holds(m)
      BY <1>3 DEF SubCheck, SubSend, UnsubCheck, UnsubSend, UnsubCache, Stops, Watches, Polls, Poll,
                  Look, Judge, Store, Goes, Holds, TypeOK, mine
    <2>3. \A n \in Monitor \ {m} : Holds(n)' = Holds(n)
      BY <1>3 DEF SubCheck, SubSend, UnsubCheck, UnsubSend, UnsubCache, Stops, Watches, Polls, Poll,
                  Look, Judge, Store, Goes, Holds, TypeOK, mine
    <2> QED BY <2>1, <2>2, <2>3, SameHolders
  <1>4. ASSUME UNCHANGED <<counts, hook, watching>> PROVE CountsAreHolders'
    <2>1. \A n \in Monitor : Holds(n)' = Holds(n) BY <1>4 DEF Holds
    <2> QED BY <1>4, <2>1, SameHolders
  <1>5. ASSUME Ticker \/ HandleConnect \/ ReadActive \/ Drop \/ TimePasses \/ \E i \in Instrument : Move(i)
        PROVE UNCHANGED <<counts, hook, watching>>
    BY <1>5 DEF Ticker, Apply, SendTokens, Replay, HandleClose, ReadActive, OnTick, Deliver, HandleConnect,
                Drop, TimePasses, Move, feed, mine
  <1>6. CASE UNCHANGED vars BY <1>4, <1>6 DEF vars, feed, mine
  <1> QED BY <1>1, <1>2, <1>3, <1>4, <1>5, <1>6 DEF Next, Subscribes

\* Every step keeps the types; a count never goes below zero, for it counts monitors.
LEMMA FeedTypeStep ==
    ASSUME Feeds, TypeOK, CountsAreHolders', [Next]_vars
    PROVE  TypeOK'
  <1> USE DEF Feeds
  <1>0. \A i \in Instrument : Cardinality(Holders(i)') \in 0..Cardinality(Monitor)
    <2>1. \A i \in Instrument : Holders(i)' \subseteq Monitor BY DEF Holders
    <2>2. Cardinality(Monitor) \in Nat BY FS_CardinalityType
    <2>3. \A i \in Instrument : IsFiniteSet(Holders(i)') /\ Cardinality(Holders(i)') <= Cardinality(Monitor)
      BY <2>1, FS_Subset
    <2>4. \A i \in Instrument : Cardinality(Holders(i)') \in Nat BY <2>3, FS_CardinalityType
    <2> QED BY <2>2, <2>3, <2>4
  <1>1. \A i \in Instrument : counts'[i] \in 0..Cardinality(Monitor) BY <1>0 DEF CountsAreHolders
  <1>2. ASSUME NEW m \in Monitor, Attach(m) PROVE TypeOK'
    <2>1. counts' \in [Instrument -> 0..Cardinality(Monitor)] BY <1>1, <1>2 DEF Attach, Counted
    <2> QED BY <1>2, <2>1 DEF Attach, TypeOK, NewlyActive, Goes, prices
  <1>3. ASSUME NEW m \in Monitor, Detach(m) PROVE TypeOK'
    <2>1. counts' \in [Instrument -> 0..Cardinality(Monitor)] BY <1>1, <1>3 DEF Detach, Released
    <2> QED BY <1>3, <2>1 DEF Detach, TypeOK, NewlyInactive, Goes, prices
  <1>4. ASSUME NEW m \in Monitor, SubCheck(m) PROVE TypeOK'
    BY <1>4 DEF SubCheck, TypeOK, Goes, Watches, feed, prices
  <1>5. ASSUME NEW m \in Monitor, SubSend(m) PROVE TypeOK'
    BY <1>5 DEF SubSend, TypeOK, Goes, Watches, Sent, prices
  <1>6. ASSUME NEW m \in Monitor, UnsubCheck(m) PROVE TypeOK'
    <2>1. CASE delta[m] = {}
      <3>0. latest' = [latest EXCEPT ![m] = Nothing] BY <1>6, <2>1 DEF UnsubCheck, Stops
      <3>1. latest' \in [Monitor -> [Instrument -> Price]] BY <3>0 DEF TypeOK, Nothing, Price
      <3>2. UNCHANGED <<feed, thread, fan, prices, got>> BY <1>6 DEF UnsubCheck
      <3>3. /\ hook' = [hook EXCEPT ![m] = "none"] /\ delta' = [delta EXCEPT ![m] = {}]
            /\ watching' = [watching EXCEPT ![m] = "stopped"] /\ ticked' = [ticked EXCEPT ![m] = FALSE]
        BY <1>6, <2>1 DEF UnsubCheck, Stops, Goes
      <3> QED BY <3>1, <3>2, <3>3 DEF TypeOK, feed, prices
    <2>2. CASE delta[m] # {} BY <1>6, <2>2 DEF UnsubCheck, TypeOK, Goes, feed, prices
    <2> QED BY <2>1, <2>2
  <1>7. ASSUME NEW m \in Monitor, UnsubSend(m) PROVE TypeOK'
    BY <1>7 DEF UnsubSend, TypeOK, Goes, prices
  <1>8. ASSUME NEW m \in Monitor, UnsubCache(m) PROVE TypeOK'
    BY <1>8 DEF UnsubCache, TypeOK, Goes, Stops, Nothing, NotCached, Price, feed
  <1>9. ASSUME NEW m \in Monitor, Poll(m) PROVE TypeOK' BY <1>9 DEF Poll, TypeOK, Goes, feed, prices
  <1>10. ASSUME NEW m \in Monitor, Look(m) PROVE TypeOK' BY <1>10 DEF Look, TypeOK, Goes, Price, feed, prices
  <1>11. ASSUME NEW m \in Monitor, Judge(m) PROVE TypeOK'
    BY <1>11 DEF Judge, TypeOK, Goes, Price, PollAnswers, Fresh, feed
  <1>12. ASSUME NEW m \in Monitor, Store(m) PROVE TypeOK'
    BY <1>12 DEF Store, TypeOK, Goes, Price, Polled, Cached, Tracked, Nothing, feed
  <1>13. ASSUME Apply \/ SendTokens \/ Replay \/ HandleClose \/ ReadActive PROVE TypeOK'
    BY <1>13 DEF Apply, SendTokens, Replay, HandleClose, ReadActive, TypeOK, Active, Wanted, Sent, prices, mine
  <1>14. ASSUME HandleConnect \/ Drop PROVE TypeOK'
    <2>1. CASE HandleConnect BY <2>1 DEF HandleConnect, TypeOK, prices, mine
    <2>2. CASE Drop
      <3>1. drops' \in 0..MaxDrops BY <2>2 DEF Drop, TypeOK
      <3>2. ticks' \in [Instrument -> Price] BY <2>2 DEF Drop, Nothing, Price
      <3> QED BY <2>2, <3>1, <3>2 DEF Drop, TypeOK, mine
    <2> QED BY <1>14, <2>1, <2>2
  <1>15. ASSUME NEW i \in Instrument, OnTick(i) PROVE TypeOK'
    BY <1>15 DEF OnTick, TypeOK, Cached, Broadcast, Price, feed, mine
  <1>16. ASSUME NEW m \in Monitor, Deliver(m) PROVE TypeOK'
    <2>1. fan \in [instrument : Instrument, price : Price, rest : SUBSET Monitor]
      BY <1>16 DEF Deliver, TypeOK, NoFan
    <2>2. latest' \in [Monitor -> [Instrument -> Price]] BY <1>16, <2>1 DEF Deliver, TypeOK, Tracked, Nothing,
                                                                            Price
    <2>3. ticked' \in [Monitor -> BOOLEAN] BY <1>16 DEF Deliver, TypeOK
    <2>4. /\ fan' = NoFan \/ fan' \in [instrument : Instrument, price : Price, rest : SUBSET Monitor]
          /\ thread' \in {"idle", "broadcast"}
      BY <1>16, <2>1 DEF Deliver
    <2>5. UNCHANGED <<feed, prices, hook, delta, got, watching>> BY <1>16 DEF Deliver
    <2> QED BY <2>2, <2>3, <2>4, <2>5 DEF TypeOK, feed, prices
  <1>17. ASSUME NEW i \in Instrument, Move(i) PROVE TypeOK'
    <2>1. ASSUME NEW p \in Price PROVE Aged(p) \in Price BY DEF Aged, Price
    <2>2. fan' = NoFan \/ fan' \in [instrument : Instrument, price : Price, rest : SUBSET Monitor]
      <3>1. CASE fan = NoFan BY <1>17, <3>1 DEF Move, NoFan, Aged
      <3>2. CASE fan # NoFan BY <1>17, <2>1, <3>2 DEF Move, TypeOK
      <3> QED BY <3>1, <3>2
    <2>3. ticks' \in [Instrument -> Price] BY <1>17, <2>1 DEF Move, TypeOK, Price
    <2>4. cache' \in [Instrument -> [price : Price, fresh : BOOLEAN]]
      <3>1. cache \in [Instrument -> [price : Price, fresh : BOOLEAN]] BY DEF TypeOK
      <3>2. Aged(cache[i].price) \in Price BY <2>1, <3>1
      <3>3. cache' = [cache EXCEPT ![i].price = Aged(cache[i].price)] BY <1>17 DEF Move
      <3> QED BY <3>1, <3>2, <3>3
    <2>5. got' \in [Monitor -> [Instrument -> Price]] /\ latest' \in [Monitor -> [Instrument -> Price]]
      BY <1>17, <2>1 DEF Move, TypeOK
    <2>6. moves' \in 0..MaxMoves BY <1>17 DEF Move, TypeOK
    <2>7. UNCHANGED <<feed, thread, failures, hook, delta, watching, ticked>> BY <1>17 DEF Move
    <2> QED BY <2>2, <2>3, <2>4, <2>5, <2>6, <2>7 DEF TypeOK, feed
  <1>18. ASSUME TimePasses PROVE TypeOK' BY <1>18 DEF TimePasses, TypeOK, feed
  <1>19. CASE UNCHANGED vars BY <1>19 DEF TypeOK, vars, feed, prices, mine
  <1> QED BY <1>2, <1>3, <1>4, <1>5, <1>6, <1>7, <1>8, <1>9, <1>10, <1>11, <1>12, <1>13, <1>14, <1>15, <1>16,
             <1>17, <1>18, <1>19 DEF Next, Subscribes, Polls, Ticker

\* An unsubscribe under way of a contract that is wanted again is known as a race.
LEMMA RacedStep ==
    ASSUME Feeds, TypeOK, RacedIsKnown, [Next]_vars
    PROVE  RacedIsKnown'
  <1> USE DEF RacedIsKnown
  <1>1. ASSUME NEW m \in Monitor, Attach(m) PROVE RacedIsKnown'
    <2> SUFFICES ASSUME NEW n \in Monitor, NEW i \in Instrument, i \in Wanted', Unsubscribing(n,
          i)' PROVE i \in raced'
      BY DEF Wanted
    <2>1. n # m BY <1>1 DEF Attach, Goes, Unsubscribing, TypeOK
    <2>2. Unsubscribing(n, i) BY <1>1, <2>1 DEF Attach, Goes, Unsubscribing, TypeOK
    <2>3. CASE i \in Wanted BY <1>1, <2>2, <2>3 DEF Attach
    <2>4. CASE i \notin Wanted
      <3>1. i \in Legs[m] BY <1>1, <2>4 DEF Attach, Wanted, Counted
      <3> QED BY <1>1, <2>2, <2>4, <3>1 DEF Attach, NewlyActive
    <2> QED BY <2>3, <2>4
  <1>2. ASSUME NEW m \in Monitor, Detach(m) PROVE RacedIsKnown'
    <2> SUFFICES ASSUME NEW n \in Monitor, NEW i \in Instrument, i \in Wanted', Unsubscribing(n,
          i)' PROVE i \in raced'
      BY DEF Wanted
    <2>1. i \in Wanted /\ counts'[i] > 0 BY <1>2 DEF Detach, Wanted, Released, TypeOK
    <2>2. n # m
      <3> SUFFICES ASSUME n = m PROVE FALSE OBVIOUS
      <3>1. i \in Legs[m] /\ counts[i] = 1 BY <1>2 DEF Detach, Unsubscribing, NewlyInactive, TypeOK
      <3>2. counts'[i] = 0 BY <1>2, <3>1 DEF Detach, Released
      <3> QED BY <2>1, <3>2
    <2>3. Unsubscribing(n, i) BY <1>2, <2>2 DEF Detach, Goes, Unsubscribing, TypeOK
    <2> QED BY <1>2, <2>1, <2>3 DEF Detach
  <1> DEFINE Rest(m) == SubCheck(m) \/ SubSend(m) \/ UnsubCheck(m) \/ UnsubSend(m) \/ UnsubCache(m) \/ Polls(m)
  <1>3. ASSUME NEW m \in Monitor, Rest(m) PROVE RacedIsKnown'
    <2>1. UNCHANGED <<counts, raced>>
      BY <1>3 DEF SubCheck, SubSend, UnsubCheck, UnsubSend, UnsubCache, Polls, Poll, Look, Judge, Store, feed
    <2>2. \A n \in Monitor, i \in Instrument : Unsubscribing(n, i)' => Unsubscribing(n, i)
      BY <1>3 DEF SubCheck, SubSend, UnsubCheck, UnsubSend, UnsubCache, Stops, Watches, Polls, Poll,
                  Look, Judge, Store, Goes, Unsubscribing, TypeOK
    <2> QED BY <2>1, <2>2 DEF Wanted
  <1>4. ASSUME UNCHANGED <<counts, raced, hook, delta>> PROVE RacedIsKnown' BY <1>4 DEF Wanted, Unsubscribing
  <1>5. ASSUME Apply \/ SendTokens \/ Replay \/ HandleClose \/ HandleConnect \/ Drop \/ TimePasses
                 \/ (\E i \in Instrument : OnTick(i) \/ Move(i)) \/ (\E m \in Monitor : Deliver(m))
        PROVE UNCHANGED <<counts, raced, hook, delta>>
    BY <1>5 DEF Apply, SendTokens, Replay, HandleClose, OnTick, Deliver, HandleConnect, Drop, TimePasses, Move,
                feed, mine
  <1>6. ASSUME ReadActive PROVE RacedIsKnown' BY <1>6 DEF ReadActive, Wanted, Unsubscribing, mine
  <1>7. CASE UNCHANGED vars BY <1>4, <1>7 DEF vars, feed, mine
  <1> QED BY <1>1, <1>2, <1>3, <1>4, <1>5, <1>6, <1>7 DEF Next, Subscribes, Ticker

\* Whatever falls between a subscription and the server's answer, somebody has yet to ask
\* for what is wanted and not streamed.
LEMMA ForgottenStep ==
    ASSUME Feeds, TypeOK, RacedIsKnown, NoneIsForgotten, [Next]_vars
    PROVE  NoneIsForgotten'
  <1> SUFFICES ASSUME connected', socket' = "up", NEW i \in Instrument, i \in Wanted' \ raced'
               PROVE  i \in served' \/ OnItsWay(i)'
    BY DEF NoneIsForgotten, Wanted
  <1> USE DEF NoneIsForgotten
  <1>1. ASSUME NEW m \in Monitor, Attach(m) PROVE i \in served' \/ OnItsWay(i)'
    <2>1. CASE i \in Wanted
      <3>1. i \in served \/ OnItsWay(i) BY <1>1, <2>1 DEF Attach
      <3>2. OnItsWay(i) => OnItsWay(i)' BY <1>1 DEF Attach, Goes, OnItsWay, TypeOK
      <3> QED BY <1>1, <3>1, <3>2 DEF Attach
    <2>2. CASE i \notin Wanted
      <3>1. i \in Legs[m] BY <1>1, <2>2 DEF Attach, Wanted, Counted
      <3>2. hook'[m] = "sub_check" /\ i \in delta'[m] BY <1>1, <2>2, <3>1 DEF Attach, Goes, NewlyActive, TypeOK
      <3> QED BY <3>2 DEF OnItsWay
    <2> QED BY <2>1, <2>2
  <1> DEFINE Known == i \in served \/ OnItsWay(i)
  <1>2. ASSUME NEW m \in Monitor, Detach(m) \/ UnsubCheck(m) \/ UnsubCache(m) \/ Polls(m)
        PROVE i \in served' \/ OnItsWay(i)'
    <2>1. UNCHANGED <<connected, socket, served, raced, thread, replay>>
      BY <1>2 DEF Detach, UnsubCheck, UnsubCache, Polls, Poll, Look, Judge, Store, feed
    <2>2. i \in Wanted
      <3>1. CASE Detach(m)
        <4>1. counts'[i] > 0 /\ counts'[i] = IF i \in Legs[m] THEN counts[i] - 1 ELSE counts[i]
          BY <3>1 DEF Detach, Wanted, Released
        <4>2. counts[i] \in Int BY DEF TypeOK
        <4>3. counts[i] > 0 BY <4>1, <4>2
        <4> QED BY <4>3 DEF Wanted
      <3>2. CASE ~Detach(m)
        <4>1. UNCHANGED counts
          BY <1>2, <3>2 DEF UnsubCheck, UnsubCache, Polls, Poll, Look, Judge, Store, feed
        <4> QED BY <4>1 DEF Wanted
      <3> QED BY <3>1, <3>2
    <2>3. \A n \in Monitor : hook[n] \in {"sub_check", "sub_send"} => hook'[n] = hook[n] /\ delta'[n] = delta[n]
      BY <1>2 DEF Detach, UnsubCheck, UnsubCache, Stops, Polls, Poll, Look, Judge, Store, Goes, TypeOK
    <2> QED BY <2>1, <2>2, <2>3 DEF OnItsWay
  <1>3. ASSUME NEW m \in Monitor, SubCheck(m) PROVE i \in served' \/ OnItsWay(i)'
    <2>1. UNCHANGED <<connected, socket, counts, served, raced, thread, replay>> BY <1>3 DEF SubCheck, feed
    <2>2. Known BY <2>1 DEF Wanted
    <2>3. \A n \in Monitor : hook[n] \in {"sub_check", "sub_send"} /\ i \in delta[n]
              => hook'[n] \in {"sub_check", "sub_send"} /\ i \in delta'[n]
      BY <1>3, <2>1 DEF SubCheck, Goes, TypeOK
    <2> QED BY <2>1, <2>2, <2>3 DEF OnItsWay
  <1>4. ASSUME NEW m \in Monitor, SubSend(m) PROVE i \in served' \/ OnItsWay(i)'
    <2>1. UNCHANGED <<connected, socket, counts, raced, thread, replay>> BY <1>4 DEF SubSend
    <2>2. Known BY <2>1 DEF Wanted
    <2>3. served' = served \cup delta[m] BY <1>4, <2>1 DEF SubSend, Sent
    <2>4. \A n \in Monitor \ {m} : hook'[n] = hook[n] /\ delta'[n] = delta[n] BY <1>4 DEF SubSend, Goes, TypeOK
    <2> QED BY <2>1, <2>2, <2>3, <2>4 DEF OnItsWay
  <1>5. ASSUME NEW m \in Monitor, UnsubSend(m) PROVE i \in served' \/ OnItsWay(i)'
    <2>1. UNCHANGED <<connected, socket, counts, raced, thread, replay, delta>> BY <1>5 DEF UnsubSend
    <2>2. Known BY <2>1 DEF Wanted
    <2>3. i \notin delta[m] BY <1>5, <2>1 DEF UnsubSend, Unsubscribing, RacedIsKnown, Wanted
    <2>4. i \in served => i \in served' BY <1>5, <2>3 DEF UnsubSend
    <2>5. \A n \in Monitor : hook[n] \in {"sub_check", "sub_send"} => hook'[n] = hook[n]
      BY <1>5 DEF UnsubSend, Goes, TypeOK
    <2> QED BY <2>1, <2>2, <2>4, <2>5 DEF OnItsWay
  <1>6. ASSUME HandleConnect \/ Apply \/ SendTokens PROVE i \in served' \/ OnItsWay(i)'
    BY <1>6 DEF HandleConnect, Apply, SendTokens, OnItsWay
  <1>7. ASSUME ReadActive PROVE i \in served' \/ OnItsWay(i)'
    BY <1>7 DEF ReadActive, Active, Wanted, OnItsWay
  <1>8. ASSUME Replay PROVE i \in served' \/ OnItsWay(i)'
    <2>1. UNCHANGED <<connected, socket, counts, raced, hook, delta>> /\ thread = "replay" BY <1>8 DEF Replay,
          mine
    <2>2. Known BY <2>1 DEF Wanted
    <2>3. served' = served \cup replay BY <1>8, <2>1 DEF Replay, Sent
    <2> QED BY <2>1, <2>2, <2>3 DEF OnItsWay
  <1>9. ASSUME Drop \/ HandleClose PROVE FALSE BY <1>9 DEF Drop, HandleClose
  <1>10. ASSUME UNCHANGED <<feed, hook, delta>>, thread \in {"idle", "broadcast"} \/ UNCHANGED thread
         PROVE i \in served' \/ OnItsWay(i)'
    <2>1. Known BY <1>10 DEF Wanted, feed
    <2> QED BY <1>10, <2>1 DEF OnItsWay, feed
  <1>11. ASSUME TimePasses \/ (\E j \in Instrument : OnTick(j) \/ Move(j)) \/ (\E m \in Monitor : Deliver(m))
         PROVE UNCHANGED <<feed, hook, delta>> /\ (thread \in {"idle", "broadcast"} \/ UNCHANGED thread)
    BY <1>11 DEF TimePasses, OnTick, Move, Deliver, mine
  <1>12. CASE UNCHANGED vars BY <1>10, <1>12 DEF vars, mine
  <1> QED BY <1>1, <1>2, <1>3, <1>4, <1>5, <1>6, <1>7, <1>8, <1>9, <1>10, <1>11, <1>12 DEF Next, Subscribes,
                                                                                           Ticker

\* The types, the counts, the races and what is still to be asked for, through every
\* interleaving of monitors, callbacks, drops and polls (SubscriptionManager, KiteTickStream,
\* MarketDataService).
THEOREM FeedInvariant == ASSUME Feeds PROVE Spec => []FeedInv
  <1>1. Init => FeedInv
    <2> SUFFICES ASSUME Init PROVE FeedInv OBVIOUS
    <2>1. TypeOK
      <3>1. Cardinality(Monitor) \in Nat BY FS_CardinalityType DEF Feeds
      <3>2. 0 \in 0..Cardinality(Monitor) BY <3>1
      <3>3. counts \in [Instrument -> 0..Cardinality(Monitor)] BY <3>2 DEF Init
      <3>4. /\ ticks \in [Instrument -> Price] /\ cache \in [Instrument -> [price : Price, fresh : BOOLEAN]]
            /\ got \in [Monitor -> [Instrument -> Price]] /\ latest \in [Monitor -> [Instrument -> Price]]
        BY DEF Init, Nothing, NotCached, Price
      <3>5. moves \in 0..MaxMoves /\ drops \in 0..MaxDrops /\ failures \in 0..MaxFailures BY DEF Init, Feeds
      <3> QED BY <3>3, <3>4, <3>5 DEF Init, TypeOK
    <2>2. CountsAreHolders
      <3>1. \A i \in Instrument : Holders(i) = {} BY DEF Init, Holders, Holds
      <3> QED BY <3>1, FS_EmptySet DEF Init, CountsAreHolders
    <2>3. RacedIsKnown /\ NoneIsForgotten BY DEF Init, RacedIsKnown, Unsubscribing, NoneIsForgotten
    <2> QED BY <2>1, <2>2, <2>3 DEF FeedInv
  <1>2. FeedInv /\ [Next]_vars => FeedInv'
    BY CountsStep, FeedTypeStep, RacedStep, ForgottenStep DEF FeedInv
  <1> QED BY <1>1, <1>2, PTL DEF Spec

\* While the feed is up and no call is under way, the server sends every contract that is
\* wanted and not raced (WantedIsStreamed; subscribe, _on_connect, _resubscribe_all).
THEOREM StreamKeepsUp == ASSUME Feeds PROVE Spec => []WantedIsStreamed
  <1>1. FeedInv => WantedIsStreamed BY DEF FeedInv, NoneIsForgotten, OnItsWay, WantedIsStreamed
  <1> QED BY <1>1, FeedInvariant, PTL

--------------------------------------------------------------------------------
(* The collector's session.                                                   *)

\* There is a first day.
Calendar == MaxDays \in Nat \ {0} /\ MaxFaults \in Nat

\* The parts of TypeOK: what holds data, and what is a flag.
SessionData ==
    /\ day \in 1..MaxDays
    /\ pc \in {"wait", "watchdog", "recompute", "unsubscribe", "subscribe", "send"}
    /\ phase \in Session!Phase \cup {"None"}
    /\ window \subseteq Session!Token /\ adds \subseteq Session!Token /\ leaving \subseteq Session!Token
    /\ lost \subseteq Session!Token
    /\ subscribed \subseteq Session!Token /\ streamed \subseteq Session!Token
    /\ websocket \in {"none", "down", "up", "closing", "frozen", "gaveup"}
    /\ applying \in [stage : {"none", "read", "send"}, tokens : SUBSET Session!Token]
    /\ down \in {"unset", "within", "past"} /\ up \in {"unset", "within", "past"}
    /\ silence \in {"never", "within", "past"}
    /\ faults \in 0..MaxFaults
SessionFlags ==
    /\ due \in BOOLEAN /\ online \in BOOLEAN /\ dead \in BOOLEAN /\ replaced \in BOOLEAN
    /\ backoff \in BOOLEAN

\* TypeOK is its two parts.
LEMMA SessionTypes == Session!TypeOK <=> SessionData /\ SessionFlags
  BY DEF Session!TypeOK, SessionData, SessionFlags

\* Every step keeps the types of the data ...
LEMMA SessionDataStep ==
    ASSUME Calendar, SessionData, [Session!Next]_(Session!vars)
    PROVE  SessionData'
  <1> USE DEF Calendar
  <1>0. faults' \in 0..MaxFaults
    <2>1. faults \in 0..MaxFaults BY DEF SessionData
    <2>2. UNCHANGED faults \/ Session!Fault
      <3>1. CASE Session!OnPhase BY <3>1 DEF Session!OnPhase, Session!Start, Session!atm, Session!stream,
                                             Session!StopStream
      <3>2. CASE Session!Watchdog BY <3>2 DEF Session!Watchdog, Session!Passes, Session!Healthy,
                                              Session!Unhealthy, Session!RestartStream
      <3>3. CASE Session!NoRecompute \/ Session!Recompute \/ Session!Unsubscribe \/ Session!Subscribe
            \/ Session!Send
        BY <3>3 DEF Session!NoRecompute, Session!Recompute, Session!UpsertFails, Session!Unsubscribe,
                    Session!Subscribe, Session!Send, Session!Fault
      <3>4. CASE Session!Callback \/ Session!Lose \/ Session!HandleNoreconnect \/ Session!CallsLate
            \/ Session!Tick \/ Session!TimePasses
        BY <3>4 DEF Session!Callback, Session!Connects, Session!ReadTokens, Session!SendTokens,
                    Session!HandleClose, Session!Lose, Session!HandleNoreconnect, Session!CallsLate,
                    Session!Tick, Session!TimePasses
      <3>5. CASE UNCHANGED Session!vars BY <3>5 DEF Session!vars
      <3> QED BY <3>1, <3>2, <3>3, <3>4, <3>5 DEF Session!Next, Session!Controller
    <2> QED BY <2>1, <2>2 DEF Session!Fault
  <1>1. CASE Session!OnPhase
    <2>1. day' \in 1..MaxDays BY <1>1 DEF Session!OnPhase, SessionData
    <2>2. /\ window' \subseteq Session!Token /\ adds' \subseteq Session!Token
          /\ leaving' \subseteq Session!Token /\ lost' \subseteq Session!Token
          /\ subscribed' \subseteq Session!Token /\ streamed' \subseteq Session!Token
      BY <1>1 DEF Session!OnPhase, Session!Start, Session!StopStream, SessionData, Session!atm, Session!stream
    <2>3. websocket' \in {"none", "down", "up", "closing", "frozen", "gaveup"}
      BY <1>1 DEF Session!OnPhase, Session!Start, Session!StopStream, SessionData, Session!atm, Session!stream,
                  Session!Discarded
    <2>4. applying' \in [stage : {"none", "read", "send"}, tokens : SUBSET Session!Token]
      BY <1>1 DEF Session!OnPhase, Session!Start, Session!StopStream, SessionData, Session!atm, Session!stream,
                  Session!NotApplying
    <2>6. phase' \in Session!Phase \cup {"None"} /\ pc' \in {"wait", "watchdog"} /\ UNCHANGED Session!watchdog
      BY <1>1 DEF Session!OnPhase, Session!Goes
    <2> QED BY <1>0, <2>1, <2>2, <2>3, <2>4, <2>6 DEF SessionData, Session!watchdog
  <1>2. CASE Session!Watchdog
    <2>0. UNCHANGED <<Session!session, window, adds, leaving, lost, silence>> BY <1>2 DEF Session!Watchdog
    <2>1. ASSUME NEW d \in {"unset", "within", "past"}, NEW u \in {"unset", "within", "past"},
          Session!Passes(d, u)
          PROVE SessionData'
      BY <1>0, <2>0, <2>1 DEF Session!Passes, SessionData, Session!Goes, Session!Afterwards, Session!session,
                              Session!stream
    <2>2. ASSUME NEW d \in {"unset", "within", "past"}, NEW u \in {"unset", "within", "past"},
          Session!RestartStream(d, u)
          PROVE SessionData'
      BY <1>0, <2>0, <2>2 DEF Session!RestartStream, Session!Restarted, Session!Kept, Session!Discarded,
                              Session!NotApplying, SessionData, Session!Goes, Session!Afterwards,
                              Session!session
    <2>3. CASE Session!Healthy
      <3>1. (IF up = "unset" THEN "within" ELSE up) \in {"unset", "within", "past"} BY DEF SessionData
      <3> QED BY <2>1, <2>2, <2>3, <3>1 DEF Session!Healthy
    <2>4. CASE Session!Unhealthy
      <3>1. (IF down = "unset" THEN "within" ELSE down) \in {"unset", "within", "past"} BY DEF SessionData
      <3> QED BY <2>1, <2>2, <2>4, <3>1 DEF Session!Unhealthy
    <2> QED BY <1>2, <2>1, <2>3, <2>4 DEF Session!Watchdog
  <1>3. CASE Session!NoRecompute BY <1>0, <1>3 DEF Session!NoRecompute, SessionData, Session!Goes,
                                                   Session!session, Session!stream, Session!watchdog
  <1>4. CASE Session!Recompute
    <2>1. PICK target \in Windows :
            /\ window' = target
            /\ \/ /\ adds' = target \ window /\ leaving' = window \ target
                  /\ lost' = lost \cap target
                  /\ Session!Goes("unsubscribe") /\ UNCHANGED <<due, faults>>
               \/ Session!UpsertFails(target \ window)
      BY <1>4 DEF Session!Recompute
    <2>2. target \subseteq Session!Token BY DEF Session!Token
    <2> QED BY <1>0, <1>4, <2>1, <2>2 DEF Session!Recompute, Session!UpsertFails, Session!Interrupted,
                                          SessionData, Session!Goes, Session!session, Session!stream,
                                          Session!watchdog
  <1>5. CASE Session!Unsubscribe BY <1>0, <1>5 DEF Session!Unsubscribe, Session!Interrupted, SessionData,
                                                   Session!Goes, Session!session, Session!atm, Session!watchdog
  <1>6. CASE Session!Subscribe \/ Session!Send BY <1>0, <1>6 DEF Session!Subscribe, Session!Send,
                                                                 Session!Raises, SessionData, Session!Goes,
                                                                 Session!session, Session!atm, Session!watchdog
  <1>7. CASE Session!Callback
    BY <1>0, <1>7 DEF Session!Callback, Session!Connects, Session!ReadTokens, Session!SendTokens,
                      Session!HandleClose, Session!NotApplying, SessionData, Session!session, Session!atm,
                      Session!watchdog
  <1>8. CASE Session!Lose \/ Session!HandleNoreconnect \/ Session!CallsLate
    BY <1>0, <1>8 DEF Session!Lose, Session!HandleNoreconnect, Session!CallsLate, SessionData, Session!session,
                      Session!atm, Session!watchdog
  <1>9. CASE Session!Tick \/ Session!TimePasses BY <1>0, <1>9 DEF Session!Tick, Session!TimePasses,
                                                                  Session!Past, SessionData, Session!session,
                                                                  Session!atm, Session!stream
  <1>10. CASE UNCHANGED Session!vars BY <1>10 DEF SessionData, Session!vars, Session!session, Session!atm,
                                                  Session!stream, Session!watchdog
  <1> QED BY <1>1, <1>2, <1>3, <1>4, <1>5, <1>6, <1>7, <1>8, <1>9, <1>10 DEF Session!Next, Session!Controller

\* ... and those of the flags ...
LEMMA SessionFlagsStep ==
    ASSUME SessionFlags, [Session!Next]_(Session!vars)
    PROVE  SessionFlags'
  <1>1. due' \in BOOLEAN
    <2>0. due \in BOOLEAN BY DEF SessionFlags
    <2>1. CASE Session!OnPhase BY <2>0, <2>1 DEF Session!OnPhase, Session!atm
    <2>2. CASE Session!Watchdog BY <2>0, <2>2 DEF Session!Watchdog, Session!Healthy, Session!Unhealthy,
                                                  Session!Passes, Session!RestartStream
    <2>3. CASE Session!NoRecompute \/ Session!Recompute \/ Session!Unsubscribe
      BY <2>0, <2>3 DEF Session!NoRecompute, Session!Recompute, Session!UpsertFails, Session!Unsubscribe,
                        Session!Interrupted, Session!atm
    <2>4. CASE Session!Subscribe \/ Session!Send BY <2>0, <2>4 DEF Session!Subscribe, Session!Send, Session!atm
    <2>5. CASE Session!Callback \/ Session!Lose \/ Session!HandleNoreconnect \/ Session!CallsLate
          \/ Session!Tick \/ Session!TimePasses
      BY <2>0, <2>5 DEF Session!Callback, Session!Connects, Session!ReadTokens, Session!SendTokens,
                        Session!HandleClose, Session!Lose, Session!HandleNoreconnect, Session!CallsLate,
                        Session!Tick, Session!TimePasses, Session!atm
    <2>6. CASE UNCHANGED Session!vars BY <2>0, <2>6 DEF Session!vars, Session!atm
    <2> QED BY <2>1, <2>2, <2>3, <2>4, <2>5, <2>6 DEF Session!Next, Session!Controller
  <1> DEFINE Kept1(x, y) == y = x \/ y = TRUE \/ y = FALSE
  <1>2. Kept1(online, online') /\ Kept1(dead, dead')
    <2>1. CASE Session!OnPhase BY <2>1 DEF Session!OnPhase, Session!Start, Session!StopStream, Session!stream
    <2>2. CASE Session!Watchdog BY <2>2 DEF Session!Watchdog, Session!Healthy, Session!Unhealthy,
                                            Session!Passes, Session!RestartStream, Session!Restarted,
                                            Session!stream
    <2>3. CASE Session!NoRecompute \/ Session!Recompute \/ Session!Unsubscribe \/ Session!Subscribe
          \/ Session!Send
      BY <2>3 DEF Session!NoRecompute, Session!Recompute, Session!Unsubscribe, Session!Subscribe, Session!Send,
                  Session!stream
    <2>4. CASE Session!Callback \/ Session!Lose \/ Session!HandleNoreconnect \/ Session!CallsLate
          \/ Session!Tick \/ Session!TimePasses
      BY <2>4 DEF Session!Callback, Session!Connects, Session!ReadTokens, Session!SendTokens,
                  Session!HandleClose, Session!Lose, Session!HandleNoreconnect, Session!CallsLate,
                        Session!Tick, Session!TimePasses, Session!stream
    <2>5. CASE UNCHANGED Session!vars BY <2>5 DEF Session!vars, Session!stream
    <2> QED BY <2>1, <2>2, <2>3, <2>4, <2>5 DEF Session!Next, Session!Controller
  <1>3. online' \in BOOLEAN BY <1>2 DEF SessionFlags
  <1>4. dead' \in BOOLEAN BY <1>2 DEF SessionFlags
  <1>5. replaced' = replaced \/ replaced' = FALSE \/ replaced' = Session!Discarded
    <2>1. CASE Session!OnPhase BY <2>1 DEF Session!OnPhase, Session!Start, Session!StopStream, Session!stream
    <2>2. CASE Session!Watchdog BY <2>2 DEF Session!Watchdog, Session!Healthy, Session!Unhealthy,
                                            Session!Passes, Session!RestartStream, Session!Restarted,
                                            Session!stream
    <2>3. CASE Session!NoRecompute \/ Session!Recompute \/ Session!Unsubscribe \/ Session!Subscribe
          \/ Session!Send
      BY <2>3 DEF Session!NoRecompute, Session!Recompute, Session!Unsubscribe, Session!Subscribe, Session!Send,
                  Session!stream
    <2>4. CASE Session!Callback \/ Session!Lose \/ Session!HandleNoreconnect \/ Session!CallsLate
          \/ Session!Tick \/ Session!TimePasses
      BY <2>4 DEF Session!Callback, Session!Connects, Session!ReadTokens, Session!SendTokens,
                  Session!HandleClose, Session!Lose, Session!HandleNoreconnect, Session!CallsLate,
                        Session!Tick, Session!TimePasses, Session!stream
    <2>5. CASE UNCHANGED Session!vars BY <2>5 DEF Session!vars, Session!stream
    <2> QED BY <2>1, <2>2, <2>3, <2>4, <2>5 DEF Session!Next, Session!Controller
  <1>6. replaced' \in BOOLEAN
    <2>1. replaced \in BOOLEAN BY DEF SessionFlags
    <2>2. Session!Discarded \in BOOLEAN BY <2>1 DEF Session!Discarded
    <2> QED BY <1>5, <2>1, <2>2
  <1>7. backoff' = backoff \/ backoff' = TRUE \/ backoff' = FALSE
    <2>1. CASE Session!OnPhase BY <2>1 DEF Session!OnPhase, Session!watchdog
    <2>2. CASE Session!Watchdog BY <2>2 DEF Session!Watchdog, Session!Healthy, Session!Unhealthy,
                                            Session!Passes, Session!RestartStream
    <2>3. CASE Session!NoRecompute \/ Session!Recompute \/ Session!Unsubscribe \/ Session!Subscribe
          \/ Session!Send
      BY <2>3 DEF Session!NoRecompute, Session!Recompute, Session!Unsubscribe, Session!Subscribe, Session!Send,
                  Session!watchdog
    <2>4. CASE Session!Callback \/ Session!Lose \/ Session!HandleNoreconnect \/ Session!CallsLate
          \/ Session!Tick \/ Session!TimePasses
      BY <2>4 DEF Session!Callback, Session!Connects, Session!ReadTokens, Session!SendTokens,
                  Session!HandleClose, Session!Lose, Session!HandleNoreconnect, Session!CallsLate,
                        Session!Tick, Session!TimePasses, Session!watchdog
    <2>5. CASE UNCHANGED Session!vars BY <2>5 DEF Session!vars, Session!watchdog
    <2> QED BY <2>1, <2>2, <2>3, <2>4, <2>5 DEF Session!Next, Session!Controller
  <1>8. backoff' \in BOOLEAN BY <1>7 DEF SessionFlags
  <1> QED BY <1>1, <1>3, <1>4, <1>6, <1>8 DEF SessionFlags

\* ... and so all of them.
LEMMA SessionTypeStep ==
    ASSUME Calendar, Session!TypeOK, [Session!Next]_(Session!vars)
    PROVE  Session!TypeOK'
  <1>1. SessionData' BY SessionTypes, SessionDataStep
  <1>2. SessionFlags' BY SessionTypes, SessionFlagsStep
  <1>3. Session!TypeOK' <=> SessionData' /\ SessionFlags' BY DEF Session!TypeOK, SessionData, SessionFlags
  <1> QED BY <1>1, <1>2, <1>3

\* Whatever diff is applied or cut short, and whatever ticker is thrown away, what is in the
\* window stays subscribed.
LEMMA SessionRememberedStep ==
    ASSUME Session!TypeOK, Session!DropsAreOutside, Session!WindowIsRemembered, [Session!Next]_(Session!vars)
    PROVE  Session!DropsAreOutside' /\ Session!WindowIsRemembered'
  <1> USE DEF Session!DropsAreOutside, Session!WindowIsRemembered, Session!Pending
  <1>1. CASE Session!OnPhase BY <1>1 DEF Session!OnPhase, Session!Start, Session!StopStream, Session!atm,
                                         Session!stream, Session!Goes
  <1>2. CASE Session!Watchdog
    <2>1. UNCHANGED <<window, leaving, lost, subscribed>> /\ pc' \notin {"unsubscribe", "subscribe"}
      BY <1>2 DEF Session!Watchdog, Session!Healthy, Session!Unhealthy, Session!Passes, Session!RestartStream,
                  Session!Restarted, Session!Kept, Session!Goes, Session!Afterwards, Session!stream
    <2> QED BY <1>2, <2>1 DEF Session!Watchdog
  <1>3. CASE Session!NoRecompute BY <1>3 DEF Session!NoRecompute, Session!Goes, Session!stream
  <1>4. CASE Session!Recompute BY <1>4 DEF Session!Recompute, Session!UpsertFails, Session!Interrupted,
                                           Session!Goes, Session!stream
  <1>5. CASE Session!Unsubscribe BY <1>5 DEF Session!Unsubscribe, Session!Interrupted, Session!Goes, Session!atm
  <1>6. CASE Session!Subscribe \/ Session!Send BY <1>6 DEF Session!Subscribe, Session!Send, Session!Goes,
                                                           Session!atm
  <1>7. CASE UNCHANGED <<window, leaving, lost, pc, adds, subscribed>> BY <1>7
  <1>8. ASSUME Session!Callback \/ Session!Lose \/ Session!HandleNoreconnect \/ Session!CallsLate
        \/ Session!Tick \/ Session!TimePasses
        PROVE UNCHANGED <<window, leaving, lost, pc, adds, subscribed>>
    BY <1>8 DEF Session!Callback, Session!Connects, Session!ReadTokens, Session!SendTokens,
                Session!HandleClose, Session!Lose, Session!HandleNoreconnect, Session!CallsLate, Session!Tick,
                Session!TimePasses, Session!atm, Session!stream
  <1>9. CASE UNCHANGED Session!vars BY <1>7, <1>9 DEF Session!vars, Session!atm, Session!stream
  <1> QED BY <1>1, <1>2, <1>3, <1>4, <1>5, <1>6, <1>7, <1>8, <1>9 DEF Session!Next, Session!Controller

\* While a connection is up, some thread has yet to ask for what is not streamed.
LEMMA SessionForgottenStep ==
    ASSUME Session!TypeOK, Session!DropsAreOutside, Session!WindowIsRemembered, Session!NoneIsForgotten,
    [Session!Next]_(Session!vars)
    PROVE  Session!NoneIsForgotten'
  <1> SUFFICES ASSUME online', websocket' = "up", NEW t \in window' \ lost'
               PROVE  t \in streamed' \/ Session!OnItsWay(t)'
    BY DEF Session!NoneIsForgotten
  <1> USE DEF Session!NoneIsForgotten
  <1>1. CASE Session!OnPhase
    <2>1. UNCHANGED <<window, lost, adds, Session!stream>> /\ pc = "wait"
      BY <1>1 DEF Session!OnPhase, Session!Start, Session!StopStream, Session!atm, Session!stream
    <2> QED BY <2>1 DEF Session!OnItsWay, Session!stream
  <1>2. CASE Session!Watchdog
    <2>1. UNCHANGED <<window, lost, adds, Session!stream>> /\ pc = "watchdog"
      BY <1>2 DEF Session!Watchdog, Session!Healthy, Session!Unhealthy, Session!Passes, Session!RestartStream,
                  Session!Restarted
    <2> QED BY <2>1 DEF Session!OnItsWay, Session!stream
  <1>3. CASE Session!NoRecompute BY <1>3 DEF Session!NoRecompute, Session!OnItsWay, Session!stream
  <1>4. CASE Session!Recompute
    <2>1. UNCHANGED <<streamed, online, websocket, applying>> /\ pc = "recompute" BY <1>4 DEF Session!Recompute, Session!stream
    <2>2. t \in window \ lost \/ (pc' = "unsubscribe" /\ t \in adds')
      BY <1>4 DEF Session!Recompute, Session!UpsertFails, Session!Interrupted, Session!Goes
    <2> QED BY <2>1, <2>2 DEF Session!OnItsWay
  <1>5. CASE Session!Unsubscribe
    <2>1. UNCHANGED <<online, websocket, applying, window>> /\ pc = "unsubscribe" /\ t \notin leaving
      BY <1>5 DEF Session!Unsubscribe, Session!DropsAreOutside, Session!atm
    <2>2. t \in streamed => t \in streamed' BY <1>5, <2>1 DEF Session!Unsubscribe
    <2>3. t \notin lost /\ (t \in adds => pc' = "subscribe" /\ t \in adds')
      BY <1>5 DEF Session!Unsubscribe, Session!Interrupted, Session!Goes, Session!atm
    <2> QED BY <2>1, <2>2, <2>3 DEF Session!OnItsWay
  <1>6. CASE Session!Subscribe BY <1>6 DEF Session!Subscribe, Session!OnItsWay, Session!Goes, Session!atm
  <1>7. CASE Session!Send BY <1>7 DEF Session!Send, Session!OnItsWay
  <1>8. CASE Session!Connects \/ Session!Lose \/ Session!HandleClose \/ Session!HandleNoreconnect
    BY <1>8 DEF Session!Connects, Session!Lose, Session!HandleClose, Session!HandleNoreconnect, Session!OnItsWay
  <1>9. CASE Session!ReadTokens
    <2>1. UNCHANGED <<pc, Session!atm, websocket, online, streamed>> /\ applying' = [stage |-> "send",
          tokens |-> subscribed]
      BY <1>9 DEF Session!ReadTokens
    <2>2. t \in subscribed \/ t \in Session!Pending BY <2>1 DEF Session!WindowIsRemembered, Session!atm
    <2> QED BY <2>1, <2>2 DEF Session!OnItsWay, Session!Pending, Session!atm
  <1>10. CASE Session!SendTokens BY <1>10 DEF Session!SendTokens, Session!OnItsWay, Session!atm
  <1>11. CASE Session!CallsLate BY <1>11 DEF Session!CallsLate, Session!OnItsWay
  <1>12. CASE Session!Tick \/ Session!TimePasses BY <1>12 DEF Session!Tick, Session!TimePasses,
                                                              Session!OnItsWay, Session!atm, Session!stream
  <1>13. CASE UNCHANGED Session!vars BY <1>13 DEF Session!vars, Session!OnItsWay, Session!atm, Session!stream
  <1> QED BY <1>1, <1>2, <1>3, <1>4, <1>5, <1>6, <1>7, <1>8, <1>9, <1>10, <1>11, <1>12, <1>13
          DEF Session!Next, Session!Controller, Session!Callback

\* The types, what is subscribed and what is still to be asked for, through losses, rebuilds,
\* late callbacks of replaced tickers and diffs cut short (CollectorService, CollectorTickStream).
THEOREM SessionInvariant == ASSUME Calendar PROVE Session!Spec => []Session!SessionInv
  <1>1. Session!Init => Session!SessionInv
    <2> SUFFICES ASSUME Session!Init PROVE Session!SessionInv OBVIOUS
    <2>1. SessionData BY DEF Session!Init, Calendar, SessionData, Session!NotApplying
    <2>2. SessionFlags BY DEF Session!Init, SessionFlags
    <2>3. Session!DropsAreOutside /\ Session!WindowIsRemembered /\ Session!NoneIsForgotten
      BY DEF Session!Init, Session!DropsAreOutside, Session!WindowIsRemembered, Session!NoneIsForgotten
    <2> QED BY <2>1, <2>2, <2>3, SessionTypes DEF Session!SessionInv
  <1>2. Session!SessionInv /\ [Session!Next]_(Session!vars) => Session!SessionInv'
    BY SessionTypeStep, SessionRememberedStep, SessionForgottenStep DEF Session!SessionInv
  <1> QED BY <1>1, <1>2, PTL DEF Session!Spec

\* The server streams the whole window as soon as nobody is changing it (WindowIsStreamed;
\* _recompute_all, _handle_connect, restart).
THEOREM WindowKeepsUp == ASSUME Calendar PROVE Session!Spec => []Session!WindowIsStreamed
  <1>1. Session!SessionInv => Session!WindowIsStreamed BY DEF Session!SessionInv, Session!NoneIsForgotten,
                                                              Session!OnItsWay, Session!Idle,
                                                              Session!WindowIsStreamed
  <1> QED BY <1>1, SessionInvariant, PTL

--------------------------------------------------------------------------------
(* The tick writer.                                                            *)

\* A queue and a batch have room for a tick.
Sizes == /\ QueueMax \in Nat \ {0} /\ BatchSize \in Nat \ {0}
         /\ MaxTicks \in Nat /\ MaxOutages \in Nat

TickSeq == Seq(1..MaxTicks)

\* A sequence of ticks, read.
LEMMA TicksOf ==
    ASSUME NEW s \in TickSeq
    PROVE  /\ Len(s) \in Nat /\ DOMAIN s = 1..Len(s)
           /\ \A i \in 1..Len(s) : s[i] \in 1..MaxTicks
  BY LenProperties, ElementOfSeq DEF TickSeq

\* What Append, Tail and Concat do to the ticks of a sequence and to their order.
LEMMA AppendTicks ==
    ASSUME NEW s \in TickSeq, NEW t \in 1..MaxTicks, Sizes
    PROVE  /\ Append(s, t) \in TickSeq /\ Len(Append(s, t)) = Len(s) + 1
           /\ Ticks!ToSet(Append(s, t)) = Ticks!ToSet(s) \cup {t}
           /\ Ticks!Ascending(s) /\ (\A e \in Ticks!ToSet(s) : e < t) => Ticks!Ascending(Append(s, t))
  <1> DEFINE n == Len(s)
             a == Append(s, t)
  <1>1. /\ a \in TickSeq /\ Len(a) = n + 1 /\ DOMAIN a = 1..(n + 1) /\ n \in Nat /\ DOMAIN s = 1..n
        /\ a[n + 1] = t /\ \A i \in 1..n : a[i] = s[i]
    BY AppendProperties DEF TickSeq
  <1> HIDE DEF a, n
  <1>2. Ticks!ToSet(a) = Ticks!ToSet(s) \cup {t}
    BY <1>1 DEF Ticks!ToSet
  <1>3. ASSUME Ticks!Ascending(s), \A e \in Ticks!ToSet(s) : e < t,
               NEW i \in 1..(n + 1), NEW j \in 1..(n + 1), i < j
        PROVE  a[i] < a[j]
    <2>1. i \in 1..n BY <1>1, <1>3
    <2>2. a[i] = s[i] /\ s[i] < t BY <2>1, <1>1, <1>3 DEF Ticks!ToSet
    <2>3. CASE j = n + 1 BY <2>2, <2>3, <1>1
    <2>4. CASE j # n + 1
      <3>1. j \in 1..n BY <2>4, <1>1, <1>3
      <3>2. QED BY <3>1, <2>1, <1>1, <1>3 DEF Ticks!Ascending
    <2> QED BY <2>3, <2>4
  <1>4. QED
    BY <1>1, <1>2, <1>3 DEF Ticks!Ascending, a, n

\* A sequence cut after its first n ticks.
LEMMA CutTicks ==
    ASSUME NEW s \in TickSeq, NEW n \in 0..Len(s), Sizes
    PROVE  LET p == SubSeq(s, 1, n)
               q == SubSeq(s, n + 1, Len(s))
           IN  /\ p \in TickSeq /\ q \in TickSeq /\ Len(p) = n /\ Len(q) = Len(s) - n
               /\ Ticks!ToSet(p) \cup Ticks!ToSet(q) = Ticks!ToSet(s)
               /\ Ticks!Ascending(s) =>
                     /\ Ticks!Ascending(p) /\ Ticks!Ascending(q)
                     /\ \A e \in Ticks!ToSet(p), f \in Ticks!ToSet(q) : e < f
  <1> DEFINE m == Len(s)
             p == SubSeq(s, 1, n)
             q == SubSeq(s, n + 1, m)
  <1>1. m \in Nat /\ DOMAIN s = 1..m /\ n \in Nat /\ n <= m /\ \A i \in 1..m : s[i] \in 1..MaxTicks
    <2>1. m \in Nat /\ DOMAIN s = 1..m /\ \A i \in 1..m : s[i] \in 1..MaxTicks BY TicksOf
    <2>2. QED BY <2>1
  <1> HIDE DEF m
  <1>2. /\ p \in TickSeq /\ Len(p) = n /\ DOMAIN p = 1..n /\ \A i \in 1..n : p[i] = s[i]
    BY <1>1, SubSeqProperties DEF TickSeq
  <1>3. /\ q \in TickSeq /\ Len(q) = m - n /\ DOMAIN q = 1..(m - n)
        /\ \A i \in 1..(m - n) : q[i] = s[n + i]
    <2>1. \A i \in (n + 1)..m : s[i] \in 1..MaxTicks BY <1>1
    <2>2. /\ q \in TickSeq /\ Len(q) = IF n + 1 <= m THEN m - (n + 1) + 1 ELSE 0
          /\ \A i \in 1..(m - (n + 1) + 1) : q[i] = s[(n + 1) + i - 1]
      BY <2>1, <1>1, SubSeqProperties DEF TickSeq
    <2>3. Len(q) = m - n
      <3>1. CASE n + 1 <= m BY <3>1, <2>2, <1>1
      <3>2. CASE ~(n + 1 <= m)
        <4>1. m = n BY <3>2, <1>1
        <4>2. m - n = 0 BY <4>1, <1>1
        <4>3. QED BY <4>2, <3>2, <2>2
      <3> QED BY <3>1, <3>2
    <2>4. DOMAIN q = 1..(m - n) BY <2>2, <2>3 DEF TickSeq
    <2>5. ASSUME NEW i \in 1..(m - n) PROVE q[i] = s[n + i]
      BY <2>2, <1>1
    <2> QED BY <2>2, <2>3, <2>4, <2>5
  <1> HIDE DEF p, q
  <1>4. Ticks!ToSet(p) \cup Ticks!ToSet(q) = Ticks!ToSet(s)
    <2>1. Ticks!ToSet(p) \subseteq Ticks!ToSet(s) BY <1>1, <1>2 DEF Ticks!ToSet
    <2>2. Ticks!ToSet(q) \subseteq Ticks!ToSet(s)
      <3>1. \A i \in 1..(m - n) : n + i \in 1..m BY <1>1
      <3>2. QED BY <3>1, <1>1, <1>3 DEF Ticks!ToSet
    <2>3. ASSUME NEW i \in 1..m PROVE s[i] \in Ticks!ToSet(p) \cup Ticks!ToSet(q)
      <3>1. CASE i <= n BY <3>1, <1>1, <1>2 DEF Ticks!ToSet
      <3>2. CASE ~(i <= n)
        <4>1. i - n \in 1..(m - n) /\ n + (i - n) = i BY <3>2, <1>1
        <4>2. QED BY <4>1, <1>3 DEF Ticks!ToSet
      <3> QED BY <3>1, <3>2
    <2> QED BY <2>1, <2>2, <2>3, <1>1 DEF Ticks!ToSet
  <1>5. ASSUME Ticks!Ascending(s)
        PROVE  /\ Ticks!Ascending(p) /\ Ticks!Ascending(q)
               /\ \A e \in Ticks!ToSet(p), f \in Ticks!ToSet(q) : e < f
    <2>1. Ticks!Ascending(p) BY <1>1, <1>2, <1>5 DEF Ticks!Ascending
    <2>2. Ticks!Ascending(q)
      <3>1. ASSUME NEW i \in 1..(m - n), NEW j \in 1..(m - n), i < j PROVE q[i] < q[j]
        <4>1. n + i \in 1..m /\ n + j \in 1..m /\ n + i < n + j BY <3>1, <1>1
        <4>2. QED BY <4>1, <1>1, <1>3, <1>5 DEF Ticks!Ascending
      <3>2. QED BY <3>1, <1>3 DEF Ticks!Ascending
    <2>3. ASSUME NEW i \in 1..n, NEW j \in 1..(m - n) PROVE p[i] < q[j]
      <3>1. i \in 1..m /\ n + j \in 1..m /\ i < n + j BY <1>1
      <3>2. QED BY <3>1, <1>1, <1>2, <1>3, <1>5 DEF Ticks!Ascending
    <2>4. QED BY <2>1, <2>2, <2>3, <1>2, <1>3 DEF Ticks!ToSet
  <1>6. QED BY <1>2, <1>3, <1>4, <1>5 DEF p, q, m

\* A batch written after the table: first the old rows, then the new.
LEMMA ConcatTicks ==
    ASSUME NEW s \in TickSeq, NEW t \in TickSeq, Sizes
    PROVE  /\ s \o t \in TickSeq /\ Len(s \o t) = Len(s) + Len(t)
           /\ \A i \in 1..Len(s) : (s \o t)[i] = s[i]
           /\ \A i \in 1..Len(t) : (s \o t)[Len(s) + i] = t[i]
           /\ Ticks!ToSet(s \o t) = Ticks!ToSet(s) \cup Ticks!ToSet(t)
  <1> DEFINE n == Len(s)
             m == Len(t)
             c == s \o t
  <1>1. n \in Nat /\ m \in Nat /\ DOMAIN s = 1..n /\ DOMAIN t = 1..m BY DEF TickSeq
  <1>2. /\ c \in TickSeq /\ Len(c) = n + m
        /\ \A i \in 1..(n + m) : c[i] = IF i <= n THEN s[i] ELSE t[i - n]
    BY ConcatProperties DEF TickSeq
  <1>3. DOMAIN c = 1..(n + m) BY <1>2 DEF TickSeq
  <1> HIDE DEF n, m, c
  <1>4. \A i \in 1..n : i \in 1..(n + m) /\ c[i] = s[i] BY <1>1, <1>2
  <1>5. ASSUME NEW i \in 1..m PROVE n + i \in 1..(n + m) /\ c[n + i] = t[i]
    <2>1. n + i \in 1..(n + m) /\ ~(n + i <= n) /\ (n + i) - n = i BY <1>1
    <2>2. QED BY <2>1, <1>2
  <1>6. Ticks!ToSet(c) = Ticks!ToSet(s) \cup Ticks!ToSet(t)
    <2>1. ASSUME NEW i \in 1..(n + m) PROVE c[i] \in Ticks!ToSet(s) \cup Ticks!ToSet(t)
      <3>1. CASE i <= n BY <3>1, <1>1, <1>2 DEF Ticks!ToSet
      <3>2. CASE ~(i <= n)
        <4>1. i - n \in 1..m BY <3>2, <1>1
        <4>2. QED BY <4>1, <3>2, <1>1, <1>2 DEF Ticks!ToSet
      <3> QED BY <3>1, <3>2
    <2>2. Ticks!ToSet(s) \subseteq Ticks!ToSet(c) BY <1>1, <1>3, <1>4 DEF Ticks!ToSet
    <2>3. Ticks!ToSet(t) \subseteq Ticks!ToSet(c) BY <1>1, <1>3, <1>5 DEF Ticks!ToSet
    <2>4. QED BY <2>1, <2>2, <2>3, <1>3 DEF Ticks!ToSet
  <1>7. QED BY <1>2, <1>4, <1>5, <1>6 DEF n, m, c

\* Ascending sequences one after the other hold no tick twice.
LEMMA ApartMeansInjective ==
    ASSUME NEW s \in TickSeq, NEW t \in TickSeq, Sizes,
           Ticks!Ascending(s), Ticks!Ascending(t),
           \A e \in Ticks!ToSet(t), f \in Ticks!ToSet(s) : e < f
    PROVE  Ticks!IsInjective(s \o t)
  <1> DEFINE n == Len(s)
             m == Len(t)
             c == s \o t
  <1>1. /\ n \in Nat /\ m \in Nat /\ DOMAIN s = 1..n /\ DOMAIN t = 1..m
        /\ \A i \in 1..n : s[i] \in 1..MaxTicks
        /\ \A i \in 1..m : t[i] \in 1..MaxTicks
    BY TicksOf
  <1>2. /\ c \in TickSeq /\ Len(c) = n + m /\ DOMAIN c = 1..(n + m)
        /\ \A i \in 1..n : c[i] = s[i]
        /\ \A i \in 1..m : c[n + i] = t[i]
    <2>1. c \in TickSeq /\ Len(c) = n + m BY ConcatTicks
    <2>2. DOMAIN c = 1..(n + m) BY <2>1 DEF TickSeq
    <2>3. QED BY <2>1, <2>2, ConcatTicks
  <1> HIDE DEF n, m, c
  <1>3. ASSUME NEW i \in 1..(n + m), NEW j \in 1..(n + m), i < j PROVE c[i] # c[j]
    <2>1. CASE j <= n
      <3>1. i \in 1..n /\ j \in 1..n BY <2>1, <1>1, <1>3
      <3>2. s[i] < s[j] BY <3>1, <1>1, <1>3 DEF Ticks!Ascending
      <3>3. QED BY <3>1, <3>2, <1>1, <1>2
    <2>2. CASE i > n
      <3>1. /\ i - n \in 1..m /\ j - n \in 1..m /\ i - n < j - n
            /\ n + (i - n) = i /\ n + (j - n) = j
        BY <2>2, <1>1, <1>3
      <3>2. t[i - n] < t[j - n] BY <3>1, <1>1 DEF Ticks!Ascending
      <3>3. c[i] = t[i - n] /\ c[j] = t[j - n] BY <3>1, <1>2
      <3>4. QED BY <3>1, <3>2, <3>3, <1>1
    <2>3. CASE i <= n /\ j > n
      <3>1. i \in 1..n /\ j - n \in 1..m /\ n + (j - n) = j BY <2>3, <1>1, <1>3
      <3>2. t[j - n] < s[i] BY <3>1, <1>1 DEF Ticks!ToSet
      <3>3. c[i] = s[i] /\ c[j] = t[j - n] BY <3>1, <1>2
      <3>4. QED BY <3>1, <3>2, <3>3, <1>1
    <2> QED BY <2>1, <2>2, <2>3, <1>1
  <1>4. ASSUME NEW i \in 1..(n + m), NEW j \in 1..(n + m), c[i] = c[j] PROVE i = j
    BY <1>1, <1>3, <1>4
  <1>5. QED BY <1>2, <1>4 DEF Ticks!IsInjective, c

--------------------------------------------------------------------------------
\* The invariant says all that the property does: no tick is twice in the queues.
LEMMA AccountedFor ==
    ASSUME Sizes, Ticks!WriterInv PROVE Ticks!TicksAreAccounted
  <1>1. Ticks!IsInjective(dq \o batch)
    BY ApartMeansInjective
       DEF Ticks!WriterInv, Ticks!TypeOK, Ticks!QueuesAreOrdered, Ticks!BatchComesFirst, TickSeq
  <1>2. QED
    BY <1>1 DEF Ticks!WriterInv, Ticks!TicksAreAccounted, Ticks!NothingVanishes, Ticks!StoredInOrder

\* Nothing has arrived.
LEMMA WriterInit ==
    ASSUME Sizes, Ticks!Init PROVE Ticks!WriterInv
  <1>1. <<>> \in TickSeq /\ Len(<<>>) = 0 /\ DOMAIN <<>> = {} BY EmptySeq DEF TickSeq
  <1>2. Ticks!ToSet(<<>>) = {} BY <1>1 DEF Ticks!ToSet
  <1>3. Ticks!TypeOK
    <2>1. 0 <= QueueMax /\ 0 <= BatchSize /\ 0 \in 0..MaxTicks /\ 0 \in 0..MaxOutages
          /\ 0 \in 0..Ticks!GiveUpAfter
      BY DEF Sizes, Ticks!GiveUpAfter
    <2>2. QED BY <1>1, <2>1 DEF Ticks!Init, Ticks!TypeOK, TickSeq
  <1>4. Ticks!NoneIsLost /\ Ticks!NoneIsCountedEarly /\ Ticks!BatchComesFirst /\ Ticks!FirstWritesInOrder
    BY <1>1, <1>2 DEF Ticks!Init, Ticks!NoneIsLost, Ticks!NoneIsCountedEarly, Ticks!BatchComesFirst,
                      Ticks!FirstWritesInOrder, Ticks!Stored
  <1>5. Ticks!QueuesAreOrdered /\ Ticks!RetriesKeepOrder
    BY <1>1, <1>2 DEF Ticks!Init, Ticks!QueuesAreOrdered, Ticks!RetriesKeepOrder, Ticks!Ascending, Ticks!Stored
  <1>6. QED BY <1>3, <1>4, <1>5 DEF Ticks!WriterInv

\* A tick arrives and joins the deque, for the oldest one of it or not at all.
LEMMA EnqueueStep ==
    ASSUME Sizes, Ticks!WriterInv, Ticks!Enqueue PROVE Ticks!WriterInv'
  <1> DEFINE t == arrived + 1
             new == Ticks!Appended(t)
  <1>0. /\ Ticks!TypeOK /\ Ticks!NoneIsLost /\ Ticks!NoneIsCountedEarly /\ Ticks!BatchComesFirst
        /\ Ticks!FirstWritesInOrder
        /\ Ticks!QueuesAreOrdered /\ Ticks!RetriesKeepOrder
    BY DEF Ticks!WriterInv
  <1>1. /\ dq \in TickSeq /\ batch \in TickSeq /\ stored \in TickSeq /\ dropped \subseteq 1..MaxTicks
        /\ arrived \in Nat /\ t \in 1..MaxTicks /\ Len(dq) \in Nat /\ Len(dq) <= QueueMax
    <2>1. arrived \in 0..MaxTicks /\ arrived < MaxTicks BY <1>0 DEF Ticks!TypeOK, Ticks!Enqueue
    <2>2. dq \in TickSeq /\ Len(dq) <= QueueMax BY <1>0 DEF Ticks!TypeOK, TickSeq
    <2>3. Len(dq) \in Nat BY <2>2, TicksOf
    <2>4. QED BY <2>1, <2>2, <2>3, <1>0 DEF Ticks!TypeOK, TickSeq, Sizes
  <1>2. /\ arrived' = t /\ dq' = new.dq /\ dropped' = dropped \cup new.shed
        /\ flush' = (flush \/ (t \notin new.shed /\ Len(new.dq) >= BatchSize))
        /\ late' = (IF stopping THEN late \cup {t} ELSE late)
        /\ stopping' = stopping /\ writer' = writer /\ final' = final /\ batch' = batch
        /\ attempt' = attempt /\ stored' = stored /\ db' = db /\ outages' = outages
    BY DEF Ticks!Enqueue, Ticks!writerVars, Ticks!dbVars
  <1>3. /\ \A e \in Ticks!ToSet(dq) : e \in 1..arrived
        /\ \A e \in Ticks!ToSet(batch) : e \in 1..arrived
        /\ \A e \in Ticks!Stored : e \in 1..arrived
        /\ \A e \in dropped : e \in 1..arrived
    BY <1>0 DEF Ticks!NoneIsLost
  <1>4. \E shed \in SUBSET (Ticks!ToSet(dq) \cup {t}) :
           /\ new.shed = shed /\ new.dq \in TickSeq /\ Len(new.dq) <= QueueMax
           /\ Ticks!ToSet(new.dq) = (Ticks!ToSet(dq) \cup {t}) \ shed
           /\ Ticks!Ascending(new.dq)
    <2>1. CASE Len(dq) < QueueMax
      <3>1. new = [dq |-> Append(dq, t), shed |-> {}] BY <2>1 DEF Ticks!Appended
      <3>2. /\ Append(dq, t) \in TickSeq /\ Len(Append(dq, t)) <= QueueMax
            /\ Ticks!ToSet(Append(dq, t)) = Ticks!ToSet(dq) \cup {t} /\ Ticks!Ascending(Append(dq, t))
        <4>1. \A e \in Ticks!ToSet(dq) : e < t BY <1>1, <1>3
        <4>2. Ticks!Ascending(dq) BY <1>0 DEF Ticks!QueuesAreOrdered
        <4>3. QED BY <4>1, <4>2, <2>1, <1>1, AppendTicks DEF Sizes
      <3>3. new.shed = {} /\ new.dq = Append(dq, t) BY <3>1
      <3>4. QED BY <3>2, <3>3
    <2>2. CASE ~(Len(dq) < QueueMax) /\ OverflowPolicy = "drop_oldest"
      <3>1. new = [dq |-> Append(Tail(dq), t), shed |-> {Head(dq)}] BY <2>2 DEF Ticks!Appended
      <3>2. dq # <<>> /\ Len(dq) \in Nat /\ 1 \in 0..Len(dq) BY <2>2, <1>1, EmptySeq DEF Sizes
      <3> DEFINE p == SubSeq(dq, 1, 1)
                 q == SubSeq(dq, 1 + 1, Len(dq))
      <3>3. Tail(dq) = q BY <3>2, <1>1, TailIsSubSeq DEF TickSeq
      <3>4. Ticks!Ascending(dq) BY <1>0 DEF Ticks!QueuesAreOrdered
      <3>5. /\ p \in TickSeq /\ q \in TickSeq /\ Len(p) = 1 /\ Len(q) = Len(dq) - 1
            /\ Ticks!ToSet(p) \cup Ticks!ToSet(q) = Ticks!ToSet(dq)
            /\ Ticks!Ascending(q) /\ \A e \in Ticks!ToSet(p), f \in Ticks!ToSet(q) : e < f
        BY <3>2, <3>4, <1>1, CutTicks
      <3>6. Ticks!ToSet(p) = {Head(dq)}
        <4>1. p \in TickSeq /\ Len(p) = 1 /\ DOMAIN p = 1..1 /\ p[1] = dq[1]
          <5>1. dq[1] \in 1..MaxTicks BY <1>1, <3>2, TicksOf
          <5>2. p[1] = dq[1] BY <1>1, <3>2, <5>1, SubSeqProperties DEF TickSeq
          <5>3. QED BY <5>2, <3>5 DEF TickSeq
        <4>2. Head(dq) = dq[1] BY <1>1, <3>2 DEF TickSeq
        <4>3. QED BY <4>1, <4>2 DEF Ticks!ToSet
      <3> HIDE DEF p, q
      <3>7. /\ Append(q, t) \in TickSeq /\ Len(Append(q, t)) <= QueueMax
            /\ Ticks!ToSet(Append(q, t)) = Ticks!ToSet(q) \cup {t} /\ Ticks!Ascending(Append(q, t))
        <4>1. \A e \in Ticks!ToSet(q) : e < t BY <1>1, <1>3, <3>5
        <4>2. QED BY <4>1, <3>5, <1>1, AppendTicks DEF Sizes
      <3>8. Head(dq) \in 1..arrived /\ Head(dq) # t /\ Head(dq) \notin Ticks!ToSet(q)
        <4>1. Head(dq) \in Ticks!ToSet(dq) BY <3>5, <3>6
        <4>2. Head(dq) \in 1..arrived BY <4>1, <1>3
        <4>3. ~(Head(dq) < Head(dq)) BY <4>2, <1>1
        <4>4. QED BY <4>2, <4>3, <3>5, <3>6, <1>1
      <3>9. /\ new.shed = {Head(dq)} /\ new.dq = Append(q, t)
            /\ {Head(dq)} \in SUBSET (Ticks!ToSet(dq) \cup {t})
            /\ Ticks!ToSet(q) \cup {t} = (Ticks!ToSet(dq) \cup {t}) \ {Head(dq)}
        BY <3>1, <3>3, <3>5, <3>6, <3>8
      <3>10. QED BY <3>7, <3>9
    <2>3. CASE ~(Len(dq) < QueueMax) /\ OverflowPolicy # "drop_oldest"
      <3>1. new = [dq |-> dq, shed |-> {t}] BY <2>3 DEF Ticks!Appended
      <3>2. t \notin Ticks!ToSet(dq) BY <1>1, <1>3
      <3>3. QED BY <3>1, <3>2, <1>0, <1>1 DEF Ticks!QueuesAreOrdered
    <2> QED BY <2>1, <2>2, <2>3
  <1> HIDE DEF new
  <1>5. PICK shed \in SUBSET (Ticks!ToSet(dq) \cup {t}) :
           /\ new.shed = shed /\ new.dq \in TickSeq /\ Len(new.dq) <= QueueMax
           /\ Ticks!ToSet(new.dq) = (Ticks!ToSet(dq) \cup {t}) \ shed
           /\ Ticks!Ascending(new.dq)
    BY <1>4
  <1>6. /\ dq' \in TickSeq /\ Len(dq') <= QueueMax /\ dropped' = dropped \cup shed
        /\ Ticks!ToSet(dq)' = (Ticks!ToSet(dq) \cup {t}) \ shed /\ Ticks!Ascending(dq)'
    <2>1. Ticks!ToSet(dq)' = Ticks!ToSet(new.dq) BY <1>2 DEF Ticks!ToSet
    <2>2. Ticks!Ascending(dq)' BY <1>2, <1>5 DEF Ticks!Ascending
    <2>3. QED BY <2>1, <2>2, <1>2, <1>5
  <1>7. Ticks!ToSet(batch)' = Ticks!ToSet(batch) /\ Ticks!Stored' = Ticks!Stored
    BY <1>2 DEF Ticks!ToSet, Ticks!Stored
  <1>8. shed \subseteq 1..t /\ 1..t = 1..arrived \cup {t} /\ t \notin 1..arrived
    BY <1>1, <1>3
  <1>9. Ticks!TypeOK'
    <2>1. dropped' \subseteq 1..MaxTicks /\ late' \subseteq 1..MaxTicks
      <3>1. shed \subseteq 1..MaxTicks BY <1>8, <1>1 DEF Sizes
      <3>2. late \subseteq 1..MaxTicks BY <1>0 DEF Ticks!TypeOK
      <3>3. QED BY <3>1, <3>2, <1>1, <1>2, <1>6
    <2>2. arrived' \in 0..MaxTicks BY <1>1, <1>2 DEF Sizes
    <2>3. flush' \in BOOLEAN BY <1>2, <1>0 DEF Ticks!TypeOK
    <2>4. QED BY <2>1, <2>2, <2>3, <1>0, <1>2, <1>6 DEF Ticks!TypeOK, TickSeq
  <1>10. Ticks!NoneIsLost' BY <1>0, <1>2, <1>6, <1>7, <1>8 DEF Ticks!NoneIsLost
  <1>11. Ticks!NoneIsCountedEarly'
    <2>1. t \notin dropped /\ shed \cap Ticks!ToSet(batch) = {}
      <3>1. ASSUME NEW e \in Ticks!ToSet(batch), e \in Ticks!ToSet(dq) PROVE FALSE
        <4>1. e < e BY <3>1, <1>0 DEF Ticks!BatchComesFirst
        <4>2. e \in 1..arrived BY <1>3
        <4>3. QED BY <4>1, <4>2, <1>1
      <3>2. QED BY <3>1, <1>3, <1>8
    <2>2. QED BY <2>1, <1>0, <1>6, <1>7 DEF Ticks!NoneIsCountedEarly
  <1>12. Ticks!BatchComesFirst'
    <2>1. \A e \in Ticks!ToSet(batch) : e < t BY <1>1, <1>3
    <2>2. QED BY <2>1, <1>0, <1>6, <1>7 DEF Ticks!BatchComesFirst
  <1>13. Ticks!QueuesAreOrdered'
    BY <1>0, <1>2, <1>6 DEF Ticks!QueuesAreOrdered, Ticks!Ascending
  <1>14. Ticks!RetriesKeepOrder'
    <2>1. \A e \in Ticks!Stored : e < t BY <1>1, <1>3
    <2>2. QED BY <2>1, <1>0, <1>2, <1>6, <1>7 DEF Ticks!RetriesKeepOrder
  <1>15. Ticks!FirstWritesInOrder' BY <1>0, <1>2 DEF Ticks!FirstWritesInOrder
  <1>16. QED BY <1>9, <1>10, <1>11, <1>12, <1>13, <1>14, <1>15 DEF Ticks!WriterInv

\* A step that leaves the queues and the table alone.
LEMMA QuietStep ==
    ASSUME Sizes, Ticks!WriterInv, UNCHANGED <<arrived, dq, batch, stored, dropped, late>>,
           flush' \in BOOLEAN, stopping' \in BOOLEAN, final' \in BOOLEAN,
           writer' \in {"wait", "drain", "write", "done"}, writer' # "write" => batch = <<>>,
           attempt' \in 0..Ticks!GiveUpAfter, db' \in {"up", "down"}, outages' \in 0..MaxOutages
    PROVE  Ticks!WriterInv'
  <1>1. Ticks!TypeOK' BY DEF Ticks!WriterInv, Ticks!TypeOK
  <1>2. /\ Ticks!ToSet(dq)' = Ticks!ToSet(dq) /\ Ticks!ToSet(batch)' = Ticks!ToSet(batch)
        /\ Ticks!Stored' = Ticks!Stored
    BY DEF Ticks!ToSet, Ticks!Stored
  <1>3. Ticks!NoneIsLost' /\ Ticks!NoneIsCountedEarly' /\ Ticks!BatchComesFirst'
    BY <1>2 DEF Ticks!WriterInv, Ticks!NoneIsLost, Ticks!NoneIsCountedEarly, Ticks!BatchComesFirst
  <1>4. Ticks!FirstWritesInOrder' BY DEF Ticks!WriterInv, Ticks!FirstWritesInOrder
  <1>5. Ticks!QueuesAreOrdered' BY DEF Ticks!WriterInv, Ticks!QueuesAreOrdered, Ticks!Ascending
  <1>6. Ticks!RetriesKeepOrder' BY <1>2 DEF Ticks!WriterInv, Ticks!RetriesKeepOrder
  <1>7. QED BY <1>1, <1>3, <1>4, <1>5, <1>6 DEF Ticks!WriterInv

\* The next batch leaves the deque.
LEMMA TakeBatchStep ==
    ASSUME Sizes, Ticks!WriterInv, Ticks!TakeBatch PROVE Ticks!WriterInv'
  <1> DEFINE n == IF Len(dq) < BatchSize THEN Len(dq) ELSE BatchSize
             p == SubSeq(dq, 1, n)
             q == SubSeq(dq, n + 1, Len(dq))
  <1>0. /\ Ticks!TypeOK /\ Ticks!NoneIsLost /\ Ticks!NoneIsCountedEarly /\ Ticks!BatchComesFirst
        /\ Ticks!FirstWritesInOrder /\ Ticks!QueuesAreOrdered /\ Ticks!RetriesKeepOrder
    BY DEF Ticks!WriterInv
  <1>1. dq \in TickSeq /\ Len(dq) \in Nat /\ Len(dq) <= QueueMax
    <2>1. dq \in TickSeq /\ Len(dq) <= QueueMax BY <1>0 DEF Ticks!TypeOK, TickSeq
    <2>2. QED BY <2>1, TicksOf
  <1>2. n \in 0..Len(dq) /\ n <= BatchSize BY <1>1 DEF Sizes
  <1>3. /\ batch' = p /\ dq' = q /\ writer = "drain" /\ writer' = "write" /\ attempt' = 0
        /\ UNCHANGED <<arrived, flush, stopping, final, db, outages, stored, dropped, late>>
    BY DEF Ticks!TakeBatch, Ticks!dbVars
  <1>4. /\ p \in TickSeq /\ q \in TickSeq /\ Len(p) = n /\ Len(q) = Len(dq) - n
        /\ Ticks!ToSet(p) \cup Ticks!ToSet(q) = Ticks!ToSet(dq)
        /\ Ticks!Ascending(p) /\ Ticks!Ascending(q)
        /\ \A e \in Ticks!ToSet(p), f \in Ticks!ToSet(q) : e < f
    BY <1>0, <1>1, <1>2, CutTicks DEF Ticks!QueuesAreOrdered
  <1>5. Len(p) <= BatchSize /\ Len(q) <= QueueMax BY <1>1, <1>2, <1>4 DEF Sizes
  <1>6. batch = <<>> /\ Ticks!ToSet(batch) = {} BY <1>0, <1>3 DEF Ticks!QueuesAreOrdered, Ticks!ToSet
  <1> HIDE DEF n, p, q
  <1>7. /\ Ticks!ToSet(batch)' = Ticks!ToSet(p) /\ Ticks!ToSet(dq)' = Ticks!ToSet(q)
        /\ Ticks!Stored' = Ticks!Stored
    BY <1>3 DEF Ticks!ToSet, Ticks!Stored
  <1>8. Ticks!TypeOK'
    <2>1. 0 \in 0..Ticks!GiveUpAfter BY DEF Ticks!GiveUpAfter
    <2>2. QED BY <2>1, <1>0, <1>3, <1>4, <1>5 DEF Ticks!TypeOK, TickSeq
  <1>9. Ticks!NoneIsLost' /\ Ticks!NoneIsCountedEarly'
    BY <1>0, <1>3, <1>4, <1>6, <1>7 DEF Ticks!NoneIsLost, Ticks!NoneIsCountedEarly
  <1>10. Ticks!BatchComesFirst' BY <1>4, <1>7 DEF Ticks!BatchComesFirst
  <1>11. Ticks!FirstWritesInOrder' BY <1>0, <1>3 DEF Ticks!FirstWritesInOrder
  <1>12. Ticks!QueuesAreOrdered'
    <2>1. Ticks!Ascending(dq)' /\ Ticks!Ascending(batch)' BY <1>3, <1>4 DEF Ticks!Ascending
    <2>2. QED BY <2>1, <1>3 DEF Ticks!QueuesAreOrdered
  <1>13. Ticks!RetriesKeepOrder'
    <2>1. ASSUME NEW i \in DOMAIN stored, NEW t \in Ticks!ToSet(p), t < stored[i] PROVE FALSE
      <3>1. stored[i] \in Ticks!Stored /\ t \in Ticks!ToSet(dq) BY <1>4 DEF Ticks!Stored, Ticks!ToSet
      <3>2. stored[i] < t BY <3>1, <1>0 DEF Ticks!RetriesKeepOrder
      <3>3. stored[i] \in 1..arrived /\ t \in 1..arrived BY <3>1, <1>0 DEF Ticks!NoneIsLost
      <3>4. arrived \in Nat BY <1>0 DEF Ticks!TypeOK, Sizes
      <3>5. stored[i] \in Int /\ t \in Int BY <3>3, <3>4
      <3>6. QED BY <2>1, <3>2, <3>5
    <2>2. \A s \in Ticks!Stored, t \in Ticks!ToSet(q) : s < t
      BY <1>0, <1>4 DEF Ticks!RetriesKeepOrder
    <2>3. QED BY <2>1, <2>2, <1>3, <1>7 DEF Ticks!RetriesKeepOrder
  <1>14. QED BY <1>8, <1>9, <1>10, <1>11, <1>12, <1>13 DEF Ticks!WriterInv

\* The table with the batch after it is still in order, and so it is for the next try.
LEMMA WrittenInOrder ==
    ASSUME Sizes, Ticks!WriterInv
    PROVE  LET c == stored \o batch
           IN  /\ c \in TickSeq /\ Ticks!ToSet(c) = Ticks!Stored \cup Ticks!ToSet(batch)
               /\ \A i, j \in DOMAIN c : i < j /\ c[j] < c[i] => \E k \in 1..(i - 1) : c[k] = c[j]
               /\ \A i \in DOMAIN c, t \in Ticks!ToSet(batch) : t < c[i] => \E k \in 1..(i - 1) : c[k] = t
  <1> DEFINE c == stored \o batch
             n == Len(stored)
             m == Len(batch)
  <1>0. /\ Ticks!TypeOK /\ Ticks!FirstWritesInOrder /\ Ticks!QueuesAreOrdered /\ Ticks!RetriesKeepOrder
    BY DEF Ticks!WriterInv
  <1>1. stored \in TickSeq /\ batch \in TickSeq BY <1>0 DEF Ticks!TypeOK, TickSeq
  <1>2. /\ n \in Nat /\ m \in Nat /\ DOMAIN stored = 1..n /\ DOMAIN batch = 1..m
        /\ \A i \in 1..n : stored[i] \in 1..MaxTicks
        /\ \A i \in 1..m : batch[i] \in 1..MaxTicks
    BY <1>1, TicksOf
  <1>3. /\ c \in TickSeq /\ Len(c) = n + m
        /\ \A i \in 1..n : c[i] = stored[i]
        /\ \A i \in 1..m : c[n + i] = batch[i]
        /\ Ticks!ToSet(c) = Ticks!Stored \cup Ticks!ToSet(batch)
    BY <1>1, ConcatTicks DEF Ticks!Stored
  <1>4. DOMAIN c = 1..(n + m) BY <1>3 DEF TickSeq
  <1> HIDE DEF c, n, m
  <1>5. ASSUME NEW i \in 1..(n + m), NEW t \in Ticks!ToSet(batch), t < c[i]
        PROVE  \E k \in 1..(i - 1) : c[k] = t
    <2>1. CASE i <= n
      <3>1. i \in 1..n /\ c[i] = stored[i] BY <2>1, <1>2, <1>3
      <3>2. PICK k \in 1..(i - 1) : stored[k] = t BY <3>1, <1>0, <1>2, <1>5 DEF Ticks!RetriesKeepOrder
      <3>3. k \in 1..n BY <3>1, <1>2
      <3>4. QED BY <3>2, <3>3, <1>3
    <2>2. CASE ~(i <= n)
      <3>1. i - n \in 1..m /\ n + (i - n) = i BY <2>2, <1>2
      <3>2. c[i] = batch[i - n] BY <3>1, <1>3
      <3>3. PICK k \in 1..m : batch[k] = t BY <1>2 DEF Ticks!ToSet
      <3>4. k < i - n
        <4>1. \A a, b \in 1..m : a < b => batch[a] < batch[b]
          BY <1>0, <1>2 DEF Ticks!QueuesAreOrdered, Ticks!Ascending
        <4>2. batch[k] \in Int /\ batch[i - n] \in Int /\ batch[k] < batch[i - n]
          BY <3>1, <3>2, <3>3, <1>2, <1>5
        <4>3. CASE k = i - n BY <4>2, <4>3
        <4>4. CASE i - n < k
          <5>1. batch[i - n] < batch[k] BY <4>1, <4>4, <3>1
          <5>2. QED BY <5>1, <4>2
        <4>5. QED BY <4>3, <4>4, <3>1, <1>2
      <3>5. n + k \in 1..(i - 1) BY <3>4, <3>1, <1>2
      <3>6. c[n + k] = t BY <3>3, <1>3
      <3>7. QED BY <3>5, <3>6
    <2> QED BY <2>1, <2>2
  <1>6. ASSUME NEW i \in 1..(n + m), NEW j \in 1..(n + m), i < j, c[j] < c[i]
        PROVE  \E k \in 1..(i - 1) : c[k] = c[j]
    <2>1. CASE j <= n
      <3>1. i \in 1..n /\ j \in 1..n /\ c[i] = stored[i] /\ c[j] = stored[j] BY <2>1, <1>2, <1>3, <1>6
      <3>2. PICK k \in 1..(i - 1) : stored[k] = stored[j]
        BY <3>1, <1>0, <1>2, <1>6 DEF Ticks!FirstWritesInOrder
      <3>3. k \in 1..n BY <3>1, <1>2
      <3>4. QED BY <3>1, <3>2, <3>3, <1>3
    <2>2. CASE ~(j <= n)
      <3>1. j - n \in 1..m /\ n + (j - n) = j BY <2>2, <1>2
      <3>2. c[j] = batch[j - n] BY <3>1, <1>3
      <3>3. c[j] \in Ticks!ToSet(batch) BY <3>1, <3>2, <1>2 DEF Ticks!ToSet
      <3>4. QED BY <3>3, <1>5, <1>6
    <2> QED BY <2>1, <2>2
  <1>7. QED BY <1>3, <1>4, <1>5, <1>6 DEF c

\* A write: the batch is in the table or counted or both, and is done with or tried again.
LEMMA WriteStep ==
    ASSUME Sizes, Ticks!WriterInv, writer = "write",
           UNCHANGED <<arrived, dq, flush, stopping, final, db, late>>, outages' \in 0..MaxOutages,
           stored' = stored \/ stored' = stored \o batch,
           \/ /\ batch' = <<>> /\ writer' = "drain" /\ attempt' = 0
              /\ \/ dropped' = dropped \cup Ticks!ToSet(batch)
                 \/ dropped' = dropped /\ stored' = stored \o batch
           \/ /\ UNCHANGED <<batch, writer, dropped>> /\ attempt' \in 0..Ticks!GiveUpAfter
    PROVE  Ticks!WriterInv'
  <1>0. /\ Ticks!TypeOK /\ Ticks!NoneIsLost /\ Ticks!NoneIsCountedEarly /\ Ticks!BatchComesFirst
        /\ Ticks!FirstWritesInOrder /\ Ticks!QueuesAreOrdered /\ Ticks!RetriesKeepOrder
    BY DEF Ticks!WriterInv
  <1>1. /\ dq \in TickSeq /\ batch \in TickSeq /\ stored \in TickSeq
        /\ <<>> \in TickSeq /\ Len(<<>>) = 0 /\ DOMAIN <<>> = {} /\ Ticks!ToSet(<<>>) = {}
    BY <1>0, EmptySeq DEF Ticks!TypeOK, TickSeq, Ticks!ToSet
  <1>2. /\ stored' \in TickSeq
        /\ Ticks!Stored \subseteq Ticks!Stored'
        /\ Ticks!Stored' \subseteq Ticks!Stored \cup Ticks!ToSet(batch)
        /\ stored' = stored \o batch => Ticks!Stored' = Ticks!Stored \cup Ticks!ToSet(batch)
        /\ \A i, j \in DOMAIN stored' :
              i < j /\ stored'[j] < stored'[i] => \E k \in 1..(i - 1) : stored'[k] = stored'[j]
        /\ \A i \in DOMAIN stored', t \in Ticks!ToSet(batch) :
              t < stored'[i] => \E k \in 1..(i - 1) : stored'[k] = t
    <2>1. CASE stored' = stored
      <3>1. Ticks!Stored' = Ticks!Stored BY <2>1 DEF Ticks!Stored, Ticks!ToSet
      <3>2. stored = stored \o batch => Ticks!Stored = Ticks!Stored \cup Ticks!ToSet(batch)
        BY WrittenInOrder DEF Ticks!Stored
      <3>3. QED BY <2>1, <3>1, <3>2, <1>0, <1>1 DEF Ticks!FirstWritesInOrder, Ticks!RetriesKeepOrder
    <2>2. CASE stored' = stored \o batch
      <3> DEFINE c == stored \o batch
      <3>1. /\ c \in TickSeq /\ Ticks!ToSet(c) = Ticks!Stored \cup Ticks!ToSet(batch)
            /\ \A i, j \in DOMAIN c : i < j /\ c[j] < c[i] => \E k \in 1..(i - 1) : c[k] = c[j]
            /\ \A i \in DOMAIN c, t \in Ticks!ToSet(batch) : t < c[i] => \E k \in 1..(i - 1) : c[k] = t
        BY WrittenInOrder
      <3>2. stored' = c BY <2>2
      <3> HIDE DEF c
      <3>3. Ticks!Stored' = Ticks!ToSet(c) BY <3>2 DEF Ticks!Stored, Ticks!ToSet
      <3>4. QED BY <3>1, <3>2, <3>3
    <2> QED BY <2>1, <2>2
  <1>3. /\ batch' \in TickSeq /\ Len(batch') <= BatchSize
        /\ \/ /\ Ticks!ToSet(batch)' = Ticks!ToSet(batch) /\ batch' = batch
              /\ writer' = "write" /\ dropped' = dropped
           \/ Ticks!ToSet(batch)' = {} /\ batch' = <<>> /\ writer' = "drain"
        /\ Ticks!ToSet(dq)' = Ticks!ToSet(dq)
    <2>1. Len(batch) <= BatchSize BY <1>0 DEF Ticks!TypeOK
    <2>2. batch' = batch => Ticks!ToSet(batch)' = Ticks!ToSet(batch) BY DEF Ticks!ToSet
    <2>3. batch' = <<>> => Ticks!ToSet(batch)' = {} BY <1>1 DEF Ticks!ToSet
    <2>4. Ticks!ToSet(dq)' = Ticks!ToSet(dq) BY DEF Ticks!ToSet
    <2>5. CASE batch' = <<>> /\ writer' = "drain"
      <3>1. 0 <= BatchSize BY DEF Sizes
      <3>2. QED BY <3>1, <2>3, <2>4, <2>5, <1>1
    <2>6. CASE UNCHANGED <<batch, writer, dropped>>
      <3>1. batch' = batch /\ writer' = "write" /\ dropped' = dropped BY <2>6
      <3>2. batch' \in TickSeq /\ Len(batch') <= BatchSize BY <3>1, <2>1, <1>1
      <3>3. QED BY <3>1, <3>2, <2>2, <2>4
    <2> QED BY <2>5, <2>6
  <1>4. \A e \in Ticks!ToSet(batch) : e \in 1..MaxTicks BY <1>1, TicksOf DEF Ticks!ToSet
  <1>5. Ticks!TypeOK'
    <2>1. attempt' \in 0..Ticks!GiveUpAfter BY DEF Ticks!GiveUpAfter
    <2>2. dropped' \subseteq 1..MaxTicks BY <1>0, <1>4 DEF Ticks!TypeOK
    <2>3. QED BY <2>1, <2>2, <1>0, <1>2, <1>3 DEF Ticks!TypeOK, TickSeq
  <1>6. Ticks!NoneIsLost'
    <2>1. /\ Ticks!ToSet(batch)' \cup Ticks!Stored' \cup dropped'
                = Ticks!ToSet(batch) \cup Ticks!Stored \cup dropped
      BY <1>2, <1>3
    <2>2. QED BY <2>1, <1>0, <1>3 DEF Ticks!NoneIsLost
  <1>7. Ticks!NoneIsCountedEarly'
    <2>1. Ticks!ToSet(dq) \cap Ticks!ToSet(batch) = {}
      <3>1. ASSUME NEW e \in Ticks!ToSet(dq), e \in Ticks!ToSet(batch) PROVE FALSE
        <4>1. e < e BY <3>1, <1>0 DEF Ticks!BatchComesFirst
        <4>2. e \in 1..MaxTicks BY <3>1, <1>4
        <4>3. QED BY <4>1, <4>2 DEF Sizes
      <3>2. QED BY <3>1
    <2>2. dropped' \subseteq dropped \cup Ticks!ToSet(batch) OBVIOUS
    <2>3. QED BY <2>1, <2>2, <1>0, <1>3 DEF Ticks!NoneIsCountedEarly
  <1>8. Ticks!BatchComesFirst' BY <1>0, <1>3 DEF Ticks!BatchComesFirst
  <1>9. Ticks!FirstWritesInOrder' BY <1>2 DEF Ticks!FirstWritesInOrder
  <1>10. Ticks!QueuesAreOrdered'
    <2>1. Ticks!Ascending(dq)' BY <1>0 DEF Ticks!QueuesAreOrdered, Ticks!Ascending
    <2>2. Ticks!Ascending(batch)' BY <1>0, <1>1, <1>3 DEF Ticks!QueuesAreOrdered, Ticks!Ascending
    <2>3. QED BY <2>1, <2>2, <1>3 DEF Ticks!QueuesAreOrdered
  <1>11. Ticks!RetriesKeepOrder'
    <2>1. \A s \in Ticks!Stored', t \in Ticks!ToSet(dq) : s < t
      BY <1>0, <1>2 DEF Ticks!RetriesKeepOrder, Ticks!BatchComesFirst
    <2>2. QED BY <2>1, <1>2, <1>3 DEF Ticks!RetriesKeepOrder
  <1>12. QED BY <1>5, <1>6, <1>7, <1>8, <1>9, <1>10, <1>11 DEF Ticks!WriterInv

\* Every step of the collector, of its writer thread and of the database.
LEMMA WriterStep ==
    ASSUME Sizes, Ticks!WriterInv, [Ticks!Next]_(Ticks!vars) PROVE Ticks!WriterInv'
  <1> USE DEF Ticks!writerVars, Ticks!dbVars
  <1>0. Ticks!TypeOK /\ Ticks!QueuesAreOrdered BY DEF Ticks!WriterInv
  <1>1. 0 \in 0..Ticks!GiveUpAfter /\ MaxOutages \in Nat BY DEF Ticks!GiveUpAfter, Sizes
  <1>2. ASSUME Ticks!Failed PROVE attempt' \in 0..Ticks!GiveUpAfter
    <2>1. attempt \in 0..3 BY <1>0 DEF Ticks!TypeOK, Ticks!GiveUpAfter
    <2>2. QED BY <2>1, <1>2 DEF Ticks!Failed, Ticks!GiveUpAfter
  <1>3. CASE Ticks!Enqueue BY <1>3, EnqueueStep
  <1>4. CASE Ticks!Stop
    BY <1>4, <1>0, QuietStep DEF Ticks!Stop, Ticks!TypeOK, Ticks!QueuesAreOrdered
  <1>5. CASE Ticks!Wait
    BY <1>5, <1>0, QuietStep DEF Ticks!Wait, Ticks!TypeOK, Ticks!QueuesAreOrdered
  <1>6. CASE Ticks!TakeBatch BY <1>6, TakeBatchStep
  <1>7. CASE Ticks!Drained
    BY <1>7, <1>0, QuietStep DEF Ticks!Drained, Ticks!TypeOK, Ticks!QueuesAreOrdered
  <1>8. CASE Ticks!Written
    BY <1>8, <1>0, WriteStep DEF Ticks!Written, Ticks!TypeOK
  <1>9. CASE Ticks!WriteFails
    BY <1>9, <1>0, <1>2, WriteStep DEF Ticks!WriteFails, Ticks!Failed, Ticks!TypeOK
  <1>10. CASE Ticks!AnswerLost
    <2>1. outages' \in 0..MaxOutages BY <1>10, <1>0, <1>1 DEF Ticks!AnswerLost, Ticks!TypeOK
    <2>2. QED BY <2>1, <1>10, <1>0, <1>2, WriteStep DEF Ticks!AnswerLost, Ticks!Failed, Ticks!TypeOK
  <1>11. CASE Ticks!DatabaseChanges
    <2>1. outages' \in 0..MaxOutages BY <1>11, <1>0, <1>1 DEF Ticks!DatabaseChanges, Ticks!TypeOK
    <2>2. QED
      BY <2>1, <1>11, <1>0, QuietStep DEF Ticks!DatabaseChanges, Ticks!TypeOK, Ticks!QueuesAreOrdered
  <1>12. CASE UNCHANGED Ticks!vars
    BY <1>12, <1>0, QuietStep DEF Ticks!vars, Ticks!TypeOK, Ticks!QueuesAreOrdered
  <1>13. QED
    BY <1>3, <1>4, <1>5, <1>6, <1>7, <1>8, <1>9, <1>10, <1>11, <1>12 DEF Ticks!Next, Ticks!Writer

LEMMA WriterInvariant == ASSUME Sizes PROVE Ticks!Spec => []Ticks!WriterInv
  <1>1. Ticks!Init => Ticks!WriterInv BY WriterInit
  <1>2. Ticks!WriterInv /\ [Ticks!Next]_(Ticks!vars) => Ticks!WriterInv' BY WriterStep
  <1>3. QED BY <1>1, <1>2, PTL DEF Ticks!Spec

\* Every tick is queued, being written, stored in its order, or counted as lost, through
\* overflow under either policy, retries, lost answers and shutdown (enqueue,
\* _take_batch, _write_with_retry).
THEOREM TicksAccounted ==
    ASSUME Sizes PROVE Ticks!Spec => []Ticks!TicksAreAccounted
  <1>1. Ticks!WriterInv => Ticks!TicksAreAccounted BY AccountedFor
  <1>2. QED BY <1>1, WriterInvariant, PTL

\* No count of holders leaves the number of monitors (SubscriptionManager, KiteTickStream,
\* MarketDataService).
THEOREM FeedTypes == ASSUME Feeds PROVE Spec => []TypeOK
  <1>1. FeedInv => TypeOK BY DEF FeedInv
  <1> QED BY <1>1, FeedInvariant, PTL

\* The types of the collector's session (CollectorService, CollectorTickStream).
THEOREM SessionTypesHold == ASSUME Calendar PROVE Session!Spec => []Session!TypeOK
  <1>1. Session!SessionInv => Session!TypeOK BY DEF Session!SessionInv
  <1> QED BY <1>1, SessionInvariant, PTL

\* No queue of ticks outgrows its maximum and no batch its size, and no write is tried
\* more often than its retries allow (enqueue, _take_batch, _write_with_retry).
THEOREM TickTypes == ASSUME Sizes PROVE Ticks!Spec => []Ticks!TypeOK
  <1>1. Ticks!WriterInv => Ticks!TypeOK BY DEF Ticks!WriterInv
  <1> QED BY <1>1, WriterInvariant, PTL
================================================================================
