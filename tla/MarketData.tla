------------------------------- MODULE MarketData -------------------------------
(***************************************************************************)
(* The way of a price to the monitors of open positions.  The service counts   *)
(* who wants an instrument and tells the websocket what changes; the ticker      *)
(* thread keeps the cache and calls every monitor with each tick; a monitor that   *)
(* has heard nothing for a while reads the cache or polls the broker.                *)
(* A price is `current` or `old`: the market moves and every copy of it grows old.    *)
(***************************************************************************)
EXTENDS Integers, FiniteSets

CONSTANTS
    Monitor,       \* position monitors, one per runner
    Instrument,    \* option contracts
    Legs,          \* Legs[m]: the contracts monitor m watches
    MaxMoves,      \* bound: moves of a price
    MaxDrops,      \* bound: connections lost
    MaxFailures    \* bound: polls that fail

VARIABLES
    counts,       \* SubscriptionManager._counts
    tokens,       \* KiteTickStream._subscribed_tokens
    connected,    \* KiteTickStream._connected
    socket,       \* whether the connection is up, whatever the callbacks said so far
    served,       \* what the server sends on this connection
    thread,       \* the ticker's thread: idle, in a callback, or broadcasting
    replay,       \* what its callback is about to subscribe
    ticks,        \* ticks[i]: the tick of i that has arrived and not been handled
    fan,          \* the tick being broadcast, and the monitors still to call
    cache,        \* MarketCache._prices
    hook,         \* hook[m]: what the runner of m does under its lock
    delta,        \* delta[m]: instruments its call changes, or those it has to poll
    got,          \* got[m]: prices its read has collected
    watching,     \* watching[m]: not yet attached, _active, or stopped
    latest,       \* latest[m]: the prices of m's tracker
    ticked,       \* ticked[m]: whether _last_tick_at is within the staleness budget
    raced,        \* history: contracts subscribed while their last unsubscribe was under way
    moves, drops, failures

feed == <<counts, tokens, connected, socket, served, replay, raced, drops>>
prices == <<ticks, cache, moves, failures>>
mine == <<hook, delta, got, watching, latest, ticked>>
vars == <<feed, thread, fan, prices, mine>>

Price == {"none", "old", "current"}
NoFan == [instrument |-> "none", price |-> "none", rest |-> {}]

\* CachedPrice: the price and whether it is younger than freshness_seconds.
NotCached == [price |-> "none", fresh |-> FALSE]
Cached(p) == [price |-> p, fresh |-> TRUE]
Fresh(i) == cache[i].price # "none" /\ cache[i].fresh

TypeOK ==
    /\ counts \in [Instrument -> 0..Cardinality(Monitor)]
    /\ tokens \subseteq Instrument /\ served \subseteq Instrument /\ replay \subseteq Instrument
    /\ connected \in BOOLEAN /\ socket \in {"down", "up"}
    /\ thread \in {"idle", "apply", "send", "active", "replay", "broadcast"}
    /\ ticks \in [Instrument -> Price]
    /\ fan = NoFan \/ fan \in [instrument : Instrument, price : Price, rest : SUBSET Monitor]
    /\ cache \in [Instrument -> [price : Price, fresh : BOOLEAN]]
    /\ hook \in [Monitor -> {"none", "sub_check", "sub_send", "unsub_check", "unsub_send",
                             "unsub_cache", "look", "judge", "store"}]
    /\ delta \in [Monitor -> SUBSET Instrument]
    /\ got \in [Monitor -> [Instrument -> Price]]
    /\ watching \in [Monitor -> {"not_yet", "active", "stopped"}]
    /\ latest \in [Monitor -> [Instrument -> Price]]
    /\ ticked \in [Monitor -> BOOLEAN]
    /\ raced \subseteq Instrument
    /\ moves \in 0..MaxMoves /\ drops \in 0..MaxDrops /\ failures \in 0..MaxFailures

Nothing == [i \in Instrument |-> "none"]

Init ==
    /\ counts = [i \in Instrument |-> 0] /\ tokens = {} /\ served = {} /\ replay = {}
    /\ connected = FALSE /\ socket = "down" /\ thread = "idle"
    /\ ticks = Nothing /\ fan = NoFan
    /\ cache = [i \in Instrument |-> NotCached]
    /\ hook = [m \in Monitor |-> "none"] /\ delta = [m \in Monitor |-> {}]
    /\ got = [m \in Monitor |-> Nothing] /\ watching = [m \in Monitor |-> "not_yet"]
    /\ latest = [m \in Monitor |-> Nothing] /\ ticked = [m \in Monitor |-> FALSE]
    /\ raced = {} /\ moves = 0 /\ drops = 0 /\ failures = 0

--------------------------------------------------------------------------------
(* Subscriptions.                                                              *)

Wanted == {i \in Instrument : counts[i] > 0}

Goes(m, to) == hook' = [hook EXCEPT ![m] = to]

\* m's call has made i unwanted and may still tell the server so.
Unsubscribing(m, i) == i \in delta[m] /\ hook[m] \in {"unsub_check", "unsub_send"}

\* SubscriptionManager, under its lock: who holds a contract, and what changes by it.
Counted(m) == [i \in Instrument |-> IF i \in Legs[m] THEN counts[i] + 1 ELSE counts[i]]
NewlyActive(m) == Legs[m] \ Wanted
Released(m) == [i \in Instrument |-> IF i \in Legs[m] THEN counts[i] - 1 ELSE counts[i]]
NewlyInactive(m) == {i \in Legs[m] : counts[i] = 1}

\* attach() of a monitor, up to the counts.
Attach(m) ==
    /\ watching[m] = "not_yet" /\ hook[m] = "none"
    /\ counts' = Counted(m) /\ delta' = [delta EXCEPT ![m] = NewlyActive(m)]
    /\ raced' = raced \cup {i \in NewlyActive(m) : \E n \in Monitor : Unsubscribing(n, i)}
    /\ Goes(m, "sub_check")
    /\ UNCHANGED <<tokens, connected, socket, served, replay, drops, thread, fan, prices,
                   got, watching, latest, ticked>>

Watches(m) == watching' = [watching EXCEPT ![m] = "active"]

\* MarketDataService.subscribe asks whether the stream is connected; if not, the next
\* connect subscribes.
SubCheck(m) ==
    /\ hook[m] = "sub_check"
    /\ IF delta[m] # {} /\ connected
       THEN Goes(m, "sub_send") /\ UNCHANGED <<delta, watching>>
       ELSE Goes(m, "none") /\ delta' = [delta EXCEPT ![m] = {}] /\ Watches(m)
    /\ UNCHANGED <<feed, thread, fan, prices, got, latest, ticked>>

\* What the server sends once it has the request; a connection that is down raises,
\* and _safe_stream_subscribe swallows that.
Sent(more) == IF socket = "up" THEN served \cup more ELSE served

\* KiteTickStream.subscribe; the monitor goes active.
SubSend(m) ==
    /\ hook[m] = "sub_send"
    /\ tokens' = tokens \cup delta[m]
    /\ served' = Sent(delta[m])
    /\ Goes(m, "none") /\ delta' = [delta EXCEPT ![m] = {}] /\ Watches(m)
    /\ UNCHANGED <<counts, connected, socket, replay, raced, drops, thread, fan, prices,
                   got, latest, ticked>>

\* _unsubscribe after an exit or in stop(), up to the counts.
Detach(m) ==
    /\ watching[m] = "active" /\ hook[m] = "none"
    /\ counts' = Released(m) /\ delta' = [delta EXCEPT ![m] = NewlyInactive(m)]
    /\ Goes(m, "unsub_check")
    /\ UNCHANGED <<tokens, connected, socket, served, replay, raced, drops, thread, fan, prices,
                   got, watching, latest, ticked>>

Stops(m) ==
    /\ Goes(m, "none") /\ delta' = [delta EXCEPT ![m] = {}]
    /\ watching' = [watching EXCEPT ![m] = "stopped"]
    /\ latest' = [latest EXCEPT ![m] = Nothing] /\ ticked' = [ticked EXCEPT ![m] = FALSE]

\* MarketDataService.unsubscribe: the server, if connected, and then the cache.
UnsubCheck(m) ==
    /\ hook[m] = "unsub_check"
    /\ IF delta[m] = {} THEN Stops(m)
       ELSE Goes(m, IF connected THEN "unsub_send" ELSE "unsub_cache")
            /\ UNCHANGED <<delta, watching, latest, ticked>>
    /\ UNCHANGED <<feed, thread, fan, prices, got>>

UnsubSend(m) ==
    /\ hook[m] = "unsub_send"
    /\ tokens' = tokens \ delta[m]
    /\ served' = IF socket = "up" THEN served \ delta[m] ELSE served
    /\ Goes(m, "unsub_cache")
    /\ UNCHANGED <<counts, connected, socket, replay, raced, drops, thread, fan, prices,
                   delta, got, watching, latest, ticked>>

UnsubCache(m) ==
    /\ hook[m] = "unsub_cache"
    /\ cache' = [i \in Instrument |-> IF i \in delta[m] THEN NotCached ELSE cache[i]]
    /\ Stops(m)
    /\ UNCHANGED <<feed, thread, fan, ticks, moves, failures, got>>

--------------------------------------------------------------------------------
(* The ticker thread: one callback at a time.                                  *)

\* _handle_connect: connected first, the tokens after.
HandleConnect ==
    /\ thread = "idle" /\ socket = "down" /\ ~connected
    /\ socket' = "up" /\ served' = {} /\ connected' = TRUE
    /\ thread' = "apply"
    /\ UNCHANGED <<counts, tokens, replay, raced, drops, fan, prices, mine>>

Apply ==
    /\ thread = "apply"
    /\ replay' = tokens /\ thread' = "send"
    /\ UNCHANGED <<counts, tokens, connected, socket, served, raced, drops, fan, prices, mine>>

\* A connection that is gone raises out of the callback, before the service's part.
SendTokens ==
    /\ thread = "send"
    /\ served' = Sent(replay) /\ replay' = {}
    /\ thread' = IF socket = "up" THEN "active" ELSE "idle"
    /\ UNCHANGED <<counts, tokens, connected, socket, raced, drops, fan, prices, mine>>

\* Slip: the service leaves the stream to its own tokens.
Active_none == {}
\* SubscriptionManager.active
Active == Wanted

\* _resubscribe_all of _on_connect, or of _on_reconnect while an attempt is made.
ReadActive ==
    /\ \/ thread = "active"
       \/ thread = "idle" /\ socket = "down" /\ ~connected
    /\ replay' = Active /\ thread' = "replay"
    /\ raced' = {i \in raced : \E m \in Monitor : Unsubscribing(m, i)}
    /\ UNCHANGED <<counts, tokens, connected, socket, served, drops, fan, prices, mine>>

Replay ==
    /\ thread = "replay"
    /\ tokens' = tokens \cup replay /\ served' = Sent(replay)
    /\ replay' = {} /\ thread' = "idle"
    /\ UNCHANGED <<counts, connected, socket, raced, drops, fan, prices, mine>>

Drop ==
    /\ socket = "up" /\ drops < MaxDrops
    /\ socket' = "down" /\ served' = {} /\ drops' = drops + 1
    /\ ticks' = Nothing
    /\ UNCHANGED <<counts, tokens, connected, replay, raced, thread, fan, cache, moves, failures, mine>>

HandleClose ==
    /\ thread = "idle" /\ socket = "down" /\ connected
    /\ connected' = FALSE
    /\ UNCHANGED <<counts, tokens, socket, served, replay, raced, drops, thread, fan, prices, mine>>

\* TickRouter.broadcast: one consumer after the other, whatever each does.
Broadcast(i, p) == [instrument |-> i, price |-> p, rest |-> Monitor]

\* _on_tick: the cache, then the broadcast.  (A tick that is not plausible changes nothing.)
OnTick(i) ==
    /\ thread = "idle" /\ ticks[i] # "none"
    /\ cache' = [cache EXCEPT ![i] = Cached(ticks[i])]
    /\ fan' = Broadcast(i, ticks[i])
    /\ ticks' = [ticks EXCEPT ![i] = "none"]
    /\ thread' = "broadcast"
    /\ UNCHANGED <<feed, moves, failures, mine>>

\* CombinedPremiumTracker: the latest price of each leg, as it was given.
Tracked(m, new) ==
    [latest EXCEPT ![m] = [i \in Instrument |-> IF new[i] = "none" THEN @[i] ELSE new[i]]]

\* dispatch_tick of one runner, once its lock is free, and the monitor's on_tick.
Deliver(m) ==
    LET i == fan.instrument
        heard == watching[m] = "active" /\ i \in Legs[m]
    IN  /\ thread = "broadcast" /\ m \in fan.rest /\ hook[m] = "none"
        /\ latest' = IF heard THEN Tracked(m, [Nothing EXCEPT ![i] = fan.price]) ELSE latest
        /\ ticked' = IF heard THEN [ticked EXCEPT ![m] = TRUE] ELSE ticked
        /\ IF fan.rest = {m} THEN fan' = NoFan /\ thread' = "idle"
           ELSE fan' = [fan EXCEPT !.rest = @ \ {m}] /\ UNCHANGED thread
        /\ UNCHANGED <<feed, prices, hook, delta, got, watching>>

--------------------------------------------------------------------------------
(* poll_and_check, called by the heartbeat.                                    *)

\* Slip: a feed that is up is never polled around.
IsStale_only_down(m) == ~connected
\* _is_market_data_stale: one tick of either leg is enough to trust the feed.
IsStale(m) == ~connected \/ ~ticked[m]

Poll(m) ==
    /\ watching[m] = "active" /\ hook[m] = "none"
    /\ IsStale(m)
    /\ Goes(m, "look")
    /\ UNCHANGED <<feed, thread, fan, prices, delta, got, watching, latest, ticked>>

\* get_ltps: the entries are read ...
Look(m) ==
    /\ hook[m] = "look"
    /\ got' = [got EXCEPT ![m] = [i \in Instrument |-> IF i \in Legs[m] THEN cache[i].price ELSE "none"]]
    /\ Goes(m, "judge")
    /\ UNCHANGED <<feed, thread, fan, prices, delta, watching, latest, ticked>>

\* _resilient_poll: every price, or only some, or, its retries spent, none.
PollAnswers(asked) == SUBSET asked

\* ... and then judged by their age, which is looked up anew; what is not fresh is polled.
Judge(m) ==
    LET poll == {i \in Legs[m] : got[m][i] = "none" \/ ~Fresh(i)}
    IN  /\ hook[m] = "judge"
        /\ \E answered \in PollAnswers(poll) :
              /\ answered # poll => failures < MaxFailures
              /\ failures' = IF answered = poll THEN failures ELSE failures + 1
              /\ delta' = [delta EXCEPT ![m] = answered]
              /\ got' = [got EXCEPT ![m] = [i \in Instrument |->
                             IF i \in answered THEN "current"
                             ELSE IF i \in poll THEN "none" ELSE got[m][i]]]
        /\ Goes(m, "store")
        /\ UNCHANGED <<feed, thread, fan, ticks, cache, moves, watching, latest, ticked>>

\* _poll: the cache takes what was polled.
Polled(m) == [i \in Instrument |-> IF i \in delta[m] THEN Cached(got[m][i]) ELSE cache[i]]

\* The tracker takes what was read.
Store(m) ==
    /\ hook[m] = "store"
    /\ cache' = Polled(m) /\ latest' = Tracked(m, got[m])
    /\ got' = [got EXCEPT ![m] = Nothing] /\ delta' = [delta EXCEPT ![m] = {}]
    /\ Goes(m, "none")
    /\ UNCHANGED <<feed, thread, fan, ticks, moves, failures, watching, ticked>>

--------------------------------------------------------------------------------
Aged(p) == IF p = "current" THEN "old" ELSE p

\* The price of i moves: copies of the last one grow old, and the server sends a tick.
Move(i) ==
    /\ moves < MaxMoves
    /\ moves' = moves + 1
    /\ ticks' = [ticks EXCEPT ![i] = IF i \in served THEN "current" ELSE Aged(@)]
    /\ fan' = IF fan.instrument = i THEN [fan EXCEPT !.price = Aged(@)] ELSE fan
    /\ cache' = [cache EXCEPT ![i].price = Aged(@)]
    /\ got' = [m \in Monitor |-> [got[m] EXCEPT ![i] = Aged(@)]]
    /\ latest' = [m \in Monitor |-> [latest[m] EXCEPT ![i] = Aged(@)]]
    /\ UNCHANGED <<feed, thread, failures, hook, delta, watching, ticked>>

\* Longer than freshness_seconds and max_tick_staleness_seconds goes by.
TimePasses ==
    /\ \/ \E i \in Instrument : cache[i].fresh
       \/ \E m \in Monitor : ticked[m]
    /\ cache' = [i \in Instrument |-> [cache[i] EXCEPT !.fresh = FALSE]]
    /\ ticked' = [m \in Monitor |-> FALSE]
    /\ UNCHANGED <<feed, thread, fan, ticks, moves, failures, hook, delta, got, watching, latest>>

Subscribes(m) ==
    Attach(m) \/ SubCheck(m) \/ SubSend(m) \/ Detach(m) \/ UnsubCheck(m) \/ UnsubSend(m) \/ UnsubCache(m)

Polls(m) == Poll(m) \/ Look(m) \/ Judge(m) \/ Store(m)

Ticker ==
    \/ Apply \/ SendTokens \/ Replay \/ HandleClose
    \/ thread = "active" /\ ReadActive
    \/ \E i \in Instrument : OnTick(i)
    \/ \E m \in Monitor : Deliver(m)

Next ==
    \/ \E m \in Monitor : Subscribes(m) \/ Polls(m)
    \/ Ticker \/ HandleConnect \/ ReadActive \/ Drop \/ TimePasses
    \/ \E i \in Instrument : Move(i)

Spec == Init /\ [][Next]_vars

Polling(m) == Polls(m) \/ (hook[m] # "none" /\ Subscribes(m))

\* What a runner does under its lock ends, its heartbeat comes again, the ticker's
\* thread runs and time passes.  A lost connection need not come back.
Fairness ==
    /\ \A m \in Monitor : WF_vars(Polling(m))
    /\ WF_vars(Ticker)
    /\ WF_vars(TimePasses)

--------------------------------------------------------------------------------
\* While the feed is up and nobody is changing it, the server sends what is wanted,
\* however connects, drops, subscriptions and unsubscriptions of the monitors fell
\* between one another; except a contract that one monitor subscribed while another's
\* unsubscribe of it was under way, until the next connect (subscribe, _on_connect).
WantedIsStreamed ==
    thread = "idle" /\ connected /\ socket = "up"
        /\ (\A m \in Monitor : hook[m] \in {"none", "look", "judge", "store"})
        => Wanted \ raced \subseteq served

(* Why: the inductive invariant.  Proved inductive in module MarketDataProofs.   *)

Holds(m) ==
    \/ hook[m] \in {"sub_check", "sub_send"}
    \/ watching[m] = "active" /\ hook[m] \notin {"unsub_check", "unsub_send", "unsub_cache"}
Holders(i) == {m \in Monitor : i \in Legs[m] /\ Holds(m)}

\* A contract's count is the number of monitors that hold it (SubscriptionManager).
CountsAreHolders == \A i \in Instrument : counts[i] = Cardinality(Holders(i))

\* An unsubscribe under way of a contract that is wanted again is a race.
RacedIsKnown == \A m \in Monitor : \A i \in Wanted : Unsubscribing(m, i) => i \in raced

\* Some call has yet to subscribe i: a monitor's, or the callback of this connection.
OnItsWay(i) ==
    \/ \E m \in Monitor : hook[m] \in {"sub_check", "sub_send"} /\ i \in delta[m]
    \/ thread \in {"apply", "send", "active"}
    \/ thread = "replay" /\ i \in replay

\* While the feed is up, what is wanted and not raced is streamed or will be asked for.
NoneIsForgotten ==
    connected /\ socket = "up" => \A i \in Wanted \ raced : i \in served \/ OnItsWay(i)

FeedInv == TypeOK /\ CountsAreHolders /\ RacedIsKnown /\ NoneIsForgotten

CaughtUp == \A m \in Monitor : watching[m] = "active" => \A i \in Legs[m] : latest[m][i] = "current"

\* A monitor comes to know the current price of both its legs, though the connection
\* is lost for good, a contract is no longer streamed, a poll fails or a poll's older
\* price overtakes a tick (poll_and_check).  (The market moves finitely often, so a
\* leg that is silent for good while the other ticks for ever is not such a case.)
MonitorsCatchUp == []<>CaughtUp

================================================================================
