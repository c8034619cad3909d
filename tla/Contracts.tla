-------------------------------- MODULE Contracts --------------------------------
(***************************************************************************)
(* Which two contracts an entry sells: the strike nearest to the spot, the expiry  *)
(* computed from the configured weekday and the holiday calendar, its validation    *)
(* against the instruments the exchange lists, and the lookups of the call and the   *)
(* put.  KiteBroker answers them from a dump per exchange that it refreshes once a     *)
(* trading day and keeps when the refresh fails; the tick stream resolves tokens from  *)
(* a map of its own.  Several instances select at once, over several days, in one        *)
(* process or across a restart.  Days are numbers, day 0 is a Monday.                     *)
(***************************************************************************)
EXTENDS Integers, FiniteSets

CONSTANTS
    Exchange, Instance,
    ExchangeOf,    \* the exchange of an instance's options
    Cadence,       \* Cadence[i]: "weekly" or "monthly"
    Skipping,      \* the instances with skip_on_expiry_day
    MonthEnds,     \* the last days of the months
    Rules,         \* [weekday, holidays]: expiry rules, of the configuration and of the exchange
    Spots, Interval,  \* spot prices, and the distance of two strikes
    FirstDays, MaxDays,  \* the day on which the process starts, and bound: days after it
    MaxFaults      \* bound: failed fetches and restarts

VARIABLES
    config,        \* expiry_weekday and holidays.yaml
    exchange,      \* the rule the exchange really follows
    day, age,      \* today, and the days since the first one
    dump,          \* KiteBroker._instrument_cache_date[e], or None
    tokens,        \* the day KiteInstrumentTokenMap loaded e on, or None
    pc,            \* how far the selection of an instance is
    spot, expiry,  \* what it is about
    streamed,      \* the contracts of the instance have tokens
    failed,        \* history: exchanges with a failed fetch today
    faults

vars == <<config, exchange, day, age, dump, tokens, pc, spot, expiry, streamed, failed, faults>>
selection == <<spot, expiry, streamed>>
rules == <<config, exchange>>

None == -1
Step == {"idle", "skipped", "expiry_day", "validate", "call", "put", "chosen", "subscribed", "refused"}

TypeOK ==
    /\ config \in Rules /\ exchange \in Rules
    /\ day \in Nat /\ age \in 0..MaxDays
    /\ dump \in [Exchange -> Nat \cup {None}] /\ tokens \in [Exchange -> Nat \cup {None}]
    /\ pc \in [Instance -> Step]
    /\ spot \in [Instance -> Spots \cup {None}] /\ expiry \in [Instance -> Int]
    /\ streamed \in [Instance -> BOOLEAN]
    /\ failed \subseteq Exchange /\ faults \in 0..MaxFaults

--------------------------------------------------------------------------------
\* compute_atm_strike: to the nearest multiple, half way up.
Atm(s) == ((2 * s + Interval) \div (2 * Interval)) * Interval

Weekday(d) == d % 7
IsTradingDay(holidays, d) == Weekday(d) < 5 /\ d \notin holidays

\* The platform trades only when every exchange does.
PlatformTrades(d) == \A e \in Exchange : IsTradingDay(config.holidays[e], d)

\* Slip: on the expiry day itself the next expiry is taken.
WeeklyExpiry_never_today(w, d) == d + 1 + ((w - (d + 1)) % 7)
\* The next day with that weekday, today included.
WeeklyExpiry(w, d) == d + ((w - d) % 7)

LastWeekday(end, w) == end - ((end - w) % 7)
MonthEnd(d) == CHOOSE e \in MonthEnds : e >= d /\ \A f \in MonthEnds : f >= d => e <= f
MonthlyExpiry(w, d) ==
    LET this == LastWeekday(MonthEnd(d), w)
    IN  IF this < d THEN LastWeekday(MonthEnd(MonthEnd(d) + 1), w) ELSE this

MaxShift == 14
\* Off an exchange holiday to the previous trading day, 14 days back at most.
Shifted(holidays, d) ==
    CHOOSE e \in (d - MaxShift)..d :
        /\ e = d - MaxShift \/ IsTradingDay(holidays, e)
        /\ \A f \in (e + 1)..d : ~IsTradingDay(holidays, f)

\* ConfigExpiryService.get_current_weekly_expiry.
ComputedExpiry(i, d) ==
    Shifted(config.holidays[ExchangeOf[i]],
            IF Cadence[i] = "monthly" THEN MonthlyExpiry(config.weekday, d)
                                      ELSE WeeklyExpiry(config.weekday, d))

\* The exchange: every weekly, or the last of a month, with its weekday; if that is no
\* trading day, the last one before it.  It lists those of the next seven days, and of
\* the monthlies those of the next five weeks.
Nominal(i, d) ==
    /\ Weekday(d) = exchange.weekday
    /\ Cadence[i] = "monthly" => \E e \in MonthEnds : e \in d..(d + 6)
Ahead(i) == IF Cadence[i] = "monthly" THEN 35 ELSE 6
LastTradingDay(i, d) ==
    CHOOSE e \in (d - 21)..d :
        /\ IsTradingDay(exchange.holidays[ExchangeOf[i]], e)
        /\ \A f \in (e + 1)..d : ~IsTradingDay(exchange.holidays[ExchangeOf[i]], f)
Listed(i, d) == {LastTradingDay(i, n) : n \in {n \in d..(d + Ahead(i)) : Nominal(i, n)}}
Strikes == {Interval * k : k \in 1..5}

--------------------------------------------------------------------------------
Init ==
    /\ config \in Rules /\ exchange \in Rules
    /\ day \in FirstDays /\ age = 0
    /\ dump = [e \in Exchange |-> None] /\ tokens = [e \in Exchange |-> None]
    /\ pc = [i \in Instance |-> "idle"]
    /\ spot = [i \in Instance |-> None] /\ expiry = [i \in Instance |-> None]
    /\ streamed = [i \in Instance |-> FALSE]
    /\ failed = {} /\ faults = 0

Goes(i, to) == pc' = [pc EXCEPT ![i] = to]

\* The entry trigger: the expiry is computed and the spot read.
Select(i) ==
    /\ pc[i] = "idle" /\ PlatformTrades(day)
    /\ \E s \in Spots : spot' = [spot EXCEPT ![i] = s]
    /\ expiry' = [expiry EXCEPT ![i] = ComputedExpiry(i, day)]
    /\ Goes(i, IF i \in Skipping THEN "expiry_day" ELSE "validate")
    /\ UNCHANGED <<rules, day, age, dump, tokens, streamed, failed, faults>>

\* The broker gives no spot (BrokerSpotPriceProvider): no price is guessed.
NoSpot(i) ==
    /\ pc[i] = "idle" /\ PlatformTrades(day) /\ faults < MaxFaults
    /\ faults' = faults + 1 /\ failed' = failed \cup {ExchangeOf[i]}
    /\ Goes(i, "refused")
    /\ UNCHANGED <<rules, day, age, dump, tokens, selection>>

\* Slip: a dump is kept for the life of the process.
IsFresh_for_ever(e) == dump[e] # None
\* _instrument_rows: a dump of today is used as it is.
IsFresh(e) == dump[e] = day

\* A lookup in the rows of day `rows`: the selection goes on to `to` or is refused.
Finds(i, rows, to) ==
    Goes(i, IF expiry[i] \in Listed(i, rows) /\ (to \in {"put", "chosen"} => Atm(spot[i]) \in Strikes)
            THEN to ELSE "refused")

\* _instrument_rows under its lock: the cached rows, a refresh, or, when that fails, the
\* rows of an earlier day, whose date stays so that the next lookup tries again.
LookUp(i, to) ==
    LET e == ExchangeOf[i]
    IN  \/ IsFresh(e) /\ Finds(i, dump[e], to) /\ UNCHANGED <<dump, failed, faults>>
        \/ /\ ~IsFresh(e) /\ dump' = [dump EXCEPT ![e] = day]
           /\ Finds(i, day, to) /\ UNCHANGED <<failed, faults>>
        \/ /\ ~IsFresh(e) /\ faults < MaxFaults
           /\ faults' = faults + 1 /\ failed' = failed \cup {e}
           /\ IF dump[e] = None THEN Goes(i, "refused") ELSE Finds(i, dump[e], to)
           /\ UNCHANGED dump

\* _should_skip_expiry_day, with the validated expiry.
SkipExpiryDay(i) ==
    /\ pc[i] = "expiry_day" /\ LookUp(i, IF expiry[i] = day THEN "skipped" ELSE "validate")
    /\ UNCHANGED <<rules, day, age, tokens, selection>>

\* ValidatingExpiryService, then find_option_contract of the call and of the put.
Validate(i) ==
    /\ pc[i] = "validate" /\ LookUp(i, "call")
    /\ UNCHANGED <<rules, day, age, tokens, selection>>
ResolveCall(i) ==
    /\ pc[i] = "call" /\ LookUp(i, "put")
    /\ UNCHANGED <<rules, day, age, tokens, selection>>
ResolvePut(i) ==
    /\ pc[i] = "put" /\ LookUp(i, "chosen")
    /\ UNCHANGED <<rules, day, age, tokens, selection>>

\* token_for_instrument, when the monitor of the position subscribes to its legs: the
\* map is loaded once and never again; what it lacks is polled instead.
Subscribe(i) ==
    LET e == ExchangeOf[i]
        loaded == IF tokens[e] = None THEN day ELSE tokens[e]
    IN  /\ pc[i] = "chosen"
        /\ tokens' = [tokens EXCEPT ![e] = loaded]
        /\ streamed' = [streamed EXCEPT ![i] = expiry[i] \in Listed(i, loaded)]
        /\ Goes(i, "subscribed")
        /\ UNCHANGED <<rules, day, age, dump, spot, expiry, failed, faults>>

\* The instruments cannot be fetched: this subscription fails, a later one tries again.
SubscribeFails(i) ==
    /\ pc[i] = "chosen" /\ tokens[ExchangeOf[i]] = None /\ faults < MaxFaults
    /\ faults' = faults + 1 /\ failed' = failed \cup {ExchangeOf[i]}
    /\ streamed' = [streamed EXCEPT ![i] = FALSE]
    /\ Goes(i, "subscribed")
    /\ UNCHANGED <<rules, day, age, dump, tokens, spot, expiry>>

\* Selections take seconds and begin in trading hours: none is under way at midnight.
NextDay ==
    /\ age < MaxDays /\ \A i \in Instance : pc[i] \in {"idle", "skipped", "subscribed", "refused"}
    /\ day' = day + 1 /\ age' = age + 1
    /\ pc' = [i \in Instance |-> "idle"]
    /\ streamed' = [i \in Instance |-> FALSE]
    /\ failed' = {}
    /\ UNCHANGED <<rules, dump, tokens, spot, expiry, faults>>

\* A new process, between the entries of a day: the caches are gone.  A selection that was
\* under way, or whose position was not yet written, is lost with its entry; the monitors
\* of the others subscribe again.
Restart ==
    /\ faults < MaxFaults /\ \E e \in Exchange : dump[e] # None
    /\ faults' = faults + 1 /\ failed' = Exchange
    /\ dump' = [e \in Exchange |-> None] /\ tokens' = [e \in Exchange |-> None]
    /\ \E unwritten \in SUBSET {i \in Instance : pc[i] = "chosen"} :
          pc' = [i \in Instance |-> IF pc[i] \in {"idle", "skipped"} THEN pc[i]
                                    ELSE IF pc[i] \in {"chosen", "subscribed"} /\ i \notin unwritten
                                    THEN "chosen" ELSE "refused"]
    /\ UNCHANGED <<rules, day, age, selection>>

Next ==
    \/ \E i \in Instance : \/ Select(i) \/ NoSpot(i) \/ SkipExpiryDay(i) \/ Validate(i)
                           \/ ResolveCall(i) \/ ResolvePut(i) \/ Subscribe(i) \/ SubscribeFails(i)
    \/ NextDay \/ Restart

Spec == Init /\ [][Next]_vars

--------------------------------------------------------------------------------
Agree == config = exchange
Nearest(i) == CHOOSE e \in Listed(i, day) : e >= day /\ \A f \in Listed(i, day) : f >= day => e <= f

\* The contracts chosen are of the strike nearest to the spot and have not expired; with
\* a configuration that follows the exchange they are of the nearest expiry it lists.
RightContracts ==
    \A i \in Instance : pc[i] \in {"chosen", "subscribed"} =>
        /\ expiry[i] >= day
        /\ 2 * (Atm(spot[i]) - spot[i]) \in (-Interval)..Interval
        /\ Agree => expiry[i] = Nearest(i)

\* With such a configuration an entry is refused, or a leg left without a token, only
\* after a fetch failed the same day, or with a token map of an earlier day.
MissesAreExplained ==
    \A i \in Instance : Agree /\ ExchangeOf[i] \notin failed =>
        /\ pc[i] # "refused"
        /\ pc[i] = "subscribed" => streamed[i] \/ tokens[ExchangeOf[i]] \in 0..(day - 1)

\* A selection made from the configured rule and cached instruments names the contracts
\* the exchange would (ConfigExpiryService, ValidatingExpiryService, KiteBroker's dump).
SelectionIsRight == RightContracts /\ MissesAreExplained

================================================================================
