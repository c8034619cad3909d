-------------------------------- MODULE Collector --------------------------------
(***************************************************************************)
(* The session of the market data collector: the phases of the day, the window *)
(* of strikes around the spot, the websocket that streams it, and the watchdog    *)
(* that rebuilds a websocket which is lost, given up or silent.  The controller     *)
(* thread runs all of it; the ticker's thread calls back when a connection comes,     *)
(* goes, or is given up, also the ticker that has just been replaced.  One underlying. *)
(***************************************************************************)
EXTENDS Integers, Sequences, FiniteSets

CONSTANTS
    Windows,       \* windows of instrument tokens that recompute may find
    MaxDays,       \* bound: days
    MaxFaults      \* bound: connections lost, given up or frozen, calls that raise, and
                   \* callbacks of tickers already replaced

VARIABLES
    day,
    pc,            \* what the controller does next
    phase,         \* CollectorService._phase
    due,           \* whether a recompute is forced (_last_recompute = 0)
    window,        \* AtmWindowManager._current of the underlying
    adds, drops,   \* the diff that _recompute_all applies
    lost,          \* history: tokens of the window whose diff was interrupted
    socket,        \* the current ticker: none, or the state of its connection
    connected, dead, \* CollectorTickStream._connected, _dead
    subscribed,    \* CollectorTickStream._subscribed
    served,        \* what the server sends on this connection
    applying,      \* how far _handle_connect is, and the tokens it read
    replaced,      \* whether a replaced ticker may still call back
    down,          \* _disconnected_since: unset, or within or past the grace period
    up,            \* _connected_since: unset, or within or past the heartbeat limit
    silence,       \* last_tick_at: no tick yet, or within or past the heartbeat limit
    backoff,       \* whether the last rebuild is less than the backoff ago
    faults

session == <<day, phase>>
atm == <<due, window, adds, drops, lost>>
stream == <<socket, connected, dead, subscribed, served, applying, replaced>>
watchdog == <<down, up, silence, backoff>>
vars == <<session, pc, atm, stream, watchdog, faults>>

\* The phases, in the order of a trading day.
Hour == [None |-> 0, PRE_OPEN |-> 1, CONNECT |-> 2, COLLECT |-> 3, FREEZE |-> 4, FLUSH |-> 5, CLOSED |-> 6]
Phase == DOMAIN Hour \ {"None"}
Token == UNION Windows
NotApplying == [stage |-> "none", tokens |-> {}]

TypeOK ==
    /\ day \in 1..MaxDays
    /\ pc \in {"wait", "watchdog", "recompute", "unsubscribe", "subscribe", "send"}
    /\ phase \in Phase \cup {"None"}
    /\ due \in BOOLEAN
    /\ window \subseteq Token /\ adds \subseteq Token /\ drops \subseteq Token /\ lost \subseteq Token
    /\ subscribed \subseteq Token /\ served \subseteq Token
    /\ socket \in {"none", "down", "up", "closing", "frozen", "gaveup"}
    /\ connected \in BOOLEAN /\ dead \in BOOLEAN
    /\ applying \in [stage : {"none", "read", "send"}, tokens : SUBSET Token]
    /\ replaced \in BOOLEAN
    /\ down \in {"unset", "within", "past"} /\ up \in {"unset", "within", "past"}
    /\ silence \in {"never", "within", "past"} /\ backoff \in BOOLEAN
    /\ faults \in 0..MaxFaults

Init ==
    /\ day = 1
    /\ pc = "wait" /\ phase = "None" /\ due = TRUE
    /\ window = {} /\ adds = {} /\ drops = {} /\ lost = {}
    /\ socket = "none" /\ connected = FALSE /\ dead = FALSE
    /\ subscribed = {} /\ served = {} /\ applying = NotApplying /\ replaced = FALSE
    /\ down = "unset" /\ up = "unset" /\ silence = "never" /\ backoff = FALSE
    /\ faults = 0

--------------------------------------------------------------------------------
(* The stream, as the controller calls it.                                     *)

Fault == faults < MaxFaults /\ faults' = faults + 1

\* A ticker that is closed may still have callbacks under way.
Discarded == replaced \/ socket \notin {"none", "gaveup"}

\* start(): a new ticker, unless there is one; building it may raise.
Start ==
    /\ IF socket # "none" THEN UNCHANGED <<socket, dead, applying, faults>>
       ELSE /\ \/ socket' = "down" /\ UNCHANGED faults
               \/ Fault /\ UNCHANGED socket
            /\ dead' = FALSE /\ applying' = NotApplying
    /\ UNCHANGED <<connected, subscribed, served, replaced>>

\* stop()
StopStream ==
    /\ replaced' = Discarded
    /\ socket' = "none" /\ connected' = FALSE /\ dead' = FALSE
    /\ subscribed' = {} /\ served' = {} /\ applying' = NotApplying

\* Slip: the new ticker starts without the subscriptions of the old.
Kept_nothing == {}
\* What restart() leaves subscribed.
Kept == subscribed

\* restart(): the ticker is replaced; what is subscribed is kept.
Restarted(to) ==
    /\ replaced' = Discarded
    /\ socket' = to /\ connected' = FALSE /\ dead' = FALSE
    /\ subscribed' = Kept /\ served' = {} /\ applying' = NotApplying

--------------------------------------------------------------------------------
(* The controller: one pass of _run.                                           *)

Goes(to) == pc' = to

\* _on_phase of the phase it is now: the same, a later one of the day, or one of the
\* next day.  It is recorded before anything is done about it.
OnPhase ==
    /\ pc = "wait"
    /\ phase' \in Phase
    /\ day' = IF Hour[phase'] < Hour[phase] THEN day + 1 ELSE day
    /\ day' <= MaxDays
    /\ IF phase' = phase THEN UNCHANGED <<atm, stream, faults>>
       ELSE /\ CASE phase' = "CONNECT" -> Start /\ window' = {} /\ lost' = {} /\ UNCHANGED due
                 [] phase' = "COLLECT" -> due' = TRUE /\ UNCHANGED <<stream, window, lost, faults>>
                 [] phase' \in {"CLOSED", "PRE_OPEN"} ->
                        StopStream /\ window' = {} /\ lost' = {} /\ UNCHANGED <<due, faults>>
                 [] OTHER -> UNCHANGED <<stream, due, window, lost, faults>>
            /\ UNCHANGED <<adds, drops>>
    /\ Goes(IF faults' = faults THEN "watchdog" ELSE "wait")
    /\ UNCHANGED <<watchdog>>

\* Slip: a socket that is up is never rebuilt.
Stalled_never == FALSE
\* _heartbeat_stalled: no tick for too long, measured from the last tick ever, and
\* from the connect only if there never was one.
Stalled == silence = "past" \/ (silence = "never" /\ up = "past")

Afterwards == IF phase = "COLLECT" THEN "recompute" ELSE "wait"

\* _restart_stream; a ticker that cannot be built raises before the backoff is set.
RestartStream(d, u) ==
    \/ /\ Restarted("down")
       /\ backoff' = TRUE /\ down' = "unset" /\ up' = "unset" /\ due' = TRUE
       /\ Goes(Afterwards) /\ UNCHANGED faults
    \/ /\ Restarted("none") /\ Fault
       /\ down' = d /\ up' = u
       /\ Goes("wait") /\ UNCHANGED <<backoff, due>>

Passes(d, u) ==
    /\ down' = d /\ up' = u
    /\ Goes(Afterwards) /\ UNCHANGED <<stream, backoff, due, faults>>

Supervised == {"CONNECT", "COLLECT", "FREEZE"}

\* Connected: only in the collecting phase is silence looked at.
Healthy ==
    LET since == IF up = "unset" THEN "within" ELSE up
    IN  IF phase = "COLLECT" /\ Stalled
        THEN RestartStream("unset", since) ELSE Passes("unset", since)

\* Not connected, or given up: within the grace period the ticker reconnects itself.
Unhealthy ==
    LET since == IF down = "unset" THEN "within" ELSE down
    IN  IF (dead \/ since = "past") /\ ~backoff
        THEN RestartStream(since, "unset") ELSE Passes(since, "unset")

Watchdog ==
    /\ pc = "watchdog"
    /\ \/ phase \notin Supervised /\ Passes("unset", "unset")
       \/ phase \in Supervised /\ connected /\ ~dead /\ Healthy
       \/ phase \in Supervised /\ (~connected \/ dead) /\ Unhealthy
    /\ UNCHANGED <<session, window, adds, drops, lost, silence>>

\* The interval has not gone by, or the recompute of the underlying raises.
NoRecompute ==
    /\ pc = "recompute"
    /\ \/ ~due /\ UNCHANGED <<due, faults>>
       \/ due' = FALSE /\ Fault
    /\ Goes("wait")
    /\ UNCHANGED <<session, window, adds, drops, lost, stream, watchdog>>

\* An exception out of _recompute_all: what is left of the diff is gone.
Interrupted(missed) ==
    /\ lost' = lost \cup missed
    /\ adds' = {} /\ drops' = {} /\ due' = TRUE
    /\ Goes("wait")

\* _upsert_instruments of new tokens raises.
UpsertFails(new) == new # {} /\ Fault /\ Interrupted(new)

\* AtmWindowManager.recompute commits the new window with the diff it returns; then
\* the new tokens are stored.
Recompute ==
    /\ pc = "recompute"
    /\ \E target \in Windows :
          /\ window' = target
          /\ \/ /\ adds' = target \ window /\ drops' = window \ target
                /\ lost' = lost \cap target
                /\ Goes("unsubscribe") /\ UNCHANGED <<due, faults>>
             \/ UpsertFails(target \ window)
    /\ UNCHANGED <<session, stream, watchdog>>

\* Sending on a connection that is not there raises.
Raises == connected /\ socket \in {"down", "closing", "gaveup"}

Unsubscribe ==
    /\ pc = "unsubscribe"
    /\ subscribed' = subscribed \ drops
    /\ served' = IF connected THEN served \ drops ELSE served
    /\ IF drops # {} /\ Raises THEN Interrupted(adds) /\ UNCHANGED window ELSE Goes("subscribe") /\ UNCHANGED atm
    /\ UNCHANGED <<session, socket, connected, dead, applying, replaced, watchdog, faults>>

\* subscribe() remembers the tokens first, and sends them if connected.
Subscribe ==
    /\ pc = "subscribe"
    /\ subscribed' = subscribed \cup adds
    /\ Goes("send")
    /\ UNCHANGED <<session, atm, socket, connected, dead, served, applying, replaced, watchdog, faults>>

Send ==
    /\ pc = "send"
    /\ served' = IF connected /\ socket = "up" THEN served \cup adds ELSE served
    /\ adds' = {} /\ drops' = {} /\ due' = (adds # {} /\ Raises)
    /\ Goes("wait")
    /\ UNCHANGED <<session, window, lost, socket, connected, dead, subscribed, applying, replaced,
                   watchdog, faults>>

--------------------------------------------------------------------------------
(* The ticker's thread: one callback at a time.                                *)

Idle == applying.stage = "none"

\* _handle_connect: connected first, the tokens after.
Connects ==
    /\ Idle /\ socket = "down"
    /\ socket' = "up" /\ served' = {}
    /\ connected' = TRUE /\ dead' = FALSE
    /\ applying' = [stage |-> "read", tokens |-> {}]
    /\ UNCHANGED <<session, pc, atm, subscribed, replaced, watchdog, faults>>

ReadTokens ==
    /\ applying.stage = "read"
    /\ applying' = [stage |-> "send", tokens |-> subscribed]
    /\ UNCHANGED <<session, pc, atm, socket, connected, dead, subscribed, served, replaced,
                   watchdog, faults>>

SendTokens ==
    /\ applying.stage = "send"
    /\ served' = IF socket = "up" THEN served \cup applying.tokens ELSE served
    /\ applying' = NotApplying
    /\ UNCHANGED <<session, pc, atm, socket, connected, dead, subscribed, replaced,
                   watchdog, faults>>

\* The connection is lost, or freezes without a callback.
Lose ==
    /\ socket = "up" /\ Fault
    /\ socket' \in {"closing", "frozen"} /\ served' = {}
    /\ UNCHANGED <<session, pc, atm, connected, dead, subscribed, applying, replaced, watchdog>>

HandleClose ==
    /\ Idle /\ socket = "closing"
    /\ socket' = "down" /\ connected' = FALSE
    /\ UNCHANGED <<session, pc, atm, dead, subscribed, served, applying, replaced, watchdog, faults>>

HandleNoreconnect ==
    /\ Idle /\ socket = "down" /\ Fault
    /\ socket' = "gaveup" /\ connected' = FALSE /\ dead' = TRUE
    /\ UNCHANGED <<session, pc, atm, subscribed, served, applying, replaced, watchdog>>

\* A ticker that was replaced calls the same handlers, which do not ask who calls.
CallsLate ==
    /\ Idle /\ replaced /\ Fault
    /\ replaced' = FALSE
    /\ \/ connected' = FALSE /\ UNCHANGED <<dead, applying>>
       \/ connected' = FALSE /\ dead' = TRUE /\ UNCHANGED applying
       \/ connected' = TRUE /\ dead' = FALSE /\ applying' = [stage |-> "read", tokens |-> {}]
    /\ UNCHANGED <<session, pc, atm, socket, subscribed, served, watchdog>>

Tick ==
    /\ Idle /\ socket = "up" /\ served # {}
    /\ silence' = "within"
    /\ UNCHANGED <<session, pc, atm, stream, down, up, backoff, faults>>

--------------------------------------------------------------------------------
Past(age) == IF age = "within" THEN "past" ELSE age

\* Longer than the backoff, or than every limit of the watchdog.
TimePasses ==
    /\ backoff' = FALSE
    /\ \/ UNCHANGED <<down, up, silence>>
       \/ down' = Past(down) /\ up' = Past(up) /\ silence' = Past(silence)
    /\ UNCHANGED <<session, pc, atm, stream, faults>>

LongTimePasses == TimePasses /\ down' # "within" /\ up' # "within" /\ silence' # "within"

Controller == OnPhase \/ Watchdog \/ NoRecompute \/ Recompute \/ Unsubscribe \/ Subscribe \/ Send

Callback == Connects \/ ReadTokens \/ SendTokens \/ HandleClose

Next ==
    \/ Controller \/ Callback \/ Lose \/ HandleNoreconnect \/ CallsLate \/ Tick
    \/ TimePasses

Spec == Init /\ [][Next]_vars

\* The controller's loop runs and time passes; a callback that is due again and again
\* runs in the end, though a rebuild may take its ticker away.
Fairness ==
    /\ WF_vars(Controller) /\ WF_vars(LongTimePasses) /\ WF_vars(Connects \/ HandleClose)
    /\ SF_vars(ReadTokens) /\ SF_vars(SendTokens)

--------------------------------------------------------------------------------
\* The server streams every token of the window as soon as nobody is changing it,
\* however connects, losses, rebuilds, late callbacks and rotations fall; except those
\* whose diff an exception cut short (subscribe, _handle_connect, restart).
WindowIsStreamed ==
    Idle /\ connected /\ socket = "up" /\ pc \in {"wait", "watchdog", "recompute"}
        => window \ lost \subseteq served

(* Why: the inductive invariant.  Proved inductive in module MarketDataProofs.   *)

\* What the controller has not yet remembered of the diff it applies.
Pending == IF pc \in {"unsubscribe", "subscribe"} THEN adds ELSE {}

\* What is dropped is not in the window, and the rest of the window is subscribed,
\* whatever ticker there is.
DropsAreOutside == drops \cap window = {}
WindowIsRemembered == window \ (lost \cup Pending) \subseteq subscribed

\* Some thread has yet to ask the server for t.
OnItsWay(t) ==
    \/ applying.stage = "read"
    \/ applying.stage = "send" /\ t \in applying.tokens
    \/ pc \in {"unsubscribe", "subscribe", "send"} /\ t \in adds
NoneIsForgotten ==
    connected /\ socket = "up" => \A t \in window \ lost : t \in served \/ OnItsWay(t)

SessionInv == TypeOK /\ DropsAreOutside /\ WindowIsRemembered /\ NoneIsForgotten

\* In trading hours the collector always gets back to streaming its window: whether
\* the connection is lost, given up, frozen or not yet there (_watchdog).
StreamComesBack ==
    <>[](phase = "COLLECT")
        => []<>(socket = "up" /\ connected /\ window \ lost \subseteq served)

================================================================================
