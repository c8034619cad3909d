------------------------------ MODULE RateLimiter ------------------------------
(***************************************************************************)
(* One category of the rate limiter that wraps every broker: a sliding window *)
(* of the last grants, shared by the threads that call the broker.  The        *)
(* window is read and extended under a lock; a caller that finds it full         *)
(* sleeps outside the lock until the oldest grant leaves it, and tries again.     *)
(* The clock is time.monotonic() in the unit of the model.                          *)
(***************************************************************************)
EXTENDS Integers, Sequences, FiniteSets

CONSTANTS
    Callers,      \* threads that call the broker
    MaxCalls,     \* RateLimitRule.max_calls
    PerSeconds,   \* RateLimitRule.per_seconds
    Timeouts,     \* timeouts callers give, None included
    MaxNow        \* bound: last instant of the clock

\* A caller without a timeout waits as long as it takes.
None == -1

ASSUME RuleAssumption ==
    /\ MaxCalls \in Nat \ {0} /\ PerSeconds \in Nat \ {0}
    /\ Timeouts \subseteq Nat \cup {None}
    /\ MaxNow \in Nat

VARIABLES
    now,          \* the clock
    granted,      \* history: the instants at which calls were let through
    calls,        \* _calls, as the places in `granted` that the list still holds
    caller,       \* caller[c]: outside, in acquire() at the lock, or asleep in it
    deadline,     \* deadline[c]: the instant c gives up at
    wait_until    \* wait_until[c]: the instant c sleeps to

vars == <<now, granted, calls, caller, deadline, wait_until>>
mine == <<caller, deadline, wait_until>>

TypeOK ==
    /\ now \in Nat
    /\ granted \in Seq(Nat)
    /\ calls \in SUBSET (1..Len(granted))
    /\ caller \in [Callers -> {"idle", "acquire", "asleep"}]
    /\ deadline \in [Callers -> Nat \cup {None}]
    /\ wait_until \in [Callers -> Nat]

Init ==
    /\ now = 0 /\ granted = <<>> /\ calls = {}
    /\ caller = [c \in Callers |-> "idle"]
    /\ deadline = [c \in Callers |-> None]
    /\ wait_until = [c \in Callers |-> 0]

--------------------------------------------------------------------------------
\* _throttle: the deadline is fixed when the call is made.
Throttle(c) ==
    /\ caller[c] = "idle"
    /\ \E timeout \in Timeouts :
          deadline' = [deadline EXCEPT ![c] = IF timeout = None THEN None ELSE now + timeout]
    /\ caller' = [caller EXCEPT ![c] = "acquire"]
    /\ UNCHANGED <<now, granted, calls, wait_until>>

\* Slip: the window is pruned up to its first instant excluded.
Pruned_one_more == {i \in calls : granted[i] > now - PerSeconds + 1}
\* Slip: expired calls stay in the list.
Pruned_never == calls
\* What acquire() keeps of the list when it gets the lock.
Pruned == {i \in calls : granted[i] > now - PerSeconds}

\* The head of the list when it was last appended to in this order.
Oldest(places) == CHOOSE i \in places : \A j \in places : i <= j

\* acquire() returns or raises: its locals are gone.
Leave(c) ==
    /\ caller' = [caller EXCEPT ![c] = "idle"]
    /\ deadline' = [deadline EXCEPT ![c] = None]
    /\ wait_until' = [wait_until EXCEPT ![c] = 0]

\* The window has room: the call is entered under the same lock, and goes out.
Grant(c) ==
    /\ caller[c] = "acquire"
    /\ Cardinality(Pruned) < MaxCalls
    /\ granted' = Append(granted, now)
    /\ calls' = Pruned \cup {Len(granted) + 1}
    /\ Leave(c)
    /\ UNCHANGED now

\* The window is full and the caller cannot wait for it.
TooLate(c, until) == deadline[c] # None /\ until > deadline[c]

\* When the oldest call of a full window leaves it.
FreesAt == granted[Oldest(Pruned)] + PerSeconds

Full(c) ==
    /\ caller[c] = "acquire"
    /\ Cardinality(Pruned) >= MaxCalls
    /\ calls' = Pruned
    /\ UNCHANGED <<now, granted>>

Refuse(c) == Full(c) /\ TooLate(c, FreesAt) /\ Leave(c)

Sleep(c) ==
    /\ Full(c) /\ ~TooLate(c, FreesAt)
    /\ caller' = [caller EXCEPT ![c] = "asleep"]
    /\ wait_until' = [wait_until EXCEPT ![c] = FreesAt]
    /\ UNCHANGED deadline

Wake(c) ==
    /\ caller[c] = "asleep" /\ now >= wait_until[c]
    /\ caller' = [caller EXCEPT ![c] = "acquire"]
    /\ wait_until' = [wait_until EXCEPT ![c] = 0]
    /\ UNCHANGED <<now, granted, calls, deadline>>

TimePasses ==
    /\ now < MaxNow
    /\ now' = now + 1
    /\ UNCHANGED <<granted, calls, mine>>

Acquires(c) == Grant(c) \/ Refuse(c) \/ Sleep(c) \/ Wake(c)

Next == TimePasses \/ \E c \in Callers : Throttle(c) \/ Acquires(c)

Spec == Init /\ [][Next]_vars

\* Threads run and time passes; nothing makes a thread call again.
Fairness == WF_vars(TimePasses) /\ \A c \in Callers : WF_vars(Acquires(c))

--------------------------------------------------------------------------------
\* No window of PerSeconds ever holds more than MaxCalls grants, whichever threads
\* compete for the lock and however late they wake (rate_limiter.py: RateLimitRule).
NeverOverLimit ==
    \A i \in DOMAIN granted :
        i + MaxCalls \in DOMAIN granted => granted[i + MaxCalls] - granted[i] >= PerSeconds

\* A caller with a timeout is let through or refused, also when others keep taking
\* the slot it slept for.  (A deadline beyond the last instant of the clock is not
\* reached in a bounded run.)
CallersAreAnswered ==
    \A c \in Callers : []<>(caller[c] = "idle" \/ deadline[c] \notin 0..(MaxNow - 1))

--------------------------------------------------------------------------------
\* The inductive invariant behind NeverOverLimit.
GrantsInOrder ==
    /\ \A i \in DOMAIN granted : granted[i] <= now
    /\ \A i, j \in DOMAIN granted : i <= j => granted[i] <= granted[j]

\* The list never loses a call that is still in the window.
NothingForgotten == \A i \in DOMAIN granted : granted[i] > now - PerSeconds => i \in calls

WindowInv == TypeOK /\ GrantsInOrder /\ NothingForgotten /\ NeverOverLimit

================================================================================
