-------------------------------- MODULE KiteCalls --------------------------------
(***************************************************************************)
(* KiteBroker's calls: place_order, modify_order and cancel_order, sent once, and the *)
(* reads, retried, each over a connection that may fail before the request leaves,     *)
(* while the answer is awaited, or with any of Kite's errors, which the mapper turns     *)
(* into the errors the callers decide by.  The token may expire under a running process. *)
(***************************************************************************)
EXTENDS Naturals

CONSTANTS
    Caller,          \* threads that call the broker
    Request,         \* placing, modifying or cancelling some order
    ReadAttempts,    \* KiteBrokerConfig.read_retry_attempts
    Resets,          \* whether a connection may be reset once the request has left
    MaxCalls, MaxFaults  \* bounds: calls, and failures of every kind

VARIABLES
    book,            \* how often each request took effect at Kite
    stage,           \* stage[c]: idle, connect, sent or replied
    about, reading,  \* the request, and whether the call only looks it up
    tries,           \* attempts of a read, the current one included
    reply,           \* Kite's reply, or the error that stands for it
    absent,          \* history: the request had had no effect when the read began
    answer,          \* what the caller was told last
    late,            \* requests that left and whose caller has given up
    valid,           \* Kite still accepts the token
    foreign,         \* Kite's order book holds an order of an exchange unknown to the platform
    calls, faults

vars == <<book, stage, about, reading, tries, reply, absent, answer, late, valid, foreign, calls, faults>>
kite == <<book, late, valid, foreign>>
asked == <<about, reading, absent>>

\* What kiteconnect and requests raise, by what it says of a request.
Unsent == {"ConnectTimeout", "Connection"}
Broken == {"ReadTimeout", "Network", "Data", "General"} \cup (IF Resets THEN {"Connection"} ELSE {})
Declined == {"Permission", "Input", "Order"}

TypeOK ==
    /\ book \in [Request -> Nat]
    /\ stage \in [Caller -> {"idle", "connect", "sent", "replied"}]
    /\ about \in [Caller -> Request] /\ reading \in [Caller -> BOOLEAN] /\ absent \in [Caller -> BOOLEAN]
    /\ tries \in [Caller -> 0..ReadAttempts]
    /\ reply \in [Caller -> {"none", "ok", "there", "nothing", "Token", "Unmappable"} \cup Declined]
    /\ answer \in [Caller -> {"none", "ok", "refused", "unsent", "unknown", "raised",
                              "there", "nothing", "failed"}]
    /\ late \subseteq Request
    /\ valid \in BOOLEAN /\ foreign \in BOOLEAN
    /\ calls \in 0..MaxCalls /\ faults \in 0..MaxFaults

Init ==
    /\ book = [r \in Request |-> 0]
    /\ stage = [c \in Caller |-> "idle"]
    /\ about = [c \in Caller |-> CHOOSE r \in Request : TRUE]
    /\ reading = [c \in Caller |-> FALSE] /\ absent = [c \in Caller |-> FALSE]
    /\ tries = [c \in Caller |-> 0] /\ reply = [c \in Caller |-> "none"]
    /\ answer = [c \in Caller |-> "none"]
    /\ late = {} /\ valid = TRUE /\ foreign = FALSE
    /\ calls = 0 /\ faults = 0

--------------------------------------------------------------------------------
\* Slip: a read timeout counts as a request that was not sent.
Translated_hopefully(e, mutating) ==
    CASE e \in {"Token", "Permission"} -> "authentication"
      [] e = "Input" -> "invalid"
      [] e = "Order" -> "rejected"
      [] e \in Unsent \cup {"ReadTimeout"} -> "connection"
      [] e = "Network" -> IF mutating THEN "timeout" ELSE "connection"
      [] e \in {"Data", "Unmappable"} -> "mapping"
      [] OTHER -> "broker"
\* translate_kite_exception.
Translated(e, mutating) ==
    CASE e \in {"Token", "Permission"} -> "authentication"
      [] e = "Input" -> "invalid"
      [] e = "Order" -> "rejected"
      [] e = "ReadTimeout" -> "timeout"
      [] e \in Unsent -> "connection"
      [] e = "Network" -> IF mutating THEN "timeout" ELSE "connection"
      [] e \in {"Data", "Unmappable"} -> "mapping"
      [] OTHER -> "broker"

Retryable == {"connection", "timeout"}

\* What an error tells the caller of a call that changes an order.
Meaning(error) ==
    CASE error \in {"rejected", "invalid"} -> "refused"
      [] error = "connection" -> "unsent"
      [] error = "timeout" -> "unknown"
      [] OTHER -> "raised"

Ends(c, a) ==
    /\ answer' = [answer EXCEPT ![c] = a]
    /\ stage' = [stage EXCEPT ![c] = "idle"]
    /\ reply' = [reply EXCEPT ![c] = "none"]
    /\ UNCHANGED tries

Retries(c) ==
    /\ stage' = [stage EXCEPT ![c] = "connect"]
    /\ tries' = [tries EXCEPT ![c] = @ + 1]
    /\ reply' = [reply EXCEPT ![c] = "none"]
    /\ UNCHANGED answer

\* Slip: a read whose attempts are spent is taken for an empty answer.
ReadFails_empty(c) == Ends(c, "nothing")
ReadFails(c) == Ends(c, "failed")

\* A call that changes an order is never retried; _read retries what may pass, as long
\* as attempts and the caller's deadline allow.
Raises(c, e) ==
    LET error == Translated(e, ~reading[c])
    IN  IF ~reading[c] THEN Ends(c, Meaning(error))
        ELSE \/ error \in Retryable /\ tries[c] < ReadAttempts /\ Retries(c)
             \/ ReadFails(c)

Begin(c, r) ==
    /\ stage[c] = "idle" /\ calls < MaxCalls
    /\ calls' = calls + 1
    /\ stage' = [stage EXCEPT ![c] = "connect"]
    /\ about' = [about EXCEPT ![c] = r]
    /\ answer' = [answer EXCEPT ![c] = "none"]
    /\ UNCHANGED <<kite, reply, faults>>

\* place_order, modify_order, cancel_order.
Change(c, r) ==
    /\ Begin(c, r)
    /\ reading' = [reading EXCEPT ![c] = FALSE]
    /\ tries' = [tries EXCEPT ![c] = 0]
    /\ UNCHANGED absent

\* get_order, get_orders, find_order_by_tag.
Look(c, r) ==
    /\ Begin(c, r)
    /\ reading' = [reading EXCEPT ![c] = TRUE]
    /\ tries' = [tries EXCEPT ![c] = 1]
    /\ absent' = [absent EXCEPT ![c] = book[r] = 0]

Connects(c) ==
    /\ stage[c] = "connect"
    /\ stage' = [stage EXCEPT ![c] = "sent"]
    /\ UNCHANGED <<kite, asked, tries, reply, answer, calls, faults>>

Fault == faults < MaxFaults /\ faults' = faults + 1

CannotConnect(c) ==
    /\ stage[c] = "connect" /\ Fault
    /\ \E e \in Unsent : Raises(c, e)
    /\ UNCHANGED <<kite, asked, calls>>

Replies(c, what) ==
    /\ stage[c] = "sent"
    /\ stage' = [stage EXCEPT ![c] = "replied"]
    /\ reply' = [reply EXCEPT ![c] = what]
    /\ UNCHANGED <<asked, tries, answer, late, valid, foreign, calls>>

Executes(c) ==
    /\ ~reading[c] /\ valid
    /\ Replies(c, "ok")
    /\ book' = [book EXCEPT ![about[c]] = @ + 1]
    /\ UNCHANGED faults

Declines(c) ==
    /\ Fault
    /\ \E e \in Declined : Replies(c, e)
    /\ UNCHANGED book

\* TokenException: also for a read.
Rejects(c) ==
    /\ ~valid /\ Replies(c, "Token")
    /\ UNCHANGED <<book, faults>>

\* The order book, mapped as a whole: one order that cannot be mapped fails the read.
Reads(c) ==
    /\ reading[c] /\ valid
    /\ Replies(c, IF foreign THEN "Unmappable" ELSE IF book[about[c]] > 0 THEN "there" ELSE "nothing")
    /\ UNCHANGED <<book, faults>>

Answered(c) ==
    /\ stage[c] = "replied"
    /\ IF reply[c] \in {"ok", "there", "nothing"} THEN Ends(c, reply[c]) ELSE Raises(c, reply[c])
    /\ UNCHANGED <<kite, asked, calls, faults>>

\* The answer is lost, or says nothing of the request, which may still be on its way.
Breaks(c) ==
    /\ stage[c] \in {"sent", "replied"} /\ Fault
    /\ \E e \in Broken : Raises(c, e)
    /\ late' \in {late, IF stage[c] = "sent" /\ ~reading[c] THEN late \cup {about[c]} ELSE late}
    /\ UNCHANGED <<book, valid, foreign, asked, calls>>

Arrives(r) ==
    /\ r \in late /\ late' = late \ {r}
    /\ book' = IF valid THEN [book EXCEPT ![r] = @ + 1] ELSE book
    /\ UNCHANGED <<stage, asked, tries, reply, answer, valid, foreign, calls, faults>>

\* Kite's daily reset, or a revoked token.
TokenExpires ==
    /\ valid /\ Fault /\ valid' = FALSE
    /\ UNCHANGED <<book, late, foreign, stage, asked, tries, reply, answer, calls>>

\* A manual order, of commodities say.
ForeignOrder ==
    /\ ~foreign /\ Fault /\ foreign' = TRUE
    /\ UNCHANGED <<book, late, valid, stage, asked, tries, reply, answer, calls>>

CallOf(c) ==
    \/ \E r \in Request : Change(c, r) \/ Look(c, r)
    \/ Connects(c) \/ CannotConnect(c) \/ Executes(c) \/ Declines(c) \/ Rejects(c) \/ Reads(c)
    \/ Answered(c) \/ Breaks(c)

Next ==
    \/ \E c \in Caller : CallOf(c)
    \/ \E r \in Request : Arrives(r)
    \/ TokenExpires \/ ForeignOrder

Spec == Init /\ [][Next]_vars

--------------------------------------------------------------------------------
\* The state of a call as its caller may think of it.
State(c) ==
    CASE stage[c] = "idle" -> "idle"
      [] stage[c] # "idle" /\ reading[c] -> "look"
      [] stage[c] = "replied" /\ ~reading[c] /\ reply[c] = "ok" -> "done"
      [] OTHER -> "open"

Contract == INSTANCE OrderCalls WITH call <- [c \in Caller |-> State(c)]

\* As long as a connection is not reset while its answer is awaited, an order reported as
\* refused or not sent does not exist and never will, and one that a lookup does not find
\* was not there (translate_kite_exception, place_order, _read, find_order_by_tag).
KeepsContract == Contract!Spec

================================================================================
