------------------------------- MODULE OrderCalls -------------------------------
(***************************************************************************)
(* What the callers of BrokerBase rely on when a call that changes an order comes   *)
(* back, or does not: "ok" means that it took effect, "refused" and "unsent" that it  *)
(* did not and never will, "unknown" and "raised" promise nothing.  A lookup that       *)
(* finds nothing means that the order was not there when the lookup began.  Entry, exit  *)
(* and reconciliation decide from these answers whether an order may be sent again.       *)
(***************************************************************************)
EXTENDS Naturals

CONSTANTS Caller, Request

VARIABLES
    book,     \* how often each request took effect at the broker
    call,     \* call[c]: idle, open (no effect so far), done (it had its effect), or look
    about,    \* the request it is about
    absent,   \* whether that request had had no effect when the lookup began
    answer,   \* what the caller was told last
    late      \* requests on their way whose caller has given up

vars == <<book, call, about, absent, answer, late>>

Init ==
    /\ book = [r \in Request |-> 0]
    /\ call = [c \in Caller |-> "idle"]
    /\ about \in [Caller -> Request] /\ absent \in [Caller -> BOOLEAN]
    /\ answer = [c \in Caller |-> "none"]
    /\ late = {}

Begin(c, r, how) ==
    /\ call[c] = "idle"
    /\ call' = [call EXCEPT ![c] = how]
    /\ about' = [about EXCEPT ![c] = r]
    /\ answer' = [answer EXCEPT ![c] = "none"]
    /\ UNCHANGED <<book, late>>

Call(c, r) == Begin(c, r, "open") /\ UNCHANGED absent
Look(c, r) == Begin(c, r, "look") /\ absent' = [absent EXCEPT ![c] = book[r] = 0]

TakesEffect(c) ==
    /\ call[c] = "open"
    /\ book' = [book EXCEPT ![about[c]] = @ + 1]
    /\ call' = [call EXCEPT ![c] = "done"]
    /\ UNCHANGED <<about, absent, answer, late>>

Arrives(r) ==
    /\ r \in late /\ late' = late \ {r}
    /\ book' \in {book, [book EXCEPT ![r] = @ + 1]}
    /\ UNCHANGED <<call, about, absent, answer>>

\* Which answers a call in that state may get.
Allowed(c) ==
    CASE call[c] = "done" -> {"ok", "unknown", "raised"}
      [] call[c] = "open" -> {"refused", "unsent", "unknown", "raised"}
      [] call[c] = "look" -> (IF book[about[c]] > 0 THEN {"there"} ELSE {})
                              \cup (IF absent[c] THEN {"nothing"} ELSE {}) \cup {"failed"}
      [] OTHER -> {}

Returns(c) ==
    \E a \in Allowed(c) :
        /\ answer' = [answer EXCEPT ![c] = a]
        /\ call' = [call EXCEPT ![c] = "idle"]
        /\ late' \in {late, IF call[c] = "open" /\ a \in {"unknown", "raised"}
                            THEN late \cup {about[c]} ELSE late}
        /\ UNCHANGED <<book, about, absent>>

Next ==
    \/ \E c \in Caller, r \in Request : Call(c, r) \/ Look(c, r)
    \/ \E c \in Caller : TakesEffect(c) \/ Returns(c)
    \/ \E r \in Request : Arrives(r)

Spec == Init /\ [][Next]_vars

================================================================================
