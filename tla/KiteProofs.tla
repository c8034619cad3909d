------------------------------- MODULE KiteProofs --------------------------------
(***************************************************************************)
(* What KiteBroker answers keeps the promise its callers decide by, for any number of   *)
(* callers, requests, retries and failures, as long as no connection is reset while       *)
(* an answer is awaited (KiteCalls); the token it connects with was verified, for any      *)
(* number of tokens, days, crashes and edits of the file (KiteTokens); and the contracts   *)
(* looked up in its instruments are the ones the exchange would name, for any calendar,     *)
(* rules, spot prices, instances, days, failed fetches and restarts (Contracts).             *)
(***************************************************************************)
EXTENDS KiteCalls, WellFoundedInduction, TLAPS

CONSTANTS MaxTokens, MaxDays, MaxMishaps
VARIABLES day, accepted, issued, file, stamp, script, checks, token, dated, approved, reason, trader,
          env, mishaps

CONSTANTS Exchange, Instance, ExchangeOf, Cadence, Skipping, MonthEnds, Rules, Spots, Interval, FirstDays
VARIABLES config, exchange, age, dump, tokens, pc, spot, expiry, streamed, failed

\* The daily token.
Login == INSTANCE KiteTokens WITH MaxFaults <- MaxMishaps, faults <- mishaps

\* The choice of the contracts.
C == INSTANCE Contracts

--------------------------------------------------------------------------------
(* The calls.                                                                   *)

\* A reply says what it should: success only of a change, a lookup's only of a lookup, and
\* that a request is there only when it is.
RepliesAreTrue ==
    \A c \in Caller :
        /\ stage[c] = "replied" /\ reply[c] = "ok" => ~reading[c]
        /\ stage[c] = "replied" /\ reply[c] \in {"there", "nothing", "Unmappable"} => reading[c]
        /\ stage[c] = "replied" /\ reply[c] = "there" => book[about[c]] > 0
        /\ stage[c] = "replied" /\ reply[c] = "nothing" => absent[c]

\* What is not at the broker now was not there when the lookup began.
AbsenceIsOld ==
    \A c \in Caller : stage[c] # "idle" /\ reading[c] /\ book[about[c]] = 0 => absent[c]

Types ==
    /\ book \in [Request -> Nat]
    /\ stage \in [Caller -> {"idle", "connect", "sent", "replied"}]
    /\ about \in [Caller -> Request] /\ reading \in [Caller -> BOOLEAN] /\ absent \in [Caller -> BOOLEAN]
    /\ tries \in [Caller -> Nat]
    /\ reply \in [Caller -> {"none", "ok", "there", "nothing", "Token", "Unmappable"} \cup Declined]
    /\ answer \in [Caller -> {"none", "ok", "refused", "unsent", "unknown", "raised",
                              "there", "nothing", "failed"}]
    /\ late \subseteq Request

IInv == Types /\ RepliesAreTrue /\ AbsenceIsOld

--------------------------------------------------------------------------------
\* What a translated error says of a call that changes an order.
LEMMA ErrorsMean ==
    ASSUME ~Resets
    PROVE  /\ \A e \in Unsent : Meaning(Translated(e, TRUE)) = "unsent"
           /\ \A e \in Broken : Meaning(Translated(e, TRUE)) \in {"unknown", "raised"}
           /\ \A e \in Declined \cup {"Token"} : Meaning(Translated(e, TRUE)) \in {"refused", "raised"}
  BY DEF Unsent, Broken, Declined, Translated, Meaning

\* The call of one caller moves on; those of the others look as before.
LEMMA OneMoves ==
    ASSUME Types, NEW c \in Caller, NEW s, stage' = [stage EXCEPT ![c] = s],
           UNCHANGED reading, \A d \in Caller \ {c} : reply'[d] = reply[d]
    PROVE  \A d \in Caller \ {c} : State(d)' = State(d)
  BY DEF Types, State

\* A call that ends is a return of the contract, if the contract allows the answer.
LEMMA EndsIsReturn ==
    ASSUME IInv, NEW c \in Caller, NEW a, Ends(c, a), UNCHANGED <<book, asked>>,
           a \in Contract!Allowed(c), stage[c] # "idle",
           late' \in {late, IF State(c) = "open" /\ a \in {"unknown", "raised"}
                            THEN late \cup {about[c]} ELSE late}
    PROVE  Contract!Returns(c)
  <1>1. UNCHANGED reading /\ UNCHANGED about /\ UNCHANGED absent BY DEF asked
  <1>2. \A d \in Caller \ {c} : State(d)' = State(d)
    BY <1>1 DEF Ends, IInv, Types, State
  <1>3. State(c)' = "idle" BY DEF Ends, IInv, Types, State
  <1>4. [d \in Caller |-> State(d)]' = [[d \in Caller |-> State(d)] EXCEPT ![c] = "idle"]
    BY <1>2, <1>3
  <1>5. [d \in Caller |-> State(d)][c] = State(c) OBVIOUS
  <1>6. answer' = [answer EXCEPT ![c] = a] BY DEF Ends
  <1> QED BY <1>1, <1>4, <1>5, <1>6 DEF Contract!Returns

\* _read goes on: its caller sees nothing of it.
LEMMA RetryIsUnseen ==
    ASSUME IInv, NEW c \in Caller, stage[c] # "idle", reading[c], Retries(c), UNCHANGED <<book, asked, late>>
    PROVE  UNCHANGED Contract!vars
  <1>1. UNCHANGED reading /\ UNCHANGED about /\ UNCHANGED absent BY DEF asked
  <1>2. \A d \in Caller : State(d)' = State(d)
    BY <1>1 DEF Retries, IInv, Types, State
  <1>3. [d \in Caller |-> State(d)]' = [d \in Caller |-> State(d)] BY <1>2
  <1> QED BY <1>1, <1>3 DEF Retries, Contract!vars

\* An error is an answer the contract allows, or a retry nobody sees.
LEMMA RaisesIsAllowed ==
    ASSUME IInv, NEW c \in Caller, NEW e, Raises(c, e), UNCHANGED <<book, asked>>, stage[c] # "idle",
           reading[c] => UNCHANGED late,
           ~reading[c] => /\ Meaning(Translated(e, TRUE)) \in Contract!Allowed(c)
                          /\ late' \in {late, IF State(c) = "open"
                                                 /\ Meaning(Translated(e, TRUE)) \in {"unknown", "raised"}
                                              THEN late \cup {about[c]} ELSE late}
    PROVE  Contract!Returns(c) \/ UNCHANGED Contract!vars
  <1>0. reading[c] \in BOOLEAN BY DEF IInv, Types
  <1>1. CASE ~reading[c]
    <2>1. Ends(c, Meaning(Translated(e, TRUE)))
      <3>1. (~reading[c]) = TRUE BY <1>1
      <3> QED BY <1>1, <3>1 DEF Raises
    <2> QED BY <1>1, <2>1, EndsIsReturn
  <1>2. CASE reading[c]
    <2>1. Retries(c) \/ Ends(c, "failed") BY <1>2 DEF Raises, ReadFails
    <2>2. State(c) = "look" BY <1>2 DEF State, IInv, Types
    <2>3. "failed" \in Contract!Allowed(c) BY <2>2 DEF Contract!Allowed
    <2> QED BY <1>2, <2>1, <2>3, EndsIsReturn, RetryIsUnseen
  <1> QED BY <1>0, <1>1, <1>2

\* How a call that changes an order looks while it is under way.
LEMMA ChangeLooks ==
    ASSUME IInv, NEW c \in Caller, stage[c] # "idle", ~reading[c]
    PROVE  State(c) = IF stage[c] = "replied" /\ reply[c] = "ok" THEN "done" ELSE "open"
  BY DEF State, IInv, Types

--------------------------------------------------------------------------------
\* The calls begin.
LEMMA CallsBegin ==
    ASSUME IInv, NEW c \in Caller, NEW r \in Request, Change(c, r) \/ Look(c, r)
    PROVE  IInv' /\ Contract!Next
  <1>1. /\ stage[c] = "idle" /\ stage' = [stage EXCEPT ![c] = "connect"]
        /\ about' = [about EXCEPT ![c] = r] /\ answer' = [answer EXCEPT ![c] = "none"]
        /\ UNCHANGED <<book, late, reply>>
    BY DEF Change, Look, Begin, kite
  <1>2. IInv'
    <2> USE DEF IInv, Types, RepliesAreTrue, AbsenceIsOld
    <2>1. CASE Change(c, r) BY <1>1, <2>1 DEF Change
    <2>2. CASE Look(c, r)
      <3>1. /\ reading' = [reading EXCEPT ![c] = TRUE] /\ tries' = [tries EXCEPT ![c] = 1]
            /\ absent' = [absent EXCEPT ![c] = (book[r] = 0)]
        BY <2>2 DEF Look
      <3>2. (book[r] = 0) \in BOOLEAN OBVIOUS
      <3>3. Types' BY <1>1, <3>1, <3>2
      <3>4. RepliesAreTrue' BY <1>1, <3>1
      <3>5. AbsenceIsOld' BY <1>1, <3>1
      <3> QED BY <3>3, <3>4, <3>5
    <2> QED BY <2>1, <2>2
  <1>3. State(c) = "idle" BY <1>1 DEF State
  <1>4. \A d \in Caller \ {c} : State(d)' = State(d)
    BY <1>1 DEF Change, Look, IInv, Types, State
  <1>5. CASE Change(c, r)
    <2>1. State(c)' = "open" BY <1>1, <1>5 DEF Change, State, IInv, Types
    <2>2. [d \in Caller |-> State(d)]' = [[d \in Caller |-> State(d)] EXCEPT ![c] = "open"]
      BY <1>4, <2>1
    <2>3. Contract!Call(c, r)
      BY <1>1, <1>3, <1>5, <2>2 DEF Change, Contract!Call, Contract!Begin
    <2> QED BY <1>2, <2>3 DEF Contract!Next
  <1>6. CASE Look(c, r)
    <2>1. State(c)' = "look" BY <1>1, <1>6 DEF Look, State, IInv, Types
    <2>2. [d \in Caller |-> State(d)]' = [[d \in Caller |-> State(d)] EXCEPT ![c] = "look"]
      BY <1>4, <2>1
    <2>3. Contract!Look(c, r)
      BY <1>1, <1>3, <1>6, <2>2 DEF Look, Contract!Look, Contract!Begin
    <2> QED BY <1>2, <2>3 DEF Contract!Next
  <1> QED BY <1>5, <1>6

\* The request is on its way, is declined, or is read: the caller sees nothing yet.
LEMMA Underway ==
    ASSUME IInv, NEW c \in Caller, Connects(c) \/ Declines(c) \/ Rejects(c) \/ Reads(c)
    PROVE  IInv' /\ UNCHANGED Contract!vars
  <1>1. PICK s \in {"sent", "replied"} :
          /\ stage[c] \in {"connect", "sent"} /\ stage' = [stage EXCEPT ![c] = s]
          /\ UNCHANGED <<book, about, reading, absent, answer, late, tries>>
          /\ \A d \in Caller \ {c} : reply'[d] = reply[d]
          /\ s = "replied" => reply'[c] # "ok"
    <2>1. CASE Connects(c) BY <2>1 DEF Connects, kite, asked, IInv, Types
    <2>2. CASE Declines(c) BY <2>2 DEF Declines, Replies, asked, IInv, Types, Declined
    <2>3. CASE Rejects(c) BY <2>3 DEF Rejects, Replies, asked, IInv, Types
    <2>4. CASE Reads(c) BY <2>4 DEF Reads, Replies, asked, IInv, Types
    <2> QED BY <2>1, <2>2, <2>3, <2>4
  <1>2. IInv'
    <2> USE DEF IInv, Types, RepliesAreTrue, AbsenceIsOld, Declined
    <2>1. CASE Connects(c) BY <1>1, <2>1 DEF Connects
    <2>2. CASE Declines(c) BY <1>1, <2>2 DEF Declines, Replies
    <2>3. CASE Rejects(c) BY <1>1, <2>3 DEF Rejects, Replies
    <2>4. CASE Reads(c)
      <3>1. book[about[c]] \in Nat OBVIOUS
      <3> QED BY <1>1, <2>4, <3>1 DEF Reads, Replies
    <2> QED BY <2>1, <2>2, <2>3, <2>4
  <1>3. \A d \in Caller : State(d)' = State(d)
    <2>1. State(c)' = State(c) BY <1>1 DEF State, IInv, Types
    <2>2. \A d \in Caller \ {c} : State(d)' = State(d) BY <1>1 DEF State, IInv, Types
    <2> QED BY <2>1, <2>2
  <1>4. [d \in Caller |-> State(d)]' = [d \in Caller |-> State(d)] BY <1>3
  <1> QED BY <1>1, <1>2, <1>4 DEF Contract!vars

\* Kite executes the request.
LEMMA ExecutesIsEffect ==
    ASSUME IInv, NEW c \in Caller, Executes(c)
    PROVE  IInv' /\ Contract!Next
  <1>1. /\ stage[c] = "sent" /\ ~reading[c] /\ stage' = [stage EXCEPT ![c] = "replied"]
        /\ reply' = [reply EXCEPT ![c] = "ok"] /\ book' = [book EXCEPT ![about[c]] = @ + 1]
        /\ UNCHANGED <<about, reading, absent, answer, late, tries>>
    BY DEF Executes, Replies, asked
  <1>2. IInv' BY <1>1 DEF IInv, Types, RepliesAreTrue, AbsenceIsOld
  <1>3. State(c) = "open" /\ State(c)' = "done" BY <1>1 DEF State, IInv, Types
  <1>4. \A d \in Caller \ {c} : State(d)' = State(d) BY <1>1 DEF State, IInv, Types
  <1>5. [d \in Caller |-> State(d)]' = [[d \in Caller |-> State(d)] EXCEPT ![c] = "done"]
    BY <1>3, <1>4
  <1>6. Contract!TakesEffect(c) BY <1>1, <1>3, <1>5 DEF Contract!TakesEffect
  <1> QED BY <1>2, <1>6 DEF Contract!Next

\* The reply reaches the caller.
LEMMA AnswersAreAllowed ==
    ASSUME ~Resets, IInv, NEW c \in Caller, Answered(c)
    PROVE  Contract!Returns(c) \/ UNCHANGED Contract!vars
  <1>1. stage[c] = "replied" /\ UNCHANGED <<book, asked, late>> BY DEF Answered, kite
  <1>2. reply[c] \in {"none", "ok", "there", "nothing", "Token", "Unmappable"} \cup Declined
    BY DEF IInv, Types
  <1>3. CASE reply[c] \in {"ok", "there", "nothing"}
    <2>1. Ends(c, reply[c]) BY <1>3 DEF Answered
    <2>2. reply[c] \in Contract!Allowed(c)
      BY <1>1, <1>3 DEF Contract!Allowed, State, IInv, RepliesAreTrue, Types
    <2> QED BY <1>1, <2>1, <2>2, EndsIsReturn
  <1>4. CASE reply[c] \notin {"ok", "there", "nothing"}
    <2>1. Raises(c, reply[c]) BY <1>4 DEF Answered
    <2>2. ASSUME ~reading[c]
          PROVE  Meaning(Translated(reply[c], TRUE)) \in Contract!Allowed(c)
      <3>1. State(c) = "open" BY <1>1, <1>4, <2>2, ChangeLooks
      <3>2. reply[c] \in Declined \cup {"Token", "none"}
        BY <1>1, <1>2, <1>4, <2>2 DEF IInv, RepliesAreTrue
      <3>3. Meaning(Translated(reply[c], TRUE)) \in {"refused", "raised"}
        BY <3>2 DEF Translated, Meaning, Declined, Unsent
      <3> QED BY <3>1, <3>3 DEF Contract!Allowed
    <2> QED BY <1>1, <2>1, <2>2, RaisesIsAllowed
  <1> QED BY <1>3, <1>4

\* The connection fails, before the request leaves or after.
LEMMA FailuresAreAllowed ==
    ASSUME ~Resets, IInv, NEW c \in Caller, CannotConnect(c) \/ Breaks(c)
    PROVE  Contract!Returns(c) \/ UNCHANGED Contract!vars
  <1>1. CASE CannotConnect(c)
    <2>1. PICK e \in Unsent : Raises(c, e) BY <1>1 DEF CannotConnect
    <2>2. stage[c] = "connect" /\ UNCHANGED <<book, asked, late>> BY <1>1 DEF CannotConnect, kite
    <2>3. ASSUME ~reading[c] PROVE Meaning(Translated(e, TRUE)) \in Contract!Allowed(c)
      <3>1. State(c) = "open" BY <2>2, <2>3, ChangeLooks
      <3> QED BY <3>1, ErrorsMean DEF Contract!Allowed
    <2> QED BY <2>1, <2>2, <2>3, RaisesIsAllowed
  <1>2. CASE Breaks(c)
    <2>1. PICK e \in Broken : Raises(c, e) BY <1>2 DEF Breaks
    <2>2. /\ stage[c] \in {"sent", "replied"} /\ UNCHANGED <<book, asked>>
          /\ late' \in {late, IF stage[c] = "sent" /\ ~reading[c] THEN late \cup {about[c]} ELSE late}
      BY <1>2 DEF Breaks
    <2>3. ASSUME ~reading[c]
          PROVE  /\ Meaning(Translated(e, TRUE)) \in Contract!Allowed(c)
                 /\ late' \in {late, IF State(c) = "open"
                                        /\ Meaning(Translated(e, TRUE)) \in {"unknown", "raised"}
                                     THEN late \cup {about[c]} ELSE late}
      <3>1. State(c) \in {"open", "done"} /\ (stage[c] = "sent" => State(c) = "open")
        BY <2>2, <2>3, ChangeLooks
      <3>2. Meaning(Translated(e, TRUE)) \in {"unknown", "raised"} BY ErrorsMean
      <3> QED BY <2>2, <3>1, <3>2 DEF Contract!Allowed
    <2> QED BY <2>1, <2>2, <2>3, RaisesIsAllowed
  <1> QED BY <1>1, <1>2

\* However a call ends or is retried, what is known of the others stays true.
LEMMA EndsKeepIt ==
    ASSUME IInv, NEW c \in Caller, Answered(c) \/ CannotConnect(c) \/ Breaks(c)
    PROVE  IInv'
  <1>1. /\ UNCHANGED <<book, about, reading, absent>>
        /\ late' \subseteq Request
    BY DEF Answered, CannotConnect, Breaks, kite, asked, IInv, Types
  <1>2. PICK a \in {"ok", "there", "nothing", "refused", "unsent", "unknown", "raised", "failed"} :
          Ends(c, a) \/ Retries(c)
    <2>1. ASSUME NEW e, Raises(c, e) PROVE Ends(c, Meaning(Translated(e, TRUE))) \/ Ends(c, "failed") \/ Retries(c)
      <3>1. CASE ~reading[c]
        <4>1. (~reading[c]) = TRUE BY <3>1
        <4> QED BY <2>1, <3>1, <4>1 DEF Raises
      <3>2. CASE reading[c] BY <2>1, <3>2 DEF Raises, ReadFails
      <3> QED BY <3>1, <3>2
    <2>2. \A e : Meaning(Translated(e, TRUE)) \in {"refused", "unsent", "unknown", "raised"}
      BY DEF Meaning
    <2> QED BY <2>1, <2>2 DEF Answered, CannotConnect, Breaks
  <1>3. CASE Ends(c, a) BY <1>1, <1>3 DEF Ends, IInv, Types, RepliesAreTrue, AbsenceIsOld
  <1>4. CASE Retries(c)
    <2>1. stage[c] # "idle" BY DEF Answered, CannotConnect, Breaks
    <2> QED BY <1>1, <1>4, <2>1 DEF Retries, IInv, Types, RepliesAreTrue, AbsenceIsOld
  <1> QED BY <1>2, <1>3, <1>4

\* Delayed requests, and what happens at Kite.
LEMMA WorldMoves ==
    ASSUME IInv, TokenExpires \/ ForeignOrder \/ \E r \in Request : Arrives(r)
    PROVE  IInv' /\ (Contract!Next \/ UNCHANGED Contract!vars)
  <1>1. UNCHANGED <<stage, about, reading, absent, reply, tries, answer>>
    BY DEF TokenExpires, ForeignOrder, Arrives, asked
  <1>2. [d \in Caller |-> State(d)]' = [d \in Caller |-> State(d)] BY <1>1 DEF State
  <1>3. CASE TokenExpires \/ ForeignOrder
    <2>1. UNCHANGED <<book, late>> BY <1>3 DEF TokenExpires, ForeignOrder
    <2> QED BY <1>1, <1>2, <2>1 DEF IInv, Types, RepliesAreTrue, AbsenceIsOld, Contract!vars
  <1>4. ASSUME NEW r \in Request, Arrives(r) PROVE IInv' /\ Contract!Next
    <2>1. /\ r \in late /\ late' = late \ {r}
          /\ book' \in {book, [book EXCEPT ![r] = @ + 1]}
      BY <1>4 DEF Arrives
    <2>2. IInv' BY <1>1, <2>1 DEF IInv, Types, RepliesAreTrue, AbsenceIsOld
    <2>3. Contract!Arrives(r) BY <1>1, <1>2, <2>1 DEF Contract!Arrives
    <2> QED BY <2>2, <2>3 DEF Contract!Next
  <1> QED BY <1>3, <1>4

--------------------------------------------------------------------------------
\* What is reported as refused or not sent never takes effect, and what a lookup does not
\* find was not there (translate_kite_exception, place_order, _read, find_order_by_tag).
THEOREM ContractIsKept == ASSUME ~Resets, Request # {} PROVE Spec => KeepsContract
  <1>1. Init => IInv /\ Contract!Init
    <2> SUFFICES ASSUME Init PROVE IInv /\ Contract!Init OBVIOUS
    <2>1. (CHOOSE r \in Request : TRUE) \in Request OBVIOUS
    <2>2. IInv BY <2>1 DEF Init, IInv, Types, RepliesAreTrue, AbsenceIsOld
    <2>3. \A c \in Caller : State(c) = "idle" BY DEF Init, State
    <2>4. [c \in Caller |-> State(c)] = [c \in Caller |-> "idle"] BY <2>3
    <2> QED BY <2>2, <2>4 DEF Init, Contract!Init, IInv, Types
  <1>2. IInv /\ [Next]_vars => IInv' /\ [Contract!Next]_(Contract!vars)
    <2> SUFFICES ASSUME IInv, [Next]_vars PROVE IInv' /\ [Contract!Next]_(Contract!vars) OBVIOUS
    <2>1. CASE UNCHANGED vars
      <3>1. [d \in Caller |-> State(d)]' = [d \in Caller |-> State(d)] BY <2>1 DEF vars, State
      <3> QED BY <2>1, <3>1 DEF vars, IInv, Types, RepliesAreTrue, AbsenceIsOld, Contract!vars
    <2>2. ASSUME NEW c \in Caller, CallOf(c) PROVE IInv' /\ [Contract!Next]_(Contract!vars)
      <3>1. CASE \E r \in Request : Change(c, r) \/ Look(c, r) BY <3>1, CallsBegin
      <3>2. CASE Connects(c) \/ Declines(c) \/ Rejects(c) \/ Reads(c) BY <3>2, Underway
      <3>3. CASE Executes(c) BY <3>3, ExecutesIsEffect
      <3>4. CASE Answered(c) BY <3>4, AnswersAreAllowed, EndsKeepIt DEF Contract!Next
      <3>5. CASE CannotConnect(c) \/ Breaks(c)
        BY <3>5, FailuresAreAllowed, EndsKeepIt DEF Contract!Next
      <3> QED BY <2>2, <3>1, <3>2, <3>3, <3>4, <3>5 DEF CallOf
    <2>3. CASE TokenExpires \/ ForeignOrder \/ \E r \in Request : Arrives(r) BY <2>3, WorldMoves
    <2> QED BY <2>1, <2>2, <2>3 DEF Next
  <1> QED BY <1>1, <1>2, PTL DEF Spec, KeepsContract, Contract!Spec

\* The bounds of the calls: attempts, calls and failures.
CallBounds == ReadAttempts \in Nat \ {0} /\ MaxCalls \in Nat /\ MaxFaults \in Nat

WithinBounds ==
    /\ tries \in [Caller -> 0..ReadAttempts]
    /\ valid \in BOOLEAN /\ foreign \in BOOLEAN
    /\ calls \in 0..MaxCalls /\ faults \in 0..MaxFaults

LEMMA BoundsStep == ASSUME CallBounds, WithinBounds, [Next]_vars PROVE WithinBounds'
  <1> USE DEF CallBounds, WithinBounds, kite, asked
  <1>1. ASSUME NEW c \in Caller, NEW e, Raises(c, e) PROVE tries' \in [Caller -> 0..ReadAttempts]
    BY <1>1 DEF Raises, Retries, ReadFails, Ends
  <1>2. ASSUME Fault PROVE faults' \in 0..MaxFaults BY <1>2 DEF Fault
  <1>3. ASSUME NEW c \in Caller, NEW r \in Request, Change(c, r) \/ Look(c, r) PROVE WithinBounds'
    BY <1>3 DEF Change, Look, Begin
  <1>4. ASSUME NEW c \in Caller, Connects(c) \/ Executes(c) \/ Rejects(c) \/ Reads(c) PROVE WithinBounds'
    BY <1>4 DEF Connects, Executes, Rejects, Reads, Replies
  <1>5. ASSUME NEW c \in Caller, Declines(c) PROVE WithinBounds' BY <1>2, <1>5 DEF Declines, Replies
  <1>6. ASSUME NEW c \in Caller, CannotConnect(c) \/ Breaks(c) PROVE WithinBounds'
    BY <1>1, <1>2, <1>6 DEF CannotConnect, Breaks
  <1>7. ASSUME NEW c \in Caller, Answered(c) PROVE WithinBounds'
    BY <1>1, <1>7 DEF Answered, Ends
  <1>8. ASSUME TokenExpires \/ ForeignOrder \/ \E r \in Request : Arrives(r) PROVE WithinBounds'
    BY <1>2, <1>8 DEF TokenExpires, ForeignOrder, Arrives
  <1>9. CASE UNCHANGED vars BY <1>9 DEF vars
  <1> QED BY <1>3, <1>4, <1>5, <1>6, <1>7, <1>8, <1>9 DEF Next, CallOf

\* The types hold whatever connections do, and a read is never tried more often than
\* read_retry_attempts (_read, translate_kite_exception).
THEOREM CallTypes == ASSUME CallBounds, Request # {} PROVE Spec => []TypeOK
  <1>1. Init => IInv /\ WithinBounds
    <2> SUFFICES ASSUME Init PROVE IInv /\ WithinBounds OBVIOUS
    <2>1. (CHOOSE r \in Request : TRUE) \in Request OBVIOUS
    <2>2. IInv BY <2>1 DEF Init, IInv, Types, RepliesAreTrue, AbsenceIsOld
    <2>3. 0 \in 0..ReadAttempts /\ 0 \in 0..MaxCalls /\ 0 \in 0..MaxFaults BY DEF CallBounds
    <2>4. WithinBounds BY <2>3 DEF Init, WithinBounds
    <2> QED BY <2>2, <2>4
  <1>2. IInv /\ WithinBounds /\ [Next]_vars => IInv' /\ WithinBounds'
    <2> SUFFICES ASSUME IInv, WithinBounds, [Next]_vars PROVE IInv' BY BoundsStep
    <2>1. CASE UNCHANGED vars BY <2>1 DEF vars, IInv, Types, RepliesAreTrue, AbsenceIsOld
    <2>2. ASSUME NEW c \in Caller, CallOf(c) PROVE IInv'
      BY <2>2, CallsBegin, Underway, ExecutesIsEffect, EndsKeepIt DEF CallOf
    <2>3. CASE TokenExpires \/ ForeignOrder \/ \E r \in Request : Arrives(r) BY <2>3, WorldMoves
    <2> QED BY <2>1, <2>2, <2>3 DEF Next
  <1>3. IInv /\ WithinBounds => TypeOK BY DEF IInv, Types, WithinBounds, TypeOK
  <1> QED BY <1>1, <1>2, <1>3, PTL DEF Spec

--------------------------------------------------------------------------------
(* The daily token.                                                             *)

\* The invariant is what the property says, and more.
LEMMA TokensSuffice == ASSUME MaxTokens \in Nat, Login!TokensInv PROVE Login!TokensAreVerified
  BY DEF Login!TokensInv, Login!ClockAndKite, Login!WritesAreKnown, Login!LoginIsNeeded,
         Login!TokensAreVerified, Login!None, Login!Garbage, Login!Today

\* Nothing is known, nothing is claimed.
LEMMA NothingIssued == ASSUME MaxTokens \in Nat PROVE Login!Init => Login!TokensInv
  BY DEF Login!Init, Login!TokensInv, Login!ClockAndKite, Login!WritesAreKnown, Login!LoginIsNeeded,
         Login!None, Login!Garbage, Login!Today

\* The script reads, asks Kite, or gives up: nothing is written.
LEMMA ChecksKeepIt ==
    ASSUME MaxTokens \in Nat, Login!TokensInv,
           Login!ScriptStarts \/ Login!CheckExisting \/ Login!Validate \/ Login!ValidateFails
           \/ Login!LoginFails \/ Login!Confirm
             \/ Login!ConfirmFails \/ Login!ScriptDies
    PROVE  Login!TokensInv'
  <1> USE DEF Login!TokensInv, Login!ClockAndKite, Login!WritesAreKnown, Login!LoginIsNeeded, Login!None,
              Login!Garbage, Login!Today,
              Login!kite, Login!stored, Login!process, Login!Fault
  <1>1. CASE Login!ScriptStarts BY <1>1 DEF Login!ScriptStarts
  <1>2. CASE Login!CheckExisting BY <1>2 DEF Login!CheckExisting, Login!FindsNothing
  <1>3. CASE Login!Validate BY <1>3 DEF Login!Validate, Login!FindsNothing, Login!Approves
  <1>4. CASE Login!ValidateFails BY <1>4 DEF Login!ValidateFails, Login!FindsNothing
  <1>5. CASE Login!LoginFails BY <1>5 DEF Login!LoginFails
  <1>6. CASE Login!Confirm BY <1>6 DEF Login!Confirm, Login!Confirmed, Login!Approves
  <1>7. CASE Login!ConfirmFails BY <1>7 DEF Login!ConfirmFails
  <1>8. CASE Login!ScriptDies BY <1>8 DEF Login!ScriptDies
  <1> QED BY <1>1, <1>2, <1>3, <1>4, <1>5, <1>6, <1>7, <1>8

\* A token is issued and written, in three writes that a crash may part.
LEMMA WritesKeepIt ==
    ASSUME MaxTokens \in Nat, Login!TokensInv,
           Login!Exchange \/ Login!SetAccessToken \/ Login!MakeRecord \/ Login!SaveToken \/ Login!SaveStamp
           \/ Login!Edited
    PROVE  Login!TokensInv'
  <1> USE DEF Login!TokensInv, Login!ClockAndKite, Login!WritesAreKnown, Login!LoginIsNeeded, Login!None,
              Login!Garbage, Login!Today,
              Login!kite, Login!stored, Login!process, Login!Fault
  <1>1. CASE Login!Exchange BY <1>1 DEF Login!Exchange
  <1>2. CASE Login!SetAccessToken BY <1>2 DEF Login!SetAccessToken
  <1>3. CASE Login!MakeRecord BY <1>3 DEF Login!MakeRecord
  <1>4. CASE Login!SaveToken BY <1>4 DEF Login!SaveToken
  <1>5. CASE Login!SaveStamp BY <1>5 DEF Login!SaveStamp
  <1>6. CASE Login!Edited BY <1>6 DEF Login!Edited
  <1> QED BY <1>1, <1>2, <1>3, <1>4, <1>5, <1>6

\* The trading process, midnight, and Kite taking tokens back.
LEMMA OthersKeepIt ==
    ASSUME MaxTokens \in Nat, Login!TokensInv,
           Login!TraderStarts \/ Login!Authenticate \/ Login!AuthenticateFails \/ Login!TraderStops
             \/ Login!Midnight \/ Login!KiteResets \/ Login!Revoked
    PROVE  Login!TokensInv'
  <1> USE DEF Login!TokensInv, Login!ClockAndKite, Login!WritesAreKnown, Login!LoginIsNeeded, Login!None,
              Login!Garbage, Login!Today,
              Login!kite, Login!stored, Login!process, Login!Fault
  <1>1. CASE Login!TraderStarts BY <1>1 DEF Login!TraderStarts
  <1>2. CASE Login!Authenticate BY <1>2 DEF Login!Authenticate
  <1>3. CASE Login!AuthenticateFails BY <1>3 DEF Login!AuthenticateFails
  <1>4. CASE Login!TraderStops BY <1>4 DEF Login!TraderStops
  <1>5. CASE Login!Midnight BY <1>5 DEF Login!Midnight
  <1>6. CASE Login!KiteResets BY <1>6 DEF Login!KiteResets
  <1>7. CASE Login!Revoked BY <1>7 DEF Login!Revoked
  <1> QED BY <1>1, <1>2, <1>3, <1>4, <1>5, <1>6, <1>7

\* The invariant holds from the first step on, for every order of crashes and writes.
LEMMA LoginInvariant == ASSUME MaxTokens \in Nat PROVE Login!Spec => []Login!TokensInv
  <1>1. Login!TokensInv /\ UNCHANGED Login!vars => Login!TokensInv'
    BY DEF Login!TokensInv, Login!ClockAndKite, Login!WritesAreKnown, Login!LoginIsNeeded, Login!Today,
           Login!vars
  <1>2. Login!TokensInv /\ [Login!Next]_(Login!vars) => Login!TokensInv'
    BY <1>1, ChecksKeepIt, WritesKeepIt, OthersKeepIt DEF Login!Next
  <1> QED BY NothingIssued, <1>2, PTL DEF Login!Spec

\* Success is reported only for a token that Kite accepted and the file holds, a login is
\* asked for only when it is needed or Kite cannot be asked, and nobody trades with a
\* value that Kite never issued (ensure_valid_token, check_existing, authenticate).
THEOREM LoginIsHonest == ASSUME MaxTokens \in Nat PROVE Login!Spec => []Login!TokensAreVerified
  <1>1. Login!TokensInv => Login!TokensAreVerified BY TokensSuffice
  <1> QED BY <1>1, LoginInvariant, PTL

\* The bounds of the login: tokens, days, failures.
LoginBounds == MaxTokens \in Nat /\ MaxDays \in Nat \ {0} /\ MaxMishaps \in Nat

\* Where the script and the process are; a check that is under way is one of those left.
LoginStages ==
    /\ day \in 1..MaxDays
    /\ script \in {"idle", "check", "validate", "login", "apply", "record", "save", "stamp", "confirm",
                   "succeeded", "failed"}
    /\ checks \in 0..2 /\ (script \in {"check", "validate"} => checks > 0)
    /\ reason \in {"none", "stale", "missing", "refused", "unreachable"}
    /\ trader \in {"down", "starting", "up", "failed"}
    /\ mishaps \in 0..MaxMishaps

LEMMA StagesStep == ASSUME LoginBounds, LoginStages, [Login!Next]_(Login!vars) PROVE LoginStages'
  <1> USE DEF LoginBounds, LoginStages, Login!kite, Login!stored, Login!process
  <1>1. ASSUME Login!Fault PROVE mishaps' \in 0..MaxMishaps BY <1>1 DEF Login!Fault
  <1>2. CASE Login!ScriptStarts BY <1>2 DEF Login!ScriptStarts
  <1>3. ASSUME NEW why \in {"stale", "missing", "refused", "unreachable"}, Login!FindsNothing(why), checks > 0
        PROVE  /\ script' \in {"check", "login"} /\ checks' \in 0..2 /\ reason' = why
               /\ script' = "check" => checks' > 0
    BY <1>3 DEF Login!FindsNothing
  <1>4. CASE Login!CheckExisting BY <1>3, <1>4 DEF Login!CheckExisting
  <1>5. CASE Login!Validate BY <1>3, <1>5 DEF Login!Validate
  <1>6. CASE Login!ValidateFails BY <1>1, <1>3, <1>6 DEF Login!ValidateFails
  <1>7. CASE Login!Exchange BY <1>7 DEF Login!Exchange
  <1>8. CASE Login!LoginFails \/ Login!ConfirmFails \/ Login!ScriptDies \/ Login!Edited
    BY <1>1, <1>8 DEF Login!LoginFails, Login!ConfirmFails, Login!ScriptDies, Login!Edited
  <1>9. CASE Login!SetAccessToken \/ Login!MakeRecord \/ Login!SaveToken \/ Login!SaveStamp
    BY <1>9 DEF Login!SetAccessToken, Login!MakeRecord, Login!SaveToken, Login!SaveStamp
  <1>10. CASE Login!Confirm BY <1>10 DEF Login!Confirm, Login!Confirmed
  <1>11. CASE Login!TraderStarts \/ Login!Authenticate \/ Login!AuthenticateFails \/ Login!TraderStops
    BY <1>1, <1>11 DEF Login!TraderStarts, Login!Authenticate, Login!AuthenticateFails, Login!TraderStops
  <1>12. CASE Login!Midnight \/ Login!KiteResets \/ Login!Revoked
    BY <1>1, <1>12 DEF Login!Midnight, Login!KiteResets, Login!Revoked
  <1>13. CASE UNCHANGED Login!vars BY <1>13 DEF Login!vars
  <1> QED BY <1>2, <1>4, <1>5, <1>6, <1>7, <1>8, <1>9, <1>10, <1>11, <1>12, <1>13 DEF Login!Next

\* The token at hand is one of the file or one that Kite issued, and what Kite answered for
\* was its own.
TokensAreValues == token \in 0..(MaxTokens + 1) /\ approved \subseteq 1..MaxTokens

LEMMA ValuesStep ==
    ASSUME LoginBounds, Login!TokensInv, TokensAreValues, [Login!Next]_(Login!vars)
    PROVE  TokensAreValues'
  <1> USE DEF TokensAreValues, Login!kite, Login!stored, Login!process
  <1>1. MaxTokens \in Nat /\ file \in 0..(MaxTokens + 1) /\ issued \in 0..MaxTokens /\ accepted \subseteq 1..MaxTokens
    BY DEF Login!TokensInv, Login!ClockAndKite, Login!Garbage, LoginBounds
  <1>2. CASE Login!ScriptStarts BY <1>1, <1>2 DEF Login!ScriptStarts, Login!None
  <1>3. CASE Login!CheckExisting BY <1>1, <1>3 DEF Login!CheckExisting
  <1>4. CASE Login!Validate \/ Login!Confirm BY <1>1, <1>4 DEF Login!Validate, Login!Confirm
  <1>5. CASE Login!Exchange BY <1>1, <1>5 DEF Login!Exchange
  <1>6. CASE UNCHANGED <<token, approved>> BY <1>6
  <1> QED
    BY <1>2, <1>3, <1>4, <1>5, <1>6
       DEF Login!Next, Login!ValidateFails, Login!LoginFails, Login!SetAccessToken, Login!MakeRecord,
           Login!SaveToken, Login!SaveStamp, Login!ConfirmFails, Login!ScriptDies, Login!TraderStarts,
           Login!Authenticate, Login!AuthenticateFails, Login!TraderStops, Login!Midnight, Login!KiteResets,
           Login!Revoked, Login!Edited, Login!vars

\* The types of the login: the stamp is never of a day to come, Kite accepts only what it
\* issued, and the file holds what was put there (KiteSession, generate_token).
THEOREM LoginTypes == ASSUME LoginBounds PROVE Login!Spec => []Login!TypeOK
  <1>0. MaxTokens \in Nat BY DEF LoginBounds
  <1>1. Login!Init => LoginStages /\ TokensAreValues
    BY DEF Login!Init, LoginStages, TokensAreValues, LoginBounds, Login!None
  <1>2. LoginStages /\ [Login!Next]_(Login!vars) => LoginStages' BY StagesStep
  <1>3. Login!TokensInv /\ TokensAreValues /\ [Login!Next]_(Login!vars) => TokensAreValues' BY ValuesStep
  <1>4. Login!TokensInv /\ LoginStages /\ TokensAreValues => Login!TypeOK
    BY DEF Login!TokensInv, Login!ClockAndKite, LoginStages, TokensAreValues, LoginBounds, Login!TypeOK,
           Login!Value, Login!None, Login!Garbage
  <1> QED BY <1>0, <1>1, <1>2, <1>3, <1>4, LoginInvariant, PTL DEF Login!Spec

--------------------------------------------------------------------------------
(* The choice of the contracts.                                                 *)

\* A set of naturals has a least.
LEMMA LeastNatural ==
    ASSUME NEW T, T \subseteq Nat, T # {}
    PROVE  \E x \in T : \A y \in T : x <= y
  <1> DEFINE Less == {p \in Nat \X Nat : p[1] < p[2]}
  <1>1. IsWellFoundedOn(Less, Nat) BY NatLessThanWellFounded DEF OpToRel
  <1>2. \E x \in T : \A y \in T : <<y, x>> \notin Less
    <2> HIDE DEF Less
    <2> QED BY <1>1, WFMin
  <1>3. ASSUME NEW x \in T, NEW y \in T, <<y, x>> \notin Less PROVE x <= y BY <1>3
  <1> QED BY <1>2, <1>3

\* The calendars: exchanges trade at least one day of any fifteen; the ends of the months are
\* 28 to 31 days apart as far as the days of the run see; the strikes listed cover the spots.
Days == {d + k : d \in FirstDays, k \in 0..MaxDays}
Calendars ==
    /\ ExchangeOf \in [Instance -> Exchange]
    /\ Interval \in Nat \ {0} /\ Spots \subseteq Nat /\ \A s \in Spots : C!Atm(s) \in C!Strikes
    /\ FirstDays \subseteq Nat /\ MaxDays \in Nat /\ MaxFaults \in Nat
    /\ \A r \in Rules : r.weekday \in 0..6
    /\ \A r \in Rules, x \in Exchange, d \in Nat :
          \E e \in (d - C!MaxShift)..d : C!IsTradingDay(r.holidays[x], e)
    /\ MonthEnds \subseteq Nat /\ \A e, f \in MonthEnds : e < f => f >= e + 28
    /\ \A d \in Days : /\ \E e \in MonthEnds : e \in d..(d + 30)
                       /\ \A e \in MonthEnds :
                             e \in d..(d + 30) => \E f \in MonthEnds : f \in (e + 28)..(e + 31)

\* In seven days each weekday comes once.
LEMMA WeekdayOnce ==
    ASSUME NEW w \in 0..6, NEW d \in Int, NEW n \in Int
    PROVE  /\ C!WeeklyExpiry(w, d) \in d..(d + 6) /\ C!Weekday(C!WeeklyExpiry(w, d)) = w
           /\ n \in d..(d + 6) /\ C!Weekday(n) = w => n = C!WeeklyExpiry(w, d)
  BY DEF C!Weekday, C!WeeklyExpiry

\* The last of a weekday in a month is among its last seven days.
LEMMA LastOfMonth ==
    ASSUME NEW w \in 0..6, NEW d \in Int
    PROVE  C!LastWeekday(d, w) \in (d - 6)..d /\ C!Weekday(C!LastWeekday(d, w)) = w
  BY DEF C!Weekday, C!LastWeekday

LEMMA LastOfMonthOnce ==
    ASSUME NEW w \in 0..6, NEW d \in Int, NEW n \in (d - 6)..d, C!Weekday(n) = w
    PROVE  n = C!LastWeekday(d, w)
  BY DEF C!Weekday, C!LastWeekday

\* The strike is at most half an interval away from the spot.
LEMMA NearestStrike ==
    ASSUME Interval \in Nat \ {0}, NEW s \in Nat
    PROVE  2 * (C!Atm(s) - s) \in (-Interval)..Interval
  <1> DEFINE q == (2 * s + Interval) \div (2 * Interval)
  <1>1. q \in Int /\ q * (2 * Interval) <= 2 * s + Interval /\ 2 * s + Interval < (q + 1) * (2 * Interval)
    OBVIOUS
  <1>2. C!Atm(s) = q * Interval BY DEF C!Atm
  <1> HIDE DEF q
  <1>3. q * (2 * Interval) = 2 * (q * Interval) /\ (q + 1) * (2 * Interval) = 2 * (q * Interval) + 2 * Interval
    BY <1>1
  <1>4. q * Interval \in Int BY <1>1
  <1> QED BY <1>1, <1>2, <1>3, <1>4

\* The last trading day up to d.
IsLast(H, d, e) == e \in Int /\ e <= d /\ C!IsTradingDay(H, e) /\ \A f \in (e + 1)..d : ~C!IsTradingDay(H, f)

LEMMA LastExists ==
    ASSUME NEW H, NEW d \in Nat, \E e \in (d - C!MaxShift)..d : C!IsTradingDay(H, e)
    PROVE  \E e \in (d - C!MaxShift)..d : IsLast(H, d, e)
  <1> DEFINE T == {k \in Nat : C!IsTradingDay(H, d - k)}
  <1>1. PICK e \in (d - C!MaxShift)..d : C!IsTradingDay(H, e) OBVIOUS
  <1>2. d - e \in T /\ e \in Int
    <2>1. e \in Int /\ d - e \in Nat /\ d - (d - e) = e BY DEF C!MaxShift
    <2> QED BY <1>1, <2>1
  <1>3. PICK k \in T : \A j \in T : k <= j
    <2> HIDE DEF T
    <2>1. T \subseteq Nat BY DEF T
    <2> QED BY <1>2, <2>1, LeastNatural
  <1>4. k <= d - e BY <1>2, <1>3
  <1>5. d - k \in (d - C!MaxShift)..d BY <1>2, <1>3, <1>4 DEF C!MaxShift
  <1>6. ASSUME NEW f \in (d - k + 1)..d, C!IsTradingDay(H, f) PROVE FALSE
    <2>1. d - f \in Nat /\ d - (d - f) = f BY <1>3
    <2>2. d - f \in T BY <1>6, <2>1
    <2>3. k <= d - f BY <1>3, <2>2
    <2> QED BY <1>3, <2>3
  <1>7. IsLast(H, d, d - k) BY <1>3, <1>6 DEF IsLast
  <1> QED BY <1>5, <1>7

\* It is where an expiry is shifted to.
LEMMA ShiftedIsLast ==
    ASSUME NEW H, NEW d \in Nat, \E e \in (d - C!MaxShift)..d : C!IsTradingDay(H, e)
    PROVE  IsLast(H, d, C!Shifted(H, d))
  <1> DEFINE P(e) == /\ e = d - C!MaxShift \/ C!IsTradingDay(H, e)
                     /\ \A f \in (e + 1)..d : ~C!IsTradingDay(H, f)
             s == CHOOSE e \in (d - C!MaxShift)..d : P(e)
  <1>1. PICK e \in (d - C!MaxShift)..d : IsLast(H, d, e) BY LastExists
  <1>2. P(e) BY <1>1 DEF IsLast
  <1>3. s \in (d - C!MaxShift)..d /\ P(s)
    <2> HIDE DEF P
    <2> QED BY <1>2
  <1>4. C!Shifted(H, d) = s BY DEF C!Shifted
  <1> HIDE DEF s
  <1>5. s \in Int /\ e \in Int /\ s <= d /\ e <= d /\ d - C!MaxShift \in Int BY <1>3 DEF C!MaxShift
  <1>6. C!IsTradingDay(H, s)
    <2> SUFFICES ASSUME ~C!IsTradingDay(H, s), s = d - C!MaxShift PROVE FALSE BY <1>3
    <2>1. e # s BY <1>1 DEF IsLast
    <2>2. e \in (s + 1)..d BY <1>5, <2>1
    <2> QED BY <1>1, <1>3, <2>2 DEF IsLast
  <1> QED BY <1>3, <1>4, <1>5, <1>6 DEF IsLast

\* It is one day, does not go back as days go by, and is at or after a trading day before.
LEMMA LastIsOne ==
    ASSUME NEW H, NEW d \in Int, NEW n \in Int, d <= n, NEW e, NEW f, IsLast(H, d, e), IsLast(H, n, f)
    PROVE  e <= f /\ (d = n => e = f) /\ (C!IsTradingDay(H, d) => d <= f)
  <1>1. e \in Int /\ f \in Int /\ e <= d /\ f <= n BY DEF IsLast
  <1>2. e <= f
    <2>1. CASE f < e
      <3>1. e \in (f + 1)..n BY <1>1, <2>1
      <3> QED BY <3>1 DEF IsLast
    <2> QED BY <1>1, <2>1
  <1>3. d = n => f <= e
    <2>1. CASE d = n /\ e < f
      <3>1. f \in (e + 1)..d BY <1>1, <2>1
      <3> QED BY <3>1 DEF IsLast
    <2> QED BY <1>1, <2>1
  <1>4. C!IsTradingDay(H, d) => d <= f
    <2>1. CASE f < d
      <3>1. d \in (f + 1)..n BY <1>1, <2>1
      <3> QED BY <3>1 DEF IsLast
    <2> QED BY <1>1, <2>1
  <1> QED BY <1>1, <1>2, <1>3, <1>4

\* An exchange moves an expiry the same way.
LEMMA LastTradingDayIsLast ==
    ASSUME Calendars, exchange \in Rules, NEW i \in Instance, NEW d \in Nat
    PROVE  IsLast(exchange.holidays[ExchangeOf[i]], d, C!LastTradingDay(i, d))
  <1> DEFINE H == exchange.holidays[ExchangeOf[i]]
             s == CHOOSE e \in (d - 21)..d : C!IsTradingDay(H, e) /\ \A f \in (e + 1)..d : ~C!IsTradingDay(H, f)
  <1>1. \E e \in (d - C!MaxShift)..d : C!IsTradingDay(H, e) BY DEF Calendars
  <1>2. PICK e \in (d - C!MaxShift)..d : IsLast(H, d, e) BY <1>1, LastExists
  <1>3. e \in (d - 21)..d BY DEF C!MaxShift
  <1>4. s \in (d - 21)..d /\ C!IsTradingDay(H, s) /\ \A f \in (s + 1)..d : ~C!IsTradingDay(H, f)
    BY <1>2, <1>3 DEF IsLast
  <1>5. C!LastTradingDay(i, d) = s BY DEF C!LastTradingDay
  <1> HIDE DEF s
  <1> QED BY <1>4, <1>5 DEF IsLast

--------------------------------------------------------------------------------
LEMMA DaysAreNumbers == ASSUME Calendars, NEW d \in Days PROVE d \in Nat /\ d \in Int
  BY DEF Calendars, Days

\* The month of a day, and the one after.
LEMMA MonthOf ==
    ASSUME Calendars, NEW d \in Days
    PROVE  \E e, f \in MonthEnds :
              /\ C!MonthEnd(d) = e /\ C!MonthEnd(e + 1) = f
              /\ d \in Nat /\ e \in d..(d + 30) /\ f \in (e + 28)..(e + 31)
              /\ \A g \in MonthEnds : g >= d => g = e \/ g = f \/ g >= f + 28
  <1> DEFINE T == {g \in MonthEnds : g >= d}
  <1>1. d \in Nat /\ MonthEnds \subseteq Nat BY DEF Calendars, Days
  <1>2. PICK e0 \in MonthEnds : e0 \in d..(d + 30) BY DEF Calendars
  <1>3. e0 \in T BY <1>1, <1>2
  <1>4. PICK e \in T : \A g \in T : e <= g
    <2>1. T \subseteq Nat BY <1>1
    <2>2. T # {} BY <1>3
    <2> HIDE DEF T
    <2> QED BY <2>1, <2>2, LeastNatural
  <1>5. e \in d..(d + 30) BY <1>1, <1>2, <1>4, <1>3
  <1>6. PICK f \in MonthEnds : f \in (e + 28)..(e + 31) BY <1>4, <1>5 DEF Calendars
  <1>7. e \in MonthEnds /\ f \in MonthEnds /\ e \in d..(d + 30) /\ f \in (e + 28)..(e + 31)
    BY <1>4, <1>5, <1>6
  <1>8. d \in Nat /\ e \in Nat /\ f \in Nat BY <1>1, <1>7
  <1>9. \A g, h \in MonthEnds : g \in Nat /\ h \in Nat /\ (g < h => h >= g + 28) BY DEF Calendars
  <1>10. ASSUME NEW g \in MonthEnds, g >= d PROVE g >= e /\ (g = e \/ g = f \/ g >= f + 28)
    <2>1. g \in Nat /\ (g < e => e >= g + 28) /\ (e < g => g >= e + 28)
          /\ (g < f => f >= g + 28) /\ (f < g => g >= f + 28) BY <1>9
    <2>2. e <= g BY <1>10, <1>4
    <2> QED BY <1>7, <1>8, <2>1, <2>2
  <1>11. C!MonthEnd(d) = e
    <2>1. e \in MonthEnds /\ e >= d /\ \A g \in MonthEnds : g >= d => e <= g BY <1>7, <1>8, <1>9, <1>10
    <2>2. ASSUME NEW h \in MonthEnds, h >= d, \A g \in MonthEnds : g >= d => h <= g PROVE h = e
      BY <1>8, <1>9, <2>1, <2>2
    <2> QED BY <2>1, <2>2 DEF C!MonthEnd
  <1>12. C!MonthEnd(e + 1) = f
    <2>1. ASSUME NEW g \in MonthEnds, g >= e + 1 PROVE f <= g BY <1>7, <1>8, <1>9, <1>10, <2>1
    <2>2. f \in MonthEnds /\ f >= e + 1 BY <1>7, <1>8
    <2>3. ASSUME NEW h \in MonthEnds, h >= e + 1, \A g \in MonthEnds : g >= e + 1 => h <= g PROVE h = f
      BY <1>8, <1>9, <2>1, <2>2, <2>3
    <2> QED BY <2>1, <2>2, <2>3 DEF C!MonthEnd
  <1> QED BY <1>7, <1>8, <1>10, <1>11, <1>12

\* A monthly expiry: the last of its weekday in a month.
Monthly(w, n) == C!Weekday(n) = w /\ \E e \in MonthEnds : e \in n..(n + 6)

\* The one computed is the next of them, and not after those that are listed.
LEMMA MonthlyIsNext ==
    ASSUME Calendars, NEW d \in Days, NEW w \in 0..6
    PROVE  /\ C!MonthlyExpiry(w, d) \in d..(d + 35) /\ Monthly(w, C!MonthlyExpiry(w, d))
           /\ \A n \in d..(d + 35) : Monthly(w, n) => C!MonthlyExpiry(w, d) <= n
  <1>1. PICK e \in MonthEnds, f \in MonthEnds :
              /\ C!MonthEnd(d) = e /\ C!MonthEnd(e + 1) = f
              /\ d \in Nat /\ e \in d..(d + 30) /\ f \in (e + 28)..(e + 31)
              /\ \A g \in MonthEnds : g >= d => g = e \/ g = f \/ g >= f + 28
    BY MonthOf
  <1>2. d \in Int /\ e \in Int /\ f \in Int BY <1>1
  <1>3. PICK this, then : this = C!LastWeekday(e, w) /\ then = C!LastWeekday(f, w) OBVIOUS
  <1>4. this \in (e - 6)..e /\ C!Weekday(this) = w /\ then \in (f - 6)..f /\ C!Weekday(then) = w
    BY <1>2, <1>3, LastOfMonth
  <1>5. this \in Int /\ then \in Int BY <1>2, <1>4
  <1>6. C!MonthlyExpiry(w, d) = IF this < d THEN then ELSE this BY <1>1, <1>3 DEF C!MonthlyExpiry
  <1>7. Monthly(w, this) /\ Monthly(w, then)
    <2>1. e \in this..(this + 6) /\ f \in then..(then + 6) BY <1>2, <1>4
    <2> QED BY <1>4, <2>1 DEF Monthly
  <1>8. ASSUME NEW n \in d..(d + 35), Monthly(w, n) PROVE n = this \/ n >= then
    <2>1. PICK g \in MonthEnds : g \in n..(n + 6) BY <1>8 DEF Monthly
    <2>2. g \in Int /\ n \in Int /\ g >= d BY <1>2, <2>1
    <2>3. CASE g = e
      <3>1. n \in (e - 6)..e BY <2>1, <2>2, <2>3
      <3> QED BY <1>2, <1>3, <1>8, <2>2, <3>1, LastOfMonthOnce DEF Monthly
    <2>4. CASE g = f
      <3>1. n \in (f - 6)..f BY <2>1, <2>2, <2>4
      <3> QED BY <1>2, <1>3, <1>8, <2>2, <3>1, LastOfMonthOnce DEF Monthly
    <2>5. CASE g >= f + 28 BY <1>2, <1>4, <1>5, <2>1, <2>2, <2>5
    <2> QED BY <1>1, <2>2, <2>3, <2>4, <2>5
  <1>9. CASE this < d
    <2>1. then <= this + 35 BY <1>1, <1>2, <1>4, <1>5 DEF C!Weekday
    <2>2. then >= d BY <1>1, <1>2, <1>4, <1>5
    <2>3. then \in d..(d + 35) BY <1>2, <1>5, <1>9, <2>1, <2>2
    <2>4. \A n \in d..(d + 35) : n # this BY <1>2, <1>5, <1>9
    <2> QED BY <1>6, <1>7, <1>8, <1>9, <2>3, <2>4
  <1>10. CASE ~(this < d)
    <2>1. this \in d..(d + 35) BY <1>1, <1>2, <1>4, <1>5, <1>10
    <2>2. this <= then BY <1>1, <1>2, <1>4, <1>5
    <2>3. ASSUME NEW n \in d..(d + 35), Monthly(w, n) PROVE this <= n
      BY <1>2, <1>5, <1>8, <2>2, <2>3
    <2> QED BY <1>6, <1>7, <1>10, <2>1, <2>3
  <1> QED BY <1>9, <1>10

\* The day the expiry of an instance falls on before holidays, by a rule's weekday.
NextNominal(i, w, d) == IF Cadence[i] = "monthly" THEN C!MonthlyExpiry(w, d) ELSE C!WeeklyExpiry(w, d)

\* It is the next one of those the exchange has, and one it lists.
LEMMA NominalIsNext ==
    ASSUME Calendars, exchange \in Rules, NEW i \in Instance, NEW d \in Days
    PROVE  LET n == NextNominal(i, exchange.weekday, d)
           IN  /\ n \in d..(d + C!Ahead(i)) /\ C!Nominal(i, n)
               /\ \A m \in d..(d + C!Ahead(i)) : C!Nominal(i, m) => n <= m
  <1> DEFINE w == exchange.weekday
  <1>1. w \in 0..6 /\ d \in Int BY DaysAreNumbers DEF Calendars
  <1>2. CASE Cadence[i] = "monthly"
    <2>1. \A n : C!Nominal(i, n) <=> Monthly(w, n) BY <1>2 DEF C!Nominal, Monthly
    <2>2. NextNominal(i, w, d) = C!MonthlyExpiry(w, d) /\ C!Ahead(i) = 35
        BY <1>2 DEF NextNominal, C!Ahead
    <2> HIDE DEF w
    <2> QED BY <1>1, <2>1, <2>2, MonthlyIsNext DEF w
  <1>3. CASE Cadence[i] # "monthly"
    <2>1. \A n : C!Nominal(i, n) <=> C!Weekday(n) = w BY <1>3 DEF C!Nominal
    <2>2. NextNominal(i, w, d) = C!WeeklyExpiry(w, d) /\ C!Ahead(i) = 6 BY <1>3 DEF NextNominal, C!Ahead
    <2> HIDE DEF w
    <2>3. C!WeeklyExpiry(w, d) \in d..(d + 6) /\ C!Weekday(C!WeeklyExpiry(w, d)) = w
        BY <1>1, WeekdayOnce
    <2>4. ASSUME NEW n \in d..(d + 6), C!Weekday(n) = w PROVE n = C!WeeklyExpiry(w, d)
      <3>1. n \in Int BY <1>1
      <3> QED BY <1>1, <2>4, <3>1, WeekdayOnce
    <2>5. \A m \in d..(d + 6) : C!Weekday(m) = w => C!WeeklyExpiry(w, d) <= m BY <1>1, <2>3, <2>4
    <2> QED BY <2>1, <2>2, <2>3, <2>5 DEF w
  <1> QED BY <1>2, <1>3

\* What is computed on a trading day is no day of the past.
LEMMA ComputedIsAhead ==
    ASSUME Calendars, config \in Rules, NEW i \in Instance, NEW d \in Days, C!PlatformTrades(d)
    PROVE  /\ C!ComputedExpiry(i, d) \in Int /\ C!ComputedExpiry(i, d) >= d
           /\ \E n \in Nat : /\ n = NextNominal(i, config.weekday, d) /\ d <= n
                             /\ IsLast(config.holidays[ExchangeOf[i]], n, C!ComputedExpiry(i, d))
  <1> DEFINE H == config.holidays[ExchangeOf[i]]  n == NextNominal(i, config.weekday, d)
  <1>1. d \in Nat /\ config.weekday \in 0..6 /\ d \in Int /\ ExchangeOf[i] \in Exchange
    BY DaysAreNumbers DEF Calendars
  <1>2. n \in d..(d + 35)
    <2>1. C!MonthlyExpiry(config.weekday, d) \in d..(d + 35) BY <1>1, MonthlyIsNext
    <2>2. C!WeeklyExpiry(config.weekday, d) \in d..(d + 6)
      <3> DEFINE w == config.weekday
      <3>1. w \in 0..6 BY <1>1
      <3> HIDE DEF w
      <3>2. C!WeeklyExpiry(w, d) \in d..(d + 6) BY <1>1, <3>1, WeekdayOnce
      <3> QED BY <3>2 DEF w
    <2> QED BY <1>1, <2>1, <2>2 DEF NextNominal
  <1>3. C!ComputedExpiry(i, d) = C!Shifted(H, n) BY DEF C!ComputedExpiry, NextNominal
  <1>4. \A k \in Nat : \E e \in (k - C!MaxShift)..k : C!IsTradingDay(H, e) BY <1>1 DEF Calendars
  <1>5. C!IsTradingDay(H, d) BY <1>1 DEF C!PlatformTrades
  <1> HIDE DEF n, H
  <1>6. n \in Nat /\ d <= n BY <1>1, <1>2
  <1>7. IsLast(H, n, C!Shifted(H, n)) BY <1>4, <1>6, ShiftedIsLast
  <1>8. IsLast(H, d, C!Shifted(H, d)) BY <1>1, <1>4, ShiftedIsLast
  <1>9. d <= C!Shifted(H, n) BY <1>1, <1>5, <1>6, <1>7, <1>8, LastIsOne
  <1>10. C!Shifted(H, n) \in Int BY <1>7 DEF IsLast
  <1> QED BY <1>1, <1>3, <1>6, <1>7, <1>9, <1>10 DEF n, H

\* By the rule of the exchange it is the first expiry that the exchange lists.
LEMMA ComputedIsNearest ==
    ASSUME Calendars, config \in Rules, exchange \in Rules, C!Agree,
           NEW i \in Instance, NEW d \in Days, C!PlatformTrades(d)
    PROVE  /\ C!ComputedExpiry(i, d) \in C!Listed(i, d)
           /\ \A f \in C!Listed(i, d) : f \in Int /\ C!ComputedExpiry(i, d) <= f
  <1> DEFINE H == config.holidays[ExchangeOf[i]]
  <1>1. PICK n \in Nat : /\ n = NextNominal(i, config.weekday, d) /\ d <= n
                         /\ IsLast(H, n, C!ComputedExpiry(i, d)) BY ComputedIsAhead
  <1>2. config = exchange BY DEF C!Agree
  <1>3. n \in d..(d + C!Ahead(i)) /\ C!Nominal(i, n) /\ \A m \in d..(d + C!Ahead(i)) : C!Nominal(i, m) => n <= m
    BY <1>1, <1>2, NominalIsNext
  <1>4. d \in Nat /\ C!Ahead(i) \in Nat BY DaysAreNumbers DEF C!Ahead
  <1>5. \A m \in Nat : IsLast(H, m, C!LastTradingDay(i, m)) BY <1>2, LastTradingDayIsLast
  <1>6. C!ComputedExpiry(i, d) = C!LastTradingDay(i, n)
    <2> HIDE DEF H
    <2> QED BY <1>1, <1>5, LastIsOne
  <1>7. ASSUME NEW m \in d..(d + C!Ahead(i)), C!Nominal(i, m)
        PROVE  C!LastTradingDay(i, m) \in Int /\ C!ComputedExpiry(i, d) <= C!LastTradingDay(i, m)
    <2>1. m \in Nat /\ n <= m BY <1>3, <1>4, <1>7
    <2>2. IsLast(H, m, C!LastTradingDay(i, m)) BY <1>5, <2>1
    <2> HIDE DEF H
    <2>3. PICK e, f : e = C!ComputedExpiry(i, d) /\ f = C!LastTradingDay(i, m) OBVIOUS
    <2>4. IsLast(H, n, e) /\ IsLast(H, m, f) /\ n \in Int /\ m \in Int /\ n <= m
        BY <1>1, <2>1, <2>2, <2>3
    <2>5. e <= f BY <2>4, LastIsOne
    <2> QED BY <2>2, <2>3, <2>5 DEF IsLast
  <1> QED BY <1>3, <1>6, <1>7 DEF C!Listed

--------------------------------------------------------------------------------
\* The steps in which a selection has its spot and its expiry.
Under == {"expiry_day", "validate", "call", "put", "chosen", "subscribed"}

\* They are those of the day, and no token map is of a later one.
ChoiceInv ==
    /\ C!TypeOK
    /\ day - age \in FirstDays
    /\ \A i \in Instance : pc[i] \in Under =>
          spot[i] \in Spots /\ C!PlatformTrades(day) /\ expiry[i] = C!ComputedExpiry(i, day)
    /\ \A e \in Exchange : tokens[e] <= day
    /\ C!MissesAreExplained

LEMMA TypesOf ==
    ASSUME C!TypeOK, Calendars
    PROVE  /\ day \in Nat /\ age \in Nat /\ MaxFaults \in Nat /\ MaxDays \in Nat
           /\ \A i \in Instance : ExchangeOf[i] \in Exchange
  <1>1. MaxFaults \in Nat /\ MaxDays \in Nat /\ \A i \in Instance : ExchangeOf[i] \in Exchange
      BY DEF Calendars
  <1>2. day \in Nat /\ age \in Nat BY <1>1 DEF C!TypeOK
  <1> QED BY <1>1, <1>2

LEMMA Today == ASSUME ChoiceInv, Calendars PROVE day \in Days
  <1>1. age \in 0..MaxDays /\ day - age \in FirstDays /\ day = (day - age) + age
    BY TypesOf DEF ChoiceInv, C!TypeOK
  <1> QED BY <1>1 DEF Days

\* What a selection is about stays while the rules and the day do.
LEMMA SameDay ==
    ASSUME UNCHANGED <<C!rules, day>>
    PROVE  /\ \A i : C!ComputedExpiry(i, day)' = C!ComputedExpiry(i, day)
           /\ C!PlatformTrades(day)' = C!PlatformTrades(day)
           /\ C!Agree' = C!Agree
  <1>1. config' = config /\ exchange' = exchange /\ day' = day BY DEF C!rules
  <1> QED BY <1>1 DEF C!ComputedExpiry, C!PlatformTrades, C!Agree

\* A fetch of the day has what is looked up.
LEMMA FreshRowsHaveIt ==
    ASSUME ChoiceInv, Calendars, C!Agree, NEW i \in Instance, pc[i] \in Under
    PROVE  expiry[i] \in C!Listed(i, day) /\ C!Atm(spot[i]) \in C!Strikes
  <1>1. config \in Rules /\ exchange \in Rules BY DEF ChoiceInv, C!TypeOK
  <1>2. spot[i] \in Spots /\ C!PlatformTrades(day) /\ expiry[i] = C!ComputedExpiry(i, day)
      BY DEF ChoiceInv
  <1>3. C!ComputedExpiry(i, day) \in C!Listed(i, day) BY <1>1, <1>2, Today, ComputedIsNearest
  <1> QED BY <1>2, <1>3 DEF Calendars

\* A lookup goes on, or refuses; with a good rule it refuses only when a fetch failed.
LEMMA LookUpFinds ==
    ASSUME ChoiceInv, Calendars, NEW i \in Instance, pc[i] \in Under, NEW to, C!LookUp(i, to)
    PROVE  /\ dump' \in [Exchange -> Nat \cup {C!None}]
           /\ failed \subseteq failed' /\ failed' \subseteq Exchange /\ faults' \in 0..MaxFaults
           /\ \/ C!Goes(i, to)
              \/ C!Goes(i, "refused") /\ (C!Agree => ExchangeOf[i] \in failed')
  <1> DEFINE e == ExchangeOf[i]
  <1>1. /\ e \in Exchange /\ day \in Nat /\ faults \in 0..MaxFaults /\ MaxFaults \in Nat
        /\ dump \in [Exchange -> Nat \cup {C!None}] /\ failed \subseteq Exchange
    BY TypesOf DEF ChoiceInv, C!TypeOK
  <1>2. \A rows : C!Finds(i, rows, to) => C!Goes(i, to) \/ C!Goes(i, "refused") BY DEF C!Finds
  <1>3. C!Agree /\ C!Finds(i, day, to) => C!Goes(i, to) BY FreshRowsHaveIt DEF C!Finds
  <1>4. CASE C!IsFresh(e) /\ C!Finds(i, dump[e], to) /\ UNCHANGED <<dump, failed, faults>>
    <2>1. C!Finds(i, day, to) BY <1>4 DEF C!IsFresh
    <2> QED BY <1>1, <1>2, <1>3, <1>4, <2>1
  <1>5. CASE dump' = [dump EXCEPT ![e] = day] /\ C!Finds(i, day, to) /\ UNCHANGED <<failed, faults>>
    BY <1>1, <1>2, <1>3, <1>5
  <1>6. CASE /\ faults < MaxFaults /\ faults' = faults + 1 /\ failed' = failed \cup {e}
             /\ IF dump[e] = C!None THEN C!Goes(i, "refused") ELSE C!Finds(i, dump[e], to)
             /\ UNCHANGED dump
    <2>1. C!Goes(i, to) \/ C!Goes(i, "refused") BY <1>2, <1>6
    <2>2. faults' \in 0..MaxFaults BY <1>1, <1>6
    <2> QED BY <1>1, <1>6, <2>1, <2>2
  <1> QED BY <1>4, <1>5, <1>6 DEF C!LookUp

\* The steps of one selection: what it is about stays.
LEMMA OneGoesOn ==
    ASSUME ChoiceInv, Calendars, NEW i \in Instance, NEW to \in C!Step, C!Goes(i, to),
           UNCHANGED <<C!rules, day, age, spot, expiry>>,
           dump' \in [Exchange -> Nat \cup {C!None}], tokens' \in [Exchange -> Nat \cup {C!None}],
           \A e \in Exchange : tokens'[e] <= day,
           failed \subseteq failed', failed' \subseteq Exchange, faults' \in 0..MaxFaults,
           streamed' \in [Instance -> BOOLEAN],
           \A j \in Instance \ {i} : streamed'[j] = streamed[j],
           \A e \in Exchange : tokens'[e] = tokens[e] \/ tokens[e] = C!None,
           to \in Under => pc[i] \in Under,
           to = "refused" => (C!Agree => ExchangeOf[i] \in failed'),
           to = "subscribed" => (C!Agree /\ ExchangeOf[i] \notin failed'
                                   => streamed'[i] \/ tokens'[ExchangeOf[i]] \in 0..(day - 1))
    PROVE  ChoiceInv'
  <1>1. /\ config' = config /\ exchange' = exchange /\ day' = day /\ age' = age
        /\ spot' = spot /\ expiry' = expiry BY DEF C!rules
  <1>2. pc \in [Instance -> C!Step] /\ pc' = [pc EXCEPT ![i] = to] BY DEF ChoiceInv, C!TypeOK, C!Goes
  <1>3. C!TypeOK' BY <1>1, <1>2 DEF ChoiceInv, C!TypeOK
  <1>4. (day - age \in FirstDays)' BY <1>1 DEF ChoiceInv
  <1>5. ASSUME NEW j \in Instance, pc'[j] \in Under
        PROVE  (spot[j] \in Spots /\ C!PlatformTrades(day) /\ expiry[j] = C!ComputedExpiry(j, day))'
    <2>1. pc[j] \in Under BY <1>2, <1>5
    <2>2. spot[j] \in Spots /\ C!PlatformTrades(day) /\ expiry[j] = C!ComputedExpiry(j, day)
      BY <2>1 DEF ChoiceInv
    <2>3. C!PlatformTrades(day)' /\ C!ComputedExpiry(j, day)' = C!ComputedExpiry(j, day)
        BY <2>2, SameDay
    <2> QED BY <1>1, <2>2, <2>3
  <1>6. ASSUME NEW j \in Instance, C!Agree, ExchangeOf[j] \notin failed'
        PROVE  /\ pc'[j] # "refused"
               /\ pc'[j] = "subscribed" => streamed'[j] \/ tokens'[ExchangeOf[j]] \in 0..(day - 1)
    <2>1. CASE j = i BY <1>2, <1>6, <2>1
    <2>2. CASE j # i
      <3>1. pc'[j] = pc[j] /\ streamed'[j] = streamed[j] BY <1>2, <2>2
      <3>2. pc[j] # "refused" /\ (pc[j] = "subscribed" => streamed[j] \/ tokens[ExchangeOf[j]] \in 0..(day - 1))
        BY <1>6 DEF ChoiceInv, C!MissesAreExplained
      <3>3. tokens[ExchangeOf[j]] \in 0..(day - 1) => tokens'[ExchangeOf[j]] = tokens[ExchangeOf[j]]
        BY TypesOf DEF C!None, ChoiceInv
      <3> QED BY <3>1, <3>2, <3>3
    <2> QED BY <2>1, <2>2
  <1>7. C!MissesAreExplained' BY <1>1, <1>6, SameDay DEF C!MissesAreExplained
  <1>8. (\A e \in Exchange : tokens[e] <= day)' BY <1>1
  <1> QED BY <1>3, <1>4, <1>5, <1>7, <1>8 DEF ChoiceInv

LEMMA Begins == ASSUME Calendars, C!Init PROVE ChoiceInv
  <1>1. 0 \in 0..MaxDays /\ 0 \in 0..MaxFaults BY DEF Calendars
  <1>2. C!TypeOK BY <1>1 DEF C!Init, C!TypeOK, C!Step, C!None, Calendars
  <1>3. day - age \in FirstDays
    <2>1. day \in Nat /\ age = 0 /\ day \in FirstDays BY DEF C!Init, Calendars
    <2> QED BY <2>1
  <1>4. \A i \in Instance : pc[i] = "idle" BY DEF C!Init
  <1>5. \A e \in Exchange : tokens[e] <= day BY <1>2 DEF C!Init, C!None, C!TypeOK
  <1>6. C!MissesAreExplained BY <1>4 DEF C!MissesAreExplained
  <1> QED BY <1>2, <1>3, <1>4, <1>5, <1>6 DEF ChoiceInv, Under

LEMMA SelectKeeps ==
    ASSUME ChoiceInv, Calendars, NEW i \in Instance, C!Select(i) PROVE ChoiceInv'
  <1> DEFINE to == IF i \in Skipping THEN "expiry_day" ELSE "validate"
  <1>1. PICK s \in Spots : spot' = [spot EXCEPT ![i] = s] BY DEF C!Select
  <1>2. /\ pc[i] = "idle" /\ C!PlatformTrades(day) /\ pc' = [pc EXCEPT ![i] = to]
        /\ expiry' = [expiry EXCEPT ![i] = C!ComputedExpiry(i, day)]
        /\ config' = config /\ exchange' = exchange /\ day' = day /\ age' = age
        /\ UNCHANGED <<dump, tokens, streamed, failed, faults>>
    BY DEF C!Select, C!Goes, C!rules
  <1>3. C!TypeOK BY DEF ChoiceInv
  <1>4. C!ComputedExpiry(i, day) \in Int BY <1>2, <1>3, Today, ComputedIsAhead DEF C!TypeOK
  <1>5. C!TypeOK' BY <1>1, <1>2, <1>3, <1>4 DEF C!TypeOK, C!Step
  <1>6. (day - age \in FirstDays)' BY <1>2 DEF ChoiceInv
  <1>7. UNCHANGED <<C!rules, day>> BY <1>2 DEF C!rules
  <1>8. ASSUME NEW j \in Instance, pc'[j] \in Under
        PROVE  (spot[j] \in Spots /\ C!PlatformTrades(day) /\ expiry[j] = C!ComputedExpiry(j, day))'
    <2>1. CASE j = i
      <3>1. spot'[j] \in Spots /\ expiry'[j] = C!ComputedExpiry(j, day)
          BY <1>1, <1>2, <1>3, <2>1 DEF C!TypeOK
      <3> QED BY <1>2, <1>7, <3>1, SameDay
    <2>2. CASE j # i
      <3>1. pc'[j] = pc[j] /\ spot'[j] = spot[j] /\ expiry'[j] = expiry[j]
        BY <1>1, <1>2, <1>3, <2>2 DEF C!TypeOK
      <3>2. spot[j] \in Spots /\ C!PlatformTrades(day) /\ expiry[j] = C!ComputedExpiry(j, day)
        BY <1>8, <3>1 DEF ChoiceInv
      <3> QED BY <1>7, <3>1, <3>2, SameDay
    <2> QED BY <2>1, <2>2
  <1>9. C!MissesAreExplained'
    <2>1. \A j \in Instance : pc'[j] # pc[j] => pc'[j] \notin {"refused", "subscribed"}
      BY <1>2, <1>3 DEF C!TypeOK
    <2> QED BY <1>2, <1>7, <2>1, SameDay DEF ChoiceInv, C!MissesAreExplained
  <1>10. (\A e \in Exchange : tokens[e] <= day)' BY <1>2 DEF ChoiceInv
  <1> QED BY <1>5, <1>6, <1>8, <1>9, <1>10 DEF ChoiceInv

LEMMA NoSpotKeeps ==
    ASSUME ChoiceInv, Calendars, NEW i \in Instance, C!NoSpot(i) PROVE ChoiceInv'
  <1>1. C!TypeOK /\ ExchangeOf[i] \in Exchange /\ MaxFaults \in Nat BY TypesOf DEF ChoiceInv
  <1>2. /\ C!Goes(i, "refused") /\ UNCHANGED <<C!rules, day, age, dump, tokens, spot, expiry, streamed>>
        /\ failed' = failed \cup {ExchangeOf[i]} /\ faults < MaxFaults /\ faults' = faults + 1
    BY DEF C!NoSpot, C!selection
  <1>3. faults' \in 0..MaxFaults BY <1>1, <1>2 DEF C!TypeOK
  <1>4. failed' \subseteq Exchange /\ ExchangeOf[i] \in failed' /\ failed \subseteq failed'
    BY <1>1, <1>2 DEF C!TypeOK
  <1>5. /\ dump' \in [Exchange -> Nat \cup {C!None}] /\ tokens' \in [Exchange -> Nat \cup {C!None}]
        /\ streamed' \in [Instance -> BOOLEAN] /\ \A e \in Exchange : tokens'[e] <= day
    BY <1>1, <1>2 DEF C!TypeOK, ChoiceInv
  <1> QED BY <1>2, <1>3, <1>4, <1>5, OneGoesOn DEF C!Step, Under

\* The steps that look instruments up.
LEMMA LookUpKeeps ==
    ASSUME ChoiceInv, Calendars, NEW i \in Instance, pc[i] \in Under,
           NEW to \in {"skipped", "validate", "call", "put", "chosen"}, C!LookUp(i, to),
           UNCHANGED <<C!rules, day, age, tokens, C!selection>>
    PROVE  ChoiceInv'
  <1>1. C!TypeOK BY DEF ChoiceInv
  <1>2. UNCHANGED <<C!rules, day, age, tokens, spot, expiry, streamed>> BY DEF C!selection
  <1>3. /\ dump' \in [Exchange -> Nat \cup {C!None}]
        /\ failed \subseteq failed' /\ failed' \subseteq Exchange /\ faults' \in 0..MaxFaults
        /\ C!Goes(i, to) \/ (C!Goes(i, "refused") /\ (C!Agree => ExchangeOf[i] \in failed'))
    BY LookUpFinds
  <1>4. /\ tokens' \in [Exchange -> Nat \cup {C!None}] /\ streamed' \in [Instance -> BOOLEAN]
        /\ \A e \in Exchange : tokens'[e] <= day
    BY <1>1, <1>2 DEF C!TypeOK, ChoiceInv
  <1>5. CASE C!Goes(i, to) BY <1>2, <1>3, <1>4, <1>5, OneGoesOn DEF C!Step
  <1>6. CASE C!Goes(i, "refused") /\ (C!Agree => ExchangeOf[i] \in failed')
    BY <1>2, <1>3, <1>4, <1>6, OneGoesOn DEF C!Step, Under
  <1> QED BY <1>3, <1>5, <1>6

LEMMA SubscribeKeeps ==
    ASSUME ChoiceInv, Calendars, NEW i \in Instance, C!Subscribe(i) PROVE ChoiceInv'
  <1> DEFINE e == ExchangeOf[i]
             loaded == IF tokens[e] = C!None THEN day ELSE tokens[e]
  <1>1. C!TypeOK /\ e \in Exchange /\ day \in Nat BY TypesOf DEF ChoiceInv
  <1>2. /\ pc[i] = "chosen" /\ C!Goes(i, "subscribed") /\ tokens' = [tokens EXCEPT ![e] = loaded]
        /\ streamed' = [streamed EXCEPT ![i] = expiry[i] \in C!Listed(i, loaded)]
        /\ UNCHANGED <<C!rules, day, age, dump, spot, expiry, failed, faults>>
    BY DEF C!Subscribe
  <1>3. loaded \in Nat /\ loaded <= day BY <1>1 DEF C!TypeOK, ChoiceInv
  <1>4. /\ dump' \in [Exchange -> Nat \cup {C!None}] /\ failed' \subseteq Exchange /\ failed \subseteq failed'
        /\ faults' \in 0..MaxFaults BY <1>1, <1>2 DEF C!TypeOK
  <1>5. tokens' \in [Exchange -> Nat \cup {C!None}]
    <2> HIDE DEF loaded
    <2> QED BY <1>1, <1>2, <1>3 DEF C!TypeOK
  <1>6. \A x \in Exchange : tokens'[x] <= day /\ (tokens'[x] = tokens[x] \/ tokens[x] = C!None)
    BY <1>1, <1>2, <1>3 DEF C!TypeOK, ChoiceInv
  <1>7. streamed' \in [Instance -> BOOLEAN] /\ \A j \in Instance \ {i} : streamed'[j] = streamed[j]
    BY <1>1, <1>2 DEF C!TypeOK
  <1>8. C!Agree => streamed'[i] \/ tokens'[e] \in 0..(day - 1)
    <2>1. CASE loaded = day
      <3>1. C!Agree => expiry[i] \in C!Listed(i, loaded) BY <1>2, <2>1, FreshRowsHaveIt DEF Under
      <3> HIDE DEF loaded
      <3> QED BY <1>1, <1>2, <3>1 DEF C!TypeOK
    <2>2. CASE loaded # day
      <3>1. tokens'[e] = loaded BY <1>1, <1>2 DEF C!TypeOK
      <3> HIDE DEF loaded
      <3> QED BY <1>1, <1>3, <2>2, <3>1
    <2> QED BY <2>1, <2>2
  <1> HIDE DEF loaded
  <1>9. UNCHANGED <<C!rules, day, age, spot, expiry>> BY <1>2
  <1> QED BY <1>2, <1>4, <1>5, <1>6, <1>7, <1>8, <1>9, OneGoesOn DEF C!Step, Under

LEMMA SubscribeFailsKeeps ==
    ASSUME ChoiceInv, Calendars, NEW i \in Instance, C!SubscribeFails(i) PROVE ChoiceInv'
  <1>1. C!TypeOK /\ ExchangeOf[i] \in Exchange /\ MaxFaults \in Nat BY TypesOf DEF ChoiceInv
  <1>2. /\ pc[i] = "chosen" /\ C!Goes(i, "subscribed")
        /\ UNCHANGED <<C!rules, day, age, dump, tokens, spot, expiry>>
        /\ streamed' = [streamed EXCEPT ![i] = FALSE]
        /\ failed' = failed \cup {ExchangeOf[i]} /\ faults < MaxFaults /\ faults' = faults + 1
    BY DEF C!SubscribeFails
  <1>3. faults' \in 0..MaxFaults BY <1>1, <1>2 DEF C!TypeOK
  <1>4. failed' \subseteq Exchange /\ ExchangeOf[i] \in failed' /\ failed \subseteq failed'
    BY <1>1, <1>2 DEF C!TypeOK
  <1>5. /\ dump' \in [Exchange -> Nat \cup {C!None}] /\ tokens' \in [Exchange -> Nat \cup {C!None}]
        /\ \A e \in Exchange : tokens'[e] <= day
    BY <1>1, <1>2 DEF C!TypeOK, ChoiceInv
  <1>6. streamed' \in [Instance -> BOOLEAN] /\ \A j \in Instance \ {i} : streamed'[j] = streamed[j]
    BY <1>1, <1>2 DEF C!TypeOK
  <1> QED BY <1>2, <1>3, <1>4, <1>5, <1>6, OneGoesOn DEF C!Step, Under

LEMMA NextDayKeeps == ASSUME ChoiceInv, Calendars, C!NextDay PROVE ChoiceInv'
  <1>1. C!TypeOK /\ day \in Nat /\ age \in Nat /\ MaxDays \in Nat BY TypesOf DEF ChoiceInv
  <1>2. /\ age < MaxDays /\ day' = day + 1 /\ age' = age + 1 /\ pc' = [i \in Instance |-> "idle"]
        /\ streamed' = [i \in Instance |-> FALSE] /\ failed' = {}
        /\ UNCHANGED <<config, exchange, dump, tokens, spot, expiry, faults>>
    BY DEF C!NextDay, C!rules
  <1>3. C!TypeOK'
    <2>1. day' \in Nat /\ age' \in 0..MaxDays BY <1>1, <1>2
    <2> QED BY <1>1, <1>2, <2>1 DEF C!TypeOK, C!Step
  <1>4. (day - age \in FirstDays)'
    <2>1. day' - age' = day - age BY <1>1, <1>2
    <2> QED BY <2>1 DEF ChoiceInv
  <1>5. (\A e \in Exchange : tokens[e] <= day)' BY <1>1, <1>2 DEF ChoiceInv, C!TypeOK, C!None
  <1>6. \A i \in Instance : pc'[i] = "idle" BY <1>2
  <1> QED BY <1>3, <1>4, <1>5, <1>6 DEF ChoiceInv, Under, C!MissesAreExplained

LEMMA RestartKeeps == ASSUME ChoiceInv, Calendars, C!Restart PROVE ChoiceInv'
  <1>1. C!TypeOK /\ day \in Nat /\ MaxFaults \in Nat BY TypesOf DEF ChoiceInv
  <1>2. PICK unwritten \in SUBSET {i \in Instance : pc[i] = "chosen"} :
          pc' = [i \in Instance |-> IF pc[i] \in {"idle", "skipped"} THEN pc[i]
                                    ELSE IF pc[i] \in {"chosen", "subscribed"} /\ i \notin unwritten
                                    THEN "chosen" ELSE "refused"]
    BY DEF C!Restart
  <1>3. /\ faults < MaxFaults /\ faults' = faults + 1 /\ failed' = Exchange
        /\ dump' = [e \in Exchange |-> C!None] /\ tokens' = [e \in Exchange |-> C!None]
        /\ config' = config /\ exchange' = exchange /\ day' = day /\ age' = age
        /\ spot' = spot /\ expiry' = expiry /\ streamed' = streamed
    BY DEF C!Restart, C!rules, C!selection
  <1>4. C!TypeOK'
    <2>1. faults' \in 0..MaxFaults BY <1>1, <1>3 DEF C!TypeOK
    <2>2. pc' \in [Instance -> C!Step] BY <1>1, <1>2 DEF C!TypeOK, C!Step
    <2> QED BY <1>1, <1>3, <2>1, <2>2 DEF C!TypeOK
  <1>5. (day - age \in FirstDays)' BY <1>3 DEF ChoiceInv
  <1>6. ASSUME NEW j \in Instance, pc'[j] \in Under
        PROVE  (spot[j] \in Spots /\ C!PlatformTrades(day) /\ expiry[j] = C!ComputedExpiry(j, day))'
    <2>1. pc[j] \in Under BY <1>2, <1>6 DEF Under
    <2>2. spot[j] \in Spots /\ C!PlatformTrades(day) /\ expiry[j] = C!ComputedExpiry(j, day)
      BY <2>1 DEF ChoiceInv
    <2>3. UNCHANGED <<C!rules, day>> BY <1>3 DEF C!rules
    <2> QED BY <1>3, <2>2, <2>3, SameDay
  <1>7. (\A e \in Exchange : tokens[e] <= day)' BY <1>1, <1>3 DEF C!None
  <1>8. C!MissesAreExplained' BY <1>1, <1>3, TypesOf DEF C!MissesAreExplained
  <1> QED BY <1>4, <1>5, <1>6, <1>7, <1>8 DEF ChoiceInv

LEMMA ChoiceStutters == ASSUME ChoiceInv, Calendars, UNCHANGED C!vars PROVE ChoiceInv'
  <1>1. /\ config' = config /\ exchange' = exchange /\ day' = day /\ age' = age /\ dump' = dump
        /\ tokens' = tokens /\ pc' = pc /\ spot' = spot /\ expiry' = expiry /\ streamed' = streamed
        /\ failed' = failed /\ faults' = faults BY DEF C!vars
  <1>2. UNCHANGED <<C!rules, day>> BY <1>1 DEF C!rules
  <1>3. C!TypeOK' BY <1>1 DEF ChoiceInv, C!TypeOK
  <1>4. C!MissesAreExplained' BY <1>1, <1>2, SameDay DEF ChoiceInv, C!MissesAreExplained
  <1>5. \A i \in Instance : (pc[i] \in Under =>
          spot[i] \in Spots /\ C!PlatformTrades(day) /\ expiry[i] = C!ComputedExpiry(i, day))'
    BY <1>1, <1>2, SameDay DEF ChoiceInv
  <1> QED BY <1>1, <1>3, <1>4, <1>5 DEF ChoiceInv

LEMMA ChoiceStep == ASSUME ChoiceInv, Calendars, C!Next PROVE ChoiceInv'
  <1>1. ASSUME NEW i \in Instance, C!SkipExpiryDay(i) PROVE ChoiceInv'
    <2> DEFINE to == IF expiry[i] = day THEN "skipped" ELSE "validate"
    <2>1. pc[i] = "expiry_day" /\ C!LookUp(i, to) /\ UNCHANGED <<C!rules, day, age, tokens, C!selection>>
      BY <1>1 DEF C!SkipExpiryDay
    <2>2. to \in {"skipped", "validate", "call", "put", "chosen"} OBVIOUS
    <2> HIDE DEF to
    <2> QED BY <2>1, <2>2, LookUpKeeps DEF Under
  <1>2. ASSUME NEW i \in Instance, C!Validate(i) PROVE ChoiceInv'
      BY <1>2, LookUpKeeps DEF C!Validate, Under
  <1>3. ASSUME NEW i \in Instance, C!ResolveCall(i) PROVE ChoiceInv'
      BY <1>3, LookUpKeeps DEF C!ResolveCall, Under
  <1>4. ASSUME NEW i \in Instance, C!ResolvePut(i) PROVE ChoiceInv'
      BY <1>4, LookUpKeeps DEF C!ResolvePut, Under
  <1> QED BY <1>1, <1>2, <1>3, <1>4, SelectKeeps, NoSpotKeeps, SubscribeKeeps, SubscribeFailsKeeps,
          NextDayKeeps, RestartKeeps DEF C!Next

\* It is what makes the choice right.
LEMMA ChoiceIsRight == ASSUME ChoiceInv, Calendars PROVE C!SelectionIsRight
  <1>1. C!TypeOK /\ day \in Days /\ Interval \in Nat \ {0} /\ Spots \subseteq Nat
    BY Today DEF ChoiceInv, Calendars
  <1>2. ASSUME NEW i \in Instance, pc[i] \in {"chosen", "subscribed"}
        PROVE  /\ expiry[i] >= day /\ 2 * (C!Atm(spot[i]) - spot[i]) \in (-Interval)..Interval
               /\ C!Agree => expiry[i] = C!Nearest(i)
    <2>1. spot[i] \in Spots /\ C!PlatformTrades(day) /\ expiry[i] = C!ComputedExpiry(i, day)
      BY <1>2 DEF ChoiceInv, Under
    <2>2. config \in Rules /\ exchange \in Rules BY <1>1 DEF C!TypeOK
    <2>3. expiry[i] \in Int /\ expiry[i] >= day BY <1>1, <2>1, <2>2, ComputedIsAhead
    <2>4. 2 * (C!Atm(spot[i]) - spot[i]) \in (-Interval)..Interval BY <1>1, <2>1, NearestStrike
    <2>5. ASSUME C!Agree PROVE expiry[i] = C!Nearest(i)
      <3>1. /\ expiry[i] \in C!Listed(i, day)
            /\ \A f \in C!Listed(i, day) : f \in Int /\ expiry[i] <= f
        BY <1>1, <2>1, <2>2, <2>5, ComputedIsNearest
      <3>2. ASSUME NEW h \in C!Listed(i, day), h >= day, \A f \in C!Listed(i, day) : f >= day => h <= f
            PROVE  h = expiry[i] BY <2>3, <3>1, <3>2
      <3> QED BY <2>3, <3>1, <3>2 DEF C!Nearest
    <2> QED BY <2>3, <2>4, <2>5
  <1>3. C!RightContracts BY <1>2 DEF C!RightContracts
  <1> QED BY <1>3 DEF ChoiceInv, C!SelectionIsRight

LEMMA ChoiceInvariant == ASSUME Calendars PROVE C!Spec => []ChoiceInv
  <1>1. ChoiceInv /\ [C!Next]_(C!vars) => ChoiceInv' BY ChoiceStep, ChoiceStutters
  <1> QED BY Begins, <1>1, PTL DEF C!Spec

\* The types of the selection: dumps, maps, expiries and strikes, for every calendar
\* (ConfigExpiryService, StrikeSelector, KiteBroker._instrument_rows).
THEOREM ChoiceTypes == ASSUME Calendars PROVE C!Spec => []C!TypeOK
  <1>1. ChoiceInv => C!TypeOK BY DEF ChoiceInv
  <1> QED BY <1>1, ChoiceInvariant, PTL

\* The contracts an entry sells are of the strike nearest to the spot, have not expired and, with
\* a configuration that follows the exchange, are of the nearest expiry it lists; then an entry is
\* refused, or a leg has no token, only after a fetch failed that day or with an older token map.
THEOREM SelectionHolds == ASSUME Calendars PROVE C!Spec => []C!SelectionIsRight
  <1>1. ChoiceInv => C!SelectionIsRight BY ChoiceIsRight
  <1> QED BY <1>1, ChoiceInvariant, PTL

================================================================================
