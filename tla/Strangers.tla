------------------------------- MODULE Strangers -------------------------------
(***************************************************************************)
(* The trade cycle with an order in the broker's book that the platform did  *)
(* not send: placed by hand, or by another program, under a tag of the day,   *)
(* while the platform is down.  Reconciliation has branches for it (orphans    *)
(* and duplicates) that the platform on its own never reaches.                 *)
(***************************************************************************)
EXTENDS Strategy1Properties

NoStrangerYet ==
    \A t \in Tag : Len(book[t]) <= 1 /\ (book[t] # <<>> => t \in started)

\* One foreign order a day, between two lives of the process.  Under a tag whose
\* own call is still unanswered it could not be told from the platform's order,
\* so that case is left out.
StrangerTrades(t) ==
    /\ pc = "down" /\ crashes > 0
    /\ NoStrangerYet
    /\ book[t] # <<>> \/ t \notin started
    /\ book' = [book EXCEPT ![t] = Append(@, [status |-> "COMPLETE", filled |-> Qty,
                                              price |-> "real"])]
    /\ UNCHANGED <<dbVars, squared, pc, localVars, runnerVars, worldVars>>

StrangerSpec == Init /\ [][Next \/ \E t \in Tag : StrangerTrades(t)]_vars

\* Two orders under the tag of an intent in doubt: reconciliation never resolves
\* the intent from either of them, and it takes the position out of trading.
DuplicateInDoubtStops ==
    pc = "s_recover" =>
        \A t \in Tag : Len(view[t]) > 1 /\ intent[t] \in InDoubt =>
            posState \in {"ERROR", "CLOSED"} /\ breaks # {}

--------------------------------------------------------------------------------
(* The inductive invariant: TypeOK, two parts of the ledger that a stranger's     *)
(* order leaves true, and what reconciliation has noted so far.                   *)

\* Two orders under the tag have taken the position out of trading.
Noted(t) == Len(view[t]) > 1 => posState \in {"ERROR", "CLOSED"} /\ breaks # {}

\* No orderbook is kept from one life to the next; of the one fetched, each intent
\* still in doubt waits its turn or has been noted, and after the last one all are.
DuplicatesNoted ==
    /\ pc \in {"down", "r_fetch"} => view = NoBook
    /\ pc = "r_intents" => \A t \in Tag : intent[t] \in InDoubt => t \in todo \/ Noted(t)
    /\ pc \in {"r_orphans", "r_position", "s_recover"} =>
          \A t \in Tag : intent[t] \in InDoubt => Noted(t)

\* Proved inductive in module Strategy1ExposureProofs.
StrangerInv == TypeOK /\ PcMatchesState /\ PolledExists /\ DuplicatesNoted
================================================================================
