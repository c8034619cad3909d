------------------------------ MODULE MCStrategy1 ------------------------------
(***************************************************************************)
(* The worlds the runs put one instance in.  Each run turns on the hardships  *)
(* its question needs: all eight at once would multiply the states of worlds  *)
(* that do not interact.                                                       *)
(***************************************************************************)
EXTENDS Strategy1Properties

\* Orders fill whole or end unfilled, and have settled before a restart.
Calm == {}

\* Partial fills, late prices, a push feed beside the polls, failing unwinds.
HardBroker == {"partial", "slow", "push", "noprice", "badunwind"}

\* Operators engage and clear the kill switch, or unfreeze the instance.
KillSwitchUsed == {"halt"}
OperatorUnfreezes == {"unfreeze"}

\* The single hardship behind each disagreement with the documentation.
ConnectionsReset == {"reset"}
SlowOrders == {"slow"}
PartialFillsPushed == {"partial", "push"}

\* A market that never shows a price, and one at the stop-loss.
NoPrices == {}
AtStoploss == {3}

\* The bound of `restarts`: three crashes or faults in all, two when the stop-loss is hit
\* (whose exit goes through the states that the exit at the cutoff goes through).
FewTroubles == crashes + faults <= IF trigger = "STOPLOSS" THEN 2 ELSE 3
================================================================================
