----------------------------- MODULE MCScheduling ------------------------------
(***************************************************************************)
(* Two instances of Strategy 1, which declares two triggers: the entry is     *)
(* skipped when it is missed, the cutoff is fired on startup.                  *)
(***************************************************************************)
EXTENDS Scheduling

Triggers == {"entry", "cutoff"}
Times == [t \in Triggers |-> IF t = "entry" THEN 1 ELSE 2]
Cutoff == {"cutoff"}

\* The market opens on the second day only.
SecondDay == {2}

\* The broker refuses the session, reconciliation raises, the market feed fails,
\* app.yaml names an instance twice.
Fragile == {"authenticate", "reconcile", "market", "start"}
================================================================================
