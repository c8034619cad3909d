SPECIFICATION StrangerSpec
CONSTANTS
    Qty = 1
    Env <- RiskDesk
    MaxCrashes = 1
    MaxFaults = 0
    Premiums <- NoPrices
    Target = 1
    Stoploss = 3
INVARIANT DuplicateInDoubtStops
PROPERTY FollowsStateMachine
\* The day ends: a settled position, or a spent crash budget, is a legal stop.
CHECK_DEADLOCK FALSE
