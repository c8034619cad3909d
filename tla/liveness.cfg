SPECIFICATION FairSpec
CONSTANTS
    Qty = 1
    Env <- KillSwitchUsed
    MaxCrashes = 1
    MaxFaults = 0
    Premiums <- NoPrices
    Target = 1
    Stoploss = 3
PROPERTY HooksEnd
PROPERTY MustExitCloses
PROPERTY ExitEndsOrIsFlagged
\* The day ends: a settled position, or a spent crash budget, is a legal stop.
CHECK_DEADLOCK FALSE
