SPECIFICATION Spec
CONSTANTS
    Qty = 1
    Env <- ConnectionsReset
    MaxCrashes = 0
    MaxFaults = 0
    Premiums <- NoPrices
    Target = 1
    Stoploss = 3
INVARIANT AtMostOneOrderPerTag
\* The day ends: a settled position, or a spent crash budget, is a legal stop.
CHECK_DEADLOCK FALSE
