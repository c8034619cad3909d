SPECIFICATION Spec
CONSTANTS
    Qty = 2
    Env <- PartialFillsPushed
    MaxCrashes = 0
    MaxFaults = 0
    Premiums <- NoPrices
    Target = 1
    Stoploss = 3
INVARIANT CompleteFillIsRecognised
\* The day ends: a settled position, or a spent crash budget, is a legal stop.
CHECK_DEADLOCK FALSE
