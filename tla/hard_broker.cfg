SPECIFICATION Spec
CONSTANTS
    Qty = 2
    Env <- HardBroker
    MaxCrashes = 1
    MaxFaults = 0
    Premiums <- NoPrices
    Target = 1
    Stoploss = 3
INVARIANT TypeOK
INVARIANT NeverOverClosed
INVARIANT OpenMeansHedged
INVARIANT RowsBelieveTheBroker
PROPERTY RowsOnlyAdvance
\* The day ends: a settled position, or a spent crash budget, is a legal stop.
CHECK_DEADLOCK FALSE
