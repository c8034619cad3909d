SPECIFICATION Spec
CONSTANTS
    Qty = 1
    Env <- OperatorUnfreezes
    MaxCrashes = 3
    MaxFaults = 1
    Premiums <- AtStoploss
    Target = 1
    Stoploss = 3
CONSTRAINT FewTroubles
INVARIANT AtMostOneOrderPerTag
INVARIANT IntentBeforeOrder
INVARIANT PutOnlyAfterCall
INVARIANT ExposureIsWatched
INVARIANT ClosedMeansFlat
PROPERTY NoOrderAfterTheEnd
\* The day ends: a settled position, or a spent crash budget, is a legal stop.
CHECK_DEADLOCK FALSE
