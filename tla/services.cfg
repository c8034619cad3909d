SPECIFICATION ServicesSpec
CONSTANTS
    Callers = {a, b}
    MaxCalls = 2
    PerSeconds = 2
    Timeouts <- SomeOrNone
    MaxNow = 4
INVARIANT ServicesTypeOK
INVARIANT NeverOverLimit
INVARIANT StandingReasonRejects
INVARIANT TicksAreAccounted
INVARIANT LedgerBalances
INVARIANT WantedIsStreamed
INVARIANT WindowIsStreamed
INVARIANT SelectionIsRight
INVARIANT TokensAreVerified
INVARIANT RecordsAreTrue
PROPERTY CallersAreAnswered
PROPERTY BreachIsSticky
PROPERTY EveryTickEnds
PROPERTY OrdersFollowTheBook
PROPERTY KeepsContract
PROPERTY EveryEndIsTold
PROPERTY MonitorsCatchUp
PROPERTY StreamComesBack
\* Every caller is idle and every bound is spent: a legal stop.
CHECK_DEADLOCK FALSE
