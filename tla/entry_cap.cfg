SPECIFICATION Spec
CONSTANTS
    Entrants = {"i1", "i2"}
    Target = {"i1", "account"}
    FlagType = {"FREEZE", "KILL_SWITCH", "EMERGENCY_EXIT"}
    MaxDailyEntries = 1
    LossLimit = 1
    Outcomes = {3}
    MaxOpen = 0
    MaxEngaged = 0
INVARIANT EntryCapHolds
\* Every instance has its verdict: a legal stop.
CHECK_DEADLOCK FALSE
