SPECIFICATION FairSpec
CONSTANTS
    Instances = 2
    Trigger <- Triggers
    TriggerTime <- Times
    FireOnStartup <- Cutoff
    TradingDay <- SecondDay
    MaxDay = 2
    MaxTime = 2
    MaxLives = 2
    Pushing = {1}
    MayFail <- Fragile
INVARIANT TypeOK
INVARIANT NoHookOutlivesStop
PROPERTY BeginsWhenDue
PROPERTY EntryBeginsOnceADay
PROPERTY ShutdownEnds
PROPERTY CutoffIsDelivered
\* The last process has exited and the last day is over: a legal stop.
CHECK_DEADLOCK FALSE
