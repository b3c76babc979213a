SPECIFICATION Spec
CONSTANTS
    DayLength = 2
    MonthStarts <- MCMonthStarts
    Presets <- MCPresets
    StartTime = 27
    EarlyDates <- MCEarlyDates
    MaxTicks = 1
    MaxChanges = 2
    MaxFaults = 1
CHECK_DEADLOCK FALSE
INVARIANTS TypeOK SeriesExact
PROPERTIES CacheCatchesUp
