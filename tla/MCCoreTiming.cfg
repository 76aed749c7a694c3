CONSTANTS
    event_type = event_type
    Types = {event_type}
    Delays = {0}
    Intervals = {1}
    MaxTime = 1
    MaxCallers = 1
    NoType = NoType
SPECIFICATION TimingFairSpec
INVARIANTS UnscheduledStaysQuiet PausedMeansQuiet NobodyWaitsForASleeper
PROPERTIES DueEventsRun
CHECK_DEADLOCK FALSE
