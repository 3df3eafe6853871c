CONSTANTS
    Tabs <- MCTabs
    LogLevels <- MCLogLevels
    LogFiles <- MCLogFiles
    LogLengths <- MCLogLengths
    IntervalInputs <- MCIntervalInputs
    NaN = NaN
    NoLength = NoLength
    NoLog = NoLog
    NoPoll = NoPoll
    t1 = t1
    t2 = t2
    TimerIds <- MCTimerIds
SPECIFICATION Spec
PROPERTY PollerSpec
