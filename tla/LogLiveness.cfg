CONSTANTS
    Tabs <- MCTabsLive
    LogFiles <- MCLogFilesLive
    LogLengths <- MCLogLengths
    IntervalInputs <- MCIntervalInputs
    LogLevels <- MCLogLevels
    NaN = NaN
    NoLength = NoLength
    NoLog = NoLog
    NoPoll = NoPoll
    t1 = t1
    t2 = t2
    TimerIds <- MCTimerIds
SPECIFICATION FairSpec
PROPERTY LogViewSettles
