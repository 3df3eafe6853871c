CONSTANTS
    Tabs <- MCTabs
    LogFiles <- MCLogFiles
    LogLengths <- MCLogLengths
    IntervalInputs <- MCIntervalInputs
    LogLevels <- MCLogLevels
    NaN = NaN
    NoLength = NoLength
    NoLog = NoLog
    NoPoll = NoPoll
    t1 = t1
    t2 = t2
    TimerIds <- MCTimerIds
SYMMETRY MCSymmetry
SPECIFICATION Spec
INVARIANT RefreshButtonTruthful
