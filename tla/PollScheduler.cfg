CONSTANTS
    Tabs <- MCTabs
    LogLevels <- MCLogLevels
    LogFiles <- MCLogFiles
    LogLengths <- MCLogLengths
    IntervalInputs <- MCIntervalInputs
    NaN = NaN
    NoLength = NoLength
    NoLog = NoLog
    NoPoll = NoPoll
    t1 = t1
    t2 = t2
    TimerIds <- MCTimerIds
SYMMETRY MCSymmetry
SPECIFICATION Spec
INVARIANT TypeOK
INVARIANT SingleTimer
INVARIANT PollsCurrentView
INVARIANT PollStopsOnlyOnRequest
