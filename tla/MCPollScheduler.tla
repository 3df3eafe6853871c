------------------------- MODULE MCPollScheduler -------------------------
(* Small instances of PollScheduler for TLC.                               *)
EXTENDS PollScheduler, TLC

CONSTANTS t1, t2

\* two handles are enough to see a leaked interval beside the armed one
MCTimerIds == {t1, t2}

MCSymmetry == Permutations(MCTimerIds)

\* the safety instance: three tabs, two levels, two files, one length
MCTabs == {"main", "topics", "log"}
MCLogLevels == {"DEBUG", "ERROR"}
MCLogFiles == {0, 1}
MCLogLengths == {250}
\* an empty field (0 s) and a sensible one (1 s)
MCIntervalInputs == {0, 1}

\* the interval-floor instance: an empty field (0 s) and a non-numeric one
MCIntervalFloorInputs == {0, NaN}


\* the liveness instance: two tabs and two filters
MCTabsLive == {"main", "log"}
MCLogFilesLive == {0}
=============================================================================
