CONSTANTS
    Cards <- MCCards
    MaxRequests = 3
SPECIFICATION FairSpec
PROPERTIES EveryRequestReported ReportsFollowOutcomeLog
\* With the bound spent and every notice dismissed, the console idles
\* waiting for input: a final state, not a deadlock.
CHECK_DEADLOCK FALSE
