CONSTANTS
    MaxDevices = 2
    MaxRequests = 4
SPECIFICATION FairSpec
PROPERTY MonitorSettles
\* With every request of the bound sent and settled and the overlay closed,
\* the console idles waiting for input: a final state, not a deadlock.
CHECK_DEADLOCK FALSE
