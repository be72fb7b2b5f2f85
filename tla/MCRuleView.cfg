CONSTANTS
    MaxRules = 2
    MaxRequests = 4
SPECIFICATION Spec
INVARIANT TypeOK
\* With the request bound spent and the dialogs closed, the console only
\* waits for input: a final state, not a deadlock.
CHECK_DEADLOCK FALSE
