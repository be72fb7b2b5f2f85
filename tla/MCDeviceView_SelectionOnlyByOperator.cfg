CONSTANTS
    MaxDevices = 2
    MaxRequests = 3
SPECIFICATION Spec
INVARIANT SelectionOnlyByOperator
