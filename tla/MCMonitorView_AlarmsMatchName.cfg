CONSTANTS
    MaxDevices = 2
    MaxRequests = 5
SPECIFICATION Spec
INVARIANT AlarmsMatchName
