CONSTANTS
    MaxDevices = 1
    MaxRequests = 3
SPECIFICATION FairSpec
INVARIANT TypeOK
PROPERTY DeviceSpinnerResolves
