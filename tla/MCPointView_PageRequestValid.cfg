CONSTANTS
    PageSize = 1
    MaxIds = 3
    MaxRequests = 4
SPECIFICATION Spec
INVARIANT PageRequestValid
