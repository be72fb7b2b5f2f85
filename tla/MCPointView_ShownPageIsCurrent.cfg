CONSTANTS
    PageSize = 1
    MaxIds = 3
    MaxRequests = 3
SPECIFICATION Spec
INVARIANT ShownPageIsCurrent
