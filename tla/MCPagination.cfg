CONSTANTS
    PageSize = 3
    MaxTotal = 25
    PageBelow = 2
    PageHi = 11
SPECIFICATION Spec
INVARIANT WindowSound
