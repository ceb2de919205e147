SPECIFICATION Spec
CONSTANTS
    Items = {x1, x2, x3, x4}
    Keys = {"a"}
    NULL = NULL
    MaxCount = 2
    MaxApart = 2
SYMMETRY Addresses
INVARIANTS PointersSound NothingLost
 
CHECK_DEADLOCK FALSE
