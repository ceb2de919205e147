SPECIFICATION CallbackSpec
CONSTANTS
    MaxVersion = 2
    MaxUp = 1
    MaxDown = 1
    Created = {"monitor"}
    Faults = {"update"}
CHECK_DEADLOCK FALSE
PROPERTIES AckMeansStored CallbackReturns
