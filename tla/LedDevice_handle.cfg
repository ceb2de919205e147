SPECIFICATION Spec
CONSTANTS
    MaxVersion = 1
    MaxUp = 1
    MaxDown = 1
    Created = {"monitor", "keepalive"}
    Faults = {"disconnect"}
CHECK_DEADLOCK FALSE
INVARIANTS HandleIsLive
