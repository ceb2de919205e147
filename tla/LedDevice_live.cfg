SPECIFICATION LiveSpec
CONSTANTS
    MaxVersion = 1
    MaxUp = 1
    MaxDown = 1
    Created = {"monitor", "keepalive"}
    Faults = {"loss", "forget", "mute"}
CHECK_DEADLOCK FALSE
PROPERTIES OnlineAgain Reregisters PendingSetIsRetried MuteDetected
