SPECIFICATION Spec
CONSTANTS
    MaxVersion = 0
    MaxUp = 1
    MaxDown = 1
    Created = {"keepalive", "func"}
    Faults = {"connect", "install", "disconnect", "spi", "early", "nodesired", "update", "loss", "forget", "mute", "foreign"}
CHECK_DEADLOCK FALSE
INVARIANTS TypeOK OneUnansweredKeepalive ShadowOutlivesThreads
