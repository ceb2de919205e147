SPECIFICATION LiveSpec
CONSTANTS
    Threads = {t1}
    Subscribes = {}
    Publishes0 = {}
    Publishes1 = {1}
    Disconnects = {2}
    MaxConnects = 1
    MAX_MSG_ID = 4
    Uris = 1
    Version = 4
    CleanSession = 0
    KeepSession = 0
    AutoReconnect = 0
    Buffered = 0
    MaxInflight = 10
    DisconnectTimeout = 1
    Faults = {}
    MaxFaults = 0
CHECK_DEADLOCK FALSE
PROPERTIES DisconnectCarriedOut
