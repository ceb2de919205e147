SPECIFICATION LiveSpec
CONSTANTS
    Threads = {t1}
    Subscribes = {}
    Publishes0 = {}
    Publishes1 = {2, 3}
    Disconnects = {}
    MaxConnects = 2
    MAX_MSG_ID = 3
    Uris = 1
    Version = 5
    CleanSession = 0
    KeepSession = 1
    AutoReconnect = 1
    Buffered = 2
    MaxInflight = 1
    DisconnectTimeout = 0
    Faults = {"refuse", "reject", "break", "expire"}
    MaxFaults = 2
CHECK_DEADLOCK FALSE
INVARIANTS NeverStranded PendingIsTracked 
PROPERTIES PublishCompletes Reconnects
