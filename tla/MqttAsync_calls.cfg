SPECIFICATION Spec
CONSTANTS
    Threads = {t1}
    Subscribes = {1}
    Publishes0 = {3}
    Publishes1 = {2}
    Disconnects = {4}
    MaxConnects = 1
    MAX_MSG_ID = 2
    Uris = 2
    Version = 0
    CleanSession = 1
    KeepSession = 0
    AutoReconnect = 1
    Buffered = 1
    MaxInflight = 10
    DisconnectTimeout = 1
    Faults = {"refuse", "reject", "break", "partial", "silent", "timeout"}
    MaxFaults = 2
CHECK_DEADLOCK FALSE
INVARIANTS TypeOK ConnectionAgrees
PROPERTIES CalledOnce
