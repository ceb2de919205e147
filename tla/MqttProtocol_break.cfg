SPECIFICATION LiveSpec
CONSTANTS
    Outbound1 = {1}
    Outbound2 = {2}
    Inbound1 = {3}
    Inbound2 = {4}
    MAX_MSG_ID = 3
    BrokerIds = {1}
    Version = 3
    Persistence = 0
    Faults = {"break", "busy", "pending"}
    MaxFaults = 1
CHECK_DEADLOCK FALSE
INVARIANTS TypeOK AcknowledgedIsKept
PROPERTIES SendsOnce ArrivesOnce  MessageArrives ExchangeEnds
