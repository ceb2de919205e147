SPECIFICATION Spec
CONSTANTS
    Outbound1 = {1}
    Outbound2 = {2, 3}
    Inbound1 = {}
    Inbound2 = {4}
    MAX_MSG_ID = 6
    BrokerIds = {1}
    Version = 5
    Persistence = 1
    Faults = {"break", "crash"}
    MaxFaults = 2
CHECK_DEADLOCK FALSE
 
PROPERTIES SendsOnce ArrivesOnce 
