SPECIFICATION Spec
CONSTANTS
    Outbound1 = {1}
    Outbound2 = {}
    Inbound1 = {}
    Inbound2 = {}
    MAX_MSG_ID = 4
    BrokerIds = {1}
    Version = 4
    Persistence = 1
    Faults = {"crash"}
    MaxFaults = 1
CHECK_DEADLOCK FALSE
PROPERTIES RestartKeepsCommands
