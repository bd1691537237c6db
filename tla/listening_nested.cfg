SPECIFICATION FairSpec
CONSTANTS
    Addresses <- OneAddress
    V6 = {}
    Signals = {"SIGINT", "SIGTERM"}
    MaxSignals = 2
    HandlerInHost = FALSE
    Clients = {"c1"}
    Faults = {}
PROPERTIES
    HandlerReturns
CHECK_DEADLOCK FALSE
