SPECIFICATION FairSpec
CONSTANTS
    Addresses <- TwoAddresses
    V6 = {"fe80::1"}
    Signals = {"SIGTERM"}
    MaxSignals = 2
    HandlerInHost = FALSE
    Clients = {"c1"}
    Faults = {"pcap", "watcher", "abort", "kill", "intr"}
INVARIANTS
    TypeOK
    CaptureOutlivesUsers
    NoRuleLeft
PROPERTIES
    ImplementsWatchHost
    
    AskedReturns
