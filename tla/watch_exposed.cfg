SPECIFICATION Spec
CONSTANTS
    h1 = h1
    h2 = h2
    a1 = a1
    a2 = a2
    c1 = c1
    p1 = p1
    p2 = p2
    IPs = {a1, a2, c1}
    PortNos = {p1, p2}
    Hosts = {h1}
    Addresses <- OneAddress
    Ports <- OnePort
    Clients = {c1}
    PingTries = 1
    Faults = {}
    MaxSignals = 1
INVARIANTS
    AlwaysShielded
