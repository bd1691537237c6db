SPECIFICATION MCSpec
CONSTANTS
    ULLONG_MAX = 999999
    UINT_MAX = 99999
    NoDigits <- Zero
    inet_pton <- Pton
    inet_ntop <- Ntop
    chars <- Characters
    tokens <- Tokens
    Inputs <- AllInputs
    HostWords = {"host", "hostname"}
    Macs = {"01:12:34:45:67:89", "02:11:22:33:44:55"}
    IfaceWords = {"lo", "eth0", "x"}
INVARIANTS
    NumbersExact
    AddressesExact
    ConfigUnderstood
    PacketsUnderstood
    ReplaysFaithful
    MagicPacketsForUs
    SolicitationsForUs
