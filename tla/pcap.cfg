SPECIFICATION FairSpec
CONSTANTS
    handler = handler
    watcher = watcher
    magic = magic
    Breakers = {handler, watcher, magic}
    Ler <- AllLer
    CallbackBreakers = {magic}
    Counts = {0, 1}
    BreakWakesPoll = TRUE
INVARIANTS
    TypeOK
    EndReasonIsGenuine
PROPERTIES
    KeepsPromise
    BreakEndsLoop
