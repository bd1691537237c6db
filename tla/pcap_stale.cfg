SPECIFICATION Spec
CONSTANTS
    handler = handler
    watcher = watcher
    magic = magic
    Breakers = {handler}
    Ler <- OneLer
    CallbackBreakers = {}
    Counts = {1}
    BreakWakesPoll = TRUE
INVARIANTS
    BreakIsSafe
