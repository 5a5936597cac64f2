SPECIFICATION FairSpec
CONSTANTS
    Commands <- TwoCommands
    CloudAllowed <- TwoCommands
    NonceMemory = 2
    MaxBridges = 2
    NetworkFails = TRUE
    Bounds <- CommandsOrObjects
INVARIANTS
    TypeOK
    RunsOnceOverall
    ReportsAreTrue
PROPERTIES
    LedgerKept
    CommandsAreSeen
CHECK_DEADLOCK FALSE
