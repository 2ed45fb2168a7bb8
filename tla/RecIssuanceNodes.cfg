SPECIFICATION IssuanceSpec
CONSTANTS
    Generators = {g1}
    Hashes = {h1}
    RecIds <- MCRecIds
    NoId = NoId
    Nexts = {NoId}
    Energies <- MCPowers
    OneREC = 3
    MaxAdds = 2
    MaxAppends = 2
    Powers <- MCPowers
    Generator = g1
    TxHash = h1
    QueueCap = 2
    SeqModulus = 32
    MaxLight = 2
    MaxBurns = 0
    MaxCreator = 2
    MaxForeign = 0
    MaxTimeouts = 0
    MaxHeight = 20
    MaxErrors = 0
    MaxCrashes = 0
INVARIANTS EveryRecHasNode
CHECK_DEADLOCK FALSE
