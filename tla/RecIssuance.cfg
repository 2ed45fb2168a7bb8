SPECIFICATION IssuanceSpec
CONSTANTS
    Generators = {g1}
    Hashes = {h1}
    RecIds <- MCRecIds
    NoId = NoId
    Nexts = {NoId}
    Energies <- MCPowers
    OneREC = 3
    MaxAdds = 3
    MaxAppends = 2
    Powers <- MCPowers
    Generator = g1
    TxHash = h1
    QueueCap = 2
    SeqModulus = 32
    MaxLight = 2
    MaxBurns = 1
    MaxCreator = 2
    MaxForeign = 1
    MaxTimeouts = 1
    MaxHeight = 20
    MaxErrors = 2
    MaxCrashes = 1
INVARIANTS IssuanceTypeOK NeverOverRequested RecsCoveredByEnergy AppendsAreRecs StaleAtMostDisturbed NothingLostWhileClean
CHECK_DEADLOCK FALSE
