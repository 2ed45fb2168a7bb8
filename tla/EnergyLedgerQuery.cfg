SPECIFICATION Spec
CONSTANTS
    Generators = {g1, g2}
    Hashes = {h1, h2}
    RecIds = {r1, r2, r3}
    NoId = NoId
    Nexts = {NoId}
    Energies <- MCEnergies
    OneREC = 3
    MaxAdds = 3
    MaxAppends = 3
INVARIANT QueryReturns
CHECK_DEADLOCK FALSE
