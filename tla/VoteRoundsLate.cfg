SPECIFICATION VotesSpec
CONSTANTS
    h1 = h1
    h2 = h2
    d1 = d1
    o1 = o1
    Hashes <- MCHashes
    Devices <- MCDevices
    Owners <- MCOwners
    None = None
    Empty = Empty
    QueueCap = 1
    MaxVotes = 2
    MaxCrashes = 0
    MaxRebalances = 0
INVARIANTS OneRoundPerHash
CHECK_DEADLOCK FALSE
