SPECIFICATION VotesSpec
CONSTANTS
    h1 = h1
    h2 = h2
    d1 = d1
    o1 = o1
    Hashes <- MCHashes
    Devices <- MCDevices
    Owners <- MCOwners
    None = None
    Empty = Empty
    QueueCap = 1
    MaxVotes = 2
    MaxCrashes = 1
    MaxRebalances = 2
SYMMETRY MCSymmetry
INVARIANTS VotesTypeOK OneTimerPerRound NoVoteTwice UncommittedNotLost
CHECK_DEADLOCK FALSE
