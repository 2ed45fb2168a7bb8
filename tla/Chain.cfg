CONSTANTS
    Nil = Nil
    None = None
    m1 = m1
    m2 = m2
SPECIFICATION Spec
SYMMETRY SymModules
INVARIANTS TypeOK TransactionsOnce GovernanceInvariants DelegationsCountOnce StakingInvariants CounterIsWindow CapabilitiesKept BurnsAccounted
PROPERTIES DowntimeIsJailed
CHECK_DEADLOCK FALSE
