SPECIFICATION Spec
CONSTANTS
    u1 = u1
    u2 = u2
    reward = reward
    Users <- MCUsers
    RewardModule = reward
    DepositIds <- MCDepositIds
    CertifiedIds <- MCCertifiedIds
    Amounts = {7, 20, 40}
    OneREC = 20
    RemoveUnit = 5
    BlockReward = 2
    GenesisMcnl = {0}
    KeyBefore <- MCKeyBefore
    MaxHeight = 2
    MaxCount = 1
    MaxRemoved = 1
SYMMETRY MCSymmetry
INVARIANT RemovedAtPolicyRate
