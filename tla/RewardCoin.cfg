SPECIFICATION Spec
CONSTANTS
    u1 = u1
    u2 = u2
    reward = reward
    Users <- MCUsers
    RewardModule = reward
    DepositIds <- MCDepositIds
    CertifiedIds <- MCCertifiedIds
    Amounts = {7, 10, 20}
    OneREC = 10
    RemoveUnit = 5
    BlockReward = 2
    GenesisMcnl = {0, 12}
    KeyBefore <- MCKeyBefore
    MaxHeight = 2
    MaxCount = 1
    MaxRemoved = 1
SYMMETRY MCSymmetry
INVARIANTS TypeOK MintedAgreesWithBank Backed Redeemable
PROPERTIES RecsLeaveAgainstCoins ImplementsCollateralisedCoin
