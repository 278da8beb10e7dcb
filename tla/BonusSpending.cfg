\* An order and a receipt share a balance that expires, with a referral reward.
CONSTANTS
    o1 = o1
    o2 = o2
    t1 = t1
    t2 = t2
    Online = {o1}
    Till = {t1}
    MaxBonus = 2
    Earns <- OneEach
    Delayed = TRUE
    Opening = 2
    OpeningLife = 1
    Lifetime = 2
    Reward = 1
    LastDay = 2
    MaxAdjustments = 1
SPECIFICATION FairSpec
INVARIANTS TypeOK HoldsBacked LotsMatchBalance
PROPERTIES RefundNeverRenews ExpiredBonusesBurn
CHECK_DEADLOCK FALSE
