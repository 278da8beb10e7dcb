\* Every order ends, wherever one handler stops.
CONSTANTS
    w1 = w1
    w2 = w2
    Workers = {w1}
    MaxRefunds = 1
    MaxCrashes = 1
    Widget = TRUE
    SpendsBonus = TRUE
    Handlers = {"sync", "cleanup", "admin", "kitchen", "recon"}
    Faults = {"lost", "slow", "declined", "rejected"}
SPECIFICATION FairSpec
PROPERTIES UnknownRefundsSettle PaidOrderIsServedOrRefunded UnpaidOrderCloses
CHECK_DEADLOCK FALSE
