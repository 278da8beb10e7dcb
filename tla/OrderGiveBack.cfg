\* A refund ends well although a settlement is still in flight.
CONSTANTS
    w1 = w1
    w2 = w2
    Workers = {w1, w2}
    MaxRefunds = 1
    MaxCrashes = 0
    Widget = TRUE
    SpendsBonus = TRUE
    Handlers = {"sync", "admin", "recon"}
    Faults = {"lost", "declined"}
SPECIFICATION FairSpec
PROPERTIES MovedRefundIsRecorded RefundGivesEverythingBack
CHECK_DEADLOCK FALSE
