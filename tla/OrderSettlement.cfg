\* Settlements of one /flex payment against cancellations and repeated refunds,
\* the kitchen, the cleanup and the refund reconciler.
CONSTANTS
    w1 = w1
    w2 = w2
    Workers = {w1, w2}
    MaxRefunds = 2
    MaxCrashes = 1
    Widget = FALSE
    SpendsBonus = TRUE
    Handlers = {"sync", "poll", "customer", "admin", "recon", "staff", "cleanup"}
    Faults = {"lost", "slow", "rejected"}
SPECIFICATION Spec
INVARIANTS TypeOK RefundedMeansPaidBack RefundReturnsBonuses ClaimStopsService
PROPERTIES RefundIsFinal NewOnlyWhenSecured 
CHECK_DEADLOCK FALSE
SYMMETRY AnyHandler
