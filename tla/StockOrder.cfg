\* One checkout of two products and its order on a Front branch, every incident,
\* with liveness.
CONSTANTS
    r1 = r1
    r2 = r2
    p1 = p1
    p2 = p2
    s1 = s1
    Requests <- SoloRequests
    Products <- SoloProducts
    MaxQuantity = 1
    Quantity <- SoloQuantity
    Slots <- OneSlot
    SlotOf <- SoloSlotOf
    SlotCapacity = 1
    Step = 1
    FrontStock = TRUE
    InitialStock = 2
    MaxStock = 2
    Incidents = {"crash", "lostRelease", "recount", "manualStop"}
SPECIFICATION FairSpec
INVARIANTS TypeOK NeverHalfCommitted
PROPERTIES ClosedOrdersReleaseCapacity AbandonedCapacityReturns
CHECK_DEADLOCK FALSE
