\* Two checkouts that both want the last units and the only slot.
CONSTANTS
    r1 = r1
    r2 = r2
    p1 = p1
    p2 = p2
    s1 = s1
    Requests <- PairRequests
    Products <- PairProducts
    MaxQuantity = 2
    Quantity <- PairQuantity
    Slots <- OneSlot
    SlotOf <- PairSlotOf
    SlotCapacity = 1
    Step = 1
    FrontStock = TRUE
    InitialStock = 3
    MaxStock = 4
    Incidents = {}
SPECIFICATION Spec
INVARIANTS SlotsNeverOverbooked
PROPERTIES NeverOversell
CHECK_DEADLOCK FALSE
CONSTRAINT CompetitorStaysOpen
