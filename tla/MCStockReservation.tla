------------------------- MODULE MCStockReservation -------------------------
(* Instances of StockReservation for TLC.                                    *)
EXTENDS StockReservation

CONSTANTS r1, r2, p1, p2, s1

\* A lone checkout of two products.
SoloRequests == {r1}
SoloProducts == {p1, p2}
SoloQuantity == [r \in SoloRequests |-> [p \in SoloProducts |-> 1]]

\* Two checkouts that meet on one product and on one slot.
PairRequests == {r1, r2}
PairProducts == {p1}
PairQuantity == [r \in PairRequests |-> [p \in PairProducts |-> IF r = r1 THEN 1 ELSE 2]]

\* Bound of the pair: r2 competes for the capacity but its order is not closed,
\* so the long tail of releases is explored for r1 only.
CompetitorStaysOpen == order[r2] \in {"none", "pending", "paid", "new"}

OneSlot == {s1}
SoloSlotOf == [r \in SoloRequests |-> s1]
PairSlotOf == [r \in PairRequests |-> s1]
=============================================================================
