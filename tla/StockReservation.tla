--------------------------- MODULE StockReservation ---------------------------
(* Stock and pickup/delivery slots of one branch, shared by every checkout.    *)
(*                                                                             *)
(* A checkout (one client_request_id) takes rows of inventory_reservations,    *)
(* one per product of its cart, and one row of fulfillment_slot_reservations.  *)
(* They live until expires_at, are attached to the order when it exists, are   *)
(* committed when the order is paid and released when it closes.  Every RPC of *)
(* supabase/migrations is one transaction and so one action here; the calls of *)
(* the Node server between them (createPayment, recordPaidOrder, the workers)  *)
(* interleave freely, and any call that is only "best effort" may be lost.     *)
(*                                                                             *)
(* Abstractions: one branch; quantities are whole units; expires_at > now() is *)
(* one flag per checkout and table; the order row is reduced to the phase the  *)
(* reservation SQL can tell apart.                                             *)
EXTENDS Naturals, FiniteSets

CONSTANTS
    Requests,      \* checkouts; a checkout makes at most one order
    Products,      \* products the branch sells from the display
    MaxQuantity,   \* largest quantity of one product in a cart
    Quantity,      \* Quantity[r][p]: units of p in the cart of r, 0 if none
    Slots,         \* slot buckets of the branch
    SlotOf,        \* the bucket each checkout asks for
    SlotCapacity,  \* pickup/preorder/delivery_slot_capacity
    Step,          \* quantity_step, kept back for walk-in customers
    FrontStock,    \* front_stock_policies.enabled for the branch
    InitialStock,  \* source_quantity the run starts with
    MaxStock,      \* bound on a recount
    Incidents      \* unscheduled events allowed: a subset of AllIncidents

AllIncidents == {"crash", "lostRelease", "recount", "manualStop"}

ASSUME StockAssumption ==
    /\ IsFiniteSet(Requests)
    /\ MaxQuantity \in Nat
    /\ Quantity \in [Requests -> [Products -> 0..MaxQuantity]]
    /\ SlotOf \in [Requests -> Slots]
    /\ SlotCapacity \in Nat \ {0}
    /\ Step \in Nat
    /\ FrontStock \in BOOLEAN
    /\ MaxStock \in Nat
    /\ InitialStock \in 0..MaxStock
    /\ Incidents \subseteq AllIncidents

VARIABLES
    rows,       \* inventory_reservations.status, per checkout and product
    rowsLive,   \* inventory_reservations.expires_at > now()
    slot,       \* fulfillment_slot_reservations.status
    slotLive,   \* fulfillment_slot_reservations.expires_at > now()
    attached,   \* order_id of the checkout's rows is set
    source,     \* branch_product_inventory.source_quantity
    stopped,    \* products under manual_stop
    order,      \* phase of the checkout's kaspi_orders row
    grace,      \* updated_at of a late-paid order is under five minutes old
    checkout,   \* next step of createPayment
    settling,   \* recordPaidOrder between its read and its last write
    releasing   \* a release_order_reservations call is on its way

vars == <<rows, rowsLive, slot, slotLive, attached, source, stopped, order,
          grace, checkout, settling, releasing>>

RowStatus == {"none", "active", "expired", "released", "committed"}

\* "lapsed": failed or expired; "unpaid": and cancelled by the cleanup;
\* "late": paid after that; "new" and "work": being served; "cancelled":
\* closed by a cancellation that refunds.
Phase == {"none", "pending", "lapsed", "unpaid", "paid", "late", "new", "work",
          "completed", "cancelled"}

CheckoutStep == {"reserve", "slot", "order", "attach", "confirm",
                 "undo", "undoRows", "undoSlot", "fail", "done"}

TypeOK ==
    /\ rows \in [Requests -> [Products -> RowStatus]]
    /\ rowsLive \in [Requests -> BOOLEAN]
    /\ slot \in [Requests -> RowStatus]
    /\ slotLive \in [Requests -> BOOLEAN]
    /\ attached \in [Requests -> BOOLEAN]
    /\ source \in [Products -> Nat]
    /\ stopped \subseteq Products
    /\ order \in [Requests -> Phase]
    /\ grace \in [Requests -> BOOLEAN]
    /\ checkout \in [Requests -> CheckoutStep]
    /\ settling \in [Requests -> {"no", "called", "ok", "refused"}]
    /\ releasing \in [Requests -> BOOLEAN]

Init ==
    /\ rows = [r \in Requests |-> [p \in Products |-> "none"]]
    /\ rowsLive = [r \in Requests |-> FALSE]
    /\ slot = [r \in Requests |-> "none"]
    /\ slotLive = [r \in Requests |-> FALSE]
    /\ attached = [r \in Requests |-> FALSE]
    /\ source = [p \in Products |-> InitialStock]
    /\ stopped = {}
    /\ order = [r \in Requests |-> "none"]
    /\ grace = [r \in Requests |-> FALSE]
    /\ checkout = [r \in Requests |-> "reserve"]
    /\ settling = [r \in Requests |-> "no"]
    /\ releasing = [r \in Requests |-> FALSE]

-------------------------------------------------------------------------------
(* What the SQL counts.                                                        *)

Cart(r) == {p \in Products : Quantity[r][p] > 0}

\* Mutant of RowHeld: the reserve query forgets expires_at > now().
RowHeldForever(r, p) == rows[r][p] \in {"committed", "active"}

RowHeld(r, p) ==
    rows[r][p] = "committed" \/ (rows[r][p] = "active" /\ rowsLive[r])

SlotHeld(r) == slot[r] = "committed" \/ (slot[r] = "active" /\ slotLive[r])

\* The units of p that the checkouts of R hold, one element per unit, so that
\* the sum(quantity) of the queries is a cardinality.
Units(R, p) ==
    {u \in R \X (1..MaxQuantity) : u[2] <= Quantity[u[1]][p] /\ RowHeld(u[1], p)}

Held(p) == Cardinality(Units(Requests, p))

SlotHolders(R, s) == {r \in R : SlotOf[r] = s /\ SlotHeld(r)}

\* source_quantity - held - buffer_units >= quantity, held counting the others.
Fits(r, p, buffer) ==
    Cardinality(Units(Requests \ {r}, p)) + buffer + Quantity[r][p] <= source[p]

\* Mutant of SlotFits: "no room" is tested after counting, off by one.
SlotFitsOneMore(r) ==
    Cardinality(SlotHolders(Requests \ {r}, SlotOf[r])) <= SlotCapacity

SlotFits(r) == Cardinality(SlotHolders(Requests \ {r}, SlotOf[r])) < SlotCapacity

HoldsCapacity(r) == SlotHeld(r) \/ \E p \in Cart(r) : RowHeld(r, p)

\* A row expired, or is about to be found expired by the next sweep.
RowStale(r, p) == rows[r][p] = "expired" \/ (rows[r][p] = "active" /\ ~rowsLive[r])
SlotStale(r) == slot[r] = "expired" \/ (slot[r] = "active" /\ ~slotLive[r])

-------------------------------------------------------------------------------
(* createPayment: reserve stock, reserve the slot, make the order, attach.     *)

\* update inventory_reservations set status='expired' where active and overdue
SweptRows ==
    [r \in Requests |-> [p \in Products |->
        IF rows[r][p] = "active" /\ ~rowsLive[r] THEN "expired" ELSE rows[r][p]]]

SweptSlots ==
    [r \in Requests |->
        IF slot[r] = "active" /\ ~slotLive[r] THEN "expired" ELSE slot[r]]

\* The walk-in unit is not asked again of a live hold of a Front branch.
ReserveBuffer(r, p) ==
    IF FrontStock /\ rows[r][p] = "active" /\ rowsLive[r] THEN 0 ELSE Step

ReserveInventory(r) ==
    /\ checkout[r] = "reserve"
    /\ order[r] = "none"
    /\ \A p \in Cart(r) :
          /\ p \notin stopped
          /\ rows[r][p] = "committed" \/ Fits(r, p, ReserveBuffer(r, p))
    /\ rows' = [SweptRows EXCEPT ![r] = [p \in Products |->
                  IF p \in Cart(r) /\ rows[r][p] # "committed"
                  THEN "active" ELSE SweptRows[r][p]]]
    /\ rowsLive' = [rowsLive EXCEPT ![r] = TRUE]
    /\ checkout' = [checkout EXCEPT ![r] = "slot"]
    /\ UNCHANGED <<slot, slotLive, attached, source, stopped, order, grace,
                   settling, releasing>>

ReserveSlot(r) ==
    /\ checkout[r] = "slot"
    /\ slot[r] = "committed" \/ SlotFits(r)
    /\ slot' = [SweptSlots EXCEPT ![r] =
                  IF slot[r] = "committed" THEN "committed" ELSE "active"]
    /\ slotLive' = [slotLive EXCEPT ![r] = TRUE]
    /\ checkout' = [checkout EXCEPT ![r] = "order"]
    /\ UNCHANGED <<rows, rowsLive, attached, source, stopped, order, grace,
                   settling, releasing>>

\* The slot is taken, or the bank refused the checkout: undo and report.
CheckoutFails(r) ==
    /\ \/ checkout[r] = "slot" /\ slot[r] # "committed" /\ ~SlotFits(r)
       \/ checkout[r] = "order"
    /\ checkout' = [checkout EXCEPT ![r] = "undo"]
    /\ UNCHANGED <<rows, rowsLive, slot, slotLive, attached, source, stopped,
                   order, grace, settling, releasing>>

CreateOrder(r) ==
    /\ checkout[r] = "order"
    /\ order' = [order EXCEPT ![r] = "pending"]
    /\ checkout' = [checkout EXCEPT ![r] = "attach"]
    /\ UNCHANGED <<rows, rowsLive, slot, slotLive, attached, source, stopped,
                   grace, settling, releasing>>

\* Everything the checkout reserved must still be held, or the RPC raises.
CanAttach(r) == SlotHeld(r) /\ \A p \in Cart(r) : RowHeld(r, p)

\* An order found already paid also asks for a strict commit (no reacquire).
AttachOrder(r) ==
    /\ checkout[r] = "attach"
    /\ IF CanAttach(r)
       THEN /\ attached' = [attached EXCEPT ![r] = TRUE]
            /\ \/ checkout' = [checkout EXCEPT ![r] = "done"]
               \/ /\ order[r] \in {"paid", "new"}
                  /\ checkout' = [checkout EXCEPT ![r] = "confirm"]
       ELSE /\ checkout' = [checkout EXCEPT ![r] = "undo"]
            /\ UNCHANGED attached
    /\ UNCHANGED <<rows, rowsLive, slot, slotLive, source, stopped, order,
                   grace, settling, releasing>>

\* releaseCheckoutRequest sends its two updates together, in either order.
UndoRows(r) ==
    /\ checkout[r] \in {"undo", "undoRows"}
    /\ rows' = [rows EXCEPT ![r] = [p \in Products |->
                  IF rows[r][p] = "active" THEN "released" ELSE rows[r][p]]]
    /\ checkout' = [checkout EXCEPT
                     ![r] = IF checkout[r] = "undo" THEN "undoSlot" ELSE "fail"]
    /\ UNCHANGED <<rowsLive, slot, slotLive, attached, source, stopped, order,
                   grace, settling, releasing>>

UndoSlot(r) ==
    /\ checkout[r] \in {"undo", "undoSlot"}
    /\ slot' = [slot EXCEPT ![r] = IF slot[r] = "active" THEN "released" ELSE slot[r]]
    /\ checkout' = [checkout EXCEPT
                     ![r] = IF checkout[r] = "undo" THEN "undoRows" ELSE "fail"]
    /\ UNCHANGED <<rows, rowsLive, slotLive, attached, source, stopped, order,
                   grace, settling, releasing>>

\* updateOrderStatus(expired) of an order still unpaid; a checkout that left no
\* order can be tried again with the same request id.
FailCheckout(r) ==
    /\ checkout[r] = "fail"
    /\ IF order[r] = "pending"
       THEN /\ order' = [order EXCEPT ![r] = "lapsed"]
            /\ releasing' = [releasing EXCEPT ![r] = TRUE]
       ELSE UNCHANGED <<order, releasing>>
    /\ checkout' = [checkout EXCEPT
                     ![r] = IF order[r] = "none" THEN "reserve" ELSE "done"]
    /\ UNCHANGED <<rows, rowsLive, slot, slotLive, attached, source, stopped,
                   grace, settling>>

\* The server stops in the middle; the client may retry what left no order.
CrashCheckout(r) ==
    /\ "crash" \in Incidents
    /\ checkout[r] \notin {"reserve", "done"}
    /\ checkout' = [checkout EXCEPT
                     ![r] = IF order[r] = "none" THEN "reserve" ELSE "done"]
    /\ UNCHANGED <<rows, rowsLive, slot, slotLive, attached, source, stopped,
                   order, grace, settling, releasing>>

-------------------------------------------------------------------------------
(* commit_order_reservations, strict and with reacquire.                       *)

\* Mutant of CommitBuffer: a Front branch drops the buffer of lapsed rows too.
CommitBufferDropped(r, p) == IF FrontStock THEN 0 ELSE Step

CommitBuffer(r, p) ==
    IF FrontStock /\ rows[r][p] = "active" /\ rowsLive[r] THEN 0 ELSE Step

AllCommitted(r) ==
    slot[r] = "committed" /\ \A p \in Cart(r) : rows[r][p] = "committed"

Lapsed(r) == SlotStale(r) \/ \E p \in Cart(r) : RowStale(r, p)
Released(r) == slot[r] = "released" \/ \E p \in Cart(r) : rows[r][p] = "released"

CapacityLeft(r) ==
    /\ \A p \in Cart(r) : rows[r][p] # "committed" =>
          p \notin stopped /\ Fits(r, p, CommitBuffer(r, p))
    /\ slot[r] # "committed" => SlotFits(r)

CanCommit(r, reacquire) ==
    /\ attached[r]
    /\ \/ AllCommitted(r)
       \/ (reacquire \/ ~(Lapsed(r) \/ Released(r))) /\ CapacityLeft(r)

\* Mutant of CommitReservations: a slot that has to be reacquired is left out.
CommitReservationsSkippingSlot(r, reacquire) ==
    IF CanCommit(r, reacquire)
    THEN /\ rows' = [rows EXCEPT ![r] = [p \in Products |->
                       IF p \in Cart(r) THEN "committed" ELSE rows[r][p]]]
         /\ slot' = [slot EXCEPT
                       ![r] = IF slot[r] = "active" THEN "committed" ELSE slot[r]]
    ELSE UNCHANGED <<rows, slot>>

\* All rows of the order become committed, or none does.  A strict call that
\* finds a lapsed or released row closes the rows that were still active.
CommitReservations(r, reacquire) ==
    IF CanCommit(r, reacquire)
    THEN /\ rows' = [rows EXCEPT ![r] = [p \in Products |->
                       IF p \in Cart(r) THEN "committed" ELSE rows[r][p]]]
         /\ slot' = [slot EXCEPT ![r] = "committed"]
    ELSE IF attached[r] /\ ~reacquire /\ (Lapsed(r) \/ Released(r))
    THEN LET closed == IF Released(r) THEN "released" ELSE "expired" IN
         /\ rows' = [rows EXCEPT ![r] = [p \in Products |->
                       IF rows[r][p] = "active" THEN closed ELSE rows[r][p]]]
         /\ slot' = [slot EXCEPT ![r] = IF slot[r] = "active" THEN closed ELSE slot[r]]
    ELSE UNCHANGED <<rows, slot>>

\* createPayment for an order that is paid as soon as it exists.
ConfirmCheckout(r) ==
    /\ checkout[r] = "confirm"
    /\ CommitReservations(r, FALSE)
    /\ checkout' = [checkout EXCEPT
                     ![r] = IF CanCommit(r, FALSE) THEN "done" ELSE "undo"]
    /\ UNCHANGED <<rowsLive, slotLive, attached, source, stopped, order, grace,
                   settling, releasing>>

-------------------------------------------------------------------------------
(* The order: payment, settlement by recordPaidOrder, service, closing.        *)

PayOrder(r) ==
    /\ order[r] \in {"pending", "lapsed", "unpaid"}
    /\ order' = [order EXCEPT ![r] = IF order[r] = "unpaid" THEN "late" ELSE "paid"]
    /\ grace' = [grace EXCEPT ![r] = order[r] = "unpaid"]
    /\ UNCHANGED <<rows, rowsLive, slot, slotLive, attached, source, stopped,
                   checkout, settling, releasing>>

\* failed or expired at the bank, then the release of updateOrderStatus.
OrderLapses(r) ==
    /\ order[r] = "pending"
    /\ order' = [order EXCEPT ![r] = "lapsed"]
    /\ releasing' = [releasing EXCEPT ![r] = TRUE]
    /\ UNCHANGED <<rows, rowsLive, slot, slotLive, attached, source, stopped,
                   grace, checkout, settling>>

\* finalizeUnpaidOrder: cancel, then release.
CleanUpUnpaid(r) ==
    /\ order[r] = "lapsed"
    /\ order' = [order EXCEPT ![r] = "unpaid"]
    /\ releasing' = [releasing EXCEPT ![r] = TRUE]
    /\ UNCHANGED <<rows, rowsLive, slot, slotLive, attached, source, stopped,
                   grace, checkout, settling>>

SettleStart(r) ==
    /\ order[r] \in {"paid", "late", "new"}
    /\ settling[r] = "no"
    /\ settling' = [settling EXCEPT ![r] = "called"]
    /\ UNCHANGED <<rows, rowsLive, slot, slotLive, attached, source, stopped,
                   order, grace, checkout, releasing>>

SettleCommit(r) ==
    /\ settling[r] = "called"
    /\ CommitReservations(r, TRUE)
    /\ settling' = [settling EXCEPT
                     ![r] = IF CanCommit(r, TRUE) THEN "ok" ELSE "refused"]
    /\ UNCHANGED <<rowsLive, slotLive, attached, source, stopped, order, grace,
                   checkout, releasing>>

\* The compare-and-set to "new" misses an order cancelled in the meantime.
SettleOpen(r) ==
    /\ settling[r] = "ok"
    /\ order' = [order EXCEPT
                  ![r] = IF order[r] \in {"paid", "late"} THEN "new" ELSE order[r]]
    /\ settling' = [settling EXCEPT ![r] = "no"]
    /\ UNCHANGED <<rows, rowsLive, slot, slotLive, attached, source, stopped,
                   grace, checkout, releasing>>

\* Capacity, promo code or bonuses are gone: cancel with a refund.
SettleRefund(r) ==
    /\ settling[r] \in {"ok", "refused"}
    /\ settling' = [settling EXCEPT ![r] = "no"]
    /\ IF order[r] \in {"paid", "late", "new"}
       THEN /\ order' = [order EXCEPT ![r] = "cancelled"]
            /\ releasing' = [releasing EXCEPT ![r] = TRUE]
       ELSE UNCHANGED <<order, releasing>>
    /\ UNCHANGED <<rows, rowsLive, slot, slotLive, attached, source, stopped,
                   grace, checkout>>

CrashSettle(r) ==
    /\ "crash" \in Incidents
    /\ settling[r] # "no"
    /\ settling' = [settling EXCEPT ![r] = "no"]
    /\ UNCHANGED <<rows, rowsLive, slot, slotLive, attached, source, stopped,
                   order, grace, checkout, releasing>>

AcceptOrder(r) ==
    /\ order[r] = "new"
    /\ order' = [order EXCEPT ![r] = "work"]
    /\ UNCHANGED <<rows, rowsLive, slot, slotLive, attached, source, stopped,
                   grace, checkout, settling, releasing>>

\* The customer (before acceptance), the kitchen or an administrator.
CancelOrder(r) ==
    /\ order[r] \in {"paid", "late", "new", "work"}
    /\ order' = [order EXCEPT ![r] = "cancelled"]
    /\ releasing' = [releasing EXCEPT ![r] = TRUE]
    /\ UNCHANGED <<rows, rowsLive, slot, slotLive, attached, source, stopped,
                   grace, checkout, settling>>

CompleteOrder(r) ==
    /\ order[r] = "work"
    /\ order' = [order EXCEPT ![r] = "completed"]
    /\ releasing' = [releasing EXCEPT ![r] = TRUE]
    /\ UNCHANGED <<rows, rowsLive, slot, slotLive, attached, source, stopped,
                   grace, checkout, settling>>

-------------------------------------------------------------------------------
(* release_order_reservations and reconcile_closed_order_reservations.         *)

CloseRow(status) == IF status \in {"active", "committed"} THEN "released" ELSE status

\* Trigger consume_completed_manual_stock: committed units of a completed order
\* left the display, so the counted stock goes down with the hold.
Consumed(r, p) ==
    IF order[r] = "completed" /\ rows[r][p] = "committed" THEN Quantity[r][p] ELSE 0

\* Mutant of ReleaseRows: the counted stock is not floored at zero.
ReleaseRowsUnfloored(r) ==
    /\ rows' = [rows EXCEPT ![r] = [p \in Products |-> CloseRow(rows[r][p])]]
    /\ slot' = [slot EXCEPT ![r] = CloseRow(slot[r])]
    /\ source' = [p \in Products |-> source[p] - Consumed(r, p)]

ReleaseRows(r) ==
    /\ rows' = [rows EXCEPT ![r] = [p \in Products |-> CloseRow(rows[r][p])]]
    /\ slot' = [slot EXCEPT ![r] = CloseRow(slot[r])]
    /\ source' = [p \in Products |->
         IF source[p] >= Consumed(r, p) THEN source[p] - Consumed(r, p) ELSE 0]

ReleaseOrder(r) ==
    /\ releasing[r]
    /\ IF attached[r] THEN ReleaseRows(r) ELSE UNCHANGED <<rows, slot, source>>
    /\ releasing' = [releasing EXCEPT ![r] = FALSE]
    /\ UNCHANGED <<rowsLive, slotLive, attached, stopped, order, grace, checkout,
                   settling>>

\* The call failed or its process stopped: the callers log it and go on.
LoseRelease(r) ==
    /\ "lostRelease" \in Incidents
    /\ releasing[r]
    /\ releasing' = [releasing EXCEPT ![r] = FALSE]
    /\ UNCHANGED <<rows, rowsLive, slot, slotLive, attached, source, stopped,
                   order, grace, checkout, settling>>

\* Mutant of Closed: only unpaid orders are swept.
ClosedUnpaidOnly(r) == order[r] \in {"completed", "lapsed", "unpaid"}

Closed(r) ==
    \/ order[r] \in {"completed", "cancelled", "lapsed", "unpaid"}
    \/ order[r] = "late" /\ ~grace[r]

ReconcileClosed(r) ==
    /\ attached[r]
    /\ Closed(r)
    /\ slot[r] \in {"active", "committed"}
         \/ \E p \in Cart(r) : rows[r][p] \in {"active", "committed"}
    /\ ReleaseRows(r)
    /\ UNCHANGED <<rowsLive, slotLive, attached, stopped, order, grace, checkout,
                   settling, releasing>>

-------------------------------------------------------------------------------
(* Time and the branch staff.                                                  *)

RowsLapse(r) ==
    /\ rowsLive[r]
    /\ rowsLive' = [rowsLive EXCEPT ![r] = FALSE]
    /\ UNCHANGED <<rows, slot, slotLive, attached, source, stopped, order, grace,
                   checkout, settling, releasing>>

SlotLapse(r) ==
    /\ slotLive[r]
    /\ slotLive' = [slotLive EXCEPT ![r] = FALSE]
    /\ UNCHANGED <<rows, rowsLive, slot, attached, source, stopped, order, grace,
                   checkout, settling, releasing>>

GraceEnds(r) ==
    /\ grace[r]
    /\ grace' = [grace EXCEPT ![r] = FALSE]
    /\ UNCHANGED <<rows, rowsLive, slot, slotLive, attached, source, stopped,
                   order, checkout, settling, releasing>>

Recount(p) ==
    /\ "recount" \in Incidents
    /\ \E n \in 0..MaxStock : n # source[p] /\ source' = [source EXCEPT ![p] = n]
    /\ UNCHANGED <<rows, rowsLive, slot, slotLive, attached, stopped, order,
                   grace, checkout, settling, releasing>>

ToggleStop(p) ==
    /\ "manualStop" \in Incidents
    /\ stopped' = IF p \in stopped THEN stopped \ {p} ELSE stopped \cup {p}
    /\ UNCHANGED <<rows, rowsLive, slot, slotLive, attached, source, order,
                   grace, checkout, settling, releasing>>

-------------------------------------------------------------------------------
RequestStep(r) ==
    \/ ReserveInventory(r) \/ ReserveSlot(r) \/ CheckoutFails(r)
    \/ CreateOrder(r) \/ AttachOrder(r) \/ UndoRows(r) \/ UndoSlot(r)
    \/ FailCheckout(r) \/ CrashCheckout(r) \/ ConfirmCheckout(r)
    \/ PayOrder(r) \/ OrderLapses(r) \/ CleanUpUnpaid(r)
    \/ SettleStart(r) \/ SettleCommit(r) \/ SettleOpen(r) \/ SettleRefund(r)
    \/ CrashSettle(r) \/ AcceptOrder(r) \/ CancelOrder(r) \/ CompleteOrder(r)
    \/ ReleaseOrder(r) \/ LoseRelease(r) \/ ReconcileClosed(r)
    \/ RowsLapse(r) \/ SlotLapse(r) \/ GraceEnds(r)

Next ==
    \/ \E r \in Requests : RequestStep(r)
    \/ \E p \in Products : Recount(p) \/ ToggleStop(p)

Spec == Init /\ [][Next]_vars

\* Time passes, and the reservation-reconciliation worker keeps running.
Fairness ==
    \A r \in Requests :
        /\ WF_vars(RowsLapse(r))
        /\ WF_vars(SlotLapse(r))
        /\ WF_vars(GraceEnds(r))
        /\ WF_vars(ReconcileClosed(r))

FairSpec == Spec /\ Fairness

-------------------------------------------------------------------------------
(* Properties.                                                                 *)

\* No step of any checkout, commit or worker makes the branch promise more
\* units of a product than it has counted, the walk-in unit included: a unit is
\* newly held (reserved, or reacquired by a late payment) only if it fits.
\* (A recount may drop below what is already promised; nothing is added then.)
NeverOversell ==
    [][\A p \in Products : Held(p)' > Held(p) => Held(p)' + Step <= source'[p]]_vars

\* A slot is never shared by more orders than its capacity, whatever mix of
\* reservations, expirations, late reacquisitions and strict commits happened.
SlotsNeverOverbooked ==
    \A s \in Slots : Cardinality(SlotHolders(Requests, s)) <= SlotCapacity

\* An order is never left with part of its cart or its slot committed: two
\* tables and several rows move together through every commit and release.
NeverHalfCommitted ==
    \A r \in Requests :
        (slot[r] = "committed" \/ \E p \in Cart(r) : rows[r][p] = "committed")
            => AllCommitted(r)

\* Capacity of a completed or cancelled order comes back and stays back, even
\* when its release call is lost or a settlement commits after the cancel.
ClosedOrdersReleaseCapacity ==
    \A r \in Requests :
        order[r] \in {"completed", "cancelled"} ~> [](~HoldsCapacity(r))

\* Nobody's abandoned checkout or unpaid order keeps its slot or its units for
\* good: they lapse by themselves unless the order is paid.
AbandonedCapacityReturns ==
    \A r \in Requests :
        LET unpaid == order[r] \in {"none", "pending", "lapsed", "unpaid"}
            served == order[r] \in {"paid", "late", "new", "work"} IN
        /\ unpaid ~> (~SlotHeld(r) \/ served)
        /\ unpaid ~> ((\A p \in Cart(r) : ~RowHeld(r, p)) \/ served)
===============================================================================
