------------------------ MODULE StockReservationProofs ------------------------
(* What StockReservation keeps for any number of checkouts, products and slots, *)
(* any cart, any stock and any capacity.                                        *)
EXTENDS StockReservation, FiniteSetTheorems, TLAPS

\* Every value a transaction or a handler writes is one its column may hold; in
\* particular consuming a completed order never drives source_quantity below 0.
THEOREM TypeCorrect == Spec => []TypeOK
<1>1. Init => TypeOK
  BY StockAssumption DEF Init, TypeOK, RowStatus, Phase, CheckoutStep
<1>2. TypeOK /\ [Next]_vars => TypeOK'
  <2> SUFFICES ASSUME TypeOK, [Next]_vars PROVE TypeOK'
    OBVIOUS
  <2> USE StockAssumption DEF TypeOK, RowStatus, Phase, CheckoutStep
  <2>1. ASSUME NEW r \in Requests, ReserveInventory(r) PROVE TypeOK'
    BY <2>1 DEF ReserveInventory, SweptRows
  <2>2. ASSUME NEW r \in Requests, ReserveSlot(r) PROVE TypeOK'
    BY <2>2 DEF ReserveSlot, SweptSlots
  <2>3. ASSUME NEW r \in Requests, CheckoutFails(r) \/ CreateOrder(r) \/ AttachOrder(r)
        PROVE TypeOK'
    BY <2>3 DEF CheckoutFails, CreateOrder, AttachOrder
  <2>4. ASSUME NEW r \in Requests,
               UndoRows(r) \/ UndoSlot(r) \/ FailCheckout(r) \/ CrashCheckout(r)
        PROVE TypeOK'
    <3>1. CASE UndoRows(r) BY <3>1 DEF UndoRows
    <3>2. CASE UndoSlot(r) BY <3>2 DEF UndoSlot
    <3>3. CASE FailCheckout(r) BY <3>3 DEF FailCheckout
    <3>4. CASE CrashCheckout(r) BY <3>4 DEF CrashCheckout
    <3> QED BY <2>4, <3>1, <3>2, <3>3, <3>4
  <2>5. ASSUME NEW r \in Requests, NEW reacquire \in BOOLEAN, CommitReservations(r, reacquire)
        PROVE /\ rows' \in [Requests -> [Products -> RowStatus]]
              /\ slot' \in [Requests -> RowStatus]
    <3>1. CASE CanCommit(r, reacquire)
      <4>1. rows' = [rows EXCEPT ![r] = [p \in Products |->
                       IF p \in Cart(r) THEN "committed" ELSE rows[r][p]]]
        BY <2>5, <3>1, Zenon DEF CommitReservations
      <4>2. slot' = [slot EXCEPT ![r] = "committed"]
        BY <2>5, <3>1, Zenon DEF CommitReservations
      <4> QED BY <4>1, <4>2
    <3>2. CASE ~CanCommit(r, reacquire) /\ UNCHANGED <<rows, slot>>
      BY <3>2
    <3>3. ASSUME NEW closed \in {"released", "expired"},
                 rows' = [rows EXCEPT ![r] = [p \in Products |->
                            IF rows[r][p] = "active" THEN closed ELSE rows[r][p]]],
                 slot' = [slot EXCEPT ![r] = IF slot[r] = "active" THEN closed ELSE slot[r]]
          PROVE /\ rows' \in [Requests -> [Products -> RowStatus]]
                /\ slot' \in [Requests -> RowStatus]
      BY <3>3
    <3> QED BY <2>5, <3>1, <3>2, <3>3, Zenon DEF CommitReservations
  <2>6. ASSUME NEW r \in Requests, ConfirmCheckout(r) PROVE TypeOK'
    BY <2>5, <2>6 DEF ConfirmCheckout
  <2>7. ASSUME NEW r \in Requests, SettleCommit(r) PROVE TypeOK'
    BY <2>5, <2>7 DEF SettleCommit
  <2>8. ASSUME NEW r \in Requests,
               \/ PayOrder(r) \/ OrderLapses(r) \/ CleanUpUnpaid(r) \/ AcceptOrder(r)
               \/ CancelOrder(r) \/ CompleteOrder(r)
        PROVE TypeOK'
    BY <2>8 DEF PayOrder, OrderLapses, CleanUpUnpaid, AcceptOrder, CancelOrder,
                CompleteOrder
  <2>9. ASSUME NEW r \in Requests,
               \/ SettleStart(r) \/ SettleOpen(r) \/ SettleRefund(r) \/ CrashSettle(r)
               \/ LoseRelease(r) \/ RowsLapse(r) \/ SlotLapse(r) \/ GraceEnds(r)
        PROVE TypeOK'
    BY <2>9 DEF SettleStart, SettleOpen, SettleRefund, CrashSettle, LoseRelease,
                RowsLapse, SlotLapse, GraceEnds
  <2>10. ASSUME NEW r \in Requests, ReleaseRows(r)
         PROVE /\ rows' \in [Requests -> [Products -> RowStatus]]
               /\ slot' \in [Requests -> RowStatus]
               /\ source' \in [Products -> Nat]
    <3>1. \A p \in Products : Consumed(r, p) \in Nat
      BY DEF Consumed
    <3>2. \A n, c \in Nat : (IF n >= c THEN n - c ELSE 0) \in Nat
      OBVIOUS
    <3>3. source' \in [Products -> Nat]
      BY <2>10, <3>1, <3>2 DEF ReleaseRows
    <3> QED BY <2>10, <3>3 DEF ReleaseRows, CloseRow
  <2>11. ASSUME NEW r \in Requests, ReleaseOrder(r) PROVE TypeOK'
    BY <2>10, <2>11 DEF ReleaseOrder
  <2>12. ASSUME NEW r \in Requests, ReconcileClosed(r) PROVE TypeOK'
    BY <2>10, <2>12 DEF ReconcileClosed
  <2>13. ASSUME NEW p \in Products, Recount(p) \/ ToggleStop(p) PROVE TypeOK'
    BY <2>13 DEF Recount, ToggleStop
  <2>14. CASE UNCHANGED vars
    BY <2>14 DEF vars
  <2> QED
    BY <2>1, <2>2, <2>3, <2>4, <2>6, <2>7, <2>8, <2>9, <2>11, <2>12, <2>13, <2>14
    DEF Next, RequestStep
<1> QED BY <1>1, <1>2, PTL DEF Spec

-------------------------------------------------------------------------------
(* Slots.                                                                      *)

\* A step that gives no checkout a slot cannot overbook one.
LEMMA NoSlotTaken ==
    ASSUME SlotsNeverOverbooked, \A q \in Requests : SlotHeld(q)' => SlotHeld(q)
    PROVE  SlotsNeverOverbooked'
<1> SUFFICES ASSUME NEW s \in Slots
             PROVE  Cardinality(SlotHolders(Requests, s))' <= SlotCapacity
  BY DEF SlotsNeverOverbooked
<1>1. SlotHolders(Requests, s)' \subseteq SlotHolders(Requests, s)
  BY DEF SlotHolders
<1>2. IsFiniteSet(SlotHolders(Requests, s))
  BY StockAssumption, FS_Subset DEF SlotHolders
<1>3. /\ Cardinality(SlotHolders(Requests, s)') <= Cardinality(SlotHolders(Requests, s))
      /\ Cardinality(SlotHolders(Requests, s)') \in Nat
      /\ Cardinality(SlotHolders(Requests, s)) \in Nat
  BY <1>1, <1>2, FS_Subset, FS_CardinalityType
<1> QED BY <1>3, StockAssumption DEF SlotsNeverOverbooked

\* A step that gives a slot to one checkout only, and only if it fits beside
\* the others, does not overbook it either.
LEMMA OneSlotTaken ==
    ASSUME SlotsNeverOverbooked, NEW r \in Requests, SlotFits(r),
           \A q \in Requests \ {r} : SlotHeld(q)' => SlotHeld(q)
    PROVE  SlotsNeverOverbooked'
<1> SUFFICES ASSUME NEW s \in Slots
             PROVE  Cardinality(SlotHolders(Requests, s)') <= SlotCapacity
  BY DEF SlotsNeverOverbooked
<1> DEFINE others == SlotHolders(Requests \ {r}, s)
<1>1. /\ IsFiniteSet(others)
      /\ IsFiniteSet(SlotHolders(Requests, s))
  BY StockAssumption, FS_Subset DEF SlotHolders
<1>2. CASE SlotOf[r] = s
  <2>1. SlotHolders(Requests, s)' \subseteq others \cup {r}
    BY DEF SlotHolders
  <2>2. /\ IsFiniteSet(others \cup {r})
        /\ Cardinality(others \cup {r}) <= Cardinality(others) + 1
    <3> HIDE DEF others
    <3>1. Cardinality(others) \in Nat
      BY <1>1, FS_CardinalityType
    <3>2. /\ IsFiniteSet(others \cup {r})
          /\ Cardinality(others \cup {r}) =
               IF r \in others THEN Cardinality(others) ELSE Cardinality(others) + 1
      BY <1>1, FS_AddElement
    <3> QED BY <3>1, <3>2
  <2>3. /\ Cardinality(SlotHolders(Requests, s)') <= Cardinality(others \cup {r})
        /\ Cardinality(SlotHolders(Requests, s)') \in Nat
        /\ Cardinality(others \cup {r}) \in Nat
        /\ Cardinality(others) \in Nat
    BY <1>1, <2>1, <2>2, FS_Subset, FS_CardinalityType
  <2>4. Cardinality(others) < SlotCapacity
    BY <1>2 DEF SlotFits
  <2> QED BY <2>2, <2>3, <2>4, StockAssumption
<1>3. CASE SlotOf[r] # s
  <2>1. SlotHolders(Requests, s)' \subseteq SlotHolders(Requests, s)
    BY <1>3 DEF SlotHolders
  <2>2. /\ Cardinality(SlotHolders(Requests, s)') <= Cardinality(SlotHolders(Requests, s))
        /\ Cardinality(SlotHolders(Requests, s)') \in Nat
        /\ Cardinality(SlotHolders(Requests, s)) \in Nat
    BY <1>1, <2>1, FS_Subset, FS_CardinalityType
  <2> QED BY <2>2, StockAssumption DEF SlotsNeverOverbooked
<1> QED BY <1>2, <1>3

\* commit_order_reservations, strict or reacquiring, takes a slot for its own
\* order only, and only after counting the others.
LEMMA CommitKeepsSlots ==
    ASSUME TypeOK, SlotsNeverOverbooked, NEW r \in Requests, NEW reacquire \in BOOLEAN,
           CommitReservations(r, reacquire), UNCHANGED slotLive
    PROVE  SlotsNeverOverbooked'
<1>1. CASE CanCommit(r, reacquire)
  <2>1. slot' = [slot EXCEPT ![r] = "committed"]
    BY <1>1, Zenon DEF CommitReservations
  <2>2. \A q \in Requests \ {r} : SlotHeld(q)' => SlotHeld(q)
    BY <2>1 DEF SlotHeld, TypeOK
  <2>3. CASE slot[r] = "committed"
    <3>1. \A q \in Requests : SlotHeld(q)' => SlotHeld(q)
      BY <2>2, <2>3 DEF SlotHeld
    <3> QED BY <3>1, NoSlotTaken
  <2>4. CASE slot[r] # "committed"
    <3>1. SlotFits(r)
      BY <1>1, <2>4 DEF CanCommit, AllCommitted, CapacityLeft
    <3> QED BY <2>2, <3>1, OneSlotTaken
  <2> QED BY <2>3, <2>4
<1>2. ASSUME NEW closed \in {"released", "expired"},
             slot' = [slot EXCEPT ![r] = IF slot[r] = "active" THEN closed ELSE slot[r]]
      PROVE SlotsNeverOverbooked'
  <2>1. \A q \in Requests : SlotHeld(q)' => SlotHeld(q)
    BY <1>2 DEF SlotHeld, TypeOK
  <2> QED BY <2>1, NoSlotTaken
<1>3. CASE UNCHANGED slot
  <2>1. \A q \in Requests : SlotHeld(q)' => SlotHeld(q)
    BY <1>3 DEF SlotHeld
  <2> QED BY <2>1, NoSlotTaken
<1> QED BY <1>1, <1>2, <1>3, Zenon DEF CommitReservations

\* A bucket never serves more orders than its capacity, however many checkouts,
\* late payments and sweeps run against each other.
THEOREM SlotsSafe == Spec => []SlotsNeverOverbooked
<1>1. Init => SlotsNeverOverbooked
  <2> SUFFICES ASSUME Init, NEW s \in Slots
               PROVE  Cardinality(SlotHolders(Requests, s)) <= SlotCapacity
    BY DEF SlotsNeverOverbooked
  <2>1. SlotHolders(Requests, s) = {}
    BY DEF Init, SlotHolders, SlotHeld
  <2> QED BY <2>1, FS_EmptySet, StockAssumption
<1>2. TypeOK /\ SlotsNeverOverbooked /\ [Next]_vars => SlotsNeverOverbooked'
  <2> SUFFICES ASSUME TypeOK, SlotsNeverOverbooked, [Next]_vars
               PROVE  SlotsNeverOverbooked'
    OBVIOUS
  <2>1. ASSUME NEW r \in Requests, ReserveSlot(r) PROVE SlotsNeverOverbooked'
    <3>1. \A q \in Requests \ {r} : SlotHeld(q)' => SlotHeld(q)
      BY <2>1 DEF ReserveSlot, SweptSlots, SlotHeld, TypeOK
    <3>2. CASE slot[r] = "committed"
      <4>1. SlotHeld(r)
        BY <3>2 DEF SlotHeld
      <4> QED BY <3>1, <4>1, NoSlotTaken
    <3>3. CASE SlotFits(r)
      BY <3>1, <3>3, OneSlotTaken
    <3> QED BY <2>1, <3>2, <3>3 DEF ReserveSlot
  <2>2. ASSUME NEW r \in Requests, ConfirmCheckout(r) \/ SettleCommit(r)
        PROVE SlotsNeverOverbooked'
    BY <2>2, CommitKeepsSlots DEF ConfirmCheckout, SettleCommit
  <2>3. ASSUME NEW r \in Requests, UndoSlot(r) PROVE SlotsNeverOverbooked'
    <3>1. \A q \in Requests : SlotHeld(q)' => SlotHeld(q)
      BY <2>3 DEF UndoSlot, SlotHeld, TypeOK
    <3> QED BY <3>1, NoSlotTaken
  <2>4. ASSUME NEW r \in Requests, ReleaseOrder(r) \/ ReconcileClosed(r)
        PROVE SlotsNeverOverbooked'
    <3>1. UNCHANGED slot \/ slot' = [slot EXCEPT ![r] = CloseRow(slot[r])]
      BY <2>4 DEF ReleaseOrder, ReconcileClosed, ReleaseRows
    <3>2. UNCHANGED slotLive
      BY <2>4 DEF ReleaseOrder, ReconcileClosed
    <3>3. \A q \in Requests : SlotHeld(q)' => SlotHeld(q)
      BY <3>1, <3>2 DEF CloseRow, SlotHeld, TypeOK
    <3> QED BY <3>3, NoSlotTaken
  <2>5. ASSUME NEW r \in Requests, SlotLapse(r) PROVE SlotsNeverOverbooked'
    <3>1. \A q \in Requests : SlotHeld(q)' => SlotHeld(q)
      BY <2>5 DEF SlotLapse, SlotHeld, TypeOK
    <3> QED BY <3>1, NoSlotTaken
  <2>6. CASE UNCHANGED <<slot, slotLive>>
    <3>1. \A q \in Requests : SlotHeld(q)' => SlotHeld(q)
      BY <2>6 DEF SlotHeld
    <3> QED BY <3>1, NoSlotTaken
  <2>7. ASSUME NEW r \in Requests, RequestStep(r) PROVE SlotsNeverOverbooked'
    BY <2>1, <2>2, <2>3, <2>4, <2>5, <2>6, <2>7
    DEF RequestStep, ReserveInventory, CheckoutFails, CreateOrder, AttachOrder,
        UndoRows, FailCheckout, CrashCheckout, PayOrder, OrderLapses, CleanUpUnpaid,
        SettleStart, SettleOpen, SettleRefund, CrashSettle, AcceptOrder, CancelOrder,
        CompleteOrder, LoseRelease, RowsLapse, GraceEnds
  <2> QED
    BY <2>6, <2>7 DEF Next, Recount, ToggleStop, vars
<1> QED BY <1>1, <1>2, TypeCorrect, PTL DEF Spec

-------------------------------------------------------------------------------
(* Units.                                                                      *)

LEMMA UnitsFinite ==
    ASSUME NEW R \in SUBSET Requests, NEW p \in Products
    PROVE  IsFiniteSet(Units(R, p)) /\ Cardinality(Units(R, p)) \in Nat
<1>1. IsFiniteSet(1..MaxQuantity)
  BY StockAssumption, FS_Interval
<1>2. IsFiniteSet(R)
  BY StockAssumption, FS_Subset
<1>3. IsFiniteSet(R \X (1..MaxQuantity))
  BY <1>1, <1>2, FS_Product
<1>4. Units(R, p) \subseteq R \X (1..MaxQuantity)
  BY DEF Units
<1>5. IsFiniteSet(Units(R, p))
  BY <1>3, <1>4, FS_Subset
<1> QED BY <1>5, FS_CardinalityType

\* A step that makes no checkout hold a unit of p does not add to what is held.
LEMMA NoUnitTaken ==
    ASSUME NEW p \in Products,
           \A q \in Requests : Quantity[q][p] > 0 /\ RowHeld(q, p)' => RowHeld(q, p)
    PROVE  ~(Held(p)' > Held(p))
<1>1. Units(Requests, p)' \subseteq Units(Requests, p)
  <2> SUFFICES ASSUME NEW u \in Requests \X (1..MaxQuantity),
                      u[2] <= Quantity[u[1]][p], RowHeld(u[1], p)'
               PROVE  RowHeld(u[1], p)
    BY DEF Units
  <2>1. u[1] \in Requests /\ u[2] \in 1..MaxQuantity
    OBVIOUS
  <2>2. Quantity[u[1]][p] \in 0..MaxQuantity
    BY <2>1, StockAssumption
  <2>3. Quantity[u[1]][p] > 0
    BY <2>1, <2>2, StockAssumption
  <2> QED BY <2>1, <2>3
<1>2. /\ IsFiniteSet(Units(Requests, p))
      /\ Cardinality(Units(Requests, p)) \in Nat
  BY UnitsFinite
<1>3. /\ Cardinality(Units(Requests, p)') <= Cardinality(Units(Requests, p))
      /\ Cardinality(Units(Requests, p)') \in Nat
  BY <1>1, <1>2, FS_Subset, FS_CardinalityType
<1> QED BY <1>2, <1>3 DEF Held

\* A step that makes one checkout hold units of p, after counting the others and
\* the walk-in buffer, leaves the buffer free.
LEMMA UnitsTaken ==
    ASSUME TypeOK, NEW r \in Requests, NEW p \in Products, Fits(r, p, Step),
           \A q \in Requests \ {r} : RowHeld(q, p)' => RowHeld(q, p)
    PROVE  Held(p)' + Step <= source[p]
<1> DEFINE others == Units(Requests \ {r}, p)
           mine == {r} \X (1..Quantity[r][p])
<1>1. Units(Requests, p)' \subseteq others \cup mine
  <2> SUFFICES ASSUME NEW u \in Requests \X (1..MaxQuantity),
                      u[2] <= Quantity[u[1]][p], RowHeld(u[1], p)', u \notin mine
               PROVE  u \in others
    BY DEF Units
  <2>1. u[1] \in Requests /\ u[2] \in 1..MaxQuantity /\ u = <<u[1], u[2]>>
    OBVIOUS
  <2>2. Quantity[u[1]][p] \in 0..MaxQuantity
    BY <2>1, StockAssumption
  <2>3. u[1] # r
    <3> SUFFICES ASSUME u[1] = r PROVE FALSE
      OBVIOUS
    <3>1. u[2] \in 1..Quantity[r][p]
      BY <2>1, <2>2, StockAssumption
    <3> QED BY <2>1, <3>1
  <2> QED BY <2>1, <2>3 DEF Units
<1>2. IsFiniteSet(others) /\ Cardinality(others) \in Nat
  BY UnitsFinite
<1>3. Quantity[r][p] \in Nat
  BY StockAssumption
<1>4. IsFiniteSet(mine) /\ Cardinality(mine) = Quantity[r][p]
  <2>1. IsFiniteSet(1..Quantity[r][p]) /\ Cardinality(1..Quantity[r][p]) = Quantity[r][p]
    <3> DEFINE n == Quantity[r][p]
    <3> HIDE DEF n
    <3>1. n \in Nat
      BY <1>3 DEF n
    <3>2. /\ IsFiniteSet(1..n)
          /\ Cardinality(1..n) = IF 1 > n THEN 0 ELSE n - 1 + 1
      BY <3>1, FS_Interval
    <3>3. IsFiniteSet(1..n) /\ Cardinality(1..n) = n
      BY <3>1, <3>2
    <3> QED BY <3>3 DEF n
  <2>2. IsFiniteSet({r}) /\ Cardinality({r}) = 1
    BY FS_Singleton
  <2>3. IsFiniteSet(mine) /\ Cardinality(mine) = 1 * Quantity[r][p]
    BY <2>1, <2>2, FS_Product
  <2> QED BY <1>3, <2>3
<1>5. /\ IsFiniteSet(others \cup mine)
      /\ Cardinality(others \cup mine) <= Cardinality(others) + Quantity[r][p]
      /\ Cardinality(others \cup mine) \in Nat
  <2> HIDE DEF others, mine
  <2>1. /\ IsFiniteSet(others \cup mine)
        /\ Cardinality(others \cup mine) =
             Cardinality(others) + Cardinality(mine) - Cardinality(others \cap mine)
    BY <1>2, <1>4, FS_Union
  <2>2. Cardinality(others \cap mine) \in Nat
    <3>1. others \cap mine \in SUBSET others
      OBVIOUS
    <3>2. IsFiniteSet(others \cap mine)
      BY <1>2, <3>1, FS_Subset
    <3> QED BY <3>2, FS_CardinalityType
  <2>3. Cardinality(others \cup mine) \in Nat
    BY <2>1, FS_CardinalityType
  <2> QED BY <1>2, <1>3, <1>4, <2>1, <2>2, <2>3
<1>6. /\ Cardinality(Units(Requests, p)') <= Cardinality(others \cup mine)
      /\ Cardinality(Units(Requests, p)') \in Nat
  BY <1>1, <1>5, FS_Subset, FS_CardinalityType
<1>7. Cardinality(others) + Step + Quantity[r][p] <= source[p]
  BY DEF Fits
<1>8. source[p] \in Nat /\ Step \in Nat
  BY StockAssumption DEF TypeOK
<1> HIDE DEF others, mine
<1> QED BY <1>2, <1>3, <1>5, <1>6, <1>7, <1>8 DEF Held

\* commit_order_reservations asks for the buffer of every row that was not held
\* any more, so that a reacquired row is paid for like a new one.
LEMMA CommitNeverOversells ==
    ASSUME TypeOK, NEW r \in Requests, NEW reacquire \in BOOLEAN,
           CommitReservations(r, reacquire), UNCHANGED rowsLive,
           NEW p \in Products, Held(p)' > Held(p)
    PROVE  Held(p)' + Step <= source[p]
<1>1. CASE CanCommit(r, reacquire)
  <2>1. rows' = [rows EXCEPT ![r] = [x \in Products |->
                   IF x \in Cart(r) THEN "committed" ELSE rows[r][x]]]
    BY <1>1, Zenon DEF CommitReservations
  <2>2. \A q \in Requests \ {r} : RowHeld(q, p)' => RowHeld(q, p)
    BY <2>1 DEF RowHeld, TypeOK
  <2>3. CASE p \in Cart(r) /\ ~RowHeld(r, p)
    <3>1. Fits(r, p, CommitBuffer(r, p))
      BY <1>1, <2>3 DEF CanCommit, AllCommitted, CapacityLeft, RowHeld
    <3>2. CommitBuffer(r, p) = Step
      BY <2>3 DEF CommitBuffer, RowHeld
    <3> QED BY <2>2, <3>1, <3>2, UnitsTaken
  <2>4. CASE p \notin Cart(r) \/ RowHeld(r, p)
    <3>1. Quantity[r][p] > 0 => RowHeld(r, p)
      BY <2>4 DEF Cart
    <3>2. \A q \in Requests : Quantity[q][p] > 0 /\ RowHeld(q, p)' => RowHeld(q, p)
      BY <2>2, <3>1
    <3> QED BY <3>2, NoUnitTaken
  <2> QED BY <2>3, <2>4
<1>2. ASSUME NEW closed \in {"released", "expired"},
             rows' = [rows EXCEPT ![r] = [x \in Products |->
                        IF rows[r][x] = "active" THEN closed ELSE rows[r][x]]]
      PROVE FALSE
  <2>1. \A q \in Requests : RowHeld(q, p)' => RowHeld(q, p)
    BY <1>2 DEF RowHeld, TypeOK
  <2> QED BY <2>1, NoUnitTaken
<1>3. CASE UNCHANGED rows
  <2>1. \A q \in Requests : RowHeld(q, p)' => RowHeld(q, p)
    BY <1>3 DEF RowHeld
  <2> QED BY <2>1, NoUnitTaken
<1> QED BY <1>1, <1>2, <1>3, Zenon DEF CommitReservations

\* A step that adds to what is held counts the others and the walk-in unit first.
LEMMA NewUnitsFit ==
    ASSUME TypeOK, Next, NEW p \in Products, Held(p)' > Held(p)
    PROVE  Held(p)' + Step <= source'[p]
<1>1. ASSUME NEW r \in Requests, ReserveInventory(r)
      PROVE  Held(p)' + Step <= source'[p]
  <2>1. \A q \in Requests \ {r} : RowHeld(q, p)' => RowHeld(q, p)
    BY <1>1 DEF ReserveInventory, SweptRows, RowHeld, TypeOK
  <2>2. CASE p \in Cart(r) /\ ~RowHeld(r, p)
    <3>1. Fits(r, p, ReserveBuffer(r, p))
      BY <1>1, <2>2 DEF ReserveInventory, RowHeld
    <3>2. ReserveBuffer(r, p) = Step
      BY <2>2 DEF ReserveBuffer, RowHeld
    <3>3. source' = source
      BY <1>1 DEF ReserveInventory
    <3> QED BY <2>1, <3>1, <3>2, <3>3, UnitsTaken
  <2>3. CASE p \notin Cart(r) \/ RowHeld(r, p)
    <3>1. Quantity[r][p] > 0 => RowHeld(r, p)
      BY <2>3 DEF Cart
    <3>2. \A q \in Requests : Quantity[q][p] > 0 /\ RowHeld(q, p)' => RowHeld(q, p)
      BY <2>1, <3>1
    <3> QED BY <3>2, NoUnitTaken
  <2> QED BY <2>2, <2>3
<1>2. ASSUME NEW r \in Requests, ConfirmCheckout(r) \/ SettleCommit(r)
      PROVE  Held(p)' + Step <= source'[p]
  BY <1>2, CommitNeverOversells DEF ConfirmCheckout, SettleCommit
<1>3. ASSUME NEW r \in Requests, UndoRows(r)
      PROVE  FALSE
  <2>1. \A q \in Requests : RowHeld(q, p)' => RowHeld(q, p)
    BY <1>3 DEF UndoRows, RowHeld, TypeOK
  <2> QED BY <2>1, NoUnitTaken
<1>4. ASSUME NEW r \in Requests, ReleaseOrder(r) \/ ReconcileClosed(r)
      PROVE  FALSE
  <2>1. UNCHANGED rows
          \/ rows' = [rows EXCEPT ![r] = [x \in Products |-> CloseRow(rows[r][x])]]
    BY <1>4 DEF ReleaseOrder, ReconcileClosed, ReleaseRows
  <2>2. UNCHANGED rowsLive
    BY <1>4 DEF ReleaseOrder, ReconcileClosed
  <2>3. \A q \in Requests : RowHeld(q, p)' => RowHeld(q, p)
    <3>1. CASE UNCHANGED rows
      BY <2>2, <3>1 DEF RowHeld
    <3>2. CASE rows' = [rows EXCEPT ![r] = [x \in Products |-> CloseRow(rows[r][x])]]
      <4>1. \A q \in Requests \ {r} : rows'[q][p] = rows[q][p]
        BY <3>2 DEF TypeOK
      <4>2. rows'[r][p] = CloseRow(rows[r][p])
        BY <3>2 DEF TypeOK
      <4>3. rows'[r][p] \notin {"active", "committed"}
        BY <4>2 DEF CloseRow
      <4> QED BY <2>2, <4>1, <4>3 DEF RowHeld
    <3> QED BY <2>1, <3>1, <3>2
  <2> QED BY <2>3, NoUnitTaken
<1>5. ASSUME NEW r \in Requests, RowsLapse(r)
      PROVE  FALSE
  <2>1. \A q \in Requests : RowHeld(q, p)' => RowHeld(q, p)
    BY <1>5 DEF RowsLapse, RowHeld, TypeOK
  <2> QED BY <2>1, NoUnitTaken
<1>6. CASE UNCHANGED <<rows, rowsLive>>
  <2>1. \A q \in Requests : RowHeld(q, p)' => RowHeld(q, p)
    BY <1>6 DEF RowHeld
  <2> QED BY <2>1, NoUnitTaken
<1>7. ASSUME NEW r \in Requests, RequestStep(r)
      PROVE  Held(p)' + Step <= source'[p]
  BY <1>1, <1>2, <1>3, <1>4, <1>5, <1>6, <1>7
  DEF RequestStep, ReserveSlot, CheckoutFails, CreateOrder, AttachOrder, UndoSlot,
      FailCheckout, CrashCheckout, PayOrder, OrderLapses, CleanUpUnpaid,
      SettleStart, SettleOpen, SettleRefund, CrashSettle, AcceptOrder, CancelOrder,
      CompleteOrder, LoseRelease, SlotLapse, GraceEnds
<1> QED BY <1>6, <1>7 DEF Next, Recount, ToggleStop

\* Whatever the checkouts, payments, sweeps, recounts and stops do, a unit is
\* newly promised only while the counted stock covers it beside the walk-in unit.
THEOREM NoOversell == Spec => NeverOversell
<1>1. TypeOK /\ [Next]_vars =>
        [\A p \in Products : Held(p)' > Held(p) => Held(p)' + Step <= source'[p]]_vars
  BY NewUnitsFit
<1> QED BY <1>1, TypeCorrect, PTL DEF Spec, NeverOversell

-------------------------------------------------------------------------------
(* What was promised can be given.                                             *)

\* All that is promised is there, and the walk-in unit beside it.
PromisesCovered == \A p \in Products : Held(p) = 0 \/ Held(p) + Step <= source[p]

\* The order holds everything it reserved, and the staff has stopped none of it.
Secured(r) == attached[r] /\ CanAttach(r) /\ Cart(r) \cap stopped = {}

\* commit_order_reservations never refuses, even without reacquiring, an order
\* that still holds what its checkout reserved.
SecuredCommits == \A r \in Requests : Secured(r) => CanCommit(r, FALSE)

LEMMA HeldIsCount ==
    ASSUME NEW p \in Products
    PROVE  Held(p) \in Nat /\ Held(p)' \in Nat
<1>1. Held(p) \in Nat
  BY UnitsFinite DEF Held
<1>2. IsFiniteSet(Requests \X (1..MaxQuantity))
  <2>1. IsFiniteSet(1..MaxQuantity)
    BY StockAssumption, FS_Interval
  <2> QED BY <2>1, StockAssumption, FS_Product
<1>3. Units(Requests, p)' \subseteq Requests \X (1..MaxQuantity)
  BY DEF Units
<1>4. Cardinality(Units(Requests, p)') \in Nat
  <2>1. IsFiniteSet(Units(Requests, p)')
    BY <1>2, <1>3, FS_Subset
  <2> QED BY <2>1, FS_CardinalityType
<1> QED BY <1>1, <1>4 DEF Held

\* What an order holds, beside the others.
LEMMA OwnUnits ==
    ASSUME NEW r \in Requests, NEW p \in Products, RowHeld(r, p)
    PROVE  Held(p) = Cardinality(Units(Requests \ {r}, p)) + Quantity[r][p]
<1> DEFINE others == Units(Requests \ {r}, p)
           n == Quantity[r][p]
           mine == {r} \X (1..n)
<1>1. n \in 0..MaxQuantity /\ MaxQuantity \in Nat
  BY StockAssumption
<1>2. Units(Requests, p) = others \cup mine
  <2>1. Units(Requests, p) \subseteq others \cup mine
    <3> SUFFICES ASSUME NEW u \in Units(Requests, p), u[1] = r
                 PROVE  u \in mine
      BY DEF Units
    <3>1. u \in Requests \X (1..MaxQuantity) /\ u[2] <= n
      BY DEF Units
    <3>2. u = <<u[1], u[2]>> /\ u[2] \in 1..n
      BY <1>1, <3>1
    <3> QED BY <3>2
  <2>2. others \subseteq Units(Requests, p)
    BY DEF Units
  <2>3. mine \subseteq Units(Requests, p)
    <3> SUFFICES ASSUME NEW i \in 1..n PROVE <<r, i>> \in Units(Requests, p)
      OBVIOUS
    <3>1. i \in 1..MaxQuantity /\ i <= n
      BY <1>1
    <3> QED BY <3>1 DEF Units
  <2> QED BY <2>1, <2>2, <2>3
<1>3. others \cap mine = {}
  BY DEF Units
<1>4. IsFiniteSet(others) /\ Cardinality(others) \in Nat
  BY UnitsFinite
<1>5. IsFiniteSet(mine) /\ Cardinality(mine) = n
  <2> HIDE DEF n
  <2>1. IsFiniteSet(1..n) /\ Cardinality(1..n) = n
    BY <1>1, FS_Interval
  <2>2. IsFiniteSet({r}) /\ Cardinality({r}) = 1
    BY FS_Singleton
  <2>3. IsFiniteSet(mine) /\ Cardinality(mine) = 1 * n
    BY <2>1, <2>2, FS_Product
  <2> QED BY <1>1, <2>3
<1> HIDE DEF others, mine, n
<1>6. Cardinality(others \cup mine) = Cardinality(others) + Cardinality(mine) - 0
  BY <1>3, <1>4, <1>5, FS_Union, FS_EmptySet
<1>7. n \in Nat
  BY <1>1
<1> QED BY <1>2, <1>4, <1>5, <1>6, <1>7 DEF Held, others, n

\* A completed order takes from the counted stock no more than it gave up.
LEMMA ReleaseKeepsPromises ==
    ASSUME TypeOK, PromisesCovered, NEW r \in Requests, ReleaseRows(r), UNCHANGED rowsLive,
           NEW p \in Products, ~(Held(p)' > Held(p))
    PROVE  Held(p)' = 0 \/ Held(p)' + Step <= source'[p]
<1> DEFINE others == Units(Requests \ {r}, p)
<1>1. /\ Held(p) \in Nat /\ Held(p)' \in Nat /\ Cardinality(others) \in Nat
      /\ source[p] \in Nat /\ Step \in Nat /\ Quantity[r][p] \in Nat
  BY HeldIsCount, UnitsFinite, StockAssumption DEF TypeOK
<1>2. source'[p] = IF source[p] >= Consumed(r, p) THEN source[p] - Consumed(r, p) ELSE 0
  BY DEF ReleaseRows
<1>3. CASE Consumed(r, p) = 0
  BY <1>1, <1>2, <1>3 DEF PromisesCovered
<1>4. CASE Consumed(r, p) # 0
  <2>1. rows[r][p] = "committed" /\ Consumed(r, p) = Quantity[r][p]
    BY <1>4 DEF Consumed
  <2>2. Held(p) = Cardinality(others) + Quantity[r][p]
    BY <2>1, OwnUnits DEF RowHeld
  <2>3. Held(p)' <= Cardinality(others)
    <3>1. \A q \in Requests \ {r} : rows'[q][p] = rows[q][p]
      BY DEF ReleaseRows, TypeOK
    <3>2. ~RowHeld(r, p)'
      BY DEF ReleaseRows, CloseRow, RowHeld, TypeOK
    <3>3. Units(Requests, p)' \subseteq others
      BY <3>1, <3>2 DEF Units, RowHeld
    <3> QED BY <3>3, UnitsFinite, FS_Subset DEF Held
  <2>4. Held(p) + Step <= source[p]
    BY <1>1, <1>4, <2>1, <2>2 DEF PromisesCovered
  <2> HIDE DEF others
  <2> QED BY <1>1, <1>2, <2>1, <2>2, <2>3, <2>4
<1> QED BY <1>3, <1>4

\* Unless the stock is recounted, what is promised stays there to be given: the
\* floor of consume_completed_manual_stock is never needed.
THEOREM PromisesStayCovered ==
    ASSUME "recount" \notin Incidents
    PROVE  Spec => []PromisesCovered
<1>1. Init => PromisesCovered
  <2> SUFFICES ASSUME Init, NEW p \in Products PROVE Held(p) = 0
    BY DEF PromisesCovered
  <2>1. Units(Requests, p) = {}
    BY DEF Init, Units, RowHeld
  <2> QED BY <2>1, FS_EmptySet DEF Held
<1>2. TypeOK /\ PromisesCovered /\ [Next]_vars => PromisesCovered'
  <2> SUFFICES ASSUME TypeOK, PromisesCovered, [Next]_vars, NEW p \in Products
               PROVE  Held(p)' = 0 \/ Held(p)' + Step <= source'[p]
    BY DEF PromisesCovered
  <2>1. Held(p) \in Nat /\ Held(p)' \in Nat /\ source[p] \in Nat /\ Step \in Nat
    BY HeldIsCount, StockAssumption DEF TypeOK
  <2>2. CASE UNCHANGED vars
    <3>1. Held(p)' = Held(p)
      BY <2>2 DEF vars, Held, Units, RowHeld
    <3> QED BY <2>2, <3>1 DEF vars, PromisesCovered
  <2>3. CASE Next /\ Held(p)' > Held(p)
    BY <2>3, NewUnitsFit
  <2>4. CASE ~(Held(p)' > Held(p)) /\ UNCHANGED source
    BY <2>1, <2>4 DEF PromisesCovered
  <2>5. ASSUME NEW r \in Requests, ReleaseRows(r), UNCHANGED rowsLive, ~(Held(p)' > Held(p))
        PROVE  Held(p)' = 0 \/ Held(p)' + Step <= source'[p]
    BY <2>5, ReleaseKeepsPromises
  <2>6. ASSUME NEW r \in Requests, RequestStep(r)
        PROVE  \/ UNCHANGED source
               \/ ReleaseRows(r) /\ UNCHANGED rowsLive
    BY <2>6
    DEF RequestStep, ReserveInventory, ReserveSlot, CheckoutFails, CreateOrder, AttachOrder,
        UndoRows, UndoSlot, FailCheckout, CrashCheckout, ConfirmCheckout, PayOrder,
        OrderLapses, CleanUpUnpaid, SettleStart, SettleCommit, SettleOpen, SettleRefund,
        CrashSettle, AcceptOrder, CancelOrder, CompleteOrder, ReleaseOrder, LoseRelease,
        ReconcileClosed, RowsLapse, SlotLapse, GraceEnds
  <2>7. ASSUME NEW q \in Products, Recount(q) \/ ToggleStop(q) PROVE UNCHANGED source
    BY <2>7 DEF Recount, ToggleStop
  <2> QED BY <2>2, <2>3, <2>4, <2>5, <2>6, <2>7 DEF Next
<1> QED BY <1>1, <1>2, TypeCorrect, PTL DEF Spec

\* Nobody who pays in time is turned away for want of goods or of a place.
THEOREM PaidInTimeIsServed ==
    ASSUME "recount" \notin Incidents
    PROVE  Spec => []SecuredCommits
<1>1. ASSUME TypeOK, PromisesCovered, SlotsNeverOverbooked PROVE SecuredCommits
  <2> SUFFICES ASSUME NEW r \in Requests, Secured(r) PROVE CanCommit(r, FALSE)
    BY DEF SecuredCommits
  <2>1. attached[r] /\ SlotHeld(r) /\ \A p \in Cart(r) : RowHeld(r, p) /\ p \notin stopped
    BY DEF Secured, CanAttach
  <2>2. ~Lapsed(r) /\ ~Released(r)
    BY <2>1 DEF Lapsed, Released, SlotStale, RowStale, SlotHeld, RowHeld
  <2>3. ASSUME NEW p \in Cart(r), rows[r][p] # "committed"
        PROVE  Fits(r, p, CommitBuffer(r, p))
    <3> DEFINE others == Cardinality(Units(Requests \ {r}, p))
    <3>1. p \in Products /\ Quantity[r][p] \in Nat /\ Quantity[r][p] > 0 /\ Step \in Nat
      BY StockAssumption DEF Cart
    <3>2. others \in Nat /\ Held(p) = others + Quantity[r][p]
      BY <2>1, <3>1, OwnUnits, UnitsFinite
    <3>3. Held(p) + Step <= source[p] /\ source[p] \in Nat
      BY <1>1, <3>1, <3>2 DEF PromisesCovered, TypeOK
    <3>4. CommitBuffer(r, p) \in {0, Step}
      BY DEF CommitBuffer
    <3> HIDE DEF others
    <3>5. others + CommitBuffer(r, p) + Quantity[r][p] <= source[p]
      BY <3>1, <3>2, <3>3, <3>4
    <3> QED BY <3>5 DEF Fits, others
  <2>4. slot[r] # "committed" => SlotFits(r)
    <3> DEFINE all == SlotHolders(Requests, SlotOf[r])
               others == SlotHolders(Requests \ {r}, SlotOf[r])
    <3>1. r \in all /\ others = all \ {r}
      BY <2>1 DEF SlotHolders
    <3>2. IsFiniteSet(all) /\ SlotOf[r] \in Slots
      BY StockAssumption, FS_Subset DEF SlotHolders
    <3>3. Cardinality(all) <= SlotCapacity
      BY <1>1, <3>2 DEF SlotsNeverOverbooked
    <3> HIDE DEF all, others
    <3>4. /\ IsFiniteSet(others) /\ Cardinality(others) = Cardinality(all) - 1
          /\ Cardinality(all) \in Nat
      BY <3>1, <3>2, FS_RemoveElement, FS_CardinalityType
    <3>5. Cardinality(others) < SlotCapacity
      BY <3>3, <3>4, StockAssumption
    <3> QED BY <3>5 DEF SlotFits, others
  <2>5. CapacityLeft(r)
    BY <2>1, <2>3, <2>4 DEF CapacityLeft
  <2> QED BY <2>1, <2>2, <2>5 DEF CanCommit
<1> QED BY <1>1, TypeCorrect, SlotsSafe, PromisesStayCovered, PTL

-------------------------------------------------------------------------------
(* Commitment.                                                                 *)

\* A step that commits nothing and takes nothing back keeps orders whole.
LEMMA NothingCommitted ==
    ASSUME NeverHalfCommitted,
           \A q \in Requests : (slot[q] = "committed") = (slot'[q] = "committed"),
           \A q \in Requests : \A p \in Cart(q) :
               (rows[q][p] = "committed") = (rows'[q][p] = "committed")
    PROVE  NeverHalfCommitted'
BY DEF NeverHalfCommitted, AllCommitted, Cart

\* Only the order of the call is touched: all of it is committed, or what was
\* still active is closed.
LEMMA CommitIsWhole ==
    ASSUME TypeOK, NeverHalfCommitted, NEW r \in Requests, NEW reacquire \in BOOLEAN,
           CommitReservations(r, reacquire)
    PROVE  NeverHalfCommitted'
<1>1. CASE CanCommit(r, reacquire)
  <2>1. /\ rows' = [rows EXCEPT ![r] = [p \in Products |->
                      IF p \in Cart(r) THEN "committed" ELSE rows[r][p]]]
        /\ slot' = [slot EXCEPT ![r] = "committed"]
    BY <1>1, Zenon DEF CommitReservations
  <2>2. /\ slot'[r] = "committed"
        /\ \A p \in Cart(r) : rows'[r][p] = "committed"
    BY <2>1 DEF TypeOK, Cart
  <2>3. \A q \in Requests \ {r} : slot'[q] = slot[q] /\ rows'[q] = rows[q]
    BY <2>1 DEF TypeOK
  <2> QED BY <2>2, <2>3 DEF NeverHalfCommitted, AllCommitted, Cart
<1>2. ASSUME NEW closed \in {"released", "expired"},
             rows' = [rows EXCEPT ![r] = [p \in Products |->
                        IF rows[r][p] = "active" THEN closed ELSE rows[r][p]]],
             slot' = [slot EXCEPT ![r] = IF slot[r] = "active" THEN closed ELSE slot[r]]
      PROVE NeverHalfCommitted'
  <2>1. \A q \in Requests : (slot[q] = "committed") = (slot'[q] = "committed")
    BY <1>2 DEF TypeOK
  <2>2. \A q \in Requests, p \in Products :
          (rows[q][p] = "committed") = (rows'[q][p] = "committed")
    BY <1>2 DEF TypeOK
  <2> QED BY <2>1, <2>2, NothingCommitted DEF Cart
<1>3. CASE UNCHANGED <<rows, slot>>
  BY <1>3, NothingCommitted
<1> QED BY <1>1, <1>2, <1>3, Zenon DEF CommitReservations

\* An order is committed as a whole or not at all, product rows and slot alike.
THEOREM CommitmentIsWhole == Spec => []NeverHalfCommitted
<1>1. Init => NeverHalfCommitted
  BY DEF Init, NeverHalfCommitted, Cart
<1>2. TypeOK /\ NeverHalfCommitted /\ [Next]_vars => NeverHalfCommitted'
  <2> SUFFICES ASSUME TypeOK, NeverHalfCommitted, [Next]_vars
               PROVE  NeverHalfCommitted'
    OBVIOUS
  <2>1. ASSUME NEW r \in Requests, ReserveInventory(r) PROVE NeverHalfCommitted'
    <3>1. \A q \in Requests, p \in Products :
            (rows[q][p] = "committed") = (rows'[q][p] = "committed")
      BY <2>1 DEF ReserveInventory, SweptRows, TypeOK
    <3>2. UNCHANGED slot
      BY <2>1 DEF ReserveInventory
    <3> QED BY <3>1, <3>2, NothingCommitted DEF Cart
  <2>2. ASSUME NEW r \in Requests, ReserveSlot(r) PROVE NeverHalfCommitted'
    <3>1. \A q \in Requests : (slot[q] = "committed") = (slot'[q] = "committed")
      BY <2>2 DEF ReserveSlot, SweptSlots, TypeOK
    <3>2. UNCHANGED rows
      BY <2>2 DEF ReserveSlot
    <3> QED BY <3>1, <3>2, NothingCommitted
  <2>3. ASSUME NEW r \in Requests, UndoRows(r) PROVE NeverHalfCommitted'
    <3>1. \A q \in Requests, p \in Products :
            (rows[q][p] = "committed") = (rows'[q][p] = "committed")
      BY <2>3 DEF UndoRows, TypeOK
    <3>2. UNCHANGED slot
      BY <2>3 DEF UndoRows
    <3> QED BY <3>1, <3>2, NothingCommitted DEF Cart
  <2>4. ASSUME NEW r \in Requests, UndoSlot(r) PROVE NeverHalfCommitted'
    <3>1. \A q \in Requests : (slot[q] = "committed") = (slot'[q] = "committed")
      BY <2>4 DEF UndoSlot, TypeOK
    <3>2. UNCHANGED rows
      BY <2>4 DEF UndoSlot
    <3> QED BY <3>1, <3>2, NothingCommitted
  <2>5. ASSUME NEW r \in Requests, ConfirmCheckout(r) \/ SettleCommit(r)
        PROVE NeverHalfCommitted'
    BY <2>5, CommitIsWhole DEF ConfirmCheckout, SettleCommit
  <2>6. ASSUME NEW r \in Requests, ReleaseRows(r) PROVE NeverHalfCommitted'
    <3>1. /\ slot'[r] # "committed"
          /\ \A p \in Products : rows'[r][p] # "committed"
      BY <2>6 DEF ReleaseRows, CloseRow, TypeOK
    <3>2. \A q \in Requests \ {r} : slot'[q] = slot[q] /\ rows'[q] = rows[q]
      BY <2>6 DEF ReleaseRows, TypeOK
    <3> QED BY <3>1, <3>2 DEF NeverHalfCommitted, AllCommitted, Cart
  <2>7. CASE UNCHANGED <<rows, slot>>
    BY <2>7, NothingCommitted
  <2>8. ASSUME NEW r \in Requests, ReleaseOrder(r) \/ ReconcileClosed(r)
        PROVE NeverHalfCommitted'
    BY <2>6, <2>7, <2>8 DEF ReleaseOrder, ReconcileClosed
  <2>9. ASSUME NEW r \in Requests, RequestStep(r) PROVE NeverHalfCommitted'
    BY <2>1, <2>2, <2>3, <2>4, <2>5, <2>7, <2>8, <2>9
    DEF RequestStep, CheckoutFails, CreateOrder, AttachOrder, FailCheckout,
        CrashCheckout, PayOrder, OrderLapses, CleanUpUnpaid, SettleStart, SettleOpen,
        SettleRefund, CrashSettle, AcceptOrder, CancelOrder, CompleteOrder,
        LoseRelease, RowsLapse, SlotLapse, GraceEnds
  <2> QED BY <2>7, <2>9 DEF Next, Recount, ToggleStop, vars
<1> QED BY <1>1, <1>2, TypeCorrect, PTL DEF Spec

-------------------------------------------------------------------------------
(* What a closed order may still take.                                         *)

\* r is given its slot, or units of its cart, that it did not hold.
TakesCapacity(r) ==
    \/ SlotHeld(r)' /\ ~SlotHeld(r)
    \/ \E p \in Cart(r) : RowHeld(r, p)' /\ ~RowHeld(r, p)

\* A completed or cancelled order takes capacity only by a settlement that had read
\* it before it closed, once; what is left for the reconciliation is what
\* such a settlement reacquired.
ClosedTakesOnlyBySettlement ==
    [][\A r \in Requests :
          order[r] \in {"completed", "cancelled"} /\ TakesCapacity(r)
              => settling[r] = "called" /\ settling'[r] # "called"]_vars

\* Where createPayment stands, and what it has attached.
Begun ==
    \A r \in Requests :
        /\ order[r] # "none" => checkout[r] \notin {"reserve", "slot", "order"}
        /\ attached[r] => slot[r] # "none" /\ \A p \in Cart(r) : rows[r][p] # "none"

\* A strict commit secures what is held and takes nothing.
LEMMA StrictTakesNothing ==
    ASSUME TypeOK, Begun, NEW r \in Requests, CommitReservations(r, FALSE),
           UNCHANGED <<rowsLive, slotLive>>, NEW q \in Requests
    PROVE  ~TakesCapacity(q)
<1>1. CASE CanCommit(r, FALSE)
  <2>1. /\ rows' = [rows EXCEPT ![r] = [p \in Products |->
                      IF p \in Cart(r) THEN "committed" ELSE rows[r][p]]]
        /\ slot' = [slot EXCEPT ![r] = "committed"]
    BY <1>1, Zenon DEF CommitReservations
  <2>2. attached[r] /\ (AllCommitted(r) \/ ~(Lapsed(r) \/ Released(r)))
    BY <1>1 DEF CanCommit
  <2>3. SlotHeld(r)
    <3>1. slot[r] \in RowStatus \ {"none"}
      BY <2>2 DEF Begun, TypeOK
    <3> QED BY <2>2, <3>1 DEF AllCommitted, Lapsed, Released, SlotStale, SlotHeld, RowStatus
  <2>4. \A p \in Cart(r) : RowHeld(r, p)
    <3> SUFFICES ASSUME NEW p \in Cart(r) PROVE RowHeld(r, p)
      OBVIOUS
    <3>1. rows[r][p] \in RowStatus \ {"none"}
      BY <2>2 DEF Begun, TypeOK, Cart
    <3> QED BY <2>2, <3>1 DEF AllCommitted, Lapsed, Released, RowStale, RowHeld, RowStatus
  <2>5. q # r => slot'[q] = slot[q] /\ rows'[q] = rows[q]
    BY <2>1 DEF TypeOK
  <2> QED BY <2>3, <2>4, <2>5 DEF TakesCapacity, SlotHeld, RowHeld
<1>2. ASSUME NEW closed \in {"released", "expired"},
             rows' = [rows EXCEPT ![r] = [p \in Products |->
                        IF rows[r][p] = "active" THEN closed ELSE rows[r][p]]],
             slot' = [slot EXCEPT ![r] = IF slot[r] = "active" THEN closed ELSE slot[r]]
      PROVE ~TakesCapacity(q)
  <2>1. SlotHeld(q)' => SlotHeld(q)
    BY <1>2 DEF TypeOK, SlotHeld
  <2>2. \A p \in Cart(q) : RowHeld(q, p)' => RowHeld(q, p)
    BY <1>2 DEF TypeOK, RowHeld, Cart
  <2> QED BY <2>1, <2>2 DEF TakesCapacity
<1>3. CASE UNCHANGED <<rows, slot>>
  BY <1>3 DEF TakesCapacity, SlotHeld, RowHeld
<1> QED BY <1>1, <1>2, <1>3, Zenon DEF CommitReservations

LEMMA BegunKeeps ==
    ASSUME TypeOK, Begun, [Next]_vars
    PROVE  Begun'
<1> SUFFICES ASSUME NEW q \in Requests
             PROVE  /\ order'[q] # "none" => checkout'[q] \notin {"reserve", "slot", "order"}
                    /\ attached'[q] => slot'[q] # "none"
                                          /\ \A p \in Cart(q) : rows'[q][p] # "none"
  BY DEF Begun, Cart
<1> DEFINE Stands == order'[q] # "none" => checkout'[q] \notin {"reserve", "slot", "order"}
           Kept == /\ slot[q] # "none" => slot'[q] # "none"
                   /\ \A p \in Cart(q) : rows[q][p] # "none" => rows'[q][p] # "none"
           Same == UNCHANGED attached
<1>0. /\ order[q] # "none" => checkout[q] \notin {"reserve", "slot", "order"}
      /\ attached[q] => slot[q] # "none" /\ \A p \in Cart(q) : rows[q][p] # "none"
  BY DEF Begun
<1>1. ASSUME Stands, Kept, Same
      PROVE  /\ order'[q] # "none" => checkout'[q] \notin {"reserve", "slot", "order"}
             /\ attached'[q] => slot'[q] # "none" /\ \A p \in Cart(q) : rows'[q][p] # "none"
  BY <1>0, <1>1
<1>2. ASSUME NEW r \in Requests, ReserveInventory(r) PROVE Stands /\ Kept /\ Same
  BY <1>0, <1>2 DEF ReserveInventory, SweptRows, TypeOK, Cart
<1>3. ASSUME NEW r \in Requests, ReserveSlot(r) PROVE Stands /\ Kept /\ Same
  BY <1>0, <1>3 DEF ReserveSlot, SweptSlots, TypeOK
<1>4. ASSUME NEW r \in Requests, AttachOrder(r)
      PROVE  /\ Stands /\ Kept
             /\ attached'[q] => attached[q] \/ (SlotHeld(q) /\ \A p \in Cart(q) : RowHeld(q, p))
  BY <1>0, <1>4 DEF AttachOrder, CanAttach, TypeOK
<1>5. ASSUME NEW r \in Requests, NEW reacquire \in BOOLEAN, CommitReservations(r, reacquire)
      PROVE  Kept
  <2>1. CASE /\ rows' = [rows EXCEPT ![r] = [p \in Products |->
                           IF p \in Cart(r) THEN "committed" ELSE rows[r][p]]]
             /\ slot' = [slot EXCEPT ![r] = "committed"]
    BY <2>1 DEF TypeOK, Cart
  <2>2. ASSUME NEW closed \in {"released", "expired"},
               rows' = [rows EXCEPT ![r] = [p \in Products |->
                          IF rows[r][p] = "active" THEN closed ELSE rows[r][p]]],
               slot' = [slot EXCEPT ![r] = IF slot[r] = "active" THEN closed ELSE slot[r]]
        PROVE Kept
    BY <2>2 DEF TypeOK, Cart
  <2>3. CASE UNCHANGED <<rows, slot>>
    BY <2>3
  <2> QED BY <1>5, <2>1, <2>2, <2>3, Zenon DEF CommitReservations
<1>6. ASSUME NEW r \in Requests, ConfirmCheckout(r) \/ SettleCommit(r)
      PROVE  Stands /\ Kept /\ Same
  <2>1. Kept
    BY <1>5, <1>6 DEF ConfirmCheckout, SettleCommit
  <2>2. Stands /\ Same
    BY <1>0, <1>6 DEF ConfirmCheckout, SettleCommit, TypeOK
  <2> QED BY <2>1, <2>2
<1>7. ASSUME NEW r \in Requests, ReleaseOrder(r) \/ ReconcileClosed(r)
      PROVE  Stands /\ Kept /\ Same
  BY <1>0, <1>7 DEF ReleaseOrder, ReconcileClosed, ReleaseRows, CloseRow, TypeOK, Cart
<1>8. ASSUME NEW r \in Requests, UndoRows(r) \/ UndoSlot(r) PROVE Stands /\ Kept /\ Same
  BY <1>0, <1>8 DEF UndoRows, UndoSlot, TypeOK, Cart
<1>9. ASSUME NEW r \in Requests,
             \/ CheckoutFails(r) \/ CreateOrder(r) \/ FailCheckout(r) \/ CrashCheckout(r)
             \/ PayOrder(r) \/ OrderLapses(r) \/ CleanUpUnpaid(r) \/ SettleOpen(r)
             \/ SettleRefund(r) \/ AcceptOrder(r) \/ CancelOrder(r) \/ CompleteOrder(r)
      PROVE  Stands /\ Kept /\ Same
  BY <1>0, <1>9
  DEF CheckoutFails, CreateOrder, FailCheckout, CrashCheckout, PayOrder, OrderLapses,
      CleanUpUnpaid, SettleOpen, SettleRefund, AcceptOrder, CancelOrder, CompleteOrder,
      TypeOK
<1>10. CASE UNCHANGED <<rows, slot, attached, order, checkout>>
  BY <1>0, <1>10
<1>11. ASSUME NEW r \in Requests, RequestStep(r)
       PROVE  /\ Stands /\ Kept
              /\ attached'[q] => attached[q] \/ (SlotHeld(q) /\ \A p \in Cart(q) : RowHeld(q, p))
  BY <1>2, <1>3, <1>4, <1>6, <1>7, <1>8, <1>9, <1>10, <1>11
  DEF RequestStep, SettleStart, CrashSettle, LoseRelease, RowsLapse, SlotLapse, GraceEnds
<1>12. SlotHeld(q) => slot[q] # "none"
  BY DEF SlotHeld
<1>13. \A p \in Cart(q) : RowHeld(q, p) => rows[q][p] # "none"
  BY DEF RowHeld
<1> QED BY <1>0, <1>10, <1>11, <1>12, <1>13 DEF Next, Recount, ToggleStop, vars

\* What a closed order has given back stays back, but for the one settlement that
\* was on its way: no checkout, sweep or strict commit takes it again.
THEOREM ClosedStaysReturned == Spec => ClosedTakesOnlyBySettlement
<1>1. Init => Begun
  BY DEF Init, Begun
<1>2. ASSUME TypeOK, Begun, [Next]_vars, NEW q \in Requests,
             order[q] \in {"completed", "cancelled"}, TakesCapacity(q)
      PROVE  settling[q] = "called" /\ settling'[q] # "called"
  <2>0. checkout[q] \notin {"reserve", "slot", "order"}
    BY <1>2 DEF Begun
  <2>1. ~UNCHANGED <<rows, rowsLive, slot, slotLive>>
    BY <1>2 DEF TakesCapacity, SlotHeld, RowHeld
  <2>2. PICK r \in Requests : RequestStep(r)
    BY <1>2, <2>1 DEF Next, Recount, ToggleStop, vars
  <2>3. ASSUME ~TakesCapacity(q) PROVE FALSE
    BY <1>2, <2>3
  <2>4. CASE ReserveInventory(r)
    <3>1. r # q /\ UNCHANGED <<slot, slotLive>>
      BY <2>0, <2>4 DEF ReserveInventory
    <3>2. \A p \in Cart(q) : RowHeld(q, p)' => RowHeld(q, p)
      BY <1>2, <2>4, <3>1 DEF ReserveInventory, SweptRows, RowHeld, TypeOK, Cart
    <3> QED BY <2>3, <3>1, <3>2 DEF TakesCapacity, SlotHeld
  <2>5. CASE ReserveSlot(r)
    <3>1. r # q /\ UNCHANGED <<rows, rowsLive>>
      BY <2>0, <2>5 DEF ReserveSlot
    <3>2. SlotHeld(q)' => SlotHeld(q)
      BY <1>2, <2>5, <3>1 DEF ReserveSlot, SweptSlots, SlotHeld, TypeOK
    <3> QED BY <2>3, <3>1, <3>2 DEF TakesCapacity, RowHeld
  <2>6. CASE ConfirmCheckout(r)
    <3>1. CommitReservations(r, FALSE) /\ UNCHANGED <<rowsLive, slotLive>>
      BY <2>6 DEF ConfirmCheckout
    <3> QED BY <1>2, <2>3, <3>1, StrictTakesNothing
  <2>7. CASE SettleCommit(r) /\ r # q
    <3>1. slot'[q] = slot[q] /\ rows'[q] = rows[q]
      <4>1. CASE /\ rows' = [rows EXCEPT ![r] = [p \in Products |->
                               IF p \in Cart(r) THEN "committed" ELSE rows[r][p]]]
                 /\ slot' = [slot EXCEPT ![r] = "committed"]
        BY <1>2, <2>7, <4>1 DEF TypeOK
      <4>2. CASE UNCHANGED <<rows, slot>>
        BY <4>2
      <4> QED BY <2>7, <4>1, <4>2, Zenon DEF SettleCommit, CommitReservations
    <3> QED BY <2>3, <2>7, <3>1 DEF SettleCommit, TakesCapacity, SlotHeld, RowHeld
  <2>8. CASE SettleCommit(q)
    BY <1>2, <2>8 DEF SettleCommit, TypeOK
  <2>9. CASE UndoRows(r) \/ UndoSlot(r)
    <3>1. SlotHeld(q)' => SlotHeld(q)
      BY <1>2, <2>9 DEF UndoRows, UndoSlot, SlotHeld, TypeOK
    <3>2. \A p \in Cart(q) : RowHeld(q, p)' => RowHeld(q, p)
      <4>1. CASE UndoRows(r)
        BY <1>2, <4>1 DEF UndoRows, RowHeld, TypeOK, Cart
      <4>2. CASE UndoSlot(r)
        BY <4>2 DEF UndoSlot, RowHeld
      <4> QED BY <2>9, <4>1, <4>2
    <3> QED BY <2>3, <3>1, <3>2 DEF TakesCapacity
  <2>10. CASE ReleaseOrder(r) \/ ReconcileClosed(r)
    <3>1. \/ UNCHANGED <<rows, slot>>
          \/ /\ rows' = [rows EXCEPT ![r] = [p \in Products |-> CloseRow(rows[r][p])]]
             /\ slot' = [slot EXCEPT ![r] = CloseRow(slot[r])]
      BY <2>10 DEF ReleaseOrder, ReconcileClosed, ReleaseRows
    <3>2. UNCHANGED <<rowsLive, slotLive>>
      BY <2>10 DEF ReleaseOrder, ReconcileClosed
    <3>3. SlotHeld(q)' => SlotHeld(q)
      BY <1>2, <3>1, <3>2 DEF CloseRow, SlotHeld, TypeOK
    <3>4. \A p \in Cart(q) : RowHeld(q, p)' => RowHeld(q, p)
      BY <1>2, <3>1, <3>2 DEF CloseRow, RowHeld, TypeOK, Cart
    <3> QED BY <2>3, <3>3, <3>4 DEF TakesCapacity
  <2>11. CASE RowsLapse(r) \/ SlotLapse(r)
    <3>1. SlotHeld(q)' => SlotHeld(q)
      BY <1>2, <2>11 DEF RowsLapse, SlotLapse, SlotHeld, TypeOK
    <3>2. \A p \in Cart(q) : RowHeld(q, p)' => RowHeld(q, p)
      BY <1>2, <2>11 DEF RowsLapse, SlotLapse, RowHeld, TypeOK, Cart
    <3> QED BY <2>3, <3>1, <3>2 DEF TakesCapacity
  <2> QED
    BY <2>1, <2>2, <2>4, <2>5, <2>6, <2>7, <2>8, <2>9, <2>10, <2>11
    DEF RequestStep, CheckoutFails, CreateOrder, AttachOrder, FailCheckout, CrashCheckout,
        PayOrder, OrderLapses, CleanUpUnpaid, SettleStart, SettleOpen, SettleRefund,
        CrashSettle, AcceptOrder, CancelOrder, CompleteOrder, LoseRelease, GraceEnds
<1>3. TypeOK /\ Begun /\ [Next]_vars =>
        [\A r \in Requests :
            order[r] \in {"completed", "cancelled"} /\ TakesCapacity(r)
                => settling[r] = "called" /\ settling'[r] # "called"]_vars
  BY <1>2
<1>4. TypeOK /\ Begun /\ [Next]_vars => Begun'
  BY BegunKeeps
<1> QED BY <1>1, <1>3, <1>4, TypeCorrect, PTL DEF Spec, ClosedTakesOnlyBySettlement
===============================================================================
