-------------------------- MODULE BonusLedgerProofs --------------------------
(* What BonusLedger keeps for any set of orders and receipts, any amounts,     *)
(* lifetimes, rewards and any number of manual operations.                     *)
EXTENDS BonusLedger, FiniteSetTheorems, TLAPS

-------------------------------------------------------------------------------
(* Sums over orders.                                                           *)

Amounts == [Orders -> 0..MaxBonus]

LEMMA SumType ==
    ASSUME NEW a \in Amounts, NEW S \in SUBSET Orders
    PROVE  IsFiniteSet(Units(a, S)) /\ SumOf(a, S) \in Nat
<1>1. IsFiniteSet(Orders) /\ MaxBonus \in Nat
  BY LedgerAssumption
<1>2. IsFiniteSet(S)
  BY <1>1, FS_Subset
<1>3. IsFiniteSet(1..MaxBonus)
  BY <1>1, FS_Interval
<1>4. IsFiniteSet(S \X (1..MaxBonus))
  BY <1>2, <1>3, FS_Product
<1>5. IsFiniteSet(Units(a, S))
  BY <1>4, FS_Subset DEF Units
<1> QED BY <1>5, FS_CardinalityType DEF SumOf

\* Fewer orders, or smaller amounts, hold less.
LEMMA SumGrows ==
    ASSUME NEW a \in Amounts, NEW b \in Amounts,
           NEW T \in SUBSET Orders, NEW S \in SUBSET T,
           \A o \in S : a[o] <= b[o]
    PROVE  SumOf(a, S) <= SumOf(b, T)
<1>1. Units(a, S) \subseteq Units(b, T)
  <2> SUFFICES ASSUME NEW u \in Units(a, S) PROVE u \in Units(b, T)
    OBVIOUS
  <2>1. u \in S \X (1..MaxBonus) /\ u[2] <= a[u[1]]
    BY DEF Units
  <2>2. u[1] \in S /\ u[2] \in 1..MaxBonus /\ u \in T \X (1..MaxBonus)
    BY <2>1
  <2>3. a[u[1]] <= b[u[1]] /\ a[u[1]] \in 0..MaxBonus /\ b[u[1]] \in 0..MaxBonus
    BY <2>2 DEF Amounts
  <2>4. u[2] <= b[u[1]]
    BY <2>1, <2>2, <2>3, LedgerAssumption
  <2> QED BY <2>2, <2>4 DEF Units
<1>2. IsFiniteSet(Units(b, T))
  BY SumType
<1> QED BY <1>1, <1>2, FS_Subset DEF SumOf

LEMMA SumSplit ==
    ASSUME NEW a \in Amounts, NEW S \in SUBSET Orders, NEW o \in S
    PROVE  SumOf(a, S) = SumOf(a, S \ {o}) + a[o]
<1> DEFINE mine == {o} \X (1..a[o])
           others == Units(a, S \ {o})
<1>1. a[o] \in 0..MaxBonus /\ MaxBonus \in Nat
  BY LedgerAssumption DEF Amounts
<1>2. Units(a, S) = others \cup mine
  <2>1. Units(a, S) \subseteq others \cup mine
    BY <1>1 DEF Units
  <2>2. others \subseteq Units(a, S)
    BY DEF Units
  <2>3. mine \subseteq Units(a, S)
    BY <1>1 DEF Units
  <2> QED BY <2>1, <2>2, <2>3
<1>3. others \cap mine = {}
  BY DEF Units
<1>4. IsFiniteSet(mine) /\ Cardinality(mine) = a[o]
  <2>1. IsFiniteSet(1..a[o]) /\ Cardinality(1..a[o]) = a[o]
    <3>1. \A n \in Nat : IsFiniteSet(1..n) /\ Cardinality(1..n) = n
      <4> SUFFICES ASSUME NEW n \in Nat PROVE IsFiniteSet(1..n) /\ Cardinality(1..n) = n
        OBVIOUS
      <4>1. 1 \in Int /\ n \in Int
        OBVIOUS
      <4>2. IsFiniteSet(1..n) /\ Cardinality(1..n) = IF 1 > n THEN 0 ELSE n - 1 + 1
        BY <4>1, FS_Interval, Zenon
      <4> QED BY <4>2
    <3> QED BY <1>1, <3>1
  <2>2. IsFiniteSet({o}) /\ Cardinality({o}) = 1
    BY FS_Singleton
  <2>3. IsFiniteSet(mine) /\ Cardinality(mine) = Cardinality({o}) * Cardinality(1..a[o])
    BY <2>1, <2>2, FS_Product
  <2> HIDE DEF mine
  <2>4. Cardinality(mine) = 1 * a[o]
    BY <2>1, <2>2, <2>3
  <2> QED BY <1>1, <2>3, <2>4
<1>5. IsFiniteSet(others) /\ Cardinality(others) \in Nat
  BY SumType DEF SumOf
<1>6. Cardinality(others \cup mine) = Cardinality(others) + Cardinality(mine) - Cardinality({})
  <2> HIDE DEF others, mine
  <2>1. Cardinality(others \cup mine) =
          Cardinality(others) + Cardinality(mine) - Cardinality(others \cap mine)
    BY <1>4, <1>5, FS_Union, Zenon
  <2> QED BY <1>3, <2>1
<1>7. SumOf(a, S) = Cardinality(others \cup mine) /\ SumOf(a, S \ {o}) = Cardinality(others)
  BY <1>2 DEF SumOf
<1> HIDE DEF others, mine
<1> QED BY <1>1, <1>4, <1>5, <1>6, <1>7, FS_EmptySet

-------------------------------------------------------------------------------
(* What the operators do to a wallet whose lots add up to its balance.         *)

Wallet == [balance : Nat, debt : Nat, lots : [Days -> Nat]]
Sound(w) == w \in Wallet /\ Total(w.lots) = w.balance

\* A debit of n, taken from the balance, leaves lots and balance equal.
LEMMA ConsumeSound ==
    ASSUME NEW w \in Wallet, NEW n \in Nat,
           w.balance <= Total(w.lots), Total(w.lots) <= w.balance + n
    PROVE  /\ Sound(Consume(w, n))
           /\ Consume(w, n).balance = w.balance /\ Consume(w, n).debt = w.debt
           /\ Consume(w, n).lots = Without(w.lots, Total(w.lots) - w.balance)
<1>1. LastExpiry \in Days
  BY LedgerAssumption DEF Days, LastExpiry
<1>2. w.balance \in Nat /\ Total(w.lots) \in Nat
  BY <1>1 DEF Wallet, Total
<1>3. Smaller(n, Excess(Total(w.lots), w.balance)) = Total(w.lots) - w.balance
  BY <1>2 DEF Smaller, Excess
<1> DEFINE k == Total(w.lots) - w.balance
<1>4. k \in Nat
  BY <1>2
<1>5. Consume(w, n) = [w EXCEPT !.lots = Without(w.lots, k)]
  BY <1>3 DEF Consume
<1> HIDE DEF k
<1>6. Without(w.lots, k) \in [Days -> Nat]
  BY <1>4 DEF Without, Excess, Wallet
<1>7. Total(Without(w.lots, k)) = Excess(Total(w.lots), k)
  BY <1>1 DEF Without, Total
<1> QED BY <1>2, <1>5, <1>6, <1>7 DEF k, Excess, Sound, Wallet

LEMMA CreditSound ==
    ASSUME NEW w, Sound(w), NEW n \in Nat, day \in 0..LastDay
    PROVE  /\ Sound(Credit(w, n))
           /\ Credit(w, n).balance = w.balance + n /\ Credit(w, n).debt = w.debt
<1>1. LastExpiry \in Days /\ day + Lifetime <= LastExpiry
  BY LedgerAssumption DEF Days, LastExpiry
<1> DEFINE more == Lot(day + Lifetime, n)
<1>2. more \in [Days -> Nat] /\ more[LastExpiry] = n
  BY <1>1 DEF Lot
<1> HIDE DEF more
<1>3. Plus(w.lots, more) \in [Days -> Nat]
  BY <1>2 DEF Plus, Sound, Wallet
<1>4. Total(Plus(w.lots, more)) = Total(w.lots) + n
  BY <1>1, <1>2 DEF Plus, Total
<1> DEFINE lots == Plus(w.lots, more)
           b == w.balance + n
<1>5. Credit(w, n) = [w EXCEPT !.balance = b, !.lots = lots]
  BY DEF Credit, more, Sound, Wallet
<1>6. b \in Nat /\ w.balance \in Nat /\ Total(lots) = b
  BY <1>4 DEF Sound, Wallet
<1> HIDE DEF lots, b
<1>7. w \in Wallet /\ lots \in [Days -> Nat]
  BY <1>3 DEF lots, Sound
<1>8. /\ Credit(w, n) \in Wallet /\ Credit(w, n).balance = b
      /\ Credit(w, n).debt = w.debt /\ Credit(w, n).lots = lots
  BY <1>3, <1>5, <1>6, <1>7 DEF Wallet
<1> QED BY <1>6, <1>8 DEF b, Sound

\* Collecting a debt takes only what is not held.
LEMMA CollectSound ==
    ASSUME NEW w, Sound(w), NEW held \in Nat
    PROVE  /\ Sound(Collect(w, held))
           /\ w.debt = 0 => Collect(w, held) = w
<1> DEFINE c == Collectable(w, held)
           b == w.balance - c
           d == w.debt - c
           v == [w EXCEPT !.balance = b, !.debt = d]
<1>1. /\ c \in Nat /\ c <= w.balance /\ c <= w.debt
      /\ w.balance \in Nat /\ w.debt \in Nat /\ w \in Wallet
  BY DEF Collectable, Smaller, Excess, Sound, Wallet
<1>2. Collect(w, held) = IF c = 0 THEN w ELSE Consume(v, c)
  BY DEF Collect, CollectUnits
<1> HIDE DEF c
<1>3. b \in Nat /\ d \in Nat /\ b <= w.balance /\ w.balance <= b + c
  BY <1>1
<1> HIDE DEF b, d
<1>4. v \in Wallet /\ v.balance = b /\ v.lots = w.lots
  BY <1>1, <1>3 DEF Wallet
<1>5. v.balance <= Total(v.lots) /\ Total(v.lots) <= v.balance + c
  BY <1>3, <1>4 DEF Sound
<1>6. Sound(Consume(v, c))
  <2> HIDE DEF v
  <2> QED BY <1>1, <1>4, <1>5, ConsumeSound
<1>7. w.debt = 0 => c = 0
  BY <1>1 DEF Sound, Wallet
<1> QED BY <1>2, <1>6, <1>7

\* Expiry takes only what is not held.
LEMMA BurnSound ==
    ASSUME NEW w, Sound(w), NEW held \in Nat, day \in 0..LastDay
    PROVE  /\ Sound(Burn(w, held))
           /\ w.debt = 0 => Burn(w, held).debt = 0
           /\ w.debt = 0 /\ held <= w.balance => held <= Burn(w, held).balance
<1> DEFINE n == Burnable(w, held)
           b == w.balance - n
           lots == Without(w.lots, n)
           v == [w EXCEPT !.balance = b, !.lots = lots]
<1>1. LastExpiry \in Days /\ day \in Days
  BY LedgerAssumption DEF Days, LastExpiry
<1>2. /\ n \in Nat /\ n <= w.balance
      /\ held <= w.balance => held + n <= w.balance
  BY <1>1 DEF Burnable, Due, Smaller, Excess, Sound, Wallet
<1>3. Burn(w, held) = IF n = 0 THEN w ELSE Collect(v, held)
  BY DEF Burn, BurnUnits
<1> HIDE DEF n
<1>4. /\ Without(w.lots, n) \in [Days -> Nat]
      /\ Total(Without(w.lots, n)) = Excess(Total(w.lots), n)
  BY <1>1, <1>2 DEF Without, Total, Excess, Sound, Wallet
<1>5. b \in Nat /\ lots \in [Days -> Nat] /\ Total(lots) = b
  BY <1>2, <1>4 DEF Sound, Wallet, Excess
<1> HIDE DEF b, lots
<1>6. Sound(v) /\ v.debt = w.debt /\ v.balance = b
  <2>1. w \in Wallet
    BY DEF Sound
  <2>2. v \in Wallet /\ v.debt = w.debt /\ v.balance = b /\ v.lots = lots
    BY <1>5, <2>1 DEF Wallet
  <2> QED BY <1>5, <2>2 DEF Sound
<1> HIDE DEF v
<1>7. Sound(Collect(v, held)) /\ (v.debt = 0 => Collect(v, held) = v)
  BY <1>6, CollectSound
<1>8. held <= w.balance => held <= b
  BY <1>2 DEF b, Sound, Wallet
<1> QED BY <1>2, <1>3, <1>6, <1>7, <1>8 DEF Sound, Wallet

-------------------------------------------------------------------------------
(* The inductive invariant.                                                    *)

RestTyped ==
    /\ hold \in [Orders -> HoldStatus]
    /\ amount \in Amounts
    /\ ordered \in [Orders -> BOOLEAN]
    /\ ledger \in [Orders -> {"none", "applied", "reversed"}]
    /\ alloc \in [Orders -> [Days -> Nat]]
    /\ cashback \in [Orders -> {"none", "pending", "due", "active", "cancelled"}]
    /\ reward \in {"none", "granted", "returned"}
    /\ day \in 0..LastDay
    /\ adjustments \in 0..MaxAdjustments

\* The amount of an order that may be refunded does not change any more.
Fixed(o) == ordered[o] \/ hold[o] = "committed"

\* What an order can get back is no more than what it spent.
Attached ==
    \A o \in Orders :
        /\ ordered[o] => o \in Online
        /\ o \in Online /\ hold[o] = "committed" => ordered[o]
        /\ hold[o] = "none" => amount[o] = 0
        /\ Total(alloc[o]) <= (IF Fixed(o) THEN amount[o] ELSE 0)

\* Without a returned reward there is no debt, and no hold is uncovered.
Covered == reward # "returned" => wallet.debt = 0 /\ Held <= wallet.balance

LedgerInv == Sound(wallet) /\ RestTyped /\ Attached /\ Covered

LEMMA InvMeans == LedgerInv => TypeOK /\ LotsMatchBalance /\ HoldsBacked
BY DEF LedgerInv, Sound, Wallet, RestTyped, Amounts, Covered, TypeOK, LotsMatchBalance,
       HoldsBacked

LEMMA LiveOrders == Live \in SUBSET Orders
BY DEF Live

\* The wallet every operation starts from.
LEMMA Start ==
    ASSUME LedgerInv
    PROVE  /\ wallet \in Wallet /\ Held \in Nat /\ LastExpiry \in Days
           /\ \A S \in SUBSET Orders : HeldBy(S) \in Nat
           /\ \A S \in SUBSET Live : HeldBy(S) <= Held
           /\ Sound(Burned) /\ Sound(AfterSweep(Burned))
           /\ reward # "returned" =>
                /\ Burned.debt = 0 /\ AfterSweep(Burned) = Burned
                /\ Held <= Burned.balance
<1>1. amount \in Amounts /\ day \in 0..LastDay /\ Sound(wallet)
  BY DEF LedgerInv, RestTyped
<1>2. \A S \in SUBSET Orders : HeldBy(S) \in Nat
  BY <1>1, SumType DEF HeldBy
<1>3. Held \in Nat
  BY <1>2, LiveOrders DEF Held
<1>4. \A S \in SUBSET Live : HeldBy(S) <= Held
  <2> SUFFICES ASSUME NEW S \in SUBSET Live PROVE HeldBy(S) <= Held
    OBVIOUS
  <2>1. \A o \in S : amount[o] <= amount[o]
    BY <1>1, LiveOrders, LedgerAssumption DEF Amounts
  <2> QED BY <1>1, <2>1, LiveOrders, SumGrows DEF HeldBy, Held
<1>5. /\ Sound(Burned)
      /\ wallet.debt = 0 => Burned.debt = 0
      /\ wallet.debt = 0 /\ Held <= wallet.balance => Held <= Burned.balance
  BY <1>1, <1>3, BurnSound DEF Burned
<1>6. Sound(AfterSweep(Burned)) /\ (Burned.debt = 0 => AfterSweep(Burned) = Burned)
  BY <1>3, <1>5, CollectSound DEF AfterSweep
<1>7. LastExpiry \in Days
  BY LedgerAssumption DEF Days, LastExpiry
<1> QED BY <1>1, <1>2, <1>3, <1>4, <1>5, <1>6, <1>7 DEF LedgerInv, Covered, Sound

\* Holds that end, or amounts that stay, hold no more than before.
LEMMA HeldShrinks ==
    ASSUME LedgerInv, amount' = amount, Live' \subseteq Live
    PROVE  Held' <= Held /\ Held' \in Nat
<1>1. Held' = HeldBy(Live')
  BY DEF Held, HeldBy
<1>2. Live' \in SUBSET Orders
  BY LiveOrders
<1> QED BY <1>1, <1>2, Start

LEMMA ReserveKeeps ==
    ASSUME LedgerInv, NEW o \in Orders, NEW n \in 0..MaxBonus, Reserve(o, n),
           \/ o \in Till /\ (hold[o] \in {"prepared", "committed"} => n = amount[o])
           \/ o \in Online /\ ~ordered[o]
    PROVE  LedgerInv'
<1>1. Sound(wallet')
  BY Start DEF Reserve
<1>2. RestTyped'
  BY DEF LedgerInv, RestTyped, Reserve, Swept, Lapsed, HoldStatus, Amounts, sales
<1>3. Attached'
  <2> SUFFICES ASSUME NEW q \in Orders
               PROVE  /\ ordered'[q] => q \in Online
                      /\ q \in Online /\ hold'[q] = "committed" => ordered'[q]
                      /\ hold'[q] = "none" => amount'[q] = 0
                      /\ Total(alloc'[q]) <= (IF Fixed(q)' THEN amount'[q] ELSE 0)
    BY DEF Attached, Total
  <2>1. /\ ordered' = ordered /\ alloc' = alloc
        /\ hold'[q] = IF q = o /\ hold[o] \notin {"prepared", "committed"} THEN "live"
                      ELSE IF hold[q] = "lapsed" THEN "expired" ELSE hold[q]
        /\ amount'[q] = IF q = o THEN n ELSE amount[q]
    BY DEF Reserve, sales, Swept, Lapsed, LedgerInv, RestTyped, Amounts
  <2>2. /\ ordered[q] => q \in Online
        /\ q \in Online /\ hold[q] = "committed" => ordered[q]
        /\ hold[q] = "none" => amount[q] = 0
        /\ Total(alloc[q]) <= (IF Fixed(q) THEN amount[q] ELSE 0)
    BY DEF LedgerInv, Attached
  <2>3. q = o => (Fixed(q) => n = amount[q])
    BY <2>2, LedgerAssumption DEF Fixed
  <2> QED BY <2>1, <2>2, <2>3 DEF Fixed, Total
<1>4. Covered'
  <2> SUFFICES ASSUME reward # "returned"
               PROVE  wallet'.debt = 0 /\ Held' <= wallet'.balance
    BY DEF Covered, Reserve
  <2>1. wallet' = Burned /\ Burned.debt = 0 /\ Held <= Burned.balance
    BY Start DEF Reserve
  <2>2. amount \in Amounts /\ amount' \in Amounts /\ amount'[o] = n
    BY <1>2 DEF LedgerInv, RestTyped, Reserve, Amounts
  <2> DEFINE others == Live \ {o}
  <2>3. /\ HeldBy(others) <= Held /\ HeldBy(others) \in Nat /\ Held \in Nat
        /\ Burned.balance \in Nat /\ n \in Nat
    BY Start, LiveOrders, LedgerAssumption DEF Sound, Wallet
  <2>4. SumOf(amount', others) <= HeldBy(others)
    <3>1. \A q \in others : amount'[q] <= amount[q]
      BY <2>2, LiveOrders, LedgerAssumption DEF Reserve, LedgerInv, RestTyped, Amounts
    <3> QED BY <2>2, <3>1, LiveOrders, SumGrows DEF HeldBy
  <2>5. SumOf(amount', others) \in Nat /\ SumOf(amount', Live') \in Nat
    BY <2>2, LiveOrders, SumType DEF Live
  <2>6. Held' = SumOf(amount', Live')
    BY DEF Held, HeldBy
  <2>7. Live' \subseteq others \cup {o}
    BY DEF Live, Reserve, Swept, Lapsed, LedgerInv, RestTyped
  <2>8. CASE hold[o] = "committed"
    <3>1. Live' \subseteq others
      BY <2>7, <2>8 DEF Live, Reserve, Swept, Lapsed, LedgerInv, RestTyped
    <3>2. \A q \in Live' : amount'[q] <= amount'[q]
      BY <2>2, <3>1, LiveOrders, LedgerAssumption DEF Amounts
    <3>3. SumOf(amount', Live') <= SumOf(amount', others)
      BY <2>2, <3>1, <3>2, LiveOrders, SumGrows
    <3> QED BY <2>1, <2>3, <2>4, <2>5, <2>6, <3>3
  <2>9. CASE hold[o] # "committed"
    <3>1. n <= Excess(Burned.balance, HeldBy(others))
      BY <2>9 DEF Reserve
    <3> DEFINE all == others \cup {o}
    <3>2. all \in SUBSET Orders /\ o \in all /\ all \ {o} = others
      BY LiveOrders
    <3>3. \A q \in Live' : amount'[q] <= amount'[q]
      BY <2>2, <2>7, <3>2, LedgerAssumption DEF Amounts
    <3>4. SumOf(amount', Live') <= SumOf(amount', all)
      BY <2>2, <2>7, <3>2, <3>3, SumGrows
    <3>5. SumOf(amount', all) = SumOf(amount', others) + n
      BY <2>2, <3>2, SumSplit
    <3> QED BY <2>1, <2>3, <2>4, <2>5, <2>6, <3>1, <3>4, <3>5 DEF Excess
  <2> QED BY <2>8, <2>9
<1> QED BY <1>1, <1>2, <1>3, <1>4 DEF LedgerInv, Sound, Wallet, Total

LEMMA ReleaseKeeps ==
    ASSUME LedgerInv, NEW o \in Orders, Release(o)
    PROVE  LedgerInv'
<1> DEFINE held == HeldBy(Live \ {o})
<1>1. held \in Nat /\ Sound(wallet)
  BY Start, LiveOrders DEF LedgerInv
<1>2. wallet' = Collect(wallet, held)
  BY DEF Release
<1> HIDE DEF held
<1>3. Sound(wallet') /\ (wallet.debt = 0 => wallet' = wallet)
  BY <1>1, <1>2, CollectSound
<1>4. RestTyped'
  BY DEF LedgerInv, RestTyped, Release, HoldStatus, sales
<1>5. Attached'
  BY DEF LedgerInv, RestTyped, Attached, Fixed, Release, sales, Total
<1>6. Live' \subseteq Live
  BY DEF Live, Release, LedgerInv, RestTyped
<1>7. Held' <= Held /\ Held' \in Nat /\ Held \in Nat /\ wallet.balance \in Nat
  BY <1>6, HeldShrinks, Start DEF Release, Wallet
<1>8. Covered'
  BY <1>3, <1>7 DEF LedgerInv, Covered, Release
<1> QED BY <1>3, <1>4, <1>5, <1>8 DEF LedgerInv, Sound, Wallet, Total

\* Spending takes what the order held, or what nobody holds.
LEMMA ApplyKeeps ==
    ASSUME LedgerInv, NEW o \in Orders, NEW w, NEW holds,
           Apply(o, w, holds), Sound(w),
           o \in Online => ordered[o],
           holds \in [Orders -> HoldStatus],
           \A q \in Orders : holds[q] = hold[q] \/ (hold[q] = "lapsed" /\ holds[q] = "expired"),
           reward # "returned" =>
             /\ w.debt = 0 /\ Held <= w.balance
             /\ o \in Live \/ amount[o] <= Excess(w.balance, Held) \/ amount[o] = 0
    PROVE  LedgerInv'
<1> DEFINE now == IF Delayed THEN 0 ELSE Earns[o]
           credited == Credit(w, now)
           paid == [credited EXCEPT !.balance = @ - amount[o]]
           debited == Consume(paid, amount[o])
           held == HeldBy(Live \ {o})
<1>1. /\ now \in Nat /\ amount[o] \in Nat /\ day \in 0..LastDay
      /\ held \in Nat /\ held <= Held /\ Held \in Nat /\ LastExpiry \in Days
      /\ w.balance \in Nat /\ amount[o] <= w.balance
  BY Start, LiveOrders, LedgerAssumption
  DEF LedgerInv, RestTyped, Amounts, Apply, Affords, Sound, Wallet
<1>2. /\ wallet' = Collect(debited, held)
      /\ alloc' = [alloc EXCEPT
           ![o] = [d \in Days |-> credited.lots[d] - debited.lots[d]]]
  BY DEF Apply
<1> HIDE DEF now, held
<1>3. /\ Sound(credited) /\ credited.balance = w.balance + now
      /\ credited.debt = w.debt
  BY <1>1, CreditSound
<1> HIDE DEF credited
<1>4. /\ paid \in Wallet /\ paid.balance = credited.balance - amount[o]
      /\ paid.lots = credited.lots /\ paid.debt = credited.debt
  <2> DEFINE b == credited.balance - amount[o]
  <2>1. b \in Nat /\ credited \in Wallet
    BY <1>1, <1>3 DEF Sound
  <2>2. paid = [credited EXCEPT !.balance = b]
    BY <2>1 DEF Wallet
  <2> HIDE DEF b
  <2>3. paid \in Wallet /\ paid.balance = b /\ paid.lots = credited.lots
        /\ paid.debt = credited.debt
    BY <2>1, <2>2 DEF Wallet
  <2> QED BY <2>3 DEF b
<1> HIDE DEF paid
<1>5. /\ paid.balance <= Total(paid.lots) /\ Total(paid.lots) <= paid.balance + amount[o]
      /\ Total(paid.lots) - paid.balance = amount[o]
  BY <1>1, <1>3, <1>4 DEF Sound
<1>6. /\ Sound(debited) /\ debited.balance = paid.balance /\ debited.debt = w.debt
      /\ debited.lots = Without(credited.lots, amount[o])
  BY <1>1, <1>3, <1>4, <1>5, ConsumeSound
<1> HIDE DEF debited
<1>7. Sound(wallet') /\ (w.debt = 0 => wallet' = debited)
  BY <1>1, <1>2, <1>6, CollectSound
<1>8. /\ alloc' \in [Orders -> [Days -> Nat]]
      /\ Total(alloc'[o]) <= amount[o]
      /\ \A q \in Orders \ {o} : alloc'[q] = alloc[q]
  <2> DEFINE taken == [d \in Days |-> credited.lots[d] - debited.lots[d]]
  <2>1. \A d \in Days : /\ credited.lots[d] - debited.lots[d] \in Nat
                        /\ credited.lots[d] - debited.lots[d] <= amount[o]
    BY <1>1, <1>3, <1>6 DEF Without, Excess, Sound, Wallet
  <2>2. taken \in [Days -> Nat] /\ Total(taken) <= amount[o]
    BY <1>1, <2>1 DEF Total
  <2>3. alloc \in [Orders -> [Days -> Nat]] /\ alloc' = [alloc EXCEPT ![o] = taken]
    BY <1>2 DEF LedgerInv, RestTyped
  <2> HIDE DEF taken
  <2> QED BY <2>2, <2>3
<1>9. /\ amount' = amount /\ ordered' = ordered /\ reward' = reward
      /\ hold' = [holds EXCEPT
           ![o] = IF hold[o] = "none" THEN "none" ELSE "committed"]
  BY DEF Apply
<1>10. RestTyped'
  BY <1>8, <1>9 DEF LedgerInv, RestTyped, Apply, HoldStatus
<1>11. Attached'
  <2> SUFFICES ASSUME NEW q \in Orders
               PROVE  /\ ordered'[q] => q \in Online
                      /\ q \in Online /\ hold'[q] = "committed" => ordered'[q]
                      /\ hold'[q] = "none" => amount'[q] = 0
                      /\ Total(alloc'[q]) <= (IF Fixed(q)' THEN amount'[q] ELSE 0)
    BY DEF Attached, Total
  <2>1. /\ ordered[q] => q \in Online
        /\ q \in Online /\ hold[q] = "committed" => ordered[q]
        /\ hold[q] = "none" => amount[q] = 0
        /\ Total(alloc[q]) <= (IF Fixed(q) THEN amount[q] ELSE 0)
    BY DEF LedgerInv, Attached
  <2>2. hold'[q] = IF q = o THEN (IF hold[o] = "none" THEN "none" ELSE "committed")
                   ELSE holds[q]
    BY <1>9
  <2>3. holds[q] = "none" => hold[q] = "none"
    OBVIOUS
  <2>4. holds[q] = "committed" <=> hold[q] = "committed"
    OBVIOUS
  <2>5. CASE q # o
    BY <1>8, <1>9, <2>1, <2>2, <2>3, <2>4, <2>5 DEF Fixed
  <2>6. CASE q = o
    BY <1>1, <1>8, <1>9, <2>1, <2>2, <2>6 DEF Fixed
  <2> QED BY <2>5, <2>6
<1>12. Covered'
  <2> SUFFICES ASSUME reward # "returned"
               PROVE  wallet'.debt = 0 /\ Held' <= wallet'.balance
    BY <1>9 DEF Covered
  <2>1. /\ wallet'.debt = 0 /\ wallet'.balance = w.balance + now - amount[o]
        /\ Held <= w.balance
    BY <1>1, <1>3, <1>4, <1>6, <1>7
  <2>2. Live' \subseteq Live \ {o}
    BY <1>9 DEF Live
  <2>3. Held' = HeldBy(Live')
    BY <1>9 DEF Held, HeldBy
  <2>4. Held' <= held /\ Held' \in Nat
    <3>1. amount \in Amounts
      BY DEF LedgerInv, RestTyped
    <3>2. \A q \in Live' : amount[q] <= amount[q]
      BY <2>2, <3>1, LiveOrders, LedgerAssumption DEF Amounts
    <3>3. Live \ {o} \in SUBSET Orders
      BY LiveOrders
    <3>4. SumOf(amount, Live') <= SumOf(amount, Live \ {o})
      BY <2>2, <3>1, <3>2, <3>3, SumGrows
    <3>5. SumOf(amount, Live') \in Nat
      BY <2>2, <3>1, <3>3, SumType
    <3> QED BY <2>3, <3>4, <3>5 DEF held, HeldBy
  <2>5. CASE o \in Live
    <3>1. Held = held + amount[o]
      BY <2>5, LiveOrders, SumSplit DEF held, Held, HeldBy, LedgerInv, RestTyped
    <3> QED BY <1>1, <2>1, <2>4, <3>1
  <2>6. CASE amount[o] <= Excess(w.balance, Held) \/ amount[o] = 0
    BY <1>1, <2>1, <2>4, <2>6 DEF Excess
  <2> QED BY <2>5, <2>6
<1> QED BY <1>7, <1>10, <1>11, <1>12 DEF LedgerInv, Sound, Wallet, Total

\* A refund gives back what was spent and takes back what is free of the cashback.
LEMMA ReverseKeeps ==
    ASSUME LedgerInv, NEW o \in Online, ReverseOrder(o)
    PROVE  LedgerInv'
<1> DEFINE pending == cashback[o] \in {"pending", "due"}
           earned == IF pending THEN 0 ELSE Earns[o]
           removed == Smaller(Excess(wallet.balance + amount[o], Held), earned)
           b == wallet.balance + amount[o] - removed
           lots == Restored(wallet.lots, alloc[o], amount[o])
           restored == [wallet EXCEPT !.balance = b, !.lots = lots]
           debited == Consume(restored, Earns[o])
<1>1. /\ o \in Orders /\ amount[o] \in Nat /\ Earns[o] \in Nat
      /\ day \in 0..LastDay /\ Held \in Nat /\ LastExpiry \in Days
      /\ day + Lifetime <= LastExpiry
      /\ wallet \in Wallet /\ wallet.balance \in Nat /\ Total(wallet.lots) = wallet.balance
  BY Start, LedgerAssumption
  DEF LedgerInv, RestTyped, Amounts, Orders, Sound, Wallet, LastExpiry
<1>2. alloc[o] \in [Days -> Nat] /\ Total(alloc[o]) <= amount[o]
  <2>1. /\ alloc \in [Orders -> [Days -> Nat]]
        /\ Total(alloc[o]) <= (IF Fixed(o) THEN amount[o] ELSE 0)
    BY <1>1 DEF LedgerInv, RestTyped, Attached
  <2> QED BY <1>1, <2>1 DEF Total
<1>3. /\ removed \in Nat /\ removed <= Earns[o]
      /\ removed <= Excess(wallet.balance + amount[o], Held)
  BY <1>1 DEF Smaller, Excess
<1>4. /\ wallet' = Collect(debited, Held)
      /\ hold' = hold /\ amount' = amount /\ ordered' = ordered /\ reward' = reward
      /\ alloc' = [alloc EXCEPT ![o] = NoLots]
  <2>1. [wallet EXCEPT !.balance = @ + amount[o] - removed,
                       !.lots = Restored(@, alloc[o], amount[o])] = restored
    BY <1>1 DEF Wallet
  <2> QED BY <2>1 DEF ReverseOrder
<1> HIDE DEF removed
<1>5. b \in Nat /\ b + removed = wallet.balance + amount[o]
      /\ (Held <= wallet.balance => Held <= b)
  BY <1>1, <1>3 DEF Excess
<1>6. lots \in [Days -> Nat] /\ Total(lots) = wallet.balance + amount[o]
  <2> DEFINE rest == Lot(day + Lifetime, Excess(amount[o], Total(alloc[o])))
             sum == Plus(wallet.lots, alloc[o])
  <2>1. Total(alloc[o]) \in Nat
    BY <1>1, <1>2 DEF Total
  <2>2. rest \in [Days -> Nat] /\ Total(rest) = amount[o] - Total(alloc[o])
    BY <1>1, <1>2, <2>1 DEF Lot, Total, Excess
  <2>3. sum \in [Days -> Nat] /\ Total(sum) = wallet.balance + Total(alloc[o])
    <3>1. wallet.lots \in [Days -> Nat]
      BY <1>1 DEF Wallet
    <3> QED BY <1>1, <1>2, <3>1 DEF Plus, Total
  <2>4. lots = Plus(sum, rest)
    BY DEF Restored
  <2> HIDE DEF rest, sum, lots
  <2>5. Plus(sum, rest) \in [Days -> Nat] /\ Total(Plus(sum, rest)) = Total(sum) + Total(rest)
    BY <1>1, <2>2, <2>3 DEF Plus, Total
  <2> QED BY <1>1, <2>1, <2>2, <2>3, <2>4, <2>5
<1> HIDE DEF b, lots
<1>7. /\ restored \in Wallet /\ restored.balance = b /\ restored.lots = lots
      /\ restored.debt = wallet.debt
  BY <1>1, <1>5, <1>6 DEF Wallet
<1> HIDE DEF restored
<1>8. /\ Sound(debited) /\ debited.balance = b /\ debited.debt = wallet.debt
  <2>1. /\ restored.balance <= Total(restored.lots)
        /\ Total(restored.lots) <= restored.balance + Earns[o]
    BY <1>1, <1>3, <1>5, <1>6, <1>7
  <2> QED BY <1>1, <1>7, <2>1, ConsumeSound
<1> HIDE DEF debited
<1>9. Sound(wallet') /\ (wallet.debt = 0 => wallet' = debited)
  BY <1>1, <1>4, <1>8, CollectSound
<1>10. alloc' \in [Orders -> [Days -> Nat]] /\ Total(NoLots) = 0
  <2>1. NoLots \in [Days -> Nat] /\ Total(NoLots) = 0
    BY <1>1 DEF NoLots, Total
  <2> QED BY <1>4, <2>1 DEF LedgerInv, RestTyped
<1>11. RestTyped'
  BY <1>10 DEF LedgerInv, RestTyped, ReverseOrder
<1>12. Attached'
  <2> SUFFICES ASSUME NEW q \in Orders
               PROVE  /\ ordered'[q] => q \in Online
                      /\ q \in Online /\ hold'[q] = "committed" => ordered'[q]
                      /\ hold'[q] = "none" => amount'[q] = 0
                      /\ Total(alloc'[q]) <= (IF Fixed(q)' THEN amount'[q] ELSE 0)
    BY DEF Attached, Total
  <2>1. /\ ordered[q] => q \in Online
        /\ q \in Online /\ hold[q] = "committed" => ordered[q]
        /\ hold[q] = "none" => amount[q] = 0
        /\ Total(alloc[q]) <= (IF Fixed(q) THEN amount[q] ELSE 0)
    BY DEF LedgerInv, Attached
  <2>2. Fixed(q)' = Fixed(q) /\ amount'[q] \in Nat
    BY <1>4, LedgerAssumption DEF Fixed, LedgerInv, RestTyped, Amounts
  <2>3. alloc'[q] = IF q = o THEN NoLots ELSE alloc[q]
    BY <1>4 DEF LedgerInv, RestTyped
  <2> QED BY <1>4, <1>10, <2>1, <2>2, <2>3
<1>13. Covered'
  <2>1. Held' = Held
    BY <1>4 DEF Held, HeldBy, Live
  <2> QED BY <1>4, <1>5, <1>8, <1>9, <2>1 DEF LedgerInv, Covered
<1> QED BY <1>9, <1>11, <1>12, <1>13 DEF LedgerInv, Sound, Wallet, Total

\* Operations that touch the wallet only: what they leave covers what is held.
LEMMA WalletKeeps ==
    ASSUME LedgerInv, UNCHANGED <<hold, amount, ordered, ledger, alloc>>,
           RestTyped', Sound(wallet'),
           reward' # "returned" =>
             reward # "returned" /\ wallet'.debt = 0 /\ Held <= wallet'.balance
    PROVE  LedgerInv'
<1>1. Held' = Held
  BY DEF Held, HeldBy, Live
<1>2. Attached'
  BY DEF LedgerInv, Attached, Fixed, Total
<1>3. Covered'
  BY <1>1 DEF Covered
<1> QED BY <1>2, <1>3 DEF LedgerInv, Sound, Wallet, Total

LEMMA StatusKeeps ==
    ASSUME LedgerInv, NEW o \in Orders,
           \/ o \in Online /\ AttachOrder(o)
           \/ PrepareTill(o) \/ HoldLapses(o)
    PROVE  LedgerInv'
<1>1. wallet' = wallet /\ amount' = amount /\ reward' = reward
  BY DEF AttachOrder, PrepareTill, HoldLapses, sales
<1>2. Live' \subseteq Live
  BY DEF AttachOrder, PrepareTill, HoldLapses, Live, LedgerInv, RestTyped
<1>3. Held' <= Held /\ Held' \in Nat /\ Held \in Nat /\ wallet.balance \in Nat
  BY <1>1, <1>2, HeldShrinks, Start DEF Wallet
<1>4. Covered'
  BY <1>1, <1>3 DEF LedgerInv, Covered
<1>5. RestTyped'
  BY DEF LedgerInv, RestTyped, AttachOrder, PrepareTill, HoldLapses, HoldStatus, sales
<1>6. Attached'
  <2>1. CASE o \in Online /\ AttachOrder(o)
    <3> SUFFICES ASSUME NEW q \in Orders
                 PROVE  /\ ordered'[q] => q \in Online
                        /\ q \in Online /\ hold'[q] = "committed" => ordered'[q]
                        /\ hold'[q] = "none" => amount'[q] = 0
                        /\ Total(alloc'[q]) <= (IF Fixed(q)' THEN amount'[q] ELSE 0)
      BY DEF Attached, Total
    <3>1. /\ ordered[q] => q \in Online
          /\ q \in Online /\ hold[q] = "committed" => ordered[q]
          /\ hold[q] = "none" => amount[q] = 0
          /\ Total(alloc[q]) <= (IF Fixed(q) THEN amount[q] ELSE 0)
      BY DEF LedgerInv, Attached
    <3>2. /\ ordered'[q] = IF q = o THEN TRUE ELSE ordered[q]
          /\ hold' = hold /\ alloc' = alloc
      BY <2>1 DEF AttachOrder, LedgerInv, RestTyped
    <3>3. amount[q] \in Nat /\ Total(alloc[q]) \in Nat
      BY Start, LedgerAssumption DEF LedgerInv, RestTyped, Amounts, Total
    <3> QED BY <1>1, <2>1, <3>1, <3>2, <3>3 DEF Fixed
  <2>2. CASE PrepareTill(o) \/ HoldLapses(o)
    BY <2>2 DEF LedgerInv, RestTyped, Attached, Fixed, PrepareTill, HoldLapses, sales, Total
  <2> QED BY <2>1, <2>2
<1> QED BY <1>1, <1>4, <1>5, <1>6 DEF LedgerInv, Sound, Wallet, Total

\* A debit of n out of what is free, and possibly a new debt.
LEMMA DebitSound ==
    ASSUME NEW w, Sound(w), NEW n \in Nat, n <= w.balance, NEW d \in Nat
    PROVE  LET v == Consume([w EXCEPT !.balance = @ - n, !.debt = d], n) IN
           Sound(v) /\ v.balance = w.balance - n /\ v.debt = d
<1> DEFINE b == w.balance - n
           u == [w EXCEPT !.balance = b, !.debt = d]
<1>1. b \in Nat /\ w \in Wallet /\ w.balance = b + n /\ Total(w.lots) = w.balance
  BY DEF Sound, Wallet
<1>2. [w EXCEPT !.balance = @ - n, !.debt = d] = u
  BY <1>1 DEF Wallet
<1> HIDE DEF b
<1>3. u \in Wallet /\ u.balance = b /\ u.debt = d /\ u.lots = w.lots
  BY <1>1 DEF Wallet
<1> HIDE DEF u
<1>4. u.balance <= Total(u.lots) /\ Total(u.lots) <= u.balance + n
  BY <1>1, <1>3
<1>5. Sound(Consume(u, n)) /\ Consume(u, n).balance = b /\ Consume(u, n).debt = d
  BY <1>3, <1>4, ConsumeSound
<1> QED BY <1>2, <1>5 DEF b

LEMMA CreditsKeep ==
    ASSUME LedgerInv, \/ ActivateCashback \/ GrantReward \/ AdjustManually(TRUE)
    PROVE  LedgerInv'
<1>1. PICK n \in Nat : wallet' = Collect(Credit(wallet, n), Held)
  <2>1. SumOf(Earns, {o \in Orders : cashback[o] = "due"}) \in Nat
    BY SumType, LedgerAssumption DEF Amounts
  <2>2. Reward \in Nat /\ 1 \in Nat
    BY LedgerAssumption
  <2> QED BY <2>1, <2>2 DEF ActivateCashback, GrantReward, AdjustManually
<1>2. /\ Sound(wallet) /\ day \in 0..LastDay /\ Held \in Nat /\ wallet.balance \in Nat
  BY Start DEF LedgerInv, RestTyped, Wallet
<1> DEFINE w == Credit(wallet, n)
<1>3. Sound(w) /\ w.balance = wallet.balance + n /\ w.debt = wallet.debt
  BY <1>2, CreditSound
<1> HIDE DEF w
<1>4. Sound(wallet') /\ (w.debt = 0 => wallet' = w)
  BY <1>1, <1>2, <1>3, CollectSound DEF w
<1>5. RestTyped' /\ UNCHANGED <<hold, amount, ordered, ledger, alloc>>
  BY LedgerAssumption
  DEF LedgerInv, RestTyped, ActivateCashback, GrantReward, AdjustManually, sales
<1>6. reward' # "returned" => reward # "returned"
  BY DEF ActivateCashback, GrantReward, AdjustManually
<1>7. reward' # "returned" => wallet'.debt = 0 /\ Held <= wallet'.balance
  BY <1>2, <1>3, <1>4, <1>6 DEF LedgerInv, Covered
<1> QED BY <1>4, <1>5, <1>6, <1>7, WalletKeeps

LEMMA DebitsKeep ==
    ASSUME LedgerInv, \/ AdjustManually(FALSE) \/ ReturnReward \/ ExpireLots
    PROVE  LedgerInv'
<1>1. /\ Sound(wallet) /\ wallet \in Wallet /\ Held \in Nat
      /\ wallet.balance \in Nat /\ wallet.debt \in Nat /\ Reward \in Nat
  BY Start, LedgerAssumption DEF LedgerInv, Wallet
<1>2. RestTyped' /\ UNCHANGED <<hold, amount, ordered, ledger, alloc>>
  BY LedgerAssumption
  DEF LedgerInv, RestTyped, AdjustManually, ReturnReward, ExpireLots, sales
<1>3. CASE AdjustManually(FALSE)
  <2> DEFINE n == 1
             d == wallet.debt
             v == Consume([wallet EXCEPT !.balance = @ - n, !.debt = d], n)
  <2>1. wallet.balance >= Held + 1 /\ reward' = reward
    BY <1>3 DEF AdjustManually
  <2>2. Sound(v) /\ v.balance = wallet.balance - n /\ v.debt = d
    <3>1. n \in Nat /\ n <= wallet.balance /\ d \in Nat
      BY <1>1, <2>1
    <3> HIDE DEF n, d
    <3> QED BY <1>1, <3>1, DebitSound
  <2>3. [wallet EXCEPT !.balance = @ - 1] = [wallet EXCEPT !.balance = @ - n, !.debt = d]
    BY <1>1 DEF Wallet
  <2>4. wallet' = Collect(v, Held)
    BY <1>3, <2>3 DEF AdjustManually
  <2> HIDE DEF v
  <2>5. Sound(wallet') /\ (v.debt = 0 => wallet' = v)
    BY <1>1, <2>2, <2>4, CollectSound
  <2>6. reward' # "returned" =>
          reward # "returned" /\ wallet'.debt = 0 /\ Held <= wallet'.balance
    BY <1>1, <2>1, <2>2, <2>5 DEF LedgerInv, Covered
  <2> QED BY <1>2, <2>5, <2>6, WalletKeeps
<1>4. CASE ReturnReward
  <2> DEFINE f == Smaller(Excess(wallet.balance, Held), Reward)
             d == wallet.debt + Reward - f
  <2>1. f \in Nat /\ f <= wallet.balance /\ d \in Nat
    BY <1>1 DEF Smaller, Excess
  <2>2. /\ wallet' = Consume([wallet EXCEPT !.balance = @ - f, !.debt = d], f)
        /\ reward' = "returned"
    <3>1. [wallet EXCEPT !.balance = @ - f, !.debt = @ + Reward - f]
            = [wallet EXCEPT !.balance = @ - f, !.debt = d]
      BY <1>1 DEF Wallet
    <3> QED BY <1>4, <3>1 DEF ReturnReward
  <2> HIDE DEF f, d
  <2>3. Sound(wallet')
    BY <1>1, <2>1, <2>2, DebitSound
  <2> QED BY <1>2, <2>2, <2>3, WalletKeeps
<1>5. CASE ExpireLots
  <2>1. wallet' = Burned /\ reward' = reward
    BY <1>5 DEF ExpireLots
  <2>2. Sound(wallet') /\ (reward # "returned" => wallet'.debt = 0 /\ Held <= wallet'.balance)
    BY <2>1, Start
  <2> QED BY <1>2, <2>1, <2>2, WalletKeeps
<1> QED BY <1>3, <1>4, <1>5

LEMMA TimeKeeps ==
    ASSUME LedgerInv, NextDay \/ (\E o \in Orders : CashbackRipens(o))
    PROVE  LedgerInv'
<1>1. wallet' = wallet /\ reward' = reward /\ UNCHANGED <<hold, amount, ordered, ledger, alloc>>
  BY DEF NextDay, CashbackRipens, sales
<1>2. RestTyped'
  BY LedgerAssumption DEF LedgerInv, RestTyped, NextDay, CashbackRipens, sales
<1>3. Sound(wallet')
  BY <1>1 DEF LedgerInv
<1> QED BY <1>1, <1>2, <1>3, WalletKeeps DEF LedgerInv, Covered

-------------------------------------------------------------------------------
(* Every step.                                                                 *)

LEMMA Initial == Init => LedgerInv
<1> SUFFICES ASSUME Init PROVE LedgerInv
  OBVIOUS
<1>1. LastExpiry \in Days /\ Opening \in Nat /\ OpeningLife \in Nat /\ OpeningLife <= LastExpiry
  BY LedgerAssumption DEF Days, LastExpiry
<1>2. Sound(wallet)
  <2> DEFINE lots == Lot(OpeningLife, Opening)
  <2>1. lots \in [Days -> Nat] /\ Total(lots) = Opening
    BY <1>1 DEF Lot, Total
  <2> HIDE DEF lots
  <2>2. wallet = [balance |-> Opening, debt |-> 0, lots |-> lots]
    BY DEF Init, lots
  <2> QED BY <1>1, <2>1, <2>2 DEF Sound, Wallet
<1>3. NoLots \in [Days -> Nat] /\ Total(NoLots) = 0
  BY <1>1 DEF NoLots, Total
<1>4. RestTyped
  BY <1>3, LedgerAssumption DEF Init, RestTyped, Amounts, HoldStatus
<1>5. Attached
  BY <1>3 DEF Init, Attached, Fixed
<1>6. Covered
  <2>1. Live = {}
    BY DEF Init, Live
  <2>2. Units(amount, {}) = {}
    BY DEF Units
  <2>3. Held = 0
    BY <2>1, <2>2, FS_EmptySet DEF Held, HeldBy, SumOf
  <2> QED BY <1>1, <2>3 DEF Init, Covered
<1> QED BY <1>2, <1>4, <1>5, <1>6 DEF LedgerInv

LEMMA Preserved == LedgerInv /\ [Next]_vars => LedgerInv'
<1> SUFFICES ASSUME LedgerInv, [Next]_vars PROVE LedgerInv'
  OBVIOUS
<1>1. ASSUME NEW o \in Till, ReserveTill(o) PROVE LedgerInv'
  <2>1. PICK n \in 0..MaxBonus :
          (hold[o] \in {"prepared", "committed"} => n = amount[o]) /\ Reserve(o, n)
    BY <1>1 DEF ReserveTill
  <2> QED BY <2>1, ReserveKeeps DEF Orders
<1>2. ASSUME NEW o \in Online, ReserveOnline(o) PROVE LedgerInv'
  <2> DEFINE n == Smaller(Excess(Burned.balance, Held), MaxBonus)
  <2>1. ~ordered[o] /\ n > 0 /\ Reserve(o, n)
    BY <1>2 DEF ReserveOnline
  <2>2. n \in 0..MaxBonus
    BY Start, LedgerAssumption DEF Smaller, Excess, Sound, Wallet
  <2> QED BY <2>1, <2>2, ReserveKeeps DEF Orders
<1>3. ASSUME NEW o \in Orders,
             CancelTill(o) \/ ReleaseUnattached(o) \/ ReleaseTerminal(o)
      PROVE LedgerInv'
  BY <1>3, ReleaseKeeps DEF CancelTill, ReleaseUnattached, ReleaseTerminal
<1>4. \A o \in Orders : hold \in [Orders -> HoldStatus] /\ Swept \in [Orders -> HoldStatus]
                        /\ (Swept[o] = hold[o] \/ (hold[o] = "lapsed" /\ Swept[o] = "expired"))
  BY DEF LedgerInv, RestTyped, Swept, Lapsed, HoldStatus
<1>5. ASSUME NEW o \in Till, CommitTill(o) PROVE LedgerInv'
  <2>1. o \in Orders /\ o \in Live /\ Apply(o, Burned, hold) /\ ~(o \in Online)
    BY <1>5, LedgerAssumption DEF CommitTill, Live, Orders
  <2> QED BY <1>4, <2>1, Start, ApplyKeeps
<1>6. ASSUME NEW o \in Online, CommitOnline(o) PROVE LedgerInv'
  <2>1. o \in Orders /\ ordered[o] /\ Apply(o, Burned, hold) /\ hold[o] \in {"none", "live"}
    BY <1>6 DEF CommitOnline, Orders
  <2>2. o \in Live \/ amount[o] = 0
    BY <2>1 DEF Live, LedgerInv, Attached
  <2> QED BY <1>4, <2>1, <2>2, Start, ApplyKeeps
<1>7. ASSUME NEW o \in Online, RecommitOnline(o) PROVE LedgerInv'
  <2> DEFINE w == AfterSweep(Burned)
  <2>1. o \in Orders /\ ordered[o] /\ Apply(o, w, Swept)
        /\ amount[o] <= Excess(Burned.balance, Held)
    BY <1>7 DEF RecommitOnline, Orders
  <2>2. Sound(w) /\ (reward # "returned" => w = Burned /\ w.debt = 0 /\ Held <= w.balance)
    BY Start
  <2> HIDE DEF w
  <2> QED BY <1>4, <2>1, <2>2, ApplyKeeps
<1>8. ASSUME NEW o \in Online, ReverseOrder(o) PROVE LedgerInv'
  BY <1>8, ReverseKeeps
<1>9. ASSUME NEW o \in Orders,
             (o \in Online /\ AttachOrder(o)) \/ PrepareTill(o) \/ HoldLapses(o)
      PROVE LedgerInv'
  BY <1>9, StatusKeeps
<1>10. CASE \/ NextDay \/ ActivateCashback \/ GrantReward \/ ReturnReward \/ ExpireLots
            \/ \E o \in Orders : CashbackRipens(o)
            \/ \E credit \in BOOLEAN : AdjustManually(credit)
  BY <1>10, TimeKeeps, CreditsKeep, DebitsKeep
<1>11. CASE UNCHANGED vars
  BY <1>11 DEF vars, sales, LedgerInv, RestTyped, Attached, Fixed, Covered, Held, HeldBy, Live,
               Sound, Wallet, Total
<1> QED BY <1>1, <1>2, <1>3, <1>5, <1>6, <1>7, <1>8, <1>9, <1>10, <1>11 DEF Next, Orders

LEMMA Inductive == Spec => []LedgerInv
BY Initial, Preserved, PTL DEF Spec

\* No sequence of holds, payments, refunds, expiries and manual operations makes
\* a balance, a debt, a lot or a restorable amount negative.
THEOREM TypeCorrect == Spec => []TypeOK
BY Inductive, InvMeans, PTL

\* The lots add up to the balance, so nothing is left for the reconciliation.
THEOREM LotsStayMatched == Spec => []LotsMatchBalance
BY Inductive, InvMeans, PTL

\* What live holds promise stays in the balance until a reward is returned.
THEOREM HoldsStayBacked == Spec => []HoldsBacked
BY Inductive, InvMeans, PTL

\* Until a reward is returned, the balance a commit compares holds what any live
\* hold promises, after the lots due have burned: commit_branch_loyalty_reservation
\* and commit_checkout_bonus never refuse an order the bonuses it was promised.
CommitNeverRefused == reward # "returned" => \A o \in Live : Affords(Burned, o)

LEMMA LiveAffords == LedgerInv => CommitNeverRefused
<1> SUFFICES ASSUME LedgerInv, reward # "returned", NEW o \in Live
             PROVE  Affords(Burned, o)
  BY DEF CommitNeverRefused
<1>1. amount \in Amounts /\ MaxBonus \in Nat
  BY LedgerAssumption DEF LedgerInv, RestTyped
<1>2. Live \in SUBSET Orders /\ o \in Orders /\ Live \ {o} \in SUBSET Orders
  BY LiveOrders
<1>3. Held = HeldBy(Live \ {o}) + amount[o]
  BY <1>1, <1>2, SumSplit DEF Held, HeldBy
<1>4. HeldBy(Live \ {o}) \in Nat /\ Held <= Burned.balance /\ Sound(Burned)
  BY <1>2, Start
<1>5. amount[o] \in Nat /\ Burned.balance \in Nat
  BY <1>1, <1>2, <1>4 DEF Amounts, Sound, Wallet
<1> QED BY <1>3, <1>4, <1>5 DEF Affords

THEOREM HoldsAreHonoured == Spec => []CommitNeverRefused
BY Inductive, LiveAffords, PTL
-------------------------------------------------------------------------------
(* What lives beyond a day.                                                    *)

\* No day's sum exceeds the total: the sums are those of some lots.
Nested(lots) == \A d \in Days : lots[d] <= Total(lots)

\* Nothing in these lots lives longer than it did in the others.
NoLonger(lots, others) == \A d \in Days : LivingAfter(lots, d) <= LivingAfter(others, d)

LEMMA LastDayIsDay == LastExpiry \in Days
BY LedgerAssumption DEF Days, LastExpiry

\* Taking the oldest units first prolongs none of the rest.
LEMMA WithoutLiving ==
    ASSUME NEW lots \in [Days -> Nat], Nested(lots), NEW n \in Nat
    PROVE  /\ Without(lots, n) \in [Days -> Nat]
           /\ Nested(Without(lots, n)) /\ NoLonger(Without(lots, n), lots)
<1>1. \A d \in Days : /\ lots[d] \in Nat /\ lots[d] <= lots[LastExpiry]
                      /\ Without(lots, n)[d] = Excess(lots[d], n)
  BY DEF Nested, Total, Without
<1>2. LastExpiry \in Days /\ lots[LastExpiry] \in Nat
  BY LastDayIsDay
<1>3. Without(lots, n) \in [Days -> Nat]
  BY DEF Without, Excess
<1> QED BY <1>1, <1>2, <1>3 DEF Nested, NoLonger, LivingAfter, Total, Excess

\* Lots put together live as long as they did apart.
LEMMA PlusLiving ==
    ASSUME NEW lots \in [Days -> Nat], NEW more \in [Days -> Nat],
           Nested(lots), Nested(more)
    PROVE  /\ Plus(lots, more) \in [Days -> Nat] /\ Nested(Plus(lots, more))
           /\ \A d \in Days :
                LivingAfter(Plus(lots, more), d) = LivingAfter(lots, d) + LivingAfter(more, d)
<1>1. \A d \in Days : /\ lots[d] \in Nat /\ lots[d] <= lots[LastExpiry]
                      /\ more[d] \in Nat /\ more[d] <= more[LastExpiry]
                      /\ Plus(lots, more)[d] = lots[d] + more[d]
  BY DEF Nested, Total, Plus
<1>2. LastExpiry \in Days
  BY LastDayIsDay
<1>3. Plus(lots, more) \in [Days -> Nat]
  BY DEF Plus
<1> QED BY <1>1, <1>2, <1>3 DEF Nested, LivingAfter, Total

LEMMA LotNested ==
    ASSUME NEW d \in Days, NEW n \in Nat
    PROVE  Lot(d, n) \in [Days -> Nat] /\ Nested(Lot(d, n)) /\ Total(Lot(d, n)) = n
<1>1. LastExpiry \in Days /\ d <= LastExpiry
  BY LastDayIsDay, LedgerAssumption DEF Days, LastExpiry
<1> QED BY <1>1 DEF Lot, Nested, Total

LEMMA ConsumeLiving ==
    ASSUME NEW w \in Wallet, Nested(w.lots), NEW n \in Nat
    PROVE  Nested(Consume(w, n).lots) /\ NoLonger(Consume(w, n).lots, w.lots)
<1> DEFINE k == Smaller(n, Excess(Total(w.lots), w.balance))
<1>1. w.lots \in [Days -> Nat] /\ Total(w.lots) \in Nat /\ w.balance \in Nat
  BY LastDayIsDay DEF Wallet, Total
<1>2. k \in Nat
  BY <1>1 DEF Smaller, Excess
<1>3. Consume(w, n).lots = Without(w.lots, k)
  BY DEF Consume, Wallet
<1> HIDE DEF k
<1> QED BY <1>1, <1>2, <1>3, WithoutLiving

LEMMA CollectLiving ==
    ASSUME NEW w \in Wallet, Nested(w.lots), NEW held \in Nat
    PROVE  Nested(Collect(w, held).lots) /\ NoLonger(Collect(w, held).lots, w.lots)
<1> DEFINE c == Collectable(w, held)
           b == w.balance - c
           d == w.debt - c
           v == [w EXCEPT !.balance = b, !.debt = d]
<1>1. /\ c \in Nat /\ c <= w.balance /\ c <= w.debt
      /\ w.balance \in Nat /\ w.debt \in Nat /\ w.lots \in [Days -> Nat]
  BY DEF Collectable, Smaller, Excess, Wallet
<1>2. Collect(w, held) = IF c = 0 THEN w ELSE Consume(v, c)
  BY DEF Collect, CollectUnits
<1> HIDE DEF c
<1>3. b \in Nat /\ d \in Nat
  BY <1>1
<1> HIDE DEF b, d
<1>4. v \in Wallet /\ v.lots = w.lots
  BY <1>1, <1>3 DEF Wallet
<1>5. Nested(Consume(v, c).lots) /\ NoLonger(Consume(v, c).lots, w.lots)
  <2> HIDE DEF v
  <2> QED BY <1>1, <1>4, ConsumeLiving
<1>6. NoLonger(w.lots, w.lots)
  <2>1. \A d_1 \in Days : w.lots[d_1] \in Nat /\ w.lots[LastExpiry] \in Nat
    BY <1>1, LastDayIsDay
  <2> QED BY <2>1 DEF NoLonger, LivingAfter, Total
<1> QED BY <1>2, <1>5, <1>6

LEMMA BurnNested ==
    ASSUME NEW w \in Wallet, Nested(w.lots), NEW held \in Nat, day \in 0..LastDay
    PROVE  Nested(Burn(w, held).lots)
<1> DEFINE n == Burnable(w, held)
           b == w.balance - n
           lots == Without(w.lots, n)
           v == [w EXCEPT !.balance = b, !.lots = lots]
<1>1. day \in Days
  BY LedgerAssumption DEF Days, LastExpiry
<1>2. n \in Nat /\ n <= w.balance /\ w.balance \in Nat /\ w.lots \in [Days -> Nat]
  BY <1>1 DEF Burnable, Due, Smaller, Excess, Wallet
<1>3. Burn(w, held) = IF n = 0 THEN w ELSE Collect(v, held)
  BY DEF Burn, BurnUnits
<1> HIDE DEF n
<1>4. b \in Nat /\ lots \in [Days -> Nat] /\ Nested(lots)
  BY <1>2, WithoutLiving
<1> HIDE DEF b, lots
<1>5. v \in Wallet /\ v.lots = lots
  BY <1>4 DEF Wallet
<1> HIDE DEF v
<1> QED BY <1>3, <1>4, <1>5, CollectLiving

LEMMA CreditNested ==
    ASSUME NEW w \in Wallet, Nested(w.lots), NEW n \in Nat, day \in 0..LastDay
    PROVE  Nested(Credit(w, n).lots)
<1>1. day + Lifetime \in Days
  BY LedgerAssumption DEF Days, LastExpiry
<1> DEFINE more == Lot(day + Lifetime, n)
<1>2. more \in [Days -> Nat] /\ Nested(more)
  BY <1>1, LotNested
<1>3. Credit(w, n).lots = Plus(w.lots, more) /\ w.lots \in [Days -> Nat]
  BY DEF Credit, Wallet
<1> HIDE DEF more
<1> QED BY <1>2, <1>3, PlusLiving

-------------------------------------------------------------------------------
(* A refund prolongs nothing.                                                  *)

\* An order that has spent its bonuses took all of them from lots, whatever the
\* calls before it did to the balance: a refund never has to make a new lot.
Exact(o) == ledger[o] = "applied" => Fixed(o) /\ Total(alloc[o]) = amount[o]

LotsInv == Nested(wallet.lots) /\ \A o \in Orders : Nested(alloc[o]) /\ Exact(o)

LEMMA StartNested ==
    ASSUME LedgerInv, LotsInv
    PROVE  Nested(Burned.lots) /\ Nested(AfterSweep(Burned).lots)
<1>1. /\ wallet \in Wallet /\ Nested(wallet.lots) /\ Held \in Nat
      /\ day \in 0..LastDay
  BY Start DEF LedgerInv, RestTyped, LotsInv
<1>2. Nested(Burned.lots)
  BY <1>1, BurnNested DEF Burned
<1>3. Burned \in Wallet
  BY Start DEF Sound
<1> QED BY <1>1, <1>2, <1>3, CollectLiving DEF AfterSweep

\* The rows of other orders are left alone.
LEMMA ExactStays ==
    ASSUME LedgerInv, LotsInv, UNCHANGED <<ledger, alloc>>,
           \A o \in Orders : Fixed(o) => Fixed(o)' /\ amount'[o] = amount[o]
    PROVE  \A o \in Orders : Nested(alloc'[o]) /\ Exact(o)'
BY DEF LotsInv, Nested, Exact, Total

LEMMA ApplyExact ==
    ASSUME LedgerInv, LotsInv, NEW o \in Orders, NEW w, NEW holds,
           Apply(o, w, holds), Sound(w), Nested(w.lots),
           o \in Online => ordered[o], o \in Till => hold[o] # "none",
           holds \in [Orders -> HoldStatus],
           \A q \in Orders : holds[q] = hold[q] \/ (hold[q] = "lapsed" /\ holds[q] = "expired")
    PROVE  LotsInv'
<1> DEFINE now == IF Delayed THEN 0 ELSE Earns[o]
           credited == Credit(w, now)
           b == credited.balance - amount[o]
           paid == [credited EXCEPT !.balance = b]
           debited == Consume(paid, amount[o])
           taken == [d \in Days |-> credited.lots[d] - debited.lots[d]]
           held == HeldBy(Live \ {o})
<1>1. /\ now \in Nat /\ amount[o] \in Nat /\ day \in 0..LastDay
      /\ held \in Nat /\ LastExpiry \in Days
      /\ w.balance \in Nat /\ amount[o] <= w.balance /\ w \in Wallet
  BY Start, LiveOrders, LedgerAssumption
  DEF LedgerInv, RestTyped, Amounts, Apply, Affords, Sound, Wallet
<1>2. Sound(credited) /\ credited.balance = w.balance + now /\ Nested(credited.lots)
  BY <1>1, CreditSound, CreditNested
<1>3. credited \in Wallet /\ b \in Nat
  BY <1>1, <1>2 DEF Sound
<1>4. /\ wallet' = Collect(debited, held)
      /\ alloc' = [alloc EXCEPT ![o] = taken]
  <2>1. [credited EXCEPT !.balance = @ - amount[o]] = paid
    BY <1>3 DEF Wallet
  <2> HIDE DEF credited
  <2> QED BY <2>1 DEF Apply, credited
<1> HIDE DEF now, held, credited
<1>5. b = credited.balance - amount[o]
  OBVIOUS
<1> HIDE DEF b
<1>6. paid \in Wallet /\ paid.balance = b /\ paid.lots = credited.lots
  BY <1>3 DEF Wallet
<1> HIDE DEF paid
<1>7. /\ paid.balance <= Total(paid.lots) /\ Total(paid.lots) <= paid.balance + amount[o]
      /\ Total(paid.lots) - paid.balance = amount[o]
  BY <1>1, <1>2, <1>5, <1>6 DEF Sound
<1>8. Sound(debited) /\ debited.lots = Without(credited.lots, amount[o])
  BY <1>1, <1>6, <1>7, ConsumeSound
<1>9. Nested(debited.lots)
  BY <1>1, <1>2, <1>6, ConsumeLiving
<1> HIDE DEF debited
<1>10. Nested(wallet'.lots)
  BY <1>1, <1>4, <1>8, <1>9, CollectLiving DEF Sound
<1>11. taken \in [Days -> Nat] /\ Nested(taken) /\ Total(taken) = amount[o]
  <2>1. credited.lots \in [Days -> Nat]
    BY <1>3 DEF Wallet
  <2>2. Total(credited.lots) >= amount[o] /\ Total(credited.lots) \in Nat
    BY <1>1, <1>2, <1>3, <2>1 DEF Sound, Total
  <2>3. \A d \in Days : /\ credited.lots[d] \in Nat
                        /\ credited.lots[d] <= credited.lots[LastExpiry]
                        /\ debited.lots[d] = Excess(credited.lots[d], amount[o])
    BY <1>2, <1>8, <2>1 DEF Nested, Total, Without
  <2>4. \A d \in Days : credited.lots[d] - debited.lots[d] \in Nat
    BY <1>1, <2>3 DEF Excess
  <2>5. \A d \in Days : taken[d] <= taken[LastExpiry]
    BY <1>1, <2>3 DEF Excess
  <2>6. taken[LastExpiry] = amount[o]
    BY <1>1, <2>2, <2>3 DEF Excess, Total
  <2> QED BY <2>4, <2>5, <2>6 DEF Nested, Total
<1> HIDE DEF taken
<1>12. /\ amount' = amount /\ ordered' = ordered
       /\ ledger' = [ledger EXCEPT ![o] = "applied"]
       /\ hold' = [holds EXCEPT
            ![o] = IF hold[o] = "none" THEN "none" ELSE "committed"]
  BY DEF Apply
<1>13. \A q \in Orders : Nested(alloc'[q]) /\ Exact(q)'
  <2> SUFFICES ASSUME NEW q \in Orders PROVE Nested(alloc'[q]) /\ Exact(q)'
    OBVIOUS
  <2>1. alloc'[q] = (IF q = o THEN taken ELSE alloc[q])
        /\ ledger'[q] = (IF q = o THEN "applied" ELSE ledger[q])
        /\ hold'[q] = (IF q = o THEN (IF hold[o] = "none" THEN "none" ELSE "committed")
                       ELSE holds[q])
    BY <1>4, <1>12 DEF LedgerInv, RestTyped
  <2>2. CASE q = o
    <3>1. Fixed(o)'
      BY <1>12, <2>1, <2>2 DEF Fixed, Orders
    <3> QED BY <1>11, <1>12, <2>1, <2>2, <3>1 DEF Exact, Total
  <2>3. CASE q # o
    <3>1. Fixed(q) => Fixed(q)'
      BY <1>12, <2>1, <2>3 DEF Fixed
    <3> QED BY <1>12, <2>1, <2>3, <3>1 DEF LotsInv, Exact, Total
  <2> QED BY <2>2, <2>3
<1> QED BY <1>10, <1>13 DEF LotsInv, Nested, Total

\* What a refund does to the lots.
LEMMA ReverseLiving ==
    ASSUME LedgerInv, LotsInv, NEW o \in Online, ReverseOrder(o)
    PROVE  /\ Nested(wallet'.lots)
           /\ NoLonger(wallet'.lots, Plus(wallet.lots, alloc[o]))
<1> DEFINE pending == cashback[o] \in {"pending", "due"}
           earned == IF pending THEN 0 ELSE Earns[o]
           removed == Smaller(Excess(wallet.balance + amount[o], Held), earned)
           b == wallet.balance + amount[o] - removed
           back == Plus(wallet.lots, alloc[o])
           lots == Restored(wallet.lots, alloc[o], amount[o])
           restored == [wallet EXCEPT !.balance = b, !.lots = lots]
           debited == Consume(restored, Earns[o])
<1>1. /\ o \in Orders /\ amount[o] \in Nat /\ Earns[o] \in Nat
      /\ day \in 0..LastDay /\ Held \in Nat /\ day + Lifetime \in Days
      /\ wallet \in Wallet /\ wallet.balance \in Nat
  BY Start, LedgerAssumption
  DEF LedgerInv, RestTyped, Amounts, Orders, Days, LastExpiry, Wallet
<1>2. wallet' = Collect(debited, Held)
  <2>1. [wallet EXCEPT !.balance = @ + amount[o] - removed,
                       !.lots = Restored(@, alloc[o], amount[o])] = restored
    BY <1>1 DEF Wallet
  <2> QED BY <2>1 DEF ReverseOrder
<1>3. b \in Nat
  BY <1>1 DEF Smaller, Excess
<1> HIDE DEF b
<1>4. /\ wallet.lots \in [Days -> Nat] /\ Nested(wallet.lots)
      /\ alloc[o] \in [Days -> Nat] /\ Nested(alloc[o])
      /\ Total(alloc[o]) = amount[o]
  BY <1>1 DEF LedgerInv, RestTyped, LotsInv, Exact, Wallet, ReverseOrder
<1>5. back \in [Days -> Nat] /\ Nested(back)
  BY <1>4, PlusLiving
\* All that was spent came from lots, so nothing becomes a new lot.
<1>6. lots \in [Days -> Nat] /\ Nested(lots) /\ NoLonger(lots, back)
  <2> DEFINE rest == Lot(day + Lifetime, Excess(amount[o], Total(alloc[o])))
  <2>1. Excess(amount[o], Total(alloc[o])) = 0
    BY <1>1, <1>4 DEF Excess
  <2>2. rest \in [Days -> Nat] /\ Nested(rest) /\ \A d \in Days : rest[d] = 0
    <3>1. rest = Lot(day + Lifetime, 0)
      BY <2>1
    <3>2. \A d \in Days : Lot(day + Lifetime, 0)[d] = 0
      BY DEF Lot
    <3> HIDE DEF rest
    <3> QED BY <1>1, <3>1, <3>2, LotNested
  <2>3. lots = Plus(back, rest)
    BY DEF Restored
  <2>4. \A d \in Days : LivingAfter(rest, d) = 0
    BY <2>2, LastDayIsDay DEF LivingAfter, Total
  <2>5. \A d \in Days : LivingAfter(back, d) \in Int
    BY <1>5, LastDayIsDay DEF LivingAfter, Total
  <2> HIDE DEF rest, lots, back
  <2>6. lots \in [Days -> Nat] /\ Nested(lots)
        /\ \A d \in Days : LivingAfter(lots, d) = LivingAfter(back, d) + LivingAfter(rest, d)
    BY <1>5, <2>2, <2>3, PlusLiving
  <2> QED BY <2>4, <2>5, <2>6 DEF NoLonger
<1> HIDE DEF lots
<1>7. restored \in Wallet /\ restored.lots = lots
  BY <1>1, <1>3, <1>6 DEF Wallet
<1> HIDE DEF restored
<1>8. Nested(debited.lots) /\ NoLonger(debited.lots, lots) /\ debited \in Wallet
  <2>1. Nested(debited.lots) /\ NoLonger(debited.lots, lots)
    BY <1>1, <1>6, <1>7, ConsumeLiving
  <2>2. \E k \in Nat : debited = [restored EXCEPT !.lots = Without(restored.lots, k)]
    <3>1. restored.balance \in Nat /\ Total(restored.lots) \in Nat
      BY <1>6, <1>7, LastDayIsDay DEF Wallet, Total
    <3>2. Smaller(Earns[o], Excess(Total(restored.lots), restored.balance)) \in Nat
      BY <1>1, <3>1 DEF Smaller, Excess
    <3> QED BY <3>2 DEF Consume
  <2>3. \A k \in Nat : Without(restored.lots, k) \in [Days -> Nat]
    BY <1>6, <1>7, WithoutLiving
  <2> QED BY <1>7, <2>1, <2>2, <2>3 DEF Wallet
<1> HIDE DEF debited
<1>9. Nested(wallet'.lots) /\ NoLonger(wallet'.lots, debited.lots)
  BY <1>1, <1>2, <1>8, CollectLiving
<1>10. \A d \in Days : /\ LivingAfter(wallet'.lots, d) <= LivingAfter(debited.lots, d)
                       /\ LivingAfter(debited.lots, d) <= LivingAfter(lots, d)
                       /\ LivingAfter(lots, d) <= LivingAfter(back, d)
  BY <1>6, <1>8, <1>9 DEF NoLonger
<1>11. wallet'.lots \in [Days -> Nat]
  BY <1>1, ReverseKeeps DEF LedgerInv, Sound, Wallet
<1>12. \A d \in Days : /\ LivingAfter(wallet'.lots, d) \in Int
                       /\ LivingAfter(debited.lots, d) \in Int
                       /\ LivingAfter(lots, d) \in Int /\ LivingAfter(back, d) \in Int
  BY <1>5, <1>6, <1>8, <1>11, LastDayIsDay DEF LivingAfter, Total, Wallet
<1>13. NoLonger(wallet'.lots, back)
  <2> HIDE DEF back
  <2> SUFFICES ASSUME NEW d \in Days
               PROVE  LivingAfter(wallet'.lots, d) <= LivingAfter(back, d)
    BY DEF NoLonger
  <2> DEFINE p == LivingAfter(wallet'.lots, d)
             q == LivingAfter(debited.lots, d)
             r == LivingAfter(lots, d)
             s == LivingAfter(back, d)
  <2>1. p \in Int /\ q \in Int /\ r \in Int /\ s \in Int /\ p <= q /\ q <= r /\ r <= s
    BY <1>10, <1>12
  <2> HIDE DEF p, q, r, s
  <2>2. p <= s
    BY <2>1
  <2> QED BY <2>2 DEF p, s
<1> QED BY <1>9, <1>13

-------------------------------------------------------------------------------
(* Every step keeps the lots in order.                                         *)

\* Rows of other tables: what was spent, and the lots it took, do not change.
LEMMA RowsKeepExact ==
    ASSUME LedgerInv, LotsInv, NEW o \in Orders,
           \/ o \in Till /\ ReserveTill(o)
           \/ o \in Online /\ (ReserveOnline(o) \/ AttachOrder(o))
           \/ Release(o) \/ PrepareTill(o) \/ HoldLapses(o)
    PROVE  \A q \in Orders : Nested(alloc'[q]) /\ Exact(q)'
<1>1. /\ hold \in [Orders -> HoldStatus] /\ amount \in Amounts
      /\ ordered \in [Orders -> BOOLEAN]
  BY DEF LedgerInv, RestTyped
<1>2. ASSUME NEW n \in 0..MaxBonus, Reserve(o, n),
             \/ o \in Till /\ (hold[o] \in {"prepared", "committed"} => n = amount[o])
             \/ o \in Online /\ ~ordered[o]
      PROVE  /\ UNCHANGED <<ledger, alloc>>
             /\ \A q \in Orders : Fixed(q) => Fixed(q)' /\ amount'[q] = amount[q]
  <2>1. UNCHANGED <<ledger, alloc>>
    BY <1>2 DEF Reserve, sales
  <2>2. ASSUME NEW q \in Orders, Fixed(q) PROVE Fixed(q)' /\ amount'[q] = amount[q]
    <3>1. /\ ordered'[q] = ordered[q]
          /\ hold[q] = "committed" => hold'[q] = "committed"
          /\ amount'[q] = IF q = o THEN n ELSE amount[q]
      BY <1>1, <1>2 DEF Reserve, sales, Swept, Lapsed, Amounts
    <3>2. q = o => n = amount[q]
      BY <1>2, <2>2, LedgerAssumption DEF Fixed, LedgerInv, Attached
    <3> QED BY <2>2, <3>1, <3>2 DEF Fixed
  <2> QED BY <2>1, <2>2
<1>3. /\ UNCHANGED <<ledger, alloc>>
      /\ \A q \in Orders : Fixed(q) => Fixed(q)' /\ amount'[q] = amount[q]
  <2>1. CASE o \in Till /\ ReserveTill(o)
    <3>1. PICK n \in 0..MaxBonus :
            (hold[o] \in {"prepared", "committed"} => n = amount[o]) /\ Reserve(o, n)
      BY <2>1 DEF ReserveTill
    <3> QED BY <1>2, <2>1, <3>1
  <2>2. CASE o \in Online /\ ReserveOnline(o)
    <3> DEFINE n == Smaller(Excess(Burned.balance, Held), MaxBonus)
    <3>1. ~ordered[o] /\ Reserve(o, n)
      BY <2>2 DEF ReserveOnline
    <3>2. n \in 0..MaxBonus
      BY Start, LedgerAssumption DEF Smaller, Excess, Sound, Wallet
    <3> QED BY <1>2, <2>2, <3>1, <3>2
  <2>3. CASE (o \in Online /\ AttachOrder(o)) \/ Release(o) \/ PrepareTill(o) \/ HoldLapses(o)
    BY <1>1, <2>3 DEF AttachOrder, Release, PrepareTill, HoldLapses, sales, Fixed
  <2> QED BY <2>1, <2>2, <2>3
<1> QED BY <1>3, ExactStays

LEMMA RowsKeepLots ==
    ASSUME LedgerInv, LotsInv, NEW o \in Orders,
           \/ o \in Till /\ ReserveTill(o)
           \/ o \in Online /\ (ReserveOnline(o) \/ AttachOrder(o))
           \/ Release(o) \/ PrepareTill(o) \/ HoldLapses(o)
    PROVE  LotsInv'
<1>1. wallet \in Wallet /\ Nested(wallet.lots)
  BY Start DEF LotsInv
<1>2. CASE ReserveTill(o) \/ ReserveOnline(o)
  <2>1. wallet' = AfterSweep(Burned)
    BY <1>2 DEF ReserveTill, ReserveOnline, Reserve
  <2>2. Nested(wallet'.lots)
    BY <2>1, StartNested
  <2> QED BY <2>2, RowsKeepExact DEF LotsInv, Nested, Total
<1>3. CASE Release(o)
  <2>1. HeldBy(Live \ {o}) \in Nat
    BY Start, LiveOrders
  <2>2. wallet' = Collect(wallet, HeldBy(Live \ {o}))
    BY <1>3 DEF Release
  <2>3. Nested(wallet'.lots)
    BY <1>1, <2>1, <2>2, CollectLiving
  <2> QED BY <2>3, RowsKeepExact DEF LotsInv, Nested, Total
<1>4. CASE AttachOrder(o) \/ PrepareTill(o) \/ HoldLapses(o)
  <2>1. Nested(wallet'.lots)
    BY <1>1, <1>4 DEF AttachOrder, PrepareTill, HoldLapses
  <2> QED BY <2>1, RowsKeepExact DEF LotsInv, Nested, Total
<1> QED BY <1>2, <1>3, <1>4

LEMMA CommitKeepsLots ==
    ASSUME LedgerInv, LotsInv, NEW o \in Orders,
           \/ o \in Till /\ CommitTill(o)
           \/ o \in Online /\ (CommitOnline(o) \/ RecommitOnline(o))
    PROVE  LotsInv'
<1>1. /\ hold \in [Orders -> HoldStatus] /\ Swept \in [Orders -> HoldStatus]
      /\ \A q \in Orders : Swept[q] = hold[q] \/ (hold[q] = "lapsed" /\ Swept[q] = "expired")
  BY DEF LedgerInv, RestTyped, Swept, Lapsed, HoldStatus
<1>2. /\ Sound(Burned) /\ Nested(Burned.lots)
      /\ Sound(AfterSweep(Burned)) /\ Nested(AfterSweep(Burned).lots)
  BY Start, StartNested
<1>3. CASE o \in Till /\ CommitTill(o)
  <2>1. Apply(o, Burned, hold) /\ hold[o] # "none" /\ o \notin Online
    BY <1>3, LedgerAssumption DEF CommitTill
  <2> QED BY <1>1, <1>2, <2>1, ApplyExact
<1>4. CASE o \in Online /\ CommitOnline(o)
  <2>1. Apply(o, Burned, hold) /\ ordered[o] /\ o \notin Till
    BY <1>4, LedgerAssumption DEF CommitOnline
  <2> QED BY <1>1, <1>2, <2>1, ApplyExact
<1>5. CASE o \in Online /\ RecommitOnline(o)
  <2> DEFINE w == AfterSweep(Burned)
  <2>1. Apply(o, w, Swept) /\ ordered[o] /\ o \notin Till
    BY <1>5, LedgerAssumption DEF RecommitOnline
  <2>2. Sound(w) /\ Nested(w.lots)
    BY <1>2
  <2> HIDE DEF w
  <2> QED BY <1>1, <2>1, <2>2, ApplyExact
<1> QED BY <1>3, <1>4, <1>5

LEMMA ReverseKeepsLots ==
    ASSUME LedgerInv, LotsInv, NEW o \in Online, ReverseOrder(o)
    PROVE  LotsInv'
<1>1. o \in Orders /\ Nested(wallet'.lots)
  BY ReverseLiving DEF Orders
<1>2. Nested(NoLots)
  BY LastDayIsDay DEF NoLots, Nested, Total
<1>3. \A q \in Orders :
        /\ alloc'[q] = IF q = o THEN NoLots ELSE alloc[q]
        /\ ledger'[q] = IF q = o THEN "reversed" ELSE ledger[q]
        /\ amount' = amount /\ (Fixed(q)' <=> Fixed(q))
  BY <1>1 DEF ReverseOrder, LedgerInv, RestTyped, Fixed
<1>4. \A q \in Orders : Nested(alloc'[q]) /\ Exact(q)'
  <2> SUFFICES ASSUME NEW q \in Orders PROVE Nested(alloc'[q]) /\ Exact(q)'
    OBVIOUS
  <2>1. CASE q = o
    BY <1>2, <1>3, <2>1 DEF Exact
  <2>2. CASE q # o
    BY <1>3, <2>2 DEF LotsInv, Exact, Total
  <2> QED BY <2>1, <2>2
<1> QED BY <1>1, <1>4 DEF LotsInv, Nested, Total

\* Operations on the wallet alone.
LEMMA WalletKeepsLots ==
    ASSUME LedgerInv, LotsInv,
           \/ ActivateCashback \/ GrantReward \/ ReturnReward \/ ExpireLots
           \/ \E credit \in BOOLEAN : AdjustManually(credit)
    PROVE  LotsInv'
<1>1. /\ wallet \in Wallet /\ Nested(wallet.lots) /\ Held \in Nat /\ day \in 0..LastDay
      /\ wallet.balance \in Nat /\ wallet.debt \in Nat /\ Reward \in Nat /\ Sound(wallet)
  BY Start, LedgerAssumption DEF LotsInv, LedgerInv, RestTyped, Wallet
<1>2. UNCHANGED <<ledger, alloc, amount, ordered, hold>>
  BY DEF ActivateCashback, GrantReward, ReturnReward, ExpireLots, AdjustManually, sales
<1>3. \A q \in Orders : Nested(alloc'[q]) /\ Exact(q)'
  BY <1>2, ExactStays DEF Fixed
<1>4. CASE ActivateCashback \/ GrantReward \/ AdjustManually(TRUE)
  <2>1. PICK n \in Nat : wallet' = Collect(Credit(wallet, n), Held)
    <3>1. SumOf(Earns, {o \in Orders : cashback[o] = "due"}) \in Nat
      BY SumType, LedgerAssumption DEF Amounts
    <3> QED BY <1>1, <1>4, <3>1 DEF ActivateCashback, GrantReward, AdjustManually
  <2> DEFINE w == Credit(wallet, n)
  <2>2. Nested(w.lots) /\ w \in Wallet
    BY <1>1, CreditNested, CreditSound DEF Sound
  <2>3. wallet' = Collect(w, Held)
    BY <2>1
  <2> HIDE DEF w
  <2>4. Nested(wallet'.lots)
    BY <1>1, <2>2, <2>3, CollectLiving
  <2> QED BY <1>3, <2>4 DEF LotsInv, Nested, Total
<1>5. ASSUME NEW n \in Nat, n <= wallet.balance, NEW d \in Nat, NEW v,
             v = Consume([wallet EXCEPT !.balance = @ - n, !.debt = d], n)
      PROVE  v \in Wallet /\ Nested(v.lots)
  <2> DEFINE b == wallet.balance - n
             u == [wallet EXCEPT !.balance = b, !.debt = d]
  <2>1. b \in Nat /\ [wallet EXCEPT !.balance = @ - n, !.debt = d] = u
    BY <1>1, <1>5 DEF Wallet
  <2> HIDE DEF b
  <2>2. u \in Wallet /\ u.lots = wallet.lots
    BY <1>1, <2>1 DEF Wallet
  <2>3. Nested(Consume(u, n).lots)
    <3> HIDE DEF u
    <3> QED BY <1>1, <2>2, ConsumeLiving
  <2>4. v \in Wallet
    BY <1>1, <1>5, DebitSound DEF Sound
  <2> QED BY <1>5, <2>1, <2>3, <2>4
<1>6. CASE AdjustManually(FALSE)
  <2> DEFINE n == 1
             d == wallet.debt
             v == Consume([wallet EXCEPT !.balance = @ - n, !.debt = d], n)
  <2>1. n \in Nat /\ n <= wallet.balance /\ d \in Nat
    BY <1>1, <1>6 DEF AdjustManually
  <2>2. [wallet EXCEPT !.balance = @ - 1] = [wallet EXCEPT !.balance = @ - n, !.debt = d]
    BY <1>1 DEF Wallet
  <2>3. wallet' = Collect(v, Held)
    BY <1>6, <2>2 DEF AdjustManually
  <2>4. v \in Wallet /\ Nested(v.lots)
    <3> HIDE DEF n, d
    <3> QED BY <1>5, <2>1
  <2> HIDE DEF v
  <2>5. Nested(wallet'.lots)
    BY <1>1, <2>3, <2>4, CollectLiving
  <2> QED BY <1>3, <2>5 DEF LotsInv, Nested, Total
<1>7. CASE ReturnReward
  <2> DEFINE f == Smaller(Excess(wallet.balance, Held), Reward)
             d == wallet.debt + Reward - f
  <2>1. f \in Nat /\ f <= wallet.balance /\ d \in Nat
    BY <1>1 DEF Smaller, Excess
  <2>2. wallet' = Consume([wallet EXCEPT !.balance = @ - f, !.debt = d], f)
    <3>1. [wallet EXCEPT !.balance = @ - f, !.debt = @ + Reward - f]
            = [wallet EXCEPT !.balance = @ - f, !.debt = d]
      BY <1>1 DEF Wallet
    <3> QED BY <1>7, <3>1 DEF ReturnReward
  <2> HIDE DEF f, d
  <2>3. Nested(wallet'.lots)
    BY <1>5, <2>1, <2>2
  <2> QED BY <1>3, <2>3 DEF LotsInv, Nested, Total
<1>8. CASE ExpireLots
  <2>1. Nested(wallet'.lots)
    BY <1>8, StartNested DEF ExpireLots
  <2> QED BY <1>3, <2>1 DEF LotsInv, Nested, Total
<1> QED BY <1>4, <1>6, <1>7, <1>8

LEMMA LotsInitial == Init => LotsInv
<1> SUFFICES ASSUME Init PROVE LotsInv
  OBVIOUS
<1>1. OpeningLife \in Days /\ Opening \in Nat
  BY LedgerAssumption
<1>2. Nested(Lot(OpeningLife, Opening))
  BY <1>1, LotNested
<1>3. Nested(NoLots)
  BY LastDayIsDay DEF NoLots, Nested, Total
<1> QED BY <1>2, <1>3 DEF Init, LotsInv, Exact

LEMMA LotsPreserved == LedgerInv /\ LotsInv /\ [Next]_vars => LotsInv'
<1> SUFFICES ASSUME LedgerInv, LotsInv, [Next]_vars PROVE LotsInv'
  OBVIOUS
<1>1. ASSUME NEW o \in Till,
             ReserveTill(o) \/ PrepareTill(o) \/ CancelTill(o)
      PROVE  LotsInv'
  BY <1>1, RowsKeepLots DEF CancelTill, Orders
<1>2. ASSUME NEW o \in Online,
             ReserveOnline(o) \/ AttachOrder(o) \/ ReleaseUnattached(o) \/ ReleaseTerminal(o)
      PROVE  LotsInv'
  BY <1>2, RowsKeepLots DEF ReleaseUnattached, ReleaseTerminal, Orders
<1>3. ASSUME NEW o \in Orders, HoldLapses(o) PROVE LotsInv'
  BY <1>3, RowsKeepLots
<1>4. ASSUME NEW o \in Till, CommitTill(o) PROVE LotsInv'
  BY <1>4, CommitKeepsLots DEF Orders
<1>5. ASSUME NEW o \in Online, CommitOnline(o) \/ RecommitOnline(o) PROVE LotsInv'
  BY <1>5, CommitKeepsLots DEF Orders
<1>6. ASSUME NEW o \in Online, ReverseOrder(o) PROVE LotsInv'
  BY <1>6, ReverseKeepsLots
<1>7. CASE \/ ActivateCashback \/ GrantReward \/ ReturnReward \/ ExpireLots
           \/ \E credit \in BOOLEAN : AdjustManually(credit)
  BY <1>7, WalletKeepsLots
<1>8. CASE NextDay \/ (\E o \in Orders : CashbackRipens(o)) \/ UNCHANGED vars
  <2>1. UNCHANGED <<wallet, hold, amount, ordered, ledger, alloc>>
    BY <1>8 DEF NextDay, CashbackRipens, vars, sales
  <2> QED BY <2>1 DEF LotsInv, Nested, Exact, Fixed, Total
<1> QED BY <1>1, <1>2, <1>3, <1>4, <1>5, <1>6, <1>7, <1>8 DEF Next

LEMMA LotsInvAlways == Spec => []LotsInv
BY Inductive, LotsInitial, LotsPreserved, PTL DEF Spec

\* Only the refund of an order reverses its withdrawal.
LEMMA OnlyRefundReverses ==
    ASSUME LedgerInv, [Next]_vars, NEW o \in Orders,
           ledger[o] = "applied", ledger'[o] = "reversed"
    PROVE  o \in Online /\ ReverseOrder(o)
<1>1. ledger \in [Orders -> {"none", "applied", "reversed"}] /\ ledger' # ledger
  BY DEF LedgerInv, RestTyped
<1>2. CASE \E q \in Till : CommitTill(q)
  BY <1>1, <1>2 DEF CommitTill, Apply, Orders
<1>3. CASE \E q \in Online : CommitOnline(q) \/ RecommitOnline(q)
  BY <1>1, <1>3 DEF CommitOnline, RecommitOnline, Apply, Orders
<1>4. CASE \E q \in Online : ReverseOrder(q)
  BY <1>1, <1>4 DEF ReverseOrder, Orders
<1>5. CASE \/ \E q \in Till : ReserveTill(q) \/ PrepareTill(q) \/ CancelTill(q)
           \/ \E q \in Online : \/ ReserveOnline(q) \/ AttachOrder(q)
                                \/ ReleaseUnattached(q) \/ ReleaseTerminal(q)
           \/ \E q \in Orders : HoldLapses(q) \/ CashbackRipens(q)
           \/ \E credit \in BOOLEAN : AdjustManually(credit)
           \/ ActivateCashback \/ ExpireLots \/ GrantReward \/ ReturnReward \/ NextDay
           \/ UNCHANGED vars
  BY <1>1, <1>5
  DEF ReserveTill, ReserveOnline, Reserve, PrepareTill, CancelTill, ReleaseUnattached,
      ReleaseTerminal, Release, AttachOrder, HoldLapses, CashbackRipens, AdjustManually,
      ActivateCashback, ExpireLots, GrantReward, ReturnReward, NextDay, vars, sales
<1> QED BY <1>2, <1>3, <1>4, <1>5 DEF Next

\* However often bonuses are spent and given back, a refund adds nothing that
\* lives longer than what the order took: no customer renews bonuses by ordering
\* and cancelling.
THEOREM RefundsNeverRenew == Spec => RefundNeverRenews
<1>1. ASSUME LedgerInv, LotsInv, [Next]_vars,
             NEW o \in Orders, NEW d \in Days,
             ledger[o] = "applied", ledger'[o] = "reversed"
      PROVE  LivingAfter(wallet'.lots, d) <=
                 LivingAfter(wallet.lots, d) + LivingAfter(alloc[o], d)
  <2>1. o \in Online /\ ReverseOrder(o)
    BY <1>1, OnlyRefundReverses
  <2>2. NoLonger(wallet'.lots, Plus(wallet.lots, alloc[o]))
    BY <1>1, <2>1, ReverseLiving
  <2>3. /\ wallet.lots \in [Days -> Nat] /\ alloc[o] \in [Days -> Nat]
        /\ Nested(wallet.lots) /\ Nested(alloc[o])
    BY <1>1 DEF LedgerInv, RestTyped, LotsInv, Sound, Wallet
  <2> QED BY <2>2, <2>3, PlusLiving DEF NoLonger
<1>2. LedgerInv /\ LotsInv /\ [Next]_vars =>
        [\A o \in Orders, d \in Days :
            ledger[o] = "applied" /\ ledger'[o] = "reversed" =>
                LivingAfter(wallet'.lots, d) <=
                    LivingAfter(wallet.lots, d) + LivingAfter(alloc[o], d)]_vars
  BY <1>1
<1> QED BY <1>2, Inductive, LotsInvAlways, PTL DEF Spec, RefundNeverRenews
=============================================================================
