----------------------------- MODULE BonusLedger -----------------------------
(* The bonuses of one customer (or family): the balance, the lots it consists *)
(* of, and the orders and receipts that hold, spend, earn and give back.      *)
(*                                                                            *)
(* Every operation is one PL/pgSQL function under the customer's advisory     *)
(* lock and row lock, so it is one action here, with the triggers it fires:   *)
(* the debt of a returned referral reward is collected whenever the balance   *)
(* is written or a hold ends, and due lots burn before anything is reserved,  *)
(* quoted or applied.                                                         *)
(*                                                                            *)
(* expires_at of a hold and available_at of cashback are flags that time      *)
(* sets; the lifetime of lots is counted in days.                             *)
EXTENDS Naturals, FiniteSets

CONSTANTS
    Online,         \* orders of the application
    Till,           \* receipts of a till
    MaxBonus,       \* most bonuses one order may spend or earn
    Earns,          \* cashback of each order
    Delayed,        \* cashback becomes available later (bonus_activation)
    Opening,        \* balance at the start
    OpeningLife,    \* day on which the opening balance expires
    Lifetime,       \* days a credited lot lives (six months in the code)
    Reward,         \* referral reward this customer may get, and have to return
    LastDay,        \* bound on the calendar
    MaxAdjustments  \* bound on manual credits and debits

Orders == Online \cup Till
LastExpiry == LastDay + Lifetime
Days == 0..LastExpiry

ASSUME LedgerAssumption ==
    /\ IsFiniteSet(Orders) /\ Online \cap Till = {}
    /\ Earns \in [Orders -> 0..MaxBonus]
    /\ {MaxBonus, Opening, Reward, LastDay, MaxAdjustments} \subseteq Nat
    /\ Lifetime \in Nat \ {0}
    /\ OpeningLife \in Days \ {0}
    /\ Delayed \in BOOLEAN

VARIABLES
    wallet,      \* customers row and bonus_credit_lots: balance, debt, lots
    hold,        \* status of each order's loyalty_reservations row
    amount,      \* its discount_amount
    ordered,     \* the kaspi_orders row exists and owns the hold
    ledger,      \* transactions of the order: none, applied, reversed
    alloc,       \* lots its withdrawal took and a refund may restore
    cashback,    \* its cashback: none, pending, due, active, cancelled
    reward,      \* the referral reward: none, granted, returned
    day,         \* today
    adjustments  \* manual operations so far

sales == <<ordered, ledger, alloc, cashback>>
vars == <<wallet, hold, amount, ordered, ledger, alloc, cashback, reward, day,
          adjustments>>

HoldStatus == {"none", "live", "prepared", "lapsed", "expired", "cancelled",
               "committed"}

-------------------------------------------------------------------------------
(* Lots and holds.                                                             *)

Smaller(a, b) == IF a <= b THEN a ELSE b
Excess(a, b) == IF a > b THEN a - b ELSE 0

\* lots[d] is what expires on day d or before. Oldest expiry goes first, so taking
\* n units takes n from every one of these sums, as far as it goes.
Total(lots) == lots[LastExpiry]
NoLots == [d \in Days |-> 0]
Lot(d, n) == [e \in Days |-> IF d <= e THEN n ELSE 0]
Plus(lots, more) == [d \in Days |-> lots[d] + more[d]]
Without(lots, n) == [d \in Days |-> Excess(lots[d], n)]
LivingAfter(lots, d) == Total(lots) - lots[d]

Due(w) == w.lots[day]

\* Mutant of Live: every active row counts, whatever its expires_at.
LiveIfActive == {o \in Orders : hold[o] \in {"live", "prepared", "lapsed"}}

\* status = 'active' and expires_at > now(); a prepared hold never expires.
Live == {o \in Orders : hold[o] \in {"live", "prepared"}}
Lapsed == {o \in Orders : hold[o] = "lapsed"}

\* sum(a), as the number of pairs of an order and one of its units.
Units(a, S) == {u \in S \X (1..MaxBonus) : u[2] <= a[u[1]]}
SumOf(a, S) == Cardinality(Units(a, S))

HeldBy(S) == SumOf(amount, S)
Held == HeldBy(Live)

\* Mutant of Consume: the ledger amount is taken, not the balance decrease.
ConsumeLedgerAmount(w, n) == [w EXCEPT !.lots = Without(w.lots, n)]

\* A debit consumes lots by what the balance has really lost.
Consume(w, n) ==
    [w EXCEPT !.lots = Without(w.lots, Smaller(n, Excess(Total(w.lots), w.balance)))]

Credit(w, n) ==
    [w EXCEPT !.balance = @ + n, !.lots = Plus(@, Lot(day + Lifetime, n))]

\* collect_referral_bonus_debt: what is not held pays the debt.
Collectable(w, held) == Smaller(w.debt, Excess(w.balance, held))

CollectUnits(w, c) == Consume([w EXCEPT !.balance = @ - c, !.debt = @ - c], c)

Collect(w, held) ==
    IF Collectable(w, held) = 0 THEN w ELSE CollectUnits(w, Collectable(w, held))

\* Mutant of Burnable: what is held burns too.
BurnableHeldToo(w, held) == Smaller(Due(w), w.balance)

\* expire_bonus_credit_lots: due lots burn, except what live holds may need.
Burnable(w, held) == Smaller(Due(w), Excess(w.balance, held))

BurnUnits(w, n, held) ==
    Collect([w EXCEPT !.balance = @ - n, !.lots = Without(w.lots, n)], held)

Burn(w, held) ==
    IF Burnable(w, held) = 0 THEN w ELSE BurnUnits(w, Burnable(w, held), held)

Burned == Burn(wallet, Held)

-------------------------------------------------------------------------------
(* Holds.                                                                      *)

\* reserve_loyalty_balance sweeps lapsed holds; their debt is collected then.
Swept == [o \in Orders |-> IF o \in Lapsed THEN "expired" ELSE hold[o]]
AfterSweep(w) == IF Lapsed = {} THEN w ELSE Collect(w, Held)

\* The balance compared is the one read before the sweep.
Reserve(o, n) ==
    /\ hold[o] # "committed" => n <= Excess(Burned.balance, HeldBy(Live \ {o}))
    /\ wallet' = AfterSweep(Burned)
    /\ hold' = [Swept EXCEPT
         ![o] = IF hold[o] \in {"prepared", "committed"} THEN hold[o] ELSE "live"]
    /\ amount' = [amount EXCEPT ![o] = n]
    /\ UNCHANGED <<sales, reward, day, adjustments>>

\* reserve_branch_loyalty_balance: the cashier's amount; a hold that is prepared
\* or committed keeps its own.
ReserveTill(o) ==
    \E n \in 0..MaxBonus :
        /\ hold[o] \in {"prepared", "committed"} => n = amount[o]
        /\ Reserve(o, n)

\* reserve_checkout_bonus: the quoted amount, exactly.
ReserveOnline(o) ==
    LET n == Smaller(Excess(Burned.balance, Held), MaxBonus) IN
    /\ ~ordered[o] /\ hold[o] # "live"
    /\ n > 0
    /\ Reserve(o, n)

\* attach_checkout_bonus, when the order is inserted.
AttachOrder(o) ==
    /\ ~ordered[o] /\ hold[o] \in {"none", "live"}
    /\ ordered' = [ordered EXCEPT ![o] = TRUE]
    /\ UNCHANGED <<wallet, hold, amount, ledger, alloc, cashback, reward, day, adjustments>>

PrepareTill(o) ==
    /\ hold[o] \in {"live", "prepared"}
    /\ hold' = [hold EXCEPT ![o] = "prepared"]
    /\ UNCHANGED <<wallet, amount, sales, reward, day, adjustments>>

\* A hold that ends lets the debt be collected.
Release(o) ==
    /\ hold[o] \in {"live", "prepared", "lapsed"}
    /\ hold' = [hold EXCEPT ![o] = "cancelled"]
    /\ wallet' = Collect(wallet, HeldBy(Live \ {o}))
    /\ UNCHANGED <<amount, sales, reward, day, adjustments>>

CancelTill(o) == Release(o)
ReleaseUnattached(o) == ~ordered[o] /\ Release(o)
ReleaseTerminal(o) == ordered[o] /\ Release(o)

-------------------------------------------------------------------------------
(* Commits, cashback and refunds.                                              *)

\* Mutant of Affords: the balance is not compared.
AffordsAnything(w, o) == o \in Orders

Affords(w, o) == amount[o] <= w.balance

\* apply_loyalty_transaction, and the end of the hold: w is the wallet after the
\* expiry that precedes it, holds are the rows as they are then.
Apply(o, w, holds) ==
    LET now == IF Delayed THEN 0 ELSE Earns[o]
        credited == Credit(w, now)
        debited == Consume([credited EXCEPT !.balance = @ - amount[o]], amount[o]) IN
    /\ Affords(w, o)
    /\ wallet' = Collect(debited, HeldBy(Live \ {o}))
    /\ alloc' = [alloc EXCEPT
         ![o] = [d \in Days |-> credited.lots[d] - debited.lots[d]]]
    /\ hold' = [holds EXCEPT ![o] = IF hold[o] = "none" THEN "none" ELSE "committed"]
    /\ ledger' = [ledger EXCEPT ![o] = "applied"]
    /\ cashback' = [cashback EXCEPT ![o] =
         IF Earns[o] = 0 THEN "none" ELSE IF Delayed THEN "pending" ELSE "active"]
    /\ UNCHANGED <<amount, ordered, reward, day, adjustments>>

\* commit_branch_loyalty_reservation: only a hold that is still live.
CommitTill(o) ==
    /\ hold[o] \in {"live", "prepared"}
    /\ Apply(o, Burned, hold)

\* commit_checkout_bonus of a paid order, with its hold or without bonuses.
CommitOnline(o) ==
    /\ ordered[o] /\ ledger[o] = "none"
    /\ hold[o] \in {"none", "live"}
    /\ Apply(o, Burned, hold)

\* The same for an order paid late: its bonuses are held again, if they are still
\* there, and spent.
RecommitOnline(o) ==
    /\ ordered[o] /\ ledger[o] = "none"
    /\ hold[o] \in {"lapsed", "expired", "cancelled"}
    /\ amount[o] <= Excess(Burned.balance, Held)
    /\ Apply(o, AfterSweep(Burned), Swept)

\* activate_pending_bonus_transactions: all that is due, as lots of today.
ActivateCashback ==
    LET due == {o \in Orders : cashback[o] = "due"}
        n == SumOf(Earns, due) IN
    /\ due # {}
    /\ wallet' = Collect(Credit(wallet, n), Held)
    /\ cashback' = [o \in Orders |-> IF o \in due THEN "active" ELSE cashback[o]]
    /\ UNCHANGED <<hold, amount, ordered, ledger, alloc, reward, day, adjustments>>

\* Mutant of Restored: what comes back is credited today.
RestoredToday(lots, taken, spent) ==
    Plus(lots, Lot(day + Lifetime, spent))

\* refund_bonus_restore: units return to the day they had; what was never taken
\* from a lot becomes a new one.
Restored(lots, taken, spent) ==
    Plus(Plus(lots, taken), Lot(day + Lifetime, Excess(spent, Total(taken))))

\* reverse_loyalty_order: spent bonuses return, pending cashback is cancelled and
\* active cashback is taken back as far as it is not held or spent.
ReverseOrder(o) ==
    LET pending == cashback[o] \in {"pending", "due"}
        earned == IF pending THEN 0 ELSE Earns[o]
        removed == Smaller(Excess(wallet.balance + amount[o], Held), earned)
        restored == [wallet EXCEPT
            !.balance = @ + amount[o] - removed,
            !.lots = Restored(@, alloc[o], amount[o])] IN
    /\ ledger[o] = "applied"
    /\ wallet' = Collect(Consume(restored, Earns[o]), Held)
    /\ ledger' = [ledger EXCEPT ![o] = "reversed"]
    /\ alloc' = [alloc EXCEPT ![o] = NoLots]
    /\ cashback' = IF pending THEN [cashback EXCEPT ![o] = "cancelled"] ELSE cashback
    /\ UNCHANGED <<hold, amount, ordered, reward, day, adjustments>>

-------------------------------------------------------------------------------
(* Expiry, manual operations and the referral reward.                          *)

\* expire_due_bonus_credit_lots, and every quote.
ExpireLots ==
    /\ Burnable(wallet, Held) > 0
    /\ wallet' = Burned
    /\ UNCHANGED <<hold, amount, sales, reward, day, adjustments>>

\* apply_manual_bonus_once: a debit leaves what is held.
AdjustManually(credit) ==
    /\ adjustments < MaxAdjustments
    /\ IF credit THEN wallet' = Collect(Credit(wallet, 1), Held)
       ELSE /\ wallet.balance >= Held + 1
            /\ wallet' = Collect(Consume([wallet EXCEPT !.balance = @ - 1], 1), Held)
    /\ adjustments' = adjustments + 1
    /\ UNCHANGED <<hold, amount, sales, reward, day>>

GrantReward ==
    /\ reward = "none" /\ Reward > 0
    /\ reward' = "granted"
    /\ wallet' = Collect(Credit(wallet, Reward), Held)
    /\ UNCHANGED <<hold, amount, sales, day, adjustments>>

\* reverse_referral_purchase: what cannot be taken now becomes a debt.
ReturnReward ==
    LET f == Smaller(Excess(wallet.balance, Held), Reward) IN
    /\ reward = "granted"
    /\ reward' = "returned"
    /\ wallet' = Consume([wallet EXCEPT !.balance = @ - f, !.debt = @ + Reward - f], f)
    /\ UNCHANGED <<hold, amount, sales, day, adjustments>>

\* Time.
HoldLapses(o) ==
    /\ hold[o] = "live"
    /\ hold' = [hold EXCEPT ![o] = "lapsed"]
    /\ UNCHANGED <<wallet, amount, sales, reward, day, adjustments>>

CashbackRipens(o) ==
    /\ cashback[o] = "pending"
    /\ cashback' = [cashback EXCEPT ![o] = "due"]
    /\ UNCHANGED <<wallet, hold, amount, ordered, ledger, alloc, reward, day, adjustments>>

NextDay ==
    /\ day < LastDay
    /\ day' = day + 1
    /\ UNCHANGED <<wallet, hold, amount, sales, reward, adjustments>>

-------------------------------------------------------------------------------

Init ==
    /\ wallet = [balance |-> Opening, debt |-> 0,
                 lots |-> Lot(OpeningLife, Opening)]
    /\ hold = [o \in Orders |-> "none"]
    /\ amount = [o \in Orders |-> 0]
    /\ ordered = [o \in Orders |-> FALSE]
    /\ ledger = [o \in Orders |-> "none"]
    /\ alloc = [o \in Orders |-> NoLots]
    /\ cashback = [o \in Orders |-> "none"]
    /\ reward = "none"
    /\ day = 0
    /\ adjustments = 0

Next ==
    \/ \E o \in Till : ReserveTill(o) \/ PrepareTill(o) \/ CancelTill(o) \/ CommitTill(o)
    \/ \E o \in Online :
          \/ ReserveOnline(o) \/ AttachOrder(o)
          \/ ReleaseUnattached(o) \/ ReleaseTerminal(o)
          \/ CommitOnline(o) \/ RecommitOnline(o) \/ ReverseOrder(o)
    \/ \E o \in Orders : HoldLapses(o) \/ CashbackRipens(o)
    \/ \E credit \in BOOLEAN : AdjustManually(credit)
    \/ ActivateCashback \/ ExpireLots \/ GrantReward \/ ReturnReward \/ NextDay

Spec == Init /\ [][Next]_vars

\* A hold that nobody renews lapses; the hourly worker burns what is due.
FairSpec ==
    /\ Spec
    /\ \A o \in Orders : WF_vars(HoldLapses(o))
    /\ WF_vars(ExpireLots)

-------------------------------------------------------------------------------
(* Properties.                                                                 *)

\* Every value is one the tables may hold; in particular the balance, the debt,
\* the lots and what a withdrawal took are never negative.
TypeOK ==
    /\ wallet \in [balance : Nat, debt : Nat, lots : [Days -> Nat]]
    /\ hold \in [Orders -> HoldStatus]
    /\ amount \in [Orders -> 0..MaxBonus]
    /\ ordered \in [Orders -> BOOLEAN]
    /\ ledger \in [Orders -> {"none", "applied", "reversed"}]
    /\ alloc \in [Orders -> [Days -> Nat]]
    /\ cashback \in [Orders -> {"none", "pending", "due", "active", "cancelled"}]
    /\ reward \in {"none", "granted", "returned"}
    /\ day \in 0..LastDay
    /\ adjustments \in 0..MaxAdjustments

\* As long as no referral reward had to be returned, the balance covers every
\* live hold: expiry, refunds, manual debits and other orders spend only what is
\* free (20261015110000_bonus_credit_lots.sql:240-246 and its siblings).
HoldsBacked == reward # "returned" => Held <= wallet.balance

\* The lots always add up to the balance, so reconcile_bonus_credit_lots never
\* has to invent an opening lot or to trim one.
LotsMatchBalance == Total(wallet.lots) = wallet.balance

\* A refund never prolongs bonuses: for every day, it leaves no more units that
\* live beyond that day than there were, spent ones included.
RefundNeverRenews ==
    [][\A o \in Orders, d \in Days :
          ledger[o] = "applied" /\ ledger'[o] = "reversed" =>
              LivingAfter(wallet'.lots, d) <=
                  LivingAfter(wallet.lots, d) + LivingAfter(alloc[o], d)]_vars

\* Bonuses past their day burn in the end, however orders hold, cancel and come
\* back, unless a till has been promised them (a prepared hold).
ExpiredBonusesBurn ==
    Due(wallet) > 0 ~> (Due(wallet) = 0 \/ \E o \in Orders : hold[o] = "prepared")
===============================================================================
