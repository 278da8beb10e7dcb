---------------------------- MODULE OrderClaimProofs ----------------------------
(* What OrderPayment keeps while a refund is being decided: who may ask the     *)
(* bank, and what a settlement that started earlier may still do.               *)
EXTENDS OrderPaymentProofs

-------------------------------------------------------------------------------
(* One refund request at a time.                                               *)

\* A handler between its claim and the outcome it writes.
Claiming(j) == j.call \in {"caRelease", "caBank", "caFail", "caFinal"}

\* One that has not asked the bank, or was told that nothing was created.
Unsent(j) ==
    \/ j.call \in {"caRelease", "caBank"}
    \/ j.call = "caFail" /\ j.answer \notin {"ok", "lost", "slow"}

\* No request of the order may move, or has moved, the money.
Unmoved == \A r \in RefundIds : refunds[r] \notin {"slow", "done"}
Open == order.refund \in {"none", "failed"}

ClaimOf(j) ==
    /\ Claiming(j) => ~Open
    /\ Unsent(j) => Unmoved
    /\ j.call = "caFinal" => j.answer = "ok"
    /\ j.call # "rqDecline"

OneClaim ==
    /\ \A v, w \in Workers : Claiming(job[v]) /\ Claiming(job[w]) => v = w
    /\ \A w \in Workers : ClaimOf(job[w])
    /\ Open => Unmoved

\* How a handler comes to hold a claim.
LEMMA ClaimingCalls ==
    ASSUME Typed, NEW w \in Workers, StartStep(w) \/ CallStep(w) \/ Crash(w),
           Claiming(job'[w]) \/ job'[w].call = "rqDecline"
    PROVE  CaClaim(w) \/ CaRelease(w) \/ CaBank(w) \/ CaFinal(w) \/ RqResolve(w)
<1> DEFINE Taken == {"caRelease", "caBank", "caFail", "caFinal", "rqDecline"}
           Free == job'[w].call \notin Taken
<1>1. job \in [Workers -> Job]
  BY DEF Typed, TypeOK
<1>2. /\ Finish(w) => job'[w] = Idle
      /\ \A call, by, answer, seen : Become(w, call, by, answer, seen) => job'[w].call = call
      /\ \A call : Go(w, call) => job'[w].call = call
      /\ \A call, answer : Hear(w, call, answer) => job'[w].call = call
      /\ \A call, seen : Recall(w, call, seen) => job'[w].call = call
  BY <1>1, JobAfter
<1>3. Finish(w) => Free
  <2>1. Idle.call \notin Taken
    BY DEF Idle
  <2> QED BY <1>2, <2>1
<1>4. CASE StartStep(w)
  BY <1>2, <1>4 DEF StartStep, SyncStart, ExpireStart, FinalizeStart, RecordStart,
     CustomerCancel, StaffCancel, RqStart, FoStart, Start, Claiming
<1>5. CASE Crash(w) BY <1>3, <1>5 DEF Crash, Claiming
<1>6. Continue(w) => Free
  BY <1>2, <1>3 DEF Continue
<1>7. Recorded(w) => Free
  BY <1>2, <1>3 DEF Recorded
<1>8. \A row : RefundUnavailable(w, row) => Free
  BY <1>2 DEF RefundUnavailable
<1>9. CASE SyncMeta(w) \/ UpRead(w) \/ UpCas(w) \/ UpRelease(w) \/ SyncMark(w)
           \/ SyncReverse(w) \/ SyncReverseMark(w)
  BY <1>2, <1>3, <1>6, <1>9 DEF SyncMeta, UpRead, UpCas, UpRelease, SyncMark,
     SyncReverse, SyncReverseMark, Claiming
<1>10. CASE FuCas(w) \/ FuRelease(w) \/ FuMark(w)
  BY <1>2, <1>3, <1>10 DEF FuCas, FuRelease, FuMark, Claiming
<1>11. CASE RpRead(w) \/ RpCommit(w) \/ RpAward(w) \/ RpRecheck(w) \/ RpOpen(w)
            \/ RpLost(w) \/ RpCashback(w)
  BY <1>2, <1>3, <1>7, <1>8, <1>11 DEF RpRead, RpCommit, RpAward, RpRecheck, RpOpen,
     RpLost, RpCashback, AfterAward, Claiming
<1>12. CASE CaFail(w) BY <1>3, <1>12 DEF CaFail, Claiming
<1>13. CASE RqClaim(w) \/ RqDecline(w) \/ RqDefer(w) \/ RqFinal(w)
  BY <1>2, <1>3, <1>13 DEF RqClaim, RqDecline, RqDefer, RqFinal, Claiming
<1>14. CASE FoReverse(w) \/ FoMark(w) \/ FoRelease(w) \/ FoDone(w)
  BY <1>2, <1>3, <1>14 DEF FoReverse, FoMark, FoRelease, FoDone, Claiming
<1> QED BY <1>4, <1>5, <1>9, <1>10, <1>11, <1>12, <1>13, <1>14 DEF CallStep

\* What no call sent to the bank moved stays where it was: a /flex refund is only
\* read by the reconciler, and the bank decides only what it has accepted.
LEMMA UnmovedStays ==
    ASSUME Typed, ~Widget, Unmoved
    PROVE  /\ Environment => Unmoved'
           /\ \A w \in Workers : (StartStep(w) \/ CallStep(w) \/ Crash(w)) /\ ~CaBank(w)
                => Unmoved'
<1>1. UNCHANGED refunds => Unmoved'
  BY DEF Unmoved, RefundIds
<1>2. CASE BankDecide BY <1>2 DEF BankDecide, Unmoved
<1>3. CASE Environment /\ ~BankDecide
  BY <1>1, <1>3 DEF Environment, StaffServe, StaffComplete, ReleaseClosed, BankCharge,
     StockLapses, HoldLapses, ClaimAges, bank
<1>4. ASSUME NEW w \in Workers, StartStep(w) \/ CallStep(w) \/ Crash(w), ~CaBank(w)
      PROVE  Unmoved'
  <2>1. CASE RqResolve(w) BY <1>1, <2>1 DEF RqResolve, bank
  <2>2. CASE ~RqResolve(w)
    <3>1. UNCHANGED bank
      BY <1>4, <2>2 DEF StartStep, CallStep, Crash, SyncStart, ExpireStart, FinalizeStart,
         RecordStart, CustomerCancel, StaffCancel, RqStart, FoStart,
         SyncMeta, UpRead, UpCas, UpRelease, SyncMark, SyncReverse, SyncReverseMark,
         FuCas, FuRelease, FuMark, RpRead, RpCommit, RpAward, RpRecheck, RpOpen, RpLost,
         RpCashback, CaClaim, CaRelease, CaFail, CaFinal, RqClaim, RqDecline, RqDefer,
         RqFinal, FoReverse, FoMark, FoRelease, FoDone
    <3> QED BY <1>1, <3>1 DEF bank
  <2> QED BY <2>1, <2>2
<1> QED BY <1>2, <1>3, <1>4

\* The row is open for a claim again only after a refusal, and only the claim
\* closes it.
LEMMA OpenSteps ==
    ASSUME Typed, OneClaim, NEW w \in Workers, StartStep(w) \/ CallStep(w) \/ Crash(w)
    PROVE  /\ Open' /\ ~Open => CaFail(w) /\ Unsent(job[w])
           /\ Open /\ ~Open' => CaClaim(w)
<1>1. order \in Order
  BY DEF Typed, TypeOK
<1> USE DEF Order, Open
<1>2. order'.refund = order.refund => (Open' <=> Open)
  OBVIOUS
<1>3. CASE StartStep(w) \/ Crash(w)
  BY <1>2, <1>3 DEF StartStep, SyncStart, ExpireStart, FinalizeStart, RecordStart,
     CustomerCancel, StaffCancel, RqStart, FoStart, Crash
<1>4. CASE CaClaim(w) BY <1>1, <1>4 DEF CaClaim
<1>5. CASE CaFail(w)
  <2>1. order'.refund = order.refund \/ order'.refund = "unknown"
        \/ (order'.refund = "failed" /\ job[w].answer \in {"declined", "rejected"})
    BY <1>1, <1>5 DEF CaFail
  <2>2. order.refund = "processing" \/ order'.refund = order.refund
    BY <1>5 DEF CaFail
  <2> QED BY <1>2, <1>5, <2>1, <2>2 DEF CaFail, Unsent
<1>6. CASE CaFinal(w) \/ RqFinal(w) \/ RqClaim(w)
  BY <1>1, <1>2, <1>6 DEF CaFinal, RqFinal, RqClaim, AsExpected, FinalizeRefund
<1>7. ~RqDecline(w)
  BY DEF RqDecline, OneClaim, ClaimOf
<1>8. CASE \/ SyncMeta(w) \/ SyncMark(w) \/ SyncReverseMark(w) \/ FuMark(w) \/ UpCas(w)
           \/ FuCas(w) \/ RpOpen(w) \/ FoMark(w) \/ FoDone(w) \/ RqDefer(w)
  BY <1>1, <1>2, <1>8 DEF SyncMeta, SyncMark, SyncReverseMark, FuMark, UpCas, FuCas, RpOpen,
     FoMark, FoDone, RqDefer
<1>9. CASE RpAward(w) \/ RpCashback(w)
  BY <1>1, <1>2, <1>9 DEF RpAward, RpCashback, CommitBonus, BonusUnavailable
<1>10. CASE \/ UpRead(w) \/ UpRelease(w) \/ SyncReverse(w) \/ FuRelease(w)
            \/ RpRead(w) \/ RpCommit(w) \/ RpRecheck(w) \/ RpLost(w)
            \/ CaRelease(w) \/ CaBank(w) \/ RqResolve(w) \/ FoReverse(w) \/ FoRelease(w)
  BY <1>2, <1>10 DEF UpRead, UpRelease, SyncReverse, FuRelease, RpRead, RpCommit,
     RpRecheck, RpLost, CaRelease, CaBank, RqResolve, FoReverse, FoRelease
<1> QED BY <1>3, <1>4, <1>5, <1>6, <1>7, <1>8, <1>9, <1>10 DEF CallStep

\* The claim closes the row, and writing a failure ends it.
LEMMA ClaimCloses ==
    ASSUME Typed, NEW w \in Workers, CaClaim(w), Claiming(job'[w])
    PROVE  ~Open'
<1>1. order \in Order /\ job \in [Workers -> Job]
  BY DEF Typed, TypeOK
<1>2. Finish(w) => job'[w] = Idle
  BY <1>1, JobAfter
<1>3. ~Finish(w)
  BY <1>2 DEF Claiming, Idle
<1> QED BY <1>1, <1>3 DEF CaClaim, Open, Order

LEMMA ClaimFails ==
    ASSUME Typed, NEW w \in Workers, CaFail(w)
    PROVE  ~Claiming(job'[w])
<1>1. job'[w] = Idle
  BY JobAfter DEF CaFail, Typed, TypeOK
<1> QED BY <1>1 DEF Claiming, Idle

\* The handler that moves: it claims an open row, asks the bank, or hears it.
LEMMA ClaimStep ==
    ASSUME Typed, ~Widget, OneClaim, NEW w \in Workers,
           StartStep(w) \/ CallStep(w) \/ Crash(w)
    PROVE  /\ Claiming(job'[w]) => Claiming(job[w]) \/ (CaClaim(w) /\ Open)
           /\ Unsent(job'[w]) => Unmoved'
           /\ job'[w].call = "caFinal" => job'[w].answer = "ok"
           /\ job'[w].call # "rqDecline"
<1>1. job \in [Workers -> Job] /\ order \in Order
  BY DEF Typed, TypeOK
<1>2. ClaimOf(job[w]) /\ (Open => Unmoved)
  BY DEF OneClaim
<1>3. /\ \A call : Go(w, call) => job'[w].call = call /\ job'[w].answer = job[w].answer
      /\ \A call, answer : Hear(w, call, answer) =>
           job'[w].call = call /\ job'[w].answer = answer
      /\ \A call, seen : Recall(w, call, seen) => job'[w].call = call
      /\ Finish(w) => job'[w].call = "idle"
  BY <1>1, JobAfter DEF Idle
<1>4. ~CaBank(w) /\ Unmoved => Unmoved'
  BY UnmovedStays
<1> USE DEF Claiming, Unsent
<1>5. CASE CaClaim(w)
  <2>1. job'[w].call \in {"caRelease", "idle"} /\ (job'[w].call = "caRelease" => Open)
    BY <1>3, <1>5 DEF CaClaim, Open
  <2>2. ~CaBank(w)
    BY <1>5 DEF CaClaim, CaBank
  <2> QED BY <1>2, <1>4, <1>5, <2>1, <2>2
<1>6. CASE CaRelease(w)
  <2>1. job[w].call = "caRelease" /\ job'[w].call = "caBank" /\ ~CaBank(w)
    BY <1>3, <1>6 DEF CaRelease, CaBank
  <2> QED BY <1>2, <1>4, <2>1 DEF ClaimOf
<1>7. CASE CaBank(w)
  <2>1. job[w].call = "caBank"
    BY <1>7 DEF CaBank
  <2>2. PICK answer \in RefundAnswers :
           /\ RefundCall(job[w].seen.req, answer)
           /\ Hear(w, IF answer = "ok" THEN "caFinal" ELSE "caFail", answer)
    BY <1>7 DEF CaBank
  <2>3. job'[w].answer = answer /\ job'[w].call = IF answer = "ok" THEN "caFinal" ELSE "caFail"
    BY <1>3, <2>2
  <2>4. CASE answer \in {"ok", "lost", "slow"}
    BY <2>1, <2>3, <2>4
  <2>5. CASE answer = "declined"
    BY <2>2, <2>5 DEF RefundCall
  <2>6. CASE answer = "rejected"
    <3>1. UNCHANGED refunds
      BY <2>2, <2>6 DEF RefundCall
    <3>2. Unmoved'
      BY <1>2, <2>1, <3>1 DEF ClaimOf, Unmoved, RefundIds
    <3> QED BY <2>1, <2>3, <2>6, <3>2
  <2> QED BY <2>4, <2>5, <2>6 DEF RefundAnswers
<1>8. CASE CaFinal(w)
  <2>1. job[w].call = "caFinal" /\ job[w].answer = "ok"
    BY <1>2, <1>8 DEF CaFinal, ClaimOf
  <2>2. job'[w].call \in {"foReverse", "caFail"} /\ job'[w].answer = "ok"
    BY <1>3, <1>8, <2>1 DEF CaFinal
  <2> QED BY <2>1, <2>2
<1>9. CASE RqResolve(w)
  <2>1. job'[w].call \in {"rqFinal", "rqDefer"}
    BY <1>3, <1>9 DEF RqResolve, Verdict
  <2> QED BY <2>1
<1>10. CASE ~(Claiming(job'[w]) \/ job'[w].call = "rqDecline")
  BY <1>10
<1> QED BY <1>5, <1>6, <1>7, <1>8, <1>9, <1>10, ClaimingCalls

LEMMA OneClaimStep ==
    ASSUME Typed, ~Widget, OneClaim, [Next]_vars
    PROVE  OneClaim'
<1>1. CASE UNCHANGED vars
  BY <1>1 DEF vars, OneClaim, ClaimOf, Claiming, Unsent, Unmoved, Open, RefundIds
<1>2. CASE Environment
  <2>1. UNCHANGED job
    BY <1>2, EnvironmentTypes DEF Typed
  <2>2. order'.refund = order.refund
    <3>1. order \in Order
      BY DEF Typed, TypeOK
    <3> QED BY <1>2, <3>1 DEF Order, Environment, StaffServe, StaffComplete, ReleaseClosed,
            BankCharge, BankDecide, StockLapses, HoldLapses, ClaimAges
  <2>3. Unmoved => Unmoved'
    BY <1>2, UnmovedStays
  <2> QED BY <2>1, <2>2, <2>3 DEF OneClaim, ClaimOf, Claiming, Open
<1>3. ASSUME NEW w \in Workers, StartStep(w) \/ CallStep(w) \/ Crash(w) PROVE OneClaim'
  <2>1. \A v \in Workers \ {w} : job'[v] = job[v]
    BY <1>3, JobTypes DEF Typed, Moved
  <2>2. /\ Claiming(job'[w]) => Claiming(job[w]) \/ (CaClaim(w) /\ Open)
        /\ Unsent(job'[w]) => Unmoved'
        /\ job'[w].call = "caFinal" => job'[w].answer = "ok"
        /\ job'[w].call # "rqDecline"
    BY <1>3, ClaimStep
  <2>3. /\ Open' /\ ~Open => CaFail(w) /\ Unsent(job[w])
        /\ Open /\ ~Open' => CaClaim(w)
    BY <1>3, OpenSteps
  <2>4. ~CaBank(w) /\ Unmoved => Unmoved'
    BY <1>3, UnmovedStays
  \* Whoever claims now claimed before, except the one that finds the row open:
  \* then nobody did.
  <2>5. \A u, v \in Workers : Claiming(job'[u]) /\ Claiming(job'[v]) => u = v
    <3>1. \A v \in Workers : Claiming(job[v]) => ~Open
      BY DEF OneClaim, ClaimOf
    <3> QED BY <2>1, <2>2, <3>1 DEF OneClaim
  <2>6. CaBank(w) \/ CaFail(w) => Claiming(job[w])
    BY DEF CaBank, CaFail, Claiming
  <2>7. Open' => Unmoved'
    <3> SUFFICES ASSUME Open' PROVE Unmoved'
      OBVIOUS
    <3>1. CASE ~Open
      <4>1. CaFail(w) /\ Unmoved
        BY <2>3, <3>1 DEF OneClaim, ClaimOf
      <4>2. ~CaBank(w)
        BY <4>1 DEF CaFail, CaBank
      <4> QED BY <2>4, <4>1, <4>2
    <3>2. CASE Open
      <4>1. Unmoved /\ ~CaBank(w)
        BY <2>6, <3>2 DEF OneClaim, ClaimOf
      <4> QED BY <2>4, <4>1
    <3> QED BY <3>1, <3>2
  \* The moving handler keeps its claim only while the row is closed.
  <2>8. Claiming(job'[w]) => ~Open'
    <3>1. SUFFICES ASSUME Claiming(job'[w]), Open' PROVE FALSE
      OBVIOUS
    <3>2. CASE Claiming(job[w])
      <4>1. CaFail(w)
        BY <2>3, <3>1, <3>2 DEF OneClaim, ClaimOf
      <4> QED BY <3>1, <4>1, ClaimFails
    <3>3. CASE CaClaim(w) /\ Open
      BY <1>3, <3>1, <3>3, ClaimCloses
    <3> QED BY <2>2, <3>1, <3>2, <3>3
  <2>9. \A v \in Workers : ClaimOf(job[v])'
    <3> SUFFICES ASSUME NEW v \in Workers PROVE ClaimOf(job[v])'
      OBVIOUS
    <3>1. CASE v = w
      BY <2>2, <2>8, <3>1 DEF ClaimOf, Claiming, Unsent
    <3>2. CASE v # w
      <4>1. job'[v] = job[v] /\ ClaimOf(job[v])
        BY <2>1, <3>2 DEF OneClaim
      <4>2. Claiming(job[v]) => ~Open'
        <5>1. SUFFICES ASSUME Claiming(job[v]), Open' PROVE FALSE
          OBVIOUS
        <5>2. CaFail(w) /\ ~Open
          BY <2>3, <4>1, <5>1 DEF ClaimOf
        <5> QED BY <2>6, <3>2, <5>1, <5>2 DEF OneClaim
      <4>3. Unsent(job[v]) => Unmoved'
        <5>1. SUFFICES ASSUME Unsent(job[v]) PROVE Unmoved'
          OBVIOUS
        <5>2. Claiming(job[v]) /\ Unmoved
          BY <4>1, <5>1 DEF Unsent, Claiming, ClaimOf
        <5>3. ~CaBank(w)
          BY <2>6, <3>2, <5>2 DEF OneClaim
        <5> QED BY <2>4, <5>2, <5>3
      <4> QED BY <4>1, <4>2, <4>3 DEF ClaimOf, Claiming, Unsent
    <3> QED BY <3>1, <3>2
  <2> QED BY <2>5, <2>7, <2>9 DEF OneClaim, Claiming
<1> QED BY <1>1, <1>2, <1>3 DEF Next

LEMMA OneClaimAlways ==
    ASSUME ~Widget
    PROVE  Spec => []OneClaim
<1>1. Init => OneClaim
  <2>1. Idle.call = "idle"
    BY DEF Idle
  <2> QED BY <2>1 DEF Init, OneClaim, ClaimOf, Claiming, Unsent, Unmoved, RefundIds
<1>2. Typed /\ OneClaim /\ [Next]_vars => OneClaim'
  BY OneClaimStep
<1> QED BY <1>1, <1>2, TypedAlways, PTL DEF Spec

\* A /flex order asks the bank for a new refund only when no earlier request moved
\* the money or still may: a failed refund is repeated only after a refusal.
THEOREM NoSecondRequest ==
    ASSUME ~Widget
    PROVE  Spec => NoSecondRefund
<1>1. ASSUME Typed, OneClaim, [Next]_vars, issued' > issued
      PROVE  \A r \in 1..issued : refunds[r] \notin {"slow", "done"}
  <2>1. issued \in 0..MaxRefunds
    BY <1>1 DEF Typed, TypeOK
  <2>2. ~UNCHANGED issued
    BY <1>1, <2>1
  <2>3. PICK w \in Workers : CaClaim(w)
    <3>1. ~UNCHANGED vars
      BY <2>2 DEF vars
    <3>2. ~Environment
      BY <2>2 DEF Environment, StaffServe, StaffComplete, ReleaseClosed, BankCharge,
         BankDecide, StockLapses, HoldLapses, ClaimAges, rest
    <3>3. PICK w \in Workers : StartStep(w) \/ CallStep(w) \/ Crash(w)
      BY <1>1, <3>1, <3>2 DEF Next
    <3>4. CaClaim(w)
      BY <2>2, <3>3 DEF StartStep, CallStep, Crash, SyncStart, ExpireStart, FinalizeStart,
         RecordStart, CustomerCancel, StaffCancel, RqStart, FoStart,
         SyncMeta, UpRead, UpCas, UpRelease, SyncMark, SyncReverse, SyncReverseMark,
         FuCas, FuRelease, FuMark, RpRead, RpCommit, RpAward, RpRecheck, RpOpen, RpLost,
         RpCashback, CaRelease, CaBank, CaFail, CaFinal, RqClaim, RqResolve, RqDecline,
         RqDefer, RqFinal, FoReverse, FoMark, FoRelease, FoDone, rest
    <3> QED BY <3>4
  <2>4. Unmoved
    BY <2>2, <2>3, <1>1 DEF CaClaim, OneClaim, Open
  <2> QED BY <2>1, <2>4, PaymentAssumption DEF Unmoved, RefundIds
<1>2. Typed /\ OneClaim /\ [Next]_vars =>
        [issued' > issued => \A r \in 1..issued : refunds[r] \notin {"slow", "done"}]_vars
  BY <1>1
<1> QED BY <1>2, TypedAlways, OneClaimAlways, PTL DEF Spec, NoSecondRefund

-------------------------------------------------------------------------------
(* A refund under way stops the service of the order, and an order is opened    *)
(* only when it is secured.                                                    *)

\* A payment that was given up may still arrive for the widget only, when the
\* cleanup expires checkouts: the settlement of such a late payment reopens a
\* cancelled order without looking at its refund.
NoExpiry == ~Widget \/ "cleanup" \notin Handlers

\* The order has left the checkout: it is shown to the kitchen, done or cancelled.
Left == order.ful # "pending"

OrderFacts ==
    /\ order.status \in {"paid", "refunded"} => charge = "paid"
    /\ order.status = "unpaid" => charge = "void"
    /\ charge # "void" => /\ order.reason # "late"
                          /\ order.reason = "auto" => order.refund # "none"
    /\ \/ order.refund # "none"
       \/ order.status = "refunded"
       \/ \E r \in RefundIds : refunds[r] # "none"
       => Left
    /\ ClaimStopsService
    /\ ~Left /\ order.awarded => ledger = "applied"

\* The calls made for an order that is being, or has been, refunded.
Refunding == {"caRelease", "caBank", "caFail", "caFinal", "rqClaim", "rqResolve",
              "rqDecline", "rqDefer", "rqFinal", "foReverse", "foMark", "foRelease",
              "foDone", "revRpc", "revMark"}

\* What a handler has been told of the payment, and what it has secured on the way
\* to opening the order.
AnswerFacts(j) ==
    /\ j.by = "cleanup" => "cleanup" \in Handlers
    /\ j.answer \in {"paid", "refunded"} => charge = "paid"
    /\ j.answer = "unpaid" => charge = "void"
    /\ j.answer = "refunded" => Left

CallFacts(j) ==
    /\ j.call = "meta" => j.answer \in {"pending", "unpaid", "paid", "refunded"}
    /\ j.call \in {"upRead", "upCas"} => j.answer \in {"unpaid", "paid", "refunded"}
    /\ j.call \in {"upRelease", "fuCas", "fuRelease", "fuMark"} => j.answer = "unpaid"
    /\ j.call \in Refunding => Left
    /\ j.call \in {"rpRead", "rpCommit", "rpAward", "rpRecheck", "rpOpen"}
         => charge = "paid"

OpeningFacts(j) ==
    /\ j.call \in {"rpCommit", "rpAward"} => ~Late(j.seen)
    /\ j.call = "rpOpen" => j.seen.ful = "pending"
    /\ j.call \in {"rpAward", "rpOpen"} /\ j.seen.ful = "pending" /\ ~Left
         => stock = "committed"
    /\ j.call \in {"rpCommit", "rpAward", "rpOpen"} /\ j.seen.awarded => order.awarded
    /\ j.call = "rpOpen" /\ SpendsBonus => order.awarded

JobFacts(j) == AnswerFacts(j) /\ CallFacts(j) /\ OpeningFacts(j)

Facts == OrderFacts /\ \A w \in Workers : JobFacts(job[w])

\* The payment, once decided, stays; an order does not return to the checkout; an
\* award is remembered.
LEMMA Lasting ==
    ASSUME Typed, [Next]_vars
    PROVE  /\ charge # "open" => charge' = charge
           /\ Left => Left'
           /\ order.awarded => order'.awarded
<1>1. order \in Order
  BY DEF Typed, TypeOK
<1> USE DEF Order, Left
<1>2. UNCHANGED <<order, charge>> => (charge # "open" => charge' = charge)
         /\ (Left => Left') /\ (order.awarded => order'.awarded)
  OBVIOUS
<1>3. CASE UNCHANGED vars BY <1>2, <1>3 DEF vars
<1>4. CASE Environment
  BY <1>1, <1>4 DEF Environment, StaffServe, StaffComplete, ReleaseClosed, BankCharge,
     BankDecide, StockLapses, HoldLapses, ClaimAges, bank
<1>5. ASSUME NEW w \in Workers, StartStep(w) \/ CallStep(w) \/ Crash(w)
      PROVE  /\ charge # "open" => charge' = charge
             /\ Left => Left'
             /\ order.awarded => order'.awarded
  <2>1. CASE StartStep(w) \/ Crash(w)
    BY <1>2, <2>1 DEF StartStep, SyncStart, ExpireStart, FinalizeStart, RecordStart,
       CustomerCancel, StaffCancel, RqStart, FoStart, Crash, bank
  <2>2. CASE \/ SyncMeta(w) \/ SyncMark(w) \/ SyncReverseMark(w) \/ FuMark(w) \/ UpCas(w)
             \/ FuCas(w) \/ RpOpen(w) \/ FoMark(w) \/ FoDone(w) \/ RqDefer(w)
             \/ CaClaim(w) \/ CaFail(w) \/ RqClaim(w) \/ RqDecline(w)
    BY <1>1, <2>2 DEF SyncMeta, SyncMark, SyncReverseMark, FuMark, UpCas, FuCas, RpOpen,
       FoMark, FoDone, RqDefer, CaClaim, CaFail, RqClaim, RqDecline, bank
  <2>3. CASE CaFinal(w) \/ RqFinal(w)
    BY <1>1, <2>3 DEF CaFinal, RqFinal, FinalizeRefund, bank
  <2>4. CASE RpAward(w) \/ RpCashback(w)
    BY <1>1, <2>4 DEF RpAward, RpCashback, CommitBonus, BonusUnavailable, bank
  <2>5. CASE CaBank(w) \/ RqResolve(w)
    BY <1>2, <2>5 DEF CaBank, RqResolve, RefundCall, bank
  <2>6. CASE \/ UpRead(w) \/ UpRelease(w) \/ SyncReverse(w) \/ FuRelease(w)
             \/ RpRead(w) \/ RpCommit(w) \/ RpRecheck(w) \/ RpLost(w)
             \/ CaRelease(w) \/ FoReverse(w) \/ FoRelease(w)
    BY <1>2, <2>6 DEF UpRead, UpRelease, SyncReverse, FuRelease, RpRead, RpCommit,
       RpRecheck, RpLost, CaRelease, FoReverse, FoRelease, bank
  <2> QED BY <1>5, <2>1, <2>2, <2>3, <2>4, <2>5, <2>6 DEF CallStep
<1> QED BY <1>3, <1>4, <1>5 DEF Next

\* Until a paid order is opened nobody gives its committed stock back: the releases
\* belong to orders that will not be paid, or that left the checkout.
LEMMA StockStays ==
    ASSUME Typed, Facts, [Next]_vars, charge = "paid", ~Left, stock = "committed"
    PROVE  stock' = "committed"
<1>1. CASE UNCHANGED stock BY <1>1
<1>2. CASE UNCHANGED vars BY <1>2 DEF vars
<1>3. /\ order.status # "unpaid" /\ order.status # "refunded"
      /\ order.ful \notin {"completed", "cancelled"}
  BY DEF Facts, OrderFacts, Left
<1>4. CASE Environment
  BY <1>3, <1>4 DEF Environment, StaffServe, StaffComplete, ReleaseClosed, BankCharge,
     BankDecide, StockLapses, HoldLapses, ClaimAges
<1>5. ASSUME NEW w \in Workers, StartStep(w) \/ CallStep(w) \/ Crash(w)
      PROVE  stock' = "committed"
  <2>1. AnswerFacts(job[w]) /\ CallFacts(job[w])
    BY DEF Facts, JobFacts
  <2>2. job[w].answer # "unpaid"
    BY <2>1 DEF AnswerFacts
  <2>3. ~UpRelease(w) /\ ~FuRelease(w)
    BY <2>1, <2>2 DEF UpRelease, FuRelease, CallFacts
  <2>4. ~CaRelease(w) /\ ~FoRelease(w)
    BY <2>1 DEF CaRelease, FoRelease, CallFacts, Refunding
  <2>5. CASE RpCommit(w) BY <2>5 DEF RpCommit
  <2>6. CASE ~RpCommit(w)
    <3>1. UNCHANGED stock
      BY <1>5, <2>3, <2>4, <2>6
      DEF StartStep, CallStep, Crash, SyncStart, ExpireStart, FinalizeStart, RecordStart,
          CustomerCancel, StaffCancel, RqStart, FoStart,
          SyncMeta, UpRead, UpCas, SyncMark, SyncReverse, SyncReverseMark, FuCas, FuMark,
          RpRead, RpAward, RpRecheck, RpOpen, RpLost, RpCashback, CaClaim, CaBank, CaFail,
          CaFinal, RqClaim, RqResolve, RqDecline, RqDefer, RqFinal, FoReverse, FoMark, FoDone
    <3> QED BY <1>1, <3>1
  <2> QED BY <2>5, <2>6
<1> QED BY <1>2, <1>4, <1>5 DEF Next

\* What is true of a handler's memory stays true while others move.
LEMMA JobFactsStay ==
    ASSUME Typed, Facts, [Next]_vars
    PROVE  \A j \in Job : JobFacts(j) => JobFacts(j)'
<1> SUFFICES ASSUME NEW j \in Job, JobFacts(j) PROVE JobFacts(j)'
  OBVIOUS
<1>1. /\ charge # "open" => charge' = charge
      /\ Left => Left'
      /\ order.awarded => order'.awarded
  BY Lasting
<1>2. AnswerFacts(j)'
  BY <1>1 DEF JobFacts, AnswerFacts
<1>3. CallFacts(j)'
  BY <1>1 DEF JobFacts, CallFacts
<1>4. charge = "paid" /\ (~Left => stock = "committed") => (~Left' => stock' = "committed")
  BY <1>1, StockStays
<1>5. OpeningFacts(j)'
  BY <1>1, <1>4 DEF JobFacts, OpeningFacts, CallFacts, Late
<1> QED BY <1>2, <1>3, <1>5 DEF JobFacts

\* All of a handler's memory after its step.
LEMMA JobNext ==
    ASSUME job \in [Workers -> Job], NEW w \in Workers
    PROVE  /\ Finish(w) => job'[w] = Idle
           /\ \A call, by, answer, seen : Become(w, call, by, answer, seen) =>
                /\ job'[w].call = call /\ job'[w].by = by
                /\ job'[w].answer = answer /\ job'[w].seen = seen
           /\ \A call : Go(w, call) =>
                /\ job'[w].call = call /\ job'[w].by = job[w].by
                /\ job'[w].answer = job[w].answer /\ job'[w].seen = job[w].seen
           /\ \A call, answer : Hear(w, call, answer) =>
                /\ job'[w].call = call /\ job'[w].by = job[w].by
                /\ job'[w].answer = answer /\ job'[w].seen = job[w].seen
           /\ \A call, seen : Recall(w, call, seen) =>
                /\ job'[w].call = call /\ job'[w].by = job[w].by
                /\ job'[w].answer = job[w].answer /\ job'[w].seen = seen
<1>1. ASSUME NEW call, NEW by, NEW answer, NEW seen, Become(w, call, by, answer, seen)
      PROVE  /\ job'[w].call = call /\ job'[w].by = by
             /\ job'[w].answer = answer /\ job'[w].seen = seen
  <2>1. job'[w] = [call |-> call, by |-> by, answer |-> answer, seen |-> seen]
    BY <1>1 DEF Become
  <2> QED BY <2>1
<1>2. Finish(w) => job'[w] = Idle
  BY DEF Finish
<1>3. ASSUME NEW call, Go(w, call)
      PROVE  /\ job'[w].call = call /\ job'[w].by = job[w].by
             /\ job'[w].answer = job[w].answer /\ job'[w].seen = job[w].seen
  BY <1>1, <1>3 DEF Go
<1>4. ASSUME NEW call, NEW answer, Hear(w, call, answer)
      PROVE  /\ job'[w].call = call /\ job'[w].by = job[w].by
             /\ job'[w].answer = answer /\ job'[w].seen = job[w].seen
  BY <1>1, <1>4 DEF Hear
<1>5. ASSUME NEW call, NEW seen, Recall(w, call, seen)
      PROVE  /\ job'[w].call = call /\ job'[w].by = job[w].by
             /\ job'[w].answer = job[w].answer /\ job'[w].seen = seen
  BY <1>1, <1>5 DEF Recall
<1> QED BY <1>1, <1>2, <1>3, <1>4, <1>5

\* The steps that secure something, or claim the refund: they make true what the
\* handler then relies on.
Securing(w) == RpCommit(w) \/ RpAward(w) \/ CaClaim(w)

\* What starts a handler is true of it.
LEMMA StartFacts ==
    ASSUME Typed, Facts, NEW w \in Workers, StartStep(w)
    PROVE  JobFacts(job'[w])
<1>1. job \in [Workers -> Job] /\ OrderFacts
  BY DEF Typed, TypeOK, Facts
<1>2. \A call, by, answer, seen : Start(w, call, by, answer, seen) =>
         /\ job'[w].call = call /\ job'[w].by = by
         /\ job'[w].answer = answer /\ job'[w].seen = seen
  BY <1>1, JobNext DEF Start
<1> USE DEF JobFacts, AnswerFacts, CallFacts, OpeningFacts, Refunding
<1>3. /\ BankAnswer \in {"pending", "unpaid", "paid", "refunded"}
      /\ BankAnswer \in {"paid", "refunded"} => charge = "paid"
      /\ BankAnswer = "unpaid" => charge = "void"
      /\ BankAnswer = "refunded" => Left
  <2>1. charge \in {"open", "paid", "void"}
    BY DEF Typed, TypeOK
  <2>2. (\E r \in RefundIds : refunds[r] = "done") => Left
    BY <1>1 DEF OrderFacts
  <2> QED BY <2>1, <2>2 DEF BankAnswer
<1>4. CASE SyncStart(w)
  BY <1>2, <1>3, <1>4 DEF SyncStart
<1>5. CASE ExpireStart(w)
  BY <1>2, <1>3, <1>5 DEF ExpireStart
<1>6. CASE FinalizeStart(w)
  BY <1>1, <1>2, <1>6 DEF FinalizeStart, OrderFacts
<1>7. CASE RecordStart(w)
  BY <1>1, <1>2, <1>7 DEF RecordStart, OrderFacts
<1>8. CASE CustomerCancel(w) \/ StaffCancel(w, "admin") \/ StaffCancel(w, "kitchen")
  BY <1>2, <1>8 DEF CustomerCancel, StaffCancel
<1>9. CASE RqStart(w)
  BY <1>1, <1>2, <1>9 DEF RqStart, OrderFacts
<1>10. CASE FoStart(w)
  BY <1>1, <1>2, <1>10 DEF FoStart, OrderFacts
<1> QED BY <1>4, <1>5, <1>6, <1>7, <1>8, <1>9, <1>10 DEF StartStep

\* A call leaves the handler with what is true already, the securing steps apart.
LEMMA CallStepFacts ==
    ASSUME Typed, Facts, NoExpiry, NEW w \in Workers, CallStep(w), ~Securing(w)
    PROVE  JobFacts(job'[w])
<1>1. job \in [Workers -> Job] /\ order \in Order /\ OrderFacts
  BY DEF Typed, TypeOK, Facts
<1>2. AnswerFacts(job[w]) /\ CallFacts(job[w]) /\ OpeningFacts(job[w])
  BY DEF Facts, JobFacts
<1> DEFINE F == JobFacts(job'[w])
<1>3. Finish(w) => F
  BY <1>1, JobNext
  DEF JobFacts, AnswerFacts, CallFacts, OpeningFacts, Refunding, Idle
\* How a handler goes on decides what has to be shown of it.
<1>4. /\ \A call : Go(w, call) =>
           /\ job'[w].call = call /\ job'[w].by = job[w].by
           /\ job'[w].answer = job[w].answer /\ job'[w].seen = job[w].seen
      /\ \A call, answer : Hear(w, call, answer) =>
           /\ job'[w].call = call /\ job'[w].by = job[w].by
           /\ job'[w].answer = answer /\ job'[w].seen = job[w].seen
      /\ \A call, seen : Recall(w, call, seen) =>
           /\ job'[w].call = call /\ job'[w].by = job[w].by
           /\ job'[w].answer = job[w].answer /\ job'[w].seen = seen
      /\ \A row : RefundUnavailable(w, row) =>
           /\ job'[w].call = "caClaim" /\ job'[w].by = "auto"
           /\ job'[w].answer = job[w].answer
  BY <1>1, JobNext DEF RefundUnavailable
<1> SUFFICES F
  OBVIOUS
<1> HIDE DEF F
<1>5. job'[w].by \in {job[w].by, "auto"} /\ job'[w].answer = job[w].answer
        => AnswerFacts(job'[w])
  BY <1>2 DEF AnswerFacts
<1>6. job'[w].call \in {"idle", "mark", "rpLost", "rpCashback", "caClaim"}
        => CallFacts(job'[w]) /\ OpeningFacts(job'[w])
  BY DEF CallFacts, OpeningFacts, Refunding
<1>7. job'[w].call \notin {"rpCommit", "rpAward", "rpOpen"} => OpeningFacts(job'[w])
  BY DEF OpeningFacts
<1>8. AnswerFacts(job'[w]) /\ CallFacts(job'[w]) /\ OpeningFacts(job'[w]) => F
  BY DEF F, JobFacts
<1>9. \A row : RefundUnavailable(w, row) => F
  BY <1>4, <1>5, <1>6, <1>8
<1>10. Recorded(w) => F
  BY <1>3, <1>4, <1>5, <1>6, <1>8 DEF Recorded
<1>11. Continue(w) /\ job[w].answer \in {"unpaid", "paid", "refunded"} => F
  <2> SUFFICES ASSUME Continue(w), job[w].answer \in {"unpaid", "paid", "refunded"},
                      ~Finish(w)
               PROVE  F
    BY <1>3
  <2>1. /\ job'[w].call = CASE job[w].answer = "paid" -> "rpRead"
                            [] job[w].answer = "refunded" -> "revRpc"
                            [] OTHER -> "fuCas"
        /\ job'[w].by = job[w].by /\ job'[w].answer = job[w].answer
    BY <1>4 DEF Continue
  <2>2. CallFacts(job'[w])
    BY <1>2, <2>1 DEF CallFacts, AnswerFacts, Refunding
  <2> QED BY <1>5, <1>7, <1>8, <2>1, <2>2
<1>12. CASE SyncMeta(w)
  <2>1. job[w].answer # "pending" => F
    <3>1. SUFFICES ASSUME job[w].answer # "pending" PROVE F
      OBVIOUS
    <3>2. Go(w, "upRead") /\ job[w].answer \in {"unpaid", "paid", "refunded"}
      BY <1>2, <1>12, <3>1 DEF SyncMeta, CallFacts
    <3>3. CallFacts(job'[w])
      BY <1>4, <3>2 DEF CallFacts, Refunding
    <3> QED BY <1>4, <1>5, <1>7, <1>8, <3>2, <3>3
  <2>2. ~(job[w].by = "cleanup" /\ Widget)
    BY <1>2 DEF AnswerFacts, NoExpiry
  <2> QED BY <1>3, <1>12, <2>1, <2>2 DEF SyncMeta
<1>13. CASE UpRead(w)
  <2>1. job[w].answer \in {"unpaid", "paid", "refunded"}
    BY <1>2, <1>13 DEF UpRead, CallFacts
  <2>2. CASE Continue(w) BY <1>11, <2>1, <2>2
  <2>3. CASE ~Continue(w)
    <3>1. job'[w].call = "upCas" /\ job'[w].by = job[w].by
          /\ job'[w].answer = job[w].answer
      BY <1>4, <1>13, <2>3 DEF UpRead
    <3>2. CallFacts(job'[w])
      BY <2>1, <3>1 DEF CallFacts, Refunding
    <3> QED BY <1>5, <1>7, <1>8, <3>1, <3>2
  <2> QED BY <2>2, <2>3
<1>14. CASE UpCas(w)
  <2>1. job[w].answer \in {"unpaid", "paid", "refunded"}
    BY <1>2, <1>14 DEF UpCas, CallFacts
  <2>2. CASE Continue(w) BY <1>11, <2>1, <2>2
  <2>3. CASE ~Continue(w)
    <3>1. Go(w, "upRelease") /\ job[w].answer = "unpaid"
      BY <1>14, <2>3 DEF UpCas
    <3>2. CallFacts(job'[w])
      BY <1>4, <3>1 DEF CallFacts, Refunding
    <3> QED BY <1>4, <1>5, <1>7, <1>8, <3>1, <3>2
  <2> QED BY <2>2, <2>3
<1>15. CASE UpRelease(w)
  BY <1>2, <1>11, <1>15 DEF UpRelease, CallFacts
<1>16. CASE SyncMark(w) \/ FuMark(w) \/ CaFail(w) \/ RqDecline(w) \/ RqDefer(w) \/ FoDone(w)
  BY <1>3, <1>16 DEF SyncMark, FuMark, CaFail, RqDecline, RqDefer, FoDone
<1>17. CASE SyncReverse(w) \/ SyncReverseMark(w)
  <2>1. Left /\ job'[w].call \in {"revMark", "mark"} /\ job'[w].by = job[w].by
        /\ job'[w].answer = job[w].answer
    BY <1>2, <1>4, <1>17 DEF SyncReverse, SyncReverseMark, CallFacts, Refunding
  <2>2. CallFacts(job'[w])
    BY <2>1 DEF CallFacts, Refunding
  <2> QED BY <1>5, <1>7, <1>8, <2>1, <2>2
<1>18. CASE FuCas(w) \/ FuRelease(w)
  <2>1. CASE Finish(w) BY <1>3, <2>1
  <2>2. CASE ~Finish(w)
    <3>1. job[w].answer = "unpaid" /\ job'[w].call \in {"fuRelease", "fuMark"}
          /\ job'[w].by = job[w].by /\ job'[w].answer = job[w].answer
      BY <1>2, <1>4, <1>18, <2>2 DEF FuCas, FuRelease, CallFacts
    <3>2. CallFacts(job'[w])
      BY <3>1 DEF CallFacts, Refunding
    <3> QED BY <1>5, <1>7, <1>8, <3>1, <3>2
  <2> QED BY <2>1, <2>2
<1>19. CASE RpRead(w)
  <2> SUFFICES ASSUME ~Finish(w), ~Recorded(w), \A row : ~RefundUnavailable(w, row)
               PROVE  F
    BY <1>3, <1>9, <1>10
  <2>1. /\ charge = "paid" /\ ~LiveRefund /\ ~(order.reason = "auto" /\ order.refund = "failed")
        /\ Recall(w, IF BeforeService(order) \/ Late(order) THEN "rpCommit"
                     ELSE IF SpendsBonus /\ ~order.awarded THEN "rpAward"
                     ELSE "rpCashback", Read)
    BY <1>2, <1>19 DEF RpRead, CallFacts
  <2>2. ~Late(order)
    BY <1>1, <2>1 DEF OrderFacts, Late, LiveRefund, Order, RefundStatus
  <2>3. /\ Read.ful = order.ful /\ Read.reason = order.reason
        /\ Read.awarded = order.awarded
    BY DEF Read
  <2>4. /\ job'[w].call \in {"rpCommit", "rpAward", "rpCashback"}
        /\ job'[w].call = "rpAward" => ~BeforeService(order)
        /\ job'[w].by = job[w].by /\ job'[w].answer = job[w].answer
        /\ job'[w].seen = Read
    BY <1>4, <2>1
  <2>5. CallFacts(job'[w])
    BY <2>1, <2>4 DEF CallFacts, Refunding
  <2>6. OpeningFacts(job'[w])
    BY <2>2, <2>3, <2>4 DEF OpeningFacts, Late, BeforeService
  <2> QED BY <1>5, <1>8, <2>4, <2>5, <2>6
<1>20. CASE RpRecheck(w)
  BY <1>3, <1>9, <1>10, <1>20 DEF RpRecheck
<1>21. CASE RpOpen(w)
  <2>1. job'[w].call \in {"rpCashback", "rpLost"} /\ job'[w].by = job[w].by
        /\ job'[w].answer = job[w].answer
    BY <1>4, <1>21 DEF RpOpen
  <2> QED BY <1>5, <1>6, <1>8, <2>1
<1>22. CASE RpLost(w)
  <2>1. CASE Finish(w) \/ Recorded(w) BY <1>3, <1>10, <2>1
  <2>2. CASE Go(w, "rpCashback") BY <1>4, <1>5, <1>6, <1>8, <2>2
  <2> QED BY <1>22, <2>1, <2>2 DEF RpLost
<1>23. CASE RpCashback(w)
  BY <1>3, <1>10, <1>23 DEF RpCashback
\* The calls of a refund: the order has left the checkout.
<1>24. /\ Left
       /\ job'[w].call \in {"caBank", "caFail", "caFinal", "rqResolve", "rqFinal",
                            "rqDecline", "rqDefer", "foReverse", "foMark", "foRelease",
                            "foDone"}
       /\ job'[w].by = job[w].by
       /\ job'[w].answer = job[w].answer \/ job'[w].answer \in RefundAnswers
       => F
  <2> SUFFICES ASSUME Left,
         job'[w].call \in {"caBank", "caFail", "caFinal", "rqResolve", "rqFinal",
                           "rqDecline", "rqDefer", "foReverse", "foMark", "foRelease",
                           "foDone"},
         job'[w].by = job[w].by,
         job'[w].answer = job[w].answer \/ job'[w].answer \in RefundAnswers
       PROVE F
    OBVIOUS
  <2>1. AnswerFacts(job'[w])
    BY <1>2, <1>5 DEF AnswerFacts, RefundAnswers
  <2>2. CallFacts(job'[w])
    BY DEF CallFacts, Refunding
  <2> QED BY <1>7, <1>8, <2>1, <2>2
<1>25. job[w].call \in Refunding => Left
  BY <1>2 DEF CallFacts
<1>26. CASE CaRelease(w) \/ CaFinal(w)
  BY <1>4, <1>24, <1>25, <1>26 DEF CaRelease, CaFinal, Refunding
<1>27. CASE CaBank(w)
  <2>1. PICK answer \in RefundAnswers :
           Hear(w, IF answer = "ok" THEN "caFinal" ELSE "caFail", answer)
    BY <1>27 DEF CaBank
  <2> QED BY <1>4, <1>24, <1>25, <1>27, <2>1 DEF CaBank, Refunding
<1>28. CASE RqClaim(w)
  BY <1>3, <1>4, <1>24, <1>25, <1>28 DEF RqClaim, Refunding
<1>29. CASE RqResolve(w)
  <2>1. PICK answer \in RefundAnswers : Hear(w, Verdict(answer), answer)
    BY <1>29 DEF RqResolve, RefundAnswers
  <2>2. Verdict(answer) \in {"rqFinal", "rqDecline", "rqDefer"}
    BY DEF Verdict
  <2> QED BY <1>4, <1>24, <1>25, <1>29, <2>1, <2>2 DEF RqResolve, Refunding
<1>30. CASE RqFinal(w)
  BY <1>3, <1>4, <1>24, <1>25, <1>30 DEF RqFinal, Refunding
<1>31. CASE FoReverse(w)
  BY <1>4, <1>24, <1>25, <1>31 DEF FoReverse, Refunding, RefundAnswers
<1>32. CASE FoMark(w) \/ FoRelease(w)
  BY <1>4, <1>24, <1>25, <1>32 DEF FoMark, FoRelease, Refunding
<1> QED BY <1>12, <1>13, <1>14, <1>15, <1>16, <1>17, <1>18, <1>19, <1>20, <1>21, <1>22,
           <1>23, <1>26, <1>27, <1>28, <1>29, <1>30, <1>31, <1>32
        DEF CallStep, Securing

\* The stock is committed and the bonuses are debited before the order is opened; the
\* claim takes the order out of the checkout before anything is given back.
LEMMA SecuringFacts ==
    ASSUME Typed, Facts, NEW w \in Workers, Securing(w), [Next]_vars
    PROVE  JobFacts(job[w])'
<1>1. job \in [Workers -> Job] /\ order \in Order
  BY DEF Typed, TypeOK
<1>2. AnswerFacts(job[w]) /\ CallFacts(job[w]) /\ OpeningFacts(job[w])
  BY DEF Facts, JobFacts
<1>3. /\ charge # "open" => charge' = charge
      /\ Left => Left'
      /\ order.awarded => order'.awarded
  BY Lasting
<1>4. /\ \A call : Go(w, call) =>
           /\ job'[w].call = call /\ job'[w].by = job[w].by
           /\ job'[w].answer = job[w].answer /\ job'[w].seen = job[w].seen
      /\ \A call, seen : Recall(w, call, seen) =>
           /\ job'[w].call = call /\ job'[w].by = job[w].by
           /\ job'[w].answer = job[w].answer /\ job'[w].seen = seen
      /\ \A row : RefundUnavailable(w, row) =>
           /\ job'[w].call = "caClaim" /\ job'[w].by = "auto"
           /\ job'[w].answer = job[w].answer
      /\ Finish(w) => /\ job'[w].call = "idle" /\ job'[w].by = "none"
                      /\ job'[w].answer = "none"
  BY <1>1, JobNext DEF RefundUnavailable, Idle
<1>5. (job'[w].by \in {job[w].by, "auto"} /\ job'[w].answer = job[w].answer)
        \/ (job'[w].by = "none" /\ job'[w].answer = "none") => AnswerFacts(job[w])'
  BY <1>2, <1>3 DEF AnswerFacts
<1>6. job'[w].call \in {"idle", "rpCashback", "caClaim"}
        => CallFacts(job[w])' /\ OpeningFacts(job[w])'
  BY DEF CallFacts, OpeningFacts, Refunding
<1>7. \A row : RefundUnavailable(w, row) => JobFacts(job[w])'
  BY <1>4, <1>5, <1>6 DEF JobFacts
<1>8. CASE RpCommit(w)
  <2> SUFFICES ASSUME ~RefundUnavailable(w, job[w].seen) PROVE JobFacts(job[w])'
    BY <1>7
  <2>1. /\ stock' = "committed" /\ charge = "paid" /\ ~Late(job[w].seen)
        /\ Go(w, IF SpendsBonus /\ ~job[w].seen.awarded THEN "rpAward"
                 ELSE AfterAward(job[w].seen))
    BY <1>2, <1>8 DEF RpCommit, CallFacts, OpeningFacts
  <2>2. /\ job'[w].call = IF SpendsBonus /\ ~job[w].seen.awarded THEN "rpAward"
                          ELSE IF job[w].seen.ful = "pending" THEN "rpOpen"
                          ELSE "rpCashback"
        /\ job'[w].by = job[w].by /\ job'[w].answer = job[w].answer
        /\ job'[w].seen = job[w].seen
    BY <1>4, <2>1 DEF AfterAward
  <2>3. job[w].seen.awarded => order'.awarded
    BY <1>2, <1>3, <1>8 DEF OpeningFacts, RpCommit
  <2>4. CallFacts(job[w])'
    BY <1>3, <2>1, <2>2 DEF CallFacts, Refunding
  <2>5. OpeningFacts(job[w])'
    BY <2>1, <2>2, <2>3 DEF OpeningFacts, Late
  <2> QED BY <1>5, <2>2, <2>4, <2>5 DEF JobFacts
<1>9. CASE RpAward(w)
  <2>1. /\ charge = "paid" /\ ~Late(job[w].seen)
        /\ job[w].seen.ful = "pending" /\ ~Left => stock = "committed"
    BY <1>2, <1>9 DEF RpAward, CallFacts, OpeningFacts
  <2>2. UNCHANGED stock
    BY <1>9 DEF RpAward
  <2>3. CASE Go(w, "rpRecheck")
    <3>1. /\ job'[w].call = "rpRecheck"
          /\ job'[w].by = job[w].by /\ job'[w].answer = job[w].answer
      BY <1>4, <2>3
    <3>2. CallFacts(job[w])' /\ OpeningFacts(job[w])'
      BY <1>3, <2>1, <3>1 DEF CallFacts, OpeningFacts, Refunding
    <3> QED BY <1>5, <3>1, <3>2 DEF JobFacts
  <2>4. CASE CommitBonus /\ Go(w, AfterAward(job[w].seen))
    <3>1. order'.awarded
      BY <1>1, <2>4 DEF CommitBonus, Order
    <3>2. /\ job'[w].call = IF job[w].seen.ful = "pending" THEN "rpOpen"
                            ELSE "rpCashback"
          /\ job'[w].by = job[w].by /\ job'[w].answer = job[w].answer
          /\ job'[w].seen = job[w].seen
      BY <1>4, <2>1, <2>4 DEF AfterAward
    <3>3. CallFacts(job[w])'
      BY <1>3, <2>1, <3>2 DEF CallFacts, Refunding
    <3>4. OpeningFacts(job[w])'
      BY <1>3, <2>1, <2>2, <3>1, <3>2 DEF OpeningFacts
    <3> QED BY <1>5, <3>2, <3>3, <3>4 DEF JobFacts
  <2> QED BY <1>9, <2>3, <2>4 DEF RpAward
<1>10. CASE CaClaim(w)
  <2>1. CASE Finish(w)
    BY <1>4, <1>5, <1>6, <2>1 DEF JobFacts
  <2>2. CASE ~Finish(w)
    <3>1. /\ job'[w].call = "caRelease"
          /\ job'[w].by = job[w].by /\ job'[w].answer = job[w].answer
      BY <1>4, <1>10, <2>2 DEF CaClaim
    <3>2. Left'
      BY <1>1, <1>10, <2>2 DEF CaClaim, Left, Order
    <3>3. CallFacts(job[w])' /\ OpeningFacts(job[w])'
      BY <3>1, <3>2 DEF CallFacts, OpeningFacts, Refunding
    <3> QED BY <1>5, <3>1, <3>3 DEF JobFacts
  <2> QED BY <2>1, <2>2
<1> QED BY <1>8, <1>9, <1>10 DEF Securing

LEMMA JobFactsStep ==
    ASSUME Typed, Facts, NoExpiry, [Next]_vars
    PROVE  \A w \in Workers : JobFacts(job[w])'
<1>1. \A j \in Job : JobFacts(j) => JobFacts(j)'
  BY JobFactsStay
<1>2. job \in [Workers -> Job] /\ \A w \in Workers : JobFacts(job[w])
  BY DEF Typed, TypeOK, Facts
<1> USE DEF JobFacts, AnswerFacts, CallFacts, OpeningFacts
<1>3. \A w \in Workers : job'[w] \in Job /\ JobFacts(job'[w]) => JobFacts(job[w])'
  BY <1>1
<1>4. CASE UNCHANGED vars \/ Environment
  <2>1. UNCHANGED job
    BY <1>4, EnvironmentTypes DEF vars, Typed
  <2> QED BY <1>2, <1>3, <2>1
<1>5. ASSUME NEW w \in Workers, StartStep(w) \/ CallStep(w) \/ Crash(w)
      PROVE  \A v \in Workers : JobFacts(job[v])'
  <2>1. job' \in [Workers -> Job] /\ \A v \in Workers \ {w} : job'[v] = job[v]
    BY <1>5, JobTypes DEF Typed, Moved
  <2>2. \A v \in Workers \ {w} : JobFacts(job[v])'
    BY <1>2, <1>3, <2>1
  <2>3. JobFacts(job[w])'
    <3>1. CASE Securing(w)
      BY <3>1, SecuringFacts
    <3>2. CASE StartStep(w)
      BY <1>3, <2>1, <3>2, StartFacts
    <3>3. CASE CallStep(w) /\ ~Securing(w)
      BY <1>3, <2>1, <3>3, CallStepFacts
    <3>4. CASE Crash(w)
      <4>1. job'[w] = Idle
        BY <1>2, <3>4, JobNext DEF Crash
      <4>2. JobFacts(Idle)
        BY DEF Idle, Refunding
      <4> QED BY <1>3, <2>1, <4>1, <4>2
    <3> QED BY <1>5, <3>1, <3>2, <3>3, <3>4
  <2> QED BY <2>2, <2>3
<1> QED BY <1>4, <1>5 DEF Next

\* A step that leaves the row's states alone, and touches the bonuses and the
\* refunds only of an order that has left the checkout.
Quiet ==
    /\ order'.status = order.status /\ order'.ful = order.ful
    /\ order'.reason = order.reason /\ order'.refund = order.refund
    /\ order'.awarded = order.awarded
    /\ \/ Left
       \/ ledger' = ledger /\ \A r \in RefundIds : refunds'[r] # "none" => refunds[r] # "none"

LEMMA OrderFactsStep ==
    ASSUME Typed, Facts, [Next]_vars
    PROVE  OrderFacts'
<1>1. order \in Order /\ charge \in {"open", "paid", "void"} /\ job \in [Workers -> Job]
  BY DEF Typed, TypeOK
<1>2. OrderFacts
  BY DEF Facts
<1>3. /\ charge # "open" => charge' = charge
      /\ Left => Left'
  BY Lasting
<1> USE DEF Left, RefundIds
<1>4. Quiet => OrderFacts'
  BY <1>2, <1>3 DEF Quiet, OrderFacts, ClaimStopsService
<1>5. UNCHANGED <<order, ledger, refunds>> => OrderFacts'
  BY <1>4 DEF Quiet
<1>6. CASE UNCHANGED vars BY <1>5, <1>6 DEF vars
<1> USE DEF Order
<1>7. CASE Environment
  <2>1. CASE StaffServe \/ StaffComplete
    <3>1. /\ order'.status = order.status /\ order'.refund = order.refund
          /\ order'.awarded = order.awarded /\ order'.reason \in {order.reason, "none"}
          /\ order'.ful \in {"work", "completed"} /\ ~LiveRefund
          /\ UNCHANGED <<ledger, charge, refunds>>
      BY <1>1, <2>1 DEF StaffServe, StaffComplete, bonus, bank
    <3> QED BY <1>2, <3>1 DEF OrderFacts, ClaimStopsService, LiveRefund
  <2>2. CASE BankDecide
    <3>1. \A r \in RefundIds : refunds'[r] # "none" => refunds[r] # "none"
      <4>1. refunds \in [RefundIds -> {"none", "slow", "done", "declined"}]
        BY DEF Typed, TypeOK
      <4> QED BY <2>2, <4>1 DEF BankDecide
    <3> QED BY <1>4, <2>2, <3>1 DEF BankDecide, Quiet, bonus
  <2>3. CASE ReleaseClosed \/ BankCharge \/ StockLapses \/ HoldLapses \/ ClaimAges
    BY <1>5, <2>3 DEF ReleaseClosed, BankCharge, StockLapses, HoldLapses, ClaimAges, bonus,
       bank
  <2> QED BY <1>7, <2>1, <2>2, <2>3 DEF Environment
<1>8. ASSUME NEW w \in Workers, StartStep(w) \/ Crash(w) PROVE OrderFacts'
  BY <1>5, <1>8 DEF StartStep, SyncStart, ExpireStart, FinalizeStart, RecordStart,
     CustomerCancel, StaffCancel, RqStart, FoStart, Crash, bonus, bank
<1>9. ASSUME NEW w \in Workers, CallStep(w) PROVE OrderFacts'
  <2>1. AnswerFacts(job[w]) /\ CallFacts(job[w]) /\ OpeningFacts(job[w])
    BY DEF Facts, JobFacts
  <2>2. CASE SyncMeta(w) \/ SyncMark(w) \/ SyncReverseMark(w) \/ FuMark(w) \/ FoMark(w)
             \/ FoDone(w) \/ RqDefer(w)
    <3>1. Quiet
      BY <1>1, <2>2 DEF SyncMeta, SyncMark, SyncReverseMark, FuMark, FoMark, FoDone,
         RqDefer, Quiet, bonus, bank
    <3> QED BY <1>4, <3>1
  <2>3. CASE SyncReverse(w) \/ FoReverse(w)
    <3>1. Left
      BY <2>1, <2>3 DEF SyncReverse, FoReverse, CallFacts, Refunding
    <3> QED BY <1>4, <2>3, <3>1 DEF SyncReverse, FoReverse, Quiet
  <2>4. CASE CaBank(w) \/ RqResolve(w)
    <3>1. Left
      BY <2>1, <2>4 DEF CaBank, RqResolve, CallFacts, Refunding
    <3> QED BY <1>4, <2>4, <3>1 DEF CaBank, RqResolve, Quiet
  <2>5. CASE UpCas(w)
    <3>1. /\ order'.ful = order.ful /\ order'.reason = order.reason
          /\ order'.refund = order.refund /\ order'.awarded = order.awarded
          /\ order'.status \in {order.status, job[w].answer}
          /\ UNCHANGED <<ledger, charge, refunds>>
      BY <1>1, <2>5 DEF UpCas, bank
    <3> QED BY <1>2, <2>1, <3>1 DEF OrderFacts, ClaimStopsService, AnswerFacts
  <2>6. CASE FuCas(w)
    <3>1. charge = "void"
      BY <2>1, <2>6 DEF FuCas, CallFacts, AnswerFacts
    <3>2. /\ order'.status = order.status
          /\ order'.refund = order.refund /\ order'.awarded = order.awarded
          /\ order'.ful \in {order.ful, "cancelled"}
          /\ UNCHANGED <<ledger, charge, refunds>>
      BY <1>1, <2>6 DEF FuCas, bonus, bank
    <3> QED BY <1>2, <3>1, <3>2 DEF OrderFacts, ClaimStopsService
  <2>7. CASE RpAward(w) \/ RpCashback(w)
    <3>1. CASE UNCHANGED <<order, bonus>>
      BY <1>5, <2>7, <3>1 DEF RpAward, RpCashback, bonus, bank
    <3>2. CASE CommitBonus
      <4>1. /\ order'.status = order.status /\ order'.ful = order.ful
            /\ order'.reason = order.reason /\ order'.refund = order.refund
            /\ IF order.awarded THEN ledger' = ledger ELSE ledger' = "applied"
        BY <1>1, <3>2 DEF CommitBonus, bonus
      <4>2. UNCHANGED <<charge, refunds>>
        BY <2>7 DEF RpAward, RpCashback, bank
      <4> QED BY <1>2, <4>1, <4>2 DEF OrderFacts, ClaimStopsService
    <3> QED BY <2>7, <3>1, <3>2 DEF RpAward, RpCashback, BonusUnavailable
  <2>8. CASE RpOpen(w)
    <3>1. CASE UNCHANGED order
      BY <1>5, <2>8, <3>1 DEF RpOpen, bonus, bank
    <3>2. CASE ~UNCHANGED order
      <4>1. order.ful = "pending"
        BY <2>1, <2>8, <3>2 DEF RpOpen, OpeningFacts
      <4>2. /\ order'.status = order.status /\ order'.refund = order.refund
            /\ order'.ful = "new" /\ order'.reason = "none"
            /\ UNCHANGED <<ledger, charge, refunds>>
        BY <1>1, <2>8, <3>2 DEF RpOpen, bonus, bank
      <4> QED BY <1>2, <4>1, <4>2 DEF OrderFacts, ClaimStopsService
    <3> QED BY <3>1, <3>2
  <2>9. CASE CaClaim(w)
    <3>1. CASE UNCHANGED order
      BY <1>5, <2>9, <3>1 DEF CaClaim, bonus, bank
    <3>2. CASE ~UNCHANGED order
      <4>1. /\ order'.status = order.status /\ order'.refund = "processing"
            /\ order'.ful = "cancelled" /\ order'.reason \in {"auto", "manual"}
            /\ UNCHANGED <<ledger, charge, refunds>>
        BY <1>1, <2>9, <3>2 DEF CaClaim, bonus, bank
      <4> QED BY <1>2, <4>1 DEF OrderFacts, ClaimStopsService
    <3> QED BY <3>1, <3>2
  \* Writing an outcome moves the refund on, in an order that is cancelled by now.
  <2>10. CASE CaFail(w) \/ RqClaim(w) \/ RqDecline(w)
    <3>1. /\ order'.status = order.status /\ order'.ful = order.ful
          /\ order'.reason = order.reason /\ order'.awarded = order.awarded
          /\ \/ order'.refund = order.refund
             \/ /\ order.refund \in {"processing", "unknown"}
                /\ order'.refund \in {"failed", "unknown"}
          /\ UNCHANGED <<ledger, charge, refunds>>
      BY <1>1, <2>10 DEF CaFail, RqClaim, RqDecline, StillUnknown, bonus, bank
    <3> QED BY <1>2, <3>1 DEF OrderFacts, ClaimStopsService
  <2>11. CASE CaFinal(w) \/ RqFinal(w)
    <3>1. CASE UNCHANGED order
      BY <1>5, <2>11, <3>1 DEF CaFinal, RqFinal, bank
    <3>2. CASE ~UNCHANGED order
      <4>1. /\ order.status = "paid" /\ order.refund \in {"processing", "unknown"}
            /\ \E ref : FinalizeRefund(ref)
            /\ UNCHANGED <<ledger, charge, refunds>>
        BY <2>11, <3>2 DEF CaFinal, RqFinal, AsExpected, bank
      <4>2. /\ order'.status = "refunded" /\ order'.refund = "succeeded"
            /\ order'.ful = "cancelled" /\ order'.reason = order.reason
        BY <1>1, <4>1 DEF FinalizeRefund
      <4> QED BY <1>2, <4>1, <4>2 DEF OrderFacts, ClaimStopsService
    <3> QED BY <3>1, <3>2
  <2>12. CASE \/ UpRead(w) \/ UpRelease(w) \/ FuRelease(w) \/ RpRead(w) \/ RpCommit(w)
              \/ RpRecheck(w) \/ RpLost(w) \/ CaRelease(w) \/ FoRelease(w)
    BY <1>5, <2>12 DEF UpRead, UpRelease, FuRelease, RpRead, RpCommit, RpRecheck, RpLost,
       CaRelease, FoRelease, bonus, bank
  <2> QED BY <1>9, <2>2, <2>3, <2>4, <2>5, <2>6, <2>7, <2>8, <2>9, <2>10, <2>11, <2>12
          DEF CallStep
<1> QED BY <1>6, <1>7, <1>8, <1>9 DEF Next

LEMMA FactsAlways ==
    ASSUME NoExpiry
    PROVE  Spec => []Facts
<1>1. Init => Facts
  <2> SUFFICES ASSUME Init PROVE OrderFacts /\ \A w \in Workers : JobFacts(job[w])
    BY DEF Facts
  <2>1. OrderFacts
    BY DEF Init, OrderFacts, ClaimStopsService, Left, RefundIds
  <2>2. JobFacts(Idle)
    BY DEF JobFacts, AnswerFacts, CallFacts, OpeningFacts, Refunding, Idle
  <2> QED BY <2>1, <2>2 DEF Init
<1>2. Typed /\ Facts /\ [Next]_vars => Facts'
  BY OrderFactsStep, JobFactsStep DEF Facts
<1> QED BY <1>1, <1>2, TypedAlways, PTL DEF Spec

\* While a refund is being decided the order is cancelled and stays so: the kitchen,
\* the order list, the cleanup and settlements that read the row before the claim
\* cannot bring it back.
THEOREM ClaimStopsEveryone ==
    ASSUME NoExpiry
    PROVE  Spec => []ClaimStopsService
<1>1. Facts => ClaimStopsService
  BY DEF Facts, OrderFacts
<1> QED BY <1>1, FactsAlways, PTL

\* A paid order is shown to the kitchen only with its stock committed and its
\* bonuses debited, although the steps of its settlements are separate calls and
\* others give stock back between them.
THEOREM OpenedOnlyWhenSecured ==
    ASSUME NoExpiry
    PROVE  Spec => NewOnlyWhenSecured
<1>1. ASSUME Typed, Facts, [Next]_vars, order'.ful = "new", order.ful # "new"
      PROVE  stock = "committed" /\ (SpendsBonus => ledger = "applied")
  <2>1. order \in Order
    BY <1>1 DEF Typed, TypeOK
  <2>2. PICK w \in Workers : RpOpen(w)
    <3>1. ~UNCHANGED order
      BY <1>1
    <3>2. ~UNCHANGED vars
      BY <3>1 DEF vars
    <3>3. ~Environment
      BY <1>1, <2>1, <3>1 DEF Environment, StaffServe, StaffComplete, ReleaseClosed,
         BankCharge, BankDecide, StockLapses, HoldLapses, ClaimAges, Order
    <3>4. PICK w \in Workers : StartStep(w) \/ CallStep(w) \/ Crash(w)
      BY <1>1, <3>2, <3>3 DEF Next
    <3>5. ~(StartStep(w) \/ Crash(w))
      BY <3>1 DEF StartStep, SyncStart, ExpireStart, FinalizeStart, RecordStart,
         CustomerCancel, StaffCancel, RqStart, FoStart, Crash
    <3>6. CASE ~RpOpen(w)
      <4>1. CASE \/ SyncMeta(w) \/ SyncMark(w) \/ SyncReverseMark(w) \/ FuMark(w)
                 \/ UpCas(w) \/ FuCas(w) \/ FoMark(w) \/ FoDone(w) \/ RqDefer(w)
                 \/ CaClaim(w) \/ CaFail(w) \/ RqClaim(w) \/ RqDecline(w)
        BY <1>1, <2>1, <4>1 DEF SyncMeta, SyncMark, SyncReverseMark, FuMark, UpCas, FuCas,
           FoMark, FoDone, RqDefer, CaClaim, CaFail, RqClaim, RqDecline, Order
      <4>2. CASE RpAward(w) \/ RpCashback(w)
        BY <1>1, <2>1, <4>2 DEF RpAward, RpCashback, CommitBonus, BonusUnavailable, Order
      <4>3. CASE CaFinal(w) \/ RqFinal(w)
        BY <1>1, <2>1, <4>3 DEF CaFinal, RqFinal, FinalizeRefund, Order
      <4>4. CASE \/ UpRead(w) \/ UpRelease(w) \/ SyncReverse(w) \/ FuRelease(w)
                 \/ RpRead(w) \/ RpCommit(w) \/ RpRecheck(w) \/ RpLost(w)
                 \/ CaRelease(w) \/ CaBank(w) \/ RqResolve(w) \/ FoReverse(w)
                 \/ FoRelease(w)
        BY <3>1, <4>4 DEF UpRead, UpRelease, SyncReverse, FuRelease, RpRead, RpCommit,
           RpRecheck, RpLost, CaRelease, CaBank, RqResolve, FoReverse, FoRelease
      <4> QED BY <3>4, <3>5, <3>6, <4>1, <4>2, <4>3, <4>4 DEF CallStep
    <3> QED BY <3>6
  <2>3. /\ order.ful = "pending" /\ job[w].call = "rpOpen" /\ job[w].seen.ful = "pending"
        /\ OpeningFacts(job[w]) /\ OrderFacts
    BY <1>1, <2>2 DEF RpOpen, Facts, JobFacts, OpeningFacts
  <2> QED BY <2>3 DEF OpeningFacts, OrderFacts, Left
<1>2. Typed /\ Facts /\ [Next]_vars =>
        [order'.ful = "new" /\ order.ful # "new" =>
           stock = "committed" /\ (SpendsBonus => ledger = "applied")]_vars
  BY <1>1
<1> QED BY <1>2, TypedAlways, FactsAlways, PTL DEF Spec, NewOnlyWhenSecured

-------------------------------------------------------------------------------
(* The life of an order.                                                       *)

\* A refund is under way or done, so the order is called off and was paid for.
CalledOff == ~Open => order.ful = "cancelled" /\ charge = "paid"

Money == IF PaidBack THEN "back" ELSE IF ~Open THEN "asked"
         ELSE IF charge = "paid" THEN "paid" ELSE "due"

Life == INSTANCE OrderLife WITH service <- order.ful, money <- Money

\* What the steps below start from: all invariants of a /flex order.
Settled == Typed /\ Facts /\ OneClaim /\ Final /\ Confirmed /\ CalledOff

LEMMA MoneyMeans ==
    ASSUME Settled
    PROVE  /\ PaidBack => ~Open
           /\ Open /\ charge = "paid" => Money = "paid"
           /\ charge # "paid" => Money = "due"
           /\ ~Open /\ ~PaidBack => Money = "asked"
           /\ order.status = "paid" => charge = "paid"
           /\ order.status = "unpaid" => charge = "void"
<1>1. PaidBack => ~Unmoved
  BY DEF PaidBack, Unmoved
<1>2. Open => Unmoved
  BY DEF Settled, OneClaim
<1>3. charge # "paid" => Open
  BY DEF Settled, CalledOff
<1>4. /\ order.status = "paid" => charge = "paid"
      /\ order.status = "unpaid" => charge = "void"
  BY DEF Settled, Facts, OrderFacts
<1> QED BY <1>1, <1>2, <1>3, <1>4 DEF Money

\* Steps that neither open nor close a refund, nor serve the order.
LEMMA LifeStands ==
    ASSUME Settled, order'.ful = order.ful, Open' <=> Open, charge' = charge,
           PaidBack' <=> PaidBack
    PROVE  CalledOff' /\ UNCHANGED Life!life
BY DEF Settled, CalledOff, Money, Life!life

\* The calls that move money leave the row alone.
LEMMA LifeOfMoney ==
    ASSUME Settled, [Next]_vars, OneClaim', UNCHANGED <<order, charge>>
    PROVE  CalledOff' /\ [Life!LifeNext]_(Life!life)
<1>1. Open' <=> Open
  BY DEF Open
<1>2. PaidBack => PaidBack'
  BY PaidBackStays DEF Settled
<1>3. CASE PaidBack' <=> PaidBack
  BY <1>1, <1>3, LifeStands
<1>4. CASE PaidBack' /\ ~PaidBack
  <2>1. ~Open
    <3>1. ~Unmoved'
      BY <1>4 DEF PaidBack, Unmoved, RefundIds
    <3> QED BY <1>1, <3>1 DEF OneClaim
  <2>2. Money = "asked" /\ Money' = "back"
    BY <1>4, <2>1 DEF Money
  <2>3. Life!PayBack
    BY <2>2 DEF Life!PayBack
  <2> QED BY <1>1, <2>3 DEF Settled, CalledOff, Life!LifeNext
<1> QED BY <1>2, <1>3, <1>4

\* The staff, the bank's decision about the payment, and time.
LEMMA LifeOfEnvironment ==
    ASSUME Settled, [Next]_vars, OneClaim', Environment
    PROVE  CalledOff' /\ [Life!LifeNext]_(Life!life)
<1>1. order \in Order /\ charge \in {"open", "paid", "void"}
  BY DEF Settled, Typed, TypeOK
<1>2. UNCHANGED refunds => (PaidBack' <=> PaidBack)
  BY DEF PaidBack, RefundIds
<1>3. CASE StaffServe \/ StaffComplete
  <2>1. /\ order.status = "paid" /\ ~LiveRefund /\ order'.refund = order.refund
        /\ UNCHANGED <<charge, refunds>>
    BY <1>1, <1>3 DEF StaffServe, StaffComplete, bank, Order
  <2>2. Open /\ Open'
    BY <1>1, <2>1 DEF Open, LiveRefund, Order, RefundStatus
  <2>3. Money = "paid" /\ Money' = "paid"
    BY <1>2, <2>1, <2>2, MoneyMeans DEF Money
  <2>4. Life!Serve \/ Life!Complete
    BY <1>1, <1>3, <2>3 DEF StaffServe, StaffComplete, Life!Serve, Life!Complete, Order
  <2> QED BY <2>2, <2>4 DEF CalledOff, Life!LifeNext
<1>4. CASE BankCharge
  <2>1. charge = "open" /\ charge' \in {"paid", "void"} /\ order' = order
        /\ refunds' = refunds
    BY <1>4 DEF BankCharge
  <2>2. Money = "due" /\ Open /\ Open' /\ ~PaidBack'
    BY <1>2, <2>1, MoneyMeans DEF Settled, CalledOff, Open
  <2>3. Money' = "paid" \/ Money' = "due"
    BY <2>2 DEF Money
  <2>4. Life!Pay \/ UNCHANGED Life!life
    BY <2>1, <2>2, <2>3 DEF Life!Pay, Life!life
  <2> QED BY <2>2, <2>4 DEF CalledOff, Life!LifeNext
<1>5. CASE ReleaseClosed \/ BankDecide \/ StockLapses \/ HoldLapses \/ ClaimAges
  BY <1>5, LifeOfMoney DEF ReleaseClosed, BankDecide, StockLapses, HoldLapses, ClaimAges,
     bank
<1> QED BY <1>3, <1>4, <1>5 DEF Environment

\* The handlers.
LEMMA LifeOfCall ==
    ASSUME Settled, [Next]_vars, OneClaim', Confirmed', NEW w \in Workers,
           StartStep(w) \/ CallStep(w) \/ Crash(w)
    PROVE  CalledOff' /\ [Life!LifeNext]_(Life!life)
<1>1. order \in Order
  BY DEF Settled, Typed, TypeOK
<1>2. /\ OrderFacts /\ AnswerFacts(job[w]) /\ CallFacts(job[w]) /\ OpeningFacts(job[w])
      /\ ClaimOf(job[w])
  BY DEF Settled, Facts, JobFacts, OneClaim
<1>3. UNCHANGED refunds => (PaidBack' <=> PaidBack)
  BY DEF PaidBack, RefundIds
<1>4. ASSUME order'.ful = order.ful, order'.refund = order.refund,
             UNCHANGED <<charge, refunds>>
      PROVE  CalledOff' /\ [Life!LifeNext]_(Life!life)
  BY <1>3, <1>4, LifeStands DEF Open
<1> USE DEF Order
<1>5. CASE \/ StartStep(w) \/ Crash(w) \/ CaBank(w) \/ RqResolve(w)
           \/ UpRead(w) \/ UpRelease(w) \/ SyncReverse(w) \/ FuRelease(w) \/ RpRead(w)
           \/ RpCommit(w) \/ RpRecheck(w) \/ RpLost(w) \/ CaRelease(w) \/ FoReverse(w)
           \/ FoRelease(w)
  <2>1. UNCHANGED <<order, charge>>
    BY <1>5 DEF StartStep, SyncStart, ExpireStart, FinalizeStart, RecordStart, CustomerCancel,
       StaffCancel, RqStart, FoStart, Crash, CaBank, RqResolve, RefundCall, UpRead,
       UpRelease, SyncReverse, FuRelease, RpRead, RpCommit, RpRecheck, RpLost, CaRelease,
       FoReverse, FoRelease, bank
  <2> QED BY <2>1, LifeOfMoney
<1>6. CASE \/ SyncMeta(w) \/ SyncMark(w) \/ SyncReverseMark(w) \/ FuMark(w) \/ UpCas(w)
           \/ FoMark(w) \/ FoDone(w) \/ RqDefer(w)
  BY <1>1, <1>4, <1>6 DEF SyncMeta, SyncMark, SyncReverseMark, FuMark, UpCas, FoMark, FoDone,
     RqDefer, bank
<1>7. CASE RpAward(w) \/ RpCashback(w)
  BY <1>1, <1>4, <1>7 DEF RpAward, RpCashback, CommitBonus, BonusUnavailable, bank
\* A cleanup finds that nobody will pay.
<1>8. CASE FuCas(w)
  <2>1. UNCHANGED <<charge, refunds>> /\ order'.refund = order.refund
        /\ order'.ful \in {order.ful, "cancelled"} /\ charge = "void"
    BY <1>1, <1>2, <1>8 DEF FuCas, CallFacts, AnswerFacts, bank
  <2>2. Open /\ Open' /\ Money = "due" /\ Money' = "due"
    BY <1>3, <2>1, MoneyMeans DEF Settled, CalledOff, Open, Money
  <2>3. Life!GiveUp \/ UNCHANGED Life!life
    BY <2>1, <2>2 DEF Life!GiveUp, Life!life
  <2> QED BY <2>2, <2>3 DEF CalledOff, Life!LifeNext
\* A settlement opens an order that is still at the checkout.
<1>9. CASE RpOpen(w)
  <2>1. CASE UNCHANGED order
    BY <1>4, <1>9, <2>1 DEF RpOpen, bank
  <2>2. CASE ~UNCHANGED order
    <3>1. /\ order.status = "paid" /\ order.ful = "pending" /\ order'.ful = "new"
          /\ order'.refund = order.refund /\ UNCHANGED <<charge, refunds>>
      BY <1>1, <1>2, <1>9, <2>2 DEF RpOpen, OpeningFacts, bank
    <3>2. Open /\ Open'
      BY <3>1 DEF Settled, CalledOff, Open
    <3>3. Money = "paid" /\ Money' = "paid"
      BY <1>3, <3>1, <3>2, MoneyMeans DEF Money
    <3>4. Life!Show
      BY <3>1, <3>3 DEF Life!Show
    <3> QED BY <3>2, <3>4 DEF CalledOff, Life!LifeNext
  <2> QED BY <2>1, <2>2
<1>10. CASE CaClaim(w)
  <2>1. CASE UNCHANGED order
    BY <1>4, <1>10, <2>1 DEF CaClaim, bank
  <2>2. CASE ~UNCHANGED order
    <3>1. /\ order.status = "paid" /\ order.refund \in {"none", "failed"}
          /\ order'.refund = "processing" /\ order'.ful = "cancelled"
          /\ UNCHANGED <<charge, refunds>>
      BY <1>1, <1>10, <2>2 DEF CaClaim, bank
    <3>2. Open /\ ~Open'
      BY <3>1 DEF Open
    <3>3. Money = "paid" /\ charge = "paid" /\ ~PaidBack
      BY <3>1, <3>2, MoneyMeans
    <3>4. Money' = "asked"
      BY <1>3, <3>1, <3>2, <3>3 DEF Money
    <3>5. Life!CallOff
      BY <3>1, <3>3, <3>4 DEF Life!CallOff
    <3> QED BY <3>1, <3>3, <3>5 DEF CalledOff, Life!LifeNext
  <2> QED BY <2>1, <2>2
\* Only a refusal opens the row again; by then the money is where it was.
<1>11. CASE CaFail(w) \/ RqClaim(w)
  <2>1. /\ order'.ful = order.ful /\ UNCHANGED <<charge, refunds>>
        /\ order'.refund = order.refund \/ order.refund = "processing"
    BY <1>1, <1>11 DEF CaFail, RqClaim, bank
  <2>2. CASE Open' <=> Open
    BY <1>3, <2>1, <2>2, LifeStands
  <2>3. CASE ~(Open' <=> Open)
    <3>1. ~Open /\ Open'
      BY <2>1, <2>3 DEF Open
    <3>2. ~PaidBack /\ ~PaidBack'
      <4>1. Unmoved'
        BY <3>1 DEF OneClaim
      <4> QED BY <1>3, <2>1, <4>1 DEF PaidBack, Unmoved, RefundIds
    <3>3. Money = "asked" /\ Money' = "paid"
      BY <2>1, <3>1, <3>2 DEF Money, Settled, CalledOff
    <3>4. Life!Refuse
      BY <2>1, <3>3 DEF Life!Refuse
    <3> QED BY <3>1, <3>4 DEF CalledOff, Life!LifeNext
  <2> QED BY <2>2, <2>3
<1>12. CASE CaFinal(w) \/ RqFinal(w)
  <2>1. CASE UNCHANGED order
    BY <1>4, <1>12, <2>1 DEF CaFinal, RqFinal, bank
  <2>2. CASE ~UNCHANGED order
    <3>1. /\ order.refund \in {"processing", "unknown"} /\ \E ref : FinalizeRefund(ref)
          /\ UNCHANGED <<charge, refunds>>
      BY <1>12, <2>2 DEF CaFinal, RqFinal, AsExpected, bank
    <3>2. order'.refund = "succeeded" /\ order'.ful = "cancelled"
      BY <1>1, <3>1 DEF FinalizeRefund
    <3>3. ~Open /\ ~Open'
      BY <3>1, <3>2 DEF Open
    <3>4. order.ful = "cancelled"
      BY <3>3 DEF Settled, CalledOff
    <3> QED BY <1>3, <3>1, <3>2, <3>3, <3>4, LifeStands
  <2> QED BY <2>1, <2>2
<1>13. ~RqDecline(w)
  BY <1>2 DEF RqDecline, ClaimOf
<1> QED BY <1>5, <1>6, <1>7, <1>8, <1>9, <1>10, <1>11, <1>12, <1>13 DEF CallStep

LEMMA LifeStep ==
    ASSUME Settled, [Next]_vars, OneClaim', Confirmed'
    PROVE  CalledOff' /\ [Life!LifeNext]_(Life!life)
<1>1. CASE UNCHANGED vars
  BY <1>1, LifeOfMoney DEF vars
<1> QED BY <1>1, LifeOfEnvironment, LifeOfCall DEF Next

LEMMA SettledAlways ==
    ASSUME ~Widget
    PROVE  Spec => []Settled
<1>1. NoExpiry
  BY DEF NoExpiry
<1>2. Spec => [](Typed /\ Facts /\ OneClaim /\ Final /\ Confirmed)
  BY <1>1, TypedAlways, FactsAlways, OneClaimAlways, FinalAlways, ConfirmedAlways, PTL
<1>3. Init => CalledOff
  BY DEF Init, CalledOff, Open
<1>4. (Typed /\ Facts /\ OneClaim /\ Final /\ Confirmed)
        /\ (Typed /\ Facts /\ OneClaim /\ Final /\ Confirmed)'
        /\ CalledOff /\ [Next]_vars => CalledOff'
  BY LifeStep DEF Settled
<1> QED BY <1>2, <1>3, <1>4, PTL DEF Spec, Settled

\* Whatever its handlers do, in whatever order and wherever they stop, a /flex
\* order lives as its customer is promised: it implements OrderLife.
THEOREM OrderKeepsPromise ==
    ASSUME ~Widget
    PROVE  Spec => Life!LifeSpec
<1>1. Init => Life!LifeInit
  BY DEF Init, Life!LifeInit, Money, PaidBack, Open, RefundIds
<1>2. Settled /\ Settled' /\ [Next]_vars => [Life!LifeNext]_(Life!life)
  BY LifeStep DEF Settled
<1> QED BY <1>1, <1>2, SettledAlways, PTL DEF Spec, Life!LifeSpec

\* Nobody eats for free: an order is not open, cooked or handed over once a refund
\* request may have moved, or may still move, its money.
THEOREM NothingServedForFree ==
    ASSUME ~Widget
    PROVE  Spec => [](~Unmoved => order.ful = "cancelled")
<1>1. Settled => (~Unmoved => order.ful = "cancelled")
  BY DEF Settled, OneClaim, CalledOff
<1> QED BY <1>1, SettledAlways, PTL
===============================================================================
