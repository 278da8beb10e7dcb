-------------------------- MODULE OrderPaymentProofs --------------------------
(* What OrderPayment keeps for any number of handlers, refund requests and      *)
(* crashes, and any bank fault.                                                 *)
EXTENDS OrderPayment, TLAPS

-------------------------------------------------------------------------------
(* Handlers in flight: one moves at a time, and its memory is well formed.      *)

\* The compare-and-set of updateOrderStatus writes only a legal transition.
Transitions ==
    \A w \in Workers : job[w].call = "upCas" =>
        CanTransition(job[w].seen.status, job[w].answer)

\* What a step of handler w may do to the handlers.
Moved(w) ==
    /\ job' \in [Workers -> Job]
    /\ \A v \in Workers \ {w} : job'[v] = job[v]
    /\ job'[w].call = "upCas" => CanTransition(job'[w].seen.status, job'[w].answer)

LEMMA RowsAreRows == Blank \in Row /\ (order \in Order => Read \in Row)
BY PaymentAssumption
DEF Blank, Read, Row, Order, PayStatus, Fulfillment, Reason, RefundStatus, NoId

LEMMA Became ==
    ASSUME job \in [Workers -> Job], NEW w \in Workers, NEW call \in Calls,
           NEW by \in Starters, NEW answer \in Answers, NEW seen \in Row,
           Become(w, call, by, answer, seen)
    PROVE  /\ job' \in [Workers -> Job]
           /\ job'[w] = [call |-> call, by |-> by, answer |-> answer, seen |-> seen]
           /\ \A v \in Workers \ {w} : job'[v] = job[v]
BY DEF Become, Job

LEMMA BecameMoved ==
    ASSUME job \in [Workers -> Job], NEW w \in Workers,
           NEW call \in Calls \ {"upCas"},
           NEW by \in Starters, NEW answer \in Answers, NEW seen \in Row,
           Become(w, call, by, answer, seen)
    PROVE  Moved(w)
<1>1. call \in Calls /\ call # "upCas"
  OBVIOUS
<1>2. /\ job' \in [Workers -> Job]
      /\ job'[w] = [call |-> call, by |-> by, answer |-> answer, seen |-> seen]
      /\ \A v \in Workers \ {w} : job'[v] = job[v]
  BY <1>1, Became
<1> QED BY <1>1, <1>2 DEF Moved

LEMMA Finished ==
    ASSUME job \in [Workers -> Job], NEW w \in Workers, Finish(w)
    PROVE  Moved(w) /\ job'[w] = Idle
<1>1. Idle \in Job
  BY RowsAreRows DEF Idle, Job, Calls, Starters, Answers
<1>2. job'[w] = Idle /\ job' \in [Workers -> Job]
  BY <1>1 DEF Finish
<1> QED BY <1>2 DEF Finish, Moved, Idle

\* The same for a handler that goes on and keeps what it knows.
LEMMA WentOn ==
    ASSUME job \in [Workers -> Job], NEW w \in Workers,
           NEW call \in Calls \ {"upCas"}
    PROVE  /\ Go(w, call) => Moved(w)
           /\ \A answer \in Answers : Hear(w, call, answer) => Moved(w)
           /\ \A seen \in Row : Recall(w, call, seen) => Moved(w)
<1>1. job[w].by \in Starters /\ job[w].answer \in Answers /\ job[w].seen \in Row
  BY DEF Job
<1>2. Go(w, call) => Moved(w)
  BY <1>1, BecameMoved DEF Go
<1>3. ASSUME NEW answer \in Answers, Hear(w, call, answer) PROVE Moved(w)
  BY <1>1, <1>3, BecameMoved DEF Hear
<1>4. ASSUME NEW seen \in Row, Recall(w, call, seen) PROVE Moved(w)
  BY <1>1, <1>4, BecameMoved DEF Recall
<1> QED BY <1>2, <1>3, <1>4

LEMMA JobTypes ==
    ASSUME TypeOK, NEW w \in Workers, StartStep(w) \/ CallStep(w) \/ Crash(w)
    PROVE  Moved(w)
<1>1. job \in [Workers -> Job] /\ order \in Order
  BY DEF TypeOK
<1>2. Blank \in Row /\ Read \in Row
  BY <1>1, RowsAreRows
<1>3. /\ BankAnswer \in Answers
      /\ {"none", "unpaid", "paid", "lost"} \subseteq Answers
      /\ RefundAnswers \subseteq Answers
  BY DEF BankAnswer, Answers, RefundAnswers
<1>4. /\ \A req, ref \in 0..MaxRefunds :
           [Blank EXCEPT !.req = req] \in Row /\ [Blank EXCEPT !.req = req, !.ref = ref] \in Row
      /\ \A reason \in Reason : [Blank EXCEPT !.reason = reason] \in Row
      /\ \A status \in PayStatus : [Blank EXCEPT !.status = status] \in Row
  BY <1>2 DEF Row
<1>5. /\ order.status \in PayStatus /\ order.reason \in Reason
      /\ order.req \in 0..MaxRefunds /\ order.ref \in 0..MaxRefunds
  BY <1>1 DEF Order
<1>6. job[w].seen \in Row /\ job[w].by \in Starters /\ job[w].answer \in Answers
  BY <1>1 DEF Job
<1>7. /\ Finish(w) => Moved(w)
      /\ \A call \in Calls \ {"upCas"} :
           /\ Go(w, call) => Moved(w)
           /\ \A answer \in Answers : Hear(w, call, answer) => Moved(w)
           /\ \A seen \in Row : Recall(w, call, seen) => Moved(w)
           /\ \A by \in Starters, answer \in Answers, seen \in Row :
                Become(w, call, by, answer, seen) => Moved(w)
  BY <1>1, Finished, WentOn, BecameMoved
<1>8. CASE StartStep(w)
  <2> USE DEF Calls, Starters, Start
  <2>1. CASE SyncStart(w) BY <1>2, <1>3, <1>7, <2>1 DEF SyncStart
  <2>2. CASE ExpireStart(w) BY <1>2, <1>3, <1>7, <2>2 DEF ExpireStart
  <2>3. CASE FinalizeStart(w) BY <1>3, <1>4, <1>5, <1>7, <2>3 DEF FinalizeStart
  <2>4. CASE RecordStart(w) BY <1>2, <1>3, <1>7, <2>4 DEF RecordStart
  <2>5. CASE CustomerCancel(w) BY <1>2, <1>3, <1>7, <2>5 DEF CustomerCancel
  <2>6. ASSUME NEW by \in {"admin", "kitchen"}, StaffCancel(w, by) PROVE Moved(w)
    BY <1>2, <1>3, <1>7, <2>6 DEF StaffCancel
  <2>7. CASE RqStart(w) BY <1>3, <1>4, <1>5, <1>7, <2>7 DEF RqStart
  <2>8. CASE FoStart(w) BY <1>2, <1>3, <1>7, <2>8 DEF FoStart
  <2> QED BY <1>8, <2>1, <2>2, <2>3, <2>4, <2>5, <2>6, <2>7, <2>8 DEF StartStep
<1>9. CASE CallStep(w)
  <2> USE DEF Calls
  <2>2. Continue(w) => Moved(w)
    BY <1>2, <1>7 DEF Continue
  <2>3. CASE SyncMeta(w) BY <1>3, <1>7, <2>3 DEF SyncMeta
  <2>4. CASE UpRead(w)
    <3>1. CASE Continue(w) BY <2>2, <3>1
    <3>2. CASE ~Continue(w)
      <4>1. CanTransition(order.status, job[w].answer)
        BY <2>4, <3>2 DEF UpRead
      <4> DEFINE seen == [Blank EXCEPT !.status = order.status]
      <4>2. Become(w, "upCas", job[w].by, job[w].answer, seen)
        BY <2>4, <3>2 DEF UpRead, Recall
      <4>3. seen \in Row /\ seen.status = order.status
        BY <1>2, <1>4, <1>5 DEF Row
      <4> HIDE DEF seen
      <4>4. /\ job' \in [Workers -> Job]
            /\ job'[w] = [call |-> "upCas", by |-> job[w].by, answer |-> job[w].answer,
                          seen |-> seen]
            /\ \A v \in Workers \ {w} : job'[v] = job[v]
        BY <1>1, <1>6, <4>2, <4>3, Became
      <4> QED BY <4>1, <4>3, <4>4 DEF Moved
    <3> QED BY <3>1, <3>2
  <2>5. CASE UpCas(w) BY <1>7, <2>2, <2>5 DEF UpCas
  <2>6. CASE UpRelease(w) BY <2>2, <2>6 DEF UpRelease
  <2>7. CASE SyncMark(w) \/ SyncReverse(w) \/ SyncReverseMark(w)
    BY <1>7, <2>7 DEF SyncMark, SyncReverse, SyncReverseMark
  <2>8. CASE FuCas(w) \/ FuRelease(w) \/ FuMark(w)
    BY <1>7, <2>8 DEF FuCas, FuRelease, FuMark
  <2>9. Recorded(w) => Moved(w)
    BY <1>7 DEF Recorded
  <2>10. \A row \in Row : RefundUnavailable(w, row) => Moved(w)
    BY <1>6, <1>7 DEF RefundUnavailable, Starters
  <2>11. CASE RpRead(w) BY <1>2, <1>7, <2>9, <2>10, <2>11 DEF RpRead
  <2>12. AfterAward(job[w].seen) \in Calls \ {"upCas"}
    BY DEF AfterAward
  <2>13. CASE RpCommit(w) BY <1>6, <1>7, <2>10, <2>12, <2>13 DEF RpCommit
  <2>14. CASE RpAward(w) BY <1>7, <2>12, <2>14 DEF RpAward
  <2>15. CASE RpRecheck(w) BY <1>6, <1>7, <2>9, <2>10, <2>15 DEF RpRecheck
  <2>16. CASE RpOpen(w) \/ RpLost(w) \/ RpCashback(w)
    BY <1>7, <2>9, <2>16 DEF RpOpen, RpLost, RpCashback
  <2>17. CASE CaClaim(w)
    <3> DEFINE id == IF ReusesId(job[w].by, job[w].seen) THEN job[w].seen.req
                     ELSE issued + 1
    <3>1. CASE Finish(w) BY <1>7, <3>1
    <3>2. CASE ~Finish(w)
      <4>1. id \in 0..MaxRefunds
        BY <1>6, <2>17, <3>2, PaymentAssumption DEF CaClaim, TypeOK, Row
      <4>2. Recall(w, "caRelease", [Blank EXCEPT !.req = id])
        BY <2>17, <3>2 DEF CaClaim
      <4> HIDE DEF id
      <4> QED BY <1>4, <1>7, <4>1, <4>2
    <3> QED BY <3>1, <3>2
  <2>18. CASE CaRelease(w) \/ CaFail(w) \/ CaFinal(w)
    BY <1>7, <2>18 DEF CaRelease, CaFail, CaFinal
  <2>19. CASE CaBank(w) BY <1>3, <1>7, <2>19 DEF CaBank
  <2>20. CASE RqClaim(w)
    <3>1. [job[w].seen EXCEPT !.ref = order.ref] \in Row
      BY <1>5, <1>6 DEF Row
    <3> QED BY <1>7, <2>20, <3>1 DEF RqClaim
  <2>21. CASE RqResolve(w)
    <3>1. PICK answer \in RefundAnswers : Hear(w, Verdict(answer), answer)
      BY <2>21 DEF RqResolve, RefundAnswers
    <3>2. Verdict(answer) \in Calls \ {"upCas"}
      BY DEF Verdict
    <3> QED BY <1>3, <1>7, <3>1, <3>2
  <2>22. CASE RqDecline(w) \/ RqDefer(w) \/ RqFinal(w)
    BY <1>2, <1>7, <2>22 DEF RqDecline, RqDefer, RqFinal
  <2>23. CASE FoReverse(w) BY <1>3, <1>7, <2>23 DEF FoReverse
  <2>24. CASE FoMark(w) \/ FoRelease(w) \/ FoDone(w)
    BY <1>7, <2>24 DEF FoMark, FoRelease, FoDone
  <2> QED BY <1>9, <2>3, <2>4, <2>5, <2>6, <2>7, <2>8, <2>11, <2>13, <2>14, <2>15,
             <2>16, <2>17, <2>18, <2>19, <2>20, <2>21, <2>22, <2>23, <2>24
          DEF CallStep
<1>10. CASE Crash(w) BY <1>7, <1>10 DEF Crash
<1> QED BY <1>8, <1>9, <1>10

-------------------------------------------------------------------------------
(* The order row, and everything else.                                         *)

LEMMA OrderTypes ==
    ASSUME TypeOK, Transitions, NEW w \in Workers,
           StartStep(w) \/ CallStep(w) \/ Crash(w)
    PROVE  order' \in Order
<1>1. order \in Order /\ job[w] \in Job /\ issued \in 0..MaxRefunds
  BY DEF TypeOK
<1>2. job[w].seen \in Row /\ job[w].answer \in Answers
  BY <1>1 DEF Job
<1>3. job[w].seen.reason \in Reason /\ job[w].seen.req \in 0..MaxRefunds
      /\ job[w].seen.ref \in 0..MaxRefunds
  BY <1>2 DEF Row
<1> USE DEF Order, Fulfillment, Reason, RefundStatus
<1>4. UNCHANGED order => order' \in Order
  BY <1>1
<1>5. CASE StartStep(w)
  BY <1>4, <1>5 DEF StartStep, SyncStart, ExpireStart, FinalizeStart, RecordStart,
     CustomerCancel, StaffCancel, RqStart, FoStart
<1>6. CASE SyncMeta(w) BY <1>1, <1>6 DEF SyncMeta
<1>7. CASE UpCas(w)
  <2>1. job[w].answer \in PayStatus
    BY <1>7 DEF UpCas, Transitions, CanTransition, PayStatus
  <2> QED BY <1>1, <1>7, <2>1 DEF UpCas
<1>8. CASE SyncMark(w) \/ SyncReverseMark(w) \/ FuMark(w)
  BY <1>1, <1>8 DEF SyncMark, SyncReverseMark, FuMark
<1>9. CASE FuCas(w) BY <1>1, <1>3, <1>9 DEF FuCas
<1>10. CASE RpAward(w) \/ RpCashback(w)
  BY <1>1, <1>10 DEF RpAward, RpCashback, CommitBonus, BonusUnavailable
<1>11. CASE RpOpen(w) BY <1>1, <1>11 DEF RpOpen
<1>12. CASE CaClaim(w)
  <2> DEFINE id == IF ReusesId(job[w].by, job[w].seen) THEN job[w].seen.req
                   ELSE issued + 1
  <2>1. CASE UNCHANGED order BY <1>4, <2>1
  <2>2. CASE ~UNCHANGED order
    <3>1. id \in 0..MaxRefunds
      BY <1>1, <1>3, <1>12, <2>2, PaymentAssumption DEF CaClaim
    <3>2. order' = [order EXCEPT !.refund = "processing", !.req = id,
             !.ful = "cancelled",
             !.reason = IF job[w].by = "auto" THEN "auto" ELSE "manual"]
      BY <1>12, <2>2 DEF CaClaim
    <3> HIDE DEF id
    <3> QED BY <1>1, <3>1, <3>2
  <2> QED BY <2>1, <2>2
<1>13. CASE CaFail(w) BY <1>1, <1>3, <1>13 DEF CaFail
<1>14. \A ref \in 0..MaxRefunds : FinalizeRefund(ref) => order' \in Order
  BY <1>1 DEF FinalizeRefund, PayStatus
<1>15. CASE CaFinal(w) BY <1>3, <1>4, <1>14, <1>15 DEF CaFinal
<1>16. CASE RqFinal(w)
  BY <1>3, <1>4, <1>14, <1>16, PaymentAssumption DEF RqFinal, NoId
<1>17. CASE RqClaim(w) BY <1>1, <1>17 DEF RqClaim
<1>18. CASE RqDecline(w) BY <1>1, <1>18 DEF RqDecline
<1>19. CASE RqDefer(w) BY <1>1, <1>3, <1>19 DEF RqDefer
<1>20. CASE FoMark(w) \/ FoDone(w) BY <1>1, <1>20 DEF FoMark, FoDone
<1>21. CASE Crash(w) BY <1>4, <1>21 DEF Crash
<1>22. CASE \/ UpRead(w) \/ UpRelease(w) \/ SyncReverse(w) \/ FuRelease(w)
            \/ RpRead(w) \/ RpCommit(w) \/ RpRecheck(w) \/ RpLost(w)
            \/ CaRelease(w) \/ CaBank(w) \/ RqResolve(w) \/ FoReverse(w) \/ FoRelease(w)
  BY <1>4, <1>22 DEF UpRead, UpRelease, SyncReverse, FuRelease, RpRead, RpCommit,
     RpRecheck, RpLost, CaRelease, CaBank, RqResolve, FoReverse, FoRelease
<1> QED BY <1>5, <1>6, <1>7, <1>8, <1>9, <1>10, <1>11, <1>12, <1>13, <1>15, <1>16,
           <1>17, <1>18, <1>19, <1>20, <1>21, <1>22 DEF CallStep

\* What the bank knows of the refunds keeps its form, and only the calls that
\* reach the bank change it.
LEMMA RefundTypes ==
    ASSUME TypeOK, NEW w \in Workers, StartStep(w) \/ CallStep(w) \/ Crash(w)
    PROVE  refunds' \in [RefundIds -> {"none", "slow", "done", "declined"}]
<1>1. refunds \in [RefundIds -> {"none", "slow", "done", "declined"}]
  BY DEF TypeOK
<1>2. \A r : \A answer \in RefundAnswers : RefundCall(r, answer) =>
         refunds' \in [RefundIds -> {"none", "slow", "done", "declined"}]
  <2> SUFFICES ASSUME NEW r, NEW answer \in RefundAnswers, RefundCall(r, answer)
               PROVE  refunds' \in [RefundIds -> {"none", "slow", "done", "declined"}]
    OBVIOUS
  <2>1. CASE answer = "lost"
    <3>1. PICK s \in {"slow", "done", refunds[r]} : refunds' = [refunds EXCEPT ![r] = s]
      BY <2>1 DEF RefundCall
    <3> QED BY <1>1, <3>1
  <2>2. CASE answer # "lost"
    BY <1>1, <2>2 DEF RefundCall, RefundAnswers
  <2> QED BY <2>1, <2>2
<1>3. CASE CaBank(w) BY <1>2, <1>3 DEF CaBank
<1>4. CASE RqResolve(w) BY <1>1, <1>2, <1>4 DEF RqResolve, bank
<1>5. CASE ~CaBank(w) /\ ~RqResolve(w)
  <2>1. UNCHANGED bank
    BY <1>5 DEF StartStep, CallStep, Crash, SyncStart, ExpireStart, FinalizeStart,
       RecordStart, CustomerCancel, StaffCancel, RqStart, FoStart,
       SyncMeta, UpRead, UpCas, UpRelease, SyncMark, SyncReverse, SyncReverseMark,
       FuCas, FuRelease, FuMark, RpRead, RpCommit, RpAward, RpRecheck, RpOpen, RpLost,
       RpCashback, CaClaim, CaRelease, CaFail, CaFinal, RqClaim, RqDecline, RqDefer,
       RqFinal, FoReverse, FoMark, FoRelease, FoDone
  <2> QED BY <1>1, <2>1 DEF bank
<1> QED BY <1>3, <1>4, <1>5

LEMMA OtherTypes ==
    ASSUME TypeOK, NEW w \in Workers, StartStep(w) \/ CallStep(w) \/ Crash(w)
    PROVE  /\ stock' \in {"active", "lapsed", "released", "committed"}
           /\ hold' \in {"none", "active", "lapsed", "cancelled", "committed"}
           /\ ledger' \in {"none", "applied", "reversed"}
           /\ charge' \in {"open", "paid", "void"}
           /\ issued' \in 0..MaxRefunds
           /\ age' \in {"fresh", "old", "stale"}
           /\ crashes' \in 0..MaxCrashes
<1> USE DEF TypeOK, rest, bonus, bank
<1>1. CASE StartStep(w)
  BY <1>1 DEF StartStep, SyncStart, ExpireStart, FinalizeStart, RecordStart,
     CustomerCancel, StaffCancel, RqStart, FoStart
<1>2. CASE SyncMeta(w) \/ UpRead(w) \/ UpCas(w) \/ UpRelease(w) \/ SyncMark(w)
           \/ SyncReverse(w) \/ SyncReverseMark(w)
  BY <1>2 DEF SyncMeta, UpRead, UpCas, UpRelease, SyncMark, SyncReverse,
     SyncReverseMark, DropHold, ReleaseStock, ReverseLedger
<1>3. CASE FuCas(w) \/ FuRelease(w) \/ FuMark(w)
  BY <1>3 DEF FuCas, FuRelease, FuMark
<1>4. CASE RpRead(w) \/ RpCommit(w) \/ RpAward(w) \/ RpRecheck(w) \/ RpOpen(w)
           \/ RpLost(w) \/ RpCashback(w)
  BY <1>4 DEF RpRead, RpCommit, RpAward, RpRecheck, RpOpen, RpLost, RpCashback,
     CommitBonus, BonusUnavailable
<1>5. CASE CaClaim(w) \/ CaRelease(w) \/ CaBank(w) \/ CaFail(w) \/ CaFinal(w)
  <2>1. CASE CaClaim(w)
    <3>1. issued' \in {issued} \cup {i \in {issued + 1} : i <= MaxRefunds}
      BY <2>1, PaymentAssumption DEF CaClaim
    <3> QED BY <2>1, <3>1, PaymentAssumption DEF CaClaim
  <2>2. CASE CaRelease(w) BY <2>2 DEF CaRelease, ReleaseStock
  <2>3. CASE CaBank(w) BY <2>3 DEF CaBank, RefundCall
  <2>4. CASE CaFail(w) \/ CaFinal(w) BY <2>4 DEF CaFail, CaFinal, FinalizeRefund, DropHold
  <2> QED BY <1>5, <2>1, <2>2, <2>3, <2>4
<1>6. CASE RqClaim(w) \/ RqResolve(w) \/ RqDecline(w) \/ RqDefer(w) \/ RqFinal(w)
  <2>1. UNCHANGED <<stock, ledger, charge, issued, age, crashes>>
    BY <1>6 DEF RqClaim, RqResolve, RefundCall, RqDecline, RqDefer, RqFinal
  <2>2. UNCHANGED hold \/ DropHold
    BY <1>6 DEF RqClaim, RqResolve, RqDecline, RqDefer, RqFinal, FinalizeRefund
  <2> QED BY <2>1, <2>2 DEF DropHold
<1>7. CASE FoReverse(w) \/ FoMark(w) \/ FoRelease(w) \/ FoDone(w)
  <2>1. crashes' \in {crashes} \cup {c \in {crashes + 1} : crashes < MaxCrashes}
    BY <1>7 DEF FoReverse, FoMark, FoRelease, FoDone
  <2>2. crashes' \in 0..MaxCrashes
    BY <2>1, PaymentAssumption
  <2> QED BY <1>7, <2>2 DEF FoReverse, FoMark, FoRelease, FoDone, ReverseLedger
<1>8. CASE Crash(w)
  <2>1. crashes' = crashes + 1 /\ crashes < MaxCrashes
    BY <1>8 DEF Crash
  <2>2. crashes' \in 0..MaxCrashes
    BY <2>1, PaymentAssumption
  <2> QED BY <1>8, <2>2 DEF Crash
<1> QED BY <1>1, <1>2, <1>3, <1>4, <1>5, <1>6, <1>7, <1>8 DEF CallStep

LEMMA EnvironmentTypes ==
    ASSUME TypeOK, Environment
    PROVE  TypeOK' /\ UNCHANGED job
<1> USE DEF TypeOK, rest, bonus, bank
<1>1. CASE StaffServe \/ StaffComplete
  <2>1. PICK ful \in {"work", "completed"} : \E reason \in {order.reason, "none"} :
           order' = [order EXCEPT !.ful = ful, !.reason = reason]
    <3>1. CASE StaffServe
      <4>1. order' = [order EXCEPT !.ful = "work", !.reason = order.reason]
        BY <3>1 DEF StaffServe, Order
      <4> QED BY <4>1
    <3>2. CASE StaffComplete BY <3>2 DEF StaffComplete
    <3> QED BY <1>1, <3>1, <3>2
  <2>2. order' \in Order
    BY <2>1 DEF Order, Fulfillment, Reason
  <2> QED BY <1>1, <2>2 DEF StaffServe, StaffComplete
<1>2. CASE ReleaseClosed \/ BankCharge \/ StockLapses \/ HoldLapses \/ ClaimAges
  <2>1. UNCHANGED <<order, refunds, issued, crashes, job>>
    BY <1>2 DEF ReleaseClosed, BankCharge, StockLapses, HoldLapses, ClaimAges
  <2>2. /\ stock' \in {stock, "released", "lapsed"} /\ charge' \in {charge, "paid", "void"}
        /\ hold' \in {hold, "lapsed"} /\ ledger' = ledger
        /\ age' \in {age, "old", "stale"}
    BY <1>2 DEF ReleaseClosed, BankCharge, StockLapses, HoldLapses, ClaimAges
  <2> QED BY <2>1, <2>2
<1>3. CASE BankDecide
  <2>1. refunds' \in [RefundIds -> {"none", "slow", "done", "declined"}]
    BY <1>3 DEF BankDecide
  <2> QED BY <1>3, <2>1 DEF BankDecide
<1> QED BY <1>1, <1>2, <1>3 DEF Environment

Typed == TypeOK /\ Transitions

LEMMA TypedAlways == Spec => []Typed
<1>1. Init => Typed
  <2> SUFFICES ASSUME Init PROVE TypeOK /\ Transitions
    BY DEF Typed
  <2>1. Idle \in Job
    BY RowsAreRows DEF Idle, Job, Calls, Starters, Answers
  <2>2. Transitions
    BY DEF Init, Transitions, Idle
  <2>3. order \in Order
    BY PaymentAssumption
    DEF Init, Order, PayStatus, Fulfillment, Reason, RefundStatus, NoId
  <2> QED BY <2>1, <2>2, <2>3, PaymentAssumption DEF Init, TypeOK
<1>2. Typed /\ [Next]_vars => Typed'
  <2> SUFFICES ASSUME TypeOK, Transitions, [Next]_vars PROVE TypeOK' /\ Transitions'
    BY DEF Typed
  <2>1. CASE UNCHANGED vars
    BY <2>1 DEF vars, TypeOK, Transitions
  <2>2. CASE Environment
    BY <2>2, EnvironmentTypes DEF Transitions
  <2>3. ASSUME NEW w \in Workers, StartStep(w) \/ CallStep(w) \/ Crash(w)
        PROVE  TypeOK' /\ Transitions'
    <3>1. Moved(w)
      BY <2>3, JobTypes
    <3>2. Transitions'
      BY <3>1 DEF Moved, Transitions
    <3>3. job' \in [Workers -> Job]
      BY <3>1 DEF Moved
    <3>4. order' \in Order
      BY <2>3, OrderTypes
    <3>5. refunds' \in [RefundIds -> {"none", "slow", "done", "declined"}]
      BY <2>3, RefundTypes
    <3> QED BY <2>3, <3>2, <3>3, <3>4, <3>5, OtherTypes DEF TypeOK
  <2> QED BY <2>1, <2>2, <2>3 DEF Next
<1> QED BY <1>1, <1>2, PTL DEF Spec

\* Every state keeps its type: the row is always one of the table's rows, the
\* handlers remember rows they may have read, and the ids stay within the bound.
THEOREM TypeCorrect == Spec => []TypeOK
<1>1. Typed => TypeOK
  BY DEF Typed
<1> QED BY <1>1, TypedAlways, PTL

-------------------------------------------------------------------------------
(* A confirmed refund is final.                                                *)

Final == order.refund = "succeeded" => order.status = "refunded" /\ order.ful = "cancelled"

\* The calls that can write the refund or the fulfillment of the row.
LEMMA FinalStep ==
    ASSUME Typed, Final, [Next]_vars
    PROVE  /\ order.refund = "succeeded" =>
                order'.refund = "succeeded" /\ order'.status = "refunded"
                /\ order'.ful = "cancelled"
           /\ Final'
<1> DEFINE Kept == order'.refund = order.refund /\ order'.status = order.status
                   /\ order'.ful = order.ful
           Other == order.refund # "succeeded" /\ order'.refund # "succeeded"
<1>1. order \in Order
  BY DEF Typed, TypeOK
<1>2. UNCHANGED order => Kept
  OBVIOUS
<1>3. SUFFICES Kept \/ Other \/ (order.status # "refunded" /\ order'.refund = order.refund)
               \/ (order.refund # "succeeded" /\ order'.refund = "succeeded"
                   /\ order'.status = "refunded" /\ order'.ful = "cancelled")
  BY DEF Final
<1> USE DEF Order
<1>4. CASE UNCHANGED vars BY <1>2, <1>4 DEF vars
<1>5. CASE Environment
  BY <1>1, <1>2, <1>5 DEF Environment, StaffServe, StaffComplete, ReleaseClosed, BankCharge,
     BankDecide, StockLapses, HoldLapses, ClaimAges
<1>6. ASSUME NEW w \in Workers, StartStep(w) \/ Crash(w) PROVE Kept
  BY <1>2, <1>6 DEF StartStep, SyncStart, ExpireStart, FinalizeStart, RecordStart,
     CustomerCancel, StaffCancel, RqStart, FoStart, Crash
<1>7. ASSUME NEW w \in Workers, CallStep(w)
      PROVE  Kept \/ Other \/ (order.status # "refunded" /\ order'.refund = order.refund)
             \/ (order.refund # "succeeded" /\ order'.refund = "succeeded"
                 /\ order'.status = "refunded" /\ order'.ful = "cancelled")
  <2>1. CASE SyncMeta(w) \/ SyncMark(w) \/ SyncReverseMark(w) \/ FuMark(w)
             \/ FoMark(w) \/ FoDone(w) \/ RqDefer(w)
    BY <1>1, <2>1 DEF SyncMeta, SyncMark, SyncReverseMark, FuMark, FoMark, FoDone, RqDefer
  <2>2. CASE UpCas(w)
    BY <1>1, <2>2 DEF UpCas, Typed, Transitions, CanTransition
  <2>3. CASE FuCas(w) BY <1>1, <2>3 DEF FuCas
  <2>4. CASE RpAward(w) \/ RpCashback(w)
    BY <1>1, <2>4 DEF RpAward, RpCashback, CommitBonus, BonusUnavailable
  <2>5. CASE RpOpen(w) BY <1>1, <2>5 DEF RpOpen
  <2>6. CASE CaClaim(w) BY <1>1, <2>6 DEF CaClaim
  <2>7. CASE CaFail(w) BY <1>1, <2>7 DEF CaFail
  <2>8. CASE CaFinal(w) \/ RqFinal(w)
    BY <1>1, <2>8 DEF CaFinal, RqFinal, AsExpected, FinalizeRefund
  <2>9. CASE RqClaim(w) \/ RqDecline(w)
    BY <1>1, <2>9 DEF RqClaim, RqDecline, StillUnknown
  <2>10. CASE \/ UpRead(w) \/ UpRelease(w) \/ SyncReverse(w) \/ FuRelease(w)
              \/ RpRead(w) \/ RpCommit(w) \/ RpRecheck(w) \/ RpLost(w)
              \/ CaRelease(w) \/ CaBank(w) \/ RqResolve(w) \/ FoReverse(w) \/ FoRelease(w)
    BY <1>2, <2>10 DEF UpRead, UpRelease, SyncReverse, FuRelease, RpRead, RpCommit,
       RpRecheck, RpLost, CaRelease, CaBank, RqResolve, FoReverse, FoRelease
  <2> QED BY <1>7, <2>1, <2>2, <2>3, <2>4, <2>5, <2>6, <2>7, <2>8, <2>9, <2>10
          DEF CallStep
<1> QED BY <1>4, <1>5, <1>6, <1>7 DEF Next

LEMMA FinalAlways == Spec => []Final
<1>1. Init => Final
  BY DEF Init, Final
<1>2. Typed /\ Final /\ [Next]_vars => Final'
  BY FinalStep
<1> QED BY <1>1, <1>2, TypedAlways, PTL DEF Spec

\* Once a refund is confirmed the row never leaves refunded, succeeded, cancelled.
THEOREM RefundStaysFinal == Spec => RefundIsFinal
<1>1. Typed /\ Final /\ [Next]_vars =>
        [order.refund = "succeeded" =>
           order'.refund = "succeeded" /\ order'.status = "refunded"
           /\ order'.ful = "cancelled"]_vars
  BY FinalStep
<1> QED BY <1>1, TypedAlways, FinalAlways, PTL DEF Spec, RefundIsFinal

-------------------------------------------------------------------------------
(* A confirmed refund was paid back.                                           *)

\* A refund under way has an id the bank knows, in the row and in every memory.
Naming == {"caRelease", "caBank", "rqClaim", "rqResolve"}
NamedRow(row) == row.refund # "none" => row.req \in RefundIds
NamedJob(j) == NamedRow(j.seen) /\ (j.call \in Naming => j.seen.req \in RefundIds)
Named == NamedRow(order) /\ \A w \in Workers : NamedJob(job[w])

\* A handler writes the confirmation only after the bank has confirmed.
Writing == {"caFinal", "rqFinal"}
ConfirmedJob(j) == j.call \in Writing => PaidBack
Confirmed == RefundedMeansPaidBack /\ \A w \in Workers : ConfirmedJob(job[w])

\* What handler w remembers after its step.
LEMMA JobAfter ==
    ASSUME job \in [Workers -> Job], NEW w \in Workers
    PROVE  /\ Finish(w) => job'[w] = Idle
           /\ \A call, by, answer, seen : Become(w, call, by, answer, seen) =>
                job'[w].call = call /\ job'[w].seen = seen /\ job'[w].answer = answer
           /\ \A call : Go(w, call) =>
                job'[w].call = call /\ job'[w].seen = job[w].seen
                /\ job'[w].answer = job[w].answer
           /\ \A call, answer : Hear(w, call, answer) =>
                job'[w].call = call /\ job'[w].seen = job[w].seen
                /\ job'[w].answer = answer
           /\ \A call, seen : Recall(w, call, seen) =>
                job'[w].call = call /\ job'[w].seen = seen
                /\ job'[w].answer = job[w].answer
<1>1. Finish(w) => job'[w] = Idle
  BY DEF Finish
<1>2. ASSUME NEW call, NEW by, NEW answer, NEW seen, Become(w, call, by, answer, seen)
      PROVE  job'[w].call = call /\ job'[w].seen = seen /\ job'[w].answer = answer
  <2>1. job'[w] = [call |-> call, by |-> by, answer |-> answer, seen |-> seen]
    BY <1>2 DEF Become
  <2> QED BY <2>1
<1>3. ASSUME NEW call, Go(w, call)
      PROVE  job'[w].call = call /\ job'[w].seen = job[w].seen
             /\ job'[w].answer = job[w].answer
  BY <1>2, <1>3 DEF Go
<1>4. ASSUME NEW call, NEW answer, Hear(w, call, answer)
      PROVE  job'[w].call = call /\ job'[w].seen = job[w].seen /\ job'[w].answer = answer
  BY <1>2, <1>4 DEF Hear
<1>5. ASSUME NEW call, NEW seen, Recall(w, call, seen)
      PROVE  job'[w].call = call /\ job'[w].seen = seen
             /\ job'[w].answer = job[w].answer
  BY <1>2, <1>5 DEF Recall
<1> QED BY <1>1, <1>2, <1>3, <1>4, <1>5

\* No answer and no decision of the bank takes a completed refund back.
LEMMA RefundCallKeeps ==
    ASSUME refunds \in [RefundIds -> {"none", "slow", "done", "declined"}],
           NEW r, NEW answer \in RefundAnswers, RefundCall(r, answer)
    PROVE  /\ PaidBack => PaidBack'
           /\ answer = "ok" /\ r \in RefundIds => PaidBack'
<1>1. CASE answer = "lost"
  <2>1. PICK s \in {"slow", "done", refunds[r]} :
           /\ refunds[r] \in {"none", "slow"} \/ s = refunds[r]
           /\ refunds' = [refunds EXCEPT ![r] = s]
    BY <1>1 DEF RefundCall
  <2>2. \A q \in RefundIds : refunds[q] = "done" => refunds'[q] = "done"
    BY <2>1
  <2> QED BY <1>1, <2>2 DEF PaidBack, RefundIds
<1>2. CASE answer = "ok"
  <2>1. refunds' = [refunds EXCEPT ![r] = "done"]
    BY <1>2 DEF RefundCall
  <2>2. \A q \in RefundIds : refunds[q] = "done" \/ q = r => refunds'[q] = "done"
    BY <2>1
  <2> QED BY <2>2 DEF PaidBack, RefundIds
<1>3. CASE answer \in {"slow", "declined", "rejected"}
  <2>1. \A q \in RefundIds : refunds[q] = "done" => refunds'[q] = "done"
    BY <1>3 DEF RefundCall
  <2> QED BY <1>3, <2>1 DEF PaidBack, RefundIds
<1> QED BY <1>1, <1>2, <1>3 DEF RefundAnswers

LEMMA PaidBackStays ==
    ASSUME Typed, [Next]_vars
    PROVE  PaidBack => PaidBack'
<1>1. refunds \in [RefundIds -> {"none", "slow", "done", "declined"}]
  BY DEF Typed, TypeOK
<1>2. UNCHANGED refunds => (PaidBack => PaidBack')
  BY DEF PaidBack, RefundIds
<1>3. CASE UNCHANGED vars BY <1>2, <1>3 DEF vars
<1>4. CASE BankDecide
  <2>1. \A q \in RefundIds : refunds[q] = "done" => refunds'[q] = "done"
    BY <1>1, <1>4 DEF BankDecide
  <2> QED BY <2>1 DEF PaidBack, RefundIds
<1>5. CASE Environment /\ ~BankDecide
  BY <1>2, <1>5 DEF Environment, StaffServe, StaffComplete, ReleaseClosed, BankCharge,
     StockLapses, HoldLapses, ClaimAges, bank
<1>6. ASSUME NEW w \in Workers, StartStep(w) \/ CallStep(w) \/ Crash(w)
      PROVE  PaidBack => PaidBack'
  <2>1. CASE CaBank(w) BY <1>1, <2>1, RefundCallKeeps DEF CaBank
  <2>2. CASE RqResolve(w)
    <3>1. CASE UNCHANGED bank BY <1>2, <3>1 DEF bank
    <3>2. CASE \E answer \in RefundAnswers : RefundCall(job[w].seen.req, answer)
      BY <1>1, <3>2, RefundCallKeeps
    <3> QED BY <2>2, <3>1, <3>2 DEF RqResolve
  <2>3. CASE ~CaBank(w) /\ ~RqResolve(w)
    <3>1. UNCHANGED bank
      BY <1>6, <2>3 DEF StartStep, CallStep, Crash, SyncStart, ExpireStart, FinalizeStart,
         RecordStart, CustomerCancel, StaffCancel, RqStart, FoStart,
         SyncMeta, UpRead, UpCas, UpRelease, SyncMark, SyncReverse, SyncReverseMark,
         FuCas, FuRelease, FuMark, RpRead, RpCommit, RpAward, RpRecheck, RpOpen, RpLost,
         RpCashback, CaClaim, CaRelease, CaFail, CaFinal, RqClaim, RqDecline, RqDefer,
         RqFinal, FoReverse, FoMark, FoRelease, FoDone
    <3> QED BY <1>2, <3>1 DEF bank
  <2> QED BY <2>1, <2>2, <2>3
<1> QED BY <1>3, <1>4, <1>5, <1>6 DEF Next

\* The row: its id is set with the claim and never taken away.
LEMMA NamedRowStep ==
    ASSUME Typed, Named, [Next]_vars
    PROVE  NamedRow(order')
<1>1. order \in Order /\ issued \in 0..MaxRefunds /\ job \in [Workers -> Job]
  BY DEF Typed, TypeOK
<1>2. NamedRow(order)
  BY DEF Named
<1>3. (order'.refund = order.refund /\ order'.req = order.req) => NamedRow(order')
  BY <1>2 DEF NamedRow
<1> USE DEF Order
<1>4. CASE UNCHANGED vars BY <1>3, <1>4 DEF vars
<1>5. CASE Environment
  BY <1>1, <1>3, <1>5 DEF Environment, StaffServe, StaffComplete, ReleaseClosed, BankCharge,
     BankDecide, StockLapses, HoldLapses, ClaimAges
<1>6. ASSUME NEW w \in Workers, StartStep(w) \/ Crash(w) PROVE NamedRow(order')
  BY <1>3, <1>6 DEF StartStep, SyncStart, ExpireStart, FinalizeStart, RecordStart,
     CustomerCancel, StaffCancel, RqStart, FoStart, Crash
<1>7. ASSUME NEW w \in Workers, CallStep(w) PROVE NamedRow(order')
  <2>1. CASE SyncMeta(w) \/ UpCas(w) \/ SyncMark(w) \/ SyncReverseMark(w) \/ FuMark(w)
             \/ FoMark(w) \/ FoDone(w) \/ RqDefer(w) \/ FuCas(w) \/ RpOpen(w)
    BY <1>1, <1>3, <2>1 DEF SyncMeta, UpCas, SyncMark, SyncReverseMark, FuMark, FoMark,
       FoDone, RqDefer, FuCas, RpOpen
  <2>2. CASE RpAward(w) \/ RpCashback(w)
    BY <1>1, <1>3, <2>2 DEF RpAward, RpCashback, CommitBonus, BonusUnavailable
  <2>3. CASE CaClaim(w)
    <3> DEFINE id == IF ReusesId(job[w].by, job[w].seen) THEN job[w].seen.req
                     ELSE issued + 1
    <3>1. CASE UNCHANGED order BY <1>3, <3>1
    <3>2. CASE ~UNCHANGED order
      <4>1. id <= MaxRefunds /\ order'.req = id
        BY <1>1, <2>3, <3>2 DEF CaClaim
      <4>2. id \in RefundIds
        BY <1>1, <4>1, PaymentAssumption
        DEF Named, NamedJob, NamedRow, ReusesId, RefundIds
      <4> QED BY <4>1, <4>2 DEF NamedRow
    <3> QED BY <3>1, <3>2
  <2>4. CASE CaFail(w) BY <1>1, <1>2, <2>4 DEF CaFail, NamedRow
  <2>5. CASE CaFinal(w) \/ RqFinal(w)
    BY <1>1, <1>2, <1>3, <2>5 DEF CaFinal, RqFinal, AsExpected, FinalizeRefund, NamedRow
  <2>6. CASE RqClaim(w) \/ RqDecline(w)
    BY <1>1, <1>2, <1>3, <2>6 DEF RqClaim, RqDecline, StillUnknown, NamedRow
  <2>7. CASE \/ UpRead(w) \/ UpRelease(w) \/ SyncReverse(w) \/ FuRelease(w)
             \/ RpRead(w) \/ RpCommit(w) \/ RpRecheck(w) \/ RpLost(w)
             \/ CaRelease(w) \/ CaBank(w) \/ RqResolve(w) \/ FoReverse(w) \/ FoRelease(w)
    BY <1>3, <2>7 DEF UpRead, UpRelease, SyncReverse, FuRelease, RpRead, RpCommit,
       RpRecheck, RpLost, CaRelease, CaBank, RqResolve, FoReverse, FoRelease
  <2> QED BY <1>7, <2>1, <2>2, <2>3, <2>4, <2>5, <2>6, <2>7 DEF CallStep
<1> QED BY <1>4, <1>5, <1>6, <1>7 DEF Next

\* The handler that moves: it copies the id from the row, or has just set it.
LEMMA NamedJobStep ==
    ASSUME Typed, Named, NEW w \in Workers, StartStep(w) \/ CallStep(w) \/ Crash(w)
    PROVE  NamedJob(job'[w])
<1>1. order \in Order /\ issued \in 0..MaxRefunds /\ job \in [Workers -> Job]
      /\ job[w].seen \in Row
  BY DEF Typed, TypeOK, Job
<1>2. NamedRow(order) /\ NamedRow(job[w].seen)
      /\ (job[w].call \in Naming => job[w].seen.req \in RefundIds)
  BY DEF Named, NamedJob
<1>3. NamedRow(Read) /\ Read.req = order.req
  BY <1>2 DEF Read, NamedRow
<1>4. /\ NamedRow(Blank)
      /\ \A req, ref : LET row == [Blank EXCEPT !.req = req, !.ref = ref] IN
           NamedRow(row) /\ row.req = req
      /\ \A req : LET row == [Blank EXCEPT !.req = req] IN NamedRow(row) /\ row.req = req
      /\ \A status : NamedRow([Blank EXCEPT !.status = status])
      /\ \A reason : NamedRow([Blank EXCEPT !.reason = reason])
  BY DEF Blank, NamedRow
<1>5. /\ Finish(w) => job'[w] = Idle
      /\ \A call, by, answer, seen : Become(w, call, by, answer, seen) =>
           job'[w].call = call /\ job'[w].seen = seen
      /\ \A call : Go(w, call) => job'[w].call = call /\ job'[w].seen = job[w].seen
      /\ \A call, answer : Hear(w, call, answer) =>
           job'[w].call = call /\ job'[w].seen = job[w].seen
      /\ \A call, seen : Recall(w, call, seen) =>
           job'[w].call = call /\ job'[w].seen = seen
  BY <1>1, JobAfter
\* How a handler goes on decides what has to be shown of its memory.
<1>6. Finish(w) => NamedJob(job'[w])
  <2>1. Idle.seen = Blank /\ Idle.call \notin Naming
    BY DEF Idle, Naming
  <2>2. NamedJob(Idle)
    BY <1>4, <2>1 DEF NamedJob
  <2> QED BY <1>5, <2>2
<1>7. \A call : Go(w, call) /\ (call \in Naming => job[w].call \in Naming)
         => NamedJob(job'[w])
  BY <1>2, <1>5 DEF NamedJob
<1>8. \A call, answer : Hear(w, call, answer) /\ call \notin Naming => NamedJob(job'[w])
  BY <1>2, <1>5 DEF NamedJob
<1>9. \A call, seen : Recall(w, call, seen) /\ NamedRow(seen)
         /\ (call \in Naming => seen.req \in RefundIds) => NamedJob(job'[w])
  BY <1>5 DEF NamedJob
<1>10. \A call, by, answer, seen : Become(w, call, by, answer, seen) /\ NamedRow(seen)
         /\ (call \in Naming => seen.req \in RefundIds) => NamedJob(job'[w])
  BY <1>5 DEF NamedJob
<1>11. CASE StartStep(w)
  <2> USE DEF Start, Naming
  <2>1. CASE SyncStart(w) \/ ExpireStart(w) \/ RecordStart(w) \/ FoStart(w)
    BY <1>4, <1>10, <2>1 DEF SyncStart, ExpireStart, RecordStart, FoStart
  <2>2. CASE FinalizeStart(w) BY <1>4, <1>10, <2>2 DEF FinalizeStart
  <2>3. CASE CustomerCancel(w) BY <1>3, <1>10, <2>3 DEF CustomerCancel
  <2>4. ASSUME NEW by, StaffCancel(w, by) PROVE NamedJob(job'[w])
    BY <1>3, <1>10, <2>4 DEF StaffCancel
  <2>5. CASE RqStart(w)
    <3>1. order.req \in RefundIds
      BY <1>2, <2>5 DEF RqStart, NamedRow
    <3> DEFINE row == [Blank EXCEPT !.req = order.req, !.ref = order.ref]
    <3>2. NamedRow(row) /\ row.req = order.req
      BY <1>4
    <3>3. PICK call \in {"rqClaim", "rqResolve"} : Become(w, call, "recon", "none", row)
      BY <2>5 DEF RqStart
    <3> HIDE DEF row
    <3> QED BY <1>10, <3>1, <3>2, <3>3
  <2> QED BY <1>11, <2>1, <2>2, <2>3, <2>4, <2>5 DEF StartStep
<1>12. CASE Crash(w) BY <1>6, <1>12 DEF Crash
<1>13. CASE CallStep(w)
  <2> USE DEF Naming
  <2>1. Continue(w) => NamedJob(job'[w])
    BY <1>4, <1>6, <1>9 DEF Continue
  <2>2. CASE SyncMeta(w) BY <1>6, <1>7, <1>8, <2>2 DEF SyncMeta
  <2>3. CASE UpRead(w) BY <1>4, <1>9, <2>1, <2>3 DEF UpRead
  <2>4. CASE UpCas(w) \/ UpRelease(w) BY <1>7, <2>1, <2>4 DEF UpCas, UpRelease
  <2>5. CASE SyncMark(w) \/ SyncReverse(w) \/ SyncReverseMark(w)
    BY <1>6, <1>7, <2>5 DEF SyncMark, SyncReverse, SyncReverseMark
  <2>6. CASE FuCas(w) \/ FuRelease(w) \/ FuMark(w)
    BY <1>6, <1>7, <2>6 DEF FuCas, FuRelease, FuMark
  <2>7. Recorded(w) => NamedJob(job'[w])
    BY <1>6, <1>7 DEF Recorded
  <2>8. \A row : RefundUnavailable(w, row) /\ NamedRow(row) => NamedJob(job'[w])
    BY <1>10 DEF RefundUnavailable
  <2>9. CASE RpRead(w) BY <1>3, <1>6, <1>9, <2>7, <2>8, <2>9 DEF RpRead
  <2>10. CASE RpCommit(w) BY <1>2, <1>7, <2>8, <2>10 DEF RpCommit, AfterAward
  <2>11. CASE RpAward(w) BY <1>7, <2>11 DEF RpAward, AfterAward
  <2>12. CASE RpRecheck(w) BY <1>2, <1>6, <2>7, <2>8, <2>12 DEF RpRecheck
  <2>13. CASE RpOpen(w) \/ RpLost(w) \/ RpCashback(w)
    BY <1>6, <1>7, <2>7, <2>13 DEF RpOpen, RpLost, RpCashback
  <2>14. CASE CaClaim(w)
    <3> DEFINE id == IF ReusesId(job[w].by, job[w].seen) THEN job[w].seen.req
                     ELSE issued + 1
    <3>1. CASE Finish(w) BY <1>6, <3>1
    <3>2. CASE ~Finish(w)
      <4>1. id <= MaxRefunds /\ Recall(w, "caRelease", [Blank EXCEPT !.req = id])
        BY <2>14, <3>2 DEF CaClaim
      <4>2. id \in RefundIds
        BY <1>1, <1>2, <4>1, PaymentAssumption DEF NamedRow, ReusesId, RefundIds
      <4> HIDE DEF id
      <4> QED BY <1>4, <1>9, <4>1, <4>2
    <3> QED BY <3>1, <3>2
  <2>15. CASE CaRelease(w) BY <1>7, <2>15 DEF CaRelease
  <2>16. CASE CaBank(w) BY <1>8, <2>16 DEF CaBank
  <2>17. CASE CaFail(w) \/ CaFinal(w) BY <1>6, <1>7, <2>17 DEF CaFail, CaFinal
  <2>18. CASE RqClaim(w)
    <3>1. LET row == [job[w].seen EXCEPT !.ref = order.ref] IN
            NamedRow(row) /\ row.req = job[w].seen.req
      BY <1>1, <1>2 DEF NamedRow, Row
    <3> QED BY <1>2, <1>6, <1>9, <2>18, <3>1 DEF RqClaim
  <2>19. CASE RqResolve(w)
    BY <1>8, <2>19 DEF RqResolve, Verdict
  <2>20. CASE RqDecline(w) \/ RqDefer(w) \/ RqFinal(w)
    BY <1>4, <1>6, <1>9, <2>20 DEF RqDecline, RqDefer, RqFinal
  <2>21. CASE FoReverse(w) BY <1>7, <1>8, <2>21 DEF FoReverse
  <2>22. CASE FoMark(w) \/ FoRelease(w) \/ FoDone(w)
    BY <1>6, <1>7, <2>22 DEF FoMark, FoRelease, FoDone
  <2> QED BY <1>13, <2>2, <2>3, <2>4, <2>5, <2>6, <2>9, <2>10, <2>11, <2>12, <2>13,
             <2>14, <2>15, <2>16, <2>17, <2>18, <2>19, <2>20, <2>21, <2>22 DEF CallStep
<1> QED BY <1>11, <1>12, <1>13

LEMMA NamedAlways == Spec => []Named
<1>1. Init => Named
  BY DEF Init, Named, NamedRow, NamedJob, Idle, Blank, Naming
<1>2. Typed /\ Named /\ [Next]_vars => Named'
  <2> SUFFICES ASSUME Typed, Named, [Next]_vars PROVE Named'
    OBVIOUS
  <2>1. NamedRow(order')
    BY NamedRowStep
  <2>2. CASE UNCHANGED vars \/ Environment
    <3>1. UNCHANGED job
      BY <2>2, EnvironmentTypes DEF vars, Typed
    <3> QED BY <2>1, <3>1 DEF Named
  <2>3. ASSUME NEW w \in Workers, StartStep(w) \/ CallStep(w) \/ Crash(w) PROVE Named'
    <3>1. \A v \in Workers \ {w} : job'[v] = job[v]
      BY <2>3, JobTypes DEF Typed, Moved
    <3>2. NamedJob(job'[w])
      BY <2>3, NamedJobStep
    <3> QED BY <2>1, <3>1, <3>2 DEF Named
  <2> QED BY <2>2, <2>3 DEF Next
<1> QED BY <1>1, <1>2, TypedAlways, PTL DEF Spec

\* The calls that act on a confirmation, and the steps that lead to them.
Guarded == Writing \cup {"foReverse", "foMark", "foRelease", "foDone"}

LEMMA GuardedCalls ==
    ASSUME Typed, NEW w \in Workers, StartStep(w) \/ CallStep(w) \/ Crash(w),
           job'[w].call \in Guarded
    PROVE  \/ FoStart(w) \/ CaBank(w) \/ RqResolve(w) \/ CaFinal(w) \/ RqFinal(w)
           \/ FoReverse(w) \/ FoMark(w) \/ FoRelease(w)
<1> DEFINE Free == job'[w].call \notin Guarded
<1>1. job \in [Workers -> Job]
  BY DEF Typed, TypeOK
<1>2. /\ Finish(w) => job'[w] = Idle
      /\ \A call, by, answer, seen : Become(w, call, by, answer, seen) => job'[w].call = call
      /\ \A call : Go(w, call) => job'[w].call = call
      /\ \A call, answer : Hear(w, call, answer) => job'[w].call = call
      /\ \A call, seen : Recall(w, call, seen) => job'[w].call = call
  BY <1>1, JobAfter
<1> USE DEF Guarded, Writing
<1>3. Finish(w) => Free
  <2>1. Idle.call \notin Guarded
    BY DEF Idle
  <2> QED BY <1>2, <2>1
<1>4. CASE StartStep(w) /\ ~FoStart(w)
  BY <1>2, <1>4 DEF StartStep, SyncStart, ExpireStart, FinalizeStart, RecordStart,
     CustomerCancel, StaffCancel, RqStart, Start
<1>5. CASE Crash(w) BY <1>3, <1>5 DEF Crash
<1>6. Continue(w) => Free
  BY <1>2, <1>3 DEF Continue
<1>7. Recorded(w) => Free
  BY <1>2, <1>3 DEF Recorded
<1>8. \A row : RefundUnavailable(w, row) => Free
  BY <1>2 DEF RefundUnavailable
<1>9. CASE SyncMeta(w) \/ UpRead(w) \/ UpCas(w) \/ UpRelease(w) \/ SyncMark(w)
           \/ SyncReverse(w) \/ SyncReverseMark(w)
  BY <1>2, <1>3, <1>6, <1>9 DEF SyncMeta, UpRead, UpCas, UpRelease, SyncMark,
     SyncReverse, SyncReverseMark
<1>10. CASE FuCas(w) \/ FuRelease(w) \/ FuMark(w)
  BY <1>2, <1>3, <1>10 DEF FuCas, FuRelease, FuMark
<1>11. CASE RpRead(w) \/ RpCommit(w) \/ RpAward(w) \/ RpRecheck(w) \/ RpOpen(w)
            \/ RpLost(w) \/ RpCashback(w)
  BY <1>2, <1>3, <1>7, <1>8, <1>11 DEF RpRead, RpCommit, RpAward, RpRecheck, RpOpen,
     RpLost, RpCashback, AfterAward
<1>12. CASE CaClaim(w) \/ CaRelease(w) \/ CaFail(w)
  BY <1>2, <1>3, <1>12 DEF CaClaim, CaRelease, CaFail
<1>13. CASE RqClaim(w) \/ RqDecline(w) \/ RqDefer(w) \/ FoDone(w)
  BY <1>2, <1>3, <1>13 DEF RqClaim, RqDecline, RqDefer, FoDone
<1> QED BY <1>4, <1>5, <1>9, <1>10, <1>11, <1>12, <1>13 DEF CallStep

LEMMA ConfirmedJobStep ==
    ASSUME Typed, Named, Confirmed, NEW w \in Workers,
           StartStep(w) \/ CallStep(w) \/ Crash(w), job'[w].call \in Writing
    PROVE  PaidBack'
<1>1. /\ job \in [Workers -> Job] /\ order \in Order
      /\ refunds \in [RefundIds -> {"none", "slow", "done", "declined"}]
      /\ job[w].seen \in Row
  BY DEF Typed, TypeOK, Job
<1>2. job[w].call \in Naming => job[w].seen.req \in RefundIds
  BY DEF Named, NamedJob
<1>3. /\ \A call, answer : Hear(w, call, answer) => job'[w].call = call
      /\ \A call : Go(w, call) => job'[w].call = call
      /\ \A call, by, answer, seen : Become(w, call, by, answer, seen) => job'[w].call = call
      /\ \A call, seen : Recall(w, call, seen) => job'[w].call = call
      /\ Finish(w) => job'[w] = Idle
  BY <1>1, JobAfter
<1>4. UNCHANGED bank /\ PaidBack => PaidBack'
  BY DEF PaidBack, RefundIds, bank
<1>5. CASE CaBank(w)
  <2>1. PICK answer \in RefundAnswers :
           /\ RefundCall(job[w].seen.req, answer)
           /\ Hear(w, IF answer = "ok" THEN "caFinal" ELSE "caFail", answer)
    BY <1>5 DEF CaBank
  <2>2. answer = "ok"
    BY <1>3, <2>1 DEF Writing
  <2>3. job[w].seen.req \in RefundIds
    BY <1>2, <1>5 DEF CaBank, Naming
  <2> QED BY <1>1, <2>1, <2>2, <2>3, RefundCallKeeps
<1>6. CASE RqResolve(w)
  <2>1. job[w].seen.req \in RefundIds
    BY <1>2, <1>6 DEF RqResolve, Naming
  <2>2. \A answer : Hear(w, Verdict(answer), answer) => answer = "ok"
    BY <1>3 DEF Verdict, Writing
  <2>3. CASE \E answer \in RefundAnswers : RefundCall(job[w].seen.req, answer)
                                           /\ Hear(w, Verdict(answer), answer)
    BY <1>1, <2>1, <2>2, <2>3, RefundCallKeeps
  <2>4. CASE UNCHANGED bank /\ Hear(w, Verdict(IF PaidBack THEN "ok" ELSE "lost"),
                                   IF PaidBack THEN "ok" ELSE "lost")
    BY <1>4, <2>2, <2>4
  <2>5. CASE /\ job[w].seen.ref # NoId /\ UNCHANGED bank
             /\ LET answer == CASE refunds[job[w].seen.ref] = "done" -> "ok"
                                [] refunds[job[w].seen.ref] = "declined" -> "declined"
                                [] OTHER -> "slow" IN
                  Hear(w, Verdict(answer), answer)
    <3>1. job[w].seen.ref \in RefundIds
      BY <1>1, <2>5, PaymentAssumption DEF Row, NoId, RefundIds
    <3>2. refunds[job[w].seen.ref] = "done"
      BY <2>2, <2>5
    <3> QED BY <1>4, <2>5, <3>1, <3>2 DEF PaidBack
  <2>6. CASE Hear(w, Verdict("lost"), "lost")
    BY <2>2, <2>6
  <2> QED BY <1>6, <2>3, <2>4, <2>5, <2>6 DEF RqResolve
<1>7. CASE FoStart(w) \/ CaFinal(w) \/ RqFinal(w) \/ FoReverse(w) \/ FoMark(w)
           \/ FoRelease(w)
  <2>1. job'[w].call \notin Writing
    BY <1>3, <1>7 DEF FoStart, Start, CaFinal, RqFinal, FoReverse, FoMark, FoRelease,
       Writing, Idle
  <2> QED BY <2>1
<1> QED BY <1>5, <1>6, <1>7, GuardedCalls DEF Guarded

\* The row: the confirmation is written only by a handler that holds it.
LEMMA ConfirmedRowStep ==
    ASSUME Typed, Confirmed, [Next]_vars, order.refund # "succeeded",
           order'.refund = "succeeded"
    PROVE  PaidBack
<1>1. order \in Order /\ job \in [Workers -> Job]
  BY DEF Typed, TypeOK
<1> USE DEF Order
<1>2. ~UNCHANGED order
  OBVIOUS
<1>3. ~UNCHANGED vars BY <1>2 DEF vars
<1>4. ~Environment
  BY <1>1, <1>2 DEF Environment, StaffServe, StaffComplete, ReleaseClosed, BankCharge,
     BankDecide, StockLapses, HoldLapses, ClaimAges
<1>5. PICK w \in Workers : StartStep(w) \/ CallStep(w) \/ Crash(w)
  BY <1>3, <1>4 DEF Next
<1>6. ~(StartStep(w) \/ Crash(w))
  BY <1>2 DEF StartStep, SyncStart, ExpireStart, FinalizeStart, RecordStart,
     CustomerCancel, StaffCancel, RqStart, FoStart, Crash
<1>7. CASE CaFinal(w) \/ RqFinal(w)
  BY <1>7 DEF CaFinal, RqFinal, Confirmed, ConfirmedJob, Writing
<1>8. CASE SyncMeta(w) \/ SyncMark(w) \/ SyncReverseMark(w) \/ FuMark(w) \/ UpCas(w)
           \/ FuCas(w) \/ RpOpen(w) \/ FoMark(w) \/ FoDone(w) \/ RqDefer(w)
           \/ CaClaim(w) \/ CaFail(w) \/ RqClaim(w) \/ RqDecline(w)
  <2>1. order'.refund # "succeeded" \/ order'.refund = order.refund
    BY <1>1, <1>8 DEF SyncMeta, SyncMark, SyncReverseMark, FuMark, UpCas, FuCas, RpOpen,
       FoMark, FoDone, RqDefer, CaClaim, CaFail, RqClaim, RqDecline
  <2> QED BY <2>1
<1>9. CASE RpAward(w) \/ RpCashback(w)
  BY <1>1, <1>9 DEF RpAward, RpCashback, CommitBonus, BonusUnavailable
<1>10. CASE \/ UpRead(w) \/ UpRelease(w) \/ SyncReverse(w) \/ FuRelease(w)
            \/ RpRead(w) \/ RpCommit(w) \/ RpRecheck(w) \/ RpLost(w)
            \/ CaRelease(w) \/ CaBank(w) \/ RqResolve(w) \/ FoReverse(w) \/ FoRelease(w)
  BY <1>2, <1>10 DEF UpRead, UpRelease, SyncReverse, FuRelease, RpRead, RpCommit,
     RpRecheck, RpLost, CaRelease, CaBank, RqResolve, FoReverse, FoRelease
<1> QED BY <1>5, <1>6, <1>7, <1>8, <1>9, <1>10 DEF CallStep

LEMMA ConfirmedAlways == Spec => []Confirmed
<1>1. Init => Confirmed
  BY DEF Init, Confirmed, ConfirmedJob, RefundedMeansPaidBack, Idle, Writing
<1>2. Typed /\ Named /\ Confirmed /\ [Next]_vars => Confirmed'
  <2> SUFFICES ASSUME Typed, Named, Confirmed, [Next]_vars PROVE Confirmed'
    OBVIOUS
  <2>1. PaidBack => PaidBack'
    BY PaidBackStays
  <2>2. RefundedMeansPaidBack'
    BY <2>1, ConfirmedRowStep DEF Confirmed, RefundedMeansPaidBack
  <2>3. CASE UNCHANGED vars \/ Environment
    <3>1. UNCHANGED job
      BY <2>3, EnvironmentTypes DEF vars, Typed
    <3> QED BY <2>1, <2>2, <3>1 DEF Confirmed, ConfirmedJob
  <2>4. ASSUME NEW w \in Workers, StartStep(w) \/ CallStep(w) \/ Crash(w) PROVE Confirmed'
    <3>1. \A v \in Workers \ {w} : job'[v] = job[v]
      BY <2>4, JobTypes DEF Typed, Moved
    <3>2. job'[w].call \in Writing => PaidBack'
      BY <2>4, ConfirmedJobStep
    <3> QED BY <2>1, <2>2, <3>1, <3>2 DEF Confirmed, ConfirmedJob
  <2> QED BY <2>3, <2>4 DEF Next
<1> QED BY <1>1, <1>2, TypedAlways, NamedAlways, PTL DEF Spec

\* A refund is reported as done only if the bank moved the money, whatever the
\* bank answered, lost or decided late, and however often the process stopped.
THEOREM RefundIsTrue == Spec => []RefundedMeansPaidBack
<1>1. Confirmed => RefundedMeansPaidBack
  BY DEF Confirmed
<1> QED BY <1>1, ConfirmedAlways, PTL

-------------------------------------------------------------------------------
(* The promise about the money.                                                *)

\* RefundOnce for a full refund: the payment goes back as one unit.
Payment == {"payment"}
PaidUnder == {r \in RefundIds : refunds[r] = "done"}

FullRefund == INSTANCE RefundOnce WITH
    Ids <- RefundIds,
    Units <- Payment,
    given <- PaidUnder \X Payment,
    counted <- IF order.refund = "succeeded" THEN Payment ELSE {}

LEMMA UnitIsBack == FullRefund!GivenUnits = IF PaidBack THEN Payment ELSE {}
<1>1. FullRefund!GivenUnits = {pair[2] : pair \in PaidUnder \X Payment}
  BY DEF FullRefund!GivenUnits
<1>2. CASE PaidBack
  <2>1. PICK r \in PaidUnder : TRUE
    BY <1>2 DEF PaidBack, PaidUnder
  <2>2. "payment" \in {pair[2] : pair \in PaidUnder \X Payment}
    <3>1. <<r, "payment">> \in PaidUnder \X Payment
      BY <2>1 DEF Payment
    <3>2. <<r, "payment">>[2] = "payment"
      OBVIOUS
    <3> QED BY <3>1, <3>2
  <2>3. \A pair \in PaidUnder \X Payment : pair[2] = "payment"
    BY DEF Payment
  <2> QED BY <1>1, <1>2, <2>2, <2>3 DEF Payment
<1>3. CASE ~PaidBack
  <2>1. PaidUnder = {}
    BY <1>3 DEF PaidBack, PaidUnder
  <2> QED BY <1>1, <1>3, <2>1
<1> QED BY <1>2, <1>3

\* An answer pays the refund under its own id, and only if nothing went back yet.
LEMMA CallPays ==
    ASSUME refunds \in [RefundIds -> {"none", "slow", "done", "declined"}],
           NEW r, NEW answer \in RefundAnswers, RefundCall(r, answer)
    PROVE  \/ PaidUnder' = PaidUnder
           \/ ~PaidBack /\ \E q \in RefundIds : PaidUnder' = {q}
<1>1. ASSUME NEW s, refunds' = [refunds EXCEPT ![r] = s],
             s = "done" /\ r \in RefundIds => refunds[r] = "done" \/ ~PaidBack,
             r \in RefundIds /\ refunds[r] = "done" => s = "done"
      PROVE  \/ PaidUnder' = PaidUnder
             \/ ~PaidBack /\ \E q \in RefundIds : PaidUnder' = {q}
  <2>1. \A q \in RefundIds : refunds'[q] = IF q = r THEN s ELSE refunds[q]
    BY <1>1
  <2>2. CASE r \in RefundIds /\ s = "done" /\ refunds[r] # "done"
    <3>1. ~PaidBack /\ PaidUnder = {}
      BY <1>1, <2>2 DEF PaidBack, PaidUnder
    <3>2. PaidUnder' = {r}
      BY <2>1, <2>2, <3>1 DEF PaidUnder, RefundIds
    <3> QED BY <2>2, <3>1, <3>2
  <2>3. CASE ~(r \in RefundIds /\ s = "done" /\ refunds[r] # "done")
    <3>1. \A q \in RefundIds : refunds'[q] = "done" <=> refunds[q] = "done"
      BY <1>1, <2>1, <2>3
    <3> QED BY <3>1 DEF PaidUnder, RefundIds
  <2> QED BY <2>2, <2>3
<1>2. CASE answer = "lost"
  <2>1. PICK s \in {"slow", "done", refunds[r]} :
           /\ refunds[r] \in {"none", "slow"} \/ s = refunds[r]
           /\ s = "done" => refunds[r] = "done" \/ ~PaidBack
           /\ refunds' = [refunds EXCEPT ![r] = s]
    BY <1>2 DEF RefundCall
  <2> QED BY <1>1, <2>1
<1>3. CASE answer \in {"ok", "slow", "declined"}
  <2>1. PICK s \in {"done", "slow", "declined"} :
           /\ s = "done" => refunds[r] = "done" \/ ~PaidBack
           /\ refunds[r] = "done" => s = "done"
           /\ refunds' = [refunds EXCEPT ![r] = s]
    BY <1>3 DEF RefundCall
  <2> QED BY <1>1, <2>1
<1>4. CASE answer = "rejected"
  BY <1>4 DEF RefundCall, PaidUnder, RefundIds
<1> QED BY <1>2, <1>3, <1>4 DEF RefundAnswers

\* Only the bank pays back, and no handler writes the row in the same call.
LEMMA PaymentSteps ==
    ASSUME Typed, [Next]_vars
    PROVE  \/ PaidUnder' = PaidUnder
           \/ order' = order /\ ~PaidBack /\ \E q \in RefundIds : PaidUnder' = {q}
<1>1. refunds \in [RefundIds -> {"none", "slow", "done", "declined"}]
  BY DEF Typed, TypeOK
<1>2. UNCHANGED refunds => PaidUnder' = PaidUnder
  BY DEF PaidUnder, RefundIds
<1>3. CASE UNCHANGED vars BY <1>2, <1>3 DEF vars
<1>4. CASE BankDecide
  <2>1. PICK r \in RefundIds :
          /\ refunds[r] = "slow"
          /\ \/ ~PaidBack /\ refunds' = [refunds EXCEPT ![r] = "done"]
             \/ refunds' = [refunds EXCEPT ![r] = "declined"]
    BY <1>4 DEF BankDecide
  <2>2. CASE ~PaidBack /\ refunds' = [refunds EXCEPT ![r] = "done"]
    <3>1. \A q \in RefundIds : refunds[q] # "done"
      BY <2>2 DEF PaidBack
    <3>2. \A q \in RefundIds : refunds'[q] = "done" <=> q = r
      BY <1>1, <2>2, <3>1
    <3>3. PaidUnder' = {r}
      BY <3>2 DEF PaidUnder, RefundIds
    <3> QED BY <1>4, <2>2, <3>3 DEF BankDecide
  <2>3. CASE refunds' = [refunds EXCEPT ![r] = "declined"]
    <3>1. \A q \in RefundIds : refunds'[q] = "done" <=> refunds[q] = "done"
      BY <1>1, <2>1, <2>3
    <3> QED BY <3>1 DEF PaidUnder, RefundIds
  <2> QED BY <2>1, <2>2, <2>3
<1>5. CASE Environment /\ ~BankDecide
  BY <1>2, <1>5 DEF Environment, StaffServe, StaffComplete, ReleaseClosed, BankCharge,
     StockLapses, HoldLapses, ClaimAges, bank
<1>6. ASSUME NEW w \in Workers, StartStep(w) \/ CallStep(w) \/ Crash(w)
      PROVE  \/ PaidUnder' = PaidUnder
             \/ order' = order /\ ~PaidBack /\ \E q \in RefundIds : PaidUnder' = {q}
  <2>1. CASE CaBank(w)
    <3>1. PICK answer \in RefundAnswers : RefundCall(job[w].seen.req, answer)
      BY <2>1 DEF CaBank
    <3> QED BY <1>1, <2>1, <3>1, CallPays DEF CaBank
  <2>2. CASE RqResolve(w)
    <3>1. CASE UNCHANGED bank BY <1>2, <3>1 DEF bank
    <3>2. ASSUME NEW answer \in RefundAnswers, RefundCall(job[w].seen.req, answer)
          PROVE  \/ PaidUnder' = PaidUnder
                 \/ ~PaidBack /\ \E q \in RefundIds : PaidUnder' = {q}
      BY <1>1, <3>2, CallPays
    <3> QED BY <2>2, <3>1, <3>2 DEF RqResolve
  <2>3. CASE ~CaBank(w) /\ ~RqResolve(w)
    <3>1. UNCHANGED bank
      BY <1>6, <2>3 DEF StartStep, CallStep, Crash, SyncStart, ExpireStart, FinalizeStart,
         RecordStart, CustomerCancel, StaffCancel, RqStart, FoStart,
         SyncMeta, UpRead, UpCas, UpRelease, SyncMark, SyncReverse, SyncReverseMark,
         FuCas, FuRelease, FuMark, RpRead, RpCommit, RpAward, RpRecheck, RpOpen, RpLost,
         RpCashback, CaClaim, CaRelease, CaFail, CaFinal, RqClaim, RqDecline, RqDefer,
         RqFinal, FoReverse, FoMark, FoRelease, FoDone
    <3> QED BY <1>2, <3>1 DEF bank
  <2> QED BY <2>1, <2>2, <2>3
<1> QED BY <1>3, <1>4, <1>5, <1>6 DEF Next

LEMMA FullRefundStep ==
    ASSUME Typed, Final, Confirmed', [Next]_vars
    PROVE  [FullRefund!OnceNext]_(FullRefund!once)
<1> DEFINE given == PaidUnder \X Payment
           counted == IF order.refund = "succeeded" THEN Payment ELSE {}
<1>1. CASE PaidUnder' = PaidUnder
  <2>1. PaidBack' <=> PaidBack
    BY <1>1 DEF PaidUnder, PaidBack, RefundIds
  <2>2. order.refund = "succeeded" => order'.refund = "succeeded"
    BY FinalStep
  <2>3. order'.refund = "succeeded" => PaidBack
    BY <2>1 DEF Confirmed, RefundedMeansPaidBack
  <2>4. counted' \subseteq FullRefund!GivenUnits /\ counted' \in SUBSET Payment
    BY <2>3, UnitIsBack DEF Payment
  <2>5. counted' = counted \cup counted' /\ given' = given
    BY <1>1, <2>2 DEF Payment
  <2>6. FullRefund!Count(counted')
    BY <2>4, <2>5 DEF FullRefund!Count
  <2> QED BY <2>4, <2>6 DEF FullRefund!OnceNext
<1>2. CASE order' = order /\ ~PaidBack /\ \E q \in RefundIds : PaidUnder' = {q}
  <2>1. PICK q \in RefundIds : PaidUnder' = {q}
    BY <1>2
  <2>2. PaidUnder = {}
    BY <1>2 DEF PaidUnder, PaidBack
  <2>3. given' = given \cup ({q} \X Payment) /\ counted' = counted
    BY <1>2, <2>1, <2>2 DEF Payment
  <2>4. Payment \cap FullRefund!GivenUnits = {}
    BY <1>2, UnitIsBack
  <2>5. FullRefund!Give(q, Payment)
    BY <2>3, <2>4 DEF FullRefund!Give
  <2> QED BY <2>1, <2>5 DEF FullRefund!OnceNext
<1> QED BY <1>1, <1>2, PaymentSteps

\* A full refund implements the promise partial refunds implement too: the payment
\* goes back at most once, the order counts it only when it has gone back, and
\* never forgets it.
THEOREM FullRefundKeepsPromise == Spec => FullRefund!OnceSpec
<1>1. Init => FullRefund!OnceInit
  <2> SUFFICES ASSUME Init PROVE FullRefund!OnceInit
    OBVIOUS
  <2>1. PaidUnder = {} /\ order.refund = "none"
    BY DEF Init, PaidUnder, RefundIds
  <2> QED BY <2>1 DEF FullRefund!OnceInit
<1>2. Typed /\ Final /\ Confirmed' /\ [Next]_vars => [FullRefund!OnceNext]_(FullRefund!once)
  BY FullRefundStep
<1> QED BY <1>1, <1>2, TypedAlways, FinalAlways, ConfirmedAlways, PTL
        DEF Spec, FullRefund!OnceSpec

-------------------------------------------------------------------------------
(* A refund returns the bonuses.                                               *)

\* The follow-up runs only for a confirmed refund, and from the reversal on the
\* ledger holds nothing of the order, unless the reversal failed.
Refunded == order.refund = "succeeded"
Clear == Refunded /\ ledger # "applied"
FollowingJob(j) ==
    /\ j.call = "foReverse" => Refunded
    /\ j.call \in {"foMark", "foRelease", "foDone"} /\ j.answer # "lost" => Clear
Followed == RefundReturnsBonuses /\ \A w \in Workers : FollowingJob(job[w])

\* No settlement writes bonuses for an order whose refund is confirmed.
LEMMA ClearStays ==
    ASSUME Typed, Final, [Next]_vars
    PROVE  (Refunded => Refunded') /\ (Clear => Clear')
<1>1. Refunded => Refunded'
  BY FinalStep DEF Refunded
<1>2. SUFFICES ASSUME Clear PROVE ledger' # "applied"
  BY <1>1 DEF Clear
<1>3. Refunded /\ ledger # "applied"
  BY <1>2 DEF Clear
<1>4. CASE UNCHANGED ledger BY <1>3, <1>4
<1>5. CASE ReverseLedger BY <1>3, <1>5 DEF ReverseLedger
<1>6. UNCHANGED ledger \/ ReverseLedger
  <2>1. CASE UNCHANGED vars BY <2>1 DEF vars
  <2>2. CASE Environment
    BY <2>2 DEF Environment, StaffServe, StaffComplete, ReleaseClosed, BankCharge,
       BankDecide, StockLapses, HoldLapses, ClaimAges, bonus
  <2>3. ASSUME NEW w \in Workers, StartStep(w) \/ CallStep(w) \/ Crash(w)
        PROVE  UNCHANGED ledger \/ ReverseLedger
    <3>1. CASE RpAward(w) \/ RpCashback(w)
      <4>1. ~BonusAllowed
        BY <1>3 DEF Refunded, BonusAllowed, LiveRefund
      <4> QED BY <3>1, <4>1 DEF RpAward, RpCashback, CommitBonus, BonusUnavailable, bonus
    <3>2. CASE SyncReverse(w) \/ FoReverse(w)
      BY <3>2 DEF SyncReverse, FoReverse
    <3>3. CASE ~(RpAward(w) \/ RpCashback(w) \/ SyncReverse(w) \/ FoReverse(w))
      BY <2>3, <3>3 DEF StartStep, CallStep, Crash, SyncStart, ExpireStart, FinalizeStart,
         RecordStart, CustomerCancel, StaffCancel, RqStart, FoStart,
         SyncMeta, UpRead, UpCas, UpRelease, SyncMark, SyncReverseMark, FuCas, FuRelease,
         FuMark, RpRead, RpCommit, RpRecheck, RpOpen, RpLost, CaClaim, CaRelease, CaBank,
         CaFail, CaFinal, RqClaim, RqResolve, RqDecline, RqDefer, RqFinal, FoMark,
         FoRelease, FoDone, bonus
    <3> QED BY <3>1, <3>2, <3>3
  <2> QED BY <2>1, <2>2, <2>3 DEF Next
<1> QED BY <1>4, <1>5, <1>6

LEMMA FollowingJobStep ==
    ASSUME Typed, Final, Followed, NEW w \in Workers,
           StartStep(w) \/ CallStep(w) \/ Crash(w)
    PROVE  FollowingJob(job[w])'
<1>1. job \in [Workers -> Job] /\ order \in Order
  BY DEF Typed, TypeOK
<1>2. (Refunded => Refunded') /\ (Clear => Clear')
  BY ClearStays DEF Next
<1>3. FollowingJob(job[w])
  BY DEF Followed
<1>4. /\ \A call, by, answer, seen : Become(w, call, by, answer, seen) =>
           job'[w].call = call
      /\ \A call : Go(w, call) => job'[w].call = call /\ job'[w].answer = job[w].answer
      /\ \A call, answer : Hear(w, call, answer) =>
           job'[w].call = call /\ job'[w].answer = answer
      /\ \A call, seen : Recall(w, call, seen) => job'[w].call = call
      /\ Finish(w) => job'[w] = Idle
  BY <1>1, JobAfter
<1>5. Idle.call \notin Guarded
  BY DEF Idle, Guarded, Writing
<1>6. job'[w].call \notin Guarded => FollowingJob(job[w])'
  BY DEF FollowingJob, Guarded
<1>7. job'[w].call = "foReverse" /\ Refunded' => FollowingJob(job[w])'
  BY DEF FollowingJob
<1>8. CASE FoStart(w)
  BY <1>2, <1>4, <1>7, <1>8 DEF FoStart, Start, Refunded
<1>9. CASE CaBank(w) \/ RqResolve(w)
  <2>1. job'[w].call \in {"caFinal", "caFail", "rqFinal", "rqDecline", "rqDefer"}
    BY <1>4, <1>9 DEF CaBank, RqResolve, Verdict
  <2> QED BY <2>1 DEF FollowingJob
<1>10. CASE CaFinal(w) \/ RqFinal(w)
  <2>1. \A ref : FinalizeRefund(ref) => Refunded'
    BY <1>1 DEF FinalizeRefund, Refunded, Order
  <2>2. CASE job'[w].call = "foReverse"
    <3>1. Refunded'
      BY <1>4, <1>5, <1>10, <2>1, <2>2 DEF CaFinal, RqFinal, Guarded
    <3> QED BY <1>7, <2>2, <3>1
  <2>3. CASE job'[w].call # "foReverse"
    <3>1. job'[w].call \notin Guarded
      BY <1>4, <1>5, <1>10, <2>3 DEF CaFinal, RqFinal, Guarded, Writing
    <3> QED BY <1>6, <3>1
  <2> QED BY <2>2, <2>3
<1>11. CASE FoReverse(w)
  <2>1. Refunded'
    BY <1>2, <1>3, <1>11 DEF FoReverse, FollowingJob
  <2>2. CASE ReverseLedger /\ Go(w, "foMark")
    <3>1. ledger' # "applied"
      BY <2>2 DEF ReverseLedger
    <3>2. job'[w].call = "foMark"
      BY <1>4, <2>2
    <3> QED BY <2>1, <3>1, <3>2 DEF FollowingJob, Clear
  <2>3. CASE Hear(w, "foRelease", "lost")
    <3>1. job'[w].call = "foRelease" /\ job'[w].answer = "lost"
      BY <1>4, <2>3
    <3> QED BY <3>1 DEF FollowingJob
  <2> QED BY <1>11, <2>2, <2>3 DEF FoReverse
<1>12. CASE FoMark(w) \/ FoRelease(w)
  <2>1. /\ job'[w].call \in {"foRelease", "foDone"}
        /\ job'[w].answer = job[w].answer
        /\ job[w].call \in {"foMark", "foRelease"}
    BY <1>4, <1>12 DEF FoMark, FoRelease
  <2> QED BY <1>2, <1>3, <2>1 DEF FollowingJob
<1> QED BY <1>6, <1>8, <1>9, <1>10, <1>11, <1>12, GuardedCalls

\* The follow-up of a row is closed only by a handler that has cleared the ledger.
LEMMA FollowupCloses ==
    ASSUME Typed, Final, Followed, [Next]_vars, Refunded', ~order'.followup
    PROVE  (Refunded /\ ~order.followup) \/ Clear
<1>1. job \in [Workers -> Job] /\ order \in Order
  BY DEF Typed, TypeOK
<1> USE DEF Order, Refunded
<1>2. UNCHANGED order => Refunded /\ ~order.followup
  OBVIOUS
<1>3. CASE UNCHANGED vars BY <1>2, <1>3 DEF vars
<1>4. CASE Environment
  BY <1>1, <1>2, <1>4 DEF Environment, StaffServe, StaffComplete, ReleaseClosed, BankCharge,
     BankDecide, StockLapses, HoldLapses, ClaimAges
<1>5. ASSUME NEW w \in Workers, StartStep(w) \/ CallStep(w) \/ Crash(w)
      PROVE  (Refunded /\ ~order.followup) \/ Clear
  <2>1. CASE StartStep(w) \/ Crash(w)
    BY <1>2, <2>1 DEF StartStep, SyncStart, ExpireStart, FinalizeStart, RecordStart,
       CustomerCancel, StaffCancel, RqStart, FoStart, Crash
  <2>2. CASE FoDone(w)
    <3>1. CASE job[w].answer = "lost" BY <1>1, <2>2, <3>1 DEF FoDone
    <3>2. CASE job[w].answer # "lost"
      <4>1. FollowingJob(job[w])
        BY DEF Followed
      <4> QED BY <2>2, <3>2, <4>1 DEF FoDone, FollowingJob
    <3> QED BY <3>1, <3>2
  <2>3. CASE CaFinal(w) \/ RqFinal(w)
    <3>1. \A ref : FinalizeRefund(ref) => order'.followup
      BY <1>1 DEF FinalizeRefund
    <3> QED BY <1>2, <2>3, <3>1 DEF CaFinal, RqFinal
  <2>4. CASE RpAward(w) \/ RpCashback(w)
    BY <1>1, <1>2, <2>4 DEF RpAward, RpCashback, CommitBonus, BonusUnavailable
  <2>5. CASE \/ SyncMeta(w) \/ SyncMark(w) \/ SyncReverseMark(w) \/ FuMark(w) \/ UpCas(w)
             \/ FuCas(w) \/ RpOpen(w) \/ FoMark(w) \/ RqDefer(w)
             \/ CaClaim(w) \/ CaFail(w) \/ RqClaim(w) \/ RqDecline(w)
    <3>1. order'.refund # "succeeded" \/ order'.refund = order.refund
      BY <1>1, <2>5 DEF SyncMeta, SyncMark, SyncReverseMark, FuMark, UpCas, FuCas, RpOpen,
         FoMark, RqDefer, CaClaim, CaFail, RqClaim, RqDecline
    <3>2. order'.followup = order.followup
      BY <1>1, <2>5 DEF SyncMeta, SyncMark, SyncReverseMark, FuMark, UpCas, FuCas, RpOpen,
         FoMark, RqDefer, CaClaim, CaFail, RqClaim, RqDecline
    <3> QED BY <3>1, <3>2
  <2>6. CASE \/ UpRead(w) \/ UpRelease(w) \/ SyncReverse(w) \/ FuRelease(w)
             \/ RpRead(w) \/ RpCommit(w) \/ RpRecheck(w) \/ RpLost(w)
             \/ CaRelease(w) \/ CaBank(w) \/ RqResolve(w) \/ FoReverse(w) \/ FoRelease(w)
    BY <1>2, <2>6 DEF UpRead, UpRelease, SyncReverse, FuRelease, RpRead, RpCommit,
       RpRecheck, RpLost, CaRelease, CaBank, RqResolve, FoReverse, FoRelease
  <2> QED BY <1>5, <2>1, <2>2, <2>3, <2>4, <2>5, <2>6 DEF CallStep
<1> QED BY <1>3, <1>4, <1>5 DEF Next

LEMMA FollowedAlways == Spec => []Followed
<1>1. Init => Followed
  BY DEF Init, Followed, FollowingJob, RefundReturnsBonuses, Idle
<1>2. Typed /\ Final /\ Followed /\ [Next]_vars => Followed'
  <2> SUFFICES ASSUME Typed, Final, Followed, [Next]_vars PROVE Followed'
    OBVIOUS
  <2>1. (Refunded => Refunded') /\ (Clear => Clear')
    BY ClearStays
  <2>2. RefundReturnsBonuses'
    <3> SUFFICES ASSUME Refunded', ~order'.followup PROVE ledger' # "applied"
      BY DEF RefundReturnsBonuses, Refunded
    <3>1. Clear
      BY FollowupCloses DEF Followed, RefundReturnsBonuses, Refunded, Clear
    <3> QED BY <2>1, <3>1 DEF Clear
  <2>3. \A w \in Workers : FollowingJob(job[w])'  \/ job'[w] # job[w]
    BY <2>1 DEF Followed, FollowingJob
  <2>4. CASE UNCHANGED vars \/ Environment
    <3>1. UNCHANGED job
      BY <2>4, EnvironmentTypes DEF vars, Typed
    <3> QED BY <2>2, <2>3, <3>1 DEF Followed
  <2>5. ASSUME NEW w \in Workers, StartStep(w) \/ CallStep(w) \/ Crash(w) PROVE Followed'
    <3>1. \A v \in Workers \ {w} : job'[v] = job[v]
      BY <2>5, JobTypes DEF Typed, Moved
    <3>2. FollowingJob(job[w])'
      BY <2>5, FollowingJobStep DEF FollowingJob
    <3> QED BY <2>2, <2>3, <3>1, <3>2 DEF Followed
  <2> QED BY <2>4, <2>5 DEF Next
<1> QED BY <1>1, <1>2, TypedAlways, FinalAlways, PTL DEF Spec

\* Money and bonuses go back together: when the follow-up of a refund is over the
\* ledger holds no bonus of the order, however its handlers were interleaved.
THEOREM RefundClearsLedger == Spec => []RefundReturnsBonuses
<1>1. Followed => RefundReturnsBonuses
  BY DEF Followed
<1> QED BY <1>1, FollowedAlways, PTL

===============================================================================
