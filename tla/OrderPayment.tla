----------------------------- MODULE OrderPayment -----------------------------
(* One paid order: the bank's answers, the settlement that opens the order, the *)
(* cleanup of unpaid orders, cancellations with a full refund, and the workers  *)
(* that finish what a timeout or a restart left half done.                      *)
(*                                                                             *)
(* Every handler of the Node server is a sequence of database and bank calls.   *)
(* One call is one action; between two calls any other handler may run, and the *)
(* process may stop.  A handler in flight is a record job[w]: the next call, who *)
(* started it and what it has read.  Handlers protect themselves only with      *)
(* compare-and-set updates, so what they have read may be stale.                *)
(*                                                                             *)
(* Abstractions: one order of one branch; "failed" and "expired" are one status *)
(* ("unpaid"); the stock and slot rows of StockReservation are one value; the   *)
(* statuses accepted/preparing/ready are "work"; external couriers and partial  *)
(* refunds are left out.  A bank reference is the id of the refund request that *)
(* produced it.                                                                 *)
EXTENDS Naturals

CONSTANTS
    Workers,     \* handlers that may be in flight at the same time
    MaxRefunds,  \* bound on the refund request ids an order may use
    MaxCrashes,  \* bound on the handlers that stop half way
    Widget,      \* the order was paid by the widget (TRUE) or by /flex (FALSE)
    SpendsBonus, \* the customer pays a part with bonuses
    Handlers,    \* the handlers this instance runs, a subset of AllHandlers
    Faults       \* the bank faults it meets, a subset of AllFaults

AllHandlers == {"sync", "cleanup", "poll", "customer", "admin", "kitchen",
                "recon", "staff"}

\* lost: no answer; slow: accepted, decided later; declined: refused with a
\* transaction; rejected: refused before anything is created; outage: a refund
\* stays unanswered beyond the 23 hours in which its id may be replayed.
AllFaults == {"lost", "slow", "declined", "rejected", "outage"}

ASSUME PaymentAssumption ==
    /\ MaxRefunds \in Nat
    /\ MaxCrashes \in Nat
    /\ Widget \in BOOLEAN
    /\ SpendsBonus \in BOOLEAN
    /\ Handlers \subseteq AllHandlers
    /\ Faults \subseteq AllFaults

VARIABLES
    order,    \* the kaspi_orders row
    stock,    \* inventory and slot reservations of the order
    hold,     \* loyalty_reservations row of the bonuses it spends
    ledger,   \* loyalty transactions of the order
    charge,   \* the payment, as the bank knows it
    refunds,  \* the refund requests, as the bank knows them
    issued,   \* refund request ids used so far: 1..issued
    age,      \* of refund_requested_at: five minutes and 23 hours matter
    job,      \* handlers in flight
    crashes   \* handlers stopped so far

vars == <<order, stock, hold, ledger, charge, refunds, issued, age, job, crashes>>

RefundIds == 1..MaxRefunds
NoId == 0

PayStatus == {"pending", "unpaid", "paid", "refunded"}
Fulfillment == {"pending", "new", "work", "completed", "cancelled"}
Reason == {"none", "late", "auto", "manual"}
RefundStatus == {"none", "processing", "unknown", "failed", "succeeded"}

Order == [status : PayStatus, ful : Fulfillment, reason : Reason,
          refund : RefundStatus, req : 0..MaxRefunds, ref : 0..MaxRefunds,
          awarded : BOOLEAN, reversed : BOOLEAN, followup : BOOLEAN,
          cleaned : BOOLEAN, reconciled : BOOLEAN]

\* What a handler remembers of the row it read.
Row == [status : PayStatus, ful : Fulfillment, reason : Reason,
        refund : RefundStatus, req : 0..MaxRefunds, ref : 0..MaxRefunds,
        awarded : BOOLEAN]

Blank == [status |-> "pending", ful |-> "pending", reason |-> "none",
          refund |-> "none", req |-> NoId, ref |-> NoId, awarded |-> FALSE]

Read == [status |-> order.status, ful |-> order.ful, reason |-> order.reason,
         refund |-> order.refund, req |-> order.req, ref |-> order.ref,
         awarded |-> order.awarded]

Calls == {"idle", "meta", "upRead", "upCas", "upRelease",
          "fuCas", "fuRelease", "fuMark",
          "rpRead", "rpCommit", "rpAward", "rpRecheck", "rpOpen", "rpLost",
          "rpCashback", "mark", "revRpc", "revMark",
          "caClaim", "caRelease", "caBank", "caFail", "caFinal",
          "rqClaim", "rqResolve", "rqDecline", "rqDefer", "rqFinal",
          "foReverse", "foMark", "foRelease", "foDone"}

Starters == {"none", "sync", "cleanup", "poll", "customer", "admin", "kitchen",
             "auto", "recon"}

\* answer: what the bank said, of the payment or of a refund.
Answers == {"none", "pending", "unpaid", "paid", "refunded",
            "ok", "lost", "slow", "declined", "rejected"}

Job == [call : Calls, by : Starters, answer : Answers, seen : Row]
Idle == [call |-> "idle", by |-> "none", answer |-> "none", seen |-> Blank]

TypeOK ==
    /\ order \in Order
    /\ stock \in {"active", "lapsed", "released", "committed"}
    /\ hold \in {"none", "active", "lapsed", "cancelled", "committed"}
    /\ ledger \in {"none", "applied", "reversed"}
    /\ charge \in {"open", "paid", "void"}
    /\ refunds \in [RefundIds -> {"none", "slow", "done", "declined"}]
    /\ issued \in 0..MaxRefunds
    /\ age \in {"fresh", "old", "stale"}
    /\ job \in [Workers -> Job]
    /\ crashes \in 0..MaxCrashes

Init ==
    /\ order = [status |-> "pending", ful |-> "pending", reason |-> "none",
                refund |-> "none", req |-> NoId, ref |-> NoId,
                awarded |-> FALSE, reversed |-> FALSE, followup |-> FALSE,
                cleaned |-> FALSE, reconciled |-> FALSE]
    /\ stock = "active"
    /\ hold = IF SpendsBonus THEN "active" ELSE "none"
    /\ ledger = "none"
    /\ charge = "open"
    /\ refunds = [r \in RefundIds |-> "none"]
    /\ issued = 0
    /\ age = "fresh"
    /\ job = [w \in Workers |-> Idle]
    /\ crashes = 0

\* Handler w starts, goes on with another call (keeping what it knows, or with
\* another answer or another row), or is done.
Become(w, call, by, answer, seen) ==
    job' = [job EXCEPT ![w] = [call |-> call, by |-> by, answer |-> answer, seen |-> seen]]
Start(w, call, by, answer, seen) == job[w] = Idle /\ Become(w, call, by, answer, seen)
Go(w, call) == Become(w, call, job[w].by, job[w].answer, job[w].seen)
Hear(w, call, answer) == Become(w, call, job[w].by, answer, job[w].seen)
Recall(w, call, seen) == Become(w, call, job[w].by, job[w].answer, seen)
Finish(w) == job' = [job EXCEPT ![w] = Idle]

bank == <<charge, refunds>>
bonus == <<hold, ledger>>
rest == <<issued, age, crashes>>

\* Mutant of DropHold: a status the table does not know.
DropHoldToReleased == hold' = IF hold = "active" THEN "released" ELSE hold

\* Terminal payment states drop the bonus hold (release_terminal_checkout_bonus).
DropHold == hold' = IF hold = "active" THEN "cancelled" ELSE hold

-------------------------------------------------------------------------------
(* A status sync: a webhook, a worker or the customer's poll has the bank's     *)
(* answer and applies it (applyProviderCheckout, applyProviderOrder).           *)

BankAnswer ==
    IF charge = "open" THEN "pending"
    ELSE IF charge = "void" THEN "unpaid"
    ELSE IF ~Widget /\ (\E r \in RefundIds : refunds[r] = "done") THEN "refunded"
    ELSE "paid"

\* Mutant of Unreconciled: only pending orders are listed.
ListsPendingOnly == order.status = "pending"

\* What the minute workers list: pending orders, and settled ones without
\* payment_reconciled_at.
Unreconciled ==
    order.status = "pending" \/ (order.status \in {"paid", "refunded"} /\ ~order.reconciled)

\* Only the widget has webhooks, which come at any time once the bank decided.
SyncStart(w) ==
    /\ "sync" \in Handlers
    /\ Unreconciled \/ (Widget /\ charge # "open")
    /\ Start(w, "meta", "sync", BankAnswer, Blank)
    /\ UNCHANGED <<order, stock, bonus, bank, rest>>

\* The minute worker of payment-cleanup: it asks the bank before it gives up.
ExpireStart(w) ==
    /\ "cleanup" \in Handlers
    /\ order.status = "pending"
    /\ Start(w, "meta", "cleanup", BankAnswer, Blank)
    /\ UNCHANGED <<order, stock, bonus, bank, rest>>

\* A widget checkout still unpaid after its deadline is expired by the cleanup;
\* a /flex order is never expired on a pending answer.
SyncMeta(w) ==
    /\ job[w].call = "meta"
    /\ order' = [order EXCEPT !.reconciled = FALSE]
    /\ IF job[w].answer # "pending" THEN Go(w, "upRead")
       ELSE IF job[w].by = "cleanup" /\ Widget
       THEN Hear(w, "upRead", "unpaid")
       ELSE Finish(w)
    /\ UNCHANGED <<stock, bonus, bank, rest>>

CanTransition(from, to) ==
    \/ to = "paid" /\ from \in {"pending", "unpaid"}
    \/ to = "unpaid" /\ from = "pending"
    \/ to = "refunded" /\ from = "paid"

\* What follows updateOrderStatus, whatever it did.  (The mark of an unpaid row
\* is left out: nobody reads it.)
Continue(w) ==
    CASE job[w].answer = "paid" -> Recall(w, "rpRead", Blank)
      [] job[w].answer = "refunded" -> Recall(w, "revRpc", Blank)
      [] OTHER -> IF job[w].by = "cleanup" THEN Recall(w, "fuCas", Blank)
                  ELSE Finish(w)

\* updateOrderStatus: read, compare and set, release.
UpRead(w) ==
    /\ job[w].call = "upRead"
    /\ IF CanTransition(order.status, job[w].answer)
       THEN Recall(w, "upCas", [Blank EXCEPT !.status = order.status])
       ELSE Continue(w)
    /\ UNCHANGED <<order, stock, bonus, bank, rest>>

UpCas(w) ==
    /\ job[w].call = "upCas"
    /\ IF order.status = job[w].seen.status
       THEN /\ order' = [order EXCEPT !.status = job[w].answer]
            /\ IF job[w].answer = "paid" THEN UNCHANGED hold ELSE DropHold
            /\ IF job[w].answer = "unpaid" THEN Go(w, "upRelease") ELSE Continue(w)
       ELSE UNCHANGED <<order, hold>> /\ Continue(w)
    /\ UNCHANGED <<stock, ledger, bank, rest>>

\* The release is best effort: an error is logged and the handler goes on.
ReleaseStock == stock' \in {IF stock = "lapsed" THEN stock ELSE "released", stock}

UpRelease(w) ==
    /\ job[w].call = "upRelease"
    /\ ReleaseStock
    /\ Continue(w)
    /\ UNCHANGED <<order, bonus, bank, rest>>

\* payment_reconciled_at, written when the row still has the bank's status.
SyncMark(w) ==
    /\ job[w].call = "mark"
    /\ order' = [order EXCEPT !.reconciled = @ \/ order.status = job[w].answer]
    /\ Finish(w)
    /\ UNCHANGED <<stock, bonus, bank, rest>>

ReverseLedger == ledger' = IF ledger = "applied" THEN "reversed" ELSE ledger

\* A /flex payment the bank reports refunded: reverseOrderLoyalty.
SyncReverse(w) ==
    /\ job[w].call = "revRpc"
    /\ ReverseLedger
    /\ Go(w, "revMark")
    /\ UNCHANGED <<order, stock, hold, bank, rest>>

SyncReverseMark(w) ==
    /\ job[w].call = "revMark"
    /\ order' = [order EXCEPT !.reversed = TRUE]
    /\ Go(w, "mark")
    /\ UNCHANGED <<stock, bonus, bank, rest>>

-------------------------------------------------------------------------------
(* finalizeUnpaidOrder: cancel the fulfillment, release, mark.                  *)

\* Mutant of FinalizeStart: an order already cancelled is taken for finished.
FinalizeStartSkipsCancelled(w) ==
    /\ "cleanup" \in Handlers
    /\ order.status = "unpaid" /\ ~order.cleaned
    /\ order.ful \in {"pending", "new"}
    /\ Start(w, "fuCas", "cleanup", "unpaid", [Blank EXCEPT !.reason = order.reason])
    /\ UNCHANGED <<order, stock, bonus, bank, rest>>

FinalizeStart(w) ==
    /\ "cleanup" \in Handlers
    /\ order.status = "unpaid" /\ ~order.cleaned
    /\ order.ful \in {"pending", "new", "cancelled"}
    /\ Start(w, "fuCas", "cleanup", "unpaid", [Blank EXCEPT !.reason = order.reason])
    /\ UNCHANGED <<order, stock, bonus, bank, rest>>

FuCas(w) ==
    /\ job[w].call = "fuCas"
    /\ IF order.status = "unpaid" /\ ~order.cleaned
          /\ order.ful \in {"pending", "new", "cancelled"}
       THEN /\ order' = [order EXCEPT !.ful = "cancelled",
                  !.reason = IF job[w].seen.reason = "none" THEN "late"
                             ELSE job[w].seen.reason]
            /\ Go(w, "fuRelease")
       ELSE Finish(w) /\ UNCHANGED order
    /\ UNCHANGED <<stock, bonus, bank, rest>>

\* Unguarded: by now the order may have been paid and its stock committed.
FuRelease(w) ==
    /\ job[w].call = "fuRelease"
    /\ stock' = IF stock = "lapsed" THEN stock ELSE "released"
    /\ Go(w, "fuMark")
    /\ UNCHANGED <<order, bonus, bank, rest>>

FuMark(w) ==
    /\ job[w].call = "fuMark"
    /\ order' = [order EXCEPT
           !.cleaned = @ \/ (order.status = "unpaid" /\ order.ful = "cancelled")]
    /\ Finish(w)
    /\ UNCHANGED <<stock, bonus, bank, rest>>

-------------------------------------------------------------------------------
(* recordPaidOrder: settle a paid order, then open it for the kitchen.          *)

\* The customer's poll settles a paid order without asking the bank.
RecordStart(w) ==
    /\ "poll" \in Handlers
    /\ order.status = "paid"
    /\ Start(w, "rpRead", "poll", "paid", Blank)
    /\ UNCHANGED <<order, stock, bonus, bank, rest>>

\* recordPaidOrder returned a paid row: a sync goes on to mark it reconciled.
Recorded(w) ==
    IF job[w].by \in {"sync", "cleanup"} THEN Go(w, "mark") ELSE Finish(w)

LiveRefund == order.refund \in {"processing", "unknown", "succeeded"}
Late(row) == row.ful = "cancelled" /\ row.reason \in {"late", "auto"}
BeforeService(row) == row.ful \in {"pending", "new"}

\* refundUnavailableOrder: cancelPaidOrder with the row the settlement read.
RefundUnavailable(w, row) ==
    Become(w, "caClaim", "auto", job[w].answer, row)

RpRead(w) ==
    /\ job[w].call = "rpRead"
    /\ IF order.status # "paid" THEN Finish(w)
       ELSE IF LiveRefund \/ (order.ful = "cancelled" /\ ~Late(order))
       THEN Recorded(w)
       ELSE IF order.reason = "auto" /\ order.refund = "failed"
       THEN RefundUnavailable(w, Read)
       ELSE Recall(w, IF BeforeService(order) \/ Late(order) THEN "rpCommit"
                      ELSE IF SpendsBonus /\ ~order.awarded THEN "rpAward"
                      ELSE "rpCashback", Read)
    /\ UNCHANGED <<order, stock, bonus, bank, rest>>

\* The reopening step follows only if the order had not been opened yet.
AfterAward(row) == IF row.ful = "pending" \/ Late(row) THEN "rpOpen" ELSE "rpCashback"

\* Delivery budget, stock and slot (commit_order_reservations with reacquire),
\* promo code: any of them may be gone; the promo is asked last.
RpCommit(w) ==
    /\ job[w].call = "rpCommit"
    /\ \/ /\ stock' = "committed"
          /\ \/ Go(w, IF SpendsBonus /\ ~job[w].seen.awarded THEN "rpAward"
                      ELSE AfterAward(job[w].seen))
             \/ RefundUnavailable(w, job[w].seen)
       \/ /\ stock # "committed"
          /\ UNCHANGED stock
          /\ RefundUnavailable(w, job[w].seen)
    /\ UNCHANGED <<order, bonus, bank, rest>>

\* Mutant of BonusAllowed: the reversal mark alone is trusted.
BonusUntilReversed == ~order.reversed

\* commit_checkout_bonus, under the lock of the order row.
BonusAllowed == order.status = "paid" /\ ~order.reversed /\ ~LiveRefund

CommitBonus ==
    /\ BonusAllowed
    /\ order' = [order EXCEPT !.awarded = TRUE]
    /\ IF order.awarded THEN UNCHANGED bonus
       ELSE ledger' = "applied" /\ hold' = IF SpendsBonus THEN "committed" ELSE hold

\* Refused, or the hold has lapsed and the balance no longer covers it.
BonusUnavailable ==
    /\ ~BonusAllowed
         \/ (SpendsBonus /\ ~order.awarded /\ hold \in {"lapsed", "cancelled"})
    /\ UNCHANGED <<order, bonus>>

RpAward(w) ==
    /\ job[w].call = "rpAward"
    /\ \/ CommitBonus /\ Go(w, AfterAward(job[w].seen))
       \/ BonusUnavailable /\ Go(w, "rpRecheck")
    /\ UNCHANGED <<stock, bank, rest>>

\* Mutant of RpRecheck: a refused debit does not stop the settlement.
RpRecheckIgnoresRefusal(w) ==
    /\ job[w].call = "rpRecheck"
    /\ IF order.status # "paid" THEN Finish(w)
       ELSE IF LiveRefund \/ order.reversed THEN Recorded(w)
       ELSE Go(w, AfterAward(job[w].seen))
    /\ UNCHANGED <<order, stock, bonus, bank, rest>>

RpRecheck(w) ==
    /\ job[w].call = "rpRecheck"
    /\ IF order.status # "paid" THEN Finish(w)
       ELSE IF LiveRefund \/ order.reversed THEN Recorded(w)
       ELSE RefundUnavailable(w, job[w].seen)
    /\ UNCHANGED <<order, stock, bonus, bank, rest>>

\* The order becomes visible to the kitchen, if nobody changed its fulfillment.
RpOpen(w) ==
    /\ job[w].call = "rpOpen"
    /\ IF order.status = "paid" /\ order.ful = job[w].seen.ful
       THEN /\ order' = [order EXCEPT !.ful = "new", !.reason = "none"]
            /\ Go(w, "rpCashback")
       ELSE Go(w, "rpLost") /\ UNCHANGED order
    /\ UNCHANGED <<stock, bonus, bank, rest>>

RpLost(w) ==
    /\ job[w].call = "rpLost"
    /\ IF order.status # "paid" THEN Finish(w)
       ELSE IF order.refund \in {"processing", "unknown"} \/ order.ful = "cancelled"
       THEN Recorded(w)
       ELSE Go(w, "rpCashback")
    /\ UNCHANGED <<order, stock, bonus, bank, rest>>

\* Cashback of an order without bonuses; then the receipt and the events.
RpCashback(w) ==
    /\ job[w].call = "rpCashback"
    /\ IF SpendsBonus THEN UNCHANGED <<order, bonus>>
       ELSE CommitBonus \/ BonusUnavailable
    /\ IF order.status = "paid" THEN Recorded(w) ELSE Finish(w)
    /\ UNCHANGED <<stock, bank, rest>>

-------------------------------------------------------------------------------
(* cancelPaidOrder: claim the refund, release, ask the bank, write the outcome. *)

Refundable == order.status = "paid" /\ order.refund \in {"none", "failed"}

\* canCustomerCancelOrder.
CustomerCancel(w) ==
    /\ "customer" \in Handlers
    /\ Refundable /\ order.refund = "none" /\ BeforeService(order)
    /\ Start(w, "caClaim", "customer", "none", Read)
    /\ UNCHANGED <<order, stock, bonus, bank, rest>>

\* updateAdminOrderStatus(cancelled) and updateKitchenStatus(cancelled); both
\* may repeat the cancellation of an order whose refund failed.
StaffCancel(w, by) ==
    /\ by \in {"admin", "kitchen"} \cap Handlers
    /\ Refundable /\ order.ful # "completed"
    /\ Start(w, "caClaim", by, "none", Read)
    /\ UNCHANGED <<order, stock, bonus, bank, rest>>

\* The fulfillment statuses in which the caller lets the claim happen.
Allowed(by, row) ==
    CASE by = "customer" -> {"pending", "new"}
      [] by = "admin" -> Fulfillment
      [] OTHER -> {row.ful}

\* The kitchen and the settlement repeat a failed refund under its own id.
ReusesId(by, row) == by \in {"kitchen", "auto"} /\ row.refund = "failed"

CaClaim(w) ==
    LET by == job[w].by
        row == job[w].seen
        id == IF ReusesId(by, row) THEN row.req ELSE issued + 1 IN
    /\ job[w].call = "caClaim"
    /\ IF /\ order.status = "paid"
          /\ order.refund = row.refund
          /\ row.refund \in {"none", "failed"}
          /\ order.ful \in Allowed(by, row)
       THEN /\ id <= MaxRefunds
            /\ order' = [order EXCEPT !.refund = "processing", !.req = id,
                  !.ful = "cancelled",
                  !.reason = IF by = "auto" THEN "auto" ELSE "manual"]
            /\ issued' = IF ReusesId(by, row) THEN issued ELSE id
            /\ age' = IF ReusesId(by, row) THEN age ELSE "fresh"
            /\ Recall(w, "caRelease", [Blank EXCEPT !.req = id])
       ELSE Finish(w) /\ UNCHANGED <<order, issued, age>>
    /\ UNCHANGED <<stock, bonus, bank, crashes>>

CaRelease(w) ==
    /\ job[w].call = "caRelease"
    /\ ReleaseStock
    /\ Go(w, "caBank")
    /\ UNCHANGED <<order, bonus, bank, rest>>

\* A refund request under id r, and the answer that comes back.  The bank knows
\* the id: repeating it never moves money twice.  It does not give the same
\* payment back under a second id.
PaidBack == \E r \in RefundIds : refunds[r] = "done"
RefundCall(r, answer) ==
    /\ CASE answer = "ok" -> /\ refunds[r] # "declined"
                             /\ refunds[r] = "done" \/ ~PaidBack
                             /\ refunds' = [refunds EXCEPT ![r] = "done"]
         [] answer = "lost" -> \E s \in {"slow", "done", refunds[r]} :
                             /\ refunds[r] \in {"none", "slow"} \/ s = refunds[r]
                             /\ s = "done" => refunds[r] = "done" \/ ~PaidBack
                             /\ refunds' = [refunds EXCEPT ![r] = s]
         [] answer = "slow" -> /\ refunds[r] \in {"none", "slow"}
                               /\ refunds' = [refunds EXCEPT ![r] = "slow"]
         [] answer = "declined" -> /\ refunds[r] # "done" /\ Widget
                                   /\ refunds' = [refunds EXCEPT ![r] = "declined"]
         [] answer = "rejected" -> refunds[r] = "none" /\ UNCHANGED refunds
    /\ answer \in {"ok"} \cup Faults
    /\ UNCHANGED charge

RefundAnswers == {"ok", "lost", "slow", "declined", "rejected"}

\* Mutant of CaBank: an accepted refund is taken for a finished one.
CaBankAcceptedIsFinal(w) ==
    /\ job[w].call = "caBank"
    /\ \E answer \in RefundAnswers :
          /\ RefundCall(job[w].seen.req, answer)
          /\ Hear(w, IF answer \in {"ok", "slow"} THEN "caFinal" ELSE "caFail", answer)
    /\ UNCHANGED <<order, stock, bonus, rest>>

CaBank(w) ==
    /\ job[w].call = "caBank"
    /\ \E answer \in RefundAnswers :
          /\ RefundCall(job[w].seen.req, answer)
          /\ Hear(w, IF answer = "ok" THEN "caFinal" ELSE "caFail", answer)
    /\ UNCHANGED <<order, stock, bonus, rest>>

\* Mutant of CaFail: a claim taken over in the meantime is not noticed.
CaFailWhoeverWrote(w) ==
    /\ job[w].call = "caFail"
    /\ order' = IF order.req = job[w].seen.req
                THEN [order EXCEPT !.refund = "unknown"] ELSE order
    /\ Finish(w)
    /\ UNCHANGED <<stock, bonus, bank, rest>>

\* Mutant of CaFail: no answer is taken for a refusal.
CaFailSilenceIsRefusal(w) ==
    LET id == job[w].seen.req IN
    /\ job[w].call = "caFail"
    /\ order' = IF order.refund = "processing" /\ order.req = id
                THEN [order EXCEPT !.refund = "failed"] ELSE order
    /\ Finish(w)
    /\ UNCHANGED <<stock, bonus, bank, rest>>

\* markRefundFailure: an answer that is not a refusal leaves the refund unknown.
CaFail(w) ==
    LET id == job[w].seen.req IN
    /\ job[w].call = "caFail"
    /\ IF order.refund = "processing" /\ order.req = id
       THEN order' = [order EXCEPT
              !.refund = IF job[w].answer \in {"declined", "rejected"} THEN "failed"
                         ELSE "unknown",
              !.ref = IF job[w].answer \in {"ok", "slow", "declined"} THEN id ELSE @]
       ELSE UNCHANGED order
    /\ Finish(w)
    /\ UNCHANGED <<stock, bonus, bank, rest>>

\* finalizeConfirmedOrderRefund: the row becomes refunded if it is as expected.
AsExpected(row, expected) ==
    /\ order.status = "paid" /\ order.refund = expected /\ order.req = row.req
    /\ expected = "unknown" /\ row.ref # NoId => order.ref = row.ref

FinalizeRefund(reference) ==
    /\ order' = [order EXCEPT !.status = "refunded", !.ful = "cancelled",
          !.refund = "succeeded", !.ref = reference, !.followup = TRUE]
    /\ DropHold

\* A confirmation that cannot be written is kept as an uncertain refund.
CaFinal(w) ==
    /\ job[w].call = "caFinal"
    /\ IF AsExpected(job[w].seen, "processing")
       THEN FinalizeRefund(job[w].seen.req) /\ Go(w, "foReverse")
       ELSE Go(w, "caFail") /\ UNCHANGED <<order, hold>>
    /\ UNCHANGED <<stock, ledger, bank, rest>>

-------------------------------------------------------------------------------
(* reconcileUnknownFullRefunds, and the follow-up of a confirmed refund.        *)

\* Mutant of RqStart: claims of handlers that stopped are not listed.
RqStartUnknownOnly(w) ==
    /\ "recon" \in Handlers
    /\ order.status = "paid" /\ order.refund = "unknown"
    /\ Start(w, "rqResolve", "recon", "none",
             [Blank EXCEPT !.req = order.req, !.ref = order.ref])
    /\ UNCHANGED <<order, stock, bonus, bank, rest>>

RqStart(w) ==
    /\ "recon" \in Handlers
    /\ order.status = "paid"
    /\ order.refund = "unknown" \/ (order.refund = "processing" /\ age # "fresh")
    /\ Start(w, IF order.refund = "processing" THEN "rqClaim" ELSE "rqResolve",
             "recon", "none", [Blank EXCEPT !.req = order.req, !.ref = order.ref])
    /\ UNCHANGED <<order, stock, bonus, bank, rest>>

\* Take over a claim whose handler has been silent for five minutes.
RqClaim(w) ==
    /\ job[w].call = "rqClaim"
    /\ IF order.status = "paid" /\ order.refund = "processing"
          /\ order.req = job[w].seen.req
       THEN /\ order' = [order EXCEPT !.refund = "unknown"]
            /\ Recall(w, "rqResolve", [job[w].seen EXCEPT !.ref = order.ref])
       ELSE Finish(w) /\ UNCHANGED order
    /\ UNCHANGED <<stock, bonus, bank, rest>>

Verdict(answer) ==
    CASE answer = "ok" -> "rqFinal" [] answer = "declined" -> "rqDecline"
      [] OTHER -> "rqDefer"

\* reconcileFullRefundForOrder.  A /flex payment is only read.  A widget refund
\* with a reference is looked up; without one its request id is sent again.
RqResolve(w) ==
    LET row == job[w].seen
        Conclude(answer) == Hear(w, Verdict(answer), answer) IN
    /\ job[w].call = "rqResolve"
    /\ IF ~Widget
       THEN Conclude(IF PaidBack THEN "ok" ELSE "lost") /\ UNCHANGED bank
       ELSE IF row.ref # NoId
       THEN /\ \/ Conclude(CASE refunds[row.ref] = "done" -> "ok"
                             [] refunds[row.ref] = "declined" -> "declined"
                             [] OTHER -> "slow")
               \/ "lost" \in Faults /\ Conclude("lost")
            /\ UNCHANGED bank
       ELSE IF age = "stale" THEN Conclude("lost") /\ UNCHANGED bank
       ELSE \E answer \in RefundAnswers : RefundCall(row.req, answer) /\ Conclude(answer)
    /\ UNCHANGED <<order, stock, bonus, rest>>

\* The row the reconciler read is still the one it is about to write.
StillUnknown(row) ==
    /\ order.refund = "unknown" /\ order.req = row.req

\* markFullRefundDeclined.
RqDecline(w) ==
    LET row == job[w].seen IN
    /\ job[w].call = "rqDecline"
    /\ order' = IF /\ StillUnknown(row) /\ order.status = "paid"
                   /\ row.ref # NoId => order.ref = row.ref
                THEN [order EXCEPT !.refund = "failed"]
                ELSE order
    /\ Finish(w)
    /\ UNCHANGED <<stock, bonus, bank, rest>>

\* Still open: keep the reference if the bank gave one.
RqDefer(w) ==
    LET row == job[w].seen IN
    /\ job[w].call = "rqDefer"
    /\ order' = IF StillUnknown(row) /\ job[w].answer = "slow"
                THEN [order EXCEPT !.ref = IF row.ref # NoId THEN row.ref ELSE row.req]
                ELSE order
    /\ Finish(w)
    /\ UNCHANGED <<stock, bonus, bank, rest>>

RqFinal(w) ==
    LET row == job[w].seen IN
    /\ job[w].call = "rqFinal"
    /\ IF AsExpected(row, "unknown")
       THEN /\ FinalizeRefund(IF row.ref # NoId THEN row.ref
                              ELSE IF Widget THEN row.req ELSE NoId)
            /\ Recall(w, "foReverse", Blank)
       ELSE Finish(w) /\ UNCHANGED <<order, hold>>
    /\ UNCHANGED <<stock, ledger, bank, rest>>

FoStart(w) ==
    /\ "recon" \in Handlers
    /\ order.status = "refunded" /\ order.refund = "succeeded" /\ order.followup
    /\ Start(w, "foReverse", "recon", "none", Blank)
    /\ UNCHANGED <<order, stock, bonus, bank, rest>>

\* completeRefundFollowup: bonuses, their mark, stock, the end of the follow-up.
\* An error on the way is remembered ("lost") and leaves the follow-up pending.
FoReverse(w) ==
    /\ job[w].call = "foReverse"
    /\ \/ ReverseLedger /\ Go(w, "foMark") /\ UNCHANGED crashes
       \/ /\ crashes < MaxCrashes /\ crashes' = crashes + 1
          /\ Hear(w, "foRelease", "lost")
          /\ UNCHANGED ledger
    /\ UNCHANGED <<order, stock, hold, bank, issued, age>>

FoMark(w) ==
    /\ job[w].call = "foMark"
    /\ order' = [order EXCEPT !.reversed = TRUE]
    /\ Go(w, "foRelease")
    /\ UNCHANGED <<stock, bonus, bank, rest>>

FoRelease(w) ==
    /\ job[w].call = "foRelease"
    /\ stock' = IF stock = "lapsed" THEN stock ELSE "released"
    /\ Go(w, "foDone")
    /\ UNCHANGED <<order, bonus, bank, rest>>

FoDone(w) ==
    /\ job[w].call = "foDone"
    /\ order' = IF order.status = "refunded" /\ order.refund = "succeeded"
                THEN [order EXCEPT !.followup = @ /\ job[w].answer = "lost"]
                ELSE order
    /\ Finish(w)
    /\ UNCHANGED <<stock, bonus, bank, rest>>

-------------------------------------------------------------------------------
(* The kitchen, the reservation worker, the bank, time, and restarts.           *)

\* Mutant of StaffServe: a refund under way does not stop the kitchen.
StaffServesDuringRefund ==
    /\ "staff" \in Handlers
    /\ order.status = "paid"
    /\ order.ful \in {"pending", "new", "cancelled"}
    /\ order' = [order EXCEPT !.ful = "work"]
    /\ UNCHANGED <<stock, bonus, bank, rest, job>>

\* updateKitchenStatus and apply_staff_order_transition: the fulfillment is
\* compared with what was read, but nothing asks that the order be open.
StaffServe ==
    /\ "staff" \in Handlers
    /\ order.status = "paid" /\ ~LiveRefund
    /\ order.ful \in {"pending", "new", "cancelled"}
    /\ order' = [order EXCEPT !.ful = "work"]
    /\ UNCHANGED <<stock, bonus, bank, rest, job>>

\* From the order list (which clears the reason) or by the kitchen's hand-over.
\* The release that follows runs in the background: ReleaseClosed.
StaffComplete ==
    /\ "staff" \in Handlers
    /\ order.status = "paid" /\ ~LiveRefund
    /\ order.ful \in {"new", "work"}
    /\ \E reason \in {order.reason, "none"} :
          order' = [order EXCEPT !.ful = "completed", !.reason = reason]
    /\ UNCHANGED <<stock, bonus, bank, rest, job>>

\* Mutant of ReleaseClosed: only completed and unpaid orders are listed.
ReleaseUnpaidOnly ==
    /\ stock \in {"active", "committed"}
    /\ order.ful = "completed" \/ order.status = "unpaid"
    /\ stock' = "released"
    /\ UNCHANGED <<order, bonus, bank, rest, job>>

\* reconcile_closed_order_reservations; StockReservation has its grace period
\* for late payments, which is taken not to run out here.
ReleaseClosed ==
    /\ stock \in {"active", "committed"}
    /\ \/ order.ful = "completed" \/ order.status \in {"unpaid", "refunded"}
       \/ order.ful = "cancelled" /\ ~(order.status = "paid" /\ order.reason = "late")
    /\ stock' = "released"
    /\ UNCHANGED <<order, bonus, bank, rest, job>>

\* The customer pays, or the bank closes the payment without money.
BankCharge ==
    /\ charge = "open"
    /\ charge' \in {"paid", "void"}
    /\ UNCHANGED <<order, stock, bonus, refunds, rest, job>>

\* The bank decides a refund it had accepted.
BankDecide ==
    /\ \E r \in RefundIds :
          /\ refunds[r] = "slow"
          /\ \/ ~PaidBack /\ refunds' = [refunds EXCEPT ![r] = "done"]
             \/ /\ Widget /\ "declined" \in Faults
                /\ refunds' = [refunds EXCEPT ![r] = "declined"]
    /\ UNCHANGED <<order, stock, bonus, charge, rest, job>>

StockLapses ==
    /\ stock = "active"
    /\ stock' = "lapsed"
    /\ UNCHANGED <<order, bonus, bank, rest, job>>

HoldLapses ==
    /\ hold = "active"
    /\ hold' = "lapsed"
    /\ UNCHANGED <<order, stock, ledger, bank, rest, job>>

ClaimAges ==
    /\ order.refund \in {"processing", "unknown", "failed"}
    /\ \/ age = "fresh" /\ age' = "old"
       \/ age = "old" /\ "outage" \in Faults /\ age' = "stale"
    /\ UNCHANGED <<order, stock, bonus, bank, issued, crashes, job>>

\* The process stops, or a database call of the handler fails.
Crash(w) ==
    /\ crashes < MaxCrashes
    /\ job[w] # Idle
    /\ crashes' = crashes + 1
    /\ Finish(w)
    /\ UNCHANGED <<order, stock, bonus, bank, issued, age>>

-------------------------------------------------------------------------------
StartStep(w) ==
    \/ SyncStart(w) \/ ExpireStart(w) \/ FinalizeStart(w) \/ RecordStart(w)
    \/ CustomerCancel(w) \/ StaffCancel(w, "admin") \/ StaffCancel(w, "kitchen")
    \/ RqStart(w) \/ FoStart(w)

CallStep(w) ==
    \/ SyncMeta(w) \/ UpRead(w) \/ UpCas(w) \/ UpRelease(w) \/ SyncMark(w)
    \/ SyncReverse(w) \/ SyncReverseMark(w) \/ FuCas(w) \/ FuRelease(w) \/ FuMark(w)
    \/ RpRead(w) \/ RpCommit(w) \/ RpAward(w) \/ RpRecheck(w) \/ RpOpen(w)
    \/ RpLost(w) \/ RpCashback(w)
    \/ CaClaim(w) \/ CaRelease(w) \/ CaBank(w) \/ CaFail(w) \/ CaFinal(w)
    \/ RqClaim(w) \/ RqResolve(w) \/ RqDecline(w) \/ RqDefer(w) \/ RqFinal(w)
    \/ FoReverse(w) \/ FoMark(w) \/ FoRelease(w) \/ FoDone(w)

Environment ==
    \/ StaffServe \/ StaffComplete \/ ReleaseClosed \/ BankCharge \/ BankDecide
    \/ StockLapses \/ HoldLapses \/ ClaimAges

Next ==
    \/ \E w \in Workers : StartStep(w) \/ CallStep(w) \/ Crash(w)
    \/ Environment

Spec == Init /\ [][Next]_vars

\* A call returns; the workers of server.js come back to what they list, however
\* busy the other handlers are; the bank decides and does not stay silent.
Fairness ==
    /\ \A w \in Workers : WF_vars(CallStep(w))
    /\ SF_vars(\E w \in Workers : Unreconciled /\ SyncStart(w))
    /\ SF_vars(\E w \in Workers : FinalizeStart(w))
    /\ SF_vars(\E w \in Workers : RqStart(w))
    /\ SF_vars(\E w \in Workers : FoStart(w))
    /\ SF_vars(\E w \in Workers : RqResolve(w) /\ job'[w].answer \in {"ok", "declined"})
    /\ WF_vars(ClaimAges) /\ WF_vars(BankDecide) /\ WF_vars(ReleaseClosed)

FairSpec == Spec /\ Fairness

-------------------------------------------------------------------------------
(* Properties.                                                                 *)

\* A refund is reported to the customer only if the bank moved the money: no
\* timeout, takeover, replay or stale reference turns into a success.
RefundedMeansPaidBack == order.refund = "succeeded" => PaidBack

\* A confirmed refund is final: no settlement, kitchen step, cleanup or late
\* reconciler writes over it, and the order stays cancelled.
RefundIsFinal ==
    [][order.refund = "succeeded" =>
          order'.refund = "succeeded" /\ order'.status = "refunded"
          /\ order'.ful = "cancelled"]_vars

\* Bonuses and money go back together: once the follow-up of a refund is over,
\* the order neither earned nor spent bonuses, however its settlement and its
\* cancellation were interleaved.
RefundReturnsBonuses ==
    order.refund = "succeeded" /\ ~order.followup => ledger # "applied"

\* A second refund request is not made while an earlier one may still move, or
\* has moved, the money.
NoSecondRefund ==
    [][issued' > issued => \A r \in 1..issued : refunds[r] \notin {"slow", "done"}]_vars

\* A paid order becomes new, which shows it to the kitchen, only while its stock
\* and slot are committed and the bonuses it spends are debited.
NewOnlyWhenSecured ==
    [][order'.ful = "new" /\ order.ful # "new" =>
          stock = "committed" /\ (SpendsBonus => ledger = "applied")]_vars

\* While a refund is being decided nobody may open, cook or complete the order:
\* neither a settlement that started earlier nor the kitchen.
ClaimStopsService ==
    order.refund \in {"processing", "unknown"} => order.ful = "cancelled"

\* Every refund gets a verdict in the end, whoever started it and wherever the
\* process stopped: the reconciler takes over silent claims and asks again.
UnknownRefundsSettle ==
    order.refund \in {"processing", "unknown"} ~> order.refund \in {"failed", "succeeded"}

\* Money the bank gave back is recorded as a refund of the order.
MovedRefundIsRecorded == PaidBack ~> order.refund = "succeeded"

\* A paid order is never forgotten: it is opened, or its refund is started.
PaidOrderIsServedOrRefunded ==
    order.status = "paid" ~>
        order.ful \in {"new", "work", "completed"} \/ order.refund # "none"

\* An order that will not be paid is cancelled and keeps no stock, unless the
\* payment arrives after all.
UnpaidOrderCloses ==
    order.status = "unpaid" ~>
        order.status # "unpaid" \/ (order.cleaned /\ stock \notin {"active", "committed"})

\* A refunded order gives its stock and its bonuses back for good, even when a
\* settlement that read it earlier commits the stock once more.
RefundGivesEverythingBack ==
    order.refund = "succeeded" ~>
        [](~order.followup /\ ledger # "applied" /\ stock \notin {"active", "committed"})

===============================================================================
