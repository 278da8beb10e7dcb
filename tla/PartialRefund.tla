---------------------------- MODULE PartialRefund ----------------------------
(* Partial refunds of one paid order beside its full refund: both reserve the   *)
(* same refund_status, ask the same bank and return the same bonuses, and each   *)
(* has a worker of its own that finishes what was left half done.                *)
(*                                                                             *)
(* A refund request r has a row of order_partial_refunds; two operators may post *)
(* it, even twice.  Each PL/pgSQL function is one action, each bank call is one   *)
(* action, and between them any other handler may run or stop.                   *)
(*                                                                             *)
(* Abstractions: a unit is one piece of one line, costs 1 and was paid with 1     *)
(* bonus besides, so amounts are cardinalities; the bank keeps an id for ever;    *)
(* notices, stock and the till's receipts are left out.                          *)
EXTENDS Naturals, FiniteSets

CONSTANTS
    Units,       \* what the order consists of
    Requests,    \* idempotency keys of partial refunds
    Operators,   \* handlers of createPartialRefund in flight
    MaxFull,     \* bound on the ids of full refunds
    MaxStops,    \* bound on the handlers that stop half way
    Widget,      \* paid by the widget (TRUE) or by /flex (FALSE)
    Faults       \* the answers of the bank besides "ok"

AllFaults == {"lost", "slow", "declined", "rejected"}

ASSUME RefundAssumption ==
    /\ IsFiniteSet(Units)
    /\ MaxFull \in Nat
    /\ MaxStops \in Nat
    /\ Widget \in BOOLEAN
    /\ Faults \subseteq AllFaults
    /\ Requests \cap (0..MaxFull) = {}
    /\ Operators \cap {"worker", "cancel", "recon"} = {}

VARIABLES
    order,   \* the kaspi_orders row
    rows,    \* order_partial_refunds with their items, and their adjustments
    bank,    \* what the bank knows of each refund id
    returned,\* the amount the bank has given back
    credit,  \* bonuses given back by the adjustments and by the full reversal
    issued,  \* full refund ids used: 1..issued
    job,     \* handlers in flight
    stops    \* handlers stopped so far

vars == <<order, rows, bank, returned, credit, issued, job, stops>>

NoId == 0
FullIds == 1..MaxFull
Ids == Requests \cup FullIds
Handlers == Operators \cup {"worker", "cancel", "recon"}
\* `at` stands for refund_requested_at: the claim that wrote it.  `old` is the
\* five minutes after which a claim without an outcome is taken over.
Order == [status : {"paid", "refunded"},
          refund : {"none", "processing", "unknown", "failed", "partial", "succeeded"},
          refunded : SUBSET Units, req : FullIds \cup {NoId}, ref : Ids \cup {NoId},
          at : Ids \cup {NoId}, old : BOOLEAN, followup : BOOLEAN]

RowStatus == {"none", "processing", "unknown", "succeeded", "failed"}
Row == [status : RowStatus, items : SUBSET Units, old : BOOLEAN,
        booked : BOOLEAN, marked : BOOLEAN]

Money == [state : {"none", "slow", "done", "declined"}, units : SUBSET Units]

Calls == {"idle", "claim", "bank", "unknown", "fail", "complete", "book", "mark",
          "resolve", "decline", "check", "takeover", "final", "reverse"}
Job == [call : Calls, id : Ids \cup {NoId}, units : SUBSET Units,
        answer : {"none", "ok"} \cup AllFaults, seen : Order]

TypeOK ==
    /\ order \in Order
    /\ rows \in [Requests -> Row]
    /\ bank \in [Ids -> Money]
    /\ returned \in Nat
    /\ credit \in [parts : Nat, given : BOOLEAN, amount : Nat]
    /\ issued \in 0..MaxFull
    /\ job \in [Handlers -> Job]
    /\ stops \in 0..MaxStops

Untouched == [status |-> "paid", refund |-> "none", refunded |-> {}, req |-> NoId,
              ref |-> NoId, at |-> NoId, old |-> FALSE, followup |-> FALSE]
None == [call |-> "idle", id |-> NoId, units |-> {}, answer |-> "none", seen |-> Untouched]

Init ==
    /\ order = Untouched
    /\ rows = [r \in Requests |-> [status |-> "none", items |-> {}, old |-> FALSE,
                booked |-> FALSE, marked |-> FALSE]]
    /\ bank = [i \in Ids |-> [state |-> "none", units |-> {}]]
    /\ returned = 0
    /\ credit = [parts |-> 0, given |-> FALSE, amount |-> 0]
    /\ issued = 0
    /\ job = [h \in Handlers |-> None]
    /\ stops = 0

-------------------------------------------------------------------------------
(* Handlers in flight.                                                         *)

At(h, call) == job[h].call = call
Enter(h, call, id, units, seen) ==
    /\ At(h, "idle")
    /\ job' = [job EXCEPT ![h] = [call |-> call, id |-> id, units |-> units,
                                  answer |-> "none", seen |-> seen]]
Begin(h, call, id, units) == Enter(h, call, id, units, Untouched)
BeginWithOrder(h, call, id) == Enter(h, call, id, {}, order)
Go(h, call) == job' = [job EXCEPT ![h].call = call]
Hear(h, call, answer) == job' = [job EXCEPT ![h].call = call, ![h].answer = answer]
Finish(h) == job' = [job EXCEPT ![h] = None]

-------------------------------------------------------------------------------
(* The bank.  It honours an id: a repeated request never moves money twice.      *)

Moved == {i \in Ids : bank[i].state = "done"}
Covers(i, units) ==
    bank[i].state = "done" \/ returned + Cardinality(units) <= Cardinality(Units)

Refusable(i) == bank[i].state \in {"none", "slow"}

\* What was refused stays refused; nothing beyond the payment is given back.
Answers(i, units) ==
    {"ok"} \cup Faults \cup
    IF bank[i].state = "declined" \/ ~Covers(i, units)
    THEN {IF Widget THEN "declined" ELSE "rejected"} ELSE {}

Decide(i, units, s) ==
    /\ bank' = [bank EXCEPT ![i] = [state |-> s, units |-> units]]
    /\ returned' = IF s = "done" /\ bank[i].state # "done"
                   THEN returned + Cardinality(units) ELSE returned
Unheard == UNCHANGED <<bank, returned>>

RefundCall(i, units, answer) ==
    LET known == IF bank[i].state = "none" THEN units ELSE bank[i].units
        done == bank[i].state # "declined" /\ Covers(i, known) /\ Decide(i, known, "done") IN
    \/ answer = "ok" /\ done
    \/ /\ answer = "lost"
       /\ Unheard \/ (Refusable(i) /\ Decide(i, known, "slow")) \/ done
    \/ answer = "slow" /\ Refusable(i) /\ Decide(i, known, "slow")
    \/ /\ answer = "declined" /\ Widget
       /\ bank[i].state # "done" /\ Decide(i, known, "declined")
    \/ /\ answer = "rejected"
       /\ bank[i].state = "none" \/ (~Widget /\ bank[i].state = "declined")
       /\ Unheard

BankDecide ==
    /\ \E i \in Ids :
          /\ bank[i].state = "slow"
          /\ \/ Covers(i, bank[i].units) /\ Decide(i, bank[i].units, "done")
             \/ Decide(i, bank[i].units, "declined")
    /\ UNCHANGED <<order, rows, credit, issued, job, stops>>

-------------------------------------------------------------------------------
(* PL/pgSQL functions.                                                         *)

Busy == order.refund \in {"processing", "unknown"}
WithStatus(status) == {r \in Requests : rows[r].status = status}
Succeeded == WithStatus("succeeded")
Active == WithStatus("processing") \cup WithStatus("unknown")
ItemsOf(S) == UNION {rows[r].items : r \in S}

\* Mutant of Claimable: only the quantities are compared, not the refund in progress.
ClaimableBeside(items) ==
    /\ order.status = "paid"
    /\ Cardinality(order.refunded) + Cardinality(items) <= Cardinality(Units)
    /\ items \cap ItemsOf(WithStatus("processing") \cup Succeeded) = {}

\* claim_partial_refund of a new request.
Claimable(items) ==
    /\ order.status = "paid" /\ ~Busy
    /\ Cardinality(order.refunded) + Cardinality(items) <= Cardinality(Units)
    /\ items \cap ItemsOf(WithStatus("processing") \cup Succeeded) = {}

ClaimPartial(r, items) ==
    /\ rows' = [rows EXCEPT ![r].status = "processing", ![r].items = items]
    /\ order' = [order EXCEPT !.refund = "processing", !.at = r, !.old = FALSE]

\* Mutant of Idle: the order takes the bank's word, which is none of its statuses.
IdleDeclined(S) == IF S # {} THEN "partial" ELSE "declined"

\* fail_partial_refund writes the order whatever it finds in the row.
Idle(S) == IF S # {} THEN "partial" ELSE "failed"
FailPartial(r) ==
    /\ rows' = IF rows[r].status = "processing"
               THEN [rows EXCEPT ![r].status = "failed"] ELSE rows
    /\ order' = [order EXCEPT !.refund = Idle(Succeeded)]

\* mark_partial_refund_unknown.
MarkUnknown(r, reference) ==
    IF r \in Active
    THEN /\ rows' = [rows EXCEPT ![r].status = "unknown"]
         /\ order' = [order EXCEPT !.refund = "unknown",
                                   !.ref = IF reference = NoId THEN @ ELSE reference]
    ELSE UNCHANGED <<order, rows>>

DeclinePartial(r) ==
    IF r \in Active \cup WithStatus("failed")
    THEN /\ rows' = [rows EXCEPT ![r].status = "failed"]
         /\ order' = [order EXCEPT !.refund = Idle(Succeeded)]
    ELSE UNCHANGED <<order, rows>>

Completable(r) ==
    /\ r \in Active /\ Busy
    /\ Cardinality(order.refunded) + Cardinality(rows[r].items) <= Cardinality(Units)

CompletePartial(r) ==
    LET refunded == order.refunded \cup rows[r].items
        whole == Cardinality(order.refunded) + Cardinality(rows[r].items)
                     >= Cardinality(Units) IN
    /\ rows' = [rows EXCEPT ![r].status = "succeeded"]
    /\ order' = [order EXCEPT !.refunded = refunded, !.ref = r,
          !.refund = IF whole THEN "succeeded" ELSE "partial",
          !.status = IF whole THEN "refunded" ELSE @]

\* Mutant of BookPartial: earlier adjustments are not taken off.
BookPartialAnew(r) ==
    LET due == Cardinality(ItemsOf(Succeeded)) IN
    IF rows[r].booked \/ rows[r].status # "succeeded" THEN UNCHANGED <<rows, credit>>
    ELSE /\ rows' = [rows EXCEPT ![r].booked = TRUE]
         /\ credit' = [credit EXCEPT !.parts = @ + due]

\* apply_partial_refund_adjustments: all that has succeeded so far is due, less
\* what earlier adjustments gave back.
BookPartial(r) ==
    LET due == Cardinality(ItemsOf(Succeeded)) IN
    IF rows[r].booked \/ rows[r].status # "succeeded" THEN UNCHANGED <<rows, credit>>
    ELSE /\ rows' = [rows EXCEPT ![r].booked = TRUE]
         /\ credit' = [credit EXCEPT !.parts = IF due > @ THEN due ELSE @]

\* reverse_loyalty_order gives back the rest, once.
Rest == IF Cardinality(Units) > credit.parts THEN Cardinality(Units) - credit.parts ELSE 0
ReverseRest ==
    credit' = IF credit.given THEN credit
              ELSE [credit EXCEPT !.given = TRUE, !.amount = Rest]

-------------------------------------------------------------------------------
(* createPartialRefund.                                                        *)

\* The duplicate check, the order and the quantities are read before the claim.
CreateStart(h, r) ==
    /\ h \in Operators
    /\ \/ /\ rows[r].status = "none" /\ order.status = "paid" /\ ~Busy
          /\ \E items \in SUBSET (Units \ ItemsOf(Succeeded)) :
                items # {} /\ Begin(h, "claim", r, items)
       \/ rows[r].status = "succeeded" /\ Begin(h, "book", r, {})
    /\ UNCHANGED <<order, rows, bank, returned, credit, issued, stops>>

\* A row with another processor token belongs to somebody else.
CreateClaim(h) ==
    LET r == job[h].id IN
    /\ h \in Operators /\ At(h, "claim")
    /\ CASE rows[r].status = "succeeded" -> Go(h, "book") /\ UNCHANGED <<order, rows>>
         [] rows[r].status = "none" /\ Claimable(job[h].units) ->
                Go(h, "bank") /\ ClaimPartial(r, job[h].units)
         [] OTHER -> Finish(h) /\ UNCHANGED <<order, rows>>
    /\ UNCHANGED <<bank, returned, credit, issued, stops>>

Uncertain == {"lost", "slow"}
\* /flex looks at the payment first and refuses when nothing is left.
Spent == ~Widget /\ returned >= Cardinality(Units)

\* Mutant of CreateBank: an answer that never came is taken for a refusal.
CreateBankSilenceFails(h) ==
    /\ h \in Operators /\ At(h, "bank")
    /\ \E answer \in Answers(job[h].id, job[h].units) :
          /\ RefundCall(job[h].id, job[h].units, answer)
          /\ Hear(h, IF answer = "ok" THEN "complete" ELSE "fail", answer)
    /\ UNCHANGED <<order, rows, credit, issued, stops>>

CreateBank(h) ==
    /\ h \in Operators /\ At(h, "bank")
    /\ IF Spent THEN Hear(h, "fail", "rejected") /\ Unheard
       ELSE \E answer \in Answers(job[h].id, job[h].units) :
          /\ RefundCall(job[h].id, job[h].units, answer)
          /\ Hear(h, CASE answer = "ok" -> "complete"
                       [] answer \in Uncertain -> "unknown"
                       [] OTHER -> "fail", answer)
    /\ UNCHANGED <<order, rows, credit, issued, stops>>

CreateFail(h) ==
    /\ h \in Operators /\ At(h, "fail")
    /\ FailPartial(job[h].id)
    /\ Finish(h)
    /\ UNCHANGED <<bank, returned, credit, issued, stops>>

CreateUnknown(h) ==
    /\ h \in Operators /\ At(h, "unknown")
    /\ MarkUnknown(job[h].id, IF job[h].answer \in {"ok", "slow"} THEN job[h].id ELSE NoId)
    /\ Finish(h)
    /\ UNCHANGED <<bank, returned, credit, issued, stops>>

\* completeRefundRecord; an exception of the function leaves the refund unknown.
Complete(h) ==
    /\ h \in Operators \cup {"worker"} /\ At(h, "complete")
    /\ CASE rows[job[h].id].status = "succeeded" -> Go(h, "book") /\ UNCHANGED <<order, rows>>
         [] Completable(job[h].id) -> Go(h, "book") /\ CompletePartial(job[h].id)
         [] OTHER -> /\ IF h \in Operators THEN Go(h, "unknown") ELSE Finish(h)
                     /\ UNCHANGED <<order, rows>>
    /\ UNCHANGED <<bank, returned, credit, issued, stops>>

\* applyRefundAdjustments: the function, then the marker.
Book(h) ==
    /\ At(h, "book")
    /\ BookPartial(job[h].id)
    /\ Go(h, "mark")
    /\ UNCHANGED <<order, bank, returned, issued, stops>>

Mark(h) ==
    /\ At(h, "mark")
    /\ rows' = [rows EXCEPT ![job[h].id].marked = @ \/ rows[job[h].id].status = "succeeded"]
    /\ Finish(h)
    /\ UNCHANGED <<order, bank, returned, credit, issued, stops>>

-------------------------------------------------------------------------------
(* reconcileUnknownPartialRefunds.                                             *)

\* Mutant of WorkerStart: a request whose handler stopped is never taken over.
WorkerStartUnknownOnly(r) ==
    /\ rows[r].status = "unknown"
    /\ Begin("worker", "resolve", r, ItemsOf(Succeeded))
    /\ UNCHANGED <<order, rows, bank, returned, credit, issued, stops>>

WorkerStart(r) ==
    /\ \/ rows[r].status = "unknown" /\ UNCHANGED <<order, rows>>
       \/ rows[r].status = "processing" /\ rows[r].old /\ MarkUnknown(r, NoId)
    /\ Begin("worker", "resolve", r, ItemsOf(Succeeded))
    /\ UNCHANGED <<bank, returned, credit, issued, stops>>

\* reconcileRefundForOrder: /flex knows whether everything has gone back; in all
\* other cases the request is repeated under its id.
WorkerResolve ==
    LET r == job["worker"].id
        known == Cardinality(job["worker"].units) + Cardinality(rows[r].items) IN
    /\ At("worker", "resolve")
    /\ IF Spent
       THEN /\ IF known >= Cardinality(Units) THEN Go("worker", "complete")
                                              ELSE Finish("worker")
            /\ Unheard
       ELSE \E answer \in Answers(r, rows[r].items) :
            /\ RefundCall(r, rows[r].items, answer)
            /\ CASE answer = "ok" -> Go("worker", "complete")
                 [] answer = "declined" -> Go("worker", "decline")
                 [] OTHER -> Finish("worker")
    /\ UNCHANGED <<order, rows, credit, issued, stops>>

WorkerDecline ==
    /\ At("worker", "decline")
    /\ DeclinePartial(job["worker"].id)
    /\ Finish("worker")
    /\ UNCHANGED <<bank, returned, credit, issued, stops>>

\* Mutant of WorkerReadjust: looks at orders that are still partly refunded only.
WorkerReadjustPartialOnly(r) ==
    /\ rows[r].status = "succeeded" /\ ~rows[r].marked /\ order.refund = "partial"
    /\ Begin("worker", "book", r, {})
    /\ UNCHANGED <<order, rows, bank, returned, credit, issued, stops>>

\* Refunds whose adjustments were interrupted.
WorkerReadjust(r) ==
    /\ rows[r].status = "succeeded" /\ ~rows[r].marked
    /\ Begin("worker", "book", r, {})
    /\ UNCHANGED <<order, rows, bank, returned, credit, issued, stops>>

-------------------------------------------------------------------------------
(* cancelPaidOrder: the full refund of what is left.                           *)

\* The kitchen repeats a failed refund under its id, everybody else takes a new one.
CancelStart(reuse) ==
    /\ order.status = "paid" /\ order.refund \in {"none", "failed", "partial"}
    /\ IF reuse THEN order.refund = "failed" /\ order.req # NoId ELSE issued < MaxFull
    /\ BeginWithOrder("cancel", "claim", IF reuse THEN order.req ELSE issued + 1)
    /\ UNCHANGED <<order, rows, bank, returned, credit, issued, stops>>

CancelClaim ==
    LET id == job["cancel"].id
        seen == job["cancel"].seen
        reuse == id <= issued IN
    /\ At("cancel", "claim")
    /\ IF order.status = "paid" /\ order.refund = seen.refund
       THEN /\ order' = [order EXCEPT !.refund = "processing", !.req = id,
                  !.at = IF reuse THEN seen.at ELSE id,
                  !.old = IF reuse THEN seen.old ELSE FALSE]
            /\ issued' = IF reuse THEN issued ELSE id
            /\ job' = [job EXCEPT !["cancel"].call = "bank", !["cancel"].seen = order',
                                  !["cancel"].units = Units \ order.refunded]
       ELSE Finish("cancel") /\ UNCHANGED <<order, issued>>
    /\ UNCHANGED <<rows, bank, returned, credit, stops>>

CancelBank ==
    /\ At("cancel", "bank")
    /\ IF Spent THEN Hear("cancel", "fail", "rejected") /\ Unheard
       ELSE \E answer \in Answers(job["cancel"].id, job["cancel"].units) :
          /\ RefundCall(job["cancel"].id, job["cancel"].units, answer)
          /\ Hear("cancel", IF answer = "ok" THEN "final" ELSE "fail", answer)
    /\ UNCHANGED <<order, rows, credit, issued, stops>>

\* markRefundFailure.
CancelFail ==
    LET id == job["cancel"].id
        answer == job["cancel"].answer IN
    /\ At("cancel", "fail")
    /\ order' = IF order.refund = "processing" /\ order.req = id
                THEN [order EXCEPT
                       !.refund = IF answer \in {"ok"} \cup Uncertain
                                  THEN "unknown" ELSE "failed",
                       !.ref = IF answer \in {"ok", "slow", "declined"} THEN id ELSE @]
                ELSE order
    /\ Finish("cancel")
    /\ UNCHANGED <<rows, bank, returned, credit, issued, stops>>

\* finalizeConfirmedOrderRefund compares with the row its caller has seen.
AsSeen(seen, expected) ==
    /\ order.status = "paid" /\ order.refund = expected
    /\ seen.req # NoId => order.req = seen.req
    /\ expected = "unknown" /\ seen.ref # NoId => order.ref = seen.ref

FinalizeFull(reference) ==
    order' = [order EXCEPT !.status = "refunded", !.refund = "succeeded",
                           !.refunded = Units, !.ref = reference, !.followup = TRUE]

CancelFinal ==
    /\ At("cancel", "final")
    /\ IF AsSeen(job["cancel"].seen, "processing")
       THEN FinalizeFull(job["cancel"].id) /\ Go("cancel", "reverse")
       ELSE Go("cancel", "fail") /\ UNCHANGED order
    /\ UNCHANGED <<rows, bank, returned, credit, issued, stops>>

\* completeRefundFollowup: the bonuses, then the end of the follow-up.
Reverse(h) ==
    /\ At(h, "reverse")
    /\ ReverseRest
    /\ order' = [order EXCEPT !.followup = FALSE]
    /\ Finish(h)
    /\ UNCHANGED <<rows, bank, returned, issued, stops>>

-------------------------------------------------------------------------------
(* reconcileUnknownFullRefunds.                                                *)

\* Mutant of ReconStart: a refund whose handler stopped is never listed.
ReconStartUnknownOnly ==
    /\ order.status = "paid" /\ order.refund = "unknown"
    /\ BeginWithOrder("recon", "check", order.req)
    /\ UNCHANGED <<order, rows, bank, returned, credit, issued, stops>>

ReconStart ==
    /\ order.status = "paid"
    /\ order.refund = "unknown" \/ (order.refund = "processing" /\ order.old)
    /\ BeginWithOrder("recon", "check", order.req)
    /\ UNCHANGED <<order, rows, bank, returned, credit, issued, stops>>

\* Partial refunds have a worker of their own.
ReconCheck ==
    /\ At("recon", "check")
    /\ IF Active # {} THEN Finish("recon")
       ELSE Go("recon", IF job["recon"].seen.refund = "unknown" THEN "resolve" ELSE "takeover")
    /\ UNCHANGED <<order, rows, bank, returned, credit, issued, stops>>

ReconTakeover ==
    LET seen == job["recon"].seen IN
    /\ At("recon", "takeover")
    /\ IF /\ order.status = "paid" /\ order.refund = "processing"
          /\ order.at = seen.at /\ order.req = seen.req
       THEN /\ order' = [order EXCEPT !.refund = "unknown"]
            /\ job' = [job EXCEPT !["recon"].call = "resolve", !["recon"].seen = order']
       ELSE Finish("recon") /\ UNCHANGED order
    /\ UNCHANGED <<rows, bank, returned, credit, issued, stops>>

\* reconcileFullRefundForOrder on the row that was listed.
ReconResolve ==
    LET seen == job["recon"].seen
        rest == Units \ seen.refunded
        found == bank[seen.ref] IN
    /\ At("recon", "resolve")
    /\ IF seen.req = NoId /\ (~Widget \/ seen.ref = NoId)
       THEN Finish("recon") /\ Unheard
       ELSE IF ~Widget
       THEN /\ IF Spent THEN Hear("recon", "final", "ok") ELSE Finish("recon")
            /\ Unheard
       ELSE IF seen.ref # NoId
       THEN /\ Unheard
            /\ CASE Cardinality(found.units) # Cardinality(rest) -> Finish("recon")
                 [] found.state = "done" -> Hear("recon", "final", "ok")
                 [] found.state = "declined" -> Hear("recon", "decline", "declined")
                 [] OTHER -> Finish("recon")
       ELSE \E answer \in Answers(seen.req, rest) :
            /\ RefundCall(seen.req, rest, answer)
            /\ CASE answer = "ok" -> Hear("recon", "final", answer)
                 [] answer = "declined" -> Hear("recon", "decline", answer)
                 [] OTHER -> Hear("recon", "fail", answer)
    /\ UNCHANGED <<order, rows, credit, issued, stops>>

\* markFullRefundDeclined.
ReconDecline ==
    /\ At("recon", "decline")
    /\ order' = IF AsSeen(job["recon"].seen, "unknown")
                THEN [order EXCEPT !.refund = "failed"] ELSE order
    /\ Finish("recon")
    /\ UNCHANGED <<rows, bank, returned, credit, issued, stops>>

\* A pending decision keeps the reference it came with.
ReconDefer ==
    LET seen == job["recon"].seen IN
    /\ At("recon", "fail")
    /\ order' = IF order.refund = "unknown" /\ order.req = seen.req /\ job["recon"].answer = "slow"
                THEN [order EXCEPT !.ref = seen.req] ELSE order
    /\ Finish("recon")
    /\ UNCHANGED <<rows, bank, returned, credit, issued, stops>>

ReconFinal ==
    LET seen == job["recon"].seen IN
    /\ At("recon", "final")
    /\ IF AsSeen(seen, "unknown")
       THEN /\ FinalizeFull(IF Widget /\ seen.ref = NoId THEN seen.req ELSE seen.ref)
            /\ Go("recon", "reverse")
       ELSE Finish("recon") /\ UNCHANGED order
    /\ UNCHANGED <<rows, bank, returned, credit, issued, stops>>

\* reconcileConfirmedRefundFollowups.
FollowupStart ==
    /\ order.status = "refunded" /\ order.followup
    /\ Begin("recon", "reverse", NoId, {})
    /\ UNCHANGED <<order, rows, bank, returned, credit, issued, stops>>

-------------------------------------------------------------------------------
(* Time and stops.  A handler that is alive has its answer within five minutes:  *)
(* the bank's calls time out after at most one.                                 *)

Unattended(id) == \A h \in Handlers : ~At(h, "idle") => job[h].id # id

RowAges ==
    /\ \E r \in WithStatus("processing") :
          ~rows[r].old /\ Unattended(r) /\ rows' = [rows EXCEPT ![r].old = TRUE]
    /\ UNCHANGED <<order, bank, returned, credit, issued, job, stops>>

OrderAges ==
    /\ Busy /\ ~order.old
    /\ Unattended(order.at) /\ Unattended(order.req)
    /\ order' = [order EXCEPT !.old = TRUE]
    /\ UNCHANGED <<rows, bank, returned, credit, issued, job, stops>>

\* The process stops, or a database call of the handler fails.
Stop(h) ==
    /\ stops < MaxStops /\ ~At(h, "idle")
    /\ stops' = stops + 1
    /\ Finish(h)
    /\ UNCHANGED <<order, rows, bank, returned, credit, issued>>

-------------------------------------------------------------------------------
CreateStep(h) ==
    \/ CreateClaim(h) \/ CreateBank(h) \/ CreateFail(h) \/ CreateUnknown(h)
    \/ Complete(h) \/ Book(h) \/ Mark(h)
WorkerStep == WorkerResolve \/ WorkerDecline \/ Complete("worker") \/ Book("worker")
              \/ Mark("worker")
CancelStep == CancelClaim \/ CancelBank \/ CancelFail \/ CancelFinal \/ Reverse("cancel")
ReconStep == ReconCheck \/ ReconTakeover \/ ReconResolve \/ ReconDecline \/ ReconDefer
             \/ ReconFinal \/ Reverse("recon")

Next ==
    \/ \E h \in Operators : (\E r \in Requests : CreateStart(h, r)) \/ CreateStep(h)
    \/ \E r \in Requests : WorkerStart(r) \/ WorkerReadjust(r)
    \/ WorkerStep
    \/ \E reuse \in BOOLEAN : CancelStart(reuse)
    \/ CancelStep
    \/ ReconStart \/ FollowupStart \/ ReconStep
    \/ RowAges \/ OrderAges \/ BankDecide
    \/ \E h \in Handlers : Stop(h)

Spec == Init /\ [][Next]_vars

\* A call returns; the two workers come back every minute to whatever they list;
\* the bank decides, and answers clearly in the end.
Fairness ==
    /\ \A h \in Operators : WF_vars(CreateStep(h))
    /\ WF_vars(WorkerStep) /\ WF_vars(CancelStep) /\ WF_vars(ReconStep)
    /\ \A r \in Requests : SF_vars(WorkerStart(r)) /\ SF_vars(WorkerReadjust(r))
    /\ SF_vars(ReconStart) /\ SF_vars(FollowupStart)
    /\ SF_vars(WorkerResolve /\ job'["worker"].call # "idle")
    /\ SF_vars(ReconResolve /\ job'["recon"].call \notin {"idle", "fail"})
    /\ WF_vars(RowAges) /\ WF_vars(OrderAges) /\ WF_vars(BankDecide)

FairSpec == Spec /\ Fairness

-------------------------------------------------------------------------------
(* Properties.                                                                 *)

\* The order is the mutex of its refunds: while one request may reach the bank
\* no other, partial or full, is claimed beside it.
OneRefundAtATime ==
    /\ Cardinality(Active) <= 1
    /\ Active # {} /\ order.status = "paid"
          => Busy /\ ~\E call \in {"bank", "final"} : At("cancel", call)

\* No unit goes back twice: not by two operators, a double post, a repeated
\* request, nor by a full refund beside a partial one nobody has recorded yet.
NoUnitReturnedTwice ==
    \A i, j \in Ids : i # j /\ {bank[i].state, bank[j].state} \subseteq {"slow", "done"}
                        => bank[i].units \cap bank[j].units = {}

\* What the order counts as returned has been returned by the bank.
CountedMeansReturned ==
    order.refunded \subseteq UNION {bank[i].units : i \in Moved}

\* Once every partial refund has its adjustment the customer has the bonuses of
\* exactly the units that went back, in whatever order the adjustments were made.
BonusesFollowUnits ==
    ~credit.given /\ (\A r \in Succeeded : rows[r].booked)
        => credit.parts = Cardinality(ItemsOf(Succeeded))

\* Full cancellation may follow partial refunds and returns only the remainder of
\* the bonuses: no unit's bonus comes back twice.
BonusesComeBackOnce == credit.given => credit.parts + credit.amount <= Cardinality(Units)

\* The whole of it, step by step: every answer of the bank gives back units that
\* had not gone back, and every change of the order counts units that had.
MoneyBack == INSTANCE RefundOnce WITH
    given <- {pair \in Ids \X Units : pair[1] \in Moved /\ pair[2] \in bank[pair[1]].units},
    counted <- order.refunded
GivesBackOnce == MoneyBack!OnceSpec

\* Every partial refund gets its verdict, wherever its handler stopped.
PartialRefundsSettle == \A r \in Requests : r \in Active ~> r \notin Active

\* Money the bank gave back, under whatever id, is counted by the order.
ReturnedIsCounted ==
    \A i \in Ids : bank[i].state = "done" ~> bank[i].units \subseteq order.refunded

\* An interrupted adjustment is made up for.
AdjustmentsCatchUp == \A r \in Requests : r \in Succeeded ~> rows[r].booked
===============================================================================
