-------------------------- MODULE DeliveryDispatch --------------------------
(* Calling a courier of the delivery provider for one order.  A job row carries   *)
(* the identifier under which the provider creates at most one order; requests    *)
(* of the staff and the worker that synchronises every 15 seconds write the job,  *)
(* the order and the provider in separate steps, may stop between any two, and    *)
(* may lose the answer to the creation.                                           *)
(*                                                                             *)
(* Prices, fingerprints of quotes, vehicles and texts are left out.  "awaiting"    *)
(* stands for every dispatch status a reservation may take over except failed,     *)
(* "transporting" for every stage with a courier on the job (a cancellation treats *)
(* them alike), "en_route" also for picked_up.  What decides nothing is not kept:  *)
(* the attempts of a job whose provider's order is known, the error of a job that  *)
(* has not ended.                                                               *)
EXTENDS Naturals, FiniteSets

CONSTANTS
    MaxJobs,     \* bound on the jobs of the order
    MaxAttempts, \* BUSINESS_RECONCILIATION_MAX_ATTEMPTS
    MaxStops,    \* bound on the stops of the process
    Staff,       \* requests of the staff in flight
    Workers,     \* ticks of the worker in flight
    Faults       \* may contain "denied": a refused retry of a creation that happened,
                 \* "overtake": a start is taken over between two of its own writes

ASSUME DispatchAssumption ==
    /\ MaxJobs \in Nat \ {0}
    /\ MaxAttempts \in Nat \ {0}
    /\ MaxStops \in Nat
    /\ Staff \cap Workers = {}
    /\ Faults \subseteq {"denied", "overtake"}

VARIABLES
    order,     \* the order's row in kaspi_orders
    job,       \* delivery_jobs of the order, in the order of their creation
    provider,  \* the provider's order under each job's identifier
    call,      \* requests and ticks in flight
    stops,     \* stops so far
    crossed    \* a late write of one start or end has hit the reservation of a later start

vars == <<order, job, provider, call, stops, crossed>>

Jobs == 1..MaxJobs
Calls == Staff \cup Workers

Local == {"draft", "quoted"}
Retried == {"creating", "creating_uncertain"}
Resolving == {"items_returned", "items_delivered"}
Terminal == {"complete", "cancelled"}
Live == {"search", "transporting"}
Status == {"none", "creating_exhausted", "not_created", "attaching", "unresolved"}
            \cup Local \cup Retried \cup Resolving \cup Terminal \cup Live
Internal == {"unassigned", "assigned", "en_route", "delivered", "cancelled"}

Job == [status : Status, claim : BOOLEAN, attempts : 0..MaxAttempts,
        internal : Internal, error : BOOLEAN]
Order == [courier : BOOLEAN, handed : BOOLEAN,
          delivery : Internal \ {"cancelled"},
          dispatch : {"awaiting", "processing", "succeeded", "failed"},
          closed : {"open", "cancelled", "completed"}]
Steps == {"idle", "reserve", "attempt", "create", "bind", "doubt", "refuse", "release",
          "mark", "info", "verify", "project", "write", "report", "order", "final"}
Call == [step : Steps, job : {0} \cup Jobs, seen : Job, info : Status, saves : BOOLEAN]

TypeOK ==
    /\ order \in Order
    /\ job \in [Jobs -> Job]
    /\ provider \in [Jobs -> {"none"} \cup Live \cup Terminal]
    /\ call \in [Calls -> Call]
    /\ stops \in 0..MaxStops
    /\ crossed \in BOOLEAN

NoJob == [status |-> "none", claim |-> FALSE, attempts |-> 0,
          internal |-> "unassigned", error |-> FALSE]
Idle == [step |-> "idle", job |-> 0, seen |-> NoJob, info |-> "none", saves |-> FALSE]

Init ==
    /\ order = [courier |-> FALSE, handed |-> FALSE, delivery |-> "unassigned",
                dispatch |-> "awaiting", closed |-> "open"]
    /\ job = [j \in Jobs |-> NoJob]
    /\ provider = [j \in Jobs |-> "none"]
    /\ call = [h \in Calls |-> Idle]
    /\ stops = 0
    /\ crossed = FALSE

-------------------------------------------------------------------------------
(* What the database knows and enforces.                                        *)

Active(j) == job[j].status \notin {"none"} \cup Terminal
NoActiveJob == \A j \in Jobs : ~Active(j)

\* mapBusinessStatus, with the local statuses of handed over goods.
InternalOf(s) == CASE s \in {"transporting", "unresolved"} \cup Resolving -> "en_route"
                   [] s = "complete" -> "delivered"
                   [] s = "cancelled" -> "cancelled"
                   [] OTHER -> "unassigned"

\* The order goes back to the neutral state when a job is cancelled.
Shown(internal) == IF internal = "cancelled" THEN "unassigned" ELSE internal

\* guard_delivery_job_provider_reservation, for a job that becomes active.
MayReserve == ~order.courier /\ order.delivery = "unassigned" /\ order.closed = "open"
KeepsItems(j, status) ==
    /\ job[j].status = "cancelled" /\ job[j].claim /\ status = "unresolved"
    /\ ~order.courier /\ order.delivery \in {"assigned", "en_route"} /\ order.closed = "open"
OnlyJob(j) == \A k \in Jobs \ {j} : ~Active(k)
CanWrite(j, status) ==
    \/ Active(j) \/ status \in Terminal
    \/ OnlyJob(j) /\ (MayReserve \/ KeepsItems(j, status))

\* guard_internal_courier_provider_reservation, for a new delivery_status.
MayShow(d) == d = order.delivery \/ \A j \in Jobs : Active(j) => Shown(job[j].internal) = d

Takeable == ~order.courier /\ order.delivery = "unassigned" /\ order.dispatch \in {"awaiting", "failed"}
Reserved == ~order.courier /\ order.delivery = "unassigned" /\ order.dispatch = "processing"

-------------------------------------------------------------------------------
(* A call.                                                                      *)

At(h, step) == call[h].step = step
Seen(h) == call[h].seen
Save(j, row) == job' = [job EXCEPT ![j] = row]
Start(h, step, j, row, info) ==
    /\ At(h, "idle")
    /\ call' = [call EXCEPT ![h] = [step |-> step, job |-> j, seen |-> row, info |-> info,
                                    saves |-> h \in Workers]]
Go(h, step) == call' = [call EXCEPT ![h].step = step]
GoWith(h, step, row) == call' = [call EXCEPT ![h].step = step, ![h].seen = row]
Forget(h, step) == GoWith(h, step, NoJob)
Done(h) == call' = [call EXCEPT ![h] = Idle]

\* A refused step: the worker, and a synchronisation, keep the error in the row.
Fail(h) ==
    LET j == call[h].job IN
    /\ Done(h)
    /\ IF call[h].saves /\ job[j].status \in Terminal
       THEN job' = [job EXCEPT ![j].error = TRUE]
       ELSE UNCHANGED job

\* The row is as the call read it.
Current(h) ==
    LET row == job[call[h].job] IN
    row.status = Seen(h).status /\ row.attempts = Seen(h).attempts /\ ~row.claim

Creating(h) == call[h].step \in {"create", "bind", "doubt", "refuse"}
Starting(h) == Creating(h) \/ call[h].step \in {"reserve", "attempt", "release"}

\* The reservation is that of a creation somebody else is asking about.
HitsLater(h) ==
    /\ order.dispatch = "processing"
    /\ \/ \E j \in Jobs : job[j].status = "creating_uncertain"
       \/ \E g \in Calls \ {h} : Creating(g) \/ (At(g, "attempt") /\ Current(g))

LaterStart(j) == \E k \in Jobs \ {j} : job[k].status \in Retried

\* A call between two writes of one start is left alone.
Undisturbed(j, steps) ==
    "overtake" \in Faults \/ \A h \in Calls : call[h].job = j => call[h].step \notin steps

Asked(j) == \E h \in Calls : Creating(h) /\ call[h].job = j
\* Mutant of Spent: there is no limit.
SpentNever(row) == FALSE

Spent(row) == row.attempts >= MaxAttempts

-------------------------------------------------------------------------------
(* Quotes.                                                                      *)

NewJob(j) ==
    /\ job[j].status = "none" /\ \A k \in 1..(j - 1) : job[k].status # "none"
    /\ NoActiveJob /\ MayReserve
    /\ Save(j, [NoJob EXCEPT !.status = "draft"])
    /\ UNCHANGED <<order, provider, call, stops, crossed>>

Quote(j) ==
    /\ job[j].status = "draft" /\ ~job[j].claim
    /\ Save(j, [NoJob EXCEPT !.status = "quoted"])
    /\ UNCHANGED <<order, provider, call, stops, crossed>>

\* The worker closes the job, and then reports it to the order.
Expire(h, j) ==
    /\ h \in Workers /\ job[j].status = "quoted" /\ ~job[j].claim
    /\ LET row == [job[j] EXCEPT !.status = "cancelled", !.internal = "cancelled", !.error = TRUE] IN
       Save(j, row) /\ Start(h, "order", j, row, "cancelled")
    /\ UNCHANGED <<order, provider, stops, crossed>>

-------------------------------------------------------------------------------
(* Creation.                                                                    *)

Begin(h, j) ==
    /\ h \in Staff /\ job[j].status = "quoted" /\ ~job[j].claim
    /\ Undisturbed(j, {"attempt"})
    /\ LET row == [job[j] EXCEPT !.status = "creating"] IN
       Save(j, row) /\ Start(h, "reserve", j, row, "none")
    /\ crossed' = (crossed \/ order.dispatch = "succeeded")
    /\ UNCHANGED <<order, provider, stops>>

Reserve(h) ==
    /\ At(h, "reserve") /\ Takeable
    /\ order' = [order EXCEPT !.dispatch = "processing"]
    /\ Go(h, "attempt")
    /\ UNCHANGED <<job, provider, stops, crossed>>

\* The order is taken: the job goes back to quoted, whoever may be creating it.
GiveBack(h) ==
    /\ At(h, "reserve") /\ ~Takeable
    /\ LET j == call[h].job
           open == job[j].status = "creating" /\ ~job[j].claim IN
       IF open THEN Save(j, [job[j] EXCEPT !.status = "quoted", !.attempts = 0])
               ELSE UNCHANGED job
    /\ Done(h)
    /\ UNCHANGED <<order, provider, stops, crossed>>

\* The same identifier is used again; a start that stopped early reserves the order
\* first.  The pause before it is longer than a request may take; a request of the
\* staff does not wait for it when the attempts are spent.
Retry(h, j) ==
    /\ job[j].status \in Retried /\ ~job[j].claim
    /\ Asked(j) => h \in Staff /\ Spent(job[j])
    /\ Undisturbed(j, {"reserve"})
    /\ Reserved \/ (job[j].status = "creating" /\ Takeable)
    /\ order' = [order EXCEPT !.dispatch = "processing"]
    /\ Start(h, "attempt", j, job[j], "none")
    /\ UNCHANGED <<job, provider, stops, crossed>>

\* Mutant of Attempted: a retry is not counted.
AttemptedUncounted(row) == row

Attempted(row) == [row EXCEPT !.attempts = @ + 1]

\* claimBusinessReconciliationAttempt.
Attempt(h) ==
    /\ At(h, "attempt") /\ ~Spent(Seen(h))
    /\ LET j == call[h].job IN
       IF Current(h)
       THEN Save(j, Attempted(job[j])) /\ GoWith(h, "create", Attempted(job[j]))
       ELSE Fail(h)
    /\ UNCHANGED <<order, provider, stops, crossed>>

\* The limit is looked at before the pause between two attempts.
Exhaust(h) ==
    /\ At(h, "attempt") /\ Spent(Seen(h))
    /\ LET j == call[h].job IN
       IF CanWrite(j, "creating_exhausted")
       THEN Save(j, [job[j] EXCEPT !.status = "creating_exhausted", !.error = FALSE]) /\ Done(h)
       ELSE Fail(h)
    /\ UNCHANGED <<order, provider, stops, crossed>>

Created(j) == IF provider[j] = "none" THEN "search" ELSE provider[j]

\* The provider answers, refuses, or is not heard.
Create(h) ==
    LET j == call[h].job IN
    /\ At(h, "create")
    /\ \/ /\ provider' = [provider EXCEPT ![j] = Created(j)]
          /\ call' = [call EXCEPT ![h].step = "bind", ![h].info = Created(j), ![h].seen = NoJob]
       \/ /\ \E s \in {provider[j], Created(j)} : provider' = [provider EXCEPT ![j] = s]
          /\ Go(h, "doubt")
       \/ /\ provider[j] = "none" \/ "denied" \in Faults
          /\ Forget(h, "refuse")
          /\ UNCHANGED provider
    /\ UNCHANGED <<order, job, stops, crossed>>

\* The answer is bound to the job; an order that has already ended is looked at again.
Bind(h) ==
    LET j == call[h].job
        s == IF call[h].info \in Terminal THEN "attaching" ELSE call[h].info
        row == [job[j] EXCEPT !.status = s, !.claim = TRUE, !.attempts = 0,
                              !.internal = InternalOf(s), !.error = FALSE] IN
    /\ At(h, "bind")
    /\ CASE CanWrite(j, s) ->
              /\ Save(j, row)
              /\ call' = [call EXCEPT ![h].step = "mark", ![h].seen = row, ![h].saves = TRUE]
         [] ~CanWrite(j, s) /\ OnlyJob(j) -> Fail(h)
         [] OTHER -> Go(h, "release") /\ UNCHANGED job
    /\ UNCHANGED <<order, provider, stops, crossed>>

\* Mutant of Doubt: no answer is taken for a refusal.
DoubtRefused(h) ==
    /\ At(h, "doubt") /\ Forget(h, "refuse")
    /\ UNCHANGED <<order, job, provider, stops, crossed>>

Doubt(h) ==
    LET j == call[h].job
        s == IF Spent(Seen(h)) THEN "creating_exhausted" ELSE "creating_uncertain" IN
    /\ At(h, "doubt")
    /\ IF CanWrite(j, s)
       THEN Save(j, [job[j] EXCEPT !.status = s, !.error = FALSE]) /\ Done(h)
       ELSE Fail(h)
    /\ UNCHANGED <<order, provider, stops, crossed>>

Refuse(h) ==
    LET j == call[h].job IN
    /\ At(h, "refuse")
    /\ IF CanWrite(j, "draft")
       THEN Save(j, [job[j] EXCEPT !.status = "draft", !.attempts = 0, !.error = FALSE])
       ELSE UNCHANGED job
    /\ Go(h, "release")
    /\ UNCHANGED <<order, provider, stops, crossed>>

Release(h) ==
    /\ At(h, "release")
    /\ order' = [order EXCEPT !.dispatch = IF @ = "processing" THEN "awaiting" ELSE @]
    /\ crossed' = (crossed \/ HitsLater(h))
    /\ Fail(h)
    /\ UNCHANGED <<provider, stops>>

-------------------------------------------------------------------------------
(* Synchronisation of a job whose provider's order is known.                     *)

MarkActive(o) == IF o.courier THEN o ELSE [o EXCEPT !.dispatch = "succeeded"]

\* markOrderExternalDispatchActive, right after the creation or the attachment.
Mark(h) ==
    /\ At(h, "mark")
    /\ order' = MarkActive(order)
    /\ crossed' = (crossed \/ LaterStart(call[h].job))
    /\ Go(h, "info")
    /\ UNCHANGED <<job, provider, stops>>

ItemsHanded == order.handed \/ order.delivery = "en_route"
Evidence(row) ==
    \/ row.status \in {"unresolved", "transporting"} \cup Resolving
    \/ row.internal = "en_route"
    \/ ItemsHanded

\* A row is read, or listed; an ended one is reported again if it kept an error.
Sync(h, j) ==
    LET row == job[j] IN
    /\ row.claim
    /\ \/ /\ Active(j) /\ row.status \notin Resolving
          /\ At(h, "idle")
          /\ call' = [call EXCEPT ![h] = [step |-> "info", job |-> j, seen |-> row,
                                          info |-> "none", saves |-> TRUE]]
       \/ /\ row.status \in Resolving
          /\ Start(h, "project", j, row,
                   IF row.status = "items_returned" THEN "cancelled" ELSE "complete")
       \/ /\ row.status \in Terminal /\ row.error
          /\ h \in Staff => NoActiveJob /\ \A k \in Jobs : k > j => job[k].status = "none"
          /\ IF row.status = "cancelled" /\ Evidence(row)
             THEN Start(h, "write", j, row, "unresolved")
             ELSE Start(h, "order", j, row, row.status)
    /\ UNCHANGED <<order, job, provider, stops, crossed>>

\* What the provider says; a courier that has the goods may not just be cancelled.
Info(h) ==
    LET j == call[h].job
        kept == Seen(h).status = "unresolved" \/ (provider[j] = "cancelled" /\ Evidence(Seen(h))) IN
    /\ At(h, "info")
    /\ call' = [call EXCEPT ![h].step = "project",
                            ![h].info = IF kept THEN "unresolved" ELSE provider[j]]
    /\ UNCHANGED <<order, job, provider, stops, crossed>>

\* project_yandex_delivery_status: job and order in one transaction.
Project(h) ==
    LET j == call[h].job
        row == [job[j] EXCEPT !.internal = InternalOf(call[h].info)] IN
    /\ At(h, "project")
    /\ IF Active(j) /\ job[j].status = Seen(h).status /\ ~order.courier
       THEN /\ Save(j, row)
            /\ GoWith(h, IF call[h].info \in Terminal THEN "order" ELSE "write", row)
            /\ order' = [order EXCEPT !.delivery = Shown(row.internal)]
       ELSE Fail(h) /\ UNCHANGED order
    /\ UNCHANGED <<provider, stops, crossed>>

\* The job's own row, by its id alone.
WriteJob(h) ==
    LET j == call[h].job
        s == call[h].info
        row == [job[j] EXCEPT !.status = s, !.internal = InternalOf(s), !.error = FALSE] IN
    /\ At(h, "write")
    /\ IF CanWrite(j, s) THEN Save(j, row) /\ Forget(h, "report") ELSE Fail(h)
    /\ UNCHANGED <<order, provider, stops, crossed>>

\* updateOrderFromJob of a job in progress, after markOrderExternalDispatchActive.
Report(h) ==
    LET d == Shown(InternalOf(call[h].info))
        marked == MarkActive(order) IN
    /\ At(h, "report")
    /\ IF ~order.courier /\ MayShow(d)
       THEN /\ order' = [marked EXCEPT !.delivery = d, !.handed = @ \/ d = "en_route"]
            /\ Done(h) /\ UNCHANGED job
       ELSE order' = marked /\ Fail(h)
    /\ crossed' = (crossed \/ LaterStart(call[h].job))
    /\ UNCHANGED <<provider, stops>>

OrderCancelled == [order EXCEPT !.delivery = "unassigned", !.dispatch = "failed"]
OrderDelivered == [order EXCEPT !.delivery = "delivered", !.handed = TRUE,
                                !.closed = IF @ = "open" THEN "completed" ELSE @]

\* updateOrderFromJob of an ended job.
ReportEnd(h) ==
    LET ended == call[h].info = "cancelled"
        next == IF ended THEN OrderCancelled ELSE OrderDelivered IN
    /\ At(h, "order")
    /\ CASE order.courier /\ ended -> Go(h, "final") /\ UNCHANGED <<order, job, crossed>>
         [] ~order.courier /\ MayShow(next.delivery) ->
              /\ order' = next
              /\ crossed' = (crossed \/ (ended /\ HitsLater(h)))
              /\ Go(h, "final")
              /\ UNCHANGED job
         [] OTHER -> Fail(h) /\ UNCHANGED <<order, crossed>>
    /\ UNCHANGED <<provider, stops>>

Ended(row, s) == [row EXCEPT !.status = s, !.internal = InternalOf(s), !.error = FALSE]

\* An owner's decision compares the status, the others write by id; an end that
\* was recorded before only loses its error.
Finish(h) ==
    LET j == call[h].job
        row == IF Seen(h).status \in Terminal
               THEN IF Seen(h).error THEN [job[j] EXCEPT !.error = FALSE] ELSE job[j]
               ELSE Ended(job[j], call[h].info) IN
    /\ At(h, "final")
    /\ IF Seen(h).status \in Resolving \cup {"not_created"} /\ job[j].status # Seen(h).status
       THEN Fail(h)
       ELSE Save(j, row) /\ Done(h)
    /\ UNCHANGED <<order, provider, stops, crossed>>

-------------------------------------------------------------------------------
(* Cancellation.                                                                *)

CancelLocal(h, j) ==
    /\ h \in Staff /\ job[j].status \in Local /\ ~job[j].claim
    /\ LET row == Ended(job[j], "cancelled") IN
       Save(j, row) /\ Start(h, "order", j, row, "cancelled")
    /\ UNCHANGED <<order, provider, stops, crossed>>

\* The provider cancels in the state the request names; its answer may get lost.
Cancel(h, j) ==
    /\ h \in Staff /\ Active(j) /\ job[j].claim
    /\ job[j].status \notin {"unresolved"} \cup Resolving
    /\ provider[j] \in Live
    /\ provider' = [provider EXCEPT ![j] = "cancelled"]
    /\ \/ Start(h, "verify", j, job[j], provider[j])
       \/ At(h, "idle") /\ UNCHANGED call
    /\ UNCHANGED <<order, job, stops, crossed>>

\* Only a courier nobody has seen yet is released; all else is for the owner.
Verify(h) ==
    /\ At(h, "verify")
    /\ \E read \in BOOLEAN :
          LET free == call[h].info = "search" /\ read /\ ~ItemsHanded IN
          call' = [call EXCEPT ![h].step = IF free THEN "project" ELSE "write",
                               ![h].info = IF free THEN "cancelled" ELSE "unresolved"]
    /\ UNCHANGED <<order, job, provider, stops, crossed>>

\* Mutant of MayClose: what is being created is not waited for.
MayCloseEarly == \A j \in Jobs : Active(j) => job[j].status \in Retried /\ ~job[j].claim

MayClose == NoActiveJob

\* Cancellation or refund of the order.
CloseOrder ==
    /\ order.closed = "open" /\ MayClose
    /\ order' = [order EXCEPT !.closed = "cancelled"]
    /\ UNCHANGED <<job, provider, call, stops, crossed>>

AssignInternal ==
    /\ Takeable /\ order.closed = "open" /\ NoActiveJob
    /\ order' = [order EXCEPT !.courier = TRUE, !.delivery = "assigned"]
    /\ UNCHANGED <<job, provider, call, stops, crossed>>

-------------------------------------------------------------------------------
(* The owner's decisions.                                                       *)

ResolveItems(h, j) ==
    /\ h \in Staff /\ job[j].status = "unresolved" /\ job[j].claim
    /\ \E s \in Resolving :
          LET row == [job[j] EXCEPT !.status = s] IN
          /\ Save(j, row)
          /\ Start(h, "project", j, row, IF s = "items_returned" THEN "cancelled" ELSE "complete")
    /\ UNCHANGED <<order, provider, stops, crossed>>

Attach(h, j) ==
    /\ h \in Staff /\ job[j].status = "creating_exhausted" /\ ~job[j].claim
    /\ provider[j] # "none"
    /\ LET row == [job[j] EXCEPT !.status = "attaching", !.claim = TRUE, !.attempts = 0,
                                 !.internal = "unassigned"] IN
       Save(j, row) /\ At(h, "idle")
       /\ call' = [call EXCEPT ![h] = [step |-> "mark", job |-> j, seen |-> row,
                                       info |-> "none", saves |-> TRUE]]
    /\ UNCHANGED <<order, provider, stops, crossed>>

\* The owner has looked after the last request had ended.
NotCreated(h, j) ==
    /\ h \in Staff /\ job[j].status = "creating_exhausted" /\ ~job[j].claim
    /\ provider[j] = "none" /\ ~Asked(j)
    /\ LET row == [job[j] EXCEPT !.status = "not_created",
                                 !.internal = "unassigned"] IN
       Save(j, row) /\ Start(h, "order", j, row, "cancelled")
    /\ UNCHANGED <<order, provider, stops, crossed>>

ResumeNotCreated(h, j) ==
    /\ job[j].status = "not_created" /\ ~job[j].claim
    /\ Start(h, "order", j, job[j], "cancelled")
    /\ UNCHANGED <<order, job, provider, stops, crossed>>

-------------------------------------------------------------------------------
(* The queue of dispatches, the provider and the process.                        *)

Latest(j) == job[j].status # "none" /\ \A k \in Jobs : k > j => job[k].status = "none"
Preserved(j) == job[j].status \in Retried \cup {"creating_exhausted"} \/ (job[j].claim /\ Active(j))

\* A reservation older than five minutes that no creation needs.
Requeue ==
    /\ order.dispatch = "processing" /\ \A h \in Calls : ~Starting(h)
    /\ \E j \in Jobs : Latest(j) /\ ~Preserved(j)
    /\ order' = [order EXCEPT !.dispatch = "awaiting"]
    /\ UNCHANGED <<job, provider, call, stops, crossed>>

Move(j) ==
    /\ \/ /\ provider[j] = "search" /\ provider' = [provider EXCEPT ![j] = "transporting"]
       \/ /\ provider[j] = "transporting" /\ provider' = [provider EXCEPT ![j] = "complete"]
       \/ /\ provider[j] \in Live /\ provider' = [provider EXCEPT ![j] = "cancelled"]
    /\ UNCHANGED <<order, job, call, stops, crossed>>

Stop(h) ==
    /\ ~At(h, "idle") /\ stops < MaxStops
    /\ Done(h) /\ stops' = stops + 1
    /\ UNCHANGED <<order, job, provider, crossed>>

Work(h) ==
    \/ Reserve(h) \/ GiveBack(h) \/ Attempt(h) \/ Exhaust(h) \/ Create(h) \/ Bind(h)
    \/ Doubt(h) \/ Refuse(h) \/ Release(h) \/ Mark(h) \/ Info(h) \/ Verify(h)
    \/ Project(h) \/ WriteJob(h) \/ Report(h) \/ ReportEnd(h) \/ Finish(h)

Tick(h, j) == Retry(h, j) \/ Sync(h, j) \/ ResumeNotCreated(h, j)

Next ==
    \/ \E j \in Jobs : NewJob(j) \/ Quote(j) \/ Move(j)
    \/ \E h \in Calls : Work(h) \/ Stop(h)
    \/ \E h \in Calls, j \in Jobs :
          \/ Tick(h, j) \/ Expire(h, j) \/ Begin(h, j) \/ CancelLocal(h, j) \/ Cancel(h, j)
          \/ ResolveItems(h, j) \/ Attach(h, j) \/ NotCreated(h, j)
    \/ CloseOrder \/ AssignInternal \/ Requeue

Spec == Init /\ [][Next]_vars

\* Calls run on; the worker takes the rows that waited longest first, so none starves.
Fairness ==
    /\ \A h \in Calls : WF_vars(Work(h))
    /\ \A h \in Workers, j \in Jobs : SF_vars(Tick(h, j))

FairSpec == Spec /\ Fairness

-------------------------------------------------------------------------------
(* Properties.                                                                  *)

OnTheWay(j) == provider[j] \in Live

\* Money goes back only when no courier of the provider is on the way
\* (external-delivery-lifecycle.service.js:59).
CourierEndsBeforeRefund ==
    order.closed = "cancelled" => \A j \in Jobs : ~OnTheWay(j)

\* An order never has two couriers: neither two of the provider under two
\* identifiers, nor one of the provider beside one of the bakery.
OneCourier ==
    /\ \A j, k \in Jobs : OnTheWay(j) /\ OnTheWay(k) => j = k
    /\ order.courier => \A j \in Jobs : ~OnTheWay(j)

\* A creation nobody heard the answer of is cleared up: by an answer, by a
\* refusal, or by handing it to the owner when the attempts are spent.
CreationsEnd ==
    (\E j \in Jobs : job[j].status \in Retried)
        ~> crossed \/ \A j \in Jobs : job[j].status \notin Retried
=============================================================================
