----------------------------- MODULE PushOutbox -----------------------------
(* The outbox of customer push notifications.  Workers claim rows for five       *)
(* minutes, ask the push provider once per device and write down what it said;   *)
(* a worker may stop, be overtaken or lose an answer between any two calls, and   *)
(* the device must not ring twice for that.                                      *)
(*                                                                             *)
(* One customer.  A lease token is the worker that holds it: a worker has one     *)
(* batch, so it never claims a row whose old lease it still remembers.  While a   *)
(* worker holds the lease nobody else writes the row, so what it read with the    *)
(* claim is the row itself.  Back-off times, texts and priorities are left out.  *)
EXTENDS Naturals, FiniteSets

CONSTANTS
    Messages,    \* dedupe keys
    Devices,     \* push tokens
    Workers,     \* calls of deliverPushOutbox in flight
    NoWorker,    \* no lease
    MaxAttempts, \* max_attempts
    MaxQuiet,    \* bound on the deferrals to the end of the quiet hours
    MaxReturns   \* bound on the devices that sign in again

ASSUME PushAssumption ==
    /\ IsFiniteSet(Devices)
    /\ NoWorker \notin Workers
    /\ MaxAttempts \in Nat \ {0}
    /\ MaxQuiet \in Nat
    /\ MaxReturns \in Nat

VARIABLES
    row,      \* push_notification_outbox
    owned,    \* customer_push_tokens of the customer
    returned, \* devices that signed out and in again
    wanted,   \* messages still allowed by the settings and true of their order
    job,      \* calls of deliverPushOutbox in flight
    shown,    \* how often each device got each message
    quiet,    \* deferrals so far
    returns   \* sign-ins so far

vars == <<row, owned, returned, wanted, job, shown, quiet, returns>>

Open == {"queued", "retry", "processing"}
Ended == {"sent", "failed", "skipped"}
Row == [status : {"none"} \cup Open \cup Ended, attempts : 0..MaxAttempts,
        pending : SUBSET Devices, inFlight : SUBSET Devices, uncertain : SUBSET Devices,
        delivered : BOOLEAN, lease : Workers \cup {NoWorker}, stale : BOOLEAN]

Answer == {"none", "delivered", "invalid", "rejected", "unknown"}
Steps == {"select", "mark", "send"}
Job == [batch : SUBSET Messages, msg : SUBSET Messages, step : Steps,
        devices : SUBSET Devices, doubt : SUBSET Devices, answer : [Devices -> Answer]]

TypeOK ==
    /\ row \in [Messages -> Row]
    /\ owned \in SUBSET Devices
    /\ returned \in SUBSET Devices
    /\ wanted \in SUBSET Messages
    /\ job \in [Workers -> Job]
    /\ shown \in [Messages -> [Devices -> 0..2]]
    /\ quiet \in 0..MaxQuiet
    /\ returns \in 0..MaxReturns

Blank == [status |-> "none", attempts |-> 0, pending |-> {}, inFlight |-> {},
          uncertain |-> {}, delivered |-> FALSE, lease |-> NoWorker, stale |-> FALSE]
NoAnswer == [t \in Devices |-> "none"]
Idle == [batch |-> {}, msg |-> {}, step |-> "select", devices |-> {}, doubt |-> {},
         answer |-> NoAnswer]

Init ==
    /\ row = [m \in Messages |-> Blank]
    /\ owned = Devices
    /\ returned = {}
    /\ wanted = Messages
    /\ job = [w \in Workers |-> Idle]
    /\ shown = [m \in Messages |-> [t \in Devices |-> 0]]
    /\ quiet = 0
    /\ returns = 0

-------------------------------------------------------------------------------
(* The queue.                                                                  *)

\* A second message under the same key finds the row that is there.
Enqueue(m) ==
    /\ row[m].status = "none" /\ owned # {}
    /\ row' = [row EXCEPT ![m] = [Blank EXCEPT !.status = "queued", !.pending = owned]]
    /\ UNCHANGED <<owned, returned, wanted, job, shown, quiet, returns>>

Overdue(m) == row[m].status = "processing" /\ row[m].stale
\* Mutant of Exhausted: nothing closes a last attempt that went silent.
ExhaustedNever(m) == FALSE

Exhausted(m) == Overdue(m) /\ row[m].attempts >= MaxAttempts

\* Mutant of Claimable: asks neither for the lease nor for the attempts.
ClaimableOpen(m) == row[m].status \in Open

Claimable(m) ==
    /\ row[m].status \in {"queued", "retry"} \/ Overdue(m)
    /\ row[m].attempts < MaxAttempts

Closed(r, s) == [r EXCEPT !.status = s, !.lease = NoWorker, !.stale = FALSE]

\* A claim closes the last attempts that went silent and leases its batch.
Claimed(m, w, batch) ==
    CASE Exhausted(m) -> [Closed(row[m], "failed") EXCEPT !.pending = {}]
      [] ~Exhausted(m) /\ m \in batch ->
            [row[m] EXCEPT !.status = "processing", !.lease = w, !.stale = FALSE,
                           !.attempts = @ + 1]
      [] OTHER -> row[m]

\* The timer takes everything that is due, a sender only its own message.
Claim(w) ==
    /\ job[w] = Idle
    /\ LET due == {m \in Messages : Claimable(m)} IN
       \E batch \in {due} \cup {{m} : m \in due} :
          /\ batch # {} \/ \E m \in Messages : Exhausted(m)
          /\ job' = [job EXCEPT ![w].batch = batch]
          /\ row' = [m \in Messages |-> Claimed(m, w, batch)]
    /\ UNCHANGED <<owned, returned, wanted, shown, quiet, returns>>

\* locked_at is five minutes old.
LeaseEnds(m) ==
    /\ row[m].status = "processing" /\ ~row[m].stale
    /\ row' = [row EXCEPT ![m].stale = TRUE]
    /\ UNCHANGED <<owned, returned, wanted, job, shown, quiet, returns>>

-------------------------------------------------------------------------------
(* One row of a batch.  Every write asks for the lease.                          *)

Holds(w, m) == row[m].status = "processing" /\ row[m].lease = w
NextRow(w) == job' = [job EXCEPT ![w] = [Idle EXCEPT !.batch = job[w].batch]]
Abandon(w) == job' = [job EXCEPT ![w] = Idle]

\* Mutant of Doubt: the marker of a worker that stopped is not looked at.
DoubtReportedOnly(m) == row[m].uncertain

Doubt(m) == row[m].uncertain \cup row[m].inFlight
Recipients(m) == (row[m].pending \ Doubt(m)) \cap owned

Skip(m) == row' = [row EXCEPT ![m] = [Closed(@, "skipped") EXCEPT !.pending = {}]]

\* markDelivered: `said` answered "delivered", `again` may be tried again.
Write(m, said, again, doubt) ==
    LET delivered == row[m].delivered \/ said # {}
        retry == again # {} /\ row[m].attempts < MaxAttempts
        status == CASE retry -> "retry"
                    [] ~retry /\ delivered -> "sent"
                    [] ~retry /\ ~delivered /\ again \cup doubt # {} -> "failed"
                    [] OTHER -> "skipped" IN
    row' = [row EXCEPT ![m] = [Closed(@, status) EXCEPT
              !.pending = IF retry THEN again ELSE {}, !.inFlight = {},
              !.uncertain = doubt, !.delivered = delivered]]

\* Preferences first, then the devices the customer has now.
Select(w, m) ==
    /\ job[w].step = "select" /\ m \in job[w].batch /\ Holds(w, m)
    /\ \/ m \notin wanted /\ Skip(m)
       \/ m \in wanted /\ Recipients(m) = {} /\ Doubt(m) = {} /\ Skip(m)
       \/ m \in wanted /\ Recipients(m) = {} /\ Doubt(m) # {} /\ Write(m, {}, {}, Doubt(m))
    /\ job' = [job EXCEPT ![w].batch = @ \ {m}]
    /\ UNCHANGED <<owned, returned, wanted, shown, quiet, returns>>

Prepare(w, m) ==
    /\ job[w].step = "select" /\ m \in job[w].batch /\ Holds(w, m)
    /\ m \in wanted /\ Recipients(m) # {}
    /\ job' = [job EXCEPT ![w] = [job[w] EXCEPT !.batch = @ \ {m}, !.msg = {m},
                !.step = "mark", !.devices = Recipients(m), !.doubt = Doubt(m)]]
    /\ UNCHANGED <<row, owned, returned, wanted, shown, quiet, returns>>

\* Quiet hours give the attempt back.
Defer(w, m) ==
    /\ job[w].step = "select" /\ m \in job[w].batch /\ Holds(w, m) /\ quiet < MaxQuiet
    /\ row' = [row EXCEPT ![m] = [Closed(row[m], "retry") EXCEPT
                !.attempts = IF @ = 0 THEN 0 ELSE @ - 1]]
    /\ job' = [job EXCEPT ![w].batch = @ \ {m}]
    /\ quiet' = quiet + 1
    /\ UNCHANGED <<owned, returned, wanted, shown, returns>>

\* The order is read once more; then the durable marker goes before the request.
Mark(w, m) ==
    /\ job[w].step = "mark" /\ job[w].msg = {m} /\ Holds(w, m)
    /\ \/ m \notin wanted /\ Skip(m) /\ NextRow(w)
       \/ /\ m \in wanted
          /\ row' = [row EXCEPT ![m].inFlight = job[w].devices]
          /\ job' = [job EXCEPT ![w].step = "send"]
    /\ UNCHANGED <<owned, returned, wanted, shown, quiet, returns>>

Ring(m, t) == shown' = [shown EXCEPT ![m][t] = IF @ = 2 THEN 2 ELSE @ + 1]

\* An answer says what happened, except the one that never came.
Send(w, m, t) ==
    /\ job[w].step = "send" /\ job[w].msg = {m}
    /\ t \in job[w].devices /\ job[w].answer[t] = "none"
    /\ \E a \in Answer \ {"none"} :
          /\ job' = [job EXCEPT ![w].answer[t] = a]
          /\ \/ a \in {"delivered", "unknown"} /\ Ring(m, t)
             \/ a # "delivered" /\ UNCHANGED shown
          /\ owned' = IF a = "invalid" THEN owned \ {t} ELSE owned
    /\ UNCHANGED <<row, returned, wanted, quiet, returns>>

Answered(w, a) == {t \in job[w].devices : job[w].answer[t] = a}

Record(w, m) ==
    /\ job[w].step = "send" /\ job[w].msg = {m} /\ Answered(w, "none") = {} /\ Holds(w, m)
    /\ Write(m, Answered(w, "delivered"), Answered(w, "rejected"),
             job[w].doubt \cup Answered(w, "unknown"))
    /\ NextRow(w)
    /\ UNCHANGED <<owned, returned, wanted, shown, quiet, returns>>

-------------------------------------------------------------------------------
(* What goes wrong.                                                             *)

\* The row w writes next: one of its batch, or the one it has prepared or sent.
Writes(w, m) ==
    \/ job[w].step = "select" /\ m \in job[w].batch
    \/ job[w].step = "mark" /\ job[w].msg = {m}
    \/ job[w].step = "send" /\ job[w].msg = {m} /\ Answered(w, "none") = {}

\* The update finds no row: the error ends the whole batch.
LeaseLost(w, m) ==
    /\ Writes(w, m) /\ ~Holds(w, m)
    /\ Abandon(w)
    /\ UNCHANGED <<row, owned, returned, wanted, shown, quiet, returns>>

GiveUp(r) == Closed(r, IF r.attempts >= MaxAttempts THEN "failed" ELSE "retry")

\* A call to the database fails, the marker perhaps written; the handler of the
\* error puts the row back, if it can, and the other rows of the batch wait for
\* their leases to end.
Fault(w, m) ==
    /\ Writes(w, m) /\ Holds(w, m)
    /\ LET kept == [row[m] EXCEPT !.inFlight = job[w].devices] IN
       \/ row' = [row EXCEPT ![m] = GiveUp(@)]
       \/ UNCHANGED row
       \/ job[w].step = "mark" /\ row' = [row EXCEPT ![m] = GiveUp(kept)]
       \/ job[w].step = "mark" /\ row' = [row EXCEPT ![m] = kept]
    /\ Abandon(w)
    /\ UNCHANGED <<owned, returned, wanted, shown, quiet, returns>>

\* The process stops; requests it has not sent are never sent.
Stop(w) ==
    /\ job[w] # Idle
    /\ Abandon(w)
    /\ UNCHANGED <<row, owned, returned, wanted, shown, quiet, returns>>

-------------------------------------------------------------------------------
(* The customer.                                                                *)

\* The settings forbid the message, or its order has moved on.
Supersede(m) ==
    /\ m \in wanted /\ row[m].status # "none"
    /\ wanted' = wanted \ {m}
    /\ UNCHANGED <<row, owned, returned, job, shown, quiet, returns>>

SignOut(t) ==
    /\ t \in owned
    /\ owned' = owned \ {t}
    /\ UNCHANGED <<row, returned, wanted, job, shown, quiet, returns>>

SignIn(t) ==
    /\ t \notin owned /\ returns < MaxReturns
    /\ owned' = owned \cup {t}
    /\ returned' = returned \cup {t}
    /\ returns' = returns + 1
    /\ UNCHANGED <<row, wanted, job, shown, quiet>>

Work(w) ==
    \E m \in Messages :
       \/ Select(w, m) \/ Prepare(w, m) \/ Defer(w, m) \/ Mark(w, m)
       \/ \E t \in Devices : Send(w, m, t)
       \/ Record(w, m) \/ LeaseLost(w, m) \/ Fault(w, m)

Next ==
    \/ \E w \in Workers : Claim(w) \/ Work(w) \/ Stop(w)
    \/ \E m \in Messages : Enqueue(m) \/ LeaseEnds(m) \/ Supersede(m)
    \/ \E t \in Devices : SignOut(t) \/ SignIn(t)

Spec == Init /\ [][Next]_vars

\* The timer runs every ten seconds, a call that is not stopped goes on, and time
\* passes.  Nothing makes a customer do anything.
Fairness ==
    /\ \A w \in Workers : WF_vars(Claim(w)) /\ WF_vars(Work(w))
    /\ \A m \in Messages : WF_vars(LeaseEnds(m))
FairSpec == Spec /\ Fairness

-------------------------------------------------------------------------------
(* Properties.                                                                  *)

\* A device gets a message twice only if a device of the customer signed out and
\* in again meanwhile: then a second worker writes the devices it finds over the
\* marker of the first, and if it stops too those of the first are forgotten
\* (push-outbox.service.js:345).  Without that, the marker keeps every request
\* whose outcome nobody knows out of all further attempts.
RepeatNeedsReturn ==
    \A m \in Messages, t \in Devices : shown[m][t] > 1 => returned # {}

\* Every message ends, whoever stops: an attempt is spent by each claim, and the
\* claim closes a last attempt whose worker went silent.
MessagesEnd ==
    \A m \in Messages : row[m].status \in Open ~> row[m].status \in Ended
=============================================================================
