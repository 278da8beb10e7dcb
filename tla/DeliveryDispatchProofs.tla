----------------------- MODULE DeliveryDispatchProofs -----------------------
(* An order never has two couriers and is not refunded while one is on the way,   *)
(* for any number of requests, workers, jobs, attempts and stops, as long as a     *)
(* refused creation did not happen and nobody takes over a start between two of    *)
(* its own writes (Faults = {}).                                                *)
(*                                                                             *)
(* A step of a call changes at most one call, one job and one order of the         *)
(* provider: Turn names what becomes of them.  CallOK, JobOK and PairOK say what   *)
(* a call may rely on, what a job says of the provider's order, and which calls    *)
(* exclude each other; they are inductive together.                              *)
EXTENDS DeliveryDispatch, TLAPS

Providers == {"none"} \cup Live \cup Terminal
Unheard == Retried \cup {"creating_exhausted"}
Unsent == Local \cup {"none", "not_created"}
Handed == {"unresolved"} \cup Resolving
Asking == {"create", "bind", "doubt", "refuse"}
Beginning == {"reserve", "attempt"}
Following == {"mark", "info", "verify", "project", "write", "report"}

\* One call becomes c, one job becomes row, the provider's order under it becomes p.
Turn(h, j, c, row, p) ==
    /\ h \in Calls /\ j \in Jobs /\ c \in Call /\ row \in Job /\ p \in Providers
    /\ c.step = "idle" \/ c.job = j
    /\ call' = [call EXCEPT ![h] = c]
    /\ job' = [job EXCEPT ![j] = row]
    /\ provider' = [provider EXCEPT ![j] = p]

Pointed == \A h \in Calls : call[h].step # "idle" => call[h].job \in Jobs
Typed == TypeOK /\ Pointed

-------------------------------------------------------------------------------
(* Types.                                                                       *)

LEMMA Rows ==
    ASSUME NEW row \in Job, NEW s \in Status, NEW i \in Internal, NEW e \in BOOLEAN
    PROVE  /\ [row EXCEPT !.status = s] \in Job
           /\ [row EXCEPT !.internal = i] \in Job
           /\ [row EXCEPT !.error = e] \in Job
           /\ [row EXCEPT !.attempts = 0] \in Job
           /\ [row EXCEPT !.claim = TRUE] \in Job
           /\ [row EXCEPT !.status = s, !.error = e] \in Job
           /\ [row EXCEPT !.status = s, !.internal = i] \in Job
           /\ [row EXCEPT !.status = s, !.attempts = 0] \in Job
           /\ [row EXCEPT !.status = s, !.internal = i, !.error = e] \in Job
           /\ [row EXCEPT !.status = s, !.attempts = 0, !.error = e] \in Job
           /\ [row EXCEPT !.status = s, !.claim = TRUE, !.attempts = 0, !.internal = i] \in Job
           /\ [row EXCEPT !.status = s, !.claim = TRUE, !.attempts = 0, !.internal = i,
                          !.error = e] \in Job
  <1>0. 0 \in 0..MaxAttempts
    BY DispatchAssumption
  <1>1. [row EXCEPT !.status = s] \in Job
    BY <1>0 DEF Job
  <1>2. [row EXCEPT !.internal = i] \in Job
    BY <1>0 DEF Job
  <1>3. [row EXCEPT !.error = e] \in Job
    BY <1>0 DEF Job
  <1>4. [row EXCEPT !.attempts = 0] \in Job
    BY <1>0 DEF Job
  <1>5. [row EXCEPT !.claim = TRUE] \in Job
    BY <1>0 DEF Job
  <1>6. [row EXCEPT !.status = s, !.error = e] \in Job
    BY <1>0 DEF Job
  <1>7. [row EXCEPT !.status = s, !.internal = i] \in Job
    BY <1>0 DEF Job
  <1>8. [row EXCEPT !.status = s, !.attempts = 0] \in Job
    BY <1>0 DEF Job
  <1>9. [row EXCEPT !.status = s, !.internal = i, !.error = e] \in Job
    BY <1>0 DEF Job
  <1>10. [row EXCEPT !.status = s, !.attempts = 0, !.error = e] \in Job
    BY <1>0 DEF Job
  <1>11. [row EXCEPT !.status = s, !.claim = TRUE, !.attempts = 0, !.internal = i] \in Job
    BY <1>0 DEF Job
  <1>12. [row EXCEPT !.status = s, !.claim = TRUE, !.attempts = 0, !.internal = i,
                   !.error = e] \in Job
    BY <1>0 DEF Job
  <1> QED
    BY <1>1, <1>2, <1>3, <1>4, <1>5, <1>6, <1>7, <1>8, <1>9, <1>10, <1>11, <1>12

\* The rows an end is written with.
Closing(row, s, i, e) == [row EXCEPT !.status = s, !.internal = i, !.error = e]
LEMMA Closings ==
    ASSUME NEW row \in Job, NEW s \in Status, NEW i \in Internal, NEW e \in BOOLEAN
    PROVE  /\ Closing(row, s, i, e) \in Job
           /\ Closing(row, s, i, e).status = s /\ Closing(row, s, i, e).internal = i
           /\ Closing(row, s, i, e).claim = row.claim
           /\ Closing(row, s, i, e).attempts = row.attempts
  <1>1. Closing(row, s, i, e) \in Job
    BY Rows DEF Closing
  <1> QED
    BY <1>1 DEF Job, Closing

LEMMA Constants ==
    /\ NoJob \in Job /\ Idle \in Call /\ Idle.step = "idle"
    /\ [NoJob EXCEPT !.status = "draft"] \in Job
    /\ [NoJob EXCEPT !.status = "quoted"] \in Job
    /\ \A s \in Status : InternalOf(s) \in Internal
    /\ \A i \in Internal : Shown(i) \in Internal \ {"cancelled"}
  <1>1. NoJob \in Job
    BY DispatchAssumption DEF NoJob, Job, Status, Internal
  <1>2. Idle \in Call /\ Idle.step = "idle"
    BY <1>1 DEF Idle, Call, Steps, Status
  <1>3. \A s \in Status : InternalOf(s) \in Internal
    BY DEF InternalOf, Internal
  <1>4. \A i \in Internal : Shown(i) \in Internal \ {"cancelled"}
    BY DEF Shown, Internal
  <1> QED
    BY <1>1, <1>2, <1>3, <1>4, Rows DEF Status, Local, NoJob

LEMMA CallEdits ==
    ASSUME NEW c \in Call, NEW s \in Steps, NEW row \in Job, NEW i \in Status, NEW b \in BOOLEAN
    PROVE  /\ [c EXCEPT !.step = s] \in Call
           /\ [c EXCEPT !.step = s, !.seen = row] \in Call
           /\ [c EXCEPT !.step = s, !.info = i] \in Call
           /\ [c EXCEPT !.step = s, !.info = i, !.seen = row] \in Call
           /\ [c EXCEPT !.step = s, !.seen = row, !.saves = b] \in Call
  <1>1. [c EXCEPT !.step = s] \in Call
    BY DEF Call
  <1>2. [c EXCEPT !.step = s, !.seen = row] \in Call
    BY DEF Call
  <1>3. [c EXCEPT !.step = s, !.info = i] \in Call
    BY DEF Call
  <1>4. [c EXCEPT !.step = s, !.info = i, !.seen = row] \in Call
    BY DEF Call
  <1>5. [c EXCEPT !.step = s, !.seen = row, !.saves = b] \in Call
    BY DEF Call
  <1> QED
    BY <1>1, <1>2, <1>3, <1>4, <1>5

LEMMA NewCalls ==
    ASSUME NEW s \in Steps, NEW j \in Jobs, NEW row \in Job, NEW i \in Status, NEW b \in BOOLEAN
    PROVE  [step |-> s, job |-> j, seen |-> row, info |-> i, saves |-> b] \in Call
  BY DEF Call

\* What a typed state says of the parts a step uses.
LEMMA Parts ==
    ASSUME Typed, NEW h \in Calls
    PROVE  /\ call[h] \in Call /\ call[h].seen \in Job /\ call[h].info \in Status
           /\ \A j \in Jobs : job[j] \in Job /\ provider[j] \in Providers
           /\ call[h].step # "idle" => call[h].job \in Jobs
           /\ order \in Order /\ order.delivery \in Internal
  BY DEF Typed, TypeOK, Pointed, Call, Providers, Order

LEMMA TurnTypes ==
    ASSUME Typed, NEW h, NEW j, NEW c, NEW row, NEW p, Turn(h, j, c, row, p)
    PROVE  /\ job' \in [Jobs -> Job] /\ call' \in [Calls -> Call]
           /\ provider' \in [Jobs -> {"none"} \cup Live \cup Terminal]
           /\ Pointed'
  BY DEF Typed, TypeOK, Turn, Providers, Pointed

-------------------------------------------------------------------------------
(* The form of each step.                                                       *)

LEMMA Rests ==
    ASSUME Typed, NEW j \in Jobs
    PROVE  /\ UNCHANGED job => job' = [job EXCEPT ![j] = job[j]]
           /\ UNCHANGED provider => provider' = [provider EXCEPT ![j] = provider[j]]
  BY DEF Typed, TypeOK

LEMMA GoForm ==
    ASSUME Typed, NEW h \in Calls, call[h].step # "idle", NEW s \in Steps,
           Go(h, s), NEW row \in Job, job' = [job EXCEPT ![call[h].job] = row],
           UNCHANGED provider
    PROVE  Turn(h, call[h].job, [call[h] EXCEPT !.step = s], row, provider[call[h].job])
  <1>1. call[h] \in Call /\ call[h].job \in Jobs /\ provider[call[h].job] \in Providers
    BY Parts
  <1>2. [call[h] EXCEPT !.step = s] \in Call
    BY <1>1, CallEdits, Constants DEF Status
  <1>3. [call[h] EXCEPT !.step = s].job = call[h].job
    BY <1>1 DEF Call
  <1>4. call' = [call EXCEPT ![h] = [call[h] EXCEPT !.step = s]]
    BY DEF Go, Typed, TypeOK
  <1> QED
    BY <1>1, <1>2, <1>3, <1>4, Rests DEF Turn

LEMMA GoWithForm ==
    ASSUME Typed, NEW h \in Calls, call[h].step # "idle", NEW s \in Steps, NEW seen \in Job,
           GoWith(h, s, seen), NEW row \in Job, job' = [job EXCEPT ![call[h].job] = row],
           UNCHANGED provider
    PROVE  Turn(h, call[h].job, [call[h] EXCEPT !.step = s, !.seen = seen], row,
                provider[call[h].job])
  <1>1. call[h] \in Call /\ call[h].job \in Jobs /\ provider[call[h].job] \in Providers
    BY Parts
  <1>2. [call[h] EXCEPT !.step = s, !.seen = seen] \in Call
    BY <1>1, CallEdits DEF Status
  <1>3. [call[h] EXCEPT !.step = s, !.seen = seen].job = call[h].job
    BY <1>1 DEF Call
  <1>4. call' = [call EXCEPT ![h] = [call[h] EXCEPT !.step = s, !.seen = seen]]
    BY DEF GoWith, Typed, TypeOK
  <1> QED
    BY <1>1, <1>2, <1>3, <1>4, Rests DEF Turn

LEMMA DoneForm ==
    ASSUME Typed, NEW h \in Calls, call[h].step # "idle",
           Done(h), NEW row \in Job, job' = [job EXCEPT ![call[h].job] = row],
           UNCHANGED provider
    PROVE  Turn(h, call[h].job, Idle, row, provider[call[h].job])
  <1>1. call[h].job \in Jobs /\ provider[call[h].job] \in Providers
    BY Parts
  <1> QED
    BY <1>1, Rests, Constants DEF Turn, Done

LEMMA StartForm ==
    ASSUME Typed, NEW h \in Calls, NEW s \in Steps, NEW j \in Jobs, NEW seen \in Job,
           NEW i \in Status, NEW b \in BOOLEAN,
           call' = [call EXCEPT ![h] = [step |-> s, job |-> j, seen |-> seen, info |-> i,
                                        saves |-> b]],
           NEW row \in Job, job' = [job EXCEPT ![j] = row],
           UNCHANGED provider
    PROVE  Turn(h, j, [step |-> s, job |-> j, seen |-> seen, info |-> i, saves |-> b], row,
                provider[j])
  <1>1. provider[j] \in Providers
    BY Parts
  <1>2. [step |-> s, job |-> j, seen |-> seen, info |-> i, saves |-> b] \in Call
    BY NewCalls
  <1> QED
    BY <1>1, <1>2, Rests DEF Turn

LEMMA FailForm ==
    ASSUME Typed, NEW h \in Calls, call[h].step # "idle", Fail(h), UNCHANGED provider
    PROVE  \E e \in BOOLEAN :
              Turn(h, call[h].job, Idle, [job[call[h].job] EXCEPT !.error = e],
                   provider[call[h].job])
  <1> DEFINE j == call[h].job
  <1>1. j \in Jobs /\ job[j] \in Job
    BY Parts
  <1>2. \A e \in BOOLEAN : [job[j] EXCEPT !.error = e] \in Job
    BY <1>1, Rows DEF Status, Internal
  <1>3. job[j] = [job[j] EXCEPT !.error = job[j].error] /\ job[j].error \in BOOLEAN
    BY <1>1 DEF Job
  <1>4. Done(h)
    BY DEF Fail
  <1>5. \E e \in BOOLEAN : job' = [job EXCEPT ![j] = [job[j] EXCEPT !.error = e]]
    <2>1. CASE UNCHANGED job
      BY <2>1, <1>1, <1>3, Rests
    <2>2. CASE job' = [job EXCEPT ![j].error = TRUE]
      BY <2>2, <1>1 DEF Typed, TypeOK
    <2> QED
      BY <2>1, <2>2 DEF Fail
  <1> QED
    BY <1>1, <1>2, <1>4, <1>5, DoneForm

-------------------------------------------------------------------------------
(* The invariant.                                                               *)

\* What a call c about a job with row and provider's order p may rely on.
CallOK(c, row, p) ==
    /\ c.seen.status \in Handed => p \in Terminal
    /\ c.step = "reserve" =>
         /\ p = "none" /\ row.status = "creating" /\ ~row.claim
         /\ c.seen.status = "creating" /\ c.seen.attempts = row.attempts
    /\ c.step = "attempt" =>
         /\ c.seen.status \in Retried
         /\ row.status \in Retried /\ ~row.claim =>
               Spent(c.seen) \/ c.seen.attempts <= row.attempts
    /\ c.step \in Asking => row.claim \/ row.status \in Unheard
    /\ c.step = "bind" => p # "none" /\ c.info \in Live \cup Terminal
    /\ c.step = "refuse" => p = "none"
    /\ c.step \in Following => row.claim
    /\ c.step = "verify" => p \in Terminal
    /\ c.step = "project" =>
         /\ c.info \in Live \cup Terminal \cup {"unresolved"}
         /\ c.info \notin Live => p \in Terminal
    /\ c.step \in {"write", "report"} =>
         /\ c.info \in Live \cup {"unresolved"}
         /\ c.info = "unresolved" => p \in Terminal
    /\ c.step \in {"order", "final"} =>
         /\ c.info \in Terminal
         /\ c.seen.status \notin Terminal \cup {"not_created"} => row.claim /\ p \in Terminal

\* What the row of a job says of the provider's order p.
JobOK(row, p) ==
    /\ row.claim => p # "none"
    /\ row.status \in Unsent => p = "none"
    /\ row.status \in Handed => p \in Terminal
    /\ row.status \in Terminal /\ row.claim => p \in Terminal
    /\ p \in Live => row.status \notin {"none"} \cup Terminal

\* Which calls about one job exclude each other: one creation at a time, and an
\* attempt that was overtaken is refused.
PairOK(c, d, row) ==
    /\ c.step \in Asking => d.step \notin Asking
    /\ c.step = "reserve" => d.step \notin Beginning \cup Asking
    /\ c.step \in Asking /\ d.step = "attempt" /\ ~row.claim =>
         Spent(d.seen) \/ d.seen.attempts < row.attempts

Busy(h, j) == call[h].step # "idle" /\ call[h].job = j
CallsOK == \A h \in Calls, j \in Jobs : Busy(h, j) => CallOK(call[h], job[j], provider[j])
JobsOK == \A j \in Jobs : JobOK(job[j], provider[j])
PairsOK == \A g, h \in Calls, j \in Jobs :
    g # h /\ Busy(g, j) /\ Busy(h, j) => PairOK(call[g], call[h], job[j])
Consistent == CallsOK /\ JobsOK /\ PairsOK

\* A turn keeps the invariant when it keeps it for the call, the job, and the others.
LEMMA TurnKeeps ==
    ASSUME Typed, Consistent,
           NEW h, NEW j, NEW c, NEW row, NEW p, Turn(h, j, c, row, p),
           JobOK(row, p), c.step # "idle" => CallOK(c, row, p),
           \A g \in Calls \ {h} : Busy(g, j) =>
              /\ CallOK(call[g], row, p)
              /\ c.step # "idle" => PairOK(c, call[g], row) /\ PairOK(call[g], c, row),
           \A f, g \in Calls \ {h} : f # g /\ Busy(f, j) /\ Busy(g, j) =>
              PairOK(call[f], call[g], row)
    PROVE  Consistent'
  <1>1. /\ \A g \in Calls \ {h} : call'[g] = call[g]
        /\ call'[h] = c
        /\ \A k \in Jobs \ {j} : job'[k] = job[k] /\ provider'[k] = provider[k]
        /\ job'[j] = row /\ provider'[j] = p
        /\ h \in Calls /\ j \in Jobs /\ (c.step = "idle" \/ c.job = j)
    BY DEF Turn, Typed, TypeOK
  <1>2. \A g \in Calls \ {h}, k \in Jobs : Busy(g, k)' <=> Busy(g, k)
    BY <1>1 DEF Busy
  <1>3. \A k \in Jobs : Busy(h, k)' => k = j /\ c.step # "idle"
    BY <1>1 DEF Busy
  <1>4. JobsOK'
    <2>1. ASSUME NEW k \in Jobs
          PROVE  JobOK(job'[k], provider'[k])
      BY <1>1 DEF Consistent, JobsOK
    <2> QED
      BY <2>1 DEF JobsOK
  <1>5. CallsOK'
    <2>1. ASSUME NEW g \in Calls, NEW k \in Jobs, Busy(g, k)'
          PROVE  CallOK(call'[g], job'[k], provider'[k])
      <3>1. CASE g = h
        BY <3>1, <2>1, <1>1, <1>3
      <3>2. CASE g # h /\ k = j
        BY <3>2, <2>1, <1>1, <1>2
      <3>3. CASE g # h /\ k # j
        BY <3>3, <2>1, <1>1, <1>2 DEF Consistent, CallsOK
      <3> QED
        BY <3>1, <3>2, <3>3
    <2> QED
      BY <2>1 DEF CallsOK
  <1>6. PairsOK'
    <2>1. ASSUME NEW f \in Calls, NEW g \in Calls, NEW k \in Jobs, f # g,
                 Busy(f, k)', Busy(g, k)'
          PROVE  PairOK(call'[f], call'[g], job'[k])
      <3>1. CASE f = h
        BY <3>1, <2>1, <1>1, <1>2, <1>3
      <3>2. CASE g = h
        BY <3>2, <2>1, <1>1, <1>2, <1>3
      <3>3. CASE f # h /\ g # h /\ k = j
        BY <3>3, <2>1, <1>1, <1>2
      <3>4. CASE f # h /\ g # h /\ k # j
        BY <3>4, <2>1, <1>1, <1>2 DEF Consistent, PairsOK
      <3> QED
        BY <3>1, <3>2, <3>3, <3>4
    <2> QED
      BY <2>1 DEF PairsOK
  <1> QED
    BY <1>4, <1>5, <1>6 DEF Consistent

-------------------------------------------------------------------------------
(* Steps that leave what the others rely on.                                    *)

Same(row, new) ==
    new.status = row.status /\ new.claim = row.claim /\ new.attempts = row.attempts
Later(p, q) == q = p \/ (p \in Live /\ q \in Live \cup Terminal)

LEMMA CalmKeeps ==
    ASSUME NEW row \in Job, NEW new \in Job, Same(row, new),
           NEW p \in Providers, NEW q \in Providers, Later(p, q)
    PROVE  /\ \A c \in Call : CallOK(c, row, p) => CallOK(c, new, q)
           /\ \A c \in Call, d \in Call : PairOK(c, d, row) => PairOK(c, d, new)
           /\ JobOK(row, p) => JobOK(new, q)
  <1>1. /\ p # "none" => q # "none"
        /\ p \in Terminal => q \in Terminal
        /\ p = "none" => q = "none"
        /\ q \in Live => p \in Live
    BY DEF Later, Live, Terminal, Providers
  <1> HIDE DEF Later
  <1>2. ASSUME NEW c \in Call, CallOK(c, row, p)
        PROVE  CallOK(c, new, q)
    BY <1>1, <1>2 DEF CallOK, Same
  <1>3. ASSUME NEW c \in Call, NEW d \in Call, PairOK(c, d, row)
        PROVE  PairOK(c, d, new)
    BY <1>3 DEF PairOK, Same
  <1>4. JobOK(row, p) => JobOK(new, q)
    BY <1>1 DEF JobOK, Same
  <1> QED
    BY <1>2, <1>3, <1>4

\* What the invariant says of the others and of the job.
LEMMA Others ==
    ASSUME Typed, Consistent, NEW j \in Jobs
    PROVE  /\ JobOK(job[j], provider[j])
           /\ \A g \in Calls : Busy(g, j) => call[g] \in Call /\ CallOK(call[g], job[j], provider[j])
           /\ \A f, g \in Calls : f # g /\ Busy(f, j) /\ Busy(g, j) =>
                 PairOK(call[f], call[g], job[j])
  BY DEF Consistent, CallsOK, JobsOK, PairsOK, Typed, TypeOK

LEMMA CalmTurn ==
    ASSUME Typed, Consistent,
           NEW h, NEW j, NEW c, NEW row, NEW p, Turn(h, j, c, row, p),
           Same(job[j], row), Later(provider[j], p),
           c.step # "idle" => CallOK(c, row, p),
           c.step # "idle" => \A g \in Calls \ {h} :
              Busy(g, j) => PairOK(c, call[g], row) /\ PairOK(call[g], c, row)
    PROVE  Consistent'
  <1>1. /\ h \in Calls /\ j \in Jobs /\ c \in Call /\ row \in Job /\ p \in Providers
        /\ job[j] \in Job /\ provider[j] \in Providers
    BY Parts DEF Turn
  <1>2. JobOK(row, p)
    BY <1>1, Others, CalmKeeps
  <1>3. \A g \in Calls : Busy(g, j) => CallOK(call[g], row, p)
    BY <1>1, Others, CalmKeeps
  <1>4. \A f, g \in Calls : f # g /\ Busy(f, j) /\ Busy(g, j) => PairOK(call[f], call[g], row)
    BY <1>1, Others, CalmKeeps
  <1> QED
    BY <1>1, <1>2, <1>3, <1>4, TurnKeeps

\* A call that neither begins nor asks for a creation excludes nobody.
Quiet(c) == c.step \notin Beginning \cup Asking
LEMMA QuietPairs ==
    ASSUME NEW c, NEW d, NEW row, Quiet(c)
    PROVE  PairOK(c, d, row) /\ PairOK(d, c, row)
  BY DEF Quiet, PairOK, Beginning, Asking

LEMMA QuietTurn ==
    ASSUME Typed, Consistent,
           NEW h, NEW j, NEW c, NEW row, NEW p, Turn(h, j, c, row, p),
           Same(job[j], row), Later(provider[j], p), Quiet(c),
           c.step # "idle" => CallOK(c, row, p)
    PROVE  Consistent'
  BY CalmTurn, QuietPairs

LEMMA IdleTurn ==
    ASSUME Typed, Consistent,
           NEW h, NEW j, NEW row, NEW p, Turn(h, j, Idle, row, p),
           Same(job[j], row), Later(provider[j], p)
    PROVE  Consistent'
  BY CalmTurn, Constants

LEMMA FailKeeps ==
    ASSUME Typed, Consistent, NEW h \in Calls, call[h].step # "idle", Fail(h), UNCHANGED provider
    PROVE  Consistent'
  <1> DEFINE j == call[h].job
  <1>1. PICK e \in BOOLEAN : Turn(h, j, Idle, [job[j] EXCEPT !.error = e], provider[j])
    BY FailForm
  <1>2. job[j] \in Job
    BY Parts
  <1>3. Same(job[j], [job[j] EXCEPT !.error = e])
    BY <1>2 DEF Same, Job
  <1> QED
    BY <1>1, <1>3, IdleTurn DEF Later

\* The same without a call.
LEMMA JobKeeps ==
    ASSUME Typed, Consistent, NEW j \in Jobs, NEW row, NEW p,
           UNCHANGED call, job' = [job EXCEPT ![j] = row], provider' = [provider EXCEPT ![j] = p],
           JobOK(row, p),
           \A g \in Calls : Busy(g, j) => CallOK(call[g], row, p),
           \A f, g \in Calls : f # g /\ Busy(f, j) /\ Busy(g, j) => PairOK(call[f], call[g], row)
    PROVE  Consistent'
  <1>1. /\ \A k \in Jobs \ {j} : job'[k] = job[k] /\ provider'[k] = provider[k]
        /\ job'[j] = row /\ provider'[j] = p
    BY DEF Typed, TypeOK
  <1>2. \A g \in Calls, k \in Jobs : Busy(g, k)' <=> Busy(g, k)
    BY DEF Busy
  <1>3. \A k \in Jobs : JobOK(job'[k], provider'[k])
    BY <1>1 DEF Consistent, JobsOK
  <1>4. \A g \in Calls, k \in Jobs : Busy(g, k) => CallOK(call[g], job'[k], provider'[k])
    BY <1>1 DEF Consistent, CallsOK
  <1>5. \A f, g \in Calls, k \in Jobs :
           f # g /\ Busy(f, k) /\ Busy(g, k) => PairOK(call[f], call[g], job'[k])
    BY <1>1 DEF Consistent, PairsOK
  <1> QED
    BY <1>2, <1>3, <1>4, <1>5 DEF Consistent, CallsOK, JobsOK, PairsOK

LEMMA NothingKeeps ==
    ASSUME Consistent, UNCHANGED <<job, provider, call>>
    PROVE  Consistent'
  BY DEF Consistent, CallsOK, JobsOK, PairsOK, Busy

\* Nobody relies on a job that was not sent, except those who will find it changed.
LEMMA UnsentFree ==
    ASSUME NEW row \in Job, NEW new \in Job, NEW p \in Providers, JobOK(row, p),
           row.status \in Unsent, ~new.claim, new.status \notin Retried
    PROVE  /\ \A c \in Call : CallOK(c, row, p) => CallOK(c, new, p)
           /\ \A c \in Call, d \in Call : CallOK(c, row, p) => PairOK(c, d, new)
           /\ ~row.claim /\ p = "none"
  <1>1. ~row.claim /\ p = "none"
    BY DEF JobOK
  <1>2. ASSUME NEW c \in Call, CallOK(c, row, p)
        PROVE  CallOK(c, new, p) /\ c.step \notin Asking \cup {"reserve"}
    BY <1>1, <1>2 DEF CallOK, Unsent, Unheard, Retried, Local, Terminal
  <1>3. ASSUME NEW c \in Call, NEW d \in Call, CallOK(c, row, p)
        PROVE  PairOK(c, d, new)
    BY <1>2, <1>3 DEF PairOK
  <1> QED
    BY <1>1, <1>2, <1>3

-------------------------------------------------------------------------------
(* Quotes.                                                                      *)

LEMMA UnsentJob ==
    ASSUME NEW row \in Job, NEW new \in Job, NEW p \in Providers, JobOK(row, p),
           row.status \in Unsent, ~new.claim, new.status \in Unsent \cup Unheard \cup {"cancelled"}
    PROVE  JobOK(new, p)
  BY DEF JobOK, Unsent, Unheard, Retried, Local, Handed, Resolving, Terminal, Live

LEMMA NewRowKeeps ==
    ASSUME Typed, Consistent, NEW j \in Jobs, NEW s \in Local, job[j].status \in Unsent,
           job' = [job EXCEPT ![j] = [NoJob EXCEPT !.status = s]], UNCHANGED <<provider, call>>
    PROVE  Consistent'
  <1> DEFINE new == [NoJob EXCEPT !.status = s]
             p == provider[j]
  <1>1. new \in Job /\ new.status = s /\ ~new.claim
    BY Constants DEF Local, NoJob
  <1>2. job[j] \in Job /\ p \in Providers /\ provider' = [provider EXCEPT ![j] = p]
    BY Rests DEF Typed, TypeOK, Providers
  <1>3. JobOK(job[j], p)
    BY DEF Consistent, JobsOK
  <1>4. \A g \in Calls : Busy(g, j) => call[g] \in Call /\ CallOK(call[g], job[j], p)
    BY DEF Consistent, CallsOK, Typed, TypeOK
  <1>5. s \in Unsent /\ s \notin Retried
    BY DEF Unsent, Local, Retried
  <1>6. JobOK(new, p)
    BY <1>1, <1>2, <1>3, <1>5, UnsentJob
  <1> HIDE DEF new, p
  <1>7. \A g \in Calls : Busy(g, j) => CallOK(call[g], new, p)
    BY <1>1, <1>2, <1>3, <1>4, <1>5, UnsentFree
  <1>8. \A f, g \in Calls : f # g /\ Busy(f, j) /\ Busy(g, j) => PairOK(call[f], call[g], new)
    BY <1>1, <1>2, <1>3, <1>4, <1>5, UnsentFree
  <1>9. job' = [job EXCEPT ![j] = new]
    BY DEF new
  <1> QED
    BY <1>2, <1>6, <1>7, <1>8, <1>9, JobKeeps

LEMMA NewJobKeeps ==
    ASSUME Typed, Consistent, NEW j \in Jobs, NewJob(j) \/ Quote(j)
    PROVE  Consistent'
  <1>1. job[j].status \in Unsent
    BY DEF NewJob, Quote, Unsent, Local
  <1>2. \E s \in Local : job' = [job EXCEPT ![j] = [NoJob EXCEPT !.status = s]]
    BY DEF NewJob, Quote, Save, Local
  <1> QED
    BY <1>1, <1>2, NewRowKeeps DEF NewJob, Quote

\* An unsent job is closed: by the worker, by the staff, or given up.
LEMMA CloseUnsent ==
    ASSUME Typed, Consistent, NEW h \in Calls, NEW j \in Jobs, NEW new \in Job, NEW c \in Call,
           job[j].status \in Unsent, ~new.claim, new.status = "cancelled",
           Turn(h, j, c, new, provider[j]), c.step \in {"order", "final"},
           c.info \in Terminal, c.seen.status = "cancelled"
    PROVE  Consistent'
  <1>1. job[j] \in Job /\ provider[j] \in Providers
    BY Parts
  <1>2. new.status \notin Retried
    BY DEF Retried
  <1>3. JobOK(new, provider[j])
    BY <1>1, Others, UnsentJob
  <1>4. CallOK(c, new, provider[j]) /\ Quiet(c)
    BY DEF CallOK, Quiet, Handed, Resolving, Asking, Beginning, Following, Terminal
  <1>5. \A g \in Calls : Busy(g, j) => CallOK(call[g], new, provider[j])
    BY <1>1, <1>2, Others, UnsentFree
  <1>6. \A f, g \in Calls : f # g /\ Busy(f, j) /\ Busy(g, j) => PairOK(call[f], call[g], new)
    BY <1>1, <1>2, Others, UnsentFree
  <1> QED
    BY <1>3, <1>4, <1>5, <1>6, QuietPairs, TurnKeeps

LEMMA StartTurn ==
    ASSUME Typed, NEW h \in Calls, NEW j \in Jobs, NEW s \in Steps, NEW seen \in Job,
           NEW i \in Status, Start(h, s, j, seen, i), NEW row \in Job,
           job' = [job EXCEPT ![j] = row], UNCHANGED provider
    PROVE  /\ Turn(h, j, [step |-> s, job |-> j, seen |-> seen, info |-> i,
                          saves |-> h \in Workers], row, provider[j])
           /\ call[h].step = "idle"
  <1>1. (h \in Workers) \in BOOLEAN
    OBVIOUS
  <1>2. call[h].step = "idle"
    BY DEF Start, At
  <1>3. call' = [call EXCEPT ![h] = [step |-> s, job |-> j, seen |-> seen, info |-> i,
                                     saves |-> h \in Workers]]
    BY DEF Start
  <1> QED
    BY <1>1, <1>2, <1>3, StartForm

LEMMA ExpireKeeps ==
    ASSUME Typed, Consistent, NEW h \in Calls, NEW j \in Jobs, Expire(h, j) \/ CancelLocal(h, j)
    PROVE  Consistent'
  <1>1. PICK row \in Job : /\ job' = [job EXCEPT ![j] = row] /\ ~row.claim
                           /\ row.status = "cancelled" /\ Start(h, "order", j, row, "cancelled")
    <2> DEFINE expired == Closing(job[j], "cancelled", "cancelled", TRUE)
               ended == Closing(job[j], "cancelled", InternalOf("cancelled"), FALSE)
    <2>1. /\ job[j] \in Job /\ "cancelled" \in Status /\ "cancelled" \in Internal
          /\ InternalOf("cancelled") \in Internal
      BY Parts, Constants DEF Status, Terminal, Internal
    <2>2. expired \in Job /\ expired.status = "cancelled" /\ expired.claim = job[j].claim
      BY <2>1, Closings
    <2>3. ended \in Job /\ ended.status = "cancelled" /\ ended.claim = job[j].claim
      BY <2>1, Closings
    <2> HIDE DEF expired, ended
    <2>4. CASE Expire(h, j)
      <3>1. Save(j, expired) /\ Start(h, "order", j, expired, "cancelled") /\ ~job[j].claim
        BY <2>4 DEF Expire, expired, Closing
      <3> QED
        BY <3>1, <2>2 DEF Save
    <2>5. CASE CancelLocal(h, j)
      <3>1. Save(j, ended) /\ Start(h, "order", j, ended, "cancelled") /\ ~job[j].claim
        BY <2>5 DEF CancelLocal, ended, Ended, Closing
      <3> QED
        BY <3>1, <2>3 DEF Save
    <2> QED
      BY <2>4, <2>5
  <1>2. job[j].status \in Unsent /\ UNCHANGED provider
    BY DEF Expire, CancelLocal, Unsent, Local
  <1> DEFINE c == [step |-> "order", job |-> j, seen |-> row, info |-> "cancelled",
                   saves |-> h \in Workers]
  <1>3. Turn(h, j, c, row, provider[j])
    BY <1>1, <1>2, StartTurn DEF Steps, Status, Terminal
  <1>4. c \in Call
    BY <1>3 DEF Turn
  <1> QED
    BY <1>1, <1>2, <1>3, <1>4, CloseUnsent DEF Terminal

-------------------------------------------------------------------------------
(* What a step finds, and what the others keep.                                  *)

LEMMA Here ==
    ASSUME Typed, Consistent, NEW h \in Calls, call[h].step # "idle", NEW j, j = call[h].job
    PROVE  /\ j \in Jobs /\ call[h] \in Call /\ job[j] \in Job /\ provider[j] \in Providers
           /\ CallOK(call[h], job[j], provider[j]) /\ JobOK(job[j], provider[j])
           /\ \A g \in Calls \ {h} : Busy(g, j) =>
                /\ call[g] \in Call /\ CallOK(call[g], job[j], provider[j])
                /\ PairOK(call[h], call[g], job[j]) /\ PairOK(call[g], call[h], job[j])
           /\ \A f, g \in Calls : f # g /\ Busy(f, j) /\ Busy(g, j) =>
                PairOK(call[f], call[g], job[j])
  <1>1. j \in Jobs /\ call[h] \in Call /\ job[j] \in Job /\ provider[j] \in Providers
    BY Parts
  <1>2. Busy(h, j)
    BY DEF Busy
  <1> QED
    BY <1>1, <1>2, Others

LEMMA QuietChange ==
    ASSUME Typed, Consistent,
           NEW h, NEW j, NEW c, NEW row, NEW p, Turn(h, j, c, row, p),
           Quiet(c), c.step # "idle" => CallOK(c, row, p), JobOK(row, p),
           \A g \in Calls \ {h} : Busy(g, j) => CallOK(call[g], row, p),
           \A f, g \in Calls \ {h} : f # g /\ Busy(f, j) /\ Busy(g, j) =>
              PairOK(call[f], call[g], row)
    PROVE  Consistent'
  BY TurnKeeps, QuietPairs

LEMMA QuietIdle == Quiet(Idle)
  BY Constants DEF Quiet, Beginning, Asking

\* A quiet call looks at the claim and at the end of the provider's order alone.
LEMMA QuietFree ==
    ASSUME NEW c \in Call, NEW row \in Job, NEW new \in Job, NEW p \in Providers,
           NEW q \in Providers, CallOK(c, row, p), Quiet(c),
           row.claim => new.claim, p \in Terminal => q \in Terminal
    PROVE  CallOK(c, new, q)
  BY DEF CallOK, Quiet, Beginning, Asking

\* Once the provider's order is bound, attempts are no longer compared.
LEMMA ClaimFree ==
    ASSUME NEW row \in Job, NEW new \in Job, NEW p \in Providers, new.claim
    PROVE  /\ \A c \in Call : CallOK(c, row, p) /\ (row.claim \/ c.step # "reserve") =>
                                CallOK(c, new, p)
           /\ \A c \in Call, d \in Call : PairOK(c, d, row) => PairOK(c, d, new)
  <1>1. ASSUME NEW c \in Call, CallOK(c, row, p), row.claim \/ c.step # "reserve"
        PROVE  CallOK(c, new, p)
    BY <1>1 DEF CallOK
  <1>2. ASSUME NEW c \in Call, NEW d \in Call, PairOK(c, d, row)
        PROVE  PairOK(c, d, new)
    BY <1>2 DEF PairOK
  <1> QED
    BY <1>1, <1>2

-------------------------------------------------------------------------------
(* Creation.                                                                    *)

LEMMA BeginKeeps ==
    ASSUME Typed, Consistent, Faults = {}, NEW h \in Calls, NEW j \in Jobs, Begin(h, j)
    PROVE  Consistent'
  <1> DEFINE row == [job[j] EXCEPT !.status = "creating"]
             c == [step |-> "reserve", job |-> j, seen |-> row, info |-> "none",
                   saves |-> h \in Workers]
             p == provider[j]
  <1>1. job[j] \in Job /\ p \in Providers /\ "creating" \in Status /\ "none" \in Status
    BY Parts DEF Status, Retried
  <1>2. row \in Job /\ row.status = "creating" /\ ~row.claim /\ row.attempts = job[j].attempts
    <2>1. row \in Job
      BY <1>1, Rows DEF Internal
    <2> QED
      BY <1>1, <2>1 DEF Job, Begin
  <1>3. Save(j, row) /\ Start(h, "reserve", j, row, "none") /\ UNCHANGED provider
    BY DEF Begin
  <1> HIDE DEF row
  <1>4. Turn(h, j, c, row, p)
    BY <1>1, <1>2, <1>3, StartTurn DEF Save, Steps
  <1>5. job[j].status = "quoted" /\ JobOK(job[j], p)
    BY Others DEF Begin
  <1>6. p = "none" /\ ~job[j].claim
    BY <1>5, <1>1 DEF JobOK, Unsent, Local
  <1>7. ASSUME NEW g \in Calls, Busy(g, j)
        PROVE  call[g] \in Call /\ Quiet(call[g]) /\ CallOK(call[g], row, p)
    <2>1. call[g] \in Call /\ CallOK(call[g], job[j], p)
      BY <1>7, Others
    <2>2. call[g].step # "attempt"
      BY <1>7 DEF Begin, Undisturbed, Busy
    <2>3. Quiet(call[g])
      BY <2>1, <2>2, <1>5, <1>6 DEF CallOK, Quiet, Beginning, Asking, Unheard, Retried
    <2> QED
      BY <2>1, <2>3, <1>1, <1>2, <1>6, QuietFree
  <1>8. CallOK(c, row, p)
    BY <1>2, <1>6 DEF CallOK, Asking, Following, Handed, Resolving
  <1>9. JobOK(row, p)
    BY <1>2, <1>6 DEF JobOK, Unsent, Local, Handed, Resolving, Terminal, Live
  <1> HIDE DEF c, p
  <1> QED
    BY <1>4, <1>7, <1>8, <1>9, TurnKeeps, QuietPairs

LEMMA ReserveKeeps ==
    ASSUME Typed, Consistent, NEW h \in Calls, Reserve(h)
    PROVE  Consistent'
  <1> DEFINE j == call[h].job
             c == [call[h] EXCEPT !.step = "attempt"]
             p == provider[j]
  <1>1. call[h].step = "reserve" /\ Go(h, "attempt") /\ UNCHANGED <<job, provider>>
    BY DEF Reserve, At
  <1>2. /\ j \in Jobs /\ call[h] \in Call /\ job[j] \in Job
        /\ CallOK(call[h], job[j], p)
        /\ \A g \in Calls \ {h} : Busy(g, j) =>
             call[g] \in Call /\ PairOK(call[h], call[g], job[j])
    BY <1>1, Here
  <1>3. Turn(h, j, c, job[j], p)
    BY <1>1, <1>2, GoForm, Rests DEF Steps
  <1>4. c.step = "attempt" /\ c.seen = call[h].seen
    BY <1>2 DEF Call
  <1> HIDE DEF c
  <1>5. CallOK(c, job[j], p)
    BY <1>1, <1>2, <1>4 DEF CallOK, Retried, Asking, Following, Job
  <1>6. \A g \in Calls \ {h} : Busy(g, j) => Quiet(call[g])
    BY <1>1, <1>2 DEF PairOK, Quiet
  <1>7. Same(job[j], job[j]) /\ Later(p, p)
    BY DEF Same, Later
  <1>8. \A g \in Calls \ {h} : Busy(g, j) => PairOK(c, call[g], job[j]) /\ PairOK(call[g], c, job[j])
    BY <1>6, QuietPairs
  <1> HIDE DEF j
  <1> QED
    BY <1>3, <1>5, <1>7, <1>8, CalmTurn

LEMMA GiveBackKeeps ==
    ASSUME Typed, Consistent, NEW h \in Calls, GiveBack(h)
    PROVE  Consistent'
  <1> DEFINE j == call[h].job
             p == provider[j]
             new == [job[j] EXCEPT !.status = "quoted", !.attempts = 0]
  <1>1. call[h].step = "reserve" /\ Done(h) /\ UNCHANGED provider
    BY DEF GiveBack, At
  <1>2. /\ j \in Jobs /\ call[h] \in Call /\ job[j] \in Job /\ p \in Providers
        /\ CallOK(call[h], job[j], p)
        /\ \A g \in Calls \ {h} : Busy(g, j) =>
             call[g] \in Call /\ CallOK(call[g], job[j], p) /\ PairOK(call[h], call[g], job[j])
    BY <1>1, Here
  <1>3. p = "none" /\ job[j].status = "creating" /\ ~job[j].claim
    BY <1>1, <1>2 DEF CallOK
  <1>4. new \in Job /\ new.status = "quoted" /\ ~new.claim
    <2>1. new \in Job
      BY <1>2, Rows DEF Status, Local, Internal
    <2> QED
      BY <1>2, <1>3, <2>1 DEF Job
  <1>5. job' = [job EXCEPT ![j] = new]
    BY <1>3 DEF GiveBack, Save
  <1> HIDE DEF new
  <1>6. Turn(h, j, Idle, new, p)
    BY <1>1, <1>4, <1>5, DoneForm
  <1>7. \A g \in Calls \ {h} : Busy(g, j) => Quiet(call[g])
    BY <1>1, <1>2 DEF PairOK, Quiet
  <1>8. \A g \in Calls \ {h} : Busy(g, j) => CallOK(call[g], new, p)
    BY <1>2, <1>3, <1>4, <1>7, QuietFree
  <1>9. JobOK(new, p)
    BY <1>3, <1>4 DEF JobOK, Handed, Resolving, Terminal, Live
  <1>10. \A f, g \in Calls \ {h} : Busy(f, j) => PairOK(call[f], call[g], new)
    BY <1>7, QuietPairs
  <1>11. Idle.step = "idle"
    BY Constants
  <1> HIDE DEF j, p
  <1> QED
    BY <1>6, <1>8, <1>9, <1>10, <1>11, QuietIdle, QuietChange

LEMMA RetryKeeps ==
    ASSUME Typed, Consistent, Faults = {}, NEW h \in Calls, NEW j \in Jobs, Retry(h, j)
    PROVE  Consistent'
  <1> DEFINE row == job[j]
             c == [step |-> "attempt", job |-> j, seen |-> row, info |-> "none",
                   saves |-> h \in Workers]
             p == provider[j]
  <1>1. row \in Job /\ p \in Providers
    BY Parts
  <1>2. Start(h, "attempt", j, row, "none") /\ UNCHANGED <<job, provider>>
    BY DEF Retry
  <1>3. Turn(h, j, c, row, p)
    BY <1>1, <1>2, Rests, StartTurn DEF Steps, Status
  <1>4. row.status \in Retried /\ ~row.claim
    BY DEF Retry
  <1>5. CallOK(c, row, p)
    BY <1>1, <1>4 DEF CallOK, Asking, Following, Handed, Resolving, Retried, Job
  <1>6. ASSUME NEW g \in Calls, Busy(g, j)
        PROVE  PairOK(c, call[g], row) /\ PairOK(call[g], c, row)
    <2>1. call[g].step # "reserve"
      BY <1>6 DEF Retry, Undisturbed, Busy
    <2>2. call[g].step \in Asking => Asked(j)
      BY <1>6 DEF Asked, Creating, Asking, Busy
    <2>3. Asked(j) => Spent(row)
      BY DEF Retry
    <2> QED
      BY <2>1, <2>2, <2>3 DEF PairOK, Asking
  <1>7. Same(row, row) /\ Later(p, p)
    BY DEF Same, Later
  <1> QED
    BY <1>3, <1>5, <1>6, <1>7, CalmTurn

LEMMA AttemptedRow ==
    ASSUME NEW row \in Job, ~Spent(row)
    PROVE  /\ Attempted(row) \in Job
           /\ Attempted(row).status = row.status /\ Attempted(row).claim = row.claim
           /\ Attempted(row).attempts = row.attempts + 1
  <1>1. row.attempts + 1 \in 0..MaxAttempts
    BY DispatchAssumption DEF Spent, Job
  <1> QED
    BY <1>1 DEF Attempted, Job

\* What the others rely on leaves room for the attempt of a call that is still right.
LEMMA AttemptRow ==
    ASSUME NEW row \in Job, NEW new \in Job, NEW p \in Providers, NEW c \in Call, NEW d \in Call,
           new.status = row.status, new.claim = row.claim, new.attempts = row.attempts + 1,
           row.status \in Retried, ~row.claim, ~Spent(c.seen), row.attempts = c.seen.attempts,
           c.step = "attempt", CallOK(d, row, p), PairOK(d, c, row)
    PROVE  /\ d.step \notin Asking \cup {"reserve"}
           /\ CallOK(d, new, p)
           /\ d.step = "attempt" => Spent(d.seen) \/ d.seen.attempts < new.attempts
  <1>1. row.attempts \in Nat /\ d.seen.attempts \in Nat
    BY DispatchAssumption DEF Job, Call
  <1>2. d.step \notin Asking
    BY <1>1 DEF PairOK
  <1>3. d.step # "reserve"
    BY DEF PairOK, Beginning
  <1>4. d.step = "attempt" => Spent(d.seen) \/ d.seen.attempts < new.attempts
    BY <1>1 DEF CallOK
  <1>5. CallOK(d, new, p)
    BY <1>1, <1>2, <1>3, <1>4 DEF CallOK
  <1> QED
    BY <1>2, <1>3, <1>4, <1>5

LEMMA AttemptKeeps ==
    ASSUME Typed, Consistent, NEW h \in Calls, Attempt(h)
    PROVE  Consistent'
  <1> DEFINE j == call[h].job
             p == provider[j]
             row == job[j]
             new == Attempted(row)
             c == [call[h] EXCEPT !.step = "create", !.seen = new]
  <1>1. call[h].step = "attempt" /\ ~Spent(Seen(h)) /\ UNCHANGED provider
    BY DEF Attempt, At
  <1>2. /\ j \in Jobs /\ call[h] \in Call /\ row \in Job /\ p \in Providers
        /\ CallOK(call[h], row, p) /\ JobOK(row, p)
        /\ \A g \in Calls \ {h} : Busy(g, j) =>
             /\ call[g] \in Call /\ CallOK(call[g], row, p) /\ PairOK(call[g], call[h], row)
    BY <1>1, Here
  <1>3. CASE ~Current(h)
    <2>1. Fail(h)
      BY <1>3 DEF Attempt
    <2> QED
      BY <1>1, <2>1, FailKeeps
  <1>4. CASE Current(h)
    <2>1. /\ row.status \in Retried /\ ~row.claim /\ row.attempts = call[h].seen.attempts
          /\ ~Spent(row) /\ ~Spent(call[h].seen)
      BY <1>1, <1>2, <1>4 DEF Current, Seen, CallOK, Spent
    <2>2. /\ new \in Job /\ new.status = row.status /\ new.claim = row.claim
          /\ new.attempts = row.attempts + 1
      BY <1>2, <2>1, AttemptedRow
    <2>3. job' = [job EXCEPT ![j] = new] /\ GoWith(h, "create", new)
      BY <1>4 DEF Attempt, Save
    <2> HIDE DEF new
    <2>4. Turn(h, j, c, new, p)
      BY <1>1, <2>2, <2>3, GoWithForm DEF Steps
    <2>5. c.step = "create" /\ c.seen = new
      BY <1>2, <2>2 DEF Call
    <2> HIDE DEF c
    <2>6. \A g \in Calls \ {h} : Busy(g, j) =>
             /\ call[g].step \notin Asking \cup {"reserve"}
             /\ CallOK(call[g], new, p)
             /\ call[g].step = "attempt" =>
                   Spent(call[g].seen) \/ call[g].seen.attempts < new.attempts
      BY <1>1, <1>2, <2>1, <2>2, AttemptRow
    <2>7. CallOK(c, new, p)
      BY <2>1, <2>2, <2>5 DEF CallOK, Unheard, Following, Handed, Resolving, Retried
    <2>8. JobOK(new, p)
      BY <1>2, <2>2 DEF JobOK
    <2>9. \A g \in Calls \ {h} : Busy(g, j) => PairOK(c, call[g], new) /\ PairOK(call[g], c, new)
      BY <2>5, <2>6 DEF PairOK
    <2>10. \A f, g \in Calls \ {h} : Busy(f, j) /\ Busy(g, j) => PairOK(call[f], call[g], new)
      BY <2>6 DEF PairOK
    <2> HIDE DEF j, p
    <2> QED
      BY <2>4, <2>6, <2>7, <2>8, <2>9, <2>10, TurnKeeps
  <1> QED
    BY <1>3, <1>4

\* A creation is given to the owner, or waits for its retry.
LEMMA UnheardFree ==
    ASSUME NEW row \in Job, NEW new \in Job, NEW p \in Providers, NEW c \in Call, NEW d \in Call,
           new.claim = row.claim, new.attempts = row.attempts,
           new.status \in {"creating_exhausted", "creating_uncertain"},
           \/ c.step = "attempt" /\ new.status = "creating_exhausted"
           \/ c.step \in Asking,
           CallOK(d, row, p), PairOK(c, d, row), PairOK(d, c, row)
    PROVE  CallOK(d, new, p) /\ d.step # "reserve"
  <1>1. d.step # "reserve"
    BY DEF PairOK, Beginning
  <1>2. d.step = "attempt" /\ new.status \in Retried /\ ~new.claim =>
          Spent(d.seen) \/ d.seen.attempts <= new.attempts
    <2>1. d.seen.attempts \in Nat /\ new.attempts \in Nat
      BY DispatchAssumption DEF Call, Job
    <2> QED
      BY <2>1 DEF PairOK, Retried
  <1>3. new.status \in Unheard
    BY DEF Unheard, Retried
  <1> QED
    BY <1>1, <1>2, <1>3 DEF CallOK

LEMMA UnheardJob ==
    ASSUME NEW row \in Job, NEW new \in Job, NEW p \in Providers, JobOK(row, p),
           new.claim = row.claim, new.status \in {"creating_exhausted", "creating_uncertain"}
    PROVE  JobOK(new, p)
  BY DEF JobOK, Unsent, Local, Handed, Resolving, Terminal

LEMMA UnheardKeeps ==
    ASSUME Typed, Consistent, NEW h \in Calls, Exhaust(h) \/ Doubt(h)
    PROVE  Consistent'
  <1> DEFINE j == call[h].job
             p == provider[j]
             row == job[j]
  <1>1. /\ call[h].step \in {"attempt", "doubt"} /\ UNCHANGED provider
        /\ call[h].step # "idle"
    BY DEF Exhaust, Doubt, At
  <1>2. /\ j \in Jobs /\ call[h] \in Call /\ row \in Job /\ p \in Providers
        /\ JobOK(row, p)
        /\ \A g \in Calls \ {h} : Busy(g, j) =>
             /\ call[g] \in Call /\ CallOK(call[g], row, p)
             /\ PairOK(call[h], call[g], row) /\ PairOK(call[g], call[h], row)
        /\ \A f, g \in Calls : f # g /\ Busy(f, j) /\ Busy(g, j) => PairOK(call[f], call[g], row)
    BY <1>1, Here
  <1>3. CASE Fail(h)
    BY <1>1, <1>3, FailKeeps
  <1>4. CASE \E s \in {"creating_exhausted", "creating_uncertain"} :
                /\ call[h].step = "attempt" => s = "creating_exhausted"
                /\ Save(j, [row EXCEPT !.status = s, !.error = FALSE]) /\ Done(h)
    <2>1. PICK s \in {"creating_exhausted", "creating_uncertain"} :
                /\ call[h].step = "attempt" => s = "creating_exhausted"
                /\ Save(j, [row EXCEPT !.status = s, !.error = FALSE]) /\ Done(h)
      BY <1>4
    <2> DEFINE new == [row EXCEPT !.status = s, !.error = FALSE]
    <2>2. /\ new \in Job /\ new.status = s /\ new.claim = row.claim
          /\ new.attempts = row.attempts
      <3>1. new \in Job
        BY <1>2, Rows DEF Status, Retried, Internal
      <3> QED
        BY <1>2, <3>1 DEF Job
    <2>3. job' = [job EXCEPT ![j] = new]
      BY <2>1 DEF Save
    <2> HIDE DEF new
    <2>4. Turn(h, j, Idle, new, p)
      BY <1>1, <2>1, <2>2, <2>3, DoneForm
    <2>5. \A g \in Calls \ {h} : Busy(g, j) => CallOK(call[g], new, p)
      BY <1>1, <1>2, <2>1, <2>2, UnheardFree DEF Asking
    <2>6. \A f, g \in Calls \ {h} : f # g /\ Busy(f, j) /\ Busy(g, j) =>
             PairOK(call[f], call[g], new)
      BY <1>2, <2>2 DEF PairOK
    <2>7. JobOK(new, p) /\ Idle.step = "idle"
      BY <1>2, <2>2, UnheardJob, Constants
    <2> HIDE DEF j, p
    <2> QED
      BY <2>4, <2>5, <2>6, <2>7, QuietIdle, QuietChange
  <1> QED
    BY <1>3, <1>4 DEF Exhaust, Doubt, At

\* The provider creates an order under an identifier that was sent.
LEMMA CreatedFree ==
    ASSUME NEW row \in Job, NEW p \in Providers, NEW q \in Providers,
           q \in {p, IF p = "none" THEN "search" ELSE p},
           JobOK(row, p), row.claim \/ row.status \in Unheard
    PROVE  /\ JobOK(row, q)
           /\ \A d \in Call : CallOK(d, row, p) /\ d.step \notin Asking \cup {"reserve"} =>
                CallOK(d, row, q)
  <1>1. CASE q = p
    BY <1>1
  <1>2. CASE p = "none" /\ q = "search"
    <2>1. ~row.claim /\ row.status \in Unheard
      BY <1>2 DEF JobOK
    <2>2. JobOK(row, q)
      BY <2>1, <1>2 DEF JobOK, Unheard, Retried, Unsent, Local, Handed, Resolving, Terminal
    <2>3. ASSUME NEW d \in Call, CallOK(d, row, p), d.step \notin Asking \cup {"reserve"}
          PROVE  CallOK(d, row, q)
      BY <2>1, <2>3, <1>2 DEF CallOK, Terminal, Asking
    <2> QED
      BY <2>2, <2>3
  <1> QED
    BY <1>1, <1>2

LEMMA CreateKeeps ==
    ASSUME Typed, Consistent, Faults = {}, NEW h \in Calls, Create(h)
    PROVE  Consistent'
  <1> DEFINE j == call[h].job
             p == provider[j]
             row == job[j]
             made == Created(j)
  <1>1. call[h].step = "create" /\ UNCHANGED job /\ call[h].step # "idle"
    BY DEF Create, At
  <1>2. /\ j \in Jobs /\ call[h] \in Call /\ row \in Job /\ p \in Providers
        /\ CallOK(call[h], row, p) /\ JobOK(row, p)
        /\ \A g \in Calls \ {h} : Busy(g, j) =>
             /\ call[g] \in Call /\ CallOK(call[g], row, p)
             /\ PairOK(call[h], call[g], row) /\ PairOK(call[g], call[h], row)
        /\ \A f, g \in Calls : f # g /\ Busy(f, j) /\ Busy(g, j) => PairOK(call[f], call[g], row)
    BY <1>1, Here
  <1>3. /\ made = IF p = "none" THEN "search" ELSE p
        /\ made \in Providers /\ made # "none" /\ made \in Live \cup Terminal
    BY <1>2 DEF Created, Providers, Live
  <1> HIDE DEF made
  <1>4. row.claim \/ row.status \in Unheard
    BY <1>1, <1>2 DEF CallOK, Asking
  <1>5. \A g \in Calls \ {h} : Busy(g, j) => call[g].step \notin Asking \cup {"reserve"}
    BY <1>1, <1>2 DEF PairOK, Asking
  <1>6. ASSUME NEW q \in {p, made}, NEW c \in Call, c.step \in {"bind", "doubt", "refuse"},
               c.job = j, c.seen.status \notin Handed \/ c.seen = call[h].seen,
               c.step = "bind" => q # "none" /\ c.info \in Live \cup Terminal,
               c.step = "refuse" => q = "none",
               call' = [call EXCEPT ![h] = c], provider' = [provider EXCEPT ![j] = q]
        PROVE  Consistent'
    <2>1. Turn(h, j, c, row, q)
      BY <1>1, <1>2, <1>3, <1>6, Rests DEF Turn
    <2>2. /\ JobOK(row, q)
          /\ \A g \in Calls \ {h} : Busy(g, j) => CallOK(call[g], row, q)
      BY <1>2, <1>3, <1>4, <1>5, <1>6, CreatedFree
    <2>3. CallOK(c, row, q)
      <3>1. c.seen.status \in Handed => q \in Terminal
        BY <1>2, <1>3, <1>6 DEF CallOK, Terminal, Providers
      <3> QED
        BY <3>1, <1>4, <1>6 DEF CallOK, Asking, Following
    <2>4. \A g \in Calls \ {h} : Busy(g, j) => PairOK(c, call[g], row) /\ PairOK(call[g], c, row)
      BY <1>1, <1>2, <1>5, <1>6 DEF PairOK, Asking
    <2> HIDE DEF j, p, row
    <2> QED
      BY <2>1, <2>2, <2>3, <2>4, <1>2, TurnKeeps
  <1>7. CASE /\ provider' = [provider EXCEPT ![j] = made]
             /\ call' = [call EXCEPT ![h].step = "bind", ![h].info = made, ![h].seen = NoJob]
    <2> DEFINE c == [call[h] EXCEPT !.step = "bind", !.info = made, !.seen = NoJob]
    <2>1. made \in Status /\ "bind" \in Steps /\ NoJob \in Job
      BY <1>3, Constants DEF Status, Steps
    <2>2. c \in Call
      BY <2>1, <1>2, CallEdits
    <2>3. c.step = "bind" /\ c.job = j /\ c.info = made /\ c.seen = NoJob
      BY <1>2 DEF Call
    <2>4. call' = [call EXCEPT ![h] = c]
      BY <1>7 DEF Typed, TypeOK
    <2>5. NoJob.status \notin Handed
      BY DEF NoJob, Handed, Resolving
    <2> HIDE DEF c, j, p
    <2> QED
      BY <2>2, <2>3, <2>4, <2>5, <1>3, <1>6, <1>7
  <1>8. CASE /\ \E s \in {p, made} : provider' = [provider EXCEPT ![j] = s]
             /\ Go(h, "doubt")
    <2> DEFINE c == [call[h] EXCEPT !.step = "doubt"]
    <2>1. c \in Call
      BY <1>2, CallEdits, Constants DEF Steps, Status
    <2>2. c.step = "doubt" /\ c.job = j /\ c.seen = call[h].seen
      BY <1>2 DEF Call
    <2>3. call' = [call EXCEPT ![h] = c]
      BY <1>8 DEF Go, Typed, TypeOK
    <2> HIDE DEF c, j, p
    <2> QED
      BY <2>1, <2>2, <2>3, <1>6, <1>8
  <1>9. CASE p = "none" /\ Forget(h, "refuse") /\ UNCHANGED provider
    <2> DEFINE c == [call[h] EXCEPT !.step = "refuse", !.seen = NoJob]
    <2>1. c \in Call
      BY <1>2, CallEdits, Constants DEF Steps, Status
    <2>2. c.step = "refuse" /\ c.job = j /\ c.seen = NoJob
      BY <1>2 DEF Call
    <2>3. call' = [call EXCEPT ![h] = c]
      BY <1>9 DEF Forget, GoWith, Typed, TypeOK
    <2>4. NoJob.status \notin Handed
      BY DEF NoJob, Handed, Resolving
    <2>5. provider' = [provider EXCEPT ![j] = p]
      BY <1>2, <1>9, Rests
    <2> HIDE DEF c, j, p
    <2> QED
      BY <2>1, <2>2, <2>3, <2>4, <2>5, <1>6, <1>9
  <1> QED
    BY <1>7, <1>8, <1>9 DEF Create, made

\* A turn after which the job is known to the provider under a claim.
LEMMA ClaimTurn ==
    ASSUME Typed, Consistent, NEW h \in Calls, NEW j \in Jobs, NEW c, NEW new \in Job, new.claim,
           Turn(h, j, c, new, provider[j]), Quiet(c),
           c.step # "idle" => CallOK(c, new, provider[j]), JobOK(new, provider[j]),
           job[j].claim \/ \A g \in Calls \ {h} : Busy(g, j) => call[g].step # "reserve"
    PROVE  Consistent'
  <1>1. job[j] \in Job /\ provider[j] \in Providers
    BY Parts
  <1>2. \A g \in Calls \ {h} : Busy(g, j) => CallOK(call[g], new, provider[j])
    BY <1>1, Others, ClaimFree
  <1>3. \A f, g \in Calls \ {h} : f # g /\ Busy(f, j) /\ Busy(g, j) =>
           PairOK(call[f], call[g], new)
    BY <1>1, Others, ClaimFree
  <1> QED
    BY <1>2, <1>3, QuietChange

LEMMA ClaimJob ==
    ASSUME NEW row \in Job, NEW p \in Providers, row.claim, p # "none",
           row.status \in Live \cup {"attaching"} \/ (row.status \in Handed /\ p \in Terminal)
    PROVE  JobOK(row, p)
  BY DEF JobOK, Unsent, Local, Handed, Resolving, Terminal, Live

LEMMA BindKeeps ==
    ASSUME Typed, Consistent, NEW h \in Calls, Bind(h)
    PROVE  Consistent'
  <1> DEFINE j == call[h].job
             p == provider[j]
             s == IF call[h].info \in Terminal THEN "attaching" ELSE call[h].info
             new == [job[j] EXCEPT !.status = s, !.claim = TRUE, !.attempts = 0,
                                   !.internal = InternalOf(s), !.error = FALSE]
  <1>1. call[h].step = "bind" /\ UNCHANGED provider /\ call[h].step # "idle"
    BY DEF Bind, At
  <1>2. /\ j \in Jobs /\ call[h] \in Call /\ job[j] \in Job /\ p \in Providers
        /\ CallOK(call[h], job[j], p)
        /\ \A g \in Calls \ {h} : Busy(g, j) => PairOK(call[h], call[g], job[j])
                                                  /\ PairOK(call[g], call[h], job[j])
    BY <1>1, Here
  <1>3. CASE Fail(h)
    BY <1>1, <1>3, FailKeeps
  <1>4. CASE Go(h, "release") /\ UNCHANGED job
    <2> DEFINE c == [call[h] EXCEPT !.step = "release"]
    <2>1. Turn(h, j, c, job[j], p)
      BY <1>1, <1>2, <1>4, GoForm, Rests DEF Steps
    <2>2. c.step = "release" /\ c.seen = call[h].seen
      BY <1>2 DEF Call
    <2>3. Quiet(c) /\ CallOK(c, job[j], p) /\ Same(job[j], job[j]) /\ Later(p, p)
      BY <1>2, <2>2 DEF Quiet, CallOK, Beginning, Asking, Following, Same, Later
    <2> HIDE DEF c, j
    <2> QED
      BY <2>1, <2>3, QuietTurn
  <1>5. CASE /\ Save(j, new)
             /\ call' = [call EXCEPT ![h].step = "mark", ![h].seen = new, ![h].saves = TRUE]
    <2> DEFINE c == [call[h] EXCEPT !.step = "mark", !.seen = new, !.saves = TRUE]
    <2>1. s \in Live \cup {"attaching"} /\ p # "none" /\ s \in Status
      BY <1>1, <1>2 DEF CallOK, Status
    <2> HIDE DEF s
    <2>2. new \in Job /\ new.status = s /\ new.claim
      <3>1. new \in Job
        BY <2>1, <1>2, Rows, Constants
      <3> QED
        BY <1>2, <3>1 DEF Job
    <2> HIDE DEF new
    <2>3. c \in Call
      BY <1>2, <2>2, CallEdits, Constants DEF Steps, Status
    <2>4. c.step = "mark" /\ c.job = j /\ c.seen = new
      BY <1>2, <2>2 DEF Call
    <2>5. call' = [call EXCEPT ![h] = c]
      BY <1>5 DEF Typed, TypeOK
    <2> HIDE DEF c
    <2>6. Turn(h, j, c, new, p)
      BY <1>1, <1>2, <1>5, <2>2, <2>3, <2>4, <2>5, Rests DEF Turn, Save
    <2>7. JobOK(new, p) /\ Quiet(c)
      BY <1>2, <2>1, <2>2, <2>4, ClaimJob DEF Quiet, Beginning, Asking
    <2>8. CallOK(c, new, p)
      BY <2>1, <2>2, <2>4 DEF CallOK, Asking, Handed, Resolving, Live
    <2>9. \A g \in Calls \ {h} : Busy(g, j) => call[g].step # "reserve"
      BY <1>1, <1>2 DEF PairOK, Asking
    <2> HIDE DEF j
    <2> QED
      BY <1>2, <2>2, <2>6, <2>7, <2>8, <2>9, ClaimTurn
  <1> QED
    BY <1>3, <1>4, <1>5 DEF Bind

LEMMA AttachKeeps ==
    ASSUME Typed, Consistent, NEW h \in Calls, NEW j \in Jobs, Attach(h, j)
    PROVE  Consistent'
  <1> DEFINE p == provider[j]
             new == [job[j] EXCEPT !.status = "attaching", !.claim = TRUE, !.attempts = 0,
                                   !.internal = "unassigned"]
             c == [step |-> "mark", job |-> j, seen |-> new, info |-> "none", saves |-> TRUE]
  <1>1. /\ job[j].status = "creating_exhausted" /\ p # "none" /\ UNCHANGED provider
        /\ Save(j, new) /\ call[h].step = "idle" /\ call' = [call EXCEPT ![h] = c]
    BY DEF Attach, At
  <1>2. job[j] \in Job /\ p \in Providers
    BY Parts
  <1>3. new \in Job /\ new.status = "attaching" /\ new.claim
    <2>1. new \in Job
      BY <1>2, Rows DEF Status, Internal
    <2> QED
      BY <1>2, <2>1 DEF Job
  <1> HIDE DEF new
  <1>4. c \in Call
    BY <1>3, NewCalls DEF Steps, Status
  <1>5. Turn(h, j, c, new, p)
    BY <1>1, <1>2, <1>3, <1>4, Rests DEF Turn, Save
  <1>6. JobOK(new, p) /\ Quiet(c)
    BY <1>1, <1>2, <1>3, ClaimJob DEF Quiet, Beginning, Asking
  <1>7. CallOK(c, new, p)
    BY <1>3 DEF CallOK, Asking, Handed, Resolving
  <1>8. \A g \in Calls \ {h} : Busy(g, j) => call[g].step # "reserve"
    BY <1>1, Others DEF CallOK
  <1> HIDE DEF c
  <1> QED
    BY <1>3, <1>5, <1>6, <1>7, <1>8, ClaimTurn

LEMMA WriteJobKeeps ==
    ASSUME Typed, Consistent, NEW h \in Calls, WriteJob(h)
    PROVE  Consistent'
  <1> DEFINE j == call[h].job
             p == provider[j]
             s == call[h].info
             new == Closing(job[j], s, InternalOf(s), FALSE)
             c == [call[h] EXCEPT !.step = "report", !.seen = NoJob]
  <1>1. call[h].step = "write" /\ UNCHANGED provider /\ call[h].step # "idle"
    BY DEF WriteJob, At
  <1>2. /\ j \in Jobs /\ call[h] \in Call /\ job[j] \in Job /\ p \in Providers
        /\ CallOK(call[h], job[j], p) /\ JobOK(job[j], p)
    BY <1>1, Here
  <1>3. CASE Fail(h)
    BY <1>1, <1>3, FailKeeps
  <1>4. CASE Save(j, new) /\ Forget(h, "report")
    <2>1. /\ job[j].claim /\ p # "none" /\ s \in Live \cup {"unresolved"}
          /\ s = "unresolved" => p \in Terminal
      BY <1>1, <1>2 DEF CallOK, Following, JobOK
    <2>2. s \in Status /\ InternalOf(s) \in Internal
      BY <2>1, Constants DEF Status
    <2>3. new \in Job /\ new.status = s /\ new.claim
      <3>1. new \in Job /\ new.status = s /\ new.claim = job[j].claim
        BY <1>2, <2>2, Closings
      <3> QED
        BY <3>1, <2>1
    <2> HIDE DEF new
    <2>4. Turn(h, j, c, new, p)
      BY <1>1, <1>4, <2>3, GoWithForm, Constants DEF Forget, Save, Steps
    <2>5. c.step = "report" /\ c.seen.status = "none" /\ c.info = s
      BY <1>2, Constants DEF Call, NoJob
    <2> HIDE DEF c
    <2>6. JobOK(new, p) /\ Quiet(c)
      BY <1>2, <2>1, <2>3, <2>5, ClaimJob DEF Quiet, Beginning, Asking, Handed
    <2>7. CallOK(c, new, p)
      BY <2>1, <2>3, <2>5 DEF CallOK, Asking, Handed, Resolving
    <2> HIDE DEF j
    <2> QED
      BY <1>2, <2>1, <2>3, <2>4, <2>6, <2>7, ClaimTurn
  <1> QED
    BY <1>3, <1>4 DEF WriteJob, Closing

LEMMA ResolveItemsKeeps ==
    ASSUME Typed, Consistent, NEW h \in Calls, NEW j \in Jobs, ResolveItems(h, j)
    PROVE  Consistent'
  <1> DEFINE p == provider[j]
  <1>1. PICK s \in Resolving :
           /\ Save(j, [job[j] EXCEPT !.status = s])
           /\ Start(h, "project", j, [job[j] EXCEPT !.status = s],
                    IF s = "items_returned" THEN "cancelled" ELSE "complete")
    BY DEF ResolveItems
  <1> DEFINE new == [job[j] EXCEPT !.status = s]
             i == IF s = "items_returned" THEN "cancelled" ELSE "complete"
             c == [step |-> "project", job |-> j, seen |-> new, info |-> i,
                   saves |-> h \in Workers]
  <1>2. job[j] \in Job /\ p \in Providers /\ job[j].claim /\ job[j].status = "unresolved"
    BY Parts DEF ResolveItems
  <1>3. new \in Job /\ new.status = s /\ new.claim
    <2>1. new \in Job
      BY <1>2, Rows DEF Status, Internal
    <2> QED
      BY <1>2, <2>1 DEF Job
  <1>4. p \in Terminal /\ p # "none"
    BY <1>2, Others DEF JobOK, Handed, Terminal
  <1>5. i \in Terminal /\ i \in Status /\ "project" \in Steps
    BY DEF Terminal, Status, Steps
  <1>6. Save(j, new) /\ Start(h, "project", j, new, i) /\ UNCHANGED provider
    BY <1>1 DEF ResolveItems
  <1> HIDE DEF new, i
  <1>7. Turn(h, j, c, new, p)
    BY <1>3, <1>5, <1>6, StartTurn DEF Save
  <1>8. JobOK(new, p) /\ Quiet(c)
    BY <1>2, <1>3, <1>4, ClaimJob DEF Quiet, Beginning, Asking, Handed
  <1>9. CallOK(c, new, p)
    BY <1>3, <1>4, <1>5 DEF CallOK, Asking
  <1> HIDE DEF c
  <1> QED
    BY <1>2, <1>3, <1>7, <1>8, <1>9, ClaimTurn

\* A job that was never sent, and whose creation nobody asks about, is written again.
LEMMA NotSentTurn ==
    ASSUME Typed, Consistent, NEW h \in Calls, NEW j \in Jobs, NEW c, NEW new \in Job,
           ~new.claim, new.status \notin Retried \cup Handed, ~job[j].claim, provider[j] = "none",
           Turn(h, j, c, new, provider[j]), Quiet(c),
           c.step # "idle" => CallOK(c, new, provider[j]),
           \A g \in Calls \ {h} : Busy(g, j) => call[g].step \notin Asking \cup {"reserve"}
    PROVE  Consistent'
  <1>1. job[j] \in Job /\ provider[j] \in Providers
    BY Parts
  <1>2. ASSUME NEW g \in Calls \ {h}, Busy(g, j)
        PROVE  CallOK(call[g], new, provider[j])
    <2>1. call[g] \in Call /\ CallOK(call[g], job[j], provider[j])
      BY <1>2, Others
    <2>2. call[g].step \notin Asking \cup {"reserve"}
      BY <1>2
    <2> QED
      BY <2>1, <2>2 DEF CallOK, Asking
  <1>3. \A f, g \in Calls \ {h} : Busy(f, j) /\ Busy(g, j) => PairOK(call[f], call[g], new)
    BY DEF PairOK
  <1>4. JobOK(new, provider[j])
    BY DEF JobOK, Terminal, Live
  <1> QED
    BY <1>2, <1>3, <1>4, QuietChange

LEMMA NotCreatedKeeps ==
    ASSUME Typed, Consistent, NEW h \in Calls, NEW j \in Jobs, NotCreated(h, j)
    PROVE  Consistent'
  <1> DEFINE p == provider[j]
             new == [job[j] EXCEPT !.status = "not_created", !.internal = "unassigned"]
             c == [step |-> "order", job |-> j, seen |-> new, info |-> "cancelled",
                   saves |-> h \in Workers]
  <1>1. /\ Save(j, new) /\ Start(h, "order", j, new, "cancelled") /\ UNCHANGED provider
        /\ job[j].status = "creating_exhausted" /\ ~job[j].claim /\ p = "none" /\ ~Asked(j)
    BY DEF NotCreated
  <1>2. job[j] \in Job /\ p \in Providers /\ "cancelled" \in Status /\ "order" \in Steps
    BY Parts DEF Status, Terminal, Steps
  <1>3. new \in Job /\ new.status = "not_created" /\ ~new.claim
    <2>1. new \in Job
      BY <1>2, Rows DEF Status, Internal
    <2> QED
      BY <1>1, <1>2, <2>1 DEF Job
  <1> HIDE DEF new
  <1>4. Turn(h, j, c, new, p)
    BY <1>1, <1>2, <1>3, StartTurn DEF Save
  <1>5. CallOK(c, new, p) /\ Quiet(c)
    BY <1>3 DEF CallOK, Quiet, Beginning, Asking, Following, Handed, Resolving, Terminal
  <1>6. \A g \in Calls : Busy(g, j) => call[g].step \notin Asking \cup {"reserve"}
    <2>1. ASSUME NEW g \in Calls, Busy(g, j)
          PROVE  call[g].step \notin Asking \cup {"reserve"}
      <3>1. call[g].step \notin Asking
        BY <1>1, <2>1 DEF Asked, Creating, Asking, Busy
      <3>2. call[g].step # "reserve"
        BY <1>1, <2>1, Others DEF CallOK
      <3> QED
        BY <3>1, <3>2
    <2> QED
      BY <2>1
  <1>7. new.status \notin Retried \cup Handed
    BY <1>3 DEF Retried, Handed, Resolving
  <1> HIDE DEF c
  <1> QED
    BY <1>1, <1>3, <1>4, <1>5, <1>6, <1>7, NotSentTurn

LEMMA RefuseKeeps ==
    ASSUME Typed, Consistent, NEW h \in Calls, Refuse(h)
    PROVE  Consistent'
  <1> DEFINE j == call[h].job
             p == provider[j]
             row == job[j]
             c == [call[h] EXCEPT !.step = "release"]
             new == [row EXCEPT !.status = "draft", !.attempts = 0, !.error = FALSE]
  <1>1. call[h].step = "refuse" /\ call[h].step # "idle" /\ Go(h, "release") /\ UNCHANGED provider
    BY DEF Refuse, At
  <1>2. /\ j \in Jobs /\ call[h] \in Call /\ row \in Job /\ p \in Providers
        /\ CallOK(call[h], row, p) /\ JobOK(row, p)
        /\ \A g \in Calls \ {h} : Busy(g, j) => PairOK(call[h], call[g], row)
                                                  /\ PairOK(call[g], call[h], row)
    BY <1>1, Here
  <1>3. p = "none" /\ ~row.claim
    BY <1>1, <1>2 DEF CallOK, JobOK
  <1>4. c.step = "release" /\ c.seen = call[h].seen
    BY <1>2 DEF Call
  <1>5. c.seen.status \notin Handed
    BY <1>2, <1>3, <1>4 DEF CallOK, Terminal
  <1>6. Quiet(c) /\ \A r : CallOK(c, r, p)
    BY <1>4, <1>5 DEF Quiet, CallOK, Beginning, Asking, Following
  <1>7. \A g \in Calls \ {h} : Busy(g, j) => call[g].step \notin Asking \cup {"reserve"}
    BY <1>1, <1>2 DEF PairOK, Asking
  <1>8. CASE UNCHANGED job
    <2>1. Turn(h, j, c, row, p)
      BY <1>1, <1>2, <1>8, GoForm, Rests DEF Steps
    <2>2. Same(row, row) /\ Later(p, p)
      BY DEF Same, Later
    <2> HIDE DEF c, j
    <2> QED
      BY <2>1, <2>2, <1>6, QuietTurn
  <1>9. CASE Save(j, new)
    <2>1. new \in Job /\ new.status = "draft" /\ ~new.claim
      <3>1. new \in Job
        BY <1>2, Rows DEF Status, Local, Internal
      <3> QED
        BY <1>2, <1>3, <3>1 DEF Job
    <2> HIDE DEF new
    <2>2. Turn(h, j, c, new, p)
      BY <1>1, <1>9, <2>1, GoForm DEF Steps, Save
    <2>3. new.status \notin Retried \cup Handed
      BY <2>1 DEF Retried, Handed, Resolving
    <2> HIDE DEF c, j
    <2> QED
      BY <1>2, <1>3, <1>6, <1>7, <2>1, <2>2, <2>3, NotSentTurn
  <1> QED
    BY <1>8, <1>9 DEF Refuse

-------------------------------------------------------------------------------
(* Ends.                                                                        *)

\* An end that was recorded before keeps the row.
LEMMA EndedBefore ==
    ASSUME Typed, Consistent, NEW h \in Calls, NEW j \in Jobs, NEW row \in Job, NEW new,
           row = job[j], new = row \/ new = [row EXCEPT !.error = FALSE],
           Turn(h, j, Idle, new, provider[j])
    PROVE  Consistent'
  <1>1. Same(row, new)
    BY DEF Same, Job
  <1>2. Later(provider[j], provider[j])
    BY DEF Later
  <1> QED
    BY <1>1, <1>2, IdleTurn

LEMMA FinishKeeps ==
    ASSUME Typed, Consistent, NEW h \in Calls, Finish(h)
    PROVE  Consistent'
  <1> DEFINE j == call[h].job
             p == provider[j]
             row == job[j]
             i == call[h].info
             new == Closing(row, i, InternalOf(i), FALSE)
  <1>1. call[h].step = "final" /\ call[h].step # "idle" /\ UNCHANGED provider
    BY DEF Finish, At
  <1>2. /\ j \in Jobs /\ call[h] \in Call /\ row \in Job /\ p \in Providers
        /\ CallOK(call[h], row, p) /\ JobOK(row, p) /\ i \in Status
    BY <1>1, Here, Parts
  <1>3. /\ i \in Terminal
        /\ Seen(h).status \notin Terminal \cup {"not_created"} => row.claim /\ p \in Terminal
    BY <1>1, <1>2 DEF CallOK, Seen
  <1>4. CASE Fail(h)
    BY <1>1, <1>4, FailKeeps
  <1>5. CASE /\ Done(h)
             /\ Save(j, IF Seen(h).error THEN [row EXCEPT !.error = FALSE] ELSE row)
    <2> DEFINE kept == IF Seen(h).error THEN [row EXCEPT !.error = FALSE] ELSE row
    <2>1. kept \in Job /\ (kept = row \/ kept = [row EXCEPT !.error = FALSE])
      BY <1>2, Rows DEF Status, Internal
    <2> HIDE DEF kept
    <2>2. Turn(h, j, Idle, kept, p)
      BY <1>1, <1>5, <2>1, DoneForm DEF Save, kept
    <2> QED
      BY <1>2, <2>1, <2>2, EndedBefore
  <1>6. CASE /\ Done(h) /\ Save(j, new)
             /\ \/ Seen(h).status \notin Terminal \cup {"not_created"}
                \/ row.status = "not_created"
    <2>1. new \in Job /\ new.status = i /\ new.claim = row.claim
      BY <1>2, Constants, Closings
    <2> HIDE DEF new
    <2>2. Turn(h, j, Idle, new, p)
      BY <1>1, <1>6, <2>1, DoneForm DEF Save
    <2>3. Idle.step = "idle"
      BY Constants
    <2>4. CASE Seen(h).status \notin Terminal \cup {"not_created"}
      <3>1. row.claim /\ p \in Terminal /\ new.claim
        BY <1>3, <2>1, <2>4
      <3>2. JobOK(new, p)
        BY <3>1, <1>3, <2>1 DEF JobOK, Terminal, Live, Unsent, Local
      <3> HIDE DEF j
      <3> QED
        BY <1>2, <2>1, <2>2, <2>3, <3>1, <3>2, QuietIdle, ClaimTurn
    <2>5. CASE row.status = "not_created"
      <3>1. p = "none" /\ ~row.claim
        BY <1>2, <2>5 DEF JobOK, Unsent
      <3>2. \A g \in Calls \ {h} : Busy(g, j) => call[g].step \notin Asking \cup {"reserve"}
        BY <1>2, <2>5, <3>1, Others DEF CallOK, Unheard, Retried
      <3>3. new.status \notin Retried \cup Handed
        BY <1>3, <2>1 DEF Terminal, Retried, Handed, Resolving
      <3>4. ~new.claim
        BY <2>1, <3>1
      <3> HIDE DEF j
      <3> QED
        BY <1>2, <2>1, <2>2, <2>3, <3>1, <3>2, <3>3, <3>4, QuietIdle, NotSentTurn
    <2> QED
      BY <1>6, <2>4, <2>5
  <1> QED
    BY <1>4, <1>5, <1>6 DEF Finish, Ended, Closing

-------------------------------------------------------------------------------
(* Steps of a call that leave the job as the others know it.                      *)

\* A call goes on, or ends, and its job stays.
LEMMA StepTurn ==
    ASSUME Typed, Consistent, NEW h \in Calls, NEW j \in Jobs, NEW c, NEW row, row = job[j],
           Turn(h, j, c, row, provider[j]), Quiet(c), c.step # "idle" => CallOK(c, row, provider[j])
    PROVE  Consistent'
  BY QuietTurn DEF Same, Later

LEMMA ReleaseKeeps ==
    ASSUME Typed, Consistent, NEW h \in Calls, Release(h) \/ Report(h)
    PROVE  Consistent'
  <1>1. call[h].step # "idle" /\ UNCHANGED provider
    BY DEF Release, Report, At
  <1>2. CASE Fail(h)
    BY <1>1, <1>2, FailKeeps
  <1>3. CASE Done(h) /\ UNCHANGED job
    <2> DEFINE j == call[h].job
    <2>1. j \in Jobs /\ job[j] \in Job
      BY <1>1, Here
    <2>2. Turn(h, j, Idle, job[j], provider[j])
      BY <1>1, <1>3, <2>1, Rests, DoneForm
    <2> HIDE DEF j
    <2> QED
      BY <2>1, <2>2, QuietIdle, Constants, StepTurn
  <1> QED
    BY <1>2, <1>3 DEF Release, Report

LEMMA StopKeeps ==
    ASSUME Typed, Consistent, NEW h \in Calls, Stop(h)
    PROVE  Consistent'
  <1> DEFINE j == call[h].job
  <1>1. call[h].step # "idle" /\ Done(h) /\ UNCHANGED <<job, provider>>
    BY DEF Stop, At
  <1>2. j \in Jobs /\ job[j] \in Job
    BY <1>1, Here
  <1>3. Turn(h, j, Idle, job[j], provider[j])
    BY <1>1, <1>2, Rests, DoneForm
  <1> HIDE DEF j
  <1> QED
    BY <1>2, <1>3, QuietIdle, Constants, StepTurn

LEMMA MarkKeeps ==
    ASSUME Typed, Consistent, NEW h \in Calls, Mark(h)
    PROVE  Consistent'
  <1> DEFINE j == call[h].job
             c == [call[h] EXCEPT !.step = "info"]
  <1>1. call[h].step = "mark" /\ call[h].step # "idle" /\ Go(h, "info") /\ UNCHANGED <<job, provider>>
    BY DEF Mark, At
  <1>2. /\ j \in Jobs /\ call[h] \in Call /\ job[j] \in Job
        /\ CallOK(call[h], job[j], provider[j])
    BY <1>1, Here
  <1>3. Turn(h, j, c, job[j], provider[j])
    BY <1>1, <1>2, Rests, GoForm DEF Steps
  <1>4. c.step = "info" /\ c.seen = call[h].seen
    BY <1>2 DEF Call
  <1> HIDE DEF c
  <1>5. Quiet(c) /\ CallOK(c, job[j], provider[j])
    BY <1>1, <1>2, <1>4 DEF Quiet, CallOK, Beginning, Asking, Following
  <1> HIDE DEF j
  <1> QED
    BY <1>2, <1>3, <1>5, StepTurn

LEMMA InfoKeeps ==
    ASSUME Typed, Consistent, NEW h \in Calls, Info(h) \/ Verify(h)
    PROVE  Consistent'
  <1> DEFINE j == call[h].job
             p == provider[j]
  <1>1. call[h].step \in {"info", "verify"} /\ UNCHANGED <<job, provider>>
    BY DEF Info, Verify, At
  <1>2. /\ j \in Jobs /\ call[h] \in Call /\ job[j] \in Job /\ p \in Providers
        /\ CallOK(call[h], job[j], p) /\ JobOK(job[j], p)
    BY <1>1, Here
  <1>3. job[j].claim /\ p # "none"
    BY <1>1, <1>2 DEF CallOK, JobOK, Following
  <1>4. \E s \in {"project", "write"}, i \in Live \cup Terminal \cup {"unresolved"} :
           /\ call' = [call EXCEPT ![h].step = s, ![h].info = i]
           /\ i \notin Live => p \in Terminal
           /\ s = "write" => i = "unresolved"
    <2>1. CASE Info(h)
      <3> DEFINE kept == Seen(h).status = "unresolved" \/ (p = "cancelled" /\ Evidence(Seen(h)))
                 i == IF kept THEN "unresolved" ELSE p
      <3>1. kept => p \in Terminal
        BY <1>2 DEF CallOK, Seen, Handed, Terminal
      <3>2. i \in Live \cup Terminal \cup {"unresolved"} /\ (i \notin Live => p \in Terminal)
        BY <1>2, <1>3, <3>1 DEF Providers
      <3>3. call' = [call EXCEPT ![h].step = "project", ![h].info = i]
        BY <2>1 DEF Info
      <3> HIDE DEF i
      <3> QED
        BY <3>2, <3>3
    <2>2. CASE Verify(h)
      <3>1. p \in Terminal
        BY <1>2, <2>2 DEF Verify, At, CallOK
      <3>2. \E free \in BOOLEAN :
               call' = [call EXCEPT ![h].step = IF free THEN "project" ELSE "write",
                                    ![h].info = IF free THEN "cancelled" ELSE "unresolved"]
        BY <2>2 DEF Verify, ItemsHanded
      <3>3. "cancelled" \in Terminal
        BY DEF Terminal
      <3> QED
        BY <3>1, <3>2, <3>3
    <2> QED
      BY <2>1, <2>2
  <1>5. PICK s \in {"project", "write"}, i \in Live \cup Terminal \cup {"unresolved"} :
           /\ call' = [call EXCEPT ![h].step = s, ![h].info = i]
           /\ i \notin Live => p \in Terminal
           /\ s = "write" => i = "unresolved"
    BY <1>4
  <1> DEFINE c == [call[h] EXCEPT !.step = s, !.info = i]
  <1>6. c \in Call /\ c.step = s /\ c.info = i /\ c.seen = call[h].seen /\ c.job = j
    <2>1. c \in Call
      BY <1>2, CallEdits DEF Steps, Status, Internal
    <2> QED
      BY <1>2, <2>1 DEF Call
  <1>7. call' = [call EXCEPT ![h] = c]
    BY <1>5 DEF Typed, TypeOK
  <1> HIDE DEF c
  <1>8. Turn(h, j, c, job[j], p)
    BY <1>1, <1>2, <1>6, <1>7, Rests DEF Turn
  <1>9. Quiet(c) /\ CallOK(c, job[j], p)
    BY <1>2, <1>3, <1>5, <1>6 DEF Quiet, CallOK, Beginning, Asking, Live
  <1> HIDE DEF j
  <1> QED
    BY <1>2, <1>8, <1>9, StepTurn

LEMMA ProjectKeeps ==
    ASSUME Typed, Consistent, NEW h \in Calls, Project(h)
    PROVE  Consistent'
  <1> DEFINE j == call[h].job
             p == provider[j]
             i == call[h].info
             new == [job[j] EXCEPT !.internal = InternalOf(i)]
             s == IF i \in Terminal THEN "order" ELSE "write"
             c == [call[h] EXCEPT !.step = s, !.seen = new]
  <1>1. call[h].step = "project" /\ call[h].step # "idle" /\ UNCHANGED provider
    BY DEF Project, At
  <1>2. /\ j \in Jobs /\ call[h] \in Call /\ job[j] \in Job /\ p \in Providers
        /\ CallOK(call[h], job[j], p) /\ JobOK(job[j], p) /\ i \in Status
    BY <1>1, Here, Parts
  <1>3. CASE Fail(h)
    BY <1>1, <1>3, FailKeeps
  <1>4. CASE Save(j, new) /\ GoWith(h, s, new)
    <2>1. new \in Job /\ Same(job[j], new) /\ new.status = job[j].status
      <3>1. new \in Job
        BY <1>2, Rows, Constants
      <3> QED
        BY <1>2, <3>1 DEF Job, Same
    <2> HIDE DEF new
    <2>2. Turn(h, j, c, new, p)
      BY <1>1, <1>4, <2>1, GoWithForm DEF Steps, Save
    <2>3. c.step = s /\ c.seen = new /\ c.info = i
      BY <1>2, <2>1 DEF Call
    <2> HIDE DEF c
    <2>4. /\ job[j].claim /\ new.claim /\ i \in Live \cup Terminal \cup {"unresolved"}
          /\ i \notin Live => p \in Terminal
          /\ new.status \in Handed => p \in Terminal
      BY <1>1, <1>2, <2>1 DEF CallOK, JobOK, Following, Same
    <2>5. Quiet(c) /\ CallOK(c, new, p)
      BY <2>3, <2>4 DEF Quiet, CallOK, Beginning, Asking, Live, Terminal
    <2>6. Later(p, p)
      BY DEF Later
    <2> HIDE DEF j
    <2> QED
      BY <1>2, <2>1, <2>2, <2>5, <2>6, QuietTurn
  <1> QED
    BY <1>3, <1>4 DEF Project

LEMMA ReportEndKeeps ==
    ASSUME Typed, Consistent, NEW h \in Calls, ReportEnd(h)
    PROVE  Consistent'
  <1> DEFINE j == call[h].job
             c == [call[h] EXCEPT !.step = "final"]
  <1>1. call[h].step = "order" /\ call[h].step # "idle" /\ UNCHANGED provider
    BY DEF ReportEnd, At
  <1>2. /\ j \in Jobs /\ call[h] \in Call /\ job[j] \in Job
        /\ CallOK(call[h], job[j], provider[j])
    BY <1>1, Here
  <1>3. CASE Fail(h)
    BY <1>1, <1>3, FailKeeps
  <1>4. CASE Go(h, "final") /\ UNCHANGED job
    <2>1. Turn(h, j, c, job[j], provider[j])
      BY <1>1, <1>2, <1>4, Rests, GoForm DEF Steps
    <2>2. c.step = "final" /\ c.seen = call[h].seen /\ c.info = call[h].info
      BY <1>2 DEF Call
    <2> HIDE DEF c
    <2>3. Quiet(c) /\ CallOK(c, job[j], provider[j])
      BY <1>1, <1>2, <2>2 DEF Quiet, CallOK, Beginning, Asking, Following
    <2> HIDE DEF j
    <2> QED
      BY <1>2, <2>1, <2>3, StepTurn
  <1> QED
    BY <1>3, <1>4 DEF ReportEnd

\* A call looks at a job.
LEMMA LookTurn ==
    ASSUME Typed, Consistent, NEW h \in Calls, NEW j \in Jobs, NEW c \in Call, c.job = j,
           call' = [call EXCEPT ![h] = c], UNCHANGED <<job, provider>>,
           Quiet(c), CallOK(c, job[j], provider[j])
    PROVE  Consistent'
  <1>1. Turn(h, j, c, job[j], provider[j])
    BY Parts, Rests DEF Turn
  <1> QED
    BY <1>1, StepTurn

LEMMA SyncKeeps ==
    ASSUME Typed, Consistent, NEW h \in Calls, NEW j \in Jobs, Sync(h, j) \/ ResumeNotCreated(h, j)
    PROVE  Consistent'
  <1> DEFINE row == job[j]
             p == provider[j]
             New(s, i, b) == [step |-> s, job |-> j, seen |-> row, info |-> i, saves |-> b]
  <1>1. row \in Job /\ p \in Providers /\ JobOK(row, p) /\ UNCHANGED <<job, provider>>
    BY Parts, Others DEF Sync, ResumeNotCreated
  <1>2. \E s \in Steps, i \in Status, b \in BOOLEAN :
           call' = [call EXCEPT ![h] = New(s, i, b)] /\ Quiet(New(s, i, b))
             /\ CallOK(New(s, i, b), row, p)
    <2> DEFINE w == h \in Workers
    <2>1. CASE row.claim /\ call' = [call EXCEPT ![h] = New("info", "none", TRUE)]
      <3>1. Quiet(New("info", "none", TRUE)) /\ CallOK(New("info", "none", TRUE), row, p)
        BY <1>1, <2>1 DEF Quiet, CallOK, Beginning, Asking, Following, JobOK
      <3> HIDE DEF New
      <3> QED
        BY <2>1, <3>1 DEF Steps, Status
    <2>2. CASE /\ row.claim /\ row.status \in Resolving
               /\ \E i \in Terminal : Start(h, "project", j, row, i)
      <3>1. PICK i \in Terminal : call' = [call EXCEPT ![h] = New("project", i, w)]
        BY <2>2 DEF Start
      <3>2. Quiet(New("project", i, w)) /\ CallOK(New("project", i, w), row, p)
        BY <1>1, <2>2 DEF Quiet, CallOK, Beginning, Asking, JobOK, Handed
      <3>3. "project" \in Steps /\ i \in Status /\ w \in BOOLEAN
        BY DEF Steps, Status
      <3> HIDE DEF New, w
      <3> QED
        BY <3>1, <3>2, <3>3
    <2>3. CASE /\ row.claim /\ row.status \in Terminal
               /\ Start(h, "write", j, row, "unresolved")
      <3>1. call' = [call EXCEPT ![h] = New("write", "unresolved", w)]
        BY <2>3 DEF Start
      <3>2. Quiet(New("write", "unresolved", w)) /\ CallOK(New("write", "unresolved", w), row, p)
        BY <1>1, <2>3 DEF Quiet, CallOK, Beginning, Asking, JobOK
      <3>3. "write" \in Steps /\ "unresolved" \in Status /\ w \in BOOLEAN
        BY DEF Steps, Status
      <3> HIDE DEF New, w
      <3> QED
        BY <3>1, <3>2, <3>3
    <2>4. CASE \E i \in Terminal : /\ row.status \in Terminal \cup {"not_created"}
                                   /\ Start(h, "order", j, row, i)
      <3>1. PICK i \in Terminal : /\ row.status \in Terminal \cup {"not_created"}
                                  /\ call' = [call EXCEPT ![h] = New("order", i, w)]
        BY <2>4 DEF Start
      <3>2. Quiet(New("order", i, w)) /\ CallOK(New("order", i, w), row, p)
        BY <1>1, <3>1 DEF Quiet, CallOK, Beginning, Asking, Following, JobOK
      <3>3. "order" \in Steps /\ i \in Status /\ w \in BOOLEAN
        BY DEF Steps, Status
      <3> HIDE DEF New, w
      <3> QED
        BY <3>1, <3>2, <3>3
    <2>5. "cancelled" \in Terminal /\ "complete" \in Terminal
      BY DEF Terminal
    <2>6. CASE Sync(h, j)
      BY <2>1, <2>2, <2>3, <2>4, <2>5, <2>6 DEF Sync
    <2>7. CASE ResumeNotCreated(h, j)
      BY <2>4, <2>5, <2>7 DEF ResumeNotCreated
    <2> QED
      BY <2>6, <2>7
  <1>3. PICK s \in Steps, i \in Status, b \in BOOLEAN :
           call' = [call EXCEPT ![h] = New(s, i, b)] /\ Quiet(New(s, i, b))
             /\ CallOK(New(s, i, b), row, p)
    BY <1>2
  <1>4. New(s, i, b) \in Call /\ New(s, i, b).job = j
    BY <1>1, NewCalls
  <1> HIDE DEF New
  <1> QED
    BY <1>1, <1>3, <1>4, LookTurn

\* The provider's order goes on by itself, or is cancelled by a request.
LEMMA MoveKeeps ==
    ASSUME Typed, Consistent, NEW j \in Jobs, NEW q \in Providers,
           Later(provider[j], q), UNCHANGED <<job, call>>, provider' = [provider EXCEPT ![j] = q]
    PROVE  Consistent'
  <1>1. job[j] \in Job /\ provider[j] \in Providers /\ Same(job[j], job[j])
    BY DEF Same, Typed, TypeOK, Providers
  <1>2. JobOK(job[j], q)
    BY <1>1, Others, CalmKeeps
  <1>3. \A g \in Calls : Busy(g, j) => CallOK(call[g], job[j], q)
    BY <1>1, Others, CalmKeeps
  <1>4. \A f, g \in Calls : f # g /\ Busy(f, j) /\ Busy(g, j) => PairOK(call[f], call[g], job[j])
    BY Others
  <1>5. job' = [job EXCEPT ![j] = job[j]]
    BY Rests
  <1> QED
    BY <1>2, <1>3, <1>4, <1>5, JobKeeps

LEMMA CancelKeeps ==
    ASSUME Typed, Consistent, NEW h \in Calls, NEW j \in Jobs, Cancel(h, j)
    PROVE  Consistent'
  <1> DEFINE row == job[j]
             p == provider[j]
             w == h \in Workers
             c == [step |-> "verify", job |-> j, seen |-> row, info |-> p, saves |-> w]
  <1>1. /\ row \in Job /\ p \in Live /\ row.claim /\ row.status \notin Handed
        /\ UNCHANGED job /\ provider' = [provider EXCEPT ![j] = "cancelled"]
    BY Parts DEF Cancel, Handed
  <1>2. "cancelled" \in Providers /\ Later(p, "cancelled") /\ "cancelled" \in Terminal
    BY <1>1 DEF Providers, Later, Terminal
  <1>3. CASE UNCHANGED call
    BY <1>1, <1>2, <1>3, MoveKeeps
  <1>4. CASE call' = [call EXCEPT ![h] = c]
    <2>1. c \in Call
      <3>1. w \in BOOLEAN /\ "verify" \in Steps /\ p \in Status
        BY <1>1 DEF Steps, Status
      <3> HIDE DEF w, row, p
      <3> QED
        BY <1>1, <3>1, NewCalls
    <2>2. Quiet(c) /\ CallOK(c, row, "cancelled")
      BY <1>1, <1>2 DEF Quiet, CallOK, Beginning, Asking
    <2>3. Turn(h, j, c, row, "cancelled")
      BY <1>1, <1>2, <1>4, <2>1, Rests DEF Turn
    <2>4. Same(row, row)
      BY DEF Same
    <2> HIDE DEF c
    <2> QED
      BY <1>2, <2>2, <2>3, <2>4, QuietTurn
  <1> QED
    BY <1>3, <1>4 DEF Cancel, Start

-------------------------------------------------------------------------------
(* Every step keeps the invariant.                                               *)

LEMMA Starts == Init => Typed /\ Consistent
  <1> SUFFICES ASSUME Init
               PROVE  Typed /\ Consistent
    OBVIOUS
  <1>1. \A h \in Calls : call[h] = Idle
    BY DEF Init
  <1>2. TypeOK
    <2>1. order \in Order
      BY DEF Init, Order, Internal
    <2>2. 0 \in 0..MaxStops
      BY DispatchAssumption
    <2> QED
      BY <2>1, <2>2, Constants DEF Init, TypeOK
  <1>3. Pointed /\ CallsOK /\ PairsOK
    BY <1>1, Constants DEF Pointed, CallsOK, PairsOK, Busy
  <1>4. JobsOK
    BY DEF Init, JobsOK, JobOK, NoJob, Handed, Resolving, Terminal, Live
  <1> QED
    BY <1>2, <1>3, <1>4 DEF Typed, Consistent

LEMMA WorkKeeps ==
    ASSUME Typed, Consistent, Faults = {}, NEW h \in Calls, Work(h)
    PROVE  Consistent'
  BY ReserveKeeps, GiveBackKeeps, AttemptKeeps, UnheardKeeps, CreateKeeps, BindKeeps,
     RefuseKeeps, ReleaseKeeps, MarkKeeps, InfoKeeps, ProjectKeeps, WriteJobKeeps,
     ReportEndKeeps, FinishKeeps
  DEF Work

LEMMA StepKeeps ==
    ASSUME Typed, Consistent, Faults = {}, [Next]_vars
    PROVE  Consistent'
  <1>1. CASE UNCHANGED vars
    BY <1>1, NothingKeeps DEF vars
  <1>2. ASSUME NEW j \in Jobs, NewJob(j) \/ Quote(j) \/ Move(j)
        PROVE  Consistent'
    <2>1. CASE NewJob(j) \/ Quote(j)
      BY <2>1, NewJobKeeps
    <2>2. CASE Move(j)
      <3>1. PICK q \in Live \cup Terminal : provider[j] \in Live /\ provider' = [provider EXCEPT ![j] = q]
        BY <2>2 DEF Move, Live, Terminal
      <3>2. q \in Providers /\ Later(provider[j], q)
        BY <3>1 DEF Providers, Later
      <3> QED
        BY <2>2, <3>1, <3>2, MoveKeeps DEF Move
    <2> QED
      BY <1>2, <2>1, <2>2
  <1>3. ASSUME NEW h \in Calls, Work(h) \/ Stop(h)
        PROVE  Consistent'
    BY <1>3, WorkKeeps, StopKeeps
  <1>4. ASSUME NEW h \in Calls, NEW j \in Jobs,
               \/ Tick(h, j) \/ Expire(h, j) \/ Begin(h, j) \/ CancelLocal(h, j) \/ Cancel(h, j)
               \/ ResolveItems(h, j) \/ Attach(h, j) \/ NotCreated(h, j)
        PROVE  Consistent'
    BY <1>4, RetryKeeps, SyncKeeps, ExpireKeeps, BeginKeeps, CancelKeeps, ResolveItemsKeeps,
       AttachKeeps, NotCreatedKeeps
    DEF Tick
  <1>5. CASE CloseOrder \/ AssignInternal \/ Requeue
    BY <1>5, NothingKeeps DEF CloseOrder, AssignInternal, Requeue
  <1> QED
    BY <1>1, <1>2, <1>3, <1>4, <1>5 DEF Next

-------------------------------------------------------------------------------
(* Every step keeps the types.                                                   *)

CallsTyped == call \in [Calls -> Call] /\ Pointed
Rest == order \in Order /\ provider \in [Jobs -> Providers] /\ stops \in 0..MaxStops /\ crossed \in BOOLEAN
JobsTyped == job \in [Jobs -> Job]

LEMMA Split == (Typed <=> CallsTyped /\ JobsTyped /\ Rest) /\ (Typed' <=> CallsTyped' /\ JobsTyped' /\ Rest')
  BY DEF Typed, TypeOK, CallsTyped, JobsTyped, Rest, Providers

LEMMA CallWritten ==
    ASSUME Typed, NEW h \in Calls, NEW c \in Call, c.step = "idle" \/ c.job \in Jobs,
           call' = [call EXCEPT ![h] = c]
    PROVE  CallsTyped'
  BY DEF Typed, TypeOK, CallsTyped, Pointed

LEMMA CallEdited ==
    ASSUME Typed, NEW h \in Calls, call[h].step # "idle", NEW s \in Steps, NEW row \in Job,
           NEW i \in Status,
           \/ Go(h, s) \/ GoWith(h, s, row) \/ Forget(h, s) \/ Done(h)
           \/ call' = [call EXCEPT ![h].step = s, ![h].info = i]
           \/ call' = [call EXCEPT ![h].step = s, ![h].info = i, ![h].seen = NoJob]
           \/ call' = [call EXCEPT ![h].step = s, ![h].seen = row, ![h].saves = TRUE]
    PROVE  CallsTyped'
  <1>1. call[h] \in Call /\ call[h].job \in Jobs /\ call = [g \in Calls |-> call[g]]
    BY Parts DEF Typed, TypeOK
  <1>2. CASE Done(h)
    BY <1>2, CallWritten, Constants DEF Done
  <1>3. CASE Go(h, s)
    <2>1. [call[h] EXCEPT !.step = s] \in Call /\ [call[h] EXCEPT !.step = s].job = call[h].job
      BY <1>1 DEF Call
    <2> QED
      BY <1>1, <1>3, <2>1, CallWritten DEF Go
  <1>4. ASSUME NEW r \in Job, GoWith(h, s, r)
        PROVE  CallsTyped'
    <2>1. /\ [call[h] EXCEPT !.step = s, !.seen = r] \in Call
          /\ [call[h] EXCEPT !.step = s, !.seen = r].job = call[h].job
      BY <1>1 DEF Call
    <2>2. call' = [call EXCEPT ![h] = [call[h] EXCEPT !.step = s, !.seen = r]]
      BY <1>1, <1>4 DEF GoWith
    <2> QED
      BY <1>1, <2>1, <2>2, CallWritten
  <1>5. CASE call' = [call EXCEPT ![h].step = s, ![h].info = i]
    <2>1. /\ [call[h] EXCEPT !.step = s, !.info = i] \in Call
          /\ [call[h] EXCEPT !.step = s, !.info = i].job = call[h].job
      BY <1>1 DEF Call
    <2>2. call' = [call EXCEPT ![h] = [call[h] EXCEPT !.step = s, !.info = i]]
      BY <1>1, <1>5
    <2> QED
      BY <1>1, <2>1, <2>2, CallWritten
  <1>6. CASE call' = [call EXCEPT ![h].step = s, ![h].info = i, ![h].seen = NoJob]
    <2>1. /\ [call[h] EXCEPT !.step = s, !.info = i, !.seen = NoJob] \in Call
          /\ [call[h] EXCEPT !.step = s, !.info = i, !.seen = NoJob].job = call[h].job
      BY <1>1, Constants DEF Call
    <2>2. call' = [call EXCEPT ![h] = [call[h] EXCEPT !.step = s, !.info = i, !.seen = NoJob]]
      BY <1>1, <1>6
    <2> QED
      BY <1>1, <2>1, <2>2, CallWritten
  <1>7. CASE call' = [call EXCEPT ![h].step = s, ![h].seen = row, ![h].saves = TRUE]
    <2>1. /\ [call[h] EXCEPT !.step = s, !.seen = row, !.saves = TRUE] \in Call
          /\ [call[h] EXCEPT !.step = s, !.seen = row, !.saves = TRUE].job = call[h].job
      BY <1>1 DEF Call
    <2>2. call' = [call EXCEPT ![h] = [call[h] EXCEPT !.step = s, !.seen = row, !.saves = TRUE]]
      BY <1>1, <1>7
    <2> QED
      BY <1>1, <2>1, <2>2, CallWritten
  <1> QED
    BY <1>2, <1>3, <1>4, <1>5, <1>6, <1>7, Constants DEF Forget

LEMMA CallDone == ASSUME Typed, NEW h \in Calls, Done(h) PROVE CallsTyped'
  BY CallWritten, Constants DEF Done

LEMMA CallGoes ==
    ASSUME Typed, NEW h \in Calls, call[h].step # "idle", NEW s \in Steps,
           Go(h, s) \/ Forget(h, s)
    PROVE  CallsTyped'
  BY CallEdited, Constants DEF Status

LEMMA CallGoesWith ==
    ASSUME Typed, NEW h \in Calls, call[h].step # "idle", NEW s \in Steps, NEW row \in Job,
           \/ GoWith(h, s, row)
           \/ call' = [call EXCEPT ![h].step = s, ![h].seen = row, ![h].saves = TRUE]
    PROVE  CallsTyped'
  BY CallEdited DEF Status

LEMMA CallTold ==
    ASSUME Typed, NEW h \in Calls, call[h].step # "idle", NEW s \in Steps, NEW i \in Status,
           call' = [call EXCEPT ![h].step = s, ![h].info = i]
    PROVE  CallsTyped'
  BY CallEdited, Constants

LEMMA CallStarted ==
    ASSUME Typed, NEW h \in Calls, NEW s \in Steps, NEW j \in Jobs, NEW row \in Job,
           NEW i \in Status, NEW b \in BOOLEAN,
           call' = [call EXCEPT ![h] = [step |-> s, job |-> j, seen |-> row, info |-> i,
                                        saves |-> b]]
    PROVE  CallsTyped'
  BY NewCalls, CallWritten

LEMMA Started ==
    ASSUME Typed, NEW h \in Calls, NEW s \in Steps, NEW j \in Jobs, NEW row \in Job,
           NEW i \in Status, Start(h, s, j, row, i)
    PROVE  CallsTyped'
  <1>1. (h \in Workers) \in BOOLEAN
    OBVIOUS
  <1> QED
    BY <1>1, CallStarted DEF Start

LEMMA CallKept == ASSUME Typed, UNCHANGED call PROVE CallsTyped'
  BY DEF Typed, TypeOK, CallsTyped, Pointed

LEMMA JobWritten ==
    ASSUME Typed, NEW j, NEW row \in Job,
           UNCHANGED job \/ Save(j, row)
    PROVE  JobsTyped'
  BY DEF Typed, TypeOK, JobsTyped, Save

LEMMA Failed ==
    ASSUME Typed, NEW h \in Calls, call[h].step # "idle", Fail(h)
    PROVE  CallsTyped' /\ JobsTyped'
  <1>1. Done(h)
    BY DEF Fail
  <1>2. CallsTyped'
    BY <1>1, CallEdited, Constants DEF Steps, Status
  <1>3. JobsTyped'
    <2> DEFINE j == call[h].job
    <2>1. j \in Jobs /\ job[j] \in Job /\ job = [k \in Jobs |-> job[k]]
      BY Parts DEF Typed, TypeOK
    <2>2. [job[j] EXCEPT !.error = TRUE] \in Job
      BY <2>1, Rows DEF Status, Internal
    <2>3. UNCHANGED job \/ job' = [job EXCEPT ![j] = [job[j] EXCEPT !.error = TRUE]]
      BY <2>1 DEF Fail
    <2> HIDE DEF j
    <2> QED
      BY <2>2, <2>3, JobWritten DEF Save
  <1> QED
    BY <1>2, <1>3

LEMMA Marked == ASSUME order \in Order PROVE MarkActive(order) \in Order
  BY DEF MarkActive, Order

\* Steps that write no job.
LEMMA TypedQuotes ==
    ASSUME Typed, NEW j \in Jobs, NewJob(j) \/ Quote(j) \/ Move(j)
    PROVE  Typed'
  <1>1. CallsTyped'
    BY CallKept DEF NewJob, Quote, Move
  <1>2. JobsTyped'
    BY JobWritten, Constants DEF NewJob, Quote, Move
  <1>3. Rest'
    BY DEF NewJob, Quote, Move, Rest, Typed, TypeOK, Providers, Live, Terminal
  <1> QED
    BY <1>1, <1>2, <1>3, Split

LEMMA TypedOrder ==
    ASSUME Typed, CloseOrder \/ AssignInternal \/ Requeue
    PROVE  Typed'
  <1>1. CallsTyped'
    BY CallKept DEF CloseOrder, AssignInternal, Requeue
  <1>2. JobsTyped'
    BY DEF CloseOrder, AssignInternal, Requeue, Typed, TypeOK, JobsTyped
  <1>3. Rest'
    BY DEF CloseOrder, AssignInternal, Requeue, Rest, Typed, TypeOK, Providers, Order, Internal
  <1> QED
    BY <1>1, <1>2, <1>3, Split

LEMMA TypedStart ==
    ASSUME Typed, NEW h \in Calls, NEW j \in Jobs,
           Retry(h, j) \/ Sync(h, j) \/ ResumeNotCreated(h, j) \/ Cancel(h, j)
    PROVE  Typed'
  <1>1. job[j] \in Job /\ provider[j] \in Providers
    BY Parts
  <1>2. JobsTyped'
    BY DEF Retry, Sync, ResumeNotCreated, Cancel, Typed, TypeOK, JobsTyped
  <1>3. Rest'
    BY DEF Retry, Sync, ResumeNotCreated, Cancel, Rest, Typed, TypeOK, Providers, Order, Live, Terminal
  <1>4. CallsTyped'
    <2>1. CASE Retry(h, j)
      BY <2>1, <1>1, Started DEF Retry, Steps, Status
    <2>2. CASE Sync(h, j)
      <3>1. CASE call' = [call EXCEPT ![h] = [step |-> "info", job |-> j, seen |-> job[j],
                                              info |-> "none", saves |-> TRUE]]
        BY <3>1, <1>1, CallStarted DEF Steps, Status
      <3>2. ASSUME NEW s \in {"project", "write", "order"}, NEW i \in Status, Start(h, s, j, job[j], i)
            PROVE  CallsTyped'
        BY <3>2, <1>1, Started DEF Steps
      <3>3. "cancelled" \in Status /\ "complete" \in Status /\ "unresolved" \in Status
        BY DEF Status, Terminal
      <3>4. job[j].status \in Status
        BY <1>1 DEF Job
      <3> QED
        BY <2>2, <3>1, <3>2, <3>3, <3>4 DEF Sync
    <2>3. CASE ResumeNotCreated(h, j)
      BY <2>3, <1>1, Started DEF ResumeNotCreated, Steps, Status, Terminal
    <2>4. CASE Cancel(h, j)
      <3>1. provider[j] \in Status
        BY <2>4 DEF Cancel, Status
      <3>2. CASE Start(h, "verify", j, job[j], provider[j])
        BY <3>1, <3>2, <1>1, Started DEF Steps
      <3> QED
        BY <2>4, <3>2, CallKept DEF Cancel
    <2> QED
      BY <2>1, <2>2, <2>3, <2>4
  <1> QED
    BY <1>2, <1>3, <1>4, Split

\* Steps that write a job and start a call.
LEMMA TypedEdit ==
    ASSUME Typed, NEW h \in Calls, NEW j \in Jobs,
           \/ Expire(h, j) \/ Begin(h, j) \/ CancelLocal(h, j) \/ ResolveItems(h, j)
           \/ Attach(h, j) \/ NotCreated(h, j)
    PROVE  Typed'
  <1>1. job[j] \in Job
    BY Parts
  <1>2. Rest'
    BY DEF Expire, Begin, CancelLocal, ResolveItems, Attach, NotCreated, Rest, Typed, TypeOK, Providers
  <1>3. ASSUME NEW row \in Job, Save(j, row), NEW s \in Steps, NEW i \in Status,
               \/ Start(h, s, j, row, i)
               \/ call' = [call EXCEPT ![h] = [step |-> "mark", job |-> j, seen |-> row,
                                               info |-> "none", saves |-> TRUE]]
        PROVE  Typed'
    <2>1. JobsTyped'
      BY <1>3, JobWritten
    <2>2. "mark" \in Steps /\ "none" \in Status
      BY DEF Steps, Status
    <2>3. CallsTyped'
      BY <1>3, <2>2, Started, CallStarted
    <2> QED
      BY <1>2, <2>1, <2>3, Split
  <1>4. /\ {"order", "reserve", "project", "mark"} \subseteq Steps
        /\ {"cancelled", "none", "complete", "creating", "attaching", "not_created"} \subseteq Status
        /\ Resolving \subseteq Status
        /\ {"cancelled", "unassigned"} \subseteq Internal /\ TRUE \in BOOLEAN /\ FALSE \in BOOLEAN
    BY DEF Steps, Status, Terminal, Retried, Internal
  <1>5. CASE Expire(h, j)
    <2> DEFINE row == [job[j] EXCEPT !.status = "cancelled", !.internal = "cancelled", !.error = TRUE]
    <2>1. row \in Job
      BY <1>1, <1>4, Rows
    <2>2. Save(j, row) /\ Start(h, "order", j, row, "cancelled")
      BY <1>5 DEF Expire
    <2> HIDE DEF row
    <2> QED
      BY <2>1, <2>2, <1>3, <1>4
  <1>6. CASE Begin(h, j)
    <2> DEFINE row == [job[j] EXCEPT !.status = "creating"]
    <2>1. row \in Job
      BY <1>1, <1>4, Rows
    <2>2. Save(j, row) /\ Start(h, "reserve", j, row, "none")
      BY <1>6 DEF Begin
    <2> HIDE DEF row
    <2> QED
      BY <2>1, <2>2, <1>3, <1>4
  <1>7. CASE CancelLocal(h, j)
    <2> DEFINE row == Ended(job[j], "cancelled")
    <2>1. row \in Job
      BY <1>1, <1>4, Rows, Constants DEF Ended
    <2>2. Save(j, row) /\ Start(h, "order", j, row, "cancelled")
      BY <1>7 DEF CancelLocal
    <2> HIDE DEF row
    <2> QED
      BY <2>1, <2>2, <1>3, <1>4
  <1>8. CASE ResolveItems(h, j)
    <2>1. PICK s \in Resolving :
             /\ Save(j, [job[j] EXCEPT !.status = s])
             /\ Start(h, "project", j, [job[j] EXCEPT !.status = s],
                      IF s = "items_returned" THEN "cancelled" ELSE "complete")
      BY <1>8 DEF ResolveItems
    <2> DEFINE row == [job[j] EXCEPT !.status = s]
               i == IF s = "items_returned" THEN "cancelled" ELSE "complete"
    <2>2. row \in Job /\ i \in Status
      BY <1>1, <1>4, Rows
    <2> HIDE DEF row, i
    <2>3. Save(j, row) /\ Start(h, "project", j, row, i)
      BY <2>1 DEF row, i
    <2> QED
      BY <2>2, <2>3, <1>3, <1>4
  <1>9. CASE Attach(h, j)
    <2> DEFINE row == [job[j] EXCEPT !.status = "attaching", !.claim = TRUE, !.attempts = 0,
                                     !.internal = "unassigned"]
    <2>1. row \in Job
      BY <1>1, <1>4, Rows
    <2>2. /\ Save(j, row)
          /\ call' = [call EXCEPT ![h] = [step |-> "mark", job |-> j, seen |-> row,
                                          info |-> "none", saves |-> TRUE]]
      BY <1>9 DEF Attach
    <2> HIDE DEF row
    <2> QED
      BY <2>1, <2>2, <1>3, <1>4
  <1>10. CASE NotCreated(h, j)
    <2> DEFINE row == [job[j] EXCEPT !.status = "not_created", !.internal = "unassigned"]
    <2>1. row \in Job
      BY <1>1, <1>4, Rows
    <2>2. Save(j, row) /\ Start(h, "order", j, row, "cancelled")
      BY <1>10 DEF NotCreated
    <2> HIDE DEF row
    <2> QED
      BY <2>1, <2>2, <1>3, <1>4
  <1> QED
    BY <1>5, <1>6, <1>7, <1>8, <1>9, <1>10

\* Steps of a call.
LEMMA TypedWork ==
    ASSUME Typed, NEW h \in Calls, Work(h) \/ Stop(h)
    PROVE  Typed'
  <1> DEFINE j == call[h].job
             row == job[j]
             i == call[h].info
  <1>1. call[h].step # "idle"
    BY DEF Work, Stop, At, Reserve, GiveBack, Attempt, Exhaust, Create, Bind, Doubt, Refuse,
           Release, Mark, Info, Verify, Project, WriteJob, Report, ReportEnd, Finish
  <1>2. /\ j \in Jobs /\ call[h] \in Call /\ row \in Job /\ provider[j] \in Providers
        /\ call[h].seen \in Job /\ i \in Status /\ InternalOf(i) \in Internal
        /\ Shown(InternalOf(i)) \in Internal \ {"cancelled"}
        /\ order \in Order /\ stops \in 0..MaxStops /\ crossed \in BOOLEAN
        /\ provider \in [Jobs -> Providers] /\ NoJob \in Job
    BY <1>1, Parts, Constants DEF Typed, TypeOK, Providers
  <1>3. CASE \/ Reserve(h) \/ Release(h) \/ Mark(h) \/ Info(h) \/ Verify(h) \/ Report(h)
             \/ ReportEnd(h) \/ Stop(h)
    <2>1. Fail(h) => CallsTyped' /\ JobsTyped'
      BY <1>1, Failed
    <2>2. ASSUME ~Fail(h)
          PROVE  CallsTyped' /\ JobsTyped'
      <3>1. UNCHANGED job
        BY <1>3, <2>2 DEF Reserve, Release, Mark, Info, Verify, Report, ReportEnd, Stop
      <3>2. JobsTyped'
        BY <3>1, <1>2, JobWritten
      <3>3. \/ \E s \in Steps : Go(h, s)
            \/ Done(h)
            \/ \E s \in Steps, k \in Status : call' = [call EXCEPT ![h].step = s, ![h].info = k]
        <4>1. /\ {"attempt", "info", "project", "write", "final"} \subseteq Steps
              /\ "cancelled" \in Status /\ "unresolved" \in Status /\ provider[j] \in Status
          BY <1>2 DEF Steps, Status, Terminal, Providers
        <4>2. CASE Info(h)
          <5>1. \E k \in {"unresolved", provider[j]} :
                   call' = [call EXCEPT ![h].step = "project", ![h].info = k]
            BY <4>2 DEF Info
          <5> QED
            BY <4>1, <5>1
        <4>3. CASE Verify(h)
          <5>1. \E s \in {"project", "write"}, k \in {"cancelled", "unresolved"} :
                   call' = [call EXCEPT ![h].step = s, ![h].info = k]
            BY <4>3 DEF Verify
          <5> QED
            BY <4>1, <5>1
        <4> QED
          BY <1>3, <2>2, <4>1, <4>2, <4>3 DEF Reserve, Release, Mark, Report, ReportEnd, Stop
      <3>4. CallsTyped'
        BY <3>3, <1>1, CallDone, CallGoes, CallTold
      <3> QED
        BY <3>2, <3>4
    <2>3. Rest'
      <3>1. /\ [order EXCEPT !.dispatch = "processing"] \in Order
            /\ [order EXCEPT !.dispatch = IF @ = "processing" THEN "awaiting" ELSE @] \in Order
        BY <1>2 DEF Order
      <3>2. MarkActive(order) \in Order
        BY <1>2, Marked
      <3>3. OrderCancelled \in Order /\ OrderDelivered \in Order
        <4>1. OrderCancelled \in Order
          BY <1>2 DEF Order, OrderCancelled, Internal
        <4>2. (IF order.closed = "open" THEN "completed" ELSE order.closed)
                 \in {"open", "cancelled", "completed"}
          BY <1>2 DEF Order
        <4>3. OrderDelivered \in Order
          BY <1>2, <4>2 DEF Order, OrderDelivered, Internal
        <4> QED
          BY <4>1, <4>3
      <3>4. ASSUME Report(h)
            PROVE  order' \in Order
        <4> DEFINE o == MarkActive(order)
                   d == Shown(InternalOf(i))
        <4>1. (o.handed \/ d = "en_route") \in BOOLEAN
          OBVIOUS
        <4>2. order' \in {o, [o EXCEPT !.delivery = d, !.handed = o.handed \/ d = "en_route"]}
          BY <3>4 DEF Report
        <4> HIDE DEF o, d
        <4>3. [o EXCEPT !.delivery = d, !.handed = o.handed \/ d = "en_route"] \in Order
          BY <3>2, <1>2, <4>1 DEF Order, o, d
        <4> QED
          BY <3>2, <4>2, <4>3 DEF o
      <3>5. order' \in Order
        <4>1. CASE ReportEnd(h)
          BY <1>2, <3>3, <4>1 DEF ReportEnd
        <4>2. CASE Reserve(h) \/ Release(h) \/ Mark(h)
          BY <3>1, <3>2, <4>2 DEF Reserve, Release, Mark
        <4>3. CASE Info(h) \/ Verify(h) \/ Stop(h)
          BY <1>2, <4>3 DEF Info, Verify, Stop
        <4> QED
          BY <1>3, <3>4, <4>1, <4>2, <4>3
      <3>6. crossed' \in BOOLEAN
        <4>1. CASE Release(h) \/ Mark(h) \/ Report(h)
          BY <4>1 DEF Release, Mark, Report
        <4>2. CASE ReportEnd(h)
          BY <1>2, <4>2 DEF ReportEnd
        <4>3. CASE Reserve(h) \/ Info(h) \/ Verify(h) \/ Stop(h)
          BY <1>2, <4>3 DEF Reserve, Info, Verify, Stop
        <4> QED
          BY <1>3, <4>1, <4>2, <4>3
      <3>7. stops' \in 0..MaxStops
        <4>1. CASE Stop(h)
          BY <1>2, <4>1, DispatchAssumption DEF Stop
        <4>2. CASE ~Stop(h)
          BY <1>2, <1>3, <4>2 DEF Reserve, Release, Mark, Info, Verify, Report, ReportEnd
        <4> QED
          BY <4>1, <4>2
      <3>8. UNCHANGED provider
        BY <1>3 DEF Reserve, Release, Mark, Info, Verify, Report, ReportEnd, Stop
      <3> QED
        BY <1>2, <3>6, <3>5, <3>7, <3>8 DEF Rest
    <2> QED
      BY <2>1, <2>2, <2>3, Split
  <1>4. CASE Project(h)
    <2> DEFINE taken == Active(j) /\ row.status = Seen(h).status /\ ~order.courier
    <2>1. CASE ~taken
      <3>1. Rest'
        BY <1>2, <1>4, <2>1 DEF Project, Rest
      <3> QED
        BY <1>1, <1>4, <2>1, <3>1, Failed, Split DEF Project
    <2>2. CASE taken
      <3> DEFINE new == [row EXCEPT !.internal = InternalOf(i)]
      <3>1. new \in Job
        BY <1>2, Rows DEF Status
      <3>2. new.internal = InternalOf(i)
        BY <1>2 DEF Job
      <3>3. /\ Save(j, new) /\ (GoWith(h, "order", new) \/ GoWith(h, "write", new))
            /\ order' = [order EXCEPT !.delivery = Shown(new.internal)]
            /\ UNCHANGED <<provider, stops, crossed>>
        BY <1>4, <2>2 DEF Project
      <3> HIDE DEF new
      <3>4. JobsTyped' /\ CallsTyped'
        BY <1>1, <1>2, <3>1, <3>3, JobWritten, CallEdited DEF Steps
      <3>5. Rest'
        BY <1>2, <3>2, <3>3 DEF Rest, Order
      <3> QED
        BY <3>4, <3>5, Split
    <2> QED
      BY <2>1, <2>2
  <1>5. CASE Create(h)
    <2>1. Created(j) \in Live \cup Terminal /\ Created(j) \in Status /\ Created(j) \in Providers
      BY <1>2 DEF Created, Providers, Live, Status
    <2>2. JobsTyped'
      BY <1>2, <1>5, JobWritten DEF Create
    <2>3. CallsTyped'
      <3>1. {"bind", "doubt", "refuse"} \subseteq Steps
        BY DEF Steps
      <3>2. \/ call' = [call EXCEPT ![h].step = "bind", ![h].info = Created(j), ![h].seen = NoJob]
            \/ Go(h, "doubt")
            \/ Forget(h, "refuse")
        BY <1>5 DEF Create
      <3> QED
        BY <1>1, <1>2, <2>1, <3>1, <3>2, CallEdited
    <2>4. Rest'
      BY <1>2, <1>5, <2>1 DEF Create, Rest
    <2> QED
      BY <2>2, <2>3, <2>4, Split
  <1>6. CASE \/ GiveBack(h) \/ Attempt(h) \/ Exhaust(h) \/ Bind(h) \/ Doubt(h) \/ Refuse(h)
             \/ WriteJob(h) \/ Finish(h)
    <2>1. Rest'
      BY <1>2, <1>6 DEF GiveBack, Attempt, Exhaust, Bind, Doubt, Refuse, WriteJob, Finish, Rest
    <2>2. CASE Fail(h)
      BY <1>1, <2>1, <2>2, Failed, Split
    <2>3. ASSUME \/ UNCHANGED job
                 \/ \E new \in Job : Save(j, new),
                 \/ Done(h)
                 \/ \E s \in Steps : Go(h, s) \/ Forget(h, s)
                 \/ \E s \in Steps, new \in Job :
                       \/ GoWith(h, s, new)
                       \/ call' = [call EXCEPT ![h].step = s, ![h].seen = new, ![h].saves = TRUE]
          PROVE  Typed'
      <3>1. JobsTyped'
        BY <1>2, <2>3, JobWritten
      <3>2. CallsTyped'
        BY <1>1, <2>3, CallDone, CallGoes, CallGoesWith
      <3> QED
        BY <2>1, <3>1, <3>2, Split
    <2>4. /\ {"create", "mark", "release", "report"} \subseteq Steps
          /\ {"quoted", "creating_exhausted", "creating_uncertain", "draft", "attaching"} \subseteq Status
          /\ TRUE \in BOOLEAN /\ FALSE \in BOOLEAN
      BY DEF Steps, Status, Local, Retried
    <2>5. CASE GiveBack(h)
      <3>1. [row EXCEPT !.status = "quoted", !.attempts = 0] \in Job
        BY <1>2, <2>4, Rows
      <3> QED
        BY <3>1, <2>3, <2>5 DEF GiveBack
    <2>6. CASE Attempt(h)
      <3>1. CASE Current(h)
        <4>1. ~Spent(row)
          BY <2>6, <3>1 DEF Attempt, Current, Spent, Seen
        <4>2. Attempted(row) \in Job
          BY <1>2, <4>1, AttemptedRow
        <4> QED
          BY <2>3, <2>4, <2>6, <3>1, <4>2 DEF Attempt
      <3> QED
        BY <2>2, <2>6, <3>1 DEF Attempt
    <2>7. CASE Exhaust(h) \/ Doubt(h)
      <3>1. \A s \in {"creating_exhausted", "creating_uncertain"} :
               [row EXCEPT !.status = s, !.error = FALSE] \in Job
        BY <1>2, <2>4, Rows
      <3>2. Fail(h) \/ (Done(h) /\ \E s \in {"creating_exhausted", "creating_uncertain"} :
                                      Save(j, [row EXCEPT !.status = s, !.error = FALSE]))
        BY <2>7 DEF Exhaust, Doubt
      <3> QED
        BY <2>2, <2>3, <3>1, <3>2
    <2>8. CASE Bind(h)
      <3> DEFINE s == IF i \in Terminal THEN "attaching" ELSE i
                 new == [row EXCEPT !.status = s, !.claim = TRUE, !.attempts = 0,
                                    !.internal = InternalOf(s), !.error = FALSE]
      <3>1. s \in Status /\ InternalOf(s) \in Internal
        BY <1>2, <2>4, Constants
      <3> HIDE DEF s
      <3>2. new \in Job
        BY <1>2, <2>4, <3>1, Rows
      <3> HIDE DEF new
      <3>3. \/ Fail(h)
            \/ Go(h, "release") /\ UNCHANGED job
            \/ /\ Save(j, new)
               /\ call' = [call EXCEPT ![h].step = "mark", ![h].seen = new, ![h].saves = TRUE]
        BY <2>8 DEF Bind, new, s
      <3> QED
        BY <2>2, <2>3, <2>4, <3>2, <3>3
    <2>9. CASE Refuse(h)
      <3>1. [row EXCEPT !.status = "draft", !.attempts = 0, !.error = FALSE] \in Job
        BY <1>2, <2>4, Rows
      <3> QED
        BY <2>3, <2>4, <2>9, <3>1 DEF Refuse
    <2>10. CASE WriteJob(h)
      <3> DEFINE new == [row EXCEPT !.status = i, !.internal = InternalOf(i), !.error = FALSE]
      <3>1. new \in Job
        BY <1>2, <2>4, Rows
      <3>2. Fail(h) \/ (Save(j, new) /\ Forget(h, "report"))
        BY <2>10 DEF WriteJob
      <3> HIDE DEF new
      <3> QED
        BY <2>2, <2>3, <2>4, <3>1, <3>2
    <2>11. CASE Finish(h)
      <3> DEFINE new == IF Seen(h).status \in Terminal
                        THEN IF Seen(h).error THEN [row EXCEPT !.error = FALSE] ELSE row
                        ELSE Ended(row, i)
      <3>1. new \in Job
        <4>1. [row EXCEPT !.error = FALSE] \in Job /\ Ended(row, i) \in Job
          BY <1>2, <2>4, Rows DEF Ended
        <4> QED
          BY <1>2, <4>1
      <3>2. Fail(h) \/ (Save(j, new) /\ Done(h))
        BY <2>11 DEF Finish
      <3> HIDE DEF new
      <3> QED
        BY <2>2, <2>3, <3>1, <3>2
    <2> QED
      BY <1>6, <2>5, <2>6, <2>7, <2>8, <2>9, <2>10, <2>11
  <1> QED
    BY <1>3, <1>4, <1>5, <1>6 DEF Work

LEMMA TypesKeep ==
    ASSUME Typed, [Next]_vars
    PROVE  Typed'
  <1>1. CASE UNCHANGED vars
    BY <1>1 DEF vars, Typed, TypeOK, Pointed
  <1>2. CASE Next
    BY <1>2, TypedQuotes, TypedWork, TypedStart, TypedEdit, TypedOrder DEF Next, Tick
  <1> QED
    BY <1>1, <1>2

\* TypeOK: rows, calls and the provider's orders stay within what their columns and
\* steps allow, whatever the faults: no attempt is counted beyond the limit.
THEOREM TypeCorrect == Spec => []TypeOK
  <1>1. Init => Typed
    BY Starts
  <1>2. Typed /\ [Next]_vars => Typed'
    BY TypesKeep
  <1>3. Typed => TypeOK
    BY DEF Typed
  <1> QED
    BY <1>1, <1>2, <1>3, PTL DEF Spec

-------------------------------------------------------------------------------
(* One job at a time, and none beside another courier or a closed order.          *)

OneActive == \A j, k \in Jobs : Active(j) /\ Active(k) => j = k
ClosedOK == order.courier \/ order.closed = "cancelled" => NoActiveJob
Exclusive == OneActive /\ ClosedOK

SameHolder == order'.courier = order.courier /\ (order'.closed = "cancelled" => order.closed = "cancelled")
MayWrite(j, new) == new.status = job[j].status \/ CanWrite(j, new.status)

\* What the database lets a row become active for.
LEMMA WrittenKeeps ==
    ASSUME Typed, Exclusive, SameHolder, NEW j \in Jobs, NEW new \in Job, Save(j, new),
           MayWrite(j, new)
    PROVE  Exclusive'
  <1>1. job'[j] = new /\ \A k \in Jobs \ {j} : job'[k] = job[k]
    BY DEF Save, Typed, TypeOK
  <1>2. \A k \in Jobs \ {j} : Active(k)' <=> Active(k)
    BY <1>1 DEF Active
  <1>3. Active(j)' => \/ Active(j)
                      \/ OnlyJob(j) /\ ~order.courier /\ order.closed = "open"
    BY <1>1 DEF Active, MayWrite, CanWrite, MayReserve, KeepsItems
  <1>4. OneActive'
    BY <1>2, <1>3 DEF Exclusive, OneActive, OnlyJob
  <1>5. ClosedOK'
    BY <1>2, <1>3 DEF Exclusive, ClosedOK, NoActiveJob, SameHolder
  <1> QED
    BY <1>4, <1>5 DEF Exclusive

LEMMA UnwrittenKeeps ==
    ASSUME Exclusive, SameHolder \/ NoActiveJob, UNCHANGED job
    PROVE  Exclusive'
  <1>1. \A k \in Jobs : Active(k)' <=> Active(k)
    BY DEF Active
  <1> QED
    BY <1>1 DEF Exclusive, OneActive, ClosedOK, NoActiveJob, SameHolder

LEMMA FailExcludes ==
    ASSUME Typed, Exclusive, SameHolder, NEW h \in Calls, call[h].step # "idle", Fail(h)
    PROVE  Exclusive'
  <1> DEFINE j == call[h].job
             new == [job[j] EXCEPT !.error = TRUE]
  <1>1. j \in Jobs /\ job[j] \in Job /\ job = [k \in Jobs |-> job[k]]
    BY Parts DEF Typed, TypeOK
  <1>2. new \in Job /\ new.status = job[j].status
    <2>1. new \in Job
      BY <1>1, Rows DEF Status, Internal
    <2> QED
      BY <1>1, <2>1 DEF Job
  <1>3. UNCHANGED job \/ Save(j, new)
    BY <1>1 DEF Fail, Save
  <1> HIDE DEF new, j
  <1> QED
    BY <1>1, <1>2, <1>3, WrittenKeeps, UnwrittenKeeps DEF MayWrite

LEMMA HolderKept ==
    ASSUME Typed,
           \/ \E j \in Jobs : NewJob(j) \/ Quote(j) \/ Move(j)
           \/ \E h \in Calls : Work(h) \/ Stop(h)
           \/ \E h \in Calls, j \in Jobs :
                 \/ Tick(h, j) \/ Expire(h, j) \/ Begin(h, j) \/ CancelLocal(h, j) \/ Cancel(h, j)
                 \/ ResolveItems(h, j) \/ Attach(h, j) \/ NotCreated(h, j)
           \/ Requeue
    PROVE  SameHolder
  <1>1. order \in Order
    BY DEF Typed, TypeOK
  <1>2. CASE UNCHANGED order
    BY <1>2 DEF SameHolder
  <1>3. CASE \E j \in Jobs : NewJob(j) \/ Quote(j) \/ Move(j)
    BY <1>2, <1>3 DEF NewJob, Quote, Move
  <1>4. CASE \/ Requeue
             \/ \E h \in Calls, j \in Jobs :
                   \/ Tick(h, j) \/ Expire(h, j) \/ Begin(h, j) \/ CancelLocal(h, j) \/ Cancel(h, j)
                   \/ ResolveItems(h, j) \/ Attach(h, j) \/ NotCreated(h, j)
    <2>1. CASE UNCHANGED order
      BY <2>1, <1>2
    <2>2. CASE \E d \in {"processing", "awaiting"} : order' = [order EXCEPT !.dispatch = d]
      BY <1>1, <2>2 DEF SameHolder, Order
    <2> QED
      <3>1. CASE Requeue
        BY <3>1, <2>2 DEF Requeue
      <3>2. ASSUME NEW h \in Calls, NEW j \in Jobs, Retry(h, j)
            PROVE  SameHolder
        BY <3>2, <2>2 DEF Retry
      <3>3. ASSUME NEW h \in Calls, NEW j \in Jobs,
                   \/ Sync(h, j) \/ ResumeNotCreated(h, j)
                   \/ Expire(h, j) \/ Begin(h, j) \/ CancelLocal(h, j) \/ Cancel(h, j)
                   \/ ResolveItems(h, j) \/ Attach(h, j) \/ NotCreated(h, j)
            PROVE  SameHolder
        <4>1. UNCHANGED order
          BY <3>3 DEF Sync, ResumeNotCreated, Expire, Begin, CancelLocal, Cancel, ResolveItems,
                      Attach, NotCreated
        <4> QED
          BY <2>1, <4>1
      <3> QED
        BY <1>4, <3>1, <3>2, <3>3 DEF Tick
  <1>5. ASSUME NEW h \in Calls, Work(h) \/ Stop(h)
        PROVE  SameHolder
    <2>1. CASE Reserve(h) \/ Release(h)
      BY <1>1, <2>1 DEF Reserve, Release, SameHolder, Order
    <2>2. CASE Mark(h)
      BY <1>1, <2>2 DEF Mark, MarkActive, SameHolder, Order
    <2>3. CASE Project(h)
      <3>1. CASE UNCHANGED order
        BY <3>1, <1>2
      <3>2. CASE \E d : order' = [order EXCEPT !.delivery = d]
        BY <1>1, <3>2 DEF SameHolder, Order
      <3> QED
        BY <2>3, <3>1, <3>2 DEF Project
    <2>4. CASE Report(h)
      <3> DEFINE o == MarkActive(order)
      <3>1. o.courier = order.courier /\ o.closed = order.closed /\ o \in Order
        BY <1>1, Marked DEF MarkActive, Order
      <3>2. order' = o \/ \E d, b : order' = [o EXCEPT !.delivery = d, !.handed = b]
        BY <2>4 DEF Report
      <3> HIDE DEF o
      <3> QED
        BY <3>1, <3>2 DEF SameHolder, Order
    <2>5. CASE ReportEnd(h)
      <3>1. order' \in {order, OrderCancelled, OrderDelivered}
        BY <2>5 DEF ReportEnd
      <3> QED
        BY <1>1, <3>1 DEF OrderCancelled, OrderDelivered, SameHolder, Order
    <2>6. CASE UNCHANGED order
      BY <2>6, <1>2
    <2> QED
      BY <1>5, <2>1, <2>2, <2>3, <2>4, <2>5, <2>6
      DEF Work, Stop, GiveBack, Attempt, Exhaust, Create, Bind, Doubt, Refuse, Info, Verify,
          WriteJob, Finish
  <1> QED
    BY <1>3, <1>4, <1>5

\* Steps that write no job leave the exclusion to the holder.
LEMMA QuotesExclude ==
    ASSUME Typed, Exclusive, NEW j \in Jobs, NewJob(j) \/ Quote(j) \/ Move(j)
    PROVE  Exclusive'
  <1>1. SameHolder
    BY HolderKept
  <1>2. CASE Move(j)
    BY <1>1, <1>2, UnwrittenKeeps DEF Move
  <1>3. CASE NewJob(j)
    <2> DEFINE new == [NoJob EXCEPT !.status = "draft"]
    <2>1. new \in Job /\ new.status = "draft" /\ Save(j, new)
      BY <1>3, Constants DEF NewJob, NoJob
    <2>2. CanWrite(j, "draft")
      BY <1>3 DEF NewJob, CanWrite, OnlyJob, NoActiveJob
    <2> HIDE DEF new
    <2> QED
      BY <1>1, <2>1, <2>2, WrittenKeeps DEF MayWrite
  <1>4. CASE Quote(j)
    <2> DEFINE new == [NoJob EXCEPT !.status = "quoted"]
    <2>1. new \in Job /\ new.status = "quoted" /\ Save(j, new)
      BY <1>4, Constants DEF Quote, NoJob
    <2>2. CanWrite(j, "quoted")
      BY <1>4 DEF Quote, CanWrite, Active, Terminal
    <2> HIDE DEF new
    <2> QED
      BY <1>1, <2>1, <2>2, WrittenKeeps DEF MayWrite
  <1> QED
    BY <1>2, <1>3, <1>4

LEMMA EditsExclude ==
    ASSUME Typed, Exclusive, NEW h \in Calls, NEW j \in Jobs,
           \/ Tick(h, j) \/ Expire(h, j) \/ Begin(h, j) \/ CancelLocal(h, j) \/ Cancel(h, j)
           \/ ResolveItems(h, j) \/ Attach(h, j) \/ NotCreated(h, j)
    PROVE  Exclusive'
  <1>1. SameHolder
    BY HolderKept
  <1>2. job[j] \in Job
    BY Parts
  <1>3. ASSUME NEW new \in Job, Save(j, new), new.status \in Terminal \/ Active(j)
        PROVE  Exclusive'
    BY <1>1, <1>3, WrittenKeeps DEF MayWrite, CanWrite
  <1>4. CASE Tick(h, j) \/ Cancel(h, j)
    BY <1>1, <1>4, UnwrittenKeeps DEF Tick, Retry, Sync, ResumeNotCreated, Cancel
  <1>5. CASE Expire(h, j) \/ CancelLocal(h, j)
    <2>1. PICK i \in Internal, e \in BOOLEAN : Save(j, Closing(job[j], "cancelled", i, e))
      <3>1. InternalOf("cancelled") \in Internal /\ "cancelled" \in Internal
        BY Constants DEF Status, Terminal, Internal
      <3> QED
        BY <1>5, <3>1 DEF Expire, CancelLocal, Closing, Ended
    <2>2. "cancelled" \in Status /\ "cancelled" \in Terminal
      BY DEF Status, Terminal
    <2>3. /\ Closing(job[j], "cancelled", i, e) \in Job
          /\ Closing(job[j], "cancelled", i, e).status = "cancelled"
      BY <1>2, <2>2, Closings
    <2> QED
      BY <1>3, <2>1, <2>2, <2>3
  <1>6. CASE Begin(h, j) \/ ResolveItems(h, j)
    <2>1. PICK s \in Status : Save(j, [job[j] EXCEPT !.status = s])
      BY <1>6 DEF Begin, ResolveItems, Status, Retried
    <2>2. [job[j] EXCEPT !.status = s] \in Job
      BY <1>2, Rows DEF Internal
    <2>3. Active(j)
      BY <1>6 DEF Begin, ResolveItems, Active, Terminal
    <2> QED
      BY <1>3, <2>1, <2>2, <2>3
  <1>7. CASE Attach(h, j) \/ NotCreated(h, j)
    <2>1. Active(j)
      BY <1>7 DEF Attach, NotCreated, Active, Terminal
    <2>2. /\ [job[j] EXCEPT !.status = "attaching", !.claim = TRUE, !.attempts = 0,
                            !.internal = "unassigned"] \in Job
          /\ [job[j] EXCEPT !.status = "not_created", !.internal = "unassigned"] \in Job
      BY <1>2, Rows DEF Status, Internal
    <2> QED
      BY <1>3, <1>7, <2>1, <2>2 DEF Attach, NotCreated
  <1> QED
    BY <1>4, <1>5, <1>6, <1>7

LEMMA WorkExcludes ==
    ASSUME Typed, Consistent, Exclusive, NEW h \in Calls, Work(h) \/ Stop(h)
    PROVE  Exclusive'
  <1> DEFINE j == call[h].job
             row == job[j]
             i == call[h].info
  <1>1. SameHolder
    BY HolderKept
  <1>2. call[h].step # "idle"
    BY DEF Work, Stop, At, Reserve, GiveBack, Attempt, Exhaust, Create, Bind, Doubt, Refuse,
           Release, Mark, Info, Verify, Project, WriteJob, Report, ReportEnd, Finish
  <1>3. /\ j \in Jobs /\ call[h] \in Call /\ row \in Job /\ i \in Status
        /\ CallOK(call[h], row, provider[j]) /\ InternalOf(i) \in Internal
    BY <1>2, Here, Parts, Constants
  <1>4. CASE Fail(h)
    BY <1>1, <1>2, <1>4, FailExcludes
  <1>5. CASE UNCHANGED job
    BY <1>1, <1>5, UnwrittenKeeps
  <1>6. ASSUME NEW new \in Job, Save(j, new), MayWrite(j, new)
        PROVE  Exclusive'
    BY <1>1, <1>3, <1>6, WrittenKeeps
  <1>7. CASE GiveBack(h)
    <2> DEFINE new == [row EXCEPT !.status = "quoted", !.attempts = 0]
    <2>1. new \in Job
      BY <1>3, Rows DEF Status, Local, Internal
    <2>2. (Save(j, new) /\ Active(j)) \/ UNCHANGED job
      BY <1>7 DEF GiveBack, Active, Terminal
    <2> HIDE DEF new
    <2> QED
      BY <1>5, <1>6, <2>1, <2>2 DEF MayWrite, CanWrite
  <1>8. CASE Attempt(h)
    <2>1. CASE Current(h)
      <3>1. ~Spent(row)
        BY <1>8, <2>1 DEF Attempt, Current, Spent, Seen
      <3>2. Attempted(row) \in Job /\ Attempted(row).status = row.status
        BY <1>3, <3>1, AttemptedRow
      <3> QED
        BY <1>6, <1>8, <2>1, <3>2 DEF Attempt, MayWrite
    <2> QED
      BY <1>4, <1>8, <2>1 DEF Attempt
  <1>9. CASE Exhaust(h) \/ Doubt(h)
    <2>1. \/ Fail(h)
          \/ \E s \in {"creating_exhausted", "creating_uncertain"} :
                CanWrite(j, s) /\ Save(j, [row EXCEPT !.status = s, !.error = FALSE])
      BY <1>9 DEF Exhaust, Doubt
    <2>2. ASSUME NEW s \in {"creating_exhausted", "creating_uncertain"}, CanWrite(j, s),
                 Save(j, [row EXCEPT !.status = s, !.error = FALSE])
          PROVE  Exclusive'
      <3> DEFINE new == [row EXCEPT !.status = s, !.error = FALSE]
      <3>1. new \in Job
        BY <1>3, Rows DEF Status, Retried, Internal
      <3>2. new.status = s
        BY <1>3 DEF Job
      <3> HIDE DEF new
      <3> QED
        BY <1>6, <2>2, <3>1, <3>2 DEF MayWrite, new
    <2> QED
      BY <1>4, <2>1, <2>2
  <1>10. CASE Bind(h)
    <2> DEFINE s == IF i \in Terminal THEN "attaching" ELSE i
               new == [row EXCEPT !.status = s, !.claim = TRUE, !.attempts = 0,
                                  !.internal = InternalOf(s), !.error = FALSE]
    <2>1. s \in Status /\ InternalOf(s) \in Internal
      BY <1>3, Constants DEF Status
    <2>2. Fail(h) \/ UNCHANGED job \/ (Save(j, new) /\ CanWrite(j, s))
      BY <1>10 DEF Bind
    <2> HIDE DEF s
    <2>3. new \in Job
      BY <1>3, <2>1, Rows
    <2>4. new.status = s
      BY <1>3 DEF Job
    <2> HIDE DEF new
    <2> QED
      BY <1>4, <1>5, <1>6, <2>2, <2>3, <2>4 DEF MayWrite
  <1>11. CASE Refuse(h)
    <2> DEFINE new == [row EXCEPT !.status = "draft", !.attempts = 0, !.error = FALSE]
    <2>1. new \in Job
      BY <1>3, Rows DEF Status, Local, Internal
    <2>2. new.status = "draft"
      BY <1>3 DEF Job
    <2>3. UNCHANGED job \/ (Save(j, new) /\ CanWrite(j, "draft"))
      BY <1>11 DEF Refuse
    <2> HIDE DEF new
    <2> QED
      BY <1>5, <1>6, <2>1, <2>2, <2>3 DEF MayWrite
  <1>12. CASE Project(h)
    <2> DEFINE new == [row EXCEPT !.internal = InternalOf(i)]
    <2>1. new \in Job
      BY <1>3, Rows DEF Status
    <2>2. new.status = row.status
      BY <1>3 DEF Job
    <2>3. Fail(h) \/ Save(j, new)
      BY <1>12 DEF Project
    <2> HIDE DEF new
    <2> QED
      BY <1>4, <1>6, <2>1, <2>2, <2>3 DEF MayWrite
  <1>13. CASE WriteJob(h) \/ Finish(h)
    <2> DEFINE new == Closing(row, i, InternalOf(i), FALSE)
    <2>1. new \in Job /\ new.status = i
      BY <1>3, Closings
    <2> HIDE DEF new
    <2>2. CASE WriteJob(h)
      <3>1. Fail(h) \/ (Save(j, new) /\ CanWrite(j, i))
        BY <2>2 DEF WriteJob, new, Closing
      <3> QED
        BY <1>4, <1>6, <2>1, <3>1 DEF MayWrite
    <2>3. CASE Finish(h)
      <3>1. i \in Terminal
        BY <1>3, <2>3 DEF Finish, At, CallOK
      <3> DEFINE kept == [row EXCEPT !.error = FALSE]
      <3>2. kept \in Job
        BY <1>3, Rows DEF Status, Internal
      <3>3. kept.status = row.status
        BY <1>3 DEF Job
      <3>4. Fail(h) \/ Save(j, kept) \/ Save(j, row) \/ Save(j, new)
        BY <2>3 DEF Finish, Ended, new, Closing
      <3> HIDE DEF kept, row
      <3>5. row \in Job /\ row.status = job[j].status
        BY <1>3 DEF row
      <3> QED
        BY <1>4, <1>6, <2>1, <3>1, <3>2, <3>3, <3>4, <3>5 DEF MayWrite, CanWrite
    <2> QED
      BY <1>13, <2>2, <2>3
  <1>14. CASE \/ Reserve(h) \/ Create(h) \/ Release(h) \/ Mark(h) \/ Info(h) \/ Verify(h)
              \/ Report(h) \/ ReportEnd(h) \/ Stop(h)
    BY <1>4, <1>5, <1>14
    DEF Reserve, Create, Release, Mark, Info, Verify, Report, ReportEnd, Stop
  <1> QED
    BY <1>7, <1>8, <1>9, <1>10, <1>11, <1>12, <1>13, <1>14 DEF Work

LEMMA ExclusionKeeps ==
    ASSUME Typed, Consistent, Exclusive, [Next]_vars
    PROVE  Exclusive'
  <1>1. CASE UNCHANGED vars
    BY <1>1, UnwrittenKeeps DEF vars, SameHolder
  <1>2. CASE CloseOrder \/ AssignInternal
    BY <1>2, UnwrittenKeeps DEF CloseOrder, AssignInternal, MayClose
  <1>3. CASE Requeue
    BY <1>3, HolderKept, UnwrittenKeeps DEF Requeue
  <1> QED
    BY <1>1, <1>2, <1>3, QuotesExclude, EditsExclude, WorkExcludes DEF Next

-------------------------------------------------------------------------------
(* The theorems.                                                                *)

DispatchInv == Typed /\ Consistent /\ Exclusive

LEMMA DispatchInvariant ==
    ASSUME Faults = {}
    PROVE  Spec => []DispatchInv
  <1>1. Init => DispatchInv
    <2>1. Init => Exclusive
      BY DEF Init, NoJob, Exclusive, OneActive, ClosedOK, NoActiveJob, Active
    <2> QED
      BY <2>1, Starts DEF DispatchInv
  <1>2. DispatchInv /\ [Next]_vars => DispatchInv'
    BY TypesKeep, StepKeeps, ExclusionKeeps DEF DispatchInv
  <1> QED
    BY <1>1, <1>2, PTL DEF Spec

\* A courier on the way has an active job.
LEMMA OnTheWayActive ==
    ASSUME DispatchInv, NEW j \in Jobs, OnTheWay(j)
    PROVE  Active(j)
  BY DEF DispatchInv, Consistent, JobsOK, JobOK, OnTheWay, Active

\* OneCourier: an order never has two couriers of the provider, nor one beside
\* its own, for any number of requests, workers, jobs, attempts and stops.
THEOREM OneCourierOnly ==
    ASSUME Faults = {}
    PROVE  Spec => []OneCourier
  <1>1. DispatchInv => OneCourier
    BY OnTheWayActive DEF DispatchInv, Exclusive, OneActive, ClosedOK, NoActiveJob, OneCourier
  <1> QED
    BY <1>1, DispatchInvariant, PTL

\* CourierEndsBeforeRefund: an order is cancelled or refunded only when no courier
\* of the provider is on the way, and none sets out afterwards.
THEOREM RefundWaits ==
    ASSUME Faults = {}
    PROVE  Spec => []CourierEndsBeforeRefund
  <1>1. DispatchInv => CourierEndsBeforeRefund
    BY OnTheWayActive DEF DispatchInv, Exclusive, ClosedOK, NoActiveJob, CourierEndsBeforeRefund
  <1> QED
    BY <1>1, DispatchInvariant, PTL
-------------------------------------------------------------------------------
(* The promise.                                                                 *)

Away == {j \in Jobs : OnTheWay(j)} \cup (IF order.courier THEN {0} ELSE {})
Back == {j \in Jobs : provider[j] \in Terminal}

\* 0 stands for the bakery's own courier.
Courier == INSTANCE CourierOnce WITH
    Couriers <- Jobs \cup {0}, Own <- 0,
    away <- Away, back <- Back, refunded <- (order.closed = "cancelled")

\* The provider's order under one job is created, moves on, or ends.
Trip(j) ==
    \E p \in Providers :
        /\ provider' = [provider EXCEPT ![j] = p]
        /\ \/ p = provider[j]
           \/ provider[j] = "none" /\ p \in Live
           \/ provider[j] \in Live /\ p # "none"

\* Every step either leaves the provider alone or leaves the order alone.
LEMMA TripOrRow ==
    ASSUME Typed, Next
    PROVE  \/ UNCHANGED provider
           \/ UNCHANGED order /\ \E j \in Jobs : Trip(j)
  <1>1. ASSUME NEW j \in Jobs, Move(j) PROVE UNCHANGED order /\ Trip(j)
    BY <1>1 DEF Move, Trip, Providers, Live, Terminal
  <1>2. ASSUME NEW h \in Calls, NEW j \in Jobs, Cancel(h, j) PROVE UNCHANGED order /\ Trip(j)
    BY <1>2 DEF Cancel, Trip, Providers, Live, Terminal
  <1>3. ASSUME NEW h \in Calls, Create(h)
        PROVE  UNCHANGED order /\ \E j \in Jobs : Trip(j)
    <2> DEFINE j == call[h].job
    <2>1. j \in Jobs /\ provider[j] \in Providers
      BY <1>3, Parts DEF Create, At
    <2>2. provider = [provider EXCEPT ![j] = provider[j]]
      BY <2>1 DEF Typed, TypeOK
    <2>3. \E p \in {provider[j], Created(j)} : provider' = [provider EXCEPT ![j] = p]
      BY <1>3, <2>2 DEF Create
    <2>4. Created(j) = provider[j] \/ (provider[j] = "none" /\ Created(j) = "search")
      BY DEF Created
    <2> HIDE DEF j
    <2>5. Trip(j)
      BY <2>1, <2>3, <2>4 DEF Trip, Providers, Live
    <2> QED
      BY <1>3, <2>1, <2>5 DEF Create
  <1>4. ASSUME NEW h \in Calls, Work(h), ~Create(h) PROVE UNCHANGED provider
    BY <1>4
    DEF Work, Reserve, GiveBack, Attempt, Exhaust, Bind, Doubt, Refuse, Release, Mark,
        Info, Verify, Project, WriteJob, Report, ReportEnd, Finish
  <1>5. ASSUME NEW h \in Calls, NEW j \in Jobs,
               \/ Tick(h, j) \/ Expire(h, j) \/ Begin(h, j) \/ CancelLocal(h, j)
               \/ ResolveItems(h, j) \/ Attach(h, j) \/ NotCreated(h, j)
        PROVE  UNCHANGED provider
    BY <1>5
    DEF Tick, Retry, Sync, ResumeNotCreated, Expire, Begin, CancelLocal, ResolveItems,
        Attach, NotCreated
  <1>6. ASSUME NEW j \in Jobs, NewJob(j) \/ Quote(j) PROVE UNCHANGED provider
    BY <1>6 DEF NewJob, Quote
  <1>7. ASSUME NEW h \in Calls, Stop(h) PROVE UNCHANGED provider
    BY <1>7 DEF Stop
  <1>8. CASE CloseOrder \/ AssignInternal \/ Requeue
    BY <1>8 DEF CloseOrder, AssignInternal, Requeue
  <1> QED
    BY <1>1, <1>2, <1>3, <1>4, <1>5, <1>6, <1>7, <1>8 DEF Next

\* Only AssignInternal gives the order a courier of its own, only CloseOrder
\* refunds it, and neither is ever taken back.
LEMMA RowKeeps ==
    ASSUME Typed, Next
    PROVE  \/ CloseOrder \/ AssignInternal
           \/ /\ order'.courier = order.courier
              /\ (order'.closed = "cancelled") <=> (order.closed = "cancelled")
  <1>1. order \in Order
    BY DEF Typed, TypeOK
  <1>2. ASSUME NEW h \in Calls, Work(h)
        PROVE  /\ order'.courier = order.courier
               /\ (order'.closed = "cancelled") <=> (order.closed = "cancelled")
    <2>1. CASE UNCHANGED order
      BY <2>1
    <2>2. CASE Reserve(h) \/ Release(h) \/ Mark(h)
      BY <1>1, <2>2 DEF Reserve, Release, Mark, MarkActive, Order
    <2>3. CASE Project(h)
      BY <1>1, <2>3 DEF Project, Order
    <2>4. CASE Report(h)
      BY <1>1, <2>4 DEF Report, MarkActive, Order
    <2>5. CASE ReportEnd(h)
      BY <1>1, <2>5 DEF ReportEnd, OrderCancelled, OrderDelivered, Order
    <2> QED
      BY <1>2, <2>1, <2>2, <2>3, <2>4, <2>5
      DEF Work, GiveBack, Attempt, Exhaust, Create, Bind, Doubt, Refuse, Info, Verify,
          WriteJob, Finish
  <1>3. ASSUME NEW h \in Calls, NEW j \in Jobs, Tick(h, j)
        PROVE  /\ order'.courier = order.courier /\ order'.closed = order.closed
    BY <1>1, <1>3 DEF Tick, Retry, Sync, ResumeNotCreated, Order
  <1>4. ASSUME NEW h \in Calls, NEW j \in Jobs,
               \/ Expire(h, j) \/ Begin(h, j) \/ CancelLocal(h, j) \/ Cancel(h, j)
               \/ ResolveItems(h, j) \/ Attach(h, j) \/ NotCreated(h, j)
        PROVE  UNCHANGED order
    BY <1>4 DEF Expire, Begin, CancelLocal, Cancel, ResolveItems, Attach, NotCreated
  <1>5. ASSUME NEW j \in Jobs, NewJob(j) \/ Quote(j) \/ Move(j) PROVE UNCHANGED order
    BY <1>5 DEF NewJob, Quote, Move
  <1>6. ASSUME NEW h \in Calls, Stop(h) PROVE UNCHANGED order
    BY <1>6 DEF Stop
  <1>7. CASE Requeue
    BY <1>1, <1>7 DEF Requeue, Order
  <1> QED
    BY <1>2, <1>3, <1>4, <1>5, <1>6, <1>7 DEF Next

\* A trip begins, goes on or ends as promised.
LEMMA TripStep ==
    ASSUME Typed, OneCourier', CourierEndsBeforeRefund', UNCHANGED order,
           NEW j \in Jobs, Trip(j)
    PROVE  [Courier!TripsNext]_(Courier!trips)
  <1>1. PICK p \in Providers :
          /\ provider' = [provider EXCEPT ![j] = p]
          /\ \/ p = provider[j]
             \/ provider[j] = "none" /\ p \in Live
             \/ provider[j] \in Live /\ p # "none"
    BY DEF Trip
  <1>2. /\ provider \in [Jobs -> Providers] /\ provider'[j] = p /\ 0 \notin Jobs
        /\ \A k \in Jobs \ {j} : provider'[k] = provider[k]
    BY <1>1 DEF Typed, TypeOK, Providers, Jobs
  <1>3. CASE \/ p = provider[j]
             \/ provider[j] \in Live /\ p \in Live
    <2>1. Away' = Away /\ Back' = Back
      BY <1>2, <1>3 DEF Away, Back, OnTheWay, Live, Terminal
    <2> QED
      BY <2>1 DEF Courier!trips
  <1>4. CASE provider[j] = "none" /\ p \in Live
    <2>1. OnTheWay(j)' /\ ~OnTheWay(j)
      BY <1>2, <1>4 DEF OnTheWay, Live
    <2>2. Away' = {j} /\ Away = {} /\ order.closed # "cancelled"
      BY <1>2, <2>1 DEF Away, OneCourier, CourierEndsBeforeRefund, OnTheWay
    <2>3. Back' = Back /\ j \notin Back
      BY <1>2, <1>4 DEF Back, Live, Terminal
    <2>4. Courier!SetOut(j)
      BY <2>2, <2>3 DEF Courier!SetOut
    <2> QED
      BY <2>4 DEF Courier!TripsNext
  <1>5. CASE provider[j] \in Live /\ p \in Terminal
    <2>1. j \in Away /\ Away' = Away \ {j} /\ Back' = Back \cup {j}
      BY <1>2, <1>5 DEF Away, Back, OnTheWay, Live, Terminal
    <2>2. Courier!ComeBack(j)
      BY <2>1 DEF Courier!ComeBack
    <2> QED
      BY <2>2 DEF Courier!TripsNext
  <1> QED
    BY <1>1, <1>3, <1>4, <1>5 DEF Providers

\* CourierOnce is implemented: couriers go one at a time and once each, and none
\* sets out for an order that was refunded, whatever is retried, lost or stopped.
THEOREM CouriersKeepPromise ==
    ASSUME Faults = {}
    PROVE  Spec => Courier!TripsSpec
  <1>1. Init => Courier!TripsInit
    BY DEF Init, Courier!TripsInit, Away, Back, OnTheWay, Live, Terminal
  <1>2. ASSUME DispatchInv, OneCourier', CourierEndsBeforeRefund', [Next]_vars
        PROVE  [Courier!TripsNext]_(Courier!trips)
    <2>1. Typed /\ order \in Order /\ 0 \notin Jobs
      BY <1>2 DEF DispatchInv, Typed, TypeOK, Jobs
    <2>2. CASE UNCHANGED vars
      BY <2>2 DEF vars, Courier!trips, Away, Back, OnTheWay
    <2>3. CASE UNCHANGED order /\ \E j \in Jobs : Trip(j)
      BY <1>2, <2>1, <2>3, TripStep
    <2>4. CASE CloseOrder
      <3>1. \A j \in Jobs : ~OnTheWay(j)
        BY <1>2, <2>4, OnTheWayActive DEF CloseOrder, MayClose, NoActiveJob
      <3>2. /\ order.closed # "cancelled" /\ order'.closed = "cancelled"
            /\ order'.courier = order.courier /\ UNCHANGED provider
        BY <2>1, <2>4 DEF CloseOrder, Order
      <3>3. Away \subseteq {0} /\ Away' = Away /\ Back' = Back
        BY <3>1, <3>2 DEF Away, Back, OnTheWay
      <3>4. Courier!Refund
        BY <3>2, <3>3 DEF Courier!Refund
      <3> QED
        BY <3>4 DEF Courier!TripsNext
    <2>5. CASE AssignInternal
      <3>1. \A j \in Jobs : ~OnTheWay(j)
        BY <1>2, <2>5, OnTheWayActive DEF AssignInternal, NoActiveJob
      <3>2. /\ ~order.courier /\ order'.courier /\ UNCHANGED provider
            /\ order.closed = "open" /\ order'.closed = "open"
        BY <2>1, <2>5 DEF AssignInternal, Takeable, Order
      <3>3. Away = {} /\ Away' = {0} /\ Back' = Back /\ 0 \notin Back
        BY <2>1, <3>1, <3>2 DEF Away, Back, OnTheWay
      <3>4. Courier!SetOut(0)
        BY <3>2, <3>3 DEF Courier!SetOut
      <3> QED
        BY <3>4 DEF Courier!TripsNext
    <2>6. CASE /\ UNCHANGED provider /\ order'.courier = order.courier
               /\ (order'.closed = "cancelled") <=> (order.closed = "cancelled")
      BY <2>6 DEF Courier!trips, Away, Back, OnTheWay
    <2> QED
      BY <1>2, <2>1, <2>2, <2>3, <2>4, <2>5, <2>6, TripOrRow, RowKeeps
  <1> QED
    BY <1>1, <1>2, DispatchInvariant, OneCourierOnly, RefundWaits, PTL
    DEF Spec, Courier!TripsSpec
=============================================================================
