-------------------------- MODULE PushOutboxProofs --------------------------
(* The outbox keeps its types, and as long as no device of the customer signs    *)
(* in again no device gets a message twice, for any number of messages, devices,  *)
(* workers and attempts.                                                        *)
(*                                                                             *)
(* A device is launched for a message once a worker has written the marker over    *)
(* it and until that worker is done, and for ever once the device rang.  The       *)
(* argument is Guarded: a launched device is either in doubt, and then no claim   *)
(* selects it, or no longer pending.  It is inductive with Covered, which says     *)
(* that a marker leaves nobody else to send to, so that no second worker ever      *)
(* writes over it; that is what a returning device breaks.                       *)
EXTENDS PushOutbox, TLAPS



-------------------------------------------------------------------------------
(* Types.                                                                       *)

LEMMA RowTypes ==
    ASSUME NEW r \in Row
    PROVE  /\ \A s \in Ended \cup {"retry"} : Closed(r, s) \in Row
           /\ GiveUp(r) \in Row
           /\ \A s \in Ended \cup {"retry"} :
                 /\ Closed(r, s).pending = r.pending /\ Closed(r, s).inFlight = r.inFlight
                 /\ Closed(r, s).uncertain = r.uncertain /\ Closed(r, s).status = s
                 /\ Closed(r, s).attempts = r.attempts /\ Closed(r, s).lease = NoWorker
  BY DEF Row, Closed, GiveUp, Ended, Open

LEMMA RowEdits ==
    ASSUME NEW r \in Row
    PROVE  /\ \A D \in SUBSET Devices :
                 [r EXCEPT !.inFlight = D] \in Row /\ [r EXCEPT !.pending = D] \in Row
           /\ [r EXCEPT !.stale = TRUE] \in Row
           /\ [r EXCEPT !.attempts = IF @ = 0 THEN 0 ELSE @ - 1] \in Row
  <1>1. MaxAttempts \in Nat
    BY PushAssumption
  <1>2. (IF r.attempts = 0 THEN 0 ELSE r.attempts - 1) \in 0..MaxAttempts
    BY <1>1 DEF Row
  <1> QED
    BY <1>2 DEF Row

LEMMA BlankTypes ==
    /\ Blank \in Row
    /\ \A D \in SUBSET Devices : [Blank EXCEPT !.status = "queued", !.pending = D] \in Row
  <1>1. Blank \in Row
    BY PushAssumption DEF Blank, Row, Open, Ended
  <1>2. ASSUME NEW r \in Row, NEW D \in SUBSET Devices
        PROVE  [r EXCEPT !.status = "queued", !.pending = D] \in Row
    BY DEF Row, Open
  <1> QED
    BY <1>1, <1>2

LEMMA JobEdits ==
    ASSUME NEW j \in Job
    PROVE  /\ \A B \in SUBSET Messages : [j EXCEPT !.batch = B] \in Job
           /\ \A s \in Steps : [j EXCEPT !.step = s] \in Job
           /\ \A t \in Devices, a \in Answer : [j EXCEPT !.answer[t] = a] \in Job
           /\ \A B \in SUBSET Messages, D \in SUBSET Devices, E \in SUBSET Devices,
                 m \in Messages :
                 [j EXCEPT !.batch = B, !.msg = {m}, !.step = "mark", !.devices = D,
                           !.doubt = E] \in Job
  BY DEF Job, Steps

LEMMA IdleTypes == Idle \in Job /\ NoAnswer \in [Devices -> Answer]
  BY DEF Idle, NoAnswer, Job, Steps, Answer

\* What markDelivered leaves of a row.
LEMMA WriteResult ==
    ASSUME row \in [Messages -> Row], NEW m \in Messages,
           NEW said \in SUBSET Devices, NEW again \in SUBSET Devices,
           NEW doubt \in SUBSET Devices, Write(m, said, again, doubt)
    PROVE  /\ row' \in [Messages -> Row]
           /\ row'[m].pending \subseteq again /\ row'[m].inFlight = {}
           /\ row'[m].uncertain = doubt
           /\ row'[m].status \in Ended \cup {"retry"} /\ row'[m].lease = NoWorker
           /\ \A n \in Messages \ {m} : row'[n] = row[n]
  <1> DEFINE delivered == row[m].delivered \/ said # {}
             retry == again # {} /\ row[m].attempts < MaxAttempts
             status == CASE retry -> "retry"
                         [] ~retry /\ delivered -> "sent"
                         [] ~retry /\ ~delivered /\ again \cup doubt # {} -> "failed"
                         [] OTHER -> "skipped"
             new == [Closed(row[m], status) EXCEPT
                       !.pending = IF retry THEN again ELSE {}, !.inFlight = {},
                       !.uncertain = doubt, !.delivered = delivered]
  <1>1. row' = [row EXCEPT ![m] = new]
    BY DEF Write
  <1>2. status \in {"retry", "sent", "failed", "skipped"}
    OBVIOUS
  <1>3. status \in Ended \cup {"retry"}
    BY <1>2 DEF Ended
  <1>4. row[m] \in Row /\ Closed(row[m], status) \in Row
    BY <1>3, RowTypes
  <1>5. delivered \in BOOLEAN
    BY <1>4 DEF Row
  <1>6. /\ new.pending = (IF retry THEN again ELSE {}) /\ new.inFlight = {}
        /\ new.uncertain = doubt /\ new.status = Closed(row[m], status).status
        /\ new.lease = Closed(row[m], status).lease
    <2> HIDE DEF status, retry, delivered
    <2> QED
      BY <1>4 DEF Row
  <1>7. new \in Row
    <2> HIDE DEF status, retry, delivered
    <2> QED
      BY <1>4, <1>5 DEF Row
  <1>8. new.status = status /\ new.lease = NoWorker
    <2> HIDE DEF status, new
    <2> QED
      BY <1>3, <1>4, <1>6, RowTypes
  <1> HIDE DEF new, status
  <1> QED
    BY <1>1, <1>3, <1>6, <1>7, <1>8

LEMMA SkipResult ==
    ASSUME row \in [Messages -> Row], NEW m \in Messages, Skip(m)
    PROVE  /\ row' \in [Messages -> Row]
           /\ row'[m].pending = {} /\ row'[m].status = "skipped"
           /\ row'[m].inFlight = row[m].inFlight /\ row'[m].uncertain = row[m].uncertain
           /\ \A n \in Messages \ {m} : row'[n] = row[n]
  <1>1. Closed(row[m], "skipped") \in Row
    BY RowTypes DEF Ended
  <1>2. [Closed(row[m], "skipped") EXCEPT !.pending = {}] \in Row
    BY <1>1, RowEdits
  <1> QED
    BY <1>1, <1>2, RowTypes DEF Skip, Row, Ended

LEMMA ClaimedTypes ==
    ASSUME row \in [Messages -> Row], NEW m \in Messages, NEW w \in Workers,
           NEW batch \in SUBSET Messages, m \in batch => Claimable(m)
    PROVE  Claimed(m, w, batch) \in Row
  <1>1. row[m] \in Row /\ MaxAttempts \in Nat
    BY PushAssumption
  <1>2. [Closed(row[m], "failed") EXCEPT !.pending = {}] \in Row
    BY <1>1, RowTypes, RowEdits DEF Ended
  <1>3. ASSUME m \in batch
        PROVE  [row[m] EXCEPT !.status = "processing", !.lease = w, !.stale = FALSE,
                              !.attempts = @ + 1] \in Row
    <2>1. row[m].attempts + 1 \in 0..MaxAttempts
      BY <1>1, <1>3 DEF Claimable, Row
    <2> QED
      BY <1>1, <2>1 DEF Row, Open
  <1> QED
    BY <1>1, <1>2, <1>3 DEF Claimed

LEMMA ClaimedResult ==
    ASSUME row \in [Messages -> Row], NEW m \in Messages, NEW w \in Workers,
           NEW batch \in SUBSET Messages
    PROVE  /\ Claimed(m, w, batch).inFlight = row[m].inFlight
           /\ Claimed(m, w, batch).uncertain = row[m].uncertain
           /\ Claimed(m, w, batch).pending \subseteq row[m].pending
           /\ Claimed(m, w, batch).status = "none" => row[m].status = "none"
           /\ \/ Claimed(m, w, batch) = row[m]
              \/ Claimed(m, w, batch).lease \in {w, NoWorker}
  <1>1. row[m] \in Row
    OBVIOUS
  <1>2. CASE Exhausted(m)
    <2>1. /\ Closed(row[m], "failed") \in Row
          /\ Closed(row[m], "failed").inFlight = row[m].inFlight
          /\ Closed(row[m], "failed").uncertain = row[m].uncertain
          /\ Closed(row[m], "failed").status = "failed"
          /\ Closed(row[m], "failed").lease = NoWorker
      BY <1>1, RowTypes DEF Ended
    <2>2. Claimed(m, w, batch) = [Closed(row[m], "failed") EXCEPT !.pending = {}]
      BY <1>2 DEF Claimed
    <2> QED
      BY <2>1, <2>2 DEF Row
  <1>3. CASE ~Exhausted(m) /\ m \in batch
    BY <1>1, <1>3 DEF Claimed, Row
  <1>4. CASE ~Exhausted(m) /\ m \notin batch
    BY <1>4 DEF Claimed
  <1> QED
    BY <1>2, <1>3, <1>4

LEMMA TypeInit == Init => TypeOK
  <1> SUFFICES ASSUME Init PROVE TypeOK
    OBVIOUS
  <1>1. row \in [Messages -> Row] /\ job \in [Workers -> Job]
    BY BlankTypes, IdleTypes DEF Init
  <1>2. shown \in [Messages -> [Devices -> 0..2]]
    BY DEF Init
  <1>3. quiet \in 0..MaxQuiet /\ returns \in 0..MaxReturns
    BY PushAssumption DEF Init
  <1> QED
    BY <1>1, <1>2, <1>3 DEF Init, TypeOK

LEMMA JobSteps ==
    ASSUME TypeOK, NEW w \in Workers
    PROVE  /\ NextRow(w) => job' \in [Workers -> Job]
           /\ Abandon(w) => job' \in [Workers -> Job]
  <1>1. job[w].batch \in SUBSET Messages
    BY DEF TypeOK, Job
  <1>2. [Idle EXCEPT !.batch = job[w].batch] \in Job
    BY <1>1, IdleTypes DEF Idle, Job
  <1> QED
    BY <1>2, IdleTypes DEF TypeOK, NextRow, Abandon

LEMMA TypeStep == TypeOK /\ [Next]_vars => TypeOK'
  <1> SUFFICES ASSUME TypeOK, [Next]_vars PROVE TypeOK'
    OBVIOUS
  <1>a. /\ row \in [Messages -> Row] /\ job \in [Workers -> Job]
        /\ owned \in SUBSET Devices /\ wanted \in SUBSET Messages
        /\ shown \in [Messages -> [Devices -> 0..2]]
    BY DEF TypeOK
  <1>b. /\ \A m \in Messages :
             /\ row[m].pending \in SUBSET Devices /\ Doubt(m) \in SUBSET Devices
             /\ Recipients(m) \in SUBSET Devices
        /\ \A w \in Workers :
             /\ job[w].batch \in SUBSET Messages /\ job[w].devices \in SUBSET Devices
             /\ job[w].doubt \in SUBSET Devices
    BY <1>a DEF Row, Job, Doubt, Recipients
  <1>1. ASSUME NEW m \in Messages, Enqueue(m) PROVE TypeOK'
    <2>1. [Blank EXCEPT !.status = "queued", !.pending = owned] \in Row
      BY <1>a, BlankTypes
    <2> QED
      BY <1>1, <2>1 DEF Enqueue, TypeOK
  <1>2. ASSUME NEW w \in Workers, Claim(w) PROVE TypeOK'
    <2>1. PICK batch \in SUBSET Messages :
             /\ \A m \in batch : Claimable(m)
             /\ job' = [job EXCEPT ![w].batch = batch]
             /\ row' = [m \in Messages |-> Claimed(m, w, batch)]
      BY <1>2 DEF Claim
    <2>2. row' \in [Messages -> Row]
      BY <1>a, <2>1, ClaimedTypes
    <2> QED
      BY <1>a, <1>2, <2>1, <2>2, JobEdits DEF Claim, TypeOK
  <1>3. ASSUME NEW m \in Messages, LeaseEnds(m) PROVE TypeOK'
    BY <1>a, <1>3, RowEdits DEF LeaseEnds, TypeOK
  <1>4. ASSUME NEW w \in Workers, NEW m \in Messages, Select(w, m) PROVE TypeOK'
    <2>1. row' \in [Messages -> Row]
      <3>1. CASE Skip(m)
        BY <1>a, <3>1, SkipResult
      <3>2. CASE Write(m, {}, {}, Doubt(m))
        BY <1>a, <1>b, <3>2, WriteResult
      <3> QED
        BY <1>4, <3>1, <3>2 DEF Select
    <2>2. job' \in [Workers -> Job]
      BY <1>a, <1>b, <1>4, JobEdits DEF Select
    <2> QED
      BY <1>4, <2>1, <2>2 DEF Select, TypeOK
  <1>5. ASSUME NEW w \in Workers, NEW m \in Messages, Prepare(w, m) PROVE TypeOK'
    <2>1. [job[w] EXCEPT !.batch = job[w].batch \ {m}, !.msg = {m}, !.step = "mark",
              !.devices = Recipients(m), !.doubt = Doubt(m)] \in Job
      <3>1. /\ job[w] \in Job /\ job[w].batch \ {m} \in SUBSET Messages
            /\ Recipients(m) \in SUBSET Devices /\ Doubt(m) \in SUBSET Devices
        BY <1>a, <1>b
      <3> QED
        BY <3>1, JobEdits
    <2>2. job' \in [Workers -> Job]
      BY <1>a, <1>5, <2>1 DEF Prepare
    <2> QED
      BY <1>5, <2>2 DEF Prepare, TypeOK
  <1>6. ASSUME NEW w \in Workers, NEW m \in Messages, Defer(w, m) PROVE TypeOK'
    <2> DEFINE new == [Closed(row[m], "retry") EXCEPT !.attempts = IF @ = 0 THEN 0 ELSE @ - 1]
    <2>1. new \in Row
      <3>1. Closed(row[m], "retry") \in Row
        BY <1>a, RowTypes
      <3> QED
        BY <3>1, RowEdits
    <2>2. row' = [row EXCEPT ![m] = new]
      BY <1>6 DEF Defer
    <2>3. row' \in [Messages -> Row]
      <3> HIDE DEF new
      <3> QED
        BY <1>a, <2>1, <2>2
    <2>4. job' \in [Workers -> Job]
      BY <1>a, <1>b, <1>6, JobEdits DEF Defer
    <2>5. quiet' \in 0..MaxQuiet
      BY <1>6, PushAssumption DEF Defer, TypeOK
    <2> QED
      BY <1>6, <2>3, <2>4, <2>5 DEF Defer, TypeOK
  <1>7. ASSUME NEW w \in Workers, NEW m \in Messages, Mark(w, m) PROVE TypeOK'
    <2>1. CASE Skip(m) /\ NextRow(w)
      BY <1>a, <1>7, <2>1, SkipResult, JobSteps DEF Mark, TypeOK
    <2>2. CASE /\ row' = [row EXCEPT ![m].inFlight = job[w].devices]
               /\ job' = [job EXCEPT ![w].step = "send"]
      <3>1. row' \in [Messages -> Row]
        BY <1>a, <1>b, <2>2, RowEdits
      <3>2. job' \in [Workers -> Job]
        BY <1>a, <2>2, JobEdits DEF Steps
      <3> QED
        BY <1>7, <3>1, <3>2 DEF Mark, TypeOK
    <2> QED
      BY <1>7, <2>1, <2>2 DEF Mark
  <1>8. ASSUME NEW w \in Workers, NEW m \in Messages, NEW t \in Devices, Send(w, m, t)
        PROVE  TypeOK'
    <2>1. PICK a \in Answer \ {"none"} :
             /\ job' = [job EXCEPT ![w].answer[t] = a]
             /\ \/ a \in {"delivered", "unknown"} /\ Ring(m, t)
                \/ a # "delivered" /\ UNCHANGED shown
             /\ owned' = IF a = "invalid" THEN owned \ {t} ELSE owned
      BY <1>8 DEF Send
    <2>2. job' \in [Workers -> Job]
      BY <1>a, <2>1, JobEdits
    <2>3. shown' \in [Messages -> [Devices -> 0..2]]
      BY <1>a, <2>1 DEF Ring
    <2>4. owned' \in SUBSET Devices
      BY <1>a, <2>1
    <2> QED
      BY <1>8, <2>2, <2>3, <2>4 DEF Send, TypeOK
  <1>9. ASSUME NEW w \in Workers, NEW m \in Messages, Record(w, m) PROVE TypeOK'
    <2>1. \A a : Answered(w, a) \in SUBSET Devices
      BY <1>b DEF Answered
    <2>2. row' \in [Messages -> Row]
      <3>1. job[w].doubt \cup Answered(w, "unknown") \in SUBSET Devices
        BY <1>b, <2>1
      <3> QED
        BY <1>a, <1>9, <2>1, <3>1, WriteResult DEF Record
    <2> QED
      BY <1>9, <2>2, JobSteps DEF Record, TypeOK
  <1>10. ASSUME NEW w \in Workers, NEW m \in Messages, LeaseLost(w, m) PROVE TypeOK'
    BY <1>10, JobSteps DEF LeaseLost, TypeOK
  <1>11. ASSUME NEW w \in Workers, NEW m \in Messages, Fault(w, m) PROVE TypeOK'
    <2> DEFINE kept == [row[m] EXCEPT !.inFlight = job[w].devices]
    <2>1. row[m] \in Row /\ kept \in Row
      BY <1>a, <1>b, RowEdits
    <2>2. GiveUp(row[m]) \in Row /\ GiveUp(kept) \in Row
      BY <2>1, RowTypes
    <2>3. row' \in [Messages -> Row]
      BY <1>a, <1>11, <2>1, <2>2 DEF Fault
    <2> QED
      BY <1>11, <2>3, JobSteps DEF Fault, TypeOK
  <1>12. ASSUME NEW w \in Workers, Stop(w) PROVE TypeOK'
    BY <1>12, JobSteps DEF Stop, TypeOK
  <1>13. ASSUME NEW m \in Messages, Supersede(m) PROVE TypeOK'
    BY <1>13 DEF Supersede, TypeOK
  <1>14. ASSUME NEW t \in Devices, SignOut(t) PROVE TypeOK'
    BY <1>14 DEF SignOut, TypeOK
  <1>15. ASSUME NEW t \in Devices, SignIn(t) PROVE TypeOK'
    BY <1>15, PushAssumption DEF SignIn, TypeOK
  <1>16. CASE UNCHANGED vars
    BY <1>16 DEF vars, TypeOK
  <1> QED
    BY <1>1, <1>2, <1>3, <1>4, <1>5, <1>6, <1>7, <1>8, <1>9, <1>10, <1>11, <1>12,
       <1>13, <1>14, <1>15, <1>16 DEF Next, Work

\* Every row, job and counter keeps its type, whatever stops (push-outbox.service.js).
THEOREM TypeCorrect == Spec => []TypeOK
  BY TypeInit, TypeStep, PTL DEF Spec

-------------------------------------------------------------------------------
(* At most once.                                                                *)

Sending(w, m, t) == job[w].step = "send" /\ job[w].msg = {m} /\ t \in job[w].devices
Launched(m, t) == shown[m][t] > 0 \/ \E w \in Workers : Sending(w, m, t)

\* No claim selects a device that was launched.
Guarded(m, t) == Launched(m, t) => t \notin row[m].pending \/ t \in Doubt(m)
Fresh(m, t) == row[m].status = "none" => ~Launched(m, t)
\* A marker leaves nobody else to send to.
Covered(m) == row[m].inFlight # {} => Recipients(m) = {}
\* What the holder of a lease remembers of the row is true.
Remembers(w, m) ==
    Holds(w, m) /\ job[w].msg = {m} =>
        /\ job[w].step = "mark" =>
              /\ job[w].devices \subseteq row[m].pending \ row[m].uncertain
              /\ row[m].inFlight = {} /\ Recipients(m) \subseteq job[w].devices
        /\ job[w].step = "send" =>
              /\ row[m].inFlight = job[w].devices
Alone(m, t) == \A v \in Workers, w \in Workers : Sending(v, m, t) /\ Sending(w, m, t) => v = w
Silent(w, m, t) ==
    Sending(w, m, t) /\ job[w].answer[t] \in {"none", "invalid", "rejected"} => shown[m][t] = 0

SafeMessage(m) ==
    /\ Covered(m)
    /\ \A t \in Devices : Guarded(m, t) /\ Fresh(m, t) /\ Alone(m, t) /\ shown[m][t] <= 1
    /\ \A w \in Workers : Remembers(w, m)
    /\ \A w \in Workers, t \in Devices : Silent(w, m, t)

Inv ==
    /\ TypeOK
    /\ returned = {} => \A m \in Messages : SafeMessage(m)

SameView(v) ==
    /\ job'[v].step = job[v].step /\ job'[v].msg = job[v].msg
    /\ job'[v].devices = job[v].devices /\ job'[v].answer = job[v].answer

\* What does not launch, mark or record keeps a message safe.
LEMMA Frame ==
    ASSUME TypeOK, NEW n \in Messages, SafeMessage(n), owned' \subseteq owned,
           shown'[n] = shown[n],
           row'[n].pending \subseteq row[n].pending, row'[n].inFlight = row[n].inFlight,
           row'[n].uncertain = row[n].uncertain,
           row'[n].status = "none" => row[n].status = "none",
           \A v \in Workers : job'[v].msg = {n} /\ job'[v].step # "select" =>
              /\ SameView(v)
              /\ Holds(v, n)' => Holds(v, n) /\ row'[n].pending = row[n].pending
    PROVE  SafeMessage(n)'
  <1>1. Doubt(n)' = Doubt(n) /\ Recipients(n)' \subseteq Recipients(n)
    BY DEF Doubt, Recipients
  <1>2. \A v \in Workers, t \in Devices : Sending(v, n, t)' => Sending(v, n, t) /\ SameView(v)
    BY DEF Sending, SameView
  <1>3. \A t \in Devices : Launched(n, t)' => Launched(n, t)
    BY <1>2 DEF Launched
  <1>4. Covered(n)'
    BY <1>1 DEF SafeMessage, Covered
  <1>5. ASSUME NEW t \in Devices
        PROVE  (Guarded(n, t) /\ Fresh(n, t) /\ Alone(n, t) /\ shown[n][t] <= 1)'
    <2>1. Guarded(n, t)'
      BY <1>1, <1>3 DEF SafeMessage, Guarded
    <2>2. Fresh(n, t)'
      BY <1>3 DEF SafeMessage, Fresh
    <2>3. Alone(n, t)'
      BY <1>2 DEF SafeMessage, Alone
    <2> QED
      BY <2>1, <2>2, <2>3 DEF SafeMessage
  <1>6. ASSUME NEW w \in Workers PROVE Remembers(w, n)'
    BY <1>1 DEF SafeMessage, Remembers, SameView
  <1>7. ASSUME NEW w \in Workers, NEW t \in Devices PROVE Silent(w, n, t)'
    BY <1>2 DEF SafeMessage, Silent, SameView
  <1> QED
    BY <1>4, <1>5, <1>6, <1>7 DEF SafeMessage

LEMMA SafeStep ==
    ASSUME TypeOK, TypeOK', Next, returned' = {},
           returned = {} => \A m \in Messages : SafeMessage(m)
    PROVE  \A n \in Messages : SafeMessage(n)'
  <1>a. /\ row \in [Messages -> Row] /\ job \in [Workers -> Job]
        /\ shown \in [Messages -> [Devices -> 0..2]]
    BY DEF TypeOK
  <1>b. ASSUME NEW t \in Devices PROVE ~SignIn(t)
    BY DEF SignIn
  <1>c. returned = {}
    <2>1. ASSUME NEW w \in Workers, Claim(w) \/ Stop(w) PROVE returned' = returned
      BY <2>1 DEF Claim, Stop
    <2>2. ASSUME NEW w \in Workers, Work(w) PROVE returned' = returned
      <3>1. PICK m \in Messages :
               \/ Select(w, m) \/ Prepare(w, m) \/ Defer(w, m) \/ Mark(w, m)
               \/ \E t \in Devices : Send(w, m, t)
               \/ Record(w, m) \/ LeaseLost(w, m) \/ Fault(w, m)
        BY <2>2 DEF Work
      <3> QED
        BY <3>1 DEF Select, Prepare, Defer, Mark, Send, Record, LeaseLost, Fault
    <2>3. ASSUME NEW m \in Messages, Enqueue(m) \/ LeaseEnds(m) \/ Supersede(m)
          PROVE  returned' = returned
      BY <2>3 DEF Enqueue, LeaseEnds, Supersede
    <2>4. ASSUME NEW t \in Devices, SignOut(t) PROVE returned' = returned
      BY <2>4 DEF SignOut
    <2> QED
      BY <1>b, <2>1, <2>2, <2>3, <2>4 DEF Next
  <1>d. \A n \in Messages : SafeMessage(n)
    BY <1>c
  <1> SUFFICES ASSUME NEW n \in Messages PROVE SafeMessage(n)'
    OBVIOUS
  <1>e. SafeMessage(n)
    BY <1>d
  <1>1. ASSUME NEW m \in Messages, Enqueue(m) PROVE SafeMessage(n)'
    <2>1. CASE n # m
      BY <1>a, <1>e, <1>1, <2>1, Frame DEF Enqueue, Holds, SameView
    <2>2. CASE n = m
      <3>1. /\ row[n].status = "none" /\ row'[n].status = "queued" /\ row'[n].inFlight = {}
            /\ UNCHANGED <<job, shown>>
        BY <1>a, <1>1, <2>2 DEF Enqueue, Blank
      <3>2. \A t \in Devices : ~Launched(n, t)
        BY <1>e, <3>1 DEF SafeMessage, Fresh
      <3>3. \A t \in Devices : Launched(n, t)' = Launched(n, t)
        BY <3>1 DEF Launched, Sending
      <3> QED
        BY <1>e, <3>1, <3>2, <3>3
        DEF SafeMessage, Covered, Guarded, Fresh, Alone, Remembers, Silent, Holds, Sending
    <2> QED
      BY <2>1, <2>2
  <1>2. ASSUME NEW w \in Workers, Claim(w) PROVE SafeMessage(n)'
    <2>1. PICK batch \in SUBSET Messages :
             /\ \A m \in batch : Claimable(m)
             /\ job' = [job EXCEPT ![w].batch = batch]
             /\ row' = [m \in Messages |-> Claimed(m, w, batch)]
      BY <1>2 DEF Claim
    <2>2. /\ row'[n].inFlight = row[n].inFlight /\ row'[n].uncertain = row[n].uncertain
          /\ row'[n].pending \subseteq row[n].pending
          /\ row'[n].status = "none" => row[n].status = "none"
          /\ row'[n] = row[n] \/ row'[n].lease \in {w, NoWorker}
      BY <1>a, <2>1, ClaimedResult
    <2>3. job'[w].step = "select" /\ \A v \in Workers \ {w} : job'[v] = job[v]
      BY <1>a, <1>2, <2>1 DEF Claim, Idle, Job
    <2>4. \A v \in Workers \ {w} :
             SameView(v) /\ (Holds(v, n)' => Holds(v, n) /\ row'[n].pending = row[n].pending)
      BY <2>2, <2>3, PushAssumption DEF SameView, Holds
    <2> QED
      BY <1>2, <1>e, <2>2, <2>3, <2>4, Frame DEF Claim
  <1>3. ASSUME NEW m \in Messages, LeaseEnds(m) PROVE SafeMessage(n)'
    BY <1>a, <1>e, <1>3, Frame DEF LeaseEnds, Holds, SameView, Row
  <1>4. ASSUME NEW w \in Workers, NEW m \in Messages, Select(w, m) PROVE SafeMessage(n)'
    <2>1. /\ \A v \in Workers : SameView(v)
          /\ job' = [job EXCEPT ![w].batch = @ \ {m}] /\ UNCHANGED <<owned, shown>>
      BY <1>a, <1>4 DEF Select, SameView, Job
    <2>2. CASE Skip(m)
      BY <1>a, <1>e, <2>1, <2>2, SkipResult, Frame DEF Holds
    <2>3. CASE Write(m, {}, {}, Doubt(m))
      <3>1. Doubt(m) \in SUBSET Devices
        BY <1>a DEF Doubt, Row
      <3>2. /\ row'[m].pending = {} /\ row'[m].inFlight = {}
            /\ row'[m].status \in Ended \cup {"retry"}
            /\ \A k \in Messages \ {m} : row'[k] = row[k]
        <4> DEFINE none == {}
        <4>1. none \in SUBSET Devices /\ Write(m, none, none, Doubt(m))
          BY <2>3
        <4> HIDE DEF none
        <4>2. /\ row'[m].pending \subseteq none /\ row'[m].inFlight = {}
              /\ row'[m].status \in Ended \cup {"retry"}
              /\ \A k \in Messages \ {m} : row'[k] = row[k]
          BY <1>a, <3>1, <4>1, WriteResult
        <4> QED
          BY <4>2 DEF none
      <3>3. CASE n # m
        BY <1>e, <2>1, <3>2, <3>3, Frame DEF Holds
      <3>4. CASE n = m
        <4>1. \A v \in Workers, t \in Devices : Sending(v, n, t)' = Sending(v, n, t)
          BY <2>1 DEF Sending, SameView
        <4>2. Covered(n)' /\ \A t \in Devices : Guarded(n, t)' /\ Fresh(n, t)'
          BY <3>2, <3>4 DEF Covered, Guarded, Fresh, Ended
        <4>3. \A v \in Workers : Remembers(v, n)'
          BY <3>2, <3>4 DEF Remembers, Holds, Ended
        <4>4. \A t \in Devices : (Alone(n, t) /\ shown[n][t] <= 1)'
          BY <1>e, <2>1, <4>1 DEF SafeMessage, Alone
        <4>5. \A v \in Workers, t \in Devices : Silent(v, n, t)'
          BY <1>e, <2>1, <4>1 DEF SafeMessage, Silent, SameView
        <4> QED
          BY <4>2, <4>3, <4>4, <4>5 DEF SafeMessage
      <3> QED
        BY <3>3, <3>4
    <2> QED
      BY <1>4, <2>2, <2>3 DEF Select
  <1>5. ASSUME NEW w \in Workers, NEW m \in Messages, Prepare(w, m) PROVE SafeMessage(n)'
    <2>1. /\ job'[w].step = "mark" /\ job'[w].msg = {m} /\ job'[w].devices = Recipients(m)
          /\ \A v \in Workers \ {w} : job'[v] = job[v]
          /\ UNCHANGED <<row, owned, shown>> /\ Recipients(m) # {}
      BY <1>a, <1>5 DEF Prepare, Job
    <2>2. CASE n # m
      BY <1>e, <2>1, <2>2, Frame DEF Holds, SameView
    <2>3. CASE n = m
      <3>1. \A v \in Workers, t \in Devices : Sending(v, n, t)' => Sending(v, n, t) /\ v # w
        BY <2>1 DEF Sending
      <3>2. Covered(n)' /\ \A t \in Devices : (Guarded(n, t) /\ Fresh(n, t))'
        <4>1. Recipients(n)' = Recipients(n) /\ Doubt(n)' = Doubt(n)
          BY <2>1 DEF Recipients, Doubt
        <4>2. \A t \in Devices : Launched(n, t)' => Launched(n, t)
          BY <2>1, <3>1 DEF Launched
        <4> QED
          BY <1>e, <2>1, <4>1, <4>2 DEF SafeMessage, Covered, Guarded, Fresh
      <3>3. \A t \in Devices : (Alone(n, t) /\ shown[n][t] <= 1)'
        BY <1>e, <2>1, <3>1 DEF SafeMessage, Alone
      <3>4. ASSUME NEW v \in Workers PROVE Remembers(v, n)'
        <4>1. CASE v = w
          BY <1>e, <2>1, <2>3, <4>1
          DEF SafeMessage, Covered, Remembers, Recipients, Doubt
        <4>2. CASE v # w
          BY <1>e, <2>1, <4>2 DEF SafeMessage, Remembers, Holds, Recipients, Doubt
        <4> QED
          BY <4>1, <4>2
      <3>5. \A v \in Workers, t \in Devices : Silent(v, n, t)'
        BY <1>e, <2>1, <3>1 DEF SafeMessage, Silent
      <3> QED
        BY <3>2, <3>3, <3>4, <3>5 DEF SafeMessage
    <2> QED
      BY <2>2, <2>3
  <1>6. ASSUME NEW w \in Workers, NEW m \in Messages, Defer(w, m) PROVE SafeMessage(n)'
    <2> DEFINE closed == Closed(row[m], "retry")
               attempts == IF closed.attempts = 0 THEN 0 ELSE closed.attempts - 1
    <2>1. row' = [row EXCEPT ![m] = [closed EXCEPT !.attempts = attempts]]
      BY <1>6 DEF Defer
    <2>2. /\ closed \in Row /\ closed.pending = row[m].pending /\ closed.status = "retry"
          /\ closed.inFlight = row[m].inFlight /\ closed.uncertain = row[m].uncertain
      BY <1>a, RowTypes
    <2>3. /\ row'[m].pending = row[m].pending /\ row'[m].status = "retry"
          /\ row'[m].inFlight = row[m].inFlight /\ row'[m].uncertain = row[m].uncertain
          /\ \A k \in Messages \ {m} : row'[k] = row[k]
      <3> HIDE DEF closed, attempts
      <3> QED
        BY <1>a, <2>1, <2>2 DEF Row
    <2>4. \A v \in Workers : SameView(v)
      BY <1>a, <1>6 DEF Defer, SameView, Job
    <2> QED
      BY <1>e, <1>6, <2>3, <2>4, Frame DEF Defer, Holds
  <1>7. ASSUME NEW w \in Workers, NEW m \in Messages, Mark(w, m) PROVE SafeMessage(n)'
    <2>1. /\ job[w].step = "mark" /\ job[w].msg = {m} /\ Holds(w, m)
          /\ UNCHANGED <<owned, shown>>
      BY <1>7 DEF Mark
    <2>2. CASE Skip(m) /\ NextRow(w)
      <3>1. job'[w].step = "select" /\ \A v \in Workers \ {w} : SameView(v)
        BY <1>a, <2>2 DEF NextRow, Idle, SameView
      <3>2. /\ row'[m].pending = {} /\ row'[m].status = "skipped"
            /\ row'[m].inFlight = row[m].inFlight /\ row'[m].uncertain = row[m].uncertain
            /\ \A k \in Messages \ {m} : row'[k] = row[k]
        BY <1>a, <2>2, SkipResult
      <3> QED
        BY <1>e, <2>1, <3>1, <3>2, Frame DEF Holds
    <2>3. CASE /\ row' = [row EXCEPT ![m].inFlight = job[w].devices]
               /\ job' = [job EXCEPT ![w].step = "send"]
      <3>1. /\ row'[m].inFlight = job[w].devices /\ row'[m].pending = row[m].pending
            /\ row'[m].uncertain = row[m].uncertain /\ row'[m].status = "processing"
            /\ row'[m].lease = w
            /\ \A k \in Messages \ {m} : row'[k] = row[k]
        BY <1>a, <2>1, <2>3 DEF Row, Holds
      <3>2. /\ job'[w].step = "send" /\ job'[w].msg = {m}
            /\ job'[w].devices = job[w].devices /\ job'[w].answer = job[w].answer
            /\ \A v \in Workers \ {w} : job'[v] = job[v]
        BY <1>a, <2>1, <2>3 DEF Job
      <3>3. CASE n # m
        BY <1>e, <2>1, <3>1, <3>2, <3>3, Frame DEF Holds, SameView
      <3>4. CASE n = m
        <4>1. /\ job[w].devices \subseteq row[n].pending \ row[n].uncertain
              /\ row[n].inFlight = {} /\ Recipients(n) \subseteq job[w].devices
          BY <1>e, <2>1, <3>4 DEF SafeMessage, Remembers
        <4>2. \A t \in job[w].devices : t \in Devices /\ ~Launched(n, t)
          BY <1>a, <1>e, <4>1 DEF SafeMessage, Guarded, Doubt, Row
        <4>3. \A v \in Workers, t \in Devices : Sending(v, n, t)' =>
                 \/ Sending(v, n, t) /\ v # w /\ t \notin job[w].devices
                 \/ v = w /\ t \in job[w].devices
          BY <3>2, <4>2 DEF Sending, Launched
        <4>4. \A t \in Devices : Launched(n, t)' => Launched(n, t) \/ t \in job[w].devices
          BY <2>1, <4>3 DEF Launched
        <4>5. Doubt(n)' = row[n].uncertain \cup job[w].devices /\ Doubt(n) = row[n].uncertain
          BY <3>1, <3>4, <4>1 DEF Doubt
        <4>6. Covered(n)'
          <5>1. Recipients(n)' = {}
            BY <2>1, <3>1, <3>4, <4>1, <4>5 DEF Recipients
          <5> QED
            BY <5>1 DEF Covered
        <4>7. \A t \in Devices : Guarded(n, t)' /\ Fresh(n, t)'
          BY <1>e, <3>1, <3>4, <4>4, <4>5 DEF SafeMessage, Guarded, Fresh
        <4>8. \A t \in Devices : (Alone(n, t) /\ shown[n][t] <= 1)'
          BY <1>e, <2>1, <4>3 DEF SafeMessage, Alone
        <4>9. ASSUME NEW v \in Workers PROVE Remembers(v, n)'
          BY <3>1, <3>2, <3>4 DEF Remembers, Holds
        <4>10. ASSUME NEW v \in Workers, NEW t \in Devices PROVE Silent(v, n, t)'
          <5>1. CASE t \in job[w].devices
            BY <1>a, <2>1, <4>2, <5>1 DEF Silent, Launched
          <5>2. CASE t \notin job[w].devices
            BY <1>e, <2>1, <3>2, <4>3, <5>2 DEF SafeMessage, Silent
          <5> QED
            BY <5>1, <5>2
        <4> QED
          BY <4>6, <4>7, <4>8, <4>9, <4>10 DEF SafeMessage
      <3> QED
        BY <3>3, <3>4
    <2> QED
      BY <1>7, <2>2, <2>3 DEF Mark
  <1>8. ASSUME NEW w \in Workers, NEW m \in Messages, NEW t \in Devices, Send(w, m, t)
        PROVE  SafeMessage(n)'
    <2>1. PICK a \in Answer \ {"none"} :
             /\ job' = [job EXCEPT ![w].answer[t] = a]
             /\ \/ a \in {"delivered", "unknown"} /\ Ring(m, t)
                \/ a # "delivered" /\ UNCHANGED shown
             /\ owned' = IF a = "invalid" THEN owned \ {t} ELSE owned
      BY <1>8 DEF Send
    <2>2. /\ Sending(w, m, t) /\ job[w].answer[t] = "none"
          /\ UNCHANGED row /\ owned' \subseteq owned
      BY <1>8, <2>1 DEF Send, Sending
    <2>3. /\ \A v \in Workers : /\ job'[v].step = job[v].step /\ job'[v].msg = job[v].msg
                                /\ job'[v].devices = job[v].devices
          /\ \A v \in Workers \ {w} : job'[v] = job[v]
          /\ \A u \in Devices \ {t} : job'[w].answer[u] = job[w].answer[u]
          /\ job'[w].answer[t] = a
      BY <1>a, <2>1 DEF Job
    <2>4. /\ \A k \in Messages \ {m} : shown'[k] = shown[k]
          /\ \A u \in Devices \ {t} : shown'[m][u] = shown[m][u]
          /\ shown'[m][t] # shown[m][t] => a \in {"delivered", "unknown"}
          /\ shown[m][t] = 0 => shown'[m][t] <= 1
      BY <1>a, <2>1 DEF Ring
    <2>5. CASE n # m
      <3>1. \A v \in Workers : job'[v].msg = {n} => SameView(v)
        BY <2>2, <2>3, <2>5 DEF Sending, SameView
      <3> QED
        BY <1>e, <2>2, <2>4, <2>5, <3>1, Frame DEF Holds
    <2>6. CASE n = m
      <3>1. \A v \in Workers, u \in Devices : Sending(v, n, u)' = Sending(v, n, u)
        BY <2>3 DEF Sending
      <3>2. \A u \in Devices : Launched(n, u)' => Launched(n, u)
        <4>1. ASSUME NEW u \in Devices, Launched(n, u)' PROVE Launched(n, u)
          <5>1. CASE u = t
            BY <2>2, <2>6, <5>1 DEF Launched
          <5>2. CASE u # t
            BY <2>4, <2>6, <3>1, <4>1, <5>2 DEF Launched
          <5> QED
            BY <5>1, <5>2
        <4> QED
          BY <4>1
      <3>3. Doubt(n)' = Doubt(n) /\ Recipients(n)' \subseteq Recipients(n)
        BY <2>2 DEF Doubt, Recipients
      <3>4. shown[n][t] = 0
        BY <1>e, <2>2, <2>6 DEF SafeMessage, Silent
      <3>5. Covered(n)' /\ \A u \in Devices : Guarded(n, u)' /\ Fresh(n, u)'
        BY <1>e, <2>2, <3>2, <3>3 DEF SafeMessage, Covered, Guarded, Fresh
      <3>6. \A u \in Devices : (Alone(n, u) /\ shown[n][u] <= 1)'
        BY <1>e, <2>4, <2>6, <3>1, <3>4 DEF SafeMessage, Alone
      <3>7. \A v \in Workers : Remembers(v, n)'
        BY <1>e, <2>2, <2>3, <3>3 DEF SafeMessage, Remembers, Holds
      <3>8. ASSUME NEW v \in Workers, NEW u \in Devices PROVE Silent(v, n, u)'
        <4>1. CASE u # t
          BY <1>e, <2>3, <2>4, <2>6, <3>1, <4>1 DEF SafeMessage, Silent
        <4>2. CASE u = t /\ v = w
          BY <2>3, <2>4, <2>6, <3>4, <4>2 DEF Silent
        <4>3. CASE u = t /\ v # w
          BY <1>e, <2>2, <2>6, <3>1, <4>3 DEF SafeMessage, Silent, Alone
        <4> QED
          BY <4>1, <4>2, <4>3
      <3> QED
        BY <3>5, <3>6, <3>7, <3>8 DEF SafeMessage
    <2> QED
      BY <2>5, <2>6
  <1>9. ASSUME NEW w \in Workers, NEW m \in Messages, Record(w, m) PROVE SafeMessage(n)'
    <2>1. /\ \A a : Answered(w, a) \in SUBSET Devices
          /\ job[w].doubt \cup Answered(w, "unknown") \in SUBSET Devices
      BY <1>a DEF Answered, Job
    <2>2. /\ row'[m].pending \subseteq Answered(w, "rejected") /\ row'[m].inFlight = {}
          /\ row'[m].status \in Ended \cup {"retry"}
          /\ \A k \in Messages \ {m} : row'[k] = row[k]
      <3> DEFINE said == Answered(w, "delivered")
                 again == Answered(w, "rejected")
                 doubt == job[w].doubt \cup Answered(w, "unknown")
      <3>1. /\ said \in SUBSET Devices /\ again \in SUBSET Devices
            /\ doubt \in SUBSET Devices /\ Write(m, said, again, doubt)
        BY <1>9, <2>1 DEF Record
      <3> HIDE DEF said, again, doubt
      <3>2. /\ row'[m].pending \subseteq again /\ row'[m].inFlight = {}
            /\ row'[m].status \in Ended \cup {"retry"}
            /\ \A k \in Messages \ {m} : row'[k] = row[k]
        BY <1>a, <3>1, WriteResult
      <3> QED
        BY <3>2 DEF again
    <2>3. /\ job[w].step = "send" /\ job[w].msg = {m} /\ UNCHANGED <<owned, shown>>
          /\ job'[w].step = "select" /\ \A v \in Workers \ {w} : job'[v] = job[v]
      BY <1>a, <1>9 DEF Record, NextRow, Idle
    <2>4. CASE n # m
      BY <1>e, <2>2, <2>3, <2>4, Frame DEF Holds, SameView
    <2>5. CASE n = m
      <3>1. \A v \in Workers, t \in Devices : Sending(v, n, t)' => Sending(v, n, t) /\ v # w
        BY <2>3 DEF Sending
      <3>2. \A t \in Devices : t \in row'[n].pending => ~Launched(n, t)'
        <4>1. ASSUME NEW t \in Devices, t \in row'[n].pending PROVE ~Launched(n, t)'
          <5>1. Sending(w, n, t) /\ job[w].answer[t] = "rejected"
            BY <2>2, <2>3, <2>5, <4>1 DEF Answered, Sending
          <5>2. shown[n][t] = 0
            BY <1>e, <5>1 DEF SafeMessage, Silent
          <5>3. \A v \in Workers : ~Sending(v, n, t)'
            BY <1>e, <3>1, <5>1 DEF SafeMessage, Alone
          <5> QED
            BY <2>3, <5>2, <5>3 DEF Launched
        <4> QED
          BY <4>1
      <3>3. Covered(n)' /\ \A t \in Devices : Guarded(n, t)' /\ Fresh(n, t)'
        BY <2>2, <2>5, <3>2 DEF Covered, Guarded, Fresh, Ended
      <3>4. \A t \in Devices : (Alone(n, t) /\ shown[n][t] <= 1)'
        BY <1>e, <2>3, <3>1 DEF SafeMessage, Alone
      <3>5. \A v \in Workers : Remembers(v, n)'
        BY <2>2, <2>5 DEF Remembers, Holds, Ended
      <3>6. \A v \in Workers, t \in Devices : Silent(v, n, t)'
        BY <1>e, <2>3, <3>1 DEF SafeMessage, Silent
      <3> QED
        BY <3>3, <3>4, <3>5, <3>6 DEF SafeMessage
    <2> QED
      BY <2>4, <2>5
  <1>10. ASSUME NEW w \in Workers, NEW m \in Messages, LeaseLost(w, m)
         PROVE  SafeMessage(n)'
    BY <1>a, <1>e, <1>10, Frame DEF LeaseLost, Abandon, Idle, Holds, SameView
  <1>11. ASSUME NEW w \in Workers, NEW m \in Messages, Fault(w, m) PROVE SafeMessage(n)'
    <2> DEFINE kept == [row[m] EXCEPT !.inFlight = job[w].devices]
    <2>1. /\ Holds(w, m) /\ Writes(w, m) /\ UNCHANGED <<owned, shown>>
          /\ job'[w].step = "select" /\ \A v \in Workers \ {w} : job'[v] = job[v]
      BY <1>a, <1>11 DEF Fault, Abandon, Idle
    <2>2. /\ row[m] \in Row /\ kept \in Row
          /\ kept.inFlight = job[w].devices /\ kept.pending = row[m].pending
          /\ kept.uncertain = row[m].uncertain /\ kept.lease = row[m].lease
          /\ kept.status = row[m].status
      BY <1>a DEF Job, Row
    <2>3. ASSUME NEW r \in Row
          PROVE  /\ GiveUp(r).status \in {"failed", "retry"}
                 /\ GiveUp(r).pending = r.pending /\ GiveUp(r).inFlight = r.inFlight
                 /\ GiveUp(r).uncertain = r.uncertain
      BY RowTypes DEF GiveUp, Ended
    <2>4. CASE row' = [row EXCEPT ![m] = GiveUp(row[m])]
      BY <1>a, <1>e, <2>1, <2>2, <2>3, <2>4, Frame DEF Holds, SameView
    <2>5. CASE UNCHANGED row
      BY <1>e, <2>1, <2>5, Frame DEF Holds, SameView
    <2>6. CASE /\ job[w].step = "mark"
               /\ row' = [row EXCEPT ![m] = GiveUp(kept)] \/ row' = [row EXCEPT ![m] = kept]
      <3>1. /\ row'[m].inFlight = job[w].devices /\ row'[m].pending = row[m].pending
            /\ row'[m].uncertain = row[m].uncertain /\ row'[m].status # "none"
            /\ row'[m].status = "processing" => row'[m].lease = w
            /\ \A k \in Messages \ {m} : row'[k] = row[k]
        <4> HIDE DEF kept
        <4> QED
          BY <1>a, <2>1, <2>2, <2>3, <2>6 DEF Holds
      <3>2. CASE n # m
        BY <1>e, <2>1, <3>1, <3>2, Frame DEF Holds, SameView
      <3>3. CASE n = m
        <4>1. /\ job[w].devices \subseteq row[n].pending \ row[n].uncertain
              /\ row[n].inFlight = {} /\ Recipients(n) \subseteq job[w].devices
          BY <1>e, <2>1, <2>6, <3>3 DEF SafeMessage, Remembers, Writes
        <4>2. \A v \in Workers, t \in Devices : Sending(v, n, t)' => Sending(v, n, t) /\ v # w
          BY <2>1 DEF Sending
        <4>3. \A t \in Devices : Launched(n, t)' => Launched(n, t)
          BY <2>1, <4>2 DEF Launched
        <4>4. Doubt(n)' = row[n].uncertain \cup job[w].devices /\ Doubt(n) = row[n].uncertain
          BY <3>1, <3>3, <4>1 DEF Doubt
        <4>5. Covered(n)'
          <5>1. Recipients(n)' = {}
            BY <2>1, <3>1, <3>3, <4>1, <4>4 DEF Recipients
          <5> QED
            BY <5>1 DEF Covered
        <4>6. \A t \in Devices : Guarded(n, t)' /\ Fresh(n, t)'
          BY <1>e, <3>1, <3>3, <4>3, <4>4 DEF SafeMessage, Guarded, Fresh
        <4>7. \A t \in Devices : (Alone(n, t) /\ shown[n][t] <= 1)'
          BY <1>e, <2>1, <4>2 DEF SafeMessage, Alone
        <4>8. \A v \in Workers : Remembers(v, n)'
          BY <2>1, <3>1, <3>3 DEF Remembers, Holds
        <4>9. \A v \in Workers, t \in Devices : Silent(v, n, t)'
          BY <1>e, <2>1, <4>2 DEF SafeMessage, Silent
        <4> QED
          BY <4>5, <4>6, <4>7, <4>8, <4>9 DEF SafeMessage
      <3> QED
        BY <3>2, <3>3
    <2> QED
      BY <1>11, <2>4, <2>5, <2>6 DEF Fault
  <1>12. ASSUME NEW w \in Workers, Stop(w) PROVE SafeMessage(n)'
    BY <1>a, <1>e, <1>12, Frame DEF Stop, Abandon, Idle, Holds, SameView
  <1>13. ASSUME NEW m \in Messages, Supersede(m) PROVE SafeMessage(n)'
    BY <1>e, <1>13, Frame DEF Supersede, Holds, SameView
  <1>14. ASSUME NEW t \in Devices, SignOut(t) PROVE SafeMessage(n)'
    BY <1>e, <1>14, Frame DEF SignOut, Holds, SameView
  <1> QED
    BY <1>b, <1>1, <1>2, <1>3, <1>4, <1>5, <1>6, <1>7, <1>8, <1>9, <1>10, <1>11, <1>12,
       <1>13, <1>14 DEF Next, Work

LEMMA InvInit == Init => Inv
  <1> SUFFICES ASSUME Init PROVE Inv
    OBVIOUS
  <1>1. ASSUME NEW m \in Messages PROVE SafeMessage(m)
    <2>1. /\ row[m].inFlight = {} /\ row[m].status = "none"
          /\ \A w \in Workers : job[w].step = "select"
          /\ \A t \in Devices : shown[m][t] = 0
      BY DEF Init, Blank, Idle
    <2> QED
      BY <2>1 DEF SafeMessage, Covered, Guarded, Fresh, Alone, Remembers, Silent, Sending,
                  Launched, Holds
  <1> QED
    BY <1>1, TypeInit DEF Inv

LEMMA InvStep == Inv /\ [Next]_vars => Inv'
  <1> SUFFICES ASSUME Inv, [Next]_vars PROVE Inv'
    OBVIOUS
  <1>1. TypeOK /\ TypeOK'
    BY TypeStep DEF Inv
  <1>2. CASE Next
    BY <1>1, <1>2, SafeStep DEF Inv
  <1>3. CASE UNCHANGED vars
    <2>1. \A n \in Messages : SafeMessage(n)' = SafeMessage(n)
      BY <1>3 DEF vars, SafeMessage, Covered, Guarded, Fresh, Alone, Remembers, Silent,
                  Sending, Launched, Holds, Recipients, Doubt
    <2> QED
      BY <1>1, <1>3, <2>1 DEF vars, Inv
  <1> QED
    BY <1>2, <1>3

\* As long as no device signs in again, no device gets a message twice, however the
\* workers overlap, stop or lose answers (push-outbox.service.js:285).
THEOREM RingsOnce == Spec => []RepeatNeedsReturn
  <1>1. Inv => RepeatNeedsReturn
    <2> SUFFICES ASSUME Inv, NEW m \in Messages, NEW t \in Devices, shown[m][t] > 1,
                        returned = {}
                 PROVE  FALSE
      BY DEF RepeatNeedsReturn
    <2>1. shown[m][t] <= 1 /\ shown[m][t] \in 0..2
      BY DEF Inv, SafeMessage, TypeOK
    <2> QED
      BY <2>1
  <1> QED
    BY <1>1, InvInit, InvStep, PTL DEF Spec

=============================================================================
