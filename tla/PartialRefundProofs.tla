------------------------- MODULE PartialRefundProofs --------------------------
(* What PartialRefund keeps for any order, any number of refund requests and     *)
(* operators, and any answers of the bank.                                      *)
EXTENDS PartialRefund, FiniteSetTheorems, TLAPS

-------------------------------------------------------------------------------
(* Types.                                                                      *)

LEMMA IdFacts ==
    /\ Requests \subseteq Ids /\ FullIds \subseteq Ids
    /\ NoId \notin Ids
    /\ Requests \cap FullIds = {}
    /\ Operators \subseteq Handlers
    /\ {"worker", "cancel", "recon"} \subseteq Handlers
BY RefundAssumption DEF Ids, FullIds, NoId, Handlers

LEMMA UntouchedType == Untouched \in Order /\ None \in Job
BY DEF Untouched, Order, None, Job, Calls

\* Sets of units are finite, and so are the amounts.
LEMMA Amounts ==
    ASSUME NEW S \in SUBSET Units
    PROVE  IsFiniteSet(S) /\ Cardinality(S) \in Nat /\ Cardinality(S) <= Cardinality(Units)
BY RefundAssumption, FS_Subset, FS_CardinalityType

LEMMA ItemsType ==
    ASSUME TypeOK, NEW S \in SUBSET Requests
    PROVE  ItemsOf(S) \in SUBSET Units
BY DEF TypeOK, ItemsOf, Row

LEMMA JobTypes ==
    ASSUME TypeOK, NEW h \in Handlers
    PROVE  /\ \A call \in Calls : Go(h, call) => job' \in [Handlers -> Job]
           /\ \A call \in Calls, answer \in {"none", "ok"} \cup AllFaults :
                 Hear(h, call, answer) => job' \in [Handlers -> Job]
           /\ \A call \in Calls, id \in Ids \cup {NoId}, units \in SUBSET Units, seen \in Order :
                 Enter(h, call, id, units, seen) => job' \in [Handlers -> Job]
           /\ Finish(h) => job' \in [Handlers -> Job]
<1> USE UntouchedType DEF TypeOK
<1>1. ASSUME NEW call \in Calls, Go(h, call) PROVE job' \in [Handlers -> Job]
  BY <1>1 DEF Go, Job
<1>2. ASSUME NEW call \in Calls, NEW answer \in {"none", "ok"} \cup AllFaults,
             Hear(h, call, answer)
      PROVE job' \in [Handlers -> Job]
  BY <1>2 DEF Hear, Job
<1>3. ASSUME NEW call \in Calls, NEW id \in Ids \cup {NoId}, NEW units \in SUBSET Units,
             NEW seen \in Order, Enter(h, call, id, units, seen)
      PROVE job' \in [Handlers -> Job]
  BY <1>3 DEF Enter, Job
<1>4. Finish(h) => job' \in [Handlers -> Job]
  BY DEF Finish
<1> QED BY <1>1, <1>2, <1>3, <1>4

LEMMA AnswerTypes ==
    ASSUME NEW i, NEW units
    PROVE  Answers(i, units) \subseteq {"ok"} \cup AllFaults
BY RefundAssumption DEF Answers, AllFaults

\* One answer of the bank writes the record of one id.
LEMMA DecideTypes ==
    ASSUME TypeOK, NEW i \in Ids, NEW units \in SUBSET Units,
           NEW s \in {"none", "slow", "done", "declined"}, Decide(i, units, s)
    PROVE  bank' \in [Ids -> Money] /\ returned' \in Nat
BY Amounts DEF TypeOK, Decide, Money

LEMMA CallTypes ==
    ASSUME TypeOK, NEW i \in Ids, NEW units \in SUBSET Units, NEW answer,
           RefundCall(i, units, answer)
    PROVE  bank' \in [Ids -> Money] /\ returned' \in Nat
<1> DEFINE known == IF bank[i].state = "none" THEN units ELSE bank[i].units
<1>1. known \in SUBSET Units
  BY DEF TypeOK, Money
<1>2. \/ UNCHANGED <<bank, returned>>
      \/ \E s \in {"slow", "done", "declined"} : Decide(i, known, s)
  BY DEF RefundCall, Unheard
<1> QED BY <1>1, <1>2, DecideTypes DEF TypeOK

\* The functions of the database keep the types of what they write.
LEMMA FunctionTypes ==
    ASSUME TypeOK, NEW r \in Requests
    PROVE  /\ \A items \in SUBSET Units : ClaimPartial(r, items)
                 => rows' \in [Requests -> Row] /\ order' \in Order
           /\ FailPartial(r) => rows' \in [Requests -> Row] /\ order' \in Order
           /\ \A reference \in Ids \cup {NoId} : MarkUnknown(r, reference)
                 => rows' \in [Requests -> Row] /\ order' \in Order
           /\ DeclinePartial(r) => rows' \in [Requests -> Row] /\ order' \in Order
           /\ CompletePartial(r) => rows' \in [Requests -> Row] /\ order' \in Order
           /\ BookPartial(r) => /\ rows' \in [Requests -> Row]
                                /\ credit' \in [parts : Nat, given : BOOLEAN, amount : Nat]
<1>0. /\ r \in Ids \cup {NoId} /\ order \in Order /\ rows \in [Requests -> Row]
      /\ credit \in [parts : Nat, given : BOOLEAN, amount : Nat]
  BY IdFacts DEF TypeOK
<1>1. ASSUME NEW items \in SUBSET Units, ClaimPartial(r, items)
      PROVE rows' \in [Requests -> Row] /\ order' \in Order
  <2>1. rows' \in [Requests -> Row]
    BY <1>0, <1>1 DEF ClaimPartial, Row, RowStatus
  <2>2. order' \in Order
    BY <1>0, <1>1 DEF ClaimPartial, Order
  <2> QED BY <2>1, <2>2
<1>2. FailPartial(r) => rows' \in [Requests -> Row] /\ order' \in Order
  BY <1>0 DEF FailPartial, Idle, Row, RowStatus, Order
<1>3. ASSUME NEW reference \in Ids \cup {NoId}, MarkUnknown(r, reference)
      PROVE rows' \in [Requests -> Row] /\ order' \in Order
  <2>1. CASE r \in Active
    <3>1. rows' \in [Requests -> Row]
      BY <1>0, <1>3, <2>1 DEF MarkUnknown, Row, RowStatus
    <3>2. order' \in Order
      BY <1>0, <1>3, <2>1 DEF MarkUnknown, Order
    <3> QED BY <3>1, <3>2
  <2>2. CASE r \notin Active
    BY <1>0, <1>3, <2>2 DEF MarkUnknown
  <2> QED BY <2>1, <2>2
<1>4. DeclinePartial(r) => rows' \in [Requests -> Row] /\ order' \in Order
  BY <1>0 DEF DeclinePartial, Idle, Row, RowStatus, Order
<1>5. ASSUME CompletePartial(r) PROVE rows' \in [Requests -> Row] /\ order' \in Order
  <2>1. rows' \in [Requests -> Row]
    BY <1>0, <1>5 DEF CompletePartial, Row, RowStatus
  <2>2. rows[r].items \in SUBSET Units
    BY <1>0 DEF Row
  <2>3. order' \in Order
    BY <1>0, <1>5, <2>2 DEF CompletePartial, Order
  <2> QED BY <2>1, <2>3
<1>6. ASSUME BookPartial(r)
      PROVE  /\ rows' \in [Requests -> Row]
             /\ credit' \in [parts : Nat, given : BOOLEAN, amount : Nat]
  <2>1. Succeeded \subseteq Requests
    BY DEF Succeeded, WithStatus
  <2> DEFINE due == Cardinality(ItemsOf(Succeeded))
  <2>2. due \in Nat
    BY <2>1, ItemsType, Amounts
  <2>3. rows' \in [Requests -> Row]
    <3>1. rows' = rows \/ rows' = [rows EXCEPT ![r].booked = TRUE]
      BY <1>6 DEF BookPartial
    <3> QED BY <1>0, <3>1 DEF Row
  <2>4. credit' = credit \/ credit' = [credit EXCEPT !.parts = IF due > @ THEN due ELSE @]
    BY <1>6 DEF BookPartial
  <2> HIDE DEF due
  <2>5. credit' \in [parts : Nat, given : BOOLEAN, amount : Nat]
    <3>1. credit.parts \in Nat
      BY <1>0
    <3>2. CASE credit' = credit
      BY <1>0, <3>2
    <3>3. CASE credit' = [credit EXCEPT !.parts = IF due > @ THEN due ELSE @]
      BY <1>0, <2>2, <3>1, <3>3
    <3> QED BY <2>4, <3>2, <3>3
  <2> QED BY <2>3, <2>5
<1> QED BY <1>1, <1>2, <1>3, <1>4, <1>5, <1>6

\* What the handlers carry is well typed.
LEMMA Carried ==
    ASSUME TypeOK, NEW h \in Handlers
    PROVE  /\ job[h].id \in Ids \cup {NoId} /\ job[h].units \in SUBSET Units
           /\ job[h].seen \in Order /\ job[h].answer \in {"none", "ok"} \cup AllFaults
           /\ job[h].call \in Calls
BY DEF TypeOK, Job

LEMMA StartTypes ==
    ASSUME TypeOK,
           \/ \E h \in Operators, r \in Requests : CreateStart(h, r)
           \/ \E r \in Requests : WorkerStart(r) \/ WorkerReadjust(r)
           \/ \E reuse \in BOOLEAN : CancelStart(reuse)
           \/ ReconStart \/ FollowupStart
    PROVE  TypeOK'
<1> USE IdFacts, JobTypes, UntouchedType DEF Begin, BeginWithOrder, Calls
<1>1. /\ Succeeded \in SUBSET Requests /\ ItemsOf(Succeeded) \in SUBSET Units
      /\ order.req \in Ids \cup {NoId} /\ order \in Order
  <2>1. Succeeded \in SUBSET Requests
    BY DEF Succeeded, WithStatus
  <2> QED BY <2>1, ItemsType DEF TypeOK, Order
<1>2. ASSUME NEW h \in Operators, NEW r \in Requests, CreateStart(h, r) PROVE TypeOK'
  <2>1. \/ \E items \in SUBSET (Units \ ItemsOf(Succeeded)) : Enter(h, "claim", r, items, Untouched)
        \/ Enter(h, "book", r, {}, Untouched)
    BY <1>2 DEF CreateStart
  <2>2. job' \in [Handlers -> Job]
    BY <2>1
  <2> QED BY <1>2, <2>2 DEF CreateStart, TypeOK
<1>3. ASSUME NEW r \in Requests, WorkerStart(r) PROVE TypeOK'
  <2>1. job' \in [Handlers -> Job]
    BY <1>1, <1>3 DEF WorkerStart
  <2>2. rows' \in [Requests -> Row] /\ order' \in Order
    <3>1. CASE UNCHANGED <<order, rows>>
      BY <3>1 DEF TypeOK
    <3>2. CASE MarkUnknown(r, NoId)
      BY <3>2, FunctionTypes
    <3> QED BY <1>3, <3>1, <3>2 DEF WorkerStart
  <2> QED BY <1>3, <2>1, <2>2 DEF WorkerStart, TypeOK
<1>4. ASSUME NEW r \in Requests, WorkerReadjust(r) PROVE TypeOK'
  <2>1. job' \in [Handlers -> Job]
    BY <1>4 DEF WorkerReadjust
  <2> QED BY <1>4, <2>1 DEF WorkerReadjust, TypeOK
<1>5. ASSUME NEW reuse \in BOOLEAN, CancelStart(reuse) PROVE TypeOK'
  <2> DEFINE id == IF reuse THEN order.req ELSE issued + 1
  <2>1. issued \in 0..MaxFull /\ (~reuse => issued < MaxFull)
    BY <1>5 DEF CancelStart, TypeOK
  <2>2. id \in Ids \cup {NoId}
    BY <1>1, <2>1, RefundAssumption DEF FullIds
  <2>3. Enter("cancel", "claim", id, {}, order)
    BY <1>5 DEF CancelStart
  <2>4. job' \in [Handlers -> Job]
    BY <1>1, <2>2, <2>3
  <2> QED BY <1>5, <2>4 DEF CancelStart, TypeOK
<1>6. ASSUME ReconStart PROVE TypeOK'
  <2>1. job' \in [Handlers -> Job]
    BY <1>1, <1>6 DEF ReconStart
  <2> QED BY <1>6, <2>1 DEF ReconStart, TypeOK
<1>7. ASSUME FollowupStart PROVE TypeOK'
  <2>1. job' \in [Handlers -> Job]
    BY <1>7 DEF FollowupStart
  <2> QED BY <1>7, <2>1 DEF FollowupStart, TypeOK
<1> QED BY <1>2, <1>3, <1>4, <1>5, <1>6, <1>7


LEMMA CreateTypes ==
    ASSUME TypeOK, NEW h \in Handlers,
           \/ h \in Operators /\ (CreateClaim(h) \/ CreateBank(h) \/ CreateFail(h) \/ CreateUnknown(h))
           \/ h \in Operators \cup {"worker"} /\ (Complete(h) \/ Book(h) \/ Mark(h)),
           job[h].id \in Requests
    PROVE  TypeOK'
<1> USE JobTypes, Carried DEF Calls
<1>1. CASE CreateClaim(h)
  <2>1. job' \in [Handlers -> Job]
    BY <1>1 DEF CreateClaim
  <2>2. UNCHANGED <<order, rows>> \/ ClaimPartial(job[h].id, job[h].units)
    BY <1>1 DEF CreateClaim
  <2>3. rows' \in [Requests -> Row] /\ order' \in Order
    BY <2>2, FunctionTypes DEF TypeOK
  <2> QED BY <1>1, <2>1, <2>3 DEF CreateClaim, TypeOK
<1>2. CASE CreateBank(h)
  <2>1. job' \in [Handlers -> Job]
    <3>1. CASE Spent
      BY <1>2, <3>1 DEF CreateBank, AllFaults
    <3>2. CASE ~Spent
      <4>1. PICK answer \in Answers(job[h].id, job[h].units) :
                Hear(h, CASE answer = "ok" -> "complete"
                          [] answer \in Uncertain -> "unknown"
                          [] OTHER -> "fail", answer)
        BY <1>2, <3>2 DEF CreateBank
      <4>2. answer \in {"none", "ok"} \cup AllFaults
        BY <4>1, AnswerTypes
      <4> QED BY <4>1, <4>2
    <3> QED BY <3>1, <3>2
  <2>2. Unheard \/ \E answer : RefundCall(job[h].id, job[h].units, answer)
    BY <1>2 DEF CreateBank
  <2>3. bank' \in [Ids -> Money] /\ returned' \in Nat
    BY <2>2, CallTypes, IdFacts DEF Unheard, TypeOK
  <2> QED BY <1>2, <2>1, <2>3 DEF CreateBank, TypeOK
<1>3. CASE CreateFail(h)
  <2>1. job' \in [Handlers -> Job]
    BY <1>3 DEF CreateFail
  <2> QED BY <1>3, <2>1, FunctionTypes DEF CreateFail, TypeOK
<1>4. CASE CreateUnknown(h)
  <2>1. job' \in [Handlers -> Job]
    BY <1>4 DEF CreateUnknown
  <2>2. rows' \in [Requests -> Row] /\ order' \in Order
    BY <1>4, FunctionTypes DEF CreateUnknown
  <2> QED BY <1>4, <2>1, <2>2 DEF CreateUnknown, TypeOK
<1>5. CASE Complete(h)
  <2>1. job' \in [Handlers -> Job]
    BY <1>5 DEF Complete
  <2>2. UNCHANGED <<order, rows>> \/ CompletePartial(job[h].id)
    BY <1>5 DEF Complete
  <2>3. rows' \in [Requests -> Row] /\ order' \in Order
    BY <2>2, FunctionTypes DEF TypeOK
  <2> QED BY <1>5, <2>1, <2>3 DEF Complete, TypeOK
<1>6. CASE Book(h)
  <2>1. job' \in [Handlers -> Job]
    BY <1>6 DEF Book
  <2> QED BY <1>6, <2>1, FunctionTypes DEF Book, TypeOK
<1>7. CASE Mark(h)
  <2>1. job' \in [Handlers -> Job]
    BY <1>7 DEF Mark
  <2>2. \E b \in BOOLEAN : rows' = [rows EXCEPT ![job[h].id].marked = b]
    <3>1. rows[job[h].id].marked \in BOOLEAN
      BY DEF TypeOK, Row
    <3> DEFINE b == rows[job[h].id].marked \/ rows[job[h].id].status = "succeeded"
    <3>2. b \in BOOLEAN /\ rows' = [rows EXCEPT ![job[h].id].marked = b]
      BY <1>7 DEF Mark
    <3> HIDE DEF b
    <3> QED BY <3>2
  <2>3. rows' \in [Requests -> Row]
    BY <2>2 DEF TypeOK, Row
  <2> QED BY <1>7, <2>1, <2>3 DEF Mark, TypeOK
<1> QED BY <1>1, <1>2, <1>3, <1>4, <1>5, <1>6, <1>7


LEMMA WorkerTypes ==
    ASSUME TypeOK, WorkerResolve \/ WorkerDecline, job["worker"].id \in Requests
    PROVE  TypeOK'
<1> USE JobTypes, Carried, IdFacts DEF Calls
<1> DEFINE r == job["worker"].id
<1>1. CASE WorkerResolve
  <2>1. job' \in [Handlers -> Job]
    BY <1>1 DEF WorkerResolve
  <2>2. rows[r].items \in SUBSET Units
    BY DEF TypeOK, Row
  <2>3. Unheard \/ \E answer : RefundCall(r, rows[r].items, answer)
    BY <1>1 DEF WorkerResolve
  <2>4. bank' \in [Ids -> Money] /\ returned' \in Nat
    BY <2>2, <2>3, CallTypes DEF Unheard, TypeOK
  <2> QED BY <1>1, <2>1, <2>4 DEF WorkerResolve, TypeOK
<1>2. CASE WorkerDecline
  <2>1. job' \in [Handlers -> Job]
    BY <1>2 DEF WorkerDecline
  <2> QED BY <1>2, <2>1, FunctionTypes DEF WorkerDecline, TypeOK
<1> QED BY <1>1, <1>2

LEMMA FinalTypes ==
    ASSUME TypeOK, NEW reference \in Ids \cup {NoId}, FinalizeFull(reference)
    PROVE  order' \in Order
BY DEF TypeOK, FinalizeFull, Order

LEMMA ReverseTypes ==
    ASSUME TypeOK, NEW h \in Handlers, Reverse(h)
    PROVE  TypeOK'
<1>1. job' \in [Handlers -> Job]
  BY JobTypes DEF Reverse
<1>2. order' \in Order
  BY DEF Reverse, TypeOK, Order
<1>3. Rest \in Nat
  BY Amounts DEF Rest, TypeOK
<1>4. credit' \in [parts : Nat, given : BOOLEAN, amount : Nat]
  <2>1. credit' = credit \/ credit' = [credit EXCEPT !.given = TRUE, !.amount = Rest]
    BY DEF Reverse, ReverseRest
  <2> QED BY <1>3, <2>1 DEF TypeOK
<1> QED BY <1>1, <1>2, <1>4 DEF Reverse, TypeOK

LEMMA CancelTypes ==
    ASSUME TypeOK, CancelClaim \/ CancelBank \/ CancelFail \/ CancelFinal,
           job["cancel"].id \in FullIds
    PROVE  TypeOK'
<1> USE JobTypes, Carried, IdFacts DEF Calls
<1> DEFINE id == job["cancel"].id
<1>0. id \in Ids /\ id \in 0..MaxFull
  BY RefundAssumption DEF FullIds
<1>1. CASE CancelClaim
  <2> DEFINE seen == job["cancel"].seen
             claim(at, old) == [order EXCEPT !.refund = "processing", !.req = id,
                                             !.at = at, !.old = old]
  <2>1. CASE Finish("cancel") /\ UNCHANGED <<order, issued>>
    BY <1>1, <2>1 DEF CancelClaim, TypeOK
  <2>2. CASE order.status = "paid" /\ order.refund = seen.refund
    <3>1. \/ order' = claim(seen.at, seen.old)
          \/ order' = claim(id, FALSE)
      BY <1>1, <2>2 DEF CancelClaim
    <3>2. seen.at \in Ids \cup {NoId} /\ seen.old \in BOOLEAN
      BY DEF Order
    <3>3. order' \in Order
      <4>1. ASSUME NEW at \in Ids \cup {NoId}, NEW old \in BOOLEAN
            PROVE  claim(at, old) \in Order
        <5>1. id \in FullIds
          OBVIOUS
        <5> HIDE DEF id
        <5> QED BY ONLY <1>0, TypeOK, <4>1, <5>1 DEF TypeOK, Order
      <4> HIDE DEF claim
      <4> QED BY ONLY <1>0, <3>1, <3>2, <4>1
    <3>4. issued' \in 0..MaxFull
      BY <1>0, <1>1, <2>2 DEF CancelClaim, TypeOK
    <3>5. job' = [job EXCEPT !["cancel"].call = "bank", !["cancel"].seen = order',
                             !["cancel"].units = Units \ order.refunded]
      BY <1>1, <2>2 DEF CancelClaim
    <3>6. job' \in [Handlers -> Job]
      <4>1. Units \ order.refunded \in SUBSET Units /\ "bank" \in Calls
        OBVIOUS
      <4>2. job["cancel"] \in Job /\ job \in [Handlers -> Job]
        BY DEF TypeOK
      <4> QED BY <3>3, <3>5, <4>1, <4>2 DEF Job
    <3> QED BY <1>1, <3>3, <3>4, <3>6 DEF CancelClaim, TypeOK
  <2> QED BY <1>1, <2>1, <2>2 DEF CancelClaim
<1>2. CASE CancelBank
  <2>1. Unheard \/ \E answer : RefundCall(id, job["cancel"].units, answer)
    BY <1>2 DEF CancelBank
  <2>2. bank' \in [Ids -> Money] /\ returned' \in Nat
    BY <1>0, <2>1, CallTypes DEF Unheard, TypeOK
  <2>3. \/ Hear("cancel", "fail", "rejected")
        \/ \E answer \in Answers(id, job["cancel"].units) :
              Hear("cancel", IF answer = "ok" THEN "final" ELSE "fail", answer)
    BY <1>2 DEF CancelBank
  <2>4. job' \in [Handlers -> Job]
    BY <2>3, AnswerTypes DEF AllFaults
  <2> QED BY <1>2, <2>2, <2>4 DEF CancelBank, TypeOK
<1>3. CASE CancelFail
  <2>1. order' \in Order
    <3>1. \/ order' = order
          \/ \E refund \in {"unknown", "failed"}, ref \in {id, order.ref} :
                order' = [order EXCEPT !.refund = refund, !.ref = ref]
      BY <1>3 DEF CancelFail
    <3> QED BY <1>0, <3>1 DEF TypeOK, Order
  <2>2. job' \in [Handlers -> Job]
    BY <1>3 DEF CancelFail
  <2> QED BY <1>3, <2>1, <2>2 DEF CancelFail, TypeOK
<1>4. CASE CancelFinal
  <2>1. job' \in [Handlers -> Job]
    BY <1>4 DEF CancelFinal
  <2>2. order' \in Order
    BY <1>0, <1>4, FinalTypes DEF CancelFinal, TypeOK
  <2> QED BY <1>4, <2>1, <2>2 DEF CancelFinal, TypeOK
<1> QED BY <1>1, <1>2, <1>3, <1>4

LEMMA ReconTypes ==
    ASSUME TypeOK, ReconCheck \/ ReconTakeover \/ ReconResolve \/ ReconDecline
                   \/ ReconDefer \/ ReconFinal
    PROVE  TypeOK'
<1> USE JobTypes, Carried, IdFacts DEF Calls
<1> DEFINE seen == job["recon"].seen
<1>0. /\ seen.req \in FullIds \cup {NoId} /\ seen.ref \in Ids \cup {NoId}
      /\ seen.refunded \in SUBSET Units
  BY DEF Order
<1>1. CASE ReconCheck
  <2>1. job' \in [Handlers -> Job]
    BY <1>1 DEF ReconCheck
  <2> QED BY <1>1, <2>1 DEF ReconCheck, TypeOK
<1>2. CASE ReconTakeover
  <2>1. CASE Finish("recon") /\ UNCHANGED order
    BY <1>2, <2>1 DEF ReconTakeover, TypeOK
  <2>2. CASE /\ order' = [order EXCEPT !.refund = "unknown"]
             /\ job' = [job EXCEPT !["recon"].call = "resolve", !["recon"].seen = order']
    <3>1. order' \in Order
      BY <2>2 DEF TypeOK, Order
    <3>2. job' \in [Handlers -> Job]
      <4>1. job["recon"] \in Job /\ job \in [Handlers -> Job]
        BY DEF TypeOK
      <4> QED BY <2>2, <3>1, <4>1 DEF Job
    <3> QED BY <1>2, <3>1, <3>2 DEF ReconTakeover, TypeOK
  <2> QED BY <1>2, <2>1, <2>2 DEF ReconTakeover
<1>3. CASE ReconResolve
  <2>1. \/ Unheard
        \/ seen.req # NoId /\ \E answer : RefundCall(seen.req, Units \ seen.refunded, answer)
    BY <1>3 DEF ReconResolve
  <2>2. bank' \in [Ids -> Money] /\ returned' \in Nat
    BY <1>0, <2>1, CallTypes DEF Unheard, TypeOK
  <2>3. \/ Finish("recon")
        \/ Hear("recon", "final", "ok") \/ Hear("recon", "decline", "declined")
        \/ \E answer \in Answers(seen.req, Units \ seen.refunded) :
              \E call \in {"final", "decline", "fail"} : Hear("recon", call, answer)
    BY <1>3 DEF ReconResolve
  <2>4. job' \in [Handlers -> Job]
    BY <2>3, AnswerTypes DEF AllFaults
  <2> QED BY <1>3, <2>2, <2>4 DEF ReconResolve, TypeOK
<1>4. CASE ReconDecline
  <2>1. order' = order \/ order' = [order EXCEPT !.refund = "failed"]
    BY <1>4 DEF ReconDecline
  <2>2. order' \in Order
    BY <2>1 DEF TypeOK, Order
  <2>3. job' \in [Handlers -> Job]
    BY <1>4 DEF ReconDecline
  <2> QED BY <1>4, <2>2, <2>3 DEF ReconDecline, TypeOK
<1>5. CASE ReconDefer
  <2>1. order' = order \/ order' = [order EXCEPT !.ref = seen.req]
    BY <1>5 DEF ReconDefer
  <2>2. order' \in Order
    BY <1>0, <2>1 DEF TypeOK, Order
  <2>3. job' \in [Handlers -> Job]
    BY <1>5 DEF ReconDefer
  <2> QED BY <1>5, <2>2, <2>3 DEF ReconDefer, TypeOK
<1>6. CASE ReconFinal
  <2>1. job' \in [Handlers -> Job]
    BY <1>6 DEF ReconFinal
  <2>2. order' \in Order
    BY <1>0, <1>6, FinalTypes DEF ReconFinal, TypeOK
  <2> QED BY <1>6, <2>1, <2>2 DEF ReconFinal, TypeOK
<1> QED BY <1>1, <1>2, <1>3, <1>4, <1>5, <1>6

LEMMA OtherTypes ==
    ASSUME TypeOK, RowAges \/ OrderAges \/ BankDecide \/ \E h \in Handlers : Stop(h)
    PROVE  TypeOK'
<1>1. CASE RowAges
  <2>1. rows' \in [Requests -> Row]
    BY <1>1 DEF RowAges, TypeOK, Row
  <2> QED BY <1>1, <2>1 DEF RowAges, TypeOK
<1>2. CASE OrderAges
  <2>1. order' \in Order
    BY <1>2 DEF OrderAges, TypeOK, Order
  <2> QED BY <1>2, <2>1 DEF OrderAges, TypeOK
<1>3. CASE BankDecide
  <2>1. \E i \in Ids, s \in {"done", "declined"} : Decide(i, bank[i].units, s)
    BY <1>3 DEF BankDecide
  <2>2. \A i \in Ids : bank[i].units \in SUBSET Units
    BY DEF TypeOK, Money
  <2>3. bank' \in [Ids -> Money] /\ returned' \in Nat
    BY <2>1, <2>2, DecideTypes
  <2> QED BY <1>3, <2>3 DEF BankDecide, TypeOK
<1>4. ASSUME NEW h \in Handlers, Stop(h) PROVE TypeOK'
  <2>1. job' \in [Handlers -> Job]
    BY <1>4, JobTypes DEF Stop
  <2>2. stops' \in 0..MaxStops
    BY <1>4, RefundAssumption DEF Stop, TypeOK
  <2> QED BY <1>4, <2>1, <2>2 DEF Stop, TypeOK
<1> QED BY <1>1, <1>2, <1>3, <1>4


-------------------------------------------------------------------------------
(* Whose job it is: operators and the worker carry a request, a cancellation the *)
(* id of a full refund.                                                        *)

Owned ==
    /\ \A h \in Operators \cup {"worker"} : ~At(h, "idle") => job[h].id \in Requests
    /\ ~At("cancel", "idle") => job["cancel"].id \in FullIds

\* A step of handler h and what it leaves of it.
Others(h) == \A k \in Handlers \ {h} : job'[k] = job[k]
Kept(h) == /\ job'[h].id = job[h].id /\ job'[h].units = job[h].units
           /\ job'[h].seen = job[h].seen

LEMMA JobMoves ==
    ASSUME TypeOK, NEW h \in Handlers
    PROVE  /\ \A call : Go(h, call) => /\ Others(h) /\ Kept(h)
                                       /\ job'[h].call = call
                                       /\ job'[h].answer = job[h].answer
           /\ \A call, answer : Hear(h, call, answer)
                 => Others(h) /\ Kept(h) /\ job'[h].call = call /\ job'[h].answer = answer
           /\ \A call, id, units, seen : Enter(h, call, id, units, seen)
                 => /\ Others(h) /\ job[h].call = "idle"
                    /\ job'[h].call = call /\ job'[h].id = id /\ job'[h].units = units
                    /\ job'[h].answer = "none" /\ job'[h].seen = seen
           /\ Finish(h) => Others(h) /\ job'[h].call = "idle"
<1> USE DEF TypeOK, Others, Kept
<1>1. ASSUME NEW call, Go(h, call)
      PROVE /\ Others(h) /\ Kept(h) /\ job'[h].call = call /\ job'[h].answer = job[h].answer
  BY <1>1 DEF Go, Job
<1>2. ASSUME NEW call, NEW answer, Hear(h, call, answer)
      PROVE Others(h) /\ Kept(h) /\ job'[h].call = call /\ job'[h].answer = answer
  BY <1>2 DEF Hear, Job
<1>3. ASSUME NEW call, NEW id, NEW units, NEW seen, Enter(h, call, id, units, seen)
      PROVE /\ Others(h) /\ job[h].call = "idle"
            /\ job'[h].call = call /\ job'[h].id = id /\ job'[h].units = units
            /\ job'[h].answer = "none" /\ job'[h].seen = seen
  BY <1>3 DEF Enter, At
<1>4. Finish(h) => Others(h) /\ job'[h].call = "idle"
  BY DEF Finish, None
<1> QED BY <1>1, <1>2, <1>3, <1>4

\* A handler that goes on with what it has, or ends, changes nobody's charge.
LEMMA OwnedStep ==
    ASSUME Owned, NEW h \in Handlers, Others(h),
           job'[h].call = "idle" \/ (job'[h].id = job[h].id /\ job[h].call # "idle")
    PROVE  Owned'
BY IdFacts DEF Owned, Others, At

LEMMA TypeStep ==
    ASSUME TypeOK, Owned, [Next]_vars
    PROVE  TypeOK' /\ Owned'
<1> USE IdFacts
<1> DEFINE goes(h) == /\ h \in Handlers /\ Others(h)
                      /\ job'[h].call = "idle" \/ (job'[h].id = job[h].id /\ job[h].call # "idle")
<1>0. \A h : goes(h) => Owned'
  BY OwnedStep
<1>1. \A h \in Handlers : /\ \A call : Go(h, call) /\ job[h].call # "idle" => goes(h)
                          /\ \A call, answer : Hear(h, call, answer) /\ job[h].call # "idle" => goes(h)
                          /\ Finish(h) => goes(h)
  BY JobMoves DEF Kept
<1> HIDE DEF goes
<1>2. ASSUME NEW h \in Operators, NEW r \in Requests, CreateStart(h, r) PROVE TypeOK' /\ Owned'
  <2>1. \/ \E units \in SUBSET (Units \ ItemsOf(Succeeded)) : Enter(h, "claim", r, units, Untouched)
        \/ Enter(h, "book", r, {}, Untouched)
    BY <1>2 DEF CreateStart, Begin
  <2>2. Others(h) /\ job'[h].id = r
    BY <2>1, JobMoves
  <2>3. h # "cancel"
    BY RefundAssumption
  <2> QED BY <1>2, <2>2, <2>3, StartTypes DEF Owned, Others, At
<1>3. ASSUME NEW r \in Requests, WorkerStart(r) \/ WorkerReadjust(r) PROVE TypeOK' /\ Owned'
  <2>1. \/ Enter("worker", "resolve", r, ItemsOf(Succeeded), Untouched)
        \/ Enter("worker", "book", r, {}, Untouched)
    BY <1>3 DEF WorkerStart, WorkerReadjust, Begin
  <2>2. Others("worker") /\ job'["worker"].id = r
    BY <2>1, JobMoves
  <2> QED BY <1>3, <2>2, StartTypes DEF Owned, Others, At
<1>4. ASSUME NEW reuse \in BOOLEAN, CancelStart(reuse) PROVE TypeOK' /\ Owned'
  <2> DEFINE id == IF reuse THEN order.req ELSE issued + 1
  <2>1. id \in FullIds
    BY <1>4, RefundAssumption DEF CancelStart, TypeOK, Order, FullIds, NoId
  <2>2. Enter("cancel", "claim", id, {}, order)
    BY <1>4 DEF CancelStart, BeginWithOrder
  <2> HIDE DEF id
  <2>3. Others("cancel") /\ job'["cancel"].id = id
    BY <2>2, JobMoves
  <2>4. "cancel" \notin Operators \cup {"worker"}
    BY RefundAssumption
  <2> QED BY <1>4, <2>1, <2>3, <2>4, StartTypes DEF Owned, Others, At
<1>5. ASSUME ReconStart \/ FollowupStart PROVE TypeOK' /\ Owned'
  <2>1. \/ Enter("recon", "check", order.req, {}, order)
        \/ Enter("recon", "reverse", NoId, {}, Untouched)
    BY <1>5 DEF ReconStart, FollowupStart, Begin, BeginWithOrder
  <2>2. Others("recon")
    BY <2>1, JobMoves
  <2>3. "recon" \notin Operators \cup {"worker", "cancel"}
    BY RefundAssumption
  <2> QED BY <1>5, <2>2, <2>3, StartTypes DEF Owned, Others, At
<1>6. ASSUME NEW h \in Operators,
             CreateClaim(h) \/ CreateBank(h) \/ CreateFail(h) \/ CreateUnknown(h)
      PROVE TypeOK' /\ Owned'
  <2>1. job[h].call # "idle"
    BY <1>6 DEF CreateClaim, CreateBank, CreateFail, CreateUnknown, At
  <2>2. goes(h)
    BY <1>1, <1>6, <2>1 DEF CreateClaim, CreateBank, CreateFail, CreateUnknown
  <2>3. job[h].id \in Requests
    BY <2>1 DEF Owned, At
  <2> QED BY <1>0, <1>6, <2>2, <2>3, CreateTypes
<1>7. ASSUME NEW h \in Operators \cup {"worker"}, Complete(h) \/ Book(h) \/ Mark(h)
      PROVE TypeOK' /\ Owned'
  <2>1. job[h].call # "idle"
    BY <1>7 DEF Complete, Book, Mark, At
  <2>2. goes(h)
    BY <1>1, <1>7, <2>1 DEF Complete, Book, Mark
  <2>3. job[h].id \in Requests
    BY <2>1 DEF Owned, At
  <2> QED BY <1>0, <1>7, <2>2, <2>3, CreateTypes
<1>8. ASSUME WorkerResolve \/ WorkerDecline PROVE TypeOK' /\ Owned'
  <2>1. job["worker"].call # "idle"
    BY <1>8 DEF WorkerResolve, WorkerDecline, At
  <2>2. goes("worker")
    BY <1>1, <1>8, <2>1 DEF WorkerResolve, WorkerDecline
  <2>3. job["worker"].id \in Requests
    BY <2>1 DEF Owned, At
  <2> QED BY <1>0, <1>8, <2>2, <2>3, WorkerTypes
<1>9. ASSUME CancelClaim \/ CancelBank \/ CancelFail \/ CancelFinal PROVE TypeOK' /\ Owned'
  <2>1. job["cancel"].call # "idle"
    BY <1>9 DEF CancelClaim, CancelBank, CancelFail, CancelFinal, At
  <2>2. goes("cancel")
    <3>1. CASE job' = [job EXCEPT !["cancel"].call = "bank", !["cancel"].seen = order',
                                  !["cancel"].units = Units \ order.refunded]
      BY <2>1, <3>1 DEF goes, Others, TypeOK, Job
    <3>2. CASE ~(job' = [job EXCEPT !["cancel"].call = "bank", !["cancel"].seen = order',
                                    !["cancel"].units = Units \ order.refunded])
      BY <1>1, <1>9, <2>1, <3>2 DEF CancelClaim, CancelBank, CancelFail, CancelFinal
    <3> QED BY <3>1, <3>2
  <2>3. job["cancel"].id \in FullIds
    BY <2>1 DEF Owned, At
  <2> QED BY <1>0, <1>9, <2>2, <2>3, CancelTypes
<1>10. ASSUME ReconCheck \/ ReconTakeover \/ ReconResolve \/ ReconDecline
              \/ ReconDefer \/ ReconFinal
       PROVE TypeOK' /\ Owned'
  <2>1. job["recon"].call # "idle"
    BY <1>10 DEF ReconCheck, ReconTakeover, ReconResolve, ReconDecline, ReconDefer, ReconFinal, At
  <2>2. goes("recon")
    <3>1. CASE job' = [job EXCEPT !["recon"].call = "resolve", !["recon"].seen = order']
      BY <2>1, <3>1 DEF goes, Others, TypeOK, Job
    <3>2. CASE ~(job' = [job EXCEPT !["recon"].call = "resolve", !["recon"].seen = order'])
      BY <1>1, <1>10, <2>1, <3>2
      DEF ReconCheck, ReconTakeover, ReconResolve, ReconDecline, ReconDefer, ReconFinal
    <3> QED BY <3>1, <3>2
  <2> QED BY <1>0, <1>10, <2>2, ReconTypes
<1>11. ASSUME NEW h \in {"cancel", "recon"}, Reverse(h) PROVE TypeOK' /\ Owned'
  <2>1. goes(h)
    BY <1>1, <1>11 DEF Reverse
  <2> QED BY <1>0, <1>11, <2>1, ReverseTypes
<1>12. ASSUME RowAges \/ OrderAges \/ BankDecide PROVE TypeOK' /\ Owned'
  <2>1. job' = job
    BY <1>12 DEF RowAges, OrderAges, BankDecide
  <2> QED BY <1>12, <2>1, OtherTypes DEF Owned, At
<1>13. ASSUME NEW h \in Handlers, Stop(h) PROVE TypeOK' /\ Owned'
  <2>1. goes(h)
    BY <1>1, <1>13 DEF Stop
  <2> QED BY <1>0, <1>13, <2>1, OtherTypes
<1>14. CASE UNCHANGED vars
  BY <1>14 DEF vars, TypeOK, Owned, At
<1> QED
  BY <1>2, <1>3, <1>4, <1>5, <1>6, <1>7, <1>8, <1>9, <1>10, <1>11, <1>12, <1>13, <1>14
  DEF Next, CreateStep, WorkerStep, CancelStep, ReconStep

LEMMA TypeInit == Init => TypeOK /\ Owned
<1> SUFFICES ASSUME Init PROVE TypeOK /\ Owned
  OBVIOUS
<1>1. \A h \in Handlers : job[h] = None
  BY DEF Init
<1>2. Owned
  BY <1>1, IdFacts DEF Owned, At, None
<1>3. order \in Order /\ job \in [Handlers -> Job]
  BY UntouchedType DEF Init
<1>4. rows \in [Requests -> Row]
  BY DEF Init, Row, RowStatus
<1>5. bank \in [Ids -> Money]
  BY DEF Init, Money
<1> QED BY <1>2, <1>3, <1>4, <1>5, RefundAssumption DEF Init, TypeOK

\* Type correctness: every refund, row, answer and amount stays in its type and
\* no amount is ever negative, whoever runs beside whom.
THEOREM TypeCorrect == Spec => []TypeOK
<1>1. TypeOK /\ Owned /\ [Next]_vars => (TypeOK /\ Owned)'
  BY TypeStep
<1> QED BY TypeInit, <1>1, PTL DEF Spec


-------------------------------------------------------------------------------
(* Bonuses.  The adjustment made last has brought the sum up to all that had     *)
(* succeeded by then; whoever succeeds later still has one to make.             *)

Due == Cardinality(ItemsOf(Succeeded))
Booking ==
    /\ \A r \in Requests : rows[r].booked => rows[r].status = "succeeded"
    /\ credit.parts <= Due
    /\ (\A r \in Succeeded : rows[r].booked) => credit.parts = Due

\* A step that finishes no refund and books none.
Quiet == \A r \in Requests :
    /\ rows'[r].booked = rows[r].booked
    /\ rows'[r].status = "succeeded" <=> rows[r].status = "succeeded"
    /\ rows[r].status = "succeeded" => rows'[r].items = rows[r].items

LEMMA QuietRows == UNCHANGED rows => Quiet
BY DEF Quiet

LEMMA QuietFunctions ==
    ASSUME TypeOK, NEW r \in Requests
    PROVE  /\ \A items : ClaimPartial(r, items) /\ rows[r].status = "none" => Quiet
           /\ FailPartial(r) => Quiet
           /\ \A reference : MarkUnknown(r, reference) => Quiet
           /\ DeclinePartial(r) => Quiet
<1> USE DEF TypeOK, Row, Quiet
<1>1. ASSUME NEW items, ClaimPartial(r, items), rows[r].status = "none" PROVE Quiet
  BY <1>1 DEF ClaimPartial
<1>2. FailPartial(r) => Quiet
  BY DEF FailPartial
<1>3. ASSUME NEW reference, MarkUnknown(r, reference) PROVE Quiet
  BY <1>3 DEF MarkUnknown, Active, WithStatus
<1>4. DeclinePartial(r) => Quiet
  BY DEF DeclinePartial, Active, WithStatus
<1> QED BY <1>1, <1>2, <1>3, <1>4

LEMMA QuietBooking ==
    ASSUME Booking, Quiet, credit'.parts = credit.parts
    PROVE  Booking'
<1>1. Succeeded' = Succeeded /\ ItemsOf(Succeeded)' = ItemsOf(Succeeded)
  BY DEF Quiet, Succeeded, WithStatus, ItemsOf
<1>2. Due' = Due
  BY <1>1 DEF Due
<1> QED BY <1>1, <1>2 DEF Booking, Quiet, Succeeded, WithStatus

LEMMA CompleteBooking ==
    ASSUME TypeOK, TypeOK', Booking, NEW r \in Requests, r \in Active,
           CompletePartial(r), UNCHANGED credit
    PROVE  Booking'
<1>1. rows' = [rows EXCEPT ![r].status = "succeeded"] /\ rows[r].status # "succeeded"
  BY DEF CompletePartial, Active, WithStatus
<1>2. /\ \A q \in Requests : rows'[q].booked = rows[q].booked /\ rows'[q].items = rows[q].items
      /\ Succeeded' = Succeeded \cup {r}
  BY <1>1 DEF TypeOK, Row, Succeeded, WithStatus
<1>3. rows[r].booked = FALSE
  BY <1>1 DEF Booking, TypeOK, Row
<1>4. ItemsOf(Succeeded) \subseteq ItemsOf(Succeeded)'
  BY <1>2 DEF ItemsOf, Succeeded, WithStatus
<1>5. ItemsOf(Succeeded)' \in SUBSET Units
  <2>1. Succeeded' \in SUBSET Requests
    BY DEF Succeeded, WithStatus
  <2> QED BY <2>1, <1>2, ItemsType DEF ItemsOf, TypeOK, Row
<1>6. Due <= Due' /\ Due \in Nat /\ Due' \in Nat
  <2>1. IsFiniteSet(ItemsOf(Succeeded)') /\ Cardinality(ItemsOf(Succeeded)') \in Nat
    BY <1>5, Amounts
  <2> QED BY <1>4, <2>1, FS_Subset, FS_CardinalityType DEF Due
<1>7. credit.parts \in Nat /\ credit' = credit
  BY DEF TypeOK
<1>8. \A q \in Requests : rows'[q].booked => rows'[q].status = "succeeded"
  BY <1>1, <1>2 DEF Booking, TypeOK, Row
<1>9. r \in Succeeded' /\ ~rows'[r].booked
  BY <1>2, <1>3
<1> QED BY <1>6, <1>7, <1>8, <1>9 DEF Booking

LEMMA BookBooking ==
    ASSUME TypeOK, Booking, NEW r \in Requests, BookPartial(r)
    PROVE  Booking'
<1>1. CASE UNCHANGED <<rows, credit>>
  BY <1>1, QuietRows, QuietBooking
<1>2. CASE ~UNCHANGED <<rows, credit>>
  <2>1. /\ rows[r].status = "succeeded"
        /\ rows' = [rows EXCEPT ![r].booked = TRUE]
        /\ credit' = [credit EXCEPT !.parts = IF Due > @ THEN Due ELSE @]
    BY <1>2 DEF BookPartial, Due
  <2>2. /\ \A q \in Requests : rows'[q].status = rows[q].status /\ rows'[q].items = rows[q].items
        /\ \A q \in Requests : rows'[q].booked => rows[q].booked \/ q = r
    BY <2>1 DEF TypeOK, Row
  <2>3. Succeeded' = Succeeded /\ ItemsOf(Succeeded)' = ItemsOf(Succeeded)
    BY <2>2 DEF Succeeded, WithStatus, ItemsOf
  <2>4. Due' = Due /\ Due \in Nat
    <3>1. Succeeded \in SUBSET Requests
      BY DEF Succeeded, WithStatus
    <3> QED BY <2>3, <3>1, ItemsType, Amounts DEF Due
  <2>5. credit'.parts = Due
    <3>1. credit.parts \in Nat /\ credit.parts <= Due
      BY DEF TypeOK, Booking
    <3>2. credit'.parts = IF Due > credit.parts THEN Due ELSE credit.parts
      BY <2>1 DEF TypeOK
    <3> QED BY <2>4, <3>1, <3>2
  <2>6. \A q \in Requests : rows'[q].booked => rows'[q].status = "succeeded"
    BY <2>1, <2>2 DEF Booking
  <2> QED BY <2>4, <2>5, <2>6 DEF Booking
<1> QED BY <1>1, <1>2

LEMMA BookingStep ==
    ASSUME TypeOK, TypeOK', Owned, Booking, [Next]_vars
    PROVE  Booking'
<1> USE IdFacts
<1>0. /\ UNCHANGED <<rows, credit>> => Booking'
      /\ Quiet /\ UNCHANGED credit => Booking'
  BY QuietBooking, QuietRows
<1>1. ASSUME NEW h \in Operators, NEW r \in Requests, CreateStart(h, r) PROVE Booking'
  BY <1>0, <1>1 DEF CreateStart
<1>2. ASSUME NEW r \in Requests, WorkerStart(r) \/ WorkerReadjust(r) PROVE Booking'
  BY <1>0, <1>2, QuietFunctions DEF WorkerStart, WorkerReadjust
<1>3. ASSUME NEW h \in Operators \cup {"worker"}, ~At(h, "idle"),
             \/ CreateClaim(h) \/ CreateBank(h) \/ CreateFail(h) \/ CreateUnknown(h)
             \/ Complete(h) \/ Book(h) \/ Mark(h)
      PROVE Booking'
  <2>0. job[h].id \in Requests
    BY <1>3 DEF Owned
  <2>1. CASE CreateClaim(h)
    <3>1. \/ UNCHANGED rows
          \/ rows[job[h].id].status = "none" /\ ClaimPartial(job[h].id, job[h].units)
      BY <2>1 DEF CreateClaim
    <3> QED BY <1>0, <2>0, <2>1, <3>1, QuietFunctions DEF CreateClaim
  <2>2. CASE CreateBank(h)
    BY <1>0, <2>2 DEF CreateBank
  <2>3. CASE CreateFail(h)
    BY <1>0, <2>0, <2>3, QuietFunctions DEF CreateFail
  <2>4. CASE CreateUnknown(h)
    BY <1>0, <2>0, <2>4, QuietFunctions DEF CreateUnknown
  <2>5. CASE Complete(h)
    <3>1. \/ UNCHANGED rows
          \/ job[h].id \in Active /\ CompletePartial(job[h].id)
      BY <2>5 DEF Complete, Completable
    <3> QED BY <1>0, <2>0, <2>5, <3>1, CompleteBooking DEF Complete
  <2>6. CASE Book(h)
    BY <2>0, <2>6, BookBooking DEF Book
  <2>7. CASE Mark(h)
    <3>1. Quiet
      BY <2>0, <2>7 DEF Mark, Quiet, TypeOK, Row
    <3> QED BY <1>0, <2>7, <3>1 DEF Mark
  <2> QED BY <1>3, <2>1, <2>2, <2>3, <2>4, <2>5, <2>6, <2>7
<1>4. ASSUME WorkerResolve \/ WorkerDecline PROVE Booking'
  <2>1. CASE WorkerResolve
    BY <1>0, <2>1 DEF WorkerResolve
  <2>2. CASE WorkerDecline
    <3>1. job["worker"].id \in Requests
      BY <2>2 DEF WorkerDecline, Owned, At
    <3> QED BY <1>0, <2>2, <3>1, QuietFunctions DEF WorkerDecline
  <2> QED BY <1>4, <2>1, <2>2
<1>5. ASSUME NEW h \in {"cancel", "recon"}, Reverse(h) PROVE Booking'
  <2>1. credit'.parts = credit.parts
    BY <1>5 DEF Reverse, ReverseRest, TypeOK
  <2> QED BY <1>5, <2>1, QuietRows, QuietBooking DEF Reverse
<1>6. ASSUME \/ \E reuse \in BOOLEAN : CancelStart(reuse)
             \/ CancelClaim \/ CancelBank \/ CancelFail \/ CancelFinal
      PROVE Booking'
  BY <1>0, <1>6 DEF CancelStart, CancelClaim, CancelBank, CancelFail, CancelFinal
<1>7. ASSUME ReconStart \/ FollowupStart \/ ReconCheck \/ ReconTakeover \/ ReconResolve
             \/ ReconDecline \/ ReconDefer \/ ReconFinal
      PROVE Booking'
  BY <1>0, <1>7 DEF ReconStart, FollowupStart, ReconCheck, ReconTakeover, ReconResolve,
                    ReconDecline, ReconDefer, ReconFinal
<1>8. ASSUME RowAges PROVE Booking'
  <2>1. Quiet
    BY <1>8 DEF RowAges, Quiet, WithStatus, TypeOK, Row
  <2> QED BY <1>0, <1>8, <2>1 DEF RowAges
<1>9. ASSUME OrderAges \/ BankDecide \/ (\E h \in Handlers : Stop(h)) \/ UNCHANGED vars
      PROVE Booking'
  BY <1>0, <1>9 DEF OrderAges, BankDecide, Stop, vars
<1>10. \A h : CreateStep(h) \/ Complete(h) \/ Book(h) \/ Mark(h) => ~At(h, "idle")
  BY DEF CreateStep, CreateClaim, CreateBank, CreateFail, CreateUnknown, Complete, Book, Mark, At
<1> QED
  BY <1>1, <1>2, <1>3, <1>4, <1>5, <1>6, <1>7, <1>8, <1>9, <1>10
  DEF Next, CreateStep, WorkerStep, CancelStep, ReconStep

LEMMA BookingInit == Init => Booking
<1> SUFFICES ASSUME Init PROVE Booking
  OBVIOUS
<1>1. \A r \in Requests : rows[r].status = "none" /\ rows[r].booked = FALSE
  BY DEF Init
<1>2. ItemsOf(Succeeded) = {}
  BY <1>1 DEF ItemsOf, Succeeded, WithStatus
<1>3. Due = 0
  BY <1>2, FS_EmptySet DEF Due
<1>4. credit.parts = 0
  BY DEF Init
<1> QED BY <1>1, <1>3, <1>4 DEF Booking

\* The adjustments of any number of partial refunds, made in any order and by
\* anybody, give back the bonuses of exactly the units that went back.
THEOREM BonusesStayExact == Spec => []BonusesFollowUnits
<1>1. Booking => BonusesFollowUnits
  BY DEF Booking, BonusesFollowUnits, Due
<1>2. TypeOK /\ Owned /\ Booking /\ [Next]_vars => (TypeOK /\ Owned /\ Booking)'
  BY TypeStep, BookingStep
<1> QED BY TypeInit, BookingInit, <1>1, <1>2, PTL DEF Spec


-------------------------------------------------------------------------------
(* Money (/flex).  Whoever has moved money under an id, or may still do so, holds *)
(* units nobody else holds: a partial refund through its row, a full refund by    *)
(* holding the order while no partial refund is in progress.                     *)

Live == {i \in Ids : bank[i].state \in {"slow", "done"}}
Given == UNION {bank[i].units : i \in Moved}
Held == order.status = "paid" => Busy

Holder(i, units) ==
    \/ i \in Active \cup Succeeded /\ units = rows[i].items
    \/ /\ i \in FullIds /\ Active = {} /\ Held
       /\ \A r \in Succeeded : rows[r].items \cap units = {}
       /\ \A j \in Live \cap FullIds : j = i

Base ==
    /\ \A r, s \in Active : r = s
    /\ Active # {} => Held
    /\ \A r \in Requests : rows[r].status = "none" => ~rows[r].old /\ bank[r].state = "none"
    /\ \A i \in Live : Holder(i, bank[i].units)
    /\ \A r, s \in Active \cup Succeeded : r # s => rows[r].items \cap rows[s].items = {}
    /\ \A r \in Succeeded : rows[r].items \subseteq order.refunded
    /\ returned = Cardinality(Given)
    /\ order.refunded \subseteq Given

\* An operator that waits for the bank has a row no worker touches.
Asking(h) == job[h].call \in {"bank", "fail"}
Pending(h) == job[h].call \in {"bank", "fail", "unknown", "complete"}
OneAsks == \A h, k \in Operators :
    Asking(h) /\ Pending(k) /\ job[h].id = job[k].id => h = k

OperatorOK(h) ==
    LET r == job[h].id IN
    /\ Asking(h) => /\ rows[r].status = "processing" /\ ~rows[r].old
                    /\ rows[r].items = job[h].units /\ bank[r].state = "none"
    /\ Pending(h) => rows[r].status # "none"
    /\ At(h, "complete") => rows[r].items \subseteq Given

WorkerOK ==
    LET r == job["worker"].id IN
    /\ job["worker"].call \in {"resolve", "complete"} => r \in WithStatus("unknown") \cup Succeeded
    /\ At("worker", "complete") => rows[r].items \subseteq Given
    /\ ~At("worker", "decline")

NoFullLive == Live \cap FullIds = {}
Cancelling == job["cancel"].call \in {"bank", "final", "fail"}
CancelOK ==
    LET mine == job["cancel"] IN
    /\ At("cancel", "claim") => mine.seen.refund \notin {"processing", "unknown"}
    /\ Cancelling => Active = {} /\ Held
    /\ At("cancel", "bank") => /\ NoFullLive
                               /\ \A r \in Succeeded : rows[r].items \cap mine.units = {}
                               /\ Units \subseteq mine.units \cup order.refunded
    /\ At("cancel", "final") => mine.answer = "ok" /\ Units \subseteq Given
    /\ At("cancel", "fail") => NoFullLive \/ mine.answer \in {"ok", "lost", "slow"}

ReconOK ==
    /\ ~At("recon", "decline") /\ ~At("recon", "fail")
    /\ At("recon", "final") => Units \subseteq Given

Inv ==
    /\ Base /\ OneAsks /\ WorkerOK /\ CancelOK /\ ReconOK
    /\ \A h \in Operators : OperatorOK(h)

LEMMA Sets ==
    /\ Active \subseteq Requests /\ Succeeded \subseteq Requests
    /\ Active \cap Succeeded = {} /\ Live \subseteq Ids /\ Moved \subseteq Live
    /\ TypeOK => Given \in SUBSET Units
BY DEF Active, Succeeded, WithStatus, Live, Moved, Given, TypeOK, Money

\* Two holders never share a unit.
LEMMA Apart ==
    ASSUME TypeOK, Base, NEW i \in Ids, NEW units, Holder(i, units), NEW j \in Live, j # i
    PROVE  bank[j].units \cap units = {}
<1>1. Holder(j, bank[j].units)
  BY DEF Base
<1>2. Active \subseteq Requests /\ Succeeded \subseteq Requests /\ Requests \cap FullIds = {}
  BY Sets, IdFacts
<1> QED BY <1>1, <1>2 DEF Holder, Base

\* The bank has given back, or may still give back, what its holder holds.
LEMMA BankStep ==
    ASSUME TypeOK, Base, NEW i \in Ids, NEW units \in SUBSET Units, Holder(i, units),
           NEW s \in {"slow", "done"}, Decide(i, units, s),
           bank[i].state = "done" => s = "done" /\ bank[i].units = units,
           UNCHANGED <<order, rows>>
    PROVE  /\ Base' /\ Live' = Live \cup {i} /\ Given \subseteq Given'
           /\ s = "done" => units \subseteq Given'
<1>1. /\ bank'[i].state = s /\ bank'[i].units = units
      /\ \A j \in Ids \ {i} : bank'[j] = bank[j]
  BY DEF Decide, TypeOK
<1>2. Live' = Live \cup {i}
  BY <1>1 DEF Live
<1>3. Moved' = IF s = "done" THEN Moved \cup {i} ELSE Moved
  BY <1>1 DEF Moved
<1>4. Given' = IF s = "done" THEN Given \cup units ELSE Given
  <2>1. CASE s = "done"
    BY <1>1, <1>3, <2>1 DEF Given, Moved
  <2>2. CASE s = "slow"
    BY <1>1, <1>3, <2>2 DEF Given, Moved
  <2> QED BY <2>1, <2>2
<1>5. Active' = Active /\ Succeeded' = Succeeded /\ Held' = Held
  BY DEF Active, Succeeded, WithStatus, Held, Busy
<1>6. Active \subseteq Requests /\ Succeeded \subseteq Requests /\ Requests \cap FullIds = {}
  BY Sets, IdFacts
<1>7. \A j \in Live' : Holder(j, bank[j].units)' \/ j = i
  <2> SUFFICES ASSUME NEW j \in Live, j # i PROVE Holder(j, bank[j].units)'
    BY <1>2
  <2>1. Holder(j, bank[j].units) /\ bank'[j] = bank[j]
    BY <1>1 DEF Base, Live
  <2>2. CASE j \in Active \cup Succeeded
    BY <1>5, <1>6, <2>1, <2>2 DEF Holder
  <2>3. CASE j \in FullIds
    <3>1. i \notin FullIds
      BY <1>6, <2>1, <2>3 DEF Holder
    <3>2. Live' \cap FullIds = Live \cap FullIds
      BY <1>2, <3>1
    <3> QED BY <1>5, <1>6, <2>1, <2>3, <3>2 DEF Holder
  <2> QED BY <2>1, <2>2, <2>3 DEF Holder
<1>8. Holder(i, bank[i].units)'
  <2>1. CASE i \in Active \cup Succeeded
    BY <1>1, <1>5, <1>6, <2>1 DEF Holder
  <2>2. CASE i \in FullIds
    BY <1>1, <1>2, <1>5, <1>6, <2>2 DEF Holder
  <2> QED BY <2>1, <2>2 DEF Holder
<1>9. returned' = Cardinality(Given')
  <2>1. CASE s = "done" /\ bank[i].state # "done"
    <3>1. Given \cap units = {}
      <4>1. \A j \in Moved : j \in Live /\ j # i
        BY <2>1 DEF Moved, Live
      <4> QED BY <4>1, Apart DEF Given
    <3>2. Given \in SUBSET Units
      BY Sets
    <3>3. /\ IsFiniteSet(Given) /\ IsFiniteSet(units)
          /\ Cardinality(Given) \in Nat /\ Cardinality(units) \in Nat
      BY <3>2, Amounts
    <3>4. Cardinality(Given \cup units)
            = Cardinality(Given) + Cardinality(units) - Cardinality(Given \cap units)
      BY <3>3, FS_Union
    <3>5. Cardinality(Given \cap units) = 0
      BY <3>1, FS_EmptySet
    <3>6. returned' = Cardinality(Given) + Cardinality(units)
      BY <2>1 DEF Decide, Base
    <3> QED BY <1>4, <2>1, <3>3, <3>4, <3>5, <3>6
  <2>2. CASE ~(s = "done" /\ bank[i].state # "done")
    <3>1. returned' = returned
      BY <2>2 DEF Decide
    <3>2. Given' = Given
      <4>1. CASE s = "slow"
        BY <1>4, <4>1
      <4>2. CASE bank[i].state = "done"
        <5>1. i \in Moved /\ bank[i].units = units
          BY <4>2 DEF Moved
        <5>2. units \subseteq Given
          BY <5>1 DEF Given
        <5> QED BY <1>4, <5>2
      <4> QED BY <2>2, <4>1, <4>2
    <3> QED BY <3>1, <3>2 DEF Base
  <2> QED BY <2>1, <2>2
<1>10. \A r \in Requests : rows[r].status = "none" => bank'[r].state = "none"
  <2>1. \A r \in Requests : rows[r].status = "none" => r # i
    BY <1>6 DEF Holder, Active, Succeeded, WithStatus
  <2> QED BY <1>1, <2>1, IdFacts DEF Base
<1>11. Given \subseteq Given'
  BY <1>4
<1>12. Base'
  BY <1>5, <1>7, <1>8, <1>9, <1>10, <1>11 DEF Base
<1> QED BY <1>2, <1>4, <1>11, <1>12

\* /flex: the answer tells what happened to the id.
LEMMA FlexCall ==
    ASSUME TypeOK, ~Widget, NEW i \in Ids, NEW units, NEW answer, RefundCall(i, units, answer)
    PROVE  \/ Unheard /\ answer \in {"lost", "rejected"}
           \/ /\ answer \in {"ok", "lost", "slow"} /\ bank[i].state # "declined"
              /\ \E s \in {"slow", "done"} :
                    /\ Decide(i, IF bank[i].state = "none" THEN units ELSE bank[i].units, s)
                    /\ bank[i].state = "done" => s = "done"
                    /\ answer = "ok" => s = "done"
<1> DEFINE known == IF bank[i].state = "none" THEN units ELSE bank[i].units
<1> HIDE DEF known
<1>1. CASE answer = "ok" /\ bank[i].state # "declined" /\ Decide(i, known, "done")
  BY <1>1 DEF known
<1>2. CASE answer = "lost" /\ Unheard
  BY <1>2
<1>3. CASE answer \in {"lost", "slow"} /\ Refusable(i) /\ Decide(i, known, "slow")
  BY <1>3 DEF Refusable, known
<1>4. CASE answer = "lost" /\ bank[i].state # "declined" /\ Decide(i, known, "done")
  BY <1>4 DEF known
<1>5. CASE answer = "rejected" /\ Unheard
  BY <1>5
<1> QED BY <1>1, <1>2, <1>3, <1>4, <1>5 DEF RefundCall, known

-------------------------------------------------------------------------------
(* Steps that leave the money and its holders alone.                            *)

SameOrder == /\ order'.status = order.status /\ order'.refund = order.refund
             /\ order'.refunded = order.refunded
SameRows == \A r \in Requests : /\ rows'[r].status = rows[r].status
                                /\ rows'[r].items = rows[r].items
                                /\ rows'[r].old = rows[r].old
SameMoney == bank' = bank /\ returned' = returned

LEMMA SameSets ==
    /\ SameRows => /\ Active' = Active /\ Succeeded' = Succeeded
                   /\ WithStatus("unknown")' = WithStatus("unknown")
    /\ SameMoney => Live' = Live /\ Given' = Given /\ (NoFullLive' <=> NoFullLive)
    /\ SameOrder => (Held' <=> Held)
BY DEF SameRows, Active, Succeeded, WithStatus, SameMoney, Live, Given, Moved, NoFullLive,
       SameOrder, Held, Busy

LEMMA SameHolder ==
    ASSUME SameRows, Live' \cap FullIds = Live \cap FullIds, Held' <=> Held, NEW i, NEW units,
           Holder(i, units)
    PROVE  Holder(i, units)'
<1>1. /\ Active' = Active /\ Succeeded' = Succeeded
      /\ Active \subseteq Requests /\ Succeeded \subseteq Requests
  BY SameSets, Sets
<1> QED BY <1>1 DEF Holder, SameRows

LEMMA SameBase ==
    ASSUME Base, SameOrder, SameRows, SameMoney
    PROVE  Base'
<1>1. /\ Active' = Active /\ Succeeded' = Succeeded /\ Live' = Live /\ Given' = Given
      /\ (Held' <=> Held) /\ Active \subseteq Requests /\ Succeeded \subseteq Requests
      /\ Live \subseteq Ids
  BY SameSets, Sets
<1>2. \A i \in Live' : Holder(i, bank[i].units)'
  <2> SUFFICES ASSUME NEW i \in Live PROVE Holder(i, bank[i].units)'
    BY <1>1
  <2>1. Holder(i, bank[i].units)
    BY DEF Base
  <2>2. bank'[i] = bank[i]
    BY DEF SameMoney
  <2> QED BY <1>1, <2>1, <2>2, SameHolder
<1> QED BY <1>1, <1>2 DEF Base, SameOrder, SameRows, SameMoney

\* What a handler that does not move relies on.
LEMMA SameOperator ==
    ASSUME Owned, NEW k \in Operators, OperatorOK(k), job'[k] = job[k],
           \A r \in Requests : rows[r].status # "none" =>
                rows'[r].status # "none" /\ rows'[r].items = rows[r].items,
           Asking(k) => LET r == job[k].id IN
                /\ rows'[r].status = rows[r].status /\ rows'[r].old = rows[r].old
                /\ bank'[r].state = bank[r].state,
           Given \subseteq Given'
    PROVE  OperatorOK(k)'
BY DEF OperatorOK, Owned, Asking, Pending, At

LEMMA SameWorker ==
    ASSUME Owned, WorkerOK, job'["worker"] = job["worker"],
           \A r \in Requests : rows[r].status \in {"unknown", "succeeded"} =>
                rows'[r].status \in {"unknown", "succeeded"} /\ rows'[r].items = rows[r].items,
           Given \subseteq Given'
    PROVE  WorkerOK'
BY DEF WorkerOK, Owned, At, WithStatus, Succeeded

LEMMA SameCancel ==
    ASSUME CancelOK, job'["cancel"] = job["cancel"],
           Cancelling => /\ Active' = {} /\ Succeeded' = Succeeded /\ Held'
                         /\ \A r \in Succeeded : rows'[r].items = rows[r].items
                         /\ order.refunded \subseteq order'.refunded,
           NoFullLive => NoFullLive', Given \subseteq Given'
    PROVE  CancelOK'
BY DEF CancelOK, Cancelling, At

LEMMA SameRecon ==
    ASSUME ReconOK, job'["recon"] = job["recon"], Given \subseteq Given'
    PROVE  ReconOK'
BY DEF ReconOK, At

LEMMA SameAsks ==
    ASSUME OneAsks, NEW h \in Handlers, Others(h),
           Asking(h)' => Asking(h), Pending(h)' => Pending(h) /\ job'[h].id = job[h].id
    PROVE  OneAsks'
<1> SUFFICES ASSUME NEW k \in Operators, NEW m \in Operators,
                    Asking(k)', Pending(m)', job'[k].id = job'[m].id
             PROVE  k = m
  BY DEF OneAsks
<1>1. /\ Asking(k) /\ Pending(m) /\ job[k].id = job[m].id
  BY IdFacts DEF Others, Asking, Pending
<1> QED BY <1>1 DEF OneAsks


LEMMA Bystanders ==
    ASSUME Owned, Inv, NEW h \in Handlers, Others(h), SameOrder, SameRows, SameMoney
    PROVE  /\ Base' /\ \A k \in Operators \ {h} : OperatorOK(k)'
           /\ h # "worker" => WorkerOK'
           /\ h # "cancel" => CancelOK'
           /\ h # "recon" => ReconOK'
<1> USE IdFacts
<1>1. Base'
  BY SameBase DEF Inv
<1>2. Given \subseteq Given' /\ (NoFullLive' <=> NoFullLive) /\ Active' = Active
      /\ Succeeded' = Succeeded /\ (Held' <=> Held) /\ Succeeded \subseteq Requests
  BY SameSets, Sets
<1>3. ASSUME NEW k \in Operators \ {h} PROVE OperatorOK(k)'
  <2>1. OperatorOK(k) /\ job'[k] = job[k]
    BY DEF Inv, Others
  <2>2. Asking(k) => job[k].id \in Requests
    BY DEF Asking, Owned, At
  <2>3. Asking(k) => LET r == job[k].id IN
                /\ rows'[r].status = rows[r].status /\ rows'[r].old = rows[r].old
                /\ bank'[r].state = bank[r].state
    BY <2>2 DEF SameRows, SameMoney
  <2> QED BY <1>2, <2>1, <2>3, SameOperator DEF SameRows
<1>4. h # "worker" => WorkerOK'
  BY <1>2, SameWorker DEF Inv, Others, SameRows
<1>5. h # "cancel" => CancelOK'
  <2> SUFFICES ASSUME h # "cancel" PROVE CancelOK'
    OBVIOUS
  <2>1. CancelOK /\ job'["cancel"] = job["cancel"]
    BY DEF Inv, Others
  <2>2. Cancelling => /\ Active' = {} /\ Succeeded' = Succeeded /\ Held'
                      /\ \A r \in Succeeded : rows'[r].items = rows[r].items
                      /\ order.refunded \subseteq order'.refunded
    BY <1>2, <2>1 DEF CancelOK, SameRows, SameOrder
  <2> QED BY <1>2, <2>1, <2>2, SameCancel
<1>6. h # "recon" => ReconOK'
  BY <1>2, SameRecon DEF Inv, Others
<1> QED BY <1>1, <1>3, <1>4, <1>5, <1>6

\* Nothing moves but a handler.
LEMMA StillInv ==
    ASSUME TypeOK, Owned, Inv, SameOrder, SameRows, SameMoney, job' = job
    PROVE  Inv'
<1>1. \A h \in Handlers : Others(h)
  BY DEF Others
<1>2. OneAsks'
  BY DEF Inv, OneAsks, Asking, Pending
<1>3. Base' /\ CancelOK' /\ ReconOK' /\ \A k \in Operators : OperatorOK(k)'
  BY <1>1, Bystanders, IdFacts, RefundAssumption
<1>4. WorkerOK'
  BY <1>1, Bystanders, IdFacts
<1> QED BY <1>2, <1>3, <1>4 DEF Inv

LEMMA OperatorInv ==
    ASSUME Owned, Inv, NEW h \in Operators, Others(h), SameOrder, SameRows, SameMoney,
           OperatorOK(h)', OneAsks'
    PROVE  Inv'
<1>1. h \in Handlers /\ h \notin {"worker", "cancel", "recon"}
  BY IdFacts, RefundAssumption
<1> QED BY <1>1, Bystanders DEF Inv

LEMMA ServiceInv ==
    ASSUME Owned, Inv, NEW h \in {"worker", "cancel", "recon"}, Others(h),
           SameOrder, SameRows, SameMoney,
           h = "worker" => WorkerOK', h = "cancel" => CancelOK', h = "recon" => ReconOK'
    PROVE  Inv'
<1>1. h \in Handlers /\ h \notin Operators
  BY IdFacts, RefundAssumption
<1>2. OneAsks'
  BY <1>1 DEF Inv, OneAsks, Others, Asking, Pending, Handlers
<1> QED BY <1>1, <1>2, Bystanders DEF Inv


-------------------------------------------------------------------------------
(* Operators.                                                                  *)

LEMMA MoveOn ==
    ASSUME TypeOK, NEW h \in Handlers,
           \/ \E call \in Calls : Go(h, call)
           \/ \E call \in Calls : \E answer : Hear(h, call, answer)
           \/ Finish(h)
    PROVE  Others(h) /\ (job'[h].call = "idle" \/ Kept(h))
BY JobMoves

LEMMA StartInv ==
    ASSUME TypeOK, Owned, Inv, NEW h \in Operators, NEW r \in Requests, CreateStart(h, r)
    PROVE  Inv'
<1>1. \/ \E units \in SUBSET (Units \ ItemsOf(Succeeded)) : Enter(h, "claim", r, units, Untouched)
      \/ Enter(h, "book", r, {}, Untouched)
  BY DEF CreateStart, Begin
<1>2. Others(h) /\ job'[h].call \in {"claim", "book"}
  BY <1>1, JobMoves, IdFacts
<1>3. SameOrder /\ SameRows /\ SameMoney
  BY DEF CreateStart, SameOrder, SameRows, SameMoney
<1>4. OneAsks'
  BY <1>2, SameAsks, IdFacts DEF Inv, Asking, Pending
<1>5. OperatorOK(h)'
  BY <1>2 DEF OperatorOK, Asking, Pending, At
<1> QED BY <1>2, <1>3, <1>4, <1>5, OperatorInv

\* A row that is claimed is the only one in progress, and its units are free.
LEMMA ClaimInv ==
    ASSUME TypeOK, Owned, Inv, NEW h \in Operators, CreateClaim(h)
    PROVE  Inv'
<1> USE IdFacts
<1> DEFINE r == job[h].id
<1>0. h \in Handlers /\ job[h].call = "claim" /\ r \in Requests
  BY DEF CreateClaim, At, Owned
<1>1. CASE UNCHANGED <<order, rows>> /\ (Go(h, "book") \/ Finish(h))
  <2>1. Others(h) /\ job'[h].call \in {"book", "idle"}
    BY <1>0, <1>1, JobMoves
  <2>2. SameOrder /\ SameRows /\ SameMoney
    BY <1>1 DEF CreateClaim, SameOrder, SameRows, SameMoney
  <2>3. OneAsks' /\ OperatorOK(h)'
    BY <1>0, <2>1, SameAsks DEF Inv, Asking, Pending, OperatorOK, At
  <2> QED BY <2>1, <2>2, <2>3, OperatorInv
<1>2. CASE /\ rows[r].status = "none" /\ Claimable(job[h].units)
           /\ Go(h, "bank") /\ ClaimPartial(r, job[h].units)
  <2> DEFINE items == job[h].units
  <2>1. /\ order.status = "paid" /\ ~Busy /\ ~Held
        /\ items \cap ItemsOf(WithStatus("processing") \cup Succeeded) = {}
    BY <1>2 DEF Claimable, Held
  <2>2. /\ rows'[r].status = "processing" /\ rows'[r].items = items /\ rows'[r].old = rows[r].old
        /\ \A q \in Requests \ {r} : rows'[q] = rows[q]
        /\ order'.status = order.status /\ order'.refunded = order.refunded
        /\ order'.refund = "processing"
    BY <1>0, <1>2 DEF ClaimPartial, TypeOK, Order, Row
  <2>3. bank' = bank /\ returned' = returned /\ Live' = Live /\ Given' = Given
    BY SameSets DEF CreateClaim, SameMoney
  <2>4. Active = {} /\ ~Cancelling /\ NoFullLive
    <3>1. Active = {} /\ ~Cancelling
      BY <2>1 DEF Inv, Base, CancelOK
    <3>2. \A i \in Live : i \notin FullIds
      BY <2>1, Sets DEF Inv, Base, Holder
    <3> QED BY <3>1, <3>2 DEF NoFullLive
  <2>5. Active' = {r} /\ Succeeded' = Succeeded /\ r \notin Succeeded /\ Held'
    <3>1. Active' = {r}
      BY <1>0, <2>2, <2>4 DEF Active, WithStatus
    <3>2. Succeeded' = Succeeded /\ r \notin Succeeded
      BY <1>0, <1>2, <2>2 DEF Succeeded, WithStatus
    <3> QED BY <2>2, <3>1, <3>2 DEF Held, Busy
  <2>6. Succeeded \subseteq Requests /\ bank[r].state = "none" /\ ~rows[r].old
    BY <1>0, <1>2, Sets DEF Inv, Base
  <2>7. \A q \in Succeeded : rows'[q] = rows[q] /\ rows[q].items \cap items = {}
    <3>1. \A q \in Succeeded : rows[q].items \cap items = {}
      BY <2>1 DEF ItemsOf
    <3> QED BY <2>2, <2>5, <2>6, <3>1
  <2>8. Base'
    <3>1. \A i \in Live' : Holder(i, bank[i].units)'
      <4> SUFFICES ASSUME NEW i \in Live PROVE Holder(i, bank[i].units)'
        BY <2>3
      <4>1. i \in Succeeded /\ bank[i].units = rows[i].items
        BY <2>4 DEF Inv, Base, Holder, NoFullLive
      <4> QED BY <2>3, <2>5, <2>7, <4>1 DEF Holder
    <3>2. \A q \in Requests : rows'[q].status = "none" => ~rows'[q].old /\ bank'[q].state = "none"
      BY <2>2, <2>3 DEF Inv, Base
    <3>3. \A p, q \in Active' \cup Succeeded' : p # q => rows'[p].items \cap rows'[q].items = {}
      BY <2>2, <2>5, <2>7 DEF Inv, Base
    <3>4. \A q \in Succeeded' : rows'[q].items \subseteq order'.refunded
      BY <2>2, <2>5, <2>7 DEF Inv, Base
    <3> QED BY <2>2, <2>3, <2>5, <3>1, <3>2, <3>3, <3>4 DEF Inv, Base
  <2>9. Others(h) /\ Kept(h) /\ job'[h].call = "bank"
    BY <1>0, <1>2, JobMoves DEF Calls
  <2>10. \A q \in Requests : rows[q].status # "none" =>
            rows'[q].status = rows[q].status /\ rows'[q] = rows[q]
    BY <1>2, <2>2
  <2>11. \A k \in Operators : ~Asking(k)
    <3>1. \A k \in Operators : Asking(k) => job[k].id \in Active
      BY DEF Inv, OperatorOK, Owned, Asking, At, Active, WithStatus
    <3> QED BY <2>4, <3>1
  <2>12. ASSUME NEW k \in Operators \ {h} PROVE OperatorOK(k)'
    <3>1. OperatorOK(k) /\ job'[k] = job[k] /\ ~Asking(k)
      BY <2>9, <2>11 DEF Inv, Others
    <3> QED BY <2>3, <2>10, <3>1, SameOperator
  <2>13. OperatorOK(h)'
    BY <1>0, <2>2, <2>3, <2>6, <2>9 DEF OperatorOK, Kept, At
  <2>14. OneAsks'
    <3> SUFFICES ASSUME NEW k \in Operators, NEW m \in Operators,
                        Asking(k)', Pending(m)', job'[k].id = job'[m].id
                 PROVE  k = m
      BY DEF OneAsks
    <3>1. k = h
      BY <2>9, <2>11 DEF Others, Asking
    <3>2. m # h => Pending(m) /\ job[m].id = r
      BY <2>9, <3>1 DEF Others, Pending, Kept
    <3>3. m # h => rows[r].status # "none"
      BY <3>2 DEF Inv, OperatorOK
    <3> QED BY <1>2, <3>1, <3>3
  <2>15. job'["worker"] = job["worker"] /\ job'["cancel"] = job["cancel"] /\ job'["recon"] = job["recon"]
    BY <2>9, RefundAssumption DEF Others
  <2>16. WorkerOK' /\ ReconOK'
    BY <2>3, <2>10, <2>15, SameWorker, SameRecon DEF Inv
  <2>17. CancelOK'
    <3>1. NoFullLive => NoFullLive'
      BY <2>3 DEF NoFullLive
    <3> QED BY <2>3, <2>4, <2>15, <3>1, SameCancel DEF Inv
  <2> QED BY <2>8, <2>12, <2>13, <2>14, <2>16, <2>17 DEF Inv
<1> QED BY <1>1, <1>2 DEF CreateClaim


\* The bank gave back, or may give back, what somebody holds: the others notice
\* only that more has gone back.
LEMMA BankOthers ==
    ASSUME TypeOK, Owned, Inv, NEW h \in Handlers, Others(h), NEW i \in Ids,
           NEW units \in SUBSET Units, Holder(i, units),
           NEW s \in {"slow", "done"}, Decide(i, units, s),
           bank[i].state = "done" => s = "done" /\ bank[i].units = units,
           \A k \in Operators \ {h} : Asking(k) => job[k].id # i,
           h = "cancel" \/ i \notin FullIds \/ i \in Live,
           UNCHANGED <<order, rows>>
    PROVE  /\ Base' /\ Given \subseteq Given' /\ (s = "done" => units \subseteq Given')
           /\ \A k \in Operators \ {h} : OperatorOK(k)'
           /\ h # "worker" => WorkerOK'
           /\ h # "cancel" => CancelOK'
           /\ h # "recon" => ReconOK'
           /\ (i \notin FullIds \/ i \in Live) => (NoFullLive => NoFullLive')
<1> USE IdFacts
<1>1. /\ Base' /\ Live' = Live \cup {i} /\ Given \subseteq Given'
      /\ s = "done" => units \subseteq Given'
  BY BankStep DEF Inv
<1>2. \A j \in Ids \ {i} : bank'[j] = bank[j]
  BY DEF Decide, TypeOK
<1>3. ASSUME NEW k \in Operators \ {h} PROVE OperatorOK(k)'
  <2>1. OperatorOK(k) /\ job'[k] = job[k]
    BY DEF Inv, Others
  <2>2. Asking(k) => job[k].id \in Requests
    BY DEF Asking, Owned, At
  <2>3. Asking(k) => bank'[job[k].id].state = bank[job[k].id].state
    BY <1>2, <2>2
  <2> QED BY <1>1, <2>1, <2>3, SameOperator
<1>4. h # "worker" => WorkerOK'
  BY <1>1, SameWorker DEF Inv, Others
<1>5. (i \notin FullIds \/ i \in Live) => (NoFullLive => NoFullLive')
  BY <1>1 DEF NoFullLive
<1>6. h # "cancel" => CancelOK'
  <2> SUFFICES ASSUME h # "cancel" PROVE CancelOK'
    OBVIOUS
  <2>1. CancelOK /\ job'["cancel"] = job["cancel"]
    BY DEF Inv, Others
  <2>2. Active' = Active /\ Succeeded' = Succeeded /\ Held' = Held
    BY DEF Active, Succeeded, WithStatus, Held, Busy
  <2>3. Cancelling => /\ Active' = {} /\ Succeeded' = Succeeded /\ Held'
                      /\ \A r \in Succeeded : rows'[r].items = rows[r].items
                      /\ order.refunded \subseteq order'.refunded
    BY <2>1, <2>2 DEF CancelOK
  <2> QED BY <1>1, <1>5, <2>1, <2>3, SameCancel
<1>7. h # "recon" => ReconOK'
  BY <1>1, SameRecon DEF Inv, Others
<1> QED BY <1>1, <1>3, <1>4, <1>5, <1>6, <1>7

LEMMA AskInv ==
    ASSUME TypeOK, Owned, Inv, ~Widget, NEW h \in Operators, CreateBank(h)
    PROVE  Inv'
<1> USE IdFacts
<1> DEFINE r == job[h].id
           items == job[h].units
<1>0. h \in Handlers /\ job[h].call = "bank" /\ r \in Requests /\ items \in SUBSET Units
  BY Carried DEF CreateBank, At, Owned
<1>1. /\ rows[r].status = "processing" /\ rows[r].items = items
      /\ bank[r].state = "none" /\ r \in Active /\ ~rows[r].old
  BY <1>0 DEF Inv, OperatorOK, Asking, Active, WithStatus
<1>2. Holder(r, items)
  BY <1>1 DEF Holder
<1>3. \A call \in {"complete", "unknown", "fail"} : \A answer : Hear(h, call, answer) =>
         Others(h) /\ Kept(h) /\ job'[h].call = call /\ OneAsks'
  <2> SUFFICES ASSUME NEW call \in {"complete", "unknown", "fail"}, NEW answer, Hear(h, call, answer)
               PROVE  Others(h) /\ Kept(h) /\ job'[h].call = call /\ OneAsks'
    OBVIOUS
  <2>1. Others(h) /\ Kept(h) /\ job'[h].call = call
    BY <1>0, JobMoves
  <2> QED BY <1>0, <2>1, SameAsks DEF Inv, Asking, Pending, Kept
<1>4. UNCHANGED <<order, rows>>
  BY DEF CreateBank
<1>5. ASSUME Unheard, NEW call \in {"fail", "unknown"}, NEW answer, Hear(h, call, answer)
      PROVE Inv'
  <2>1. SameOrder /\ SameRows /\ SameMoney
    BY <1>4, <1>5 DEF Unheard, SameOrder, SameRows, SameMoney
  <2>2. Others(h) /\ Kept(h) /\ job'[h].call = call /\ OneAsks'
    BY <1>3, <1>5
  <2>3. OperatorOK(h)'
    BY <1>1, <1>4, <1>5, <2>2 DEF OperatorOK, Kept, Asking, Pending, At, Unheard
  <2> QED BY <2>1, <2>2, <2>3, OperatorInv
<1>6. ASSUME NEW s \in {"slow", "done"}, Decide(r, items, s), NEW call \in {"complete", "unknown"},
             NEW answer, Hear(h, call, answer), call = "complete" => s = "done"
      PROVE Inv'
  <2>1. Others(h) /\ Kept(h) /\ job'[h].call = call /\ OneAsks'
    BY <1>3, <1>6
  <2>2. \A k \in Operators \ {h} : Asking(k) => job[k].id # r
    <3>1. Pending(h)
      BY <1>0 DEF Pending
    <3> QED BY <1>0, <3>1 DEF Inv, OneAsks
  <2>3. h \notin {"worker", "cancel", "recon"} /\ r \notin FullIds
    BY <1>0, RefundAssumption
  <2>4. /\ Base' /\ Given \subseteq Given' /\ (s = "done" => items \subseteq Given')
        /\ \A k \in Operators \ {h} : OperatorOK(k)'
        /\ WorkerOK' /\ CancelOK' /\ ReconOK'
    BY <1>0, <1>1, <1>2, <1>4, <1>6, <2>1, <2>2, <2>3, BankOthers
  <2>5. OperatorOK(h)'
    BY <1>1, <1>4, <1>6, <2>1, <2>4 DEF OperatorOK, Kept, Asking, Pending, At
  <2> QED BY <2>1, <2>4, <2>5 DEF Inv
<1>7. CASE Spent
  BY <1>5, <1>7 DEF CreateBank
<1>8. CASE ~Spent
  <2> DEFINE next(answer) == CASE answer = "ok" -> "complete"
                               [] answer \in Uncertain -> "unknown"
                               [] OTHER -> "fail"
  <2>0. /\ next("ok") = "complete" /\ next("rejected") = "fail"
        /\ next("lost") = "unknown" /\ next("slow") = "unknown"
    BY DEF Uncertain
  <2>1. PICK answer \in Answers(r, items) :
          RefundCall(r, items, answer) /\ Hear(h, next(answer), answer)
    BY <1>8 DEF CreateBank
  <2> HIDE DEF next
  <2>2. \/ Unheard /\ answer \in {"lost", "rejected"}
        \/ /\ answer \in {"ok", "lost", "slow"}
           /\ \E s \in {"slow", "done"} :
                 Decide(r, items, s) /\ (answer = "ok" => s = "done")
    BY <1>0, <1>1, <2>1, FlexCall
  <2>3. CASE Unheard /\ answer \in {"lost", "rejected"}
    BY <1>5, <2>0, <2>1, <2>3
  <2>4. CASE answer \in {"ok", "lost", "slow"} /\ \E s \in {"slow", "done"} :
                Decide(r, items, s) /\ (answer = "ok" => s = "done")
    <3>1. PICK s \in {"slow", "done"} : Decide(r, items, s) /\ (answer = "ok" => s = "done")
      BY <2>4
    <3>2. CASE answer = "ok"
      <4>1. Hear(h, "complete", answer)
        BY <2>0, <2>1, <3>2
      <4>2. Decide(r, items, "done")
        BY <3>1, <3>2
      <4> QED BY <1>6, <4>1, <4>2
    <3>3. CASE answer \in {"lost", "slow"}
      <4>1. Hear(h, "unknown", answer)
        BY <2>0, <2>1, <3>3
      <4> QED BY <1>6, <3>1, <4>1
    <3> QED BY <2>4, <3>2, <3>3
  <2> QED BY <2>2, <2>3, <2>4
<1> QED BY <1>7, <1>8


\* Nobody moves money under the id of a row that fails.
LEMMA FailInv ==
    ASSUME TypeOK, Owned, Inv, NEW h \in Operators, CreateFail(h)
    PROVE  Inv'
<1> USE IdFacts
<1> DEFINE r == job[h].id
<1>0. h \in Handlers /\ job[h].call = "fail" /\ r \in Requests
  BY DEF CreateFail, At, Owned
<1>1. rows[r].status = "processing" /\ bank[r].state = "none" /\ r \in Active /\ ~rows[r].old
  BY <1>0 DEF Inv, OperatorOK, Asking, Active, WithStatus
<1>2. /\ Active = {r} /\ ~Cancelling /\ NoFullLive /\ Given' = Given /\ Live' = Live
      /\ bank' = bank /\ returned' = returned /\ (NoFullLive' <=> NoFullLive)
  <2>1. Active = {r}
    BY <1>1 DEF Inv, Base
  <2>2. \A i \in Live : i \notin FullIds
    BY <1>1, Sets DEF Inv, Base, Holder
  <2> QED BY <2>1, <2>2, SameSets DEF Inv, CancelOK, NoFullLive, CreateFail, SameMoney
<1>3. /\ rows'[r].status = "failed" /\ rows'[r].items = rows[r].items
      /\ \A q \in Requests \ {r} : rows'[q] = rows[q]
      /\ order'.status = order.status /\ order'.refunded = order.refunded
  BY <1>0, <1>1 DEF CreateFail, FailPartial, TypeOK, Row, Order
<1>4. Active' = {} /\ Succeeded' = Succeeded /\ r \notin Succeeded /\ Succeeded \subseteq Requests
  <2>1. Active' = {}
    BY <1>2, <1>3 DEF Active, WithStatus
  <2> QED BY <1>1, <1>3, <2>1 DEF Succeeded, WithStatus
<1>5. Base'
  <2>1. \A i \in Live' : Holder(i, bank[i].units)'
    <3> SUFFICES ASSUME NEW i \in Live PROVE Holder(i, bank[i].units)'
      BY <1>2
    <3>1. i # r
      BY <1>1 DEF Live
    <3>2. i \in Succeeded /\ bank[i].units = rows[i].items
      BY <1>2, <3>1 DEF Inv, Base, Holder, NoFullLive
    <3> QED BY <1>2, <1>3, <1>4, <3>1, <3>2 DEF Holder
  <2>2. \A q \in Requests : rows'[q].status = "none" => ~rows'[q].old /\ bank'[q].state = "none"
    BY <1>2, <1>3 DEF Inv, Base
  <2>3. \A q \in Succeeded : rows'[q] = rows[q]
    BY <1>3, <1>4
  <2> QED BY <1>2, <1>3, <1>4, <2>1, <2>2, <2>3 DEF Inv, Base
<1>6. Others(h) /\ job'[h].call = "idle"
  BY <1>0, JobMoves DEF CreateFail
<1>7. ASSUME NEW k \in Operators \ {h} PROVE OperatorOK(k)'
  <2>1. OperatorOK(k) /\ job'[k] = job[k]
    BY <1>6 DEF Inv, Others
  <2>2. ~Asking(k)
    <3>1. Asking(k) => job[k].id \in Active
      BY <2>1 DEF OperatorOK, Owned, Asking, At, Active, WithStatus
    <3> QED BY <1>0, <1>2, <3>1 DEF Inv, OneAsks, Asking, Pending
  <2> QED BY <1>2, <1>3, <2>1, <2>2, SameOperator
<1>8. OperatorOK(h)' /\ OneAsks'
  BY <1>0, <1>6, SameAsks DEF OperatorOK, Asking, Pending, At, Inv
<1>9. job'["worker"] = job["worker"] /\ job'["cancel"] = job["cancel"] /\ job'["recon"] = job["recon"]
  BY <1>6, RefundAssumption DEF Others
<1>10. \A q \in Requests : rows[q].status \in {"unknown", "succeeded"} => rows'[q] = rows[q]
  BY <1>1, <1>3
<1>11. WorkerOK' /\ ReconOK' /\ CancelOK'
  BY <1>2, <1>9, <1>10, SameWorker, SameRecon, SameCancel DEF Inv
<1> QED BY <1>5, <1>7, <1>8, <1>11 DEF Inv

\* A row in progress whose outcome is unknown keeps its units.
LEMMA UnknownRow ==
    ASSUME TypeOK, Owned, Inv, NEW r \in Active, MarkUnknown(r, NoId) \/ MarkUnknown(r, r),
           UNCHANGED <<bank, returned>>,
           NEW h \in Handlers, Others(h), \A k \in Operators : Asking(k) => job[k].id # r
    PROVE  /\ Base' /\ rows'[r].status = "unknown"
           /\ \A k \in Operators \ {h} : OperatorOK(k)'
           /\ h # "worker" => WorkerOK'
           /\ h # "cancel" => CancelOK'
           /\ h # "recon" => ReconOK'
<1> USE IdFacts
<1>0. r \in Requests
  BY Sets
<1>1. /\ rows'[r].status = "unknown" /\ rows'[r].items = rows[r].items
      /\ \A q \in Requests \ {r} : rows'[q] = rows[q]
      /\ order'.status = order.status /\ order'.refund = "unknown"
      /\ order'.refunded = order.refunded
  <2>1. /\ rows' = [rows EXCEPT ![r].status = "unknown"]
        /\ \E reference : order' = [order EXCEPT !.refund = "unknown", !.ref = reference]
    <3>1. CASE MarkUnknown(r, NoId)
      BY <3>1 DEF MarkUnknown
    <3>2. CASE MarkUnknown(r, r)
      BY <3>2 DEF MarkUnknown
    <3> QED BY <3>1, <3>2
  <2>2. /\ order'.status = order.status /\ order'.refund = "unknown"
        /\ order'.refunded = order.refunded
    BY <2>1 DEF TypeOK, Order
  <2> QED BY <1>0, <2>1, <2>2 DEF TypeOK, Row
<1>2. /\ Active' = Active /\ Succeeded' = Succeeded /\ Held' /\ r \notin Succeeded
      /\ Active \subseteq Requests /\ Succeeded \subseteq Requests
  <2>1. Active' = Active /\ Succeeded' = Succeeded
    BY <1>0, <1>1 DEF Active, Succeeded, WithStatus
  <2> QED BY <1>1, <2>1, Sets DEF Held, Busy
<1>3. /\ ~Cancelling /\ NoFullLive /\ Given' = Given /\ Live' = Live /\ (NoFullLive' <=> NoFullLive)
      /\ bank' = bank /\ returned' = returned
  <2>1. \A i \in Live : i \notin FullIds
    BY Sets DEF Inv, Base, Holder
  <2> QED BY <2>1, SameSets DEF Inv, CancelOK, NoFullLive, SameMoney
<1>4. \A q \in Requests : rows'[q].items = rows[q].items
  BY <1>1
<1>5. Base'
  <2>1. \A i \in Live' : Holder(i, bank[i].units)'
    <3> SUFFICES ASSUME NEW i \in Live PROVE Holder(i, bank[i].units)'
      BY <1>3
    <3>1. i \in Active \cup Succeeded /\ bank[i].units = rows[i].items
      BY <1>3 DEF Inv, Base, Holder, NoFullLive
    <3> QED BY <1>2, <1>3, <1>4, <3>1 DEF Holder
  <2>2. \A q \in Requests : rows'[q].status = "none" => ~rows'[q].old /\ bank'[q].state = "none"
    BY <1>1, <1>3 DEF Inv, Base
  <2> QED BY <1>1, <1>2, <1>3, <1>4, <2>1, <2>2 DEF Inv, Base
<1>6. ASSUME NEW k \in Operators \ {h} PROVE OperatorOK(k)'
  <2>1. OperatorOK(k) /\ job'[k] = job[k]
    BY DEF Inv, Others
  <2>2. Asking(k) => job[k].id \in Requests \ {r}
    BY DEF Asking, Owned, At
  <2>3. \A q \in Requests : rows[q].status # "none" => rows'[q].status # "none"
    BY <1>1
  <2> QED BY <1>1, <1>3, <1>4, <2>1, <2>2, <2>3, SameOperator
<1>7. \A q \in Requests : rows[q].status \in {"unknown", "succeeded"} =>
            rows'[q].status \in {"unknown", "succeeded"}
  BY <1>1
<1>8. /\ h # "worker" => WorkerOK'
      /\ h # "cancel" => CancelOK'
      /\ h # "recon" => ReconOK'
  BY <1>3, <1>4, <1>7, SameWorker, SameCancel, SameRecon DEF Inv, Others
<1> QED BY <1>1, <1>5, <1>6, <1>8

LEMMA UnknownInv ==
    ASSUME TypeOK, Owned, Inv, NEW h \in Operators, CreateUnknown(h)
    PROVE  Inv'
<1> USE IdFacts
<1> DEFINE r == job[h].id
<1>0. h \in Handlers /\ job[h].call = "unknown" /\ r \in Requests /\ h \notin {"worker", "cancel", "recon"}
  BY RefundAssumption DEF CreateUnknown, At, Owned
<1>1. Others(h) /\ job'[h].call = "idle"
  BY <1>0, JobMoves DEF CreateUnknown
<1>2. OperatorOK(h)' /\ OneAsks'
  BY <1>0, <1>1, SameAsks DEF OperatorOK, Asking, Pending, At, Inv
<1>3. CASE r \in Active
  <2>1. \A k \in Operators : Asking(k) => job[k].id # r
    BY <1>0 DEF Inv, OneAsks, Asking, Pending
  <2>2. MarkUnknown(r, NoId) \/ MarkUnknown(r, r)
    BY DEF CreateUnknown
  <2>3. UNCHANGED <<bank, returned>>
    BY DEF CreateUnknown
  <2>4. /\ Base' /\ \A k \in Operators \ {h} : OperatorOK(k)'
        /\ WorkerOK' /\ CancelOK' /\ ReconOK'
    BY <1>0, <1>1, <1>3, <2>1, <2>2, <2>3, UnknownRow
  <2> QED BY <1>2, <2>4 DEF Inv
<1>4. CASE r \notin Active
  <2>1. SameOrder /\ SameRows /\ SameMoney
    BY <1>4 DEF CreateUnknown, MarkUnknown, SameOrder, SameRows, SameMoney
  <2> QED BY <1>1, <1>2, <2>1, OperatorInv
<1> QED BY <1>3, <1>4



\* A refund that succeeds is counted; the bank gave its units back before.
LEMMA CompleteRow ==
    ASSUME TypeOK, Owned, Inv, NEW r \in Active, rows[r].items \subseteq Given,
           CompletePartial(r), UNCHANGED <<bank, returned>>,
           NEW h \in Handlers, Others(h), \A k \in Operators : Asking(k) => job[k].id # r
    PROVE  /\ Base'
           /\ \A k \in Operators \ {h} : OperatorOK(k)'
           /\ h # "worker" => WorkerOK'
           /\ h # "cancel" => CancelOK'
           /\ h # "recon" => ReconOK'
<1> USE IdFacts
<1>0. r \in Requests
  BY Sets
<1>1. /\ rows'[r].status = "succeeded" /\ rows'[r].items = rows[r].items
      /\ \A q \in Requests \ {r} : rows'[q] = rows[q]
      /\ order'.refunded = order.refunded \cup rows[r].items
  <2>1. rows' = [rows EXCEPT ![r].status = "succeeded"]
    BY DEF CompletePartial
  <2>2. order'.refunded = order.refunded \cup rows[r].items
    BY DEF CompletePartial, TypeOK, Order
  <2> QED BY <1>0, <2>1, <2>2 DEF TypeOK, Row
<1>2. /\ Active = {r} /\ Active' = {} /\ Succeeded' = Succeeded \cup {r}
      /\ Succeeded \subseteq Requests
  <2>1. Active = {r}
    BY DEF Inv, Base
  <2>2. Active' = {}
    BY <1>1, <2>1 DEF Active, WithStatus
  <2>3. Succeeded' = Succeeded \cup {r}
    BY <1>0, <1>1 DEF Succeeded, WithStatus
  <2> QED BY <2>1, <2>2, <2>3, Sets
<1>3. /\ ~Cancelling /\ NoFullLive /\ Given' = Given /\ Live' = Live /\ (NoFullLive' <=> NoFullLive)
      /\ bank' = bank /\ returned' = returned
  <2>1. \A i \in Live : i \notin FullIds
    BY Sets DEF Inv, Base, Holder
  <2> QED BY <2>1, SameSets DEF Inv, CancelOK, NoFullLive, SameMoney
<1>4. \A q \in Requests : rows'[q].items = rows[q].items
  BY <1>1
<1>5. Base'
  <2>1. \A i \in Live' : Holder(i, bank[i].units)'
    <3> SUFFICES ASSUME NEW i \in Live PROVE Holder(i, bank[i].units)'
      BY <1>3
    <3>1. i \in Active \cup Succeeded /\ bank[i].units = rows[i].items
      BY <1>3 DEF Inv, Base, Holder, NoFullLive
    <3>2. i \in Succeeded' /\ bank'[i].units = rows'[i].items
      BY <1>0, <1>2, <1>3, <1>4, <3>1
    <3> QED BY <3>2 DEF Holder
  <2>2. \A q \in Requests : rows'[q].status = "none" => ~rows'[q].old /\ bank'[q].state = "none"
    BY <1>1, <1>3 DEF Inv, Base
  <2>3. \A q \in Succeeded' : rows'[q].items \subseteq order'.refunded
    BY <1>1, <1>2, <1>4 DEF Inv, Base
  <2>4. order'.refunded \subseteq Given' /\ returned' = Cardinality(Given')
    BY <1>1, <1>3 DEF Inv, Base
  <2>5. \A p, q \in Active' \cup Succeeded' : p # q => rows'[p].items \cap rows'[q].items = {}
    BY <1>0, <1>2, <1>4 DEF Inv, Base
  <2> QED BY <1>2, <2>1, <2>2, <2>3, <2>4, <2>5 DEF Base
<1>6. ASSUME NEW k \in Operators \ {h} PROVE OperatorOK(k)'
  <2>1. OperatorOK(k) /\ job'[k] = job[k]
    BY DEF Inv, Others
  <2>2. Asking(k) => job[k].id \in Requests \ {r}
    BY DEF Asking, Owned, At
  <2>3. \A q \in Requests : rows[q].status # "none" => rows'[q].status # "none"
    BY <1>1
  <2> QED BY <1>1, <1>3, <1>4, <2>1, <2>2, <2>3, SameOperator
<1>7. \A q \in Requests : rows[q].status \in {"unknown", "succeeded"} =>
            rows'[q].status \in {"unknown", "succeeded"}
  BY <1>1
<1>8. /\ h # "worker" => WorkerOK'
      /\ h # "cancel" => CancelOK'
      /\ h # "recon" => ReconOK'
  BY <1>3, <1>4, <1>7, SameWorker, SameCancel, SameRecon DEF Inv, Others
<1> QED BY <1>5, <1>6, <1>8

\* A handler that leaves the bank alone and asks nothing new.
LEMMA QuietInv ==
    ASSUME TypeOK, Owned, Inv, NEW h \in Operators \cup {"worker"}, Others(h),
           SameOrder, SameRows, SameMoney, job'[h].call \in {"book", "mark", "idle"}
    PROVE  Inv'
<1>1. CASE h \in Operators
  <2>1. OneAsks' /\ OperatorOK(h)'
    BY <1>1, IdFacts, SameAsks DEF Inv, Asking, Pending, OperatorOK, At
  <2> QED BY <1>1, <2>1, OperatorInv
<1>2. CASE h = "worker"
  <2>1. WorkerOK'
    BY <1>2 DEF WorkerOK, At
  <2> QED BY <1>2, <2>1, ServiceInv
<1> QED BY <1>1, <1>2

LEMMA CompleteInv ==
    ASSUME TypeOK, Owned, Inv, NEW h \in Operators \cup {"worker"}, Complete(h)
    PROVE  Inv'
<1> USE IdFacts
<1> DEFINE r == job[h].id
<1>0. h \in Handlers /\ job[h].call = "complete" /\ r \in Requests
  BY DEF Complete, At, Owned
<1>1. UNCHANGED <<bank, returned>>
  BY DEF Complete
<1>2. CASE UNCHANGED <<order, rows>> /\ (Go(h, "book") \/ Finish(h))
  <2>1. Others(h) /\ job'[h].call \in {"book", "idle"}
    BY <1>0, <1>2, JobMoves DEF Calls
  <2>2. SameOrder /\ SameRows /\ SameMoney
    BY <1>1, <1>2 DEF SameOrder, SameRows, SameMoney
  <2> QED BY <2>1, <2>2, QuietInv
<1>3. CASE UNCHANGED <<order, rows>> /\ h \in Operators /\ Go(h, "unknown")
  <2>1. Others(h) /\ Kept(h) /\ job'[h].call = "unknown"
    BY <1>0, <1>3, JobMoves DEF Calls
  <2>2. SameOrder /\ SameRows /\ SameMoney
    BY <1>1, <1>3 DEF SameOrder, SameRows, SameMoney
  <2>3. OneAsks'
    BY <1>0, <2>1, SameAsks DEF Inv, Asking, Pending, Kept
  <2>4. OperatorOK(h)'
    BY <1>0, <1>3, <2>1 DEF Inv, OperatorOK, Asking, Pending, Kept, At
  <2> QED BY <1>3, <2>1, <2>2, <2>3, <2>4, OperatorInv
<1>4. CASE Completable(r) /\ Go(h, "book") /\ CompletePartial(r)
  <2>1. Others(h) /\ job'[h].call = "book"
    BY <1>0, <1>4, JobMoves DEF Calls
  <2>2. r \in Active
    BY <1>4 DEF Completable
  <2>3. rows[r].items \subseteq Given
    BY <1>0 DEF Inv, OperatorOK, WorkerOK, At
  <2>4. \A k \in Operators : Asking(k) => job[k].id # r
    <3>1. CASE h \in Operators
      <4>1. Pending(h) /\ ~Asking(h)
        BY <1>0 DEF Pending, Asking
      <4> QED BY <3>1, <4>1 DEF Inv, OneAsks
    <3>2. CASE h = "worker"
      <4>1. rows[r].status \in {"unknown", "succeeded"}
        BY <1>0, <3>2 DEF Inv, WorkerOK, WithStatus, Succeeded
      <4>2. \A k \in Operators : Asking(k) => rows[job[k].id].status = "processing"
        BY DEF Inv, OperatorOK
      <4> QED BY <4>1, <4>2
    <3> QED BY <3>1, <3>2
  <2>5. /\ Base' /\ \A k \in Operators \ {h} : OperatorOK(k)'
        /\ h # "worker" => WorkerOK'
        /\ CancelOK' /\ ReconOK'
    BY <1>0, <1>1, <1>4, <2>1, <2>2, <2>3, <2>4, CompleteRow, RefundAssumption
  <2>6. OneAsks' /\ OperatorOK(h)'
    BY <1>0, <2>1, SameAsks DEF Inv, Asking, Pending, OperatorOK, At
  <2>7. h = "worker" => WorkerOK'
    BY <2>1 DEF WorkerOK, At
  <2> QED BY <2>5, <2>6, <2>7 DEF Inv
<1> QED BY <1>2, <1>3, <1>4 DEF Complete

LEMMA AdjustInv ==
    ASSUME TypeOK, Owned, Inv, NEW h \in Operators \cup {"worker"}, Book(h) \/ Mark(h)
    PROVE  Inv'
<1> USE IdFacts
<1>0. h \in Handlers /\ job[h].call \in {"book", "mark"} /\ job[h].id \in Requests
  BY DEF Book, Mark, At, Owned
<1>1. Others(h) /\ job'[h].call \in {"mark", "idle"}
  BY <1>0, JobMoves DEF Book, Mark, Calls
<1>2. SameRows
  <2>1. CASE Book(h)
    BY <1>0, <2>1 DEF Book, BookPartial, TypeOK, Row, SameRows
  <2>2. CASE Mark(h)
    BY <1>0, <2>2 DEF Mark, TypeOK, Row, SameRows
  <2> QED BY <2>1, <2>2
<1>3. SameOrder /\ SameMoney
  BY DEF Book, Mark, SameOrder, SameMoney
<1> QED BY <1>1, <1>2, <1>3, QuietInv


-------------------------------------------------------------------------------
(* The worker of the partial refunds.                                          *)

LEMMA ServiceAsks ==
    ASSUME OneAsks, NEW h \in {"worker", "cancel", "recon"}, Others(h)
    PROVE  OneAsks'
<1>1. h \notin Operators
  BY RefundAssumption
<1> QED BY <1>1, IdFacts DEF OneAsks, Others, Asking, Pending

LEMMA SpentAll ==
    ASSUME TypeOK, Base, Spent
    PROVE  Given = Units
<1>1. Given \in SUBSET Units
  BY Sets
<1>2. Cardinality(Given) >= Cardinality(Units) /\ Cardinality(Given) <= Cardinality(Units)
      /\ Cardinality(Given) \in Nat /\ Cardinality(Units) \in Nat
  BY <1>1, Amounts DEF Spent, Base
<1>3. Cardinality(Given) = Cardinality(Units)
  BY <1>2
<1> QED BY <1>1, <1>3, FS_Subset, RefundAssumption

LEMMA WorkerStartInv ==
    ASSUME TypeOK, Owned, Inv, NEW r \in Requests, WorkerStart(r)
    PROVE  Inv'
<1> USE IdFacts
<1>1. Enter("worker", "resolve", r, ItemsOf(Succeeded), Untouched)
  BY DEF WorkerStart, Begin
<1>2. Others("worker") /\ job'["worker"].call = "resolve" /\ job'["worker"].id = r
  BY <1>1, JobMoves
<1>3. UNCHANGED <<bank, returned>>
  BY DEF WorkerStart
<1>4. CASE rows[r].status = "unknown" /\ UNCHANGED <<order, rows>>
  <2>1. SameOrder /\ SameRows /\ SameMoney
    BY <1>3, <1>4 DEF SameOrder, SameRows, SameMoney
  <2>2. WorkerOK'
    BY <1>2, <1>4 DEF WorkerOK, At, WithStatus
  <2> QED BY <1>2, <2>1, <2>2, ServiceInv
<1>5. CASE rows[r].status = "processing" /\ rows[r].old /\ MarkUnknown(r, NoId)
  <2>1. r \in Active
    BY <1>5 DEF Active, WithStatus
  <2>2. \A k \in Operators : Asking(k) => job[k].id # r
    BY <1>5 DEF Inv, OperatorOK
  <2>3. /\ Base' /\ rows'[r].status = "unknown"
        /\ \A k \in Operators : OperatorOK(k)'
        /\ CancelOK' /\ ReconOK'
    BY <1>2, <1>3, <1>5, <2>1, <2>2, UnknownRow, RefundAssumption
  <2>4. WorkerOK'
    BY <1>2, <2>3 DEF WorkerOK, At, WithStatus
  <2>5. OneAsks'
    BY <1>2, ServiceAsks DEF Inv
  <2> QED BY <2>3, <2>4, <2>5 DEF Inv
<1> QED BY <1>4, <1>5 DEF WorkerStart

LEMMA ReadjustInv ==
    ASSUME TypeOK, Owned, Inv, NEW r \in Requests, WorkerReadjust(r)
    PROVE  Inv'
<1>1. Enter("worker", "book", r, {}, Untouched)
  BY DEF WorkerReadjust, Begin
<1>2. Others("worker") /\ job'["worker"].call = "book"
  BY <1>1, JobMoves, IdFacts
<1>3. SameOrder /\ SameRows /\ SameMoney
  BY DEF WorkerReadjust, SameOrder, SameRows, SameMoney
<1> QED BY <1>2, <1>3, QuietInv

\* What the bank answers to a repeated request is about the units of its row.
LEMMA ResolveInv ==
    ASSUME TypeOK, Owned, Inv, ~Widget, WorkerResolve
    PROVE  Inv'
<1> USE IdFacts
<1> DEFINE r == job["worker"].id
           items == rows[r].items
<1>0. job["worker"].call = "resolve" /\ r \in Requests
  BY DEF WorkerResolve, At, Owned
<1>1. /\ rows[r].status \in {"unknown", "succeeded"} /\ r \in WithStatus("unknown") \cup Succeeded
      /\ r \in Active \cup Succeeded /\ items \in SUBSET Units
  BY <1>0 DEF Inv, WorkerOK, WithStatus, Succeeded, Active, TypeOK, Row
<1>2. UNCHANGED <<order, rows>>
  BY DEF WorkerResolve
<1>3. \A call \in {"complete", "decline"} :
         Go("worker", call) => /\ Others("worker") /\ Kept("worker")
                               /\ job'["worker"].call = call
  BY <1>0, JobMoves
<1>4. Finish("worker") => Others("worker") /\ job'["worker"].call = "idle"
  BY JobMoves
<1>5. ASSUME Finish("worker"), Unheard PROVE Inv'
  <2>1. SameOrder /\ SameRows /\ SameMoney
    BY <1>2, <1>5 DEF Unheard, SameOrder, SameRows, SameMoney
  <2> QED BY <1>4, <1>5, <2>1, QuietInv
<1>6. ASSUME Go("worker", "complete"), Unheard, Spent PROVE Inv'
  <2>1. SameOrder /\ SameRows /\ SameMoney
    BY <1>2, <1>6 DEF Unheard, SameOrder, SameRows, SameMoney
  <2>2. Given' = Given /\ Given = Units
    BY <1>6, <2>1, SameSets, SpentAll DEF Inv
  <2>3. WorkerOK'
    BY <1>1, <1>2, <1>3, <1>6, <2>2 DEF WorkerOK, Kept, At, WithStatus, Succeeded
  <2> QED BY <1>3, <1>6, <2>1, <2>3, ServiceInv
<1>7. ASSUME NEW s \in {"slow", "done"}, Decide(r, items, s),
             bank[r].state = "done" => s = "done" /\ bank[r].units = items,
             Finish("worker") \/ (Go("worker", "complete") /\ s = "done")
      PROVE Inv'
  <2>1. Holder(r, items) /\ r \notin FullIds
    BY <1>0, <1>1 DEF Holder
  <2>2. \A k \in Operators : Asking(k) => job[k].id # r
    BY <1>1 DEF Inv, OperatorOK
  <2>3. Others("worker")
    BY <1>3, <1>4, <1>7
  <2>4. /\ Base' /\ Given \subseteq Given' /\ (s = "done" => items \subseteq Given')
        /\ \A k \in Operators : OperatorOK(k)'
        /\ CancelOK' /\ ReconOK'
    BY <1>0, <1>1, <1>2, <1>7, <2>1, <2>2, <2>3, BankOthers, RefundAssumption
  <2>5. WorkerOK'
    <3>1. CASE Finish("worker")
      BY <1>4, <3>1 DEF WorkerOK, At
    <3>2. CASE Go("worker", "complete") /\ s = "done"
      BY <1>1, <1>2, <1>3, <2>4, <3>2 DEF WorkerOK, Kept, At, WithStatus, Succeeded
    <3> QED BY <1>7, <3>1, <3>2
  <2> QED BY <2>3, <2>4, <2>5, ServiceAsks DEF Inv
<1>8. CASE Spent
  BY <1>5, <1>6, <1>8 DEF WorkerResolve
<1>9. CASE ~Spent
  <2>1. PICK answer \in Answers(r, items) :
          /\ RefundCall(r, items, answer)
          /\ CASE answer = "ok" -> Go("worker", "complete")
               [] answer = "declined" -> Go("worker", "decline")
               [] OTHER -> Finish("worker")
    BY <1>9 DEF WorkerResolve
  <2>2. answer # "ok" /\ answer # "declined" => Finish("worker")
    BY <2>1
  <2>3. answer = "ok" => Go("worker", "complete")
    BY <2>1
  <2>4. \/ Unheard /\ answer \in {"lost", "rejected"}
        \/ /\ answer \in {"ok", "lost", "slow"} /\ bank[r].state # "declined"
           /\ \E s \in {"slow", "done"} :
                 /\ Decide(r, IF bank[r].state = "none" THEN items ELSE bank[r].units, s)
                 /\ bank[r].state = "done" => s = "done"
                 /\ answer = "ok" => s = "done"
    BY <1>0, <2>1, FlexCall
  <2>5. bank[r].state \notin {"none", "declined"} => bank[r].units = items
    <3>1. bank[r].state \notin {"none", "declined"} => r \in Live
      BY <1>0 DEF Live, TypeOK, Money
    <3> QED BY <1>0, <3>1 DEF Inv, Base, Holder
  <2>6. CASE Unheard /\ answer \in {"lost", "rejected"}
    BY <1>5, <2>2, <2>6
  <2>7. CASE /\ answer \in {"ok", "lost", "slow"} /\ bank[r].state # "declined"
             /\ \E s \in {"slow", "done"} :
                 /\ Decide(r, IF bank[r].state = "none" THEN items ELSE bank[r].units, s)
                 /\ bank[r].state = "done" => s = "done"
                 /\ answer = "ok" => s = "done"
    <3>1. PICK s \in {"slow", "done"} :
                 /\ Decide(r, IF bank[r].state = "none" THEN items ELSE bank[r].units, s)
                 /\ bank[r].state = "done" => s = "done"
                 /\ answer = "ok" => s = "done"
      BY <2>7
    <3>2. (IF bank[r].state = "none" THEN items ELSE bank[r].units) = items
      BY <2>5, <2>7
    <3>3. Decide(r, items, s)
      BY <3>1, <3>2
    <3>4. Finish("worker") \/ (Go("worker", "complete") /\ s = "done")
      BY <2>2, <2>3, <2>7, <3>1
    <3>5. bank[r].state = "done" => s = "done" /\ bank[r].units = items
      BY <2>5, <3>1
    <3> QED BY <1>7, <3>3, <3>4, <3>5
  <2> QED BY <2>4, <2>6, <2>7
<1> QED BY <1>8, <1>9


-------------------------------------------------------------------------------
(* The full refund.                                                            *)

\* The order changes, but not for those who hold it.
LEMMA OrderStep ==
    ASSUME TypeOK, Owned, Inv, NEW h \in {"worker", "cancel", "recon"}, Others(h),
           UNCHANGED <<rows, bank, returned>>,
           order.refunded \subseteq order'.refunded, order'.refunded \subseteq Given,
           Held' \/ (Active = {} /\ NoFullLive /\ (h = "cancel" \/ ~Cancelling))
    PROVE  /\ Base' /\ OneAsks' /\ \A k \in Operators : OperatorOK(k)'
           /\ h # "worker" => WorkerOK'
           /\ h # "cancel" => CancelOK'
           /\ h # "recon" => ReconOK'
           /\ Active' = Active /\ Succeeded' = Succeeded /\ Given' = Given
           /\ (NoFullLive' <=> NoFullLive)
<1> USE IdFacts
<1>1. SameRows /\ SameMoney
  BY DEF SameRows, SameMoney
<1>2. /\ Active' = Active /\ Succeeded' = Succeeded /\ Given' = Given /\ Live' = Live
      /\ (NoFullLive' <=> NoFullLive)
  BY <1>1, SameSets
<1>3. \A i \in Live' : Holder(i, bank[i].units)'
  <2> SUFFICES ASSUME NEW i \in Live PROVE Holder(i, bank[i].units)'
    BY <1>2
  <2>1. Holder(i, bank[i].units)
    BY DEF Inv, Base
  <2>2. CASE Held'
    BY <1>2, <2>1, <2>2 DEF Holder
  <2>3. CASE NoFullLive
    BY <1>2, <2>1, <2>3 DEF Holder, NoFullLive
  <2> QED BY <2>2, <2>3
<1>4. Base'
  <2>1. Active' # {} => Held'
    BY <1>2
  <2> QED BY <1>2, <1>3, <2>1 DEF Inv, Base
<1>5. OneAsks'
  BY ServiceAsks DEF Inv
<1>6. ASSUME NEW k \in Operators PROVE OperatorOK(k)'
  <2>1. OperatorOK(k) /\ job'[k] = job[k]
    BY RefundAssumption DEF Inv, Others
  <2> QED BY <1>2, <2>1, SameOperator
<1>7. h # "worker" => WorkerOK'
  BY <1>2, SameWorker DEF Inv, Others
<1>8. h # "cancel" => CancelOK'
  <2> SUFFICES ASSUME h # "cancel" PROVE CancelOK'
    OBVIOUS
  <2>1. CancelOK /\ job'["cancel"] = job["cancel"]
    BY DEF Inv, Others
  <2>2. Cancelling => /\ Active' = {} /\ Succeeded' = Succeeded /\ Held'
                      /\ \A r \in Succeeded : rows'[r].items = rows[r].items
                      /\ order.refunded \subseteq order'.refunded
    BY <1>2, <2>1 DEF CancelOK
  <2> QED BY <1>2, <2>1, <2>2, SameCancel
<1>9. h # "recon" => ReconOK'
  BY <1>2, SameRecon DEF Inv, Others
<1> QED BY <1>2, <1>4, <1>5, <1>6, <1>7, <1>8, <1>9

LEMMA CancelStartInv ==
    ASSUME TypeOK, Owned, Inv, NEW reuse, CancelStart(reuse)
    PROVE  Inv'
<1>1. PICK id : Enter("cancel", "claim", id, {}, order)
  BY DEF CancelStart, BeginWithOrder
<1>2. /\ Others("cancel") /\ job'["cancel"].call = "claim" /\ job'["cancel"].seen = order
  BY <1>1, JobMoves, IdFacts
<1>3. SameOrder /\ SameRows /\ SameMoney
  BY DEF CancelStart, SameOrder, SameRows, SameMoney
<1>4. CancelOK'
  BY <1>2 DEF CancelStart, CancelOK, Cancelling, At
<1> QED BY <1>2, <1>3, <1>4, ServiceInv

\* The claim finds no refund in progress and takes what has not gone back.
LEMMA CancelClaimInv ==
    ASSUME TypeOK, Owned, Inv, CancelClaim
    PROVE  Inv'
<1> USE IdFacts
<1>0. job["cancel"].call = "claim" /\ UNCHANGED <<rows, bank, returned>>
  BY DEF CancelClaim, At
<1>1. CASE Finish("cancel") /\ UNCHANGED order
  <2>1. Others("cancel") /\ job'["cancel"].call = "idle"
    BY <1>1, JobMoves
  <2>2. SameOrder /\ SameRows /\ SameMoney
    BY <1>0, <1>1 DEF SameOrder, SameRows, SameMoney
  <2>3. CancelOK'
    BY <2>1 DEF CancelOK, Cancelling, At
  <2> QED BY <2>1, <2>2, <2>3, ServiceInv
<1>2. CASE order.status = "paid" /\ order.refund = job["cancel"].seen.refund
  <2>1. job' = [job EXCEPT !["cancel"].call = "bank", !["cancel"].seen = order',
                           !["cancel"].units = Units \ order.refunded]
    BY <1>2 DEF CancelClaim
  <2>2. /\ order'.status = order.status /\ order'.refund = "processing"
        /\ order'.refunded = order.refunded
    BY <1>2 DEF CancelClaim, TypeOK, Order
  <2>3. /\ Others("cancel") /\ job'["cancel"].call = "bank"
        /\ job'["cancel"].units = Units \ order.refunded
    BY <2>1 DEF Others, TypeOK, Job
  <2>4. Active = {} /\ NoFullLive
    <3>1. ~Held
      BY <1>0, <1>2 DEF Inv, CancelOK, At, Held, Busy
    <3>2. \A i \in Live : i \notin FullIds
      BY <3>1, Sets DEF Inv, Base, Holder
    <3> QED BY <3>1, <3>2 DEF Inv, Base, NoFullLive
  <2>5. Held'
    BY <2>2 DEF Held, Busy
  <2>6. order'.refunded \subseteq Given
    BY <2>2 DEF Inv, Base
  <2>7. /\ Base' /\ OneAsks' /\ \A k \in Operators : OperatorOK(k)'
        /\ WorkerOK' /\ ReconOK'
        /\ Active' = Active /\ Succeeded' = Succeeded /\ (NoFullLive' <=> NoFullLive)
    BY <1>0, <2>2, <2>3, <2>5, <2>6, OrderStep
  <2>8. \A r \in Succeeded : rows'[r].items \cap (Units \ order.refunded) = {}
    BY <1>0 DEF Inv, Base
  <2>9. CancelOK'
    BY <2>2, <2>3, <2>4, <2>5, <2>7, <2>8 DEF CancelOK, Cancelling, At
  <2> QED BY <2>7, <2>9 DEF Inv
<1> QED BY <1>1, <1>2 DEF CancelClaim

\* Only now may money move under the id of a full refund.
LEMMA CancelBankInv ==
    ASSUME TypeOK, Owned, Inv, ~Widget, CancelBank
    PROVE  Inv'
<1> USE IdFacts
<1> DEFINE i == job["cancel"].id
           units == job["cancel"].units
<1>0. job["cancel"].call = "bank" /\ i \in FullIds /\ i \in Ids /\ units \in SUBSET Units
  BY Carried DEF CancelBank, At, Owned
<1>1. /\ Active = {} /\ Held /\ NoFullLive
      /\ \A r \in Succeeded : rows[r].items \cap units = {}
      /\ Units \subseteq units \cup order.refunded
  BY <1>0 DEF Inv, CancelOK, Cancelling, At
<1>2. UNCHANGED <<order, rows>>
  BY DEF CancelBank
<1>3. \A call \in {"final", "fail"} : \A answer : Hear("cancel", call, answer) =>
         /\ Others("cancel") /\ job'["cancel"].call = call /\ job'["cancel"].answer = answer
  BY <1>0, JobMoves
<1>4. /\ Active' = Active /\ Succeeded' = Succeeded /\ (Held' <=> Held)
  BY <1>2 DEF Active, Succeeded, WithStatus, Held, Busy
<1>5. ASSUME Unheard, NEW answer, Hear("cancel", "fail", answer)
      PROVE Inv'
  <2>1. SameOrder /\ SameRows /\ SameMoney
    BY <1>2, <1>5 DEF Unheard, SameOrder, SameRows, SameMoney
  <2>2. NoFullLive'
    BY <1>1, <2>1, SameSets
  <2>3. CancelOK'
    BY <1>1, <1>3, <1>4, <1>5, <2>2 DEF CancelOK, Cancelling, At
  <2> QED BY <1>3, <1>5, <2>1, <2>3, ServiceInv
<1>6. ASSUME NEW s \in {"slow", "done"}, Decide(i, units, s), bank[i].state = "none",
             NEW answer,
             \/ answer = "ok" /\ s = "done" /\ Hear("cancel", "final", answer)
             \/ answer \in {"lost", "slow"} /\ Hear("cancel", "fail", answer)
      PROVE Inv'
  <2>1. Holder(i, units)
    BY <1>0, <1>1 DEF Holder, NoFullLive
  <2>2. \A k \in Operators : Asking(k) => job[k].id # i
    BY <1>0 DEF Owned, Asking, At
  <2>3. Others("cancel") /\ job'["cancel"].answer = answer
    BY <1>3, <1>6
  <2>4. /\ Base' /\ Given \subseteq Given' /\ (s = "done" => units \subseteq Given')
        /\ \A k \in Operators : OperatorOK(k)'
        /\ WorkerOK' /\ ReconOK'
    <3>1. "cancel" \in Handlers /\ "cancel" \notin Operators
      BY RefundAssumption
    <3>2. /\ bank[i].state = "done" => s = "done" /\ bank[i].units = units
          /\ \A k \in Operators \ {"cancel"} : Asking(k) => job[k].id # i
      BY <1>6, <2>2
    <3>3. Decide(i, units, s)
      BY <1>6
    <3>4. /\ Base' /\ Given \subseteq Given' /\ (s = "done" => units \subseteq Given')
          /\ \A k \in Operators \ {"cancel"} : OperatorOK(k)'
          /\ WorkerOK' /\ ReconOK'
      BY <1>0, <1>2, <2>1, <2>3, <3>1, <3>2, <3>3, BankOthers
    <3> QED BY <3>1, <3>4
  <2>5. s = "done" => Units \subseteq Given'
    BY <1>1, <2>4 DEF Inv, Base
  <2>6. CancelOK'
    <3>1. CASE answer = "ok" /\ s = "done" /\ Hear("cancel", "final", answer)
      <4>1. job'["cancel"].call = "final"
        BY <1>3, <3>1
      <4> QED BY <1>1, <1>4, <2>3, <2>5, <3>1, <4>1 DEF CancelOK, Cancelling, At
    <3>2. CASE answer \in {"lost", "slow"} /\ Hear("cancel", "fail", answer)
      <4>1. job'["cancel"].call = "fail"
        BY <1>3, <3>2
      <4> QED BY <1>1, <1>4, <2>3, <3>2, <4>1 DEF CancelOK, Cancelling, At
    <3> QED BY <1>6, <3>1, <3>2
  <2> QED BY <2>3, <2>4, <2>6, ServiceAsks DEF Inv
<1>7. CASE Spent
  BY <1>5, <1>7 DEF CancelBank
<1>8. CASE ~Spent
  <2> DEFINE next(answer) == IF answer = "ok" THEN "final" ELSE "fail"
  <2>0. \A answer : next(answer) = IF answer = "ok" THEN "final" ELSE "fail"
    OBVIOUS
  <2>1. PICK answer \in Answers(i, units) :
          RefundCall(i, units, answer) /\ Hear("cancel", next(answer), answer)
    BY <1>8 DEF CancelBank
  <2> HIDE DEF next
  <2>2. \/ Unheard /\ answer \in {"lost", "rejected"}
        \/ /\ answer \in {"ok", "lost", "slow"} /\ bank[i].state # "declined"
           /\ \E s \in {"slow", "done"} :
                 /\ Decide(i, IF bank[i].state = "none" THEN units ELSE bank[i].units, s)
                 /\ answer = "ok" => s = "done"
    BY <1>0, <2>1, FlexCall
  <2>3. bank[i].state \in {"none", "declined"}
    BY <1>0, <1>1 DEF NoFullLive, Live, TypeOK, Money
  <2>4. CASE Unheard /\ answer \in {"lost", "rejected"}
    <3>1. next(answer) = "fail"
      BY <2>0, <2>4
    <3> QED BY <1>5, <2>1, <2>4, <3>1
  <2>5. CASE /\ answer \in {"ok", "lost", "slow"} /\ bank[i].state # "declined"
             /\ \E s \in {"slow", "done"} :
                   /\ Decide(i, IF bank[i].state = "none" THEN units ELSE bank[i].units, s)
                   /\ answer = "ok" => s = "done"
    <3>1. PICK s \in {"slow", "done"} :
                   /\ Decide(i, IF bank[i].state = "none" THEN units ELSE bank[i].units, s)
                   /\ answer = "ok" => s = "done"
      BY <2>5
    <3>2. bank[i].state = "none"
      BY <2>3, <2>5
    <3>3. Decide(i, units, s)
      BY <3>1, <3>2
    <3>4. CASE answer = "ok"
      <4>1. next(answer) = "final"
        BY <2>0, <3>4
      <4> QED BY <1>6, <2>1, <3>1, <3>2, <3>3, <3>4, <4>1
    <3>5. CASE answer # "ok"
      <4>1. next(answer) = "fail"
        BY <2>0, <3>5
      <4> QED BY <1>6, <2>1, <2>5, <3>2, <3>3, <3>5, <4>1
    <3> QED BY <3>4, <3>5
  <2> QED BY <2>2, <2>4, <2>5
<1> QED BY <1>7, <1>8

\* The order is let go only when no money can move any more.
LEMMA CancelFailInv ==
    ASSUME TypeOK, Owned, Inv, CancelFail
    PROVE  Inv'
<1> USE IdFacts
<1> DEFINE answer == job["cancel"].answer
<1>0. job["cancel"].call = "fail" /\ UNCHANGED <<rows, bank, returned>> /\ Finish("cancel")
  BY DEF CancelFail, At
<1>1. Active = {} /\ Held /\ (NoFullLive \/ answer \in {"ok", "lost", "slow"})
  BY <1>0 DEF Inv, CancelOK, Cancelling, At
<1>2. Others("cancel") /\ job'["cancel"].call = "idle"
  BY <1>0, JobMoves
<1>3. /\ order'.status = order.status /\ order'.refunded = order.refunded
      /\ order'.refund = order.refund \/ order'.refund = "unknown" \/ NoFullLive
  <2>1. CASE order' = order
    BY <2>1
  <2>2. CASE order' # order
    <3> DEFINE verdict == IF answer \in {"ok"} \cup Uncertain THEN "unknown" ELSE "failed"
    <3>1. \E reference : order' = [order EXCEPT !.refund = verdict, !.ref = reference]
      BY <2>2 DEF CancelFail
    <3>2. verdict = "unknown" \/ NoFullLive
      BY <1>1 DEF Uncertain
    <3> HIDE DEF verdict
    <3> QED BY <3>1, <3>2 DEF TypeOK, Order
  <2> QED BY <2>1, <2>2
<1>4. Held' \/ NoFullLive
  BY <1>1, <1>3 DEF Held, Busy
<1>5. order'.refunded \subseteq Given
  BY <1>3 DEF Inv, Base
<1>6. /\ Base' /\ OneAsks' /\ \A k \in Operators : OperatorOK(k)'
      /\ WorkerOK' /\ ReconOK'
  BY <1>0, <1>1, <1>2, <1>3, <1>4, <1>5, OrderStep
<1>7. CancelOK'
  BY <1>2 DEF CancelOK, Cancelling, At
<1> QED BY <1>6, <1>7 DEF Inv

\* Everything has gone back when the order is finalized.
LEMMA Finalize ==
    ASSUME TypeOK, Owned, Inv, NEW h \in {"cancel", "recon"}, NEW reference,
           FinalizeFull(reference), Go(h, "reverse"), Units \subseteq Given,
           UNCHANGED <<rows, bank, returned>>
    PROVE  Inv'
<1> USE IdFacts
<1>1. Others(h) /\ job'[h].call = "reverse"
  BY JobMoves
<1>2. order'.status = "refunded" /\ order'.refunded = Units /\ order.refunded \subseteq Units
  BY DEF FinalizeFull, TypeOK, Order
<1>3. Held'
  BY <1>2 DEF Held
<1>4. /\ Base' /\ OneAsks' /\ \A k \in Operators : OperatorOK(k)'
      /\ WorkerOK' /\ (h # "cancel" => CancelOK') /\ (h # "recon" => ReconOK')
  BY <1>1, <1>2, <1>3, OrderStep
<1>5. h = "cancel" => CancelOK'
  BY <1>1 DEF CancelOK, Cancelling, At
<1>6. h = "recon" => ReconOK'
  BY <1>1 DEF ReconOK, At
<1> QED BY <1>4, <1>5, <1>6 DEF Inv

LEMMA CancelFinalInv ==
    ASSUME TypeOK, Owned, Inv, CancelFinal
    PROVE  Inv'
<1> USE IdFacts
<1>0. job["cancel"].call = "final" /\ UNCHANGED <<rows, bank, returned>>
  BY DEF CancelFinal, At
<1>1. Active = {} /\ Held /\ job["cancel"].answer = "ok" /\ Units \subseteq Given
  BY <1>0 DEF Inv, CancelOK, Cancelling, At
<1>2. CASE FinalizeFull(job["cancel"].id) /\ Go("cancel", "reverse")
  BY <1>0, <1>1, <1>2, Finalize
<1>3. CASE Go("cancel", "fail") /\ UNCHANGED order
  <2>1. SameOrder /\ SameRows /\ SameMoney
    BY <1>0, <1>3 DEF SameOrder, SameRows, SameMoney
  <2>2. Others("cancel") /\ job'["cancel"].call = "fail" /\ job'["cancel"].answer = "ok"
    BY <1>1, <1>3, JobMoves
  <2>3. Active' = {} /\ Held'
    BY <1>1, <2>1, SameSets
  <2>4. CancelOK'
    BY <2>2, <2>3 DEF CancelOK, Cancelling, At
  <2> QED BY <2>1, <2>2, <2>4, ServiceInv
<1> QED BY <1>2, <1>3 DEF CancelFinal

LEMMA ReverseInv ==
    ASSUME TypeOK, Owned, Inv, NEW h \in {"cancel", "recon"}, Reverse(h)
    PROVE  Inv'
<1> USE IdFacts
<1>1. Others(h) /\ job'[h].call = "idle"
  BY JobMoves DEF Reverse
<1>2. SameOrder /\ SameRows /\ SameMoney
  BY DEF Reverse, TypeOK, Order, SameOrder, SameRows, SameMoney
<1>3. h = "cancel" => CancelOK'
  BY <1>1 DEF CancelOK, Cancelling, At
<1>4. h = "recon" => ReconOK'
  BY <1>1 DEF ReconOK, At
<1> QED BY <1>1, <1>2, <1>3, <1>4, ServiceInv


-------------------------------------------------------------------------------
(* The worker of the full refunds, time, the bank and stops.                    *)

LEMMA ReconStartInv ==
    ASSUME TypeOK, Owned, Inv, ReconStart \/ FollowupStart
    PROVE  Inv'
<1>1. \/ Enter("recon", "check", order.req, {}, order)
      \/ Enter("recon", "reverse", NoId, {}, Untouched)
  BY DEF ReconStart, FollowupStart, Begin, BeginWithOrder
<1>2. Others("recon") /\ job'["recon"].call \in {"check", "reverse"}
  BY <1>1, JobMoves, IdFacts
<1>3. SameOrder /\ SameRows /\ SameMoney
  BY DEF ReconStart, FollowupStart, SameOrder, SameRows, SameMoney
<1>4. ReconOK'
  BY <1>2 DEF ReconOK, At
<1> QED BY <1>2, <1>3, <1>4, ServiceInv

LEMMA ReconInv ==
    ASSUME TypeOK, Owned, Inv, ~Widget,
           ReconCheck \/ ReconTakeover \/ ReconResolve \/ ReconDecline \/ ReconDefer \/ ReconFinal
    PROVE  Inv'
<1> USE IdFacts
<1>0. UNCHANGED rows
  BY DEF ReconCheck, ReconTakeover, ReconResolve, ReconDecline, ReconDefer, ReconFinal
<1>1. ASSUME Others("recon"), job'["recon"].call \in {"idle", "resolve", "takeover"},
             UNCHANGED order, Unheard
      PROVE  Inv'
  <2>1. SameOrder /\ SameRows /\ SameMoney
    BY <1>0, <1>1 DEF Unheard, SameOrder, SameRows, SameMoney
  <2>2. ReconOK'
    BY <1>1 DEF ReconOK, At
  <2> QED BY <1>1, <2>1, <2>2, ServiceInv
<1>2. Finish("recon") => Others("recon") /\ job'["recon"].call = "idle"
  BY JobMoves
<1>3. ASSUME ReconCheck PROVE Inv'
  <2> DEFINE next == IF job["recon"].seen.refund = "unknown" THEN "resolve" ELSE "takeover"
  <2>1. next \in {"resolve", "takeover"}
    OBVIOUS
  <2>2. Finish("recon") \/ Go("recon", next)
    BY <1>3 DEF ReconCheck
  <2> HIDE DEF next
  <2>3. Others("recon") /\ job'["recon"].call \in {"idle", "resolve", "takeover"}
    BY <1>2, <2>1, <2>2, JobMoves
  <2> QED BY <1>1, <1>3, <2>3 DEF ReconCheck, Unheard
<1>4. ASSUME ReconTakeover PROVE Inv'
  <2>1. CASE Finish("recon") /\ UNCHANGED order
    BY <1>1, <1>2, <1>4, <2>1 DEF ReconTakeover, Unheard
  <2>2. CASE ~(Finish("recon") /\ UNCHANGED order)
    <3>1. /\ order' = [order EXCEPT !.refund = "unknown"]
          /\ job' = [job EXCEPT !["recon"].call = "resolve", !["recon"].seen = order']
          /\ UNCHANGED <<bank, returned>>
      BY <1>4, <2>2 DEF ReconTakeover
    <3>2. Others("recon") /\ job'["recon"].call = "resolve"
      BY <3>1 DEF Others, TypeOK, Job
    <3>3. order'.refunded = order.refunded /\ order'.refund = "unknown"
      BY <3>1 DEF TypeOK, Order
    <3>4. Held' /\ order'.refunded \subseteq Given
      BY <3>3 DEF Held, Busy, Inv, Base
    <3>5. /\ Base' /\ OneAsks' /\ \A k \in Operators : OperatorOK(k)'
          /\ WorkerOK' /\ CancelOK'
      BY <1>0, <3>1, <3>2, <3>3, <3>4, OrderStep
    <3>6. ReconOK'
      BY <3>2 DEF ReconOK, At
    <3> QED BY <3>5, <3>6 DEF Inv
  <2> QED BY <2>1, <2>2
<1>5. ASSUME ReconResolve PROVE Inv'
  <2>1. UNCHANGED order /\ Unheard
        /\ (Finish("recon") \/ (Spent /\ Hear("recon", "final", "ok")))
    BY <1>5 DEF ReconResolve
  <2>2. CASE Finish("recon")
    BY <1>1, <1>2, <2>1, <2>2
  <2>3. CASE Spent /\ Hear("recon", "final", "ok")
    <3>1. Others("recon") /\ job'["recon"].call = "final"
      BY <2>3, JobMoves
    <3>2. SameOrder /\ SameRows /\ SameMoney
      BY <1>0, <2>1 DEF Unheard, SameOrder, SameRows, SameMoney
    <3>3. Units \subseteq Given'
      BY <2>3, <3>2, SameSets, SpentAll DEF Inv
    <3>4. ReconOK'
      BY <3>1, <3>3 DEF ReconOK, At
    <3> QED BY <3>1, <3>2, <3>4, ServiceInv
  <2> QED BY <2>1, <2>2, <2>3
<1>6. ~ReconDecline /\ ~ReconDefer
  BY DEF Inv, ReconOK, ReconDecline, ReconDefer
<1>7. ASSUME ReconFinal PROVE Inv'
  <2>1. Units \subseteq Given /\ UNCHANGED <<rows, bank, returned>>
    BY <1>7 DEF ReconFinal, Inv, ReconOK
  <2>2. CASE Finish("recon") /\ UNCHANGED order
    BY <1>1, <1>2, <2>1, <2>2 DEF Unheard
  <2>3. CASE ~(Finish("recon") /\ UNCHANGED order)
    <3>1. Go("recon", "reverse") /\ \E reference : FinalizeFull(reference)
      BY <1>7, <2>3 DEF ReconFinal
    <3> QED BY <2>1, <3>1, Finalize
  <2> QED BY <2>2, <2>3
<1> QED BY <1>3, <1>4, <1>5, <1>6, <1>7

LEMMA RowAgesInv ==
    ASSUME TypeOK, Owned, Inv, RowAges
    PROVE  Inv'
<1> USE IdFacts
<1>1. PICK r \in WithStatus("processing") :
          Unattended(r) /\ rows' = [rows EXCEPT ![r].old = TRUE]
  BY DEF RowAges
<1>2. r \in Requests /\ rows[r].status = "processing"
  BY DEF WithStatus
<1>3. /\ \A q \in Requests : rows'[q].status = rows[q].status /\ rows'[q].items = rows[q].items
      /\ \A q \in Requests \ {r} : rows'[q] = rows[q]
  BY <1>1, <1>2 DEF TypeOK, Row
<1>4. UNCHANGED <<order, bank, returned, job>>
  BY DEF RowAges
<1>5. /\ Active' = Active /\ Succeeded' = Succeeded /\ Live' = Live /\ Given' = Given
      /\ WithStatus("unknown")' = WithStatus("unknown") /\ (Held' <=> Held)
      /\ (NoFullLive' <=> NoFullLive) /\ Active \subseteq Requests /\ Succeeded \subseteq Requests
  <2>1. Active' = Active /\ Succeeded' = Succeeded /\ WithStatus("unknown")' = WithStatus("unknown")
    BY <1>3 DEF Active, Succeeded, WithStatus
  <2> QED BY <1>4, <2>1, SameSets, Sets DEF SameMoney, Held, Busy
<1>6. Base'
  <2>1. \A i \in Live' : Holder(i, bank[i].units)'
    <3> SUFFICES ASSUME NEW i \in Live PROVE Holder(i, bank[i].units)'
      BY <1>5
    <3>1. Holder(i, bank[i].units) /\ bank'[i] = bank[i]
      BY <1>4 DEF Inv, Base
    <3> QED BY <1>3, <1>5, <3>1 DEF Holder
  <2>2. \A q \in Requests : rows'[q].status = "none" => ~rows'[q].old /\ bank'[q].state = "none"
    BY <1>2, <1>3, <1>4 DEF Inv, Base
  <2> QED BY <1>3, <1>4, <1>5, <2>1, <2>2 DEF Inv, Base
<1>7. ASSUME NEW k \in Operators PROVE OperatorOK(k)'
  <2>1. Asking(k) => job[k].id \in Requests \ {r}
    BY <1>1 DEF Asking, Owned, At, Unattended
  <2> QED BY <1>3, <1>4, <1>5, <2>1, SameOperator DEF Inv
<1>8. OneAsks' /\ WorkerOK' /\ CancelOK' /\ ReconOK'
  <2>1. OneAsks'
    BY <1>4 DEF Inv, OneAsks, Asking, Pending
  <2>2. WorkerOK' /\ ReconOK'
    BY <1>3, <1>4, <1>5, SameWorker, SameRecon DEF Inv
  <2>3. Cancelling => /\ Active' = {} /\ Succeeded' = Succeeded /\ Held'
                      /\ \A q \in Succeeded : rows'[q].items = rows[q].items
                      /\ order.refunded \subseteq order'.refunded
    BY <1>3, <1>4, <1>5 DEF Inv, CancelOK
  <2>4. CancelOK'
    BY <1>4, <1>5, <2>3, SameCancel DEF Inv
  <2> QED BY <2>1, <2>2, <2>4
<1> QED BY <1>6, <1>7, <1>8 DEF Inv

\* What the bank settles later had its holder before.
LEMMA BankDecideInv ==
    ASSUME TypeOK, Owned, Inv, BankDecide
    PROVE  Inv'
<1> USE IdFacts
<1>1. PICK i \in Ids : /\ bank[i].state = "slow"
                       /\ \/ Decide(i, bank[i].units, "done")
                          \/ Decide(i, bank[i].units, "declined")
  BY DEF BankDecide
<1>2. UNCHANGED <<order, rows, job>>
  BY DEF BankDecide
<1>3. i \in Live /\ Holder(i, bank[i].units) /\ bank[i].units \in SUBSET Units
  BY <1>1 DEF Live, Inv, Base, TypeOK, Money
<1>4. \A k \in Operators : Asking(k) => job[k].id # i
  BY <1>1 DEF Inv, OperatorOK
<1>5. \A h \in Handlers : Others(h)
  BY <1>2 DEF Others
<1>6. OneAsks'
  BY <1>2 DEF Inv, OneAsks, Asking, Pending
<1>7. CASE Decide(i, bank[i].units, "done")
  <2>1. \A h \in {"worker", "recon"} :
           /\ Base' /\ \A k \in Operators \ {h} : OperatorOK(k)'
           /\ h # "worker" => WorkerOK'
           /\ h # "cancel" => CancelOK'
           /\ h # "recon" => ReconOK'
    BY <1>1, <1>2, <1>3, <1>4, <1>5, <1>7, BankOthers
  <2>2. WorkerOK' /\ CancelOK' /\ ReconOK' /\ Base'
    BY <2>1
  <2>3. \A k \in Operators : OperatorOK(k)'
    BY <2>1, RefundAssumption
  <2> QED BY <1>6, <2>2, <2>3 DEF Inv
<1>8. CASE Decide(i, bank[i].units, "declined")
  <2>1. /\ bank'[i].state = "declined" /\ returned' = returned
        /\ \A j \in Ids \ {i} : bank'[j] = bank[j]
    BY <1>8 DEF Decide, TypeOK
  <2>2. Live' = Live \ {i} /\ Moved' = Moved /\ i \notin Moved
    BY <1>1, <2>1 DEF Live, Moved
  <2>3. Given' = Given
    BY <2>1, <2>2 DEF Given, Moved
  <2>4. /\ Active' = Active /\ Succeeded' = Succeeded /\ (Held' <=> Held)
        /\ (NoFullLive => NoFullLive') /\ Active \subseteq Requests /\ Succeeded \subseteq Requests
    BY <1>2, <2>2, Sets DEF Active, Succeeded, WithStatus, Held, Busy, NoFullLive
  <2>5. Base'
    <3>1. \A j \in Live' : Holder(j, bank[j].units)'
      <4> SUFFICES ASSUME NEW j \in Live, j # i PROVE Holder(j, bank[j].units)'
        BY <2>2
      <4>1. Holder(j, bank[j].units) /\ bank'[j] = bank[j]
        BY <2>1, Sets DEF Inv, Base
      <4> QED BY <1>2, <2>2, <2>4, <4>1 DEF Holder
    <3>2. \A q \in Requests : rows'[q].status = "none" => ~rows'[q].old /\ bank'[q].state = "none"
      <4>1. \A q \in Requests : rows[q].status = "none" => q # i
        BY <1>1 DEF Inv, Base
      <4> QED BY <1>2, <2>1, <4>1 DEF Inv, Base
    <3> QED BY <1>2, <2>1, <2>3, <2>4, <3>1, <3>2 DEF Inv, Base
  <2>6. ASSUME NEW k \in Operators PROVE OperatorOK(k)'
    <3>1. Asking(k) => job[k].id \in Requests \ {i}
      BY <1>4 DEF Asking, Owned, At
    <3> QED BY <1>2, <2>1, <2>3, <3>1, SameOperator DEF Inv
  <2>7. WorkerOK' /\ ReconOK'
    BY <1>2, <2>3, SameWorker, SameRecon DEF Inv
  <2>8. CancelOK'
    <3>1. Cancelling => /\ Active' = {} /\ Succeeded' = Succeeded /\ Held'
                        /\ \A q \in Succeeded : rows'[q].items = rows[q].items
                        /\ order.refunded \subseteq order'.refunded
      BY <1>2, <2>4 DEF Inv, CancelOK
    <3> QED BY <1>2, <2>3, <2>4, <3>1, SameCancel DEF Inv
  <2> QED BY <1>6, <2>5, <2>6, <2>7, <2>8 DEF Inv
<1> QED BY <1>1, <1>7, <1>8

LEMMA StopInv ==
    ASSUME TypeOK, Owned, Inv, NEW h \in Handlers, Stop(h)
    PROVE  Inv'
<1>1. Others(h) /\ job'[h].call = "idle"
  BY JobMoves DEF Stop
<1>2. SameOrder /\ SameRows /\ SameMoney
  BY DEF Stop, SameOrder, SameRows, SameMoney
<1>3. CASE h \in Operators \cup {"worker"}
  BY <1>1, <1>2, <1>3, QuietInv
<1>4. CASE h \in {"cancel", "recon"}
  <2>1. h = "cancel" => CancelOK'
    BY <1>1 DEF CancelOK, Cancelling, At
  <2>2. h = "recon" => ReconOK'
    BY <1>1 DEF ReconOK, At
  <2> QED BY <1>1, <1>2, <1>4, <2>1, <2>2, ServiceInv
<1> QED BY <1>3, <1>4 DEF Handlers

LEMMA InvStep ==
    ASSUME TypeOK, Owned, Inv, ~Widget, [Next]_vars
    PROVE  Inv'
<1>1. ASSUME NEW h \in Operators, NEW r \in Requests, CreateStart(h, r) PROVE Inv'
  BY <1>1, StartInv
<1>2. ASSUME NEW h \in Operators, CreateStep(h) PROVE Inv'
  BY <1>2, ClaimInv, AskInv, FailInv, UnknownInv, CompleteInv, AdjustInv DEF CreateStep
<1>3. ASSUME NEW r \in Requests, WorkerStart(r) \/ WorkerReadjust(r) PROVE Inv'
  BY <1>3, WorkerStartInv, ReadjustInv
<1>4. ASSUME WorkerStep PROVE Inv'
  <2>1. ~WorkerDecline
    BY DEF Inv, WorkerOK, WorkerDecline
  <2> QED BY <1>4, <2>1, ResolveInv, CompleteInv, AdjustInv DEF WorkerStep
<1>5. ASSUME NEW reuse, CancelStart(reuse) PROVE Inv'
  BY <1>5, CancelStartInv
<1>6. ASSUME CancelStep PROVE Inv'
  BY <1>6, CancelClaimInv, CancelBankInv, CancelFailInv, CancelFinalInv, ReverseInv DEF CancelStep
<1>7. ASSUME ReconStart \/ FollowupStart \/ ReconStep PROVE Inv'
  BY <1>7, ReconStartInv, ReconInv, ReverseInv DEF ReconStep
<1>8. ASSUME RowAges \/ BankDecide PROVE Inv'
  BY <1>8, RowAgesInv, BankDecideInv
<1>9. ASSUME OrderAges \/ UNCHANGED vars PROVE Inv'
  <2>1. SameOrder /\ SameRows /\ SameMoney /\ job' = job
    BY <1>9 DEF OrderAges, vars, TypeOK, Order, SameOrder, SameRows, SameMoney
  <2> QED BY <2>1, StillInv
<1>10. ASSUME NEW h \in Handlers, Stop(h) PROVE Inv'
  BY <1>10, StopInv
<1> QED
  BY <1>1, <1>2, <1>3, <1>4, <1>5, <1>6, <1>7, <1>8, <1>9, <1>10 DEF Next

LEMMA InvInit == Init => Inv
<1> SUFFICES ASSUME Init PROVE Inv
  OBVIOUS
<1>1. \A h \in Handlers : job[h].call = "idle"
  BY DEF Init, None
<1>2. /\ \A i \in Ids : bank[i].state = "none"
      /\ \A r \in Requests : rows[r].status = "none" /\ ~rows[r].old
  BY DEF Init
<1>3. Active = {} /\ Succeeded = {} /\ Live = {} /\ Moved = {}
  BY <1>2, IdFacts DEF Active, Succeeded, WithStatus, Live, Moved
<1>4. Given = {}
  BY <1>3 DEF Given
<1>5. Base
  <2>1. returned = Cardinality(Given)
    BY <1>4, FS_EmptySet DEF Init
  <2>2. order.refunded = {}
    BY DEF Init, Untouched
  <2> QED BY <1>2, <1>3, <2>1, <2>2, IdFacts DEF Base
<1>6. OneAsks /\ WorkerOK /\ CancelOK /\ ReconOK /\ \A h \in Operators : OperatorOK(h)
  BY <1>1, IdFacts DEF OneAsks, WorkerOK, CancelOK, ReconOK, OperatorOK, Asking, Pending, At, Cancelling
<1> QED BY <1>5, <1>6 DEF Inv

LEMMA Invariance ==
    ASSUME ~Widget
    PROVE  Spec => [](TypeOK /\ Owned /\ Inv)
<1>1. (TypeOK /\ Owned /\ Inv) /\ [Next]_vars => (TypeOK /\ Owned /\ Inv)'
  BY TypeStep, InvStep
<1>2. Init => TypeOK /\ Owned /\ Inv
  BY TypeInit, InvInit
<1> QED BY <1>1, <1>2, PTL DEF Spec

-------------------------------------------------------------------------------
(* What follows for orders paid by /flex.                                       *)

LEMMA InvOneRefund == TypeOK /\ Inv => OneRefundAtATime
<1> SUFFICES ASSUME TypeOK, Inv PROVE OneRefundAtATime
  OBVIOUS
<1>1. Cardinality(Active) <= 1
  <2>1. CASE Active = {}
    BY <2>1, FS_EmptySet
  <2>2. CASE Active # {}
    <3>1. PICK r : r \in Active
      BY <2>2
    <3>2. Active = {r}
      BY <3>1 DEF Inv, Base
    <3>3. Cardinality({r}) = 1
      BY FS_Singleton
    <3> QED BY <3>2, <3>3
  <2> QED BY <2>1, <2>2
<1>2. Active # {} /\ order.status = "paid" => Busy
  BY DEF Inv, Base, Held
<1>3. Active # {} => ~\E call \in {"bank", "final"} : At("cancel", call)
  BY DEF Inv, CancelOK, Cancelling, At
<1> QED BY <1>1, <1>2, <1>3 DEF OneRefundAtATime

\* While one refund request may reach the bank no other is claimed beside it,
\* however many operators, workers and requests there are.
THEOREM OrderIsMutex ==
    ASSUME ~Widget
    PROVE  Spec => []OneRefundAtATime
<1>1. Spec => [](TypeOK /\ Owned /\ Inv)
  BY Invariance
<1> QED BY <1>1, InvOneRefund, PTL

LEMMA InvNoUnitTwice == TypeOK /\ Inv => NoUnitReturnedTwice
<1> SUFFICES ASSUME TypeOK, Inv, NEW i \in Ids, NEW j \in Ids, i # j,
                    {bank[i].state, bank[j].state} \subseteq {"slow", "done"}
             PROVE  bank[i].units \cap bank[j].units = {}
  BY DEF NoUnitReturnedTwice
<1>1. i \in Live /\ j \in Live
  BY DEF Live
<1>2. Holder(i, bank[i].units)
  BY <1>1 DEF Inv, Base
<1> QED BY <1>1, <1>2, Apart DEF Inv

\* No unit of an order goes back, or may still go back, under two ids of the bank.
THEOREM UnitsGoBackOnce ==
    ASSUME ~Widget
    PROVE  Spec => []NoUnitReturnedTwice
<1>1. Spec => [](TypeOK /\ Owned /\ Inv)
  BY Invariance
<1> QED BY <1>1, InvNoUnitTwice, PTL

\* A step changes what the bank knows of one id, or what the order counts.
Settles == \E i \in Ids, units \in SUBSET Units, s \in {"slow", "done", "declined"} :
    Decide(i, units, s) /\ (bank[i].state = "done" => s = "done" /\ units = bank[i].units)

LEMMA CallSettles ==
    ASSUME TypeOK, NEW i \in Ids, NEW units \in SUBSET Units, NEW answer,
           RefundCall(i, units, answer)
    PROVE  Unheard \/ Settles
<1> DEFINE known == IF bank[i].state = "none" THEN units ELSE bank[i].units
<1>1. known \in SUBSET Units /\ (bank[i].state = "done" => known = bank[i].units)
  BY DEF TypeOK, Money
<1> HIDE DEF known
<1>2. ASSUME NEW s \in {"slow", "done", "declined"}, Decide(i, known, s),
             bank[i].state = "done" => s = "done"
      PROVE Settles
  BY <1>1, <1>2 DEF Settles
<1>3. CASE Decide(i, known, "done")
  BY <1>2, <1>3
<1>4. CASE Refusable(i) /\ Decide(i, known, "slow")
  BY <1>2, <1>4 DEF Refusable
<1>5. CASE bank[i].state # "done" /\ Decide(i, known, "declined")
  BY <1>2, <1>5
<1> QED BY <1>3, <1>4, <1>5 DEF RefundCall, known

LEMMA FunctionsKeepCount ==
    ASSUME TypeOK, NEW r
    PROVE  /\ \A items : ClaimPartial(r, items) => order'.refunded = order.refunded
           /\ FailPartial(r) => order'.refunded = order.refunded
           /\ \A reference : MarkUnknown(r, reference) => order'.refunded = order.refunded
           /\ DeclinePartial(r) => order'.refunded = order.refunded
           /\ CompletePartial(r) => order.refunded \subseteq order'.refunded
           /\ \A reference : FinalizeFull(reference) => order.refunded \subseteq order'.refunded
<1> USE DEF TypeOK, Order
<1>1. \A items : ClaimPartial(r, items) => order'.refunded = order.refunded
  BY DEF ClaimPartial
<1>2. FailPartial(r) => order'.refunded = order.refunded
  BY DEF FailPartial
<1>3. ASSUME NEW reference, MarkUnknown(r, reference) PROVE order'.refunded = order.refunded
  <2>1. order' = order \/ \E ref : order' = [order EXCEPT !.refund = "unknown", !.ref = ref]
    BY <1>3 DEF MarkUnknown
  <2> QED BY <2>1
<1>4. DeclinePartial(r) => order'.refunded = order.refunded
  BY DEF DeclinePartial
<1>5. CompletePartial(r) => order.refunded \subseteq order'.refunded
  BY DEF CompletePartial
<1>6. \A reference : FinalizeFull(reference) => order.refunded \subseteq order'.refunded
  BY DEF FinalizeFull
<1> QED BY <1>1, <1>2, <1>3, <1>4, <1>5, <1>6

LEMMA StepKinds ==
    ASSUME TypeOK, Owned, [Next]_vars
    PROVE  \/ bank' = bank /\ order.refunded \subseteq order'.refunded
           \/ order' = order /\ Settles
<1> USE IdFacts
<1> DEFINE same == bank' = bank /\ order.refunded \subseteq order'.refunded
<1>1. ASSUME NEW h \in Operators,
             (\E r \in Requests : CreateStart(h, r)) \/ CreateFail(h) \/ CreateUnknown(h)
             \/ CreateClaim(h)
      PROVE same
  <2>1. order'.refunded = order.refunded
    BY <1>1, FunctionsKeepCount DEF CreateStart, CreateFail, CreateUnknown, CreateClaim
  <2> QED BY <1>1, <2>1 DEF CreateStart, CreateFail, CreateUnknown, CreateClaim
<1>2. ASSUME NEW h \in Operators \cup {"worker"}, Complete(h) \/ Book(h) \/ Mark(h) PROVE same
  <2>1. order.refunded \subseteq order'.refunded
    BY <1>2, FunctionsKeepCount DEF Complete, Book, Mark
  <2> QED BY <1>2, <2>1 DEF Complete, Book, Mark
<1>3. ASSUME NEW r \in Requests, WorkerStart(r) \/ WorkerReadjust(r) PROVE same
  BY <1>3, FunctionsKeepCount DEF WorkerStart, WorkerReadjust
<1>4. ASSUME WorkerDecline PROVE same
  BY <1>4, FunctionsKeepCount DEF WorkerDecline
<1>5. ASSUME \/ \E reuse : CancelStart(reuse)
             \/ CancelClaim \/ CancelFail \/ CancelFinal \/ (\E h : Reverse(h))
      PROVE same
  <2>1. CASE CancelFail
    <3>1. \/ order' = order
          \/ \E refund, reference : order' = [order EXCEPT !.refund = refund, !.ref = reference]
      BY <2>1 DEF CancelFail
    <3> QED BY <2>1, <3>1 DEF CancelFail, TypeOK, Order
  <2>2. CASE CancelClaim
    <3>1. \/ order' = order
          \/ \E req, at, old : order' = [order EXCEPT !.refund = "processing", !.req = req,
                                                      !.at = at, !.old = old]
      BY <2>2 DEF CancelClaim
    <3> QED BY <2>2, <3>1 DEF CancelClaim, TypeOK, Order
  <2>3. CASE ~CancelFail /\ ~CancelClaim
    <3>1. CASE \E reuse : CancelStart(reuse)
      BY <3>1 DEF CancelStart
    <3>2. CASE CancelFinal
      BY <3>2, FunctionsKeepCount DEF CancelFinal
    <3>3. CASE \E h : Reverse(h)
      BY <3>3 DEF Reverse, TypeOK, Order
    <3> QED BY <1>5, <2>3, <3>1, <3>2, <3>3
  <2> QED BY <2>1, <2>2, <2>3
<1>6. ASSUME \/ ReconStart \/ FollowupStart \/ ReconCheck \/ RowAges \/ UNCHANGED vars
             \/ \E h \in Handlers : Stop(h)
      PROVE same
  BY <1>6 DEF ReconStart, FollowupStart, ReconCheck, RowAges, vars, Stop
<1>14. ASSUME ReconTakeover \/ ReconDecline \/ ReconDefer \/ OrderAges PROVE same
  <2>1. CASE ReconTakeover
    BY <2>1 DEF ReconTakeover, TypeOK, Order
  <2>2. CASE ReconDecline
    BY <2>2 DEF ReconDecline, TypeOK, Order
  <2>3. CASE ReconDefer
    <3>1. order' = order \/ \E ref : order' = [order EXCEPT !.ref = ref]
      BY <2>3 DEF ReconDefer
    <3> QED BY <2>3, <3>1 DEF ReconDefer, TypeOK, Order
  <2>4. CASE OrderAges
    BY <2>4 DEF OrderAges, TypeOK, Order
  <2> QED BY <1>14, <2>1, <2>2, <2>3, <2>4
<1>15. ASSUME ReconFinal PROVE same
  <2>1. order.refunded \subseteq order'.refunded
    BY <1>15, FunctionsKeepCount DEF ReconFinal
  <2> QED BY <1>15, <2>1 DEF ReconFinal
<1>7. ASSUME UNCHANGED order, Unheard PROVE same
  BY <1>7 DEF Unheard
<1>8. ASSUME NEW h \in Operators, CreateBank(h) PROVE same \/ (order' = order /\ Settles)
  <2>1. job[h].id \in Ids /\ job[h].units \in SUBSET Units
    BY <1>8, Carried DEF CreateBank, Owned, At
  <2>2. UNCHANGED order
    BY <1>8 DEF CreateBank
  <2> QED BY <1>7, <1>8, <2>1, <2>2, CallSettles DEF CreateBank
<1>9. ASSUME WorkerResolve PROVE same \/ (order' = order /\ Settles)
  <2>1. job["worker"].id \in Ids /\ rows[job["worker"].id].items \in SUBSET Units
    BY <1>9 DEF WorkerResolve, Owned, At, TypeOK, Row
  <2>2. UNCHANGED order
    BY <1>9 DEF WorkerResolve
  <2>3. Unheard \/ \E answer : RefundCall(job["worker"].id, rows[job["worker"].id].items, answer)
    BY <1>9 DEF WorkerResolve
  <2> QED BY <1>7, <2>1, <2>2, <2>3, CallSettles
<1>10. ASSUME CancelBank PROVE same \/ (order' = order /\ Settles)
  <2>1. job["cancel"].id \in Ids /\ job["cancel"].units \in SUBSET Units
    BY <1>10, Carried DEF CancelBank, Owned, At
  <2>2. UNCHANGED order
    BY <1>10 DEF CancelBank
  <2>3. Unheard \/ \E answer : RefundCall(job["cancel"].id, job["cancel"].units, answer)
    BY <1>10 DEF CancelBank
  <2> QED BY <1>7, <2>1, <2>2, <2>3, CallSettles
<1>11. ASSUME ReconResolve PROVE same \/ (order' = order /\ Settles)
  <2> DEFINE seen == job["recon"].seen
  <2>1. seen \in Order
    BY DEF TypeOK, Job
  <2>2. UNCHANGED order
    BY <1>11 DEF ReconResolve
  <2>3. \/ Unheard
        \/ /\ ~(seen.req = NoId /\ (~Widget \/ seen.ref = NoId)) /\ seen.ref = NoId
           /\ \E answer : RefundCall(seen.req, Units \ seen.refunded, answer)
    BY <1>11 DEF ReconResolve
  <2>4. CASE Unheard
    BY <1>7, <2>2, <2>4
  <2>5. CASE ~Unheard
    <3>1. seen.req \in Ids
      BY <2>1, <2>3, <2>5 DEF Order
    <3>2. Units \ seen.refunded \in SUBSET Units
      OBVIOUS
    <3> QED BY <2>2, <2>3, <2>5, <3>1, <3>2, CallSettles
  <2> QED BY <2>4, <2>5
<1>12. ASSUME BankDecide PROVE order' = order /\ Settles
  <2>1. PICK i \in Ids : /\ bank[i].state = "slow"
                         /\ \E s \in {"done", "declined"} : Decide(i, bank[i].units, s)
    BY <1>12 DEF BankDecide
  <2>2. bank[i].units \in SUBSET Units
    BY DEF TypeOK, Money
  <2> QED BY <1>12, <2>1, <2>2 DEF BankDecide, Settles
<1> HIDE DEF same
<1>13. same \/ (order' = order /\ Settles)
  BY <1>1, <1>2, <1>3, <1>4, <1>5, <1>6, <1>14, <1>15, <1>8, <1>9, <1>10, <1>11, <1>12
  DEF Next, CreateStep, WorkerStep, CancelStep, ReconStep
<1> QED BY <1>13 DEF same

\* What the abstract specification calls given and counted.
Pairs == {pair \in Ids \X Units : pair[1] \in Moved /\ pair[2] \in bank[pair[1]].units}

LEMMA PairUnits == TypeOK => MoneyBack!GivenUnits = Given
<1> SUFFICES ASSUME TypeOK PROVE MoneyBack!GivenUnits = Given
  OBVIOUS
<1>1. MoneyBack!GivenUnits = {pair[2] : pair \in Pairs}
  BY DEF MoneyBack!GivenUnits, Pairs
<1>2. ASSUME NEW u \in Given PROVE u \in {pair[2] : pair \in Pairs}
  <2>1. PICK i \in Moved : u \in bank[i].units
    BY DEF Given
  <2>2. i \in Ids /\ u \in Units
    BY <2>1 DEF Moved, TypeOK, Money
  <2>3. <<i, u>> \in Pairs
    BY <2>1, <2>2 DEF Pairs
  <2> QED BY <2>3
<1>3. ASSUME NEW pair \in Pairs PROVE pair[2] \in Given
  BY DEF Pairs, Given
<1> QED BY <1>1, <1>2, <1>3

LEMMA OnceStep ==
    ASSUME TypeOK, Owned, Inv, TypeOK', Inv', NoUnitReturnedTwice', [Next]_vars
    PROVE  [MoneyBack!OnceNext]_(MoneyBack!once)
<1>1. CASE bank' = bank /\ order.refunded \subseteq order'.refunded
  <2>1. Pairs' = Pairs /\ Given' = Given
    BY <1>1 DEF Pairs, Moved, Given
  <2>2. order'.refunded \subseteq Given /\ order'.refunded \in SUBSET Units
    BY <2>1 DEF Inv, Base, TypeOK, Order
  <2>3. order'.refunded = order.refunded \cup order'.refunded
    BY <1>1
  <2>4. MoneyBack!Count(order'.refunded)
    BY <2>1, <2>2, <2>3, PairUnits DEF MoneyBack!Count, Pairs
  <2> QED BY <2>2, <2>4 DEF MoneyBack!OnceNext
<1>2. CASE order' = order /\ Settles
  <2>1. PICK i \in Ids, units \in SUBSET Units, s \in {"slow", "done", "declined"} :
          Decide(i, units, s) /\ (bank[i].state = "done" => s = "done" /\ units = bank[i].units)
    BY <1>2 DEF Settles
  <2>2. /\ bank'[i].state = s /\ bank'[i].units = units
        /\ \A j \in Ids \ {i} : bank'[j] = bank[j]
    BY <2>1 DEF Decide, TypeOK
  <2>3. CASE s = "done" /\ bank[i].state # "done"
    <3>1. Moved' = Moved \cup {i} /\ i \notin Moved
      BY <2>2, <2>3 DEF Moved
    <3>2. Pairs' = Pairs \cup ({i} \X units)
      BY <2>2, <3>1 DEF Pairs, Moved
    <3>3. units \cap Given = {}
      <4>1. \A j \in Moved : units \cap bank[j].units = {}
        BY <2>2, <2>3, <3>1 DEF NoUnitReturnedTwice, Moved
      <4> QED BY <4>1 DEF Given
    <3>4. MoneyBack!Give(i, units)
      BY <1>2, <3>2, <3>3, PairUnits DEF MoneyBack!Give, Pairs
    <3> QED BY <3>4 DEF MoneyBack!OnceNext
  <2>4. CASE ~(s = "done" /\ bank[i].state # "done")
    <3>1. Moved' = Moved /\ (i \in Moved => bank'[i].units = bank[i].units)
      BY <2>1, <2>2, <2>4 DEF Moved
    <3>2. Pairs' = Pairs
      BY <2>2, <3>1 DEF Pairs, Moved
    <3> QED BY <1>2, <3>2 DEF MoneyBack!once, Pairs
  <2> QED BY <2>3, <2>4
<1> QED BY <1>1, <1>2, StepKinds

\* The refunds implement what the customer is promised: a unit goes back at most
\* once, and the order counts only what has gone back.
THEOREM RefundsKeepPromise ==
    ASSUME ~Widget
    PROVE  Spec => GivesBackOnce
<1>1. Spec => [](TypeOK /\ Owned /\ Inv)
  BY Invariance
<1>2. Init => MoneyBack!OnceInit
  BY DEF Init, MoneyBack!OnceInit, Moved, Untouched
<1>3. (TypeOK /\ Owned /\ Inv) /\ (TypeOK /\ Owned /\ Inv)' /\ NoUnitReturnedTwice'
        /\ [Next]_vars => [MoneyBack!OnceNext]_(MoneyBack!once)
  BY OnceStep
<1>4. Spec => []NoUnitReturnedTwice
  BY UnitsGoBackOnce
<1> QED BY <1>1, <1>2, <1>3, <1>4, PTL DEF Spec, GivesBackOnce, MoneyBack!OnceSpec
===============================================================================
