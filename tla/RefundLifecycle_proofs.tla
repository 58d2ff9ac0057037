------------------------ MODULE RefundLifecycle_proofs ------------------------
(***************************************************************************)
(* Proofs of the safety properties of RefundLifecycle, for every number of *)
(* actions, users, payloads and workers and for both kinds of provider.    *)
(***************************************************************************)
EXTENDS RefundInvariant, TLAPS

(* sha256 tells payloads apart, and the key of one action and one hash is  *)
(* not the key of another.                                                 *)
LEMMA HashesAndKeys ==
  /\ \A p \in Payloads : PayloadHash(p) \in Hashes
  /\ \A p, q : PayloadHash(p) = PayloadHash(q) => p = q
  /\ \A a \in Actions, h \in Hashes : IdempotencyKey(a, h) \in Keys
  /\ \A a, b, g, h : IdempotencyKey(a, g) = IdempotencyKey(b, h) => a = b /\ g = h
  /\ \A k \in Keys : \E a \in Actions, h \in Hashes : k = IdempotencyKey(a, h)
BY DEF PayloadHash, Hashes, Keys, IdempotencyKey

(* The updates the actions make keep the rows and records in their types.  *)
LEMMA RequestUpdate ==
  ASSUME request \in [Actions -> RequestRow], NEW a \in Actions, NEW s \in ActionState,
         request' = [request EXCEPT ![a].state = s]
  PROVE  request' \in [Actions -> RequestRow]
BY DEF RequestRow

LEMMA PayloadUpdate ==
  ASSUME request \in [Actions -> RequestRow], NEW a \in Actions, NEW p \in Payloads,
         request' = [request EXCEPT ![a].payload = p]
  PROVE  request' \in [Actions -> RequestRow]
BY DEF RequestRow

LEMMA JobUpdate ==
  ASSUME job \in [Actions -> JobRow], NEW a \in Actions, NEW r \in JobRow,
         job' = [job EXCEPT ![a] = r]
  PROVE  job' \in [Actions -> JobRow]
OBVIOUS

LEMMA WorkerUpdate ==
  ASSUME worker \in [Workers -> WorkerState], NEW w \in Workers, NEW s \in WorkerStep,
         NEW o \in Outcome \cup {None},
         worker' = [worker EXCEPT ![w] = [@ EXCEPT !.step = s, !.outcome = o]]
  PROVE  worker' \in [Workers -> WorkerState]
BY DEF WorkerState

LEMMA WorkerStepUpdate ==
  ASSUME worker \in [Workers -> WorkerState], NEW w \in Workers, NEW s \in WorkerStep,
         worker' = [worker EXCEPT ![w].step = s]
  PROVE  worker' \in [Workers -> WorkerState]
BY DEF WorkerState

LEMMA ReviewUpdate ==
  ASSUME review \in [Users -> ReviewState], NEW u \in Users, NEW v \in {"approved", "rejected"},
         review' = [review EXCEPT ![u] = [@ EXCEPT !.step = "decide", !.verdict = v]]
  PROVE  review' \in [Users -> ReviewState]
BY DEF ReviewState

LEMMA FaultUpdate ==
  ASSUME faults \in [FaultKind -> Nat], NEW k \in FaultKind, Strikes(k)
  PROVE  faults' \in [FaultKind -> Nat]
BY DEF Strikes

-----------------------------------------------------------------------------
LEMMA InitIInv == Init => IInv
<1> SUFFICES ASSUME Init PROVE IInv
  OBVIOUS
<1> USE ConstantsAssumption
<1>1. TypeOK
  BY DEF Init, TypeOK, RequestRow, DecisionRow, JobRow, ReviewState, WorkerState,
         NoRequest, NoDecision, NoJob, NoReview, IdleWorker, Absent, ActionState,
         JobState, Outcome, WorkerStep, AuditEvent
<1>2. \A a \in Actions : RowsAgree(a)
  BY DEF Init, RowsAgree, NoRequest, NoDecision, NoJob, Absent
<1>3. \A u \in Users : ReviewAgrees(u)
  BY DEF Init, ReviewAgrees, NoReview
<1>4. \A w \in Workers : WorkerAgrees(w)
  BY DEF Init, WorkerAgrees, IdleWorker
<1>5. \A v, w \in Workers : AloneAtProvider(v, w)
  BY DEF Init, AloneAtProvider, IdleWorker
<1>6. \A a \in Actions : PaymentAgrees(a)
  BY DEF Init, PaymentAgrees, Paid
<1>7. SuccessesAgree
  BY HashesAndKeys DEF Init, SuccessesAgree, NoRequest, NoJob, Absent
<1> QED
  BY <1>1, <1>2, <1>3, <1>4, <1>5, <1>6, <1>7 DEF IInv

-----------------------------------------------------------------------------
(* Steps of the API.                                                       *)

LEMMA ProposeStep ==
  ASSUME IInv, NEW u \in Users, NEW a \in Actions, NEW p \in Payloads, Propose(u, a, p)
  PROVE  IInv'
<1> USE ConstantsAssumption
<1>1. TypeOK'
  BY HashesAndKeys DEF IInv, TypeOK, Propose, RequestRow, ActionState, AuditEvent
<1>2. \A b \in Actions : RowsAgree(b)'
  BY HashesAndKeys DEF IInv, TypeOK, Propose, RowsAgree, Absent, RequestRow, DecisionRow, JobRow, NoDecision
<1>3. \A v \in Users : ReviewAgrees(v)'
  BY DEF IInv, TypeOK, Propose, ReviewAgrees, Absent
<1>4. \A w \in Workers : WorkerAgrees(w)'
  BY DEF IInv, TypeOK, Propose, WorkerAgrees, RowsAgree, Absent, KeyOf, Paid, NoDecision
<1>5. \A v, w \in Workers : AloneAtProvider(v, w)'
  BY DEF IInv, Propose, AloneAtProvider
<1>6. \A b \in Actions : PaymentAgrees(b)'
  BY DEF IInv, TypeOK, Propose, PaymentAgrees, RowsAgree, Paid, Absent, KeyFor, NoDecision
<1>7. SuccessesAgree'
  BY DEF IInv, TypeOK, Propose, SuccessesAgree, Paid
<1> QED
  BY <1>1, <1>2, <1>3, <1>4, <1>5, <1>6, <1>7 DEF IInv

(* A page is opened, sent or closed: nothing but review changes.           *)
LEMMA ReviewStep ==
  ASSUME IInv, NEW u \in Users,
         \/ \E a \in Actions : ViewApproval(u, a)
         \/ \E v \in {"approved", "rejected"} : AuthorizeDecision(u, v)
         \/ ReviewEnds(u)
  PROVE  IInv'
<1> USE ConstantsAssumption DEF dbVars
<1>0. UNCHANGED <<dbVars, expired, worker, applied, effects, faults>>
  BY DEF ViewApproval, AuthorizeDecision, ReviewEnds
<1> DEFINE ReviewGoal == review' \in [Users -> ReviewState] /\ \A v \in Users : ReviewAgrees(v)'
<1>a. ReviewGoal
  <2>1. ASSUME NEW a \in Actions, ViewApproval(u, a) PROVE ReviewGoal
    BY <1>0, <2>1 DEF IInv, TypeOK, ViewApproval, Page, ReviewState, RequestRow, ReviewAgrees, Absent
  <2>2. ASSUME NEW v \in {"approved", "rejected"}, AuthorizeDecision(u, v) PROVE ReviewGoal
    <3>1. review' \in [Users -> ReviewState]
      BY <2>2, ReviewUpdate DEF IInv, TypeOK, AuthorizeDecision
    <3>2. \A x \in Users : ReviewAgrees(x)'
      BY <1>0, <2>2 DEF IInv, TypeOK, AuthorizeDecision, ReviewAgrees, ReviewState
    <3> QED
      BY <3>1, <3>2
  <2>3. CASE ReviewEnds(u)
    BY <1>0, <2>3 DEF IInv, TypeOK, ReviewEnds, NoReview, ReviewState, ReviewAgrees
  <2> QED
    BY <2>1, <2>2, <2>3
<1>1. TypeOK'
  BY <1>0, <1>a DEF IInv, TypeOK
<1>2. \A b \in Actions : RowsAgree(b)'
  BY <1>0 DEF IInv, RowsAgree
<1>4. \A w \in Workers : WorkerAgrees(w)'
  BY <1>0 DEF IInv, WorkerAgrees, KeyOf, Paid
<1>5. \A v, w \in Workers : AloneAtProvider(v, w)'
  BY <1>0 DEF IInv, AloneAtProvider
<1>6. \A b \in Actions : PaymentAgrees(b)'
  BY <1>0 DEF IInv, PaymentAgrees, Paid, KeyFor
<1>7. SuccessesAgree'
  BY <1>0 DEF IInv, SuccessesAgree, Paid
<1> QED
  BY <1>a, <1>1, <1>2, <1>4, <1>5, <1>6, <1>7 DEF IInv

LEMMA RecordDecisionStep ==
  ASSUME IInv, NEW u \in Users, NEW a, a = review[u].action, RecordDecision(u)
  PROVE  IInv'
<1> USE ConstantsAssumption
<1>0. /\ a \in Actions
      /\ review[u].hash = request[a].hash
      /\ review[u].verdict \in {"approved", "rejected"}
      /\ request[a].state = "PENDING_APPROVAL"
      /\ decision[a].verdict = Absent
      /\ job[a].state = Absent
      /\ u \in Approvers \ {request[a].requester}
      /\ ~Paid(a)
  BY DEF IInv, RecordDecision, DecisionInsertable, ReviewAgrees, RowsAgree, PaymentAgrees, Absent
<1>1. TypeOK'
  <2>1. decision' \in [Actions -> DecisionRow]
    BY <1>0 DEF IInv, TypeOK, RecordDecision, DecisionRow, ReviewState
  <2>2. request' \in [Actions -> RequestRow]
    <3>1. PICK s \in ActionState : request' = [request EXCEPT ![a].state = s]
      BY DEF RecordDecision, ActionState
    <3> QED
      BY <1>0, <3>1, RequestUpdate DEF IInv, TypeOK
  <2>3. job' \in [Actions -> JobRow]
    BY <1>0 DEF IInv, TypeOK, RecordDecision, Enqueue, JobRow, JobState, NoJob
  <2>4. audit' \in [Actions -> SUBSET AuditEvent]
    BY <1>0 DEF IInv, TypeOK, RecordDecision, AuditEvent
  <2>5. review' \in [Users -> ReviewState]
    BY <1>0 DEF IInv, TypeOK, RecordDecision, ReviewState, NoReview
  <2> QED
    BY <2>1, <2>2, <2>3, <2>4, <2>5 DEF IInv, TypeOK, RecordDecision
<1>2. \A b \in Actions : RowsAgree(b)'
  <2>1. RowsAgree(a)'
    <3>1. /\ request'[a].state \in {"APPROVED", "REJECTED"}
          /\ request'[a].requester = request[a].requester
          /\ request'[a].hash = request[a].hash
      BY <1>0 DEF IInv, TypeOK, RecordDecision, RequestRow
    <3>2. /\ decision'[a].verdict = review[u].verdict
          /\ decision'[a].approver = u
          /\ decision'[a].hash = review[u].hash
      BY <1>0 DEF IInv, TypeOK, RecordDecision
    <3>3. job'[a].state # Absent <=> review[u].verdict = "approved"
      BY <1>0 DEF IInv, TypeOK, RecordDecision, Enqueue, NoJob, Absent
    <3>4. request[a].requester \in Requesters /\ request[a].hash \in Hashes
      BY <1>0 DEF IInv, RowsAgree, Absent
    <3> QED
      BY <1>0, <3>1, <3>2, <3>3, <3>4 DEF RowsAgree, Absent
  <2>2. ASSUME NEW b \in Actions, b # a PROVE RowsAgree(b)'
    BY <1>0, <2>2 DEF IInv, TypeOK, RecordDecision, RowsAgree, Enqueue
  <2> QED
    BY <2>1, <2>2
<1>3. \A v \in Users : ReviewAgrees(v)'
  BY <1>0 DEF IInv, TypeOK, RecordDecision, ReviewAgrees, NoReview, Absent, RequestRow
<1>4. \A w \in Workers : WorkerAgrees(w)'
  BY <1>0 DEF IInv, TypeOK, RecordDecision, WorkerAgrees, KeyOf, Paid, RequestRow, Absent
<1>5. \A v, w \in Workers : AloneAtProvider(v, w)'
  BY DEF IInv, RecordDecision, AloneAtProvider
<1>6. \A b \in Actions : PaymentAgrees(b)'
  BY <1>0 DEF IInv, TypeOK, RecordDecision, PaymentAgrees, Paid, KeyFor, RequestRow
<1>7. SuccessesAgree'
  BY <1>0 DEF IInv, TypeOK, RecordDecision, Enqueue, NoJob, SuccessesAgree, Paid, RequestRow, JobRow
<1> QED
  BY <1>1, <1>2, <1>3, <1>4, <1>5, <1>6, <1>7 DEF IInv

-----------------------------------------------------------------------------
(* Steps of a worker.                                                      *)

(* What the invariant says of a worker that holds a claim.                 *)
LEMMA HeldClaim ==
  ASSUME IInv, NEW w \in Workers, worker[w].step # "idle"
  PROVE  LET a == worker[w].action
         IN /\ a \in Actions
            /\ decision[a].verdict = "approved"
            /\ decision[a].hash = request[a].hash
            /\ job[a].state # Absent
            /\ request[a].state \notin {Absent, "PENDING_APPROVAL"}
            /\ request[a].hash \in Hashes
            /\ worker[w].hash = request[a].hash
            /\ KeyOf(w) = KeyFor(a)
            /\ KeyOf(w) \in Keys
BY HashesAndKeys DEF IInv, WorkerAgrees, RowsAgree, KeyOf, KeyFor, Absent

LEMMA ClaimStep ==
  ASSUME IInv, NEW w \in Workers, NEW a \in Actions, Claim(w, a)
  PROVE  IInv'
<1> USE ConstantsAssumption
<1>0. /\ job[a].state # Absent
      /\ decision[a].verdict = "approved"
      /\ request[a].state # Absent
      /\ request[a].hash \in Hashes
  BY DEF IInv, Claim, Claimable, RowsAgree, Absent, NoDecision
<1>1. TypeOK'
  <2>1. job' \in [Actions -> JobRow]
    <3> DEFINE row == [state |-> "EXECUTING", attempts |-> job[a].attempts + 1, owner |-> w,
                       lease |-> "held", available |-> job[a].available]
    <3>1. job[a].attempts \in Nat /\ job[a].available \in BOOLEAN
      BY DEF IInv, TypeOK, JobRow
    <3>2. row \in JobRow
      BY <3>1 DEF JobRow, JobState
    <3>3. job' = [job EXCEPT ![a] = row]
      BY DEF Claim
    <3> QED
      BY <3>2, <3>3, JobUpdate DEF IInv, TypeOK
  <2>2. worker' \in [Workers -> WorkerState]
    BY <1>0 DEF IInv, TypeOK, Claim, WorkerState, WorkerStep, RequestRow, JobRow
  <2> QED
    BY <2>1, <2>2 DEF IInv, TypeOK, Claim
<1>2. \A b \in Actions : RowsAgree(b)'
  BY <1>0 DEF IInv, TypeOK, Claim, RowsAgree, JobRow, Absent
<1>3. \A v \in Users : ReviewAgrees(v)'
  BY DEF IInv, Claim, ReviewAgrees
<1>4. \A v \in Workers : WorkerAgrees(v)'
  BY <1>0 DEF IInv, TypeOK, Claim, WorkerAgrees, KeyOf, Paid
<1>5. \A v, x \in Workers : AloneAtProvider(v, x)'
  BY DEF IInv, TypeOK, Claim, AloneAtProvider
<1>6. \A b \in Actions : PaymentAgrees(b)'
  BY DEF IInv, Claim, PaymentAgrees, Paid, KeyFor
<1>7. SuccessesAgree'
  BY DEF IInv, TypeOK, Claim, SuccessesAgree, Paid, JobRow
<1> QED
  BY <1>1, <1>2, <1>3, <1>4, <1>5, <1>6, <1>7 DEF IInv

(* A worker checks, looks up, fails or dies: of the shared state only      *)
(* the in-memory adapter of a dead worker and the fault budgets change.    *)
LEMMA LocalStep ==
  ASSUME IInv, NEW w \in Workers,
         Verify(w) \/ CallFails(w) \/ Lookup(w) \/ StepRaises(w) \/ Crash(w)
  PROVE  IInv'
<1> USE ConstantsAssumption DEF dbVars
<1>0. UNCHANGED <<dbVars, review, expired, effects>>
  BY DEF Verify, CallFails, Lookup, StepRaises, Crash
<1>a. applied' \in [Workers -> SUBSET Keys] /\ \A v \in Workers : applied'[v] \subseteq applied[v]
  BY DEF IInv, TypeOK, Verify, CallFails, Lookup, StepRaises, Crash
<1>1. TypeOK'
  <2>1. worker' \in [Workers -> WorkerState]
    <3>1. \/ worker' = [worker EXCEPT ![w] = IdleWorker]
          \/ \E s \in {"reserve", "refuse"} : worker' = [worker EXCEPT ![w].step = s]
          \/ \E o \in {"succeeded", "failed"} : Answers(w, o)
      BY DEF Verify, CallFails, Lookup, StepRaises, Crash, Found
    <3> QED
      <4>1. CASE worker' = [worker EXCEPT ![w] = IdleWorker]
        BY <4>1 DEF IInv, TypeOK, WorkerState, WorkerStep, IdleWorker
      <4>2. CASE \E s \in {"reserve", "refuse"} : worker' = [worker EXCEPT ![w].step = s]
        BY <4>2, WorkerStepUpdate DEF IInv, TypeOK, WorkerStep
      <4>3. CASE \E o \in {"succeeded", "failed"} : Answers(w, o)
        BY <4>3, WorkerUpdate DEF IInv, TypeOK, Answers, WorkerStep, Outcome
      <4> QED
        BY <3>1, <4>1, <4>2, <4>3
  <2>2. faults' \in [FaultKind -> Nat]
    <3>1. UNCHANGED faults \/ \E k \in FaultKind : Strikes(k)
      BY DEF Verify, CallFails, Lookup, StepRaises, Crash, FaultKind
    <3> QED
      BY <3>1, FaultUpdate DEF IInv, TypeOK
  <2> QED
    BY <1>0, <1>a, <2>1, <2>2 DEF IInv, TypeOK
<1>2. \A b \in Actions : RowsAgree(b)'
  BY <1>0 DEF IInv, RowsAgree
<1>3. \A v \in Users : ReviewAgrees(v)'
  BY <1>0 DEF IInv, ReviewAgrees
<1>4. \A v \in Workers : WorkerAgrees(v)'
  <2>1. ASSUME NEW v \in Workers, v # w PROVE WorkerAgrees(v)'
    BY <1>0, <2>1 DEF IInv, TypeOK, Verify, CallFails, Lookup, StepRaises, Crash, Answers,
                      WorkerAgrees, KeyOf, Paid
  <2>2. WorkerAgrees(w)'
    <3>1. CASE Verify(w)
      <4>1. worker[w].step = "verify" /\ worker[w].hash \in Hashes
        BY <3>1, HeldClaim DEF Verify
      <4>2. MayExecute(w) => worker[w].payload \in Payloads
        BY <4>1, HashesAndKeys DEF MayExecute, Hashes
      <4>3. MayExecute(w) => PayloadHash(worker[w].payload) = worker[w].hash
        BY DEF MayExecute
      <4> HIDE DEF MayExecute
      <4> QED
        BY <1>0, <3>1, <4>1, <4>2, <4>3 DEF IInv, TypeOK, Verify, WorkerAgrees, KeyOf, Paid
    <3>2. CASE CallFails(w)
      BY <1>0, <3>2 DEF IInv, TypeOK, CallFails, Answers, WorkerAgrees, KeyOf, Paid
    <3>3. CASE Lookup(w)
      <4>1. KeyOf(w) \in ProviderKnows(w) => Paid(worker[w].action)
        BY <3>3, HeldClaim DEF Lookup, ProviderKnows, IInv, SuccessesAgree, KeyOf
      <4> QED
        BY <1>0, <3>3, <4>1 DEF IInv, TypeOK, Lookup, Answers, Found, WorkerAgrees, KeyOf, Paid
    <3>4. CASE StepRaises(w)
      BY <1>0, <3>4 DEF IInv, TypeOK, StepRaises, WorkerAgrees, KeyOf, Paid
    <3>5. CASE Crash(w)
      BY <1>0, <3>5 DEF IInv, TypeOK, Crash, IdleWorker, WorkerAgrees
    <3> QED
      BY <3>1, <3>2, <3>3, <3>4, <3>5
  <2> QED
    BY <2>1, <2>2
<1>5. \A v, x \in Workers : AloneAtProvider(v, x)'
  <2>1. worker[w] \in WorkerState /\ \A v \in Workers \ {w} : worker'[v] = worker[v]
    BY DEF IInv, TypeOK, Verify, CallFails, Lookup, StepRaises, Crash, Answers
  <2>2. worker'[w].step # "call"
    <3>1. CASE Verify(w)
      BY <2>1, <3>1 DEF IInv, TypeOK, Verify, WorkerState
    <3>2. CASE CallFails(w) \/ Lookup(w)
      <4>1. \E o : Answers(w, o)
        BY <3>2 DEF CallFails, Lookup
      <4> QED
        BY <2>1, <4>1 DEF IInv, TypeOK, Answers, WorkerState
    <3>3. CASE StepRaises(w)
      BY <2>1, <3>3 DEF IInv, TypeOK, StepRaises, WorkerState
    <3>4. CASE Crash(w)
      BY <3>4 DEF IInv, TypeOK, Crash, IdleWorker
    <3> QED
      BY <3>1, <3>2, <3>3, <3>4
  <2> QED
    BY <2>1, <2>2 DEF IInv, AloneAtProvider
<1>6. \A b \in Actions : PaymentAgrees(b)'
  BY <1>0 DEF IInv, PaymentAgrees, Paid, KeyFor
<1>7. SuccessesAgree'
  BY <1>0, <1>a DEF IInv, SuccessesAgree, Paid
<1> QED
  BY <1>1, <1>2, <1>3, <1>4, <1>5, <1>6, <1>7 DEF IInv

LEMMA ReserveStep ==
  ASSUME IInv, NEW w \in Workers, NEW a, a = worker[w].action, Reserve(w)
  PROVE  IInv'
<1> USE ConstantsAssumption
<1>0. /\ worker[w].step = "reserve"
      /\ a \in Actions
      /\ request[a].hash \in Hashes
      /\ worker[w].hash = request[a].hash
      /\ KeyOf(w) = KeyFor(a)
      /\ KeyOf(w) \in Keys
  BY HeldClaim DEF Reserve
<1>1. TypeOK'
  <2>1. worker' \in [Workers -> WorkerState]
    <3>1. \E s \in {"call", "lookup"} : worker' = [worker EXCEPT ![w].step = s]
      BY DEF Reserve
    <3> QED
      BY <3>1, WorkerStepUpdate DEF IInv, TypeOK, WorkerStep
  <2>2. execution' \in [Keys -> Outcome \cup {Absent}]
    BY DEF IInv, TypeOK, Reserve, Outcome
  <2> QED
    BY <2>1, <2>2 DEF IInv, TypeOK, Reserve
<1>a. /\ \A k \in Keys : execution[k] # Absent => execution'[k] # Absent
      /\ \A k \in Keys : execution'[k] = "succeeded" => execution[k] = "succeeded"
      /\ execution'[KeyOf(w)] # Absent
  BY <1>0 DEF IInv, TypeOK, Reserve, KeyIsFree, Absent
<1>b. /\ worker'[w].action = a
      /\ worker'[w].hash = worker[w].hash
      /\ worker'[w].payload = worker[w].payload
      /\ worker'[w].step \in {"call", "lookup"}
      /\ \A v \in Workers \ {w} : worker'[v] = worker[v]
  BY <1>0 DEF IInv, TypeOK, Reserve, WorkerState
<1>c. worker'[w].step = "call" => execution[KeyFor(a)] = Absent /\ ~Paid(a)
  BY <1>0 DEF IInv, TypeOK, Reserve, KeyIsFree, WorkerState, PaymentAgrees
<1>2. \A b \in Actions : RowsAgree(b)'
  BY DEF IInv, Reserve, RowsAgree
<1>3. \A v \in Users : ReviewAgrees(v)'
  BY DEF IInv, Reserve, ReviewAgrees
<1>4. \A v \in Workers : WorkerAgrees(v)'
  <2>1. ASSUME NEW v \in Workers, v # w PROVE WorkerAgrees(v)'
    <3>1. worker[v].step # "idle" => KeyOf(v) \in Keys
      BY HeldClaim
    <3> QED
      BY <1>a, <1>b, <2>1, <3>1 DEF IInv, Reserve, WorkerAgrees, KeyOf, Paid
  <2>2. WorkerAgrees(w)'
    <3>2. worker[w].payload \in Payloads /\ PayloadHash(worker[w].payload) = worker[w].hash
      BY <1>0 DEF IInv, WorkerAgrees
    <3>3. decision[a].verdict = "approved"
      BY <1>0 DEF IInv, WorkerAgrees
    <3>4. KeyOf(w)' = KeyOf(w)
      BY <1>b DEF KeyOf
    <3> QED
      BY <1>0, <1>a, <1>b, <1>c, <3>2, <3>3, <3>4 DEF Reserve, WorkerAgrees, Paid
  <2> QED
    BY <2>1, <2>2
<1>5. \A v, x \in Workers : AloneAtProvider(v, x)'
  <2>1. ASSUME NEW v \in Workers, v # w, worker[v].step = "call", worker[v].action = a
        PROVE  execution[KeyFor(a)] # Absent
    BY <2>1, HeldClaim DEF IInv, WorkerAgrees
  <2> QED
    BY <1>b, <1>c, <2>1 DEF IInv, AloneAtProvider
<1>6. \A b \in Actions : PaymentAgrees(b)'
  <2>1. \A b \in Actions : Paid(b) => KeyFor(b) \in Keys
    BY HashesAndKeys DEF IInv, PaymentAgrees, RowsAgree, KeyFor, Absent, NoDecision
  <2> QED
    BY <1>a, <2>1 DEF IInv, Reserve, PaymentAgrees, Paid, KeyFor
<1>7. SuccessesAgree'
  BY <1>a, HashesAndKeys DEF IInv, Reserve, SuccessesAgree, Paid
<1> QED
  BY <1>1, <1>2, <1>3, <1>4, <1>5, <1>6, <1>7 DEF IInv

(* The call that pays, answered or timed out.                              *)
LEMMA PayingStep ==
  ASSUME IInv, NEW w \in Workers, NEW a, a = worker[w].action,
         CallSucceeds(w) \/ CallTimesOut(w)
  PROVE  IInv'
<1> USE ConstantsAssumption DEF dbVars
<1>0. /\ worker[w].step = "call"
      /\ a \in Actions
      /\ decision[a].verdict = "approved"
      /\ request[a].hash \in Hashes
      /\ KeyOf(w) = IdempotencyKey(a, request[a].hash)
      /\ KeyOf(w) \in Keys
  BY HeldClaim DEF CallSucceeds, CallTimesOut, KeyFor
<1>a. /\ worker[w].payload \in Payloads
      /\ PayloadHash(worker[w].payload) = request[a].hash
      /\ execution[KeyOf(w)] # Absent
      /\ effects[a] = << >>
  BY <1>0 DEF IInv, WorkerAgrees, Paid
<1>b. UNCHANGED <<dbVars, review, expired>>
  BY DEF CallSucceeds, CallTimesOut
<1>c. Pays(w) \/ UNCHANGED <<applied, effects>>
  BY DEF CallSucceeds, CallTimesOut
<1>d. /\ worker'[w].action = a
      /\ worker'[w].hash = worker[w].hash
      /\ worker'[w].payload = worker[w].payload
      /\ worker'[w].step \in {"record", "lookup"}
      /\ worker'[w].step = "record" => worker'[w].outcome = "succeeded"
      /\ \A v \in Workers \ {w} : worker'[v] = worker[v]
  <2>1. CASE CallSucceeds(w)
    BY <2>1 DEF IInv, TypeOK, CallSucceeds, Answers, WorkerState
  <2>2. CASE CallTimesOut(w)
    BY <2>2 DEF IInv, TypeOK, CallTimesOut, WorkerState
  <2> QED
    BY <2>1, <2>2
<1>e. /\ effects' \in [Actions -> Seq(Payloads)]
      /\ \A b \in Actions \ {a} : effects'[b] = effects[b]
      /\ effects'[a] \in {<< >>, <<worker[w].payload>>}
      /\ Pays(w) => effects'[a] # << >>
  <2>1. CASE Pays(w)
    <3>1. effects' = [effects EXCEPT ![a] = <<worker[w].payload>>]
      <4>1. Append(effects[a], worker[w].payload) = <<worker[w].payload>>
        BY <1>a
      <4> QED
        BY <2>1, <4>1 DEF Pays
    <3>2. <<worker[w].payload>> \in Seq(Payloads)
      BY <1>a
    <3> QED
      BY <1>0, <3>1, <3>2 DEF IInv, TypeOK
  <2>2. CASE ~Pays(w)
    BY <1>a, <1>c, <2>2 DEF IInv, TypeOK
  <2> QED
    BY <2>1, <2>2
<1>f. /\ applied' \in [Workers -> SUBSET Keys]
      /\ \A v \in Workers : applied'[v] \subseteq applied[v] \cup {KeyOf(w)}
      /\ ~Pays(w) => applied' = applied
  <2>1. CASE Pays(w)
    BY <1>0, <1>a, <2>1 DEF IInv, TypeOK, Pays
  <2>2. CASE ~Pays(w)
    BY <1>c, <2>2 DEF IInv, TypeOK
  <2> QED
    BY <2>1, <2>2
<1>g. worker'[w].step = "record" => effects'[a] # << >>
  <2>1. KeyOf(w) \notin ProviderKnows(w)
    BY <1>0, <1>a DEF IInv, SuccessesAgree, ProviderKnows, Paid
  <2>2. CASE CallSucceeds(w)
    BY <1>e, <2>1, <2>2 DEF CallSucceeds
  <2>3. CASE CallTimesOut(w)
    BY <2>3 DEF CallTimesOut, IInv, TypeOK, WorkerState
  <2> QED
    BY <2>2, <2>3
<1>1. TypeOK'
  <2>1. worker' \in [Workers -> WorkerState]
    <3>1. Answers(w, "succeeded") \/ worker' = [worker EXCEPT ![w].step = "lookup"]
      BY DEF CallSucceeds, CallTimesOut
    <3> QED
      BY <3>1, WorkerUpdate, WorkerStepUpdate DEF IInv, TypeOK, Answers, WorkerStep, Outcome
  <2>2. faults' \in [FaultKind -> Nat]
    <3>1. UNCHANGED faults \/ Strikes("timeout")
      BY DEF CallSucceeds, CallTimesOut
    <3> QED
      BY <3>1, FaultUpdate DEF IInv, TypeOK, FaultKind
  <2> QED
    BY <1>b, <1>e, <1>f, <2>1, <2>2 DEF IInv, TypeOK
<1>2. \A b \in Actions : RowsAgree(b)'
  BY <1>b DEF IInv, RowsAgree
<1>3. \A v \in Users : ReviewAgrees(v)'
  BY <1>b DEF IInv, ReviewAgrees
<1>4. \A v \in Workers : WorkerAgrees(v)'
  <2>1. ASSUME NEW v \in Workers, v # w PROVE WorkerAgrees(v)'
    <3>1. worker[v].step = "call" => worker[v].action # a
      BY <1>0, <2>1 DEF IInv, AloneAtProvider
    <3>2. worker[v].step # "idle" => worker[v].action \in Actions
      BY HeldClaim
    <3>3. worker[v].step = "record" /\ worker[v].outcome = "succeeded" => worker[v].action # a
      BY <1>a DEF IInv, WorkerAgrees, Paid
    <3>4. WorkerAgrees(v) /\ KeyOf(v)' = KeyOf(v)
      BY <1>d, <2>1 DEF IInv, KeyOf
    <3> QED
      BY <1>b, <1>d, <1>e, <2>1, <3>1, <3>2, <3>3, <3>4 DEF WorkerAgrees, Paid
  <2>2. WorkerAgrees(w)'
    <3>1. WorkerAgrees(w) /\ KeyOf(w)' = KeyOf(w)
      BY <1>d DEF IInv, KeyOf
    <3> QED
      BY <1>0, <1>a, <1>b, <1>d, <1>g, <3>1 DEF WorkerAgrees, Paid
  <2> QED
    BY <2>1, <2>2
<1>5. \A v, x \in Workers : AloneAtProvider(v, x)'
  BY <1>d DEF IInv, AloneAtProvider
<1>6. \A b \in Actions : PaymentAgrees(b)'
  <2>1. PaymentAgrees(a)'
    BY <1>0, <1>a, <1>b, <1>e DEF PaymentAgrees, Paid, KeyFor
  <2>2. ASSUME NEW b \in Actions, b # a PROVE PaymentAgrees(b)'
    BY <1>b, <1>e, <2>2 DEF IInv, PaymentAgrees, Paid, KeyFor
  <2> QED
    BY <2>1, <2>2
<1>7. SuccessesAgree'
  <2>1. \A b \in Actions : Paid(b) => Paid(b)'
    BY <1>a, <1>e DEF Paid
  <2>2. \A b \in Actions, h \in Hashes, v \in Workers :
          IdempotencyKey(b, h) \in applied'[v] => Paid(b)'
    BY <1>0, <1>e, <1>f, <2>1, HashesAndKeys DEF IInv, SuccessesAgree, Paid
  <2> QED
    BY <1>b, <2>1, <2>2 DEF IInv, SuccessesAgree
<1> QED
  BY <1>1, <1>2, <1>3, <1>4, <1>5, <1>6, <1>7 DEF IInv

(* A worker writes the end of an attempt: the outcome, or a refusal.       *)
LEMMA ClosingStep ==
  ASSUME IInv, NEW w \in Workers, NEW a, a = worker[w].action,
         RecordOutcome(w) \/ Refuse(w)
  PROVE  IInv'
<1> USE ConstantsAssumption
<1>0. /\ worker[w].step \in {"record", "refuse"}
      /\ a \in Actions
      /\ decision[a].verdict = "approved"
      /\ job[a].state # Absent
      /\ request[a].state \notin {Absent, "PENDING_APPROVAL"}
      /\ KeyOf(w) = IdempotencyKey(a, request[a].hash)
      /\ KeyOf(w) \in Keys
  BY HeldClaim DEF RecordOutcome, Refuse, KeyFor
<1>a. UNCHANGED <<decision, expired, review, applied, effects, faults>>
  BY DEF RecordOutcome, Refuse
<1>b. PICK js \in {"SUCCEEDED", "QUEUED", "FAILED"}, rs \in {"SUCCEEDED", "EXECUTING", "FAILED"} :
        /\ FinishJob(a, js)
        /\ WorkerSetsState(a, rs)
        /\ js = "SUCCEEDED" \/ rs = "SUCCEEDED" => Paid(a)
  BY <1>0 DEF RecordOutcome, Refuse, IInv, WorkerAgrees
<1>c. worker' = [worker EXCEPT ![w] = IdleWorker]
  BY DEF RecordOutcome, Refuse
<1>d. /\ request' \in [Actions -> RequestRow]
      /\ \A b \in Actions \ {a} : request'[b] = request[b]
      /\ request'[a].state \in {request[a].state, rs}
      /\ request'[a].requester = request[a].requester
      /\ request'[a].hash = request[a].hash
  <2>1. rs \in ActionState /\ request[a].state \in ActionState
    BY <1>0 DEF ActionState, IInv, TypeOK, RequestRow
  <2>2. PICK s \in {request[a].state, rs} : request' = [request EXCEPT ![a].state = s]
    BY <1>b DEF WorkerSetsState
  <2>3. request' \in [Actions -> RequestRow]
    BY <1>0, <2>1, <2>2, RequestUpdate DEF IInv, TypeOK
  <2> QED
    BY <1>0, <2>2, <2>3 DEF IInv, TypeOK, RequestRow
<1>e. /\ job' \in [Actions -> JobRow]
      /\ \A b \in Actions \ {a} : job'[b] = job[b]
      /\ job'[a].state = js
  <2> DEFINE row == [state |-> js, attempts |-> job[a].attempts, owner |-> None,
                     lease |-> "none", available |-> js # "QUEUED" /\ job[a].available]
  <2>1. job[a].attempts \in Nat /\ job[a].available \in BOOLEAN
    BY <1>0 DEF IInv, TypeOK, JobRow
  <2>2. row \in JobRow
    BY <2>1 DEF JobRow, JobState
  <2>3. job' = [job EXCEPT ![a] = row]
    BY <1>b DEF FinishJob
  <2>4. job' \in [Actions -> JobRow]
    BY <1>0, <2>2, <2>3, JobUpdate DEF IInv, TypeOK
  <2> QED
    BY <1>0, <2>3, <2>4 DEF IInv, TypeOK
<1>f. /\ execution' \in [Keys -> Outcome \cup {Absent}]
      /\ \A k \in Keys : execution[k] # Absent => execution'[k] # Absent
      /\ \A k \in Keys : execution'[k] = "succeeded" =>
           execution[k] = "succeeded" \/ (k = KeyOf(w) /\ Paid(a) /\ "succeeded" \in audit'[a])
  <2>1. CASE RecordOutcome(w)
    <3>1. /\ worker[w].outcome \in {"succeeded", "failed"}
          /\ worker[w].outcome = "succeeded" => Paid(a)
      BY <2>1 DEF RecordOutcome, IInv, WorkerAgrees
    <3>2. execution' = [execution EXCEPT ![KeyOf(w)] = worker[w].outcome]
      BY <2>1 DEF RecordOutcome
    <3>3. worker[w].outcome = "succeeded" => "succeeded" \in audit'[a]
      BY <1>0, <2>1 DEF RecordOutcome, IInv, TypeOK
    <3> QED
      BY <1>0, <3>1, <3>2, <3>3 DEF IInv, TypeOK, Outcome, Absent
  <2>2. CASE Refuse(w)
    BY <2>2 DEF Refuse, IInv, TypeOK
  <2> QED
    BY <2>1, <2>2
<1>g. /\ audit' \in [Actions -> SUBSET AuditEvent]
      /\ \A b \in Actions : audit[b] \subseteq audit'[b]
  <2>1. PICK e \in {"succeeded", "failed"} : audit' = [audit EXCEPT ![a] = @ \cup {e}]
    BY DEF RecordOutcome, Refuse
  <2> QED
    BY <1>0, <2>1 DEF IInv, TypeOK, AuditEvent
<1>1. TypeOK'
  <2>1. worker' \in [Workers -> WorkerState]
    BY <1>c DEF IInv, TypeOK, WorkerState, WorkerStep, IdleWorker
  <2> QED
    BY <1>a, <1>d, <1>e, <1>f, <1>g, <2>1 DEF IInv, TypeOK
<1>2. \A b \in Actions : RowsAgree(b)'
  <2>1. RowsAgree(a)'
    BY <1>0, <1>a, <1>d, <1>e DEF IInv, RowsAgree, Absent
  <2>2. ASSUME NEW b \in Actions, b # a PROVE RowsAgree(b)'
    BY <1>a, <1>d, <1>e, <2>2 DEF IInv, RowsAgree
  <2> QED
    BY <2>1, <2>2
<1>h. \A b \in Actions :
        /\ request'[b].hash = request[b].hash
        /\ request[b].state # Absent => request'[b].state # Absent
  BY <1>0, <1>d DEF Absent
<1>3. \A v \in Users : ReviewAgrees(v)'
  BY <1>a, <1>h DEF IInv, ReviewAgrees
<1>4. \A v \in Workers : WorkerAgrees(v)'
  <2>1. ASSUME NEW v \in Workers, v # w PROVE WorkerAgrees(v)'
    <3>1. worker'[v] = worker[v] /\ KeyOf(v)' = KeyOf(v)
      BY <1>c, <2>1 DEF IInv, TypeOK, KeyOf
    <3>2. worker[v].step # "idle" => KeyOf(v) \in Keys
      BY HeldClaim
    <3> QED
      BY <1>a, <1>h, <1>f, <3>1, <3>2 DEF IInv, WorkerAgrees, Paid
  <2>2. WorkerAgrees(w)'
    BY <1>c DEF IInv, TypeOK, WorkerAgrees, IdleWorker
  <2> QED
    BY <2>1, <2>2
<1>5. \A v, x \in Workers : AloneAtProvider(v, x)'
  BY <1>c DEF IInv, TypeOK, AloneAtProvider, IdleWorker
<1>6. \A b \in Actions : PaymentAgrees(b)'
  <2>1. \A b \in Actions : Paid(b) => KeyFor(b) \in Keys
    BY HashesAndKeys DEF IInv, PaymentAgrees, RowsAgree, KeyFor, Absent, NoDecision
  <2> QED
    BY <1>a, <1>f, <1>h, <2>1 DEF IInv, PaymentAgrees, Paid, KeyFor
<1>7. SuccessesAgree'
  <2>1. \A b \in Actions : request'[b].state = "SUCCEEDED" \/ job'[b].state = "SUCCEEDED" => Paid(b)
    BY <1>b, <1>d, <1>e DEF IInv, SuccessesAgree
  <2>2. \A b \in Actions, h \in Hashes :
          execution'[IdempotencyKey(b, h)] = "succeeded" => Paid(b) /\ "succeeded" \in audit'[b]
    BY <1>0, <1>f, <1>g, HashesAndKeys DEF IInv, SuccessesAgree
  <2> QED
    BY <1>a, <2>1, <2>2 DEF IInv, SuccessesAgree, Paid
<1> QED
  BY <1>1, <1>2, <1>3, <1>4, <1>5, <1>6, <1>7 DEF IInv

-----------------------------------------------------------------------------
(* The clock and the writes from outside change a lease, an availability,  *)
(* the set of expired actions or a payload, and none of them is in the     *)
(* invariant beyond its type.                                              *)
LEMMA OutsideStep ==
  ASSUME IInv, NEW a \in Actions,
         \/ LeaseExpires(a)
         \/ BackoffElapses(a)
         \/ ApprovalExpires(a)
         \/ \E p \in Payloads : TamperPayload(a, p)
  PROVE  IInv'
<1> USE ConstantsAssumption DEF dbVars
<1>0. UNCHANGED <<decision, execution, audit, review, worker, applied, effects>>
  BY DEF LeaseExpires, BackoffElapses, ApprovalExpires, TamperPayload
<1>a. /\ job' \in [Actions -> JobRow]
      /\ \A b \in Actions : job'[b].state = job[b].state
  <2>1. CASE LeaseExpires(a) \/ BackoffElapses(a)
    <3>1. PICK r \in JobRow : job' = [job EXCEPT ![a] = r] /\ r.state = job[a].state
      <4>1. job[a] \in JobRow
        BY DEF IInv, TypeOK
      <4>2. [job[a] EXCEPT !.lease = "expired"] \in JobRow
        BY <4>1 DEF JobRow
      <4>3. [job[a] EXCEPT !.available = TRUE] \in JobRow
        BY <4>1 DEF JobRow
      <4>4. /\ [job[a] EXCEPT !.lease = "expired"].state = job[a].state
            /\ [job[a] EXCEPT !.available = TRUE].state = job[a].state
        BY <4>1 DEF JobRow
      <4>5. CASE LeaseExpires(a)
        BY <4>2, <4>4, <4>5 DEF LeaseExpires
      <4>6. CASE BackoffElapses(a)
        BY <4>3, <4>4, <4>6 DEF BackoffElapses
      <4> QED
        BY <2>1, <4>5, <4>6
    <3> QED
      BY <3>1, JobUpdate DEF IInv, TypeOK
  <2>2. CASE ApprovalExpires(a) \/ \E p \in Payloads : TamperPayload(a, p)
    BY <2>2 DEF IInv, TypeOK, ApprovalExpires, TamperPayload
  <2> QED
    BY <2>1, <2>2
<1>b. /\ request' \in [Actions -> RequestRow]
      /\ \A b \in Actions :
           /\ request'[b].state = request[b].state
           /\ request'[b].hash = request[b].hash
           /\ request'[b].requester = request[b].requester
           /\ request[b].state = Absent => request'[b] = request[b]
  <2>1. ASSUME NEW p \in Payloads, TamperPayload(a, p)
        PROVE  /\ request' = [request EXCEPT ![a].payload = p]
               /\ request[a].state # Absent
    BY <2>1 DEF TamperPayload
  <2>2. CASE \E p \in Payloads : TamperPayload(a, p)
    <3>1. PICK p \in Payloads : TamperPayload(a, p)
      BY <2>2
    <3>2. request' \in [Actions -> RequestRow]
      BY <3>1, <2>1, PayloadUpdate DEF IInv, TypeOK
    <3>3. \A b \in Actions \ {a} : request'[b] = request[b]
      BY <3>1, <2>1 DEF IInv, TypeOK
    <3>4. /\ request'[a].state = request[a].state
          /\ request'[a].hash = request[a].hash
          /\ request'[a].requester = request[a].requester
      BY <3>1, <2>1 DEF IInv, TypeOK, RequestRow
    <3> QED
      BY <2>1, <3>1, <3>2, <3>3, <3>4
  <2>3. CASE LeaseExpires(a) \/ BackoffElapses(a) \/ ApprovalExpires(a)
    BY <2>3 DEF IInv, TypeOK, LeaseExpires, BackoffElapses, ApprovalExpires
  <2> QED
    BY <2>2, <2>3
<1>1. TypeOK'
  <2>1. faults' \in [FaultKind -> Nat]
    <3>1. UNCHANGED faults \/ \E k \in FaultKind : Strikes(k)
      BY DEF LeaseExpires, BackoffElapses, ApprovalExpires, TamperPayload, FaultKind
    <3> QED
      BY <3>1, FaultUpdate DEF IInv, TypeOK
  <2>2. expired' \subseteq Actions
    BY DEF IInv, TypeOK, LeaseExpires, BackoffElapses, ApprovalExpires, TamperPayload
  <2> QED
    BY <1>0, <1>a, <1>b, <2>1, <2>2 DEF IInv, TypeOK
<1>2. \A b \in Actions : RowsAgree(b)'
  BY <1>0, <1>a, <1>b DEF IInv, RowsAgree
<1>3. \A v \in Users : ReviewAgrees(v)'
  BY <1>0, <1>b DEF IInv, ReviewAgrees
<1>4. \A v \in Workers : WorkerAgrees(v)'
  BY <1>0, <1>b DEF IInv, WorkerAgrees, KeyOf, Paid
<1>5. \A v, x \in Workers : AloneAtProvider(v, x)'
  BY <1>0 DEF IInv, AloneAtProvider
<1>6. \A b \in Actions : PaymentAgrees(b)'
  BY <1>0, <1>b DEF IInv, PaymentAgrees, Paid, KeyFor
<1>7. SuccessesAgree'
  BY <1>0, <1>a, <1>b DEF IInv, SuccessesAgree, Paid
<1> QED
  BY <1>1, <1>2, <1>3, <1>4, <1>5, <1>6, <1>7 DEF IInv

-----------------------------------------------------------------------------
(* IInv is inductive.                                                      *)
LEMMA NextIInv == IInv /\ [Next]_vars => IInv'
<1> SUFFICES ASSUME IInv, [Next]_vars PROVE IInv'
  OBVIOUS
<1>1. ASSUME NEW u \in Users, NEW a \in Actions, NEW p \in Payloads, Propose(u, a, p) PROVE IInv'
  BY <1>1, ProposeStep
<1>2. ASSUME NEW u \in Users, NEW a \in Actions, ViewApproval(u, a) PROVE IInv'
  BY <1>2, ReviewStep
<1>3. ASSUME NEW u \in Users, NEW v \in {"approved", "rejected"}, AuthorizeDecision(u, v) PROVE IInv'
  BY <1>3, ReviewStep
<1>4. ASSUME NEW u \in Users, RecordDecision(u) PROVE IInv'
  BY <1>4, RecordDecisionStep
<1>5. ASSUME NEW u \in Users, ReviewEnds(u) PROVE IInv'
  BY <1>5, ReviewStep
<1>6. ASSUME NEW w \in Workers, NEW a \in Actions, Claim(w, a) PROVE IInv'
  BY <1>6, ClaimStep
<1>7. ASSUME NEW w \in Workers, WorkerStepOf(w) \/ StepRaises(w) \/ Crash(w) PROVE IInv'
  <2>1. CASE Verify(w) \/ CallFails(w) \/ Lookup(w) \/ StepRaises(w) \/ Crash(w)
    BY <2>1, LocalStep
  <2>2. CASE Reserve(w)
    BY <2>2, ReserveStep
  <2>3. CASE CallSucceeds(w) \/ CallTimesOut(w)
    BY <2>3, PayingStep
  <2>4. CASE RecordOutcome(w) \/ Refuse(w)
    BY <2>4, ClosingStep
  <2> QED
    BY <1>7, <2>1, <2>2, <2>3, <2>4 DEF WorkerStepOf
<1>8. ASSUME NEW a \in Actions,
             \/ LeaseExpires(a)
             \/ BackoffElapses(a)
             \/ ApprovalExpires(a)
             \/ \E p \in Payloads : TamperPayload(a, p)
      PROVE  IInv'
  BY <1>8, OutsideStep
<1>9. CASE UNCHANGED vars
  BY <1>9 DEF vars, IInv, TypeOK, RowsAgree, ReviewAgrees, WorkerAgrees, AloneAtProvider,
              PaymentAgrees, SuccessesAgree, KeyOf, KeyFor, Paid
<1> QED
  BY <1>1, <1>2, <1>3, <1>4, <1>5, <1>6, <1>7, <1>8, <1>9 DEF Next

(* Every reachable state satisfies the invariant.                          *)
THEOREM Invariance == Spec => []IInv
BY InitIInv, NextIInv, PTL DEF Spec

-----------------------------------------------------------------------------
(* Every row, process and provider record keeps its type.                  *)
THEOREM TypeCorrect == Spec => []TypeOK
<1>1. IInv => TypeOK
  BY DEF IInv
<1> QED
  BY <1>1, Invariance, PTL

(* No refund is paid twice.                                                *)
THEOREM PaidOnce == Spec => []AtMostOneEffect
<1>1. IInv => AtMostOneEffect
  <2> SUFFICES ASSUME IInv, NEW a \in Actions PROVE Len(effects[a]) <= 1
    BY DEF AtMostOneEffect
  <2>1. CASE Paid(a)
    <3>1. Len(effects[a]) = 1
      BY <2>1 DEF IInv, PaymentAgrees
    <3> QED
      BY <3>1
  <2>2. CASE effects[a] = << >>
    BY <2>2
  <2> QED
    BY <2>1, <2>2 DEF Paid
<1> QED
  BY <1>1, Invariance, PTL

(* The worker never relies on the provider to recognise a repeated key.    *)
THEOREM CalledOncePerKey == Spec => []NeverAsksTwice
<1>1. IInv => NeverAsksTwice
  <2> SUFFICES ASSUME IInv, NEW w \in Workers, worker[w].step = "call"
               PROVE  KeyOf(w) \notin ProviderKnows(w)
    BY DEF NeverAsksTwice
  <2>1. ~Paid(worker[w].action)
    BY DEF IInv, WorkerAgrees
  <2> QED
    BY <2>1, HeldClaim DEF IInv, SuccessesAgree, ProviderKnows, KeyOf
<1> QED
  BY <1>1, Invariance, PTL

(* What was paid was approved, by somebody else, in exactly that form.     *)
THEOREM PaidAsApproved == Spec => []EffectWasApproved
<1>1. IInv => EffectWasApproved
  <2> SUFFICES ASSUME IInv, NEW a \in Actions, NEW i \in DOMAIN effects[a]
               PROVE  /\ decision[a].verdict = "approved"
                      /\ decision[a].approver \in Approvers
                      /\ decision[a].approver # request[a].requester
                      /\ PayloadHash(effects[a][i]) = decision[a].hash
    BY DEF EffectWasApproved
  <2>1. effects[a] \in Seq(Payloads)
    BY DEF IInv, TypeOK
  <2>2. Paid(a)
    BY <2>1 DEF Paid
  <2>3. i = 1
    BY <2>1, <2>2 DEF IInv, PaymentAgrees
  <2> QED
    BY <2>2, <2>3 DEF IInv, PaymentAgrees, RowsAgree, Absent
<1> QED
  BY <1>1, Invariance, PTL

(* A reported success has a payment and an audit event behind it.          *)
THEOREM SuccessHasPayment == Spec => []SuccessIsReal
<1>1. IInv => SuccessIsReal
  BY DEF IInv, SuccessesAgree, SuccessIsReal
<1> QED
  BY <1>1, Invariance, PTL

(* The queue holds the approved actions and no others.                     *)
THEOREM QueueIsApproved == Spec => []ApprovedHasJob
<1>1. IInv => ApprovedHasJob
  BY DEF IInv, RowsAgree, ApprovedHasJob
<1> QED
  BY <1>1, Invariance, PTL

-----------------------------------------------------------------------------
(* What a step may do to the rows that the promise and the verdicts speak  *)
(* of: propose one action, decide one, pay one, or none of these.          *)

SameProposals ==
  \A a \in Actions : /\ request'[a].requester = request[a].requester
                     /\ request'[a].hash = request[a].hash
                     /\ request'[a].state = Absent <=> request[a].state = Absent

SettledStay ==
  \A a \in Actions : request[a].state \in TerminalStates => request'[a].state = request[a].state

Pay(a) ==
  \E p \in Payloads : /\ PayloadHash(p) = request[a].hash
                      /\ decision[a].verdict = "approved"
                      /\ request[a].state # Absent
                      /\ effects[a] = << >>
                      /\ effects' = [effects EXCEPT ![a] = <<p>>]

LEMMA WorkerEffect ==
  ASSUME IInv, NEW w \in Workers, WorkerStepOf(w) \/ StepRaises(w) \/ Crash(w)
  PROVE  /\ SameProposals /\ SettledStay
         /\ UNCHANGED decision
         /\ UNCHANGED effects \/ \E a \in Actions : Pay(a)
<1>1. CASE CallSucceeds(w) \/ CallTimesOut(w)
  <2>1. UNCHANGED <<request, decision>>
    BY <1>1 DEF CallSucceeds, CallTimesOut, dbVars
  <2>2. ASSUME Pays(w) PROVE Pay(worker[w].action)
    <3>1. worker[w].step = "call"
      BY <1>1 DEF CallSucceeds, CallTimesOut
    <3>2. /\ worker[w].payload \in Payloads
          /\ PayloadHash(worker[w].payload) = request[worker[w].action].hash
          /\ effects[worker[w].action] = << >>
      BY <3>1, HeldClaim DEF IInv, WorkerAgrees, Paid
    <3>3. Append(effects[worker[w].action], worker[w].payload) = <<worker[w].payload>>
      BY <3>2
    <3> QED
      BY <2>2, <3>1, <3>2, <3>3, HeldClaim DEF Pays, Pay
  <2>3. UNCHANGED effects \/ Pays(w)
    BY <1>1 DEF CallSucceeds, CallTimesOut
  <2>4. worker[w].action \in Actions
    BY <1>1, HeldClaim DEF CallSucceeds, CallTimesOut
  <2> QED
    BY <2>1, <2>2, <2>3, <2>4 DEF SameProposals, SettledStay
<1>2. CASE RecordOutcome(w) \/ Refuse(w)
  <2>1. PICK s : WorkerSetsState(worker[w].action, s) /\ s # Absent
    BY <1>2 DEF RecordOutcome, Refuse, Absent
  <2>2. worker[w].action \in Actions
    BY <1>2, HeldClaim DEF RecordOutcome, Refuse
  <2>3. SameProposals /\ SettledStay
    BY <2>1, <2>2 DEF IInv, TypeOK, RequestRow, WorkerSetsState, SameProposals, SettledStay,
                      TerminalStates, Absent
  <2> QED
    BY <1>2, <2>3 DEF RecordOutcome, Refuse
<1>3. CASE Verify(w) \/ Reserve(w) \/ CallFails(w) \/ Lookup(w) \/ StepRaises(w) \/ Crash(w)
  BY <1>3 DEF Verify, Reserve, CallFails, Lookup, StepRaises, Crash, dbVars, SameProposals, SettledStay
<1> QED
  BY <1>1, <1>2, <1>3 DEF WorkerStepOf

(* The steps of everybody else leave proposals, verdicts and payments      *)
(* alone, but for the two that propose and decide.                         *)
LEMMA QuietStep ==
  ASSUME IInv,
         \/ \E u \in Users, a \in Actions : ViewApproval(u, a)
         \/ \E u \in Users, v \in {"approved", "rejected"} : AuthorizeDecision(u, v)
         \/ \E u \in Users : ReviewEnds(u)
         \/ \E w \in Workers, a \in Actions : Claim(w, a)
         \/ \E a \in Actions : LeaseExpires(a) \/ BackoffElapses(a) \/ ApprovalExpires(a)
         \/ \E a \in Actions, p \in Payloads : TamperPayload(a, p)
         \/ UNCHANGED vars
  PROVE  SameProposals /\ SettledStay /\ UNCHANGED <<decision, effects>>
<1>1. CASE \E a \in Actions, p \in Payloads : TamperPayload(a, p)
  BY <1>1 DEF IInv, TypeOK, RequestRow, TamperPayload, SameProposals, SettledStay
<1>2. CASE UNCHANGED <<request, decision, effects>>
  BY <1>2 DEF SameProposals, SettledStay
<1> QED
  BY <1>1, <1>2 DEF ViewApproval, AuthorizeDecision, ReviewEnds, Claim, LeaseExpires, BackoffElapses,
                    ApprovalExpires, dbVars, vars

(* A verdict stands, and a settled request stays settled.                  *)
THEOREM FinalVerdicts == Spec => VerdictsAreFinal
<1> DEFINE Final == \A a \in Actions :
                      /\ decision[a] # NoDecision => decision'[a] = decision[a]
                      /\ request[a].state \in TerminalStates => request'[a].state = request[a].state
<1>1. IInv /\ [Next]_vars => Final
  <2> SUFFICES ASSUME IInv, [Next]_vars PROVE Final
    OBVIOUS
  <2>1. ASSUME NEW u \in Users, NEW a \in Actions, NEW p \in Payloads, Propose(u, a, p) PROVE Final
    BY <2>1 DEF IInv, TypeOK, RequestRow, Propose, TerminalStates, Absent
  <2>2. ASSUME NEW u \in Users, RecordDecision(u) PROVE Final
    <3>1. /\ decision[review[u].action].verdict = Absent
          /\ request[review[u].action].state = "PENDING_APPROVAL"
          /\ review[u].action \in Actions
      BY <2>2 DEF IInv, ReviewAgrees, RecordDecision, DecisionInsertable
    <3>2. decision[review[u].action] = NoDecision
      BY <3>1 DEF IInv, RowsAgree
    <3> QED
      BY <2>2, <3>1, <3>2 DEF IInv, TypeOK, RecordDecision, TerminalStates
  <2>3. ASSUME NEW w \in Workers, WorkerStepOf(w) \/ StepRaises(w) \/ Crash(w) PROVE Final
    BY <2>3, WorkerEffect DEF SettledStay
  <2>4. CASE SettledStay /\ UNCHANGED decision
    BY <2>4 DEF SettledStay
  <2> QED
    BY <2>1, <2>2, <2>3, <2>4, QuietStep DEF Next
<1>2. IInv /\ [Next]_vars => [Final]_vars
  BY <1>1
<1> QED
  BY <1>2, Invariance, PTL DEF Spec, VerdictsAreFinal

-----------------------------------------------------------------------------
(* The payload a request stands for is the one that hashes to its hash.    *)
LEMMA ProposedPayload ==
  ASSUME NEW a \in Actions, NEW p \in Payloads,
         request[a].state # Absent, request[a].hash = PayloadHash(p)
  PROVE  Proposed(a) = p
BY HashesAndKeys DEF Proposed

LEMMA NothingProposed ==
  ASSUME NEW a \in Actions, request[a].state = Absent
  PROVE  Proposed(a) = None
BY DEF Proposed

LEMMA SameProposed ==
  ASSUME SameProposals, NEW a \in Actions
  PROVE  Proposed(a)' = Proposed(a)
BY DEF SameProposals, Proposed

(* The API, the tables, the workers and the provider implement the promise.*)
THEOREM PromiseKept == Spec => KeepsPromise
<1>1. Init => Promise!PromiseInit
  <2> SUFFICES ASSUME Init PROVE Promise!PromiseInit
    OBVIOUS
  <2>1. \A a \in Actions : request[a].requester = None /\ Proposed(a) = None
    BY NothingProposed DEF Init, NoRequest
  <2> QED
    BY <2>1 DEF Init, NoDecision, Promise!PromiseInit, Promise!Absent, Absent
<1>2. IInv /\ [Next]_vars => [Promise!PromiseNext]_(Promise!promiseVars)
  <2> SUFFICES ASSUME IInv, [Next]_vars PROVE [Promise!PromiseNext]_(Promise!promiseVars)
    OBVIOUS
  <2> USE ConstantsAssumption
  <2>1. ASSUME SameProposals, UNCHANGED <<decision, effects>>
        PROVE  UNCHANGED Promise!promiseVars
    <3>1. \A a \in Actions : Proposed(a)' = Proposed(a) /\ request'[a].requester = request[a].requester
      BY <2>1, SameProposed DEF SameProposals
    <3> QED
      BY <2>1, <3>1 DEF Promise!promiseVars
  <2>2. ASSUME NEW u \in Users, NEW a \in Actions, NEW p \in Payloads, Propose(u, a, p)
        PROVE  Promise!ProposeOnce(a, u, p) /\ u \in Requesters
    <3>1. \A b \in Actions \ {a} : request'[b] = request[b]
      BY <2>2 DEF Propose, IInv, TypeOK
    <3>2. \A b \in Actions \ {a} : Proposed(b)' = Proposed(b)
      BY <3>1 DEF Proposed
    <3>3. /\ request'[a].state # Absent
          /\ request'[a].hash = PayloadHash(p)
          /\ request'[a].requester = u
      BY <2>2 DEF Propose, IInv, TypeOK, Absent
    <3>4. Proposed(a)' = p
      BY <3>3, HashesAndKeys DEF Proposed
    <3>5. request[a].requester = None
      BY <2>2 DEF Propose, IInv, RowsAgree, NoRequest
    <3>6. UNCHANGED <<decision, effects>> /\ u \in Requesters
      BY <2>2 DEF Propose
    <3> QED
      BY <3>1, <3>2, <3>3, <3>4, <3>5, <3>6 DEF Promise!ProposeOnce
  <2>3. ASSUME NEW u \in Users, RecordDecision(u)
        PROVE  \E a \in Actions, answer \in {"approved", "rejected"} :
                 u \in Approvers /\ Promise!DecideOnce(a, u, answer)
    <3>0. PICK a, answer : a = review[u].action /\ answer = review[u].verdict
      OBVIOUS
    <3>1. /\ a \in Actions
          /\ decision[a].verdict = Absent
          /\ request[a].state = "PENDING_APPROVAL"
          /\ review[u].verdict \in {"approved", "rejected"}
          /\ u \in Approvers
          /\ u # request[a].requester
      BY <2>3, <3>0 DEF IInv, ReviewAgrees, RecordDecision, DecisionInsertable
    <3>2. request[a].requester # None
      BY <3>1 DEF IInv, RowsAgree, Absent
    <3>3. SameProposals /\ UNCHANGED effects
      BY <2>3, <3>0, <3>1 DEF SameProposals, RecordDecision, IInv, TypeOK, RequestRow, Absent
    <3>4. \A b \in Actions : Proposed(b)' = Proposed(b) /\ request'[b].requester = request[b].requester
      BY <3>3, SameProposed DEF SameProposals
    <3>5. /\ decision'[a].verdict = review[u].verdict
          /\ decision'[a].approver = u
          /\ \A b \in Actions \ {a} : decision'[b] = decision[b]
      BY <2>3, <3>0, <3>1 DEF RecordDecision, IInv, TypeOK
    <3>6. Promise!DecideOnce(a, u, answer)
      BY <3>0, <3>1, <3>2, <3>3, <3>4, <3>5, ZenonT(40) DEF Promise!DecideOnce, Promise!Absent, Absent
    <3> QED
      BY <3>0, <3>1, <3>6
  <2>4. ASSUME NEW a \in Actions, Pay(a), SameProposals, UNCHANGED decision
        PROVE  Promise!PayOnce(a)
    <3>1. PICK p \in Payloads : /\ PayloadHash(p) = request[a].hash
                                /\ effects' = [effects EXCEPT ![a] = <<p>>]
      BY <2>4 DEF Pay
    <3>2. Proposed(a) = p
      BY <2>4, <3>1, ProposedPayload DEF Pay
    <3>3. \A b \in Actions : Proposed(b)' = Proposed(b) /\ request'[b].requester = request[b].requester
      BY <2>4, SameProposed DEF SameProposals
    <3> QED
      BY <2>4, <3>1, <3>2, <3>3 DEF Pay, Promise!PayOnce
  <2>5. CASE \E w \in Workers : WorkerStepOf(w) \/ StepRaises(w) \/ Crash(w)
    <3>1. /\ SameProposals
          /\ UNCHANGED decision
          /\ UNCHANGED effects \/ \E a \in Actions : Pay(a)
      BY <2>5, WorkerEffect
    <3> QED
      BY <2>1, <2>4, <3>1 DEF Promise!PromiseNext
  <2>6. CASE \E u \in Users, a \in Actions, p \in Payloads : Propose(u, a, p)
    BY <2>2, <2>6 DEF Promise!PromiseNext
  <2>7. CASE \E u \in Users : RecordDecision(u)
    BY <2>3, <2>7 DEF Promise!PromiseNext
  <2> QED
    BY <2>1, <2>5, <2>6, <2>7, QuietStep DEF Next
<1> QED
  BY <1>1, <1>2, Invariance, PTL DEF Spec, KeepsPromise, Promise!Spec

-----------------------------------------------------------------------------
(* One worker alone: what is written down as failed was not paid.          *)

LEMMA InitOneInv == OneWorkerAlone /\ Init => OneInv
<1> SUFFICES ASSUME OneWorkerAlone, Init PROVE OneInv
  OBVIOUS
<1>1. NothingFromOutside
  BY DEF Init, OneWorkerAlone, NothingFromOutside
<1>2. \A a \in Actions : OpenAgrees(a)
  BY HashesAndKeys DEF Init, OpenAgrees, NoRequest, NoJob, Paid, Absent
<1>3. \A w \in Workers : CopyAgrees(w)
  BY DEF Init, CopyAgrees, IdleWorker
<1>4. FailureIsReal
  BY DEF Init, FailureIsReal, Paid
<1> QED
  BY <1>1, <1>2, <1>3, <1>4 DEF OneInv

(* What FailureIsReal says, without its set of rows.                       *)
LEMMA FailureMeans ==
  FailureIsReal <=>
    \A a \in Actions : Paid(a) => /\ request[a].state # "FAILED" /\ job[a].state # "FAILED"
                                  /\ \A h \in Hashes : execution[IdempotencyKey(a, h)] # "failed"
BY DEF FailureIsReal

LEMMA FailureMeansNext ==
  FailureIsReal' <=>
    \A a \in Actions : Paid(a)' => /\ request'[a].state # "FAILED" /\ job'[a].state # "FAILED"
                                   /\ \A h \in Hashes : execution'[IdempotencyKey(a, h)] # "failed"
BY DEF FailureIsReal

(* No step can take from an empty budget, and no other step touches it.    *)
LEMMA NothingStrikes ==
  ASSUME IInv, NothingFromOutside, [Next]_vars
  PROVE  /\ NothingFromOutside'
         /\ \A w \in Workers : ~StepRaises(w)
         /\ \A a \in Actions : ~ApprovalExpires(a) /\ \A p \in Payloads : ~TamperPayload(a, p)
<1>1. /\ ~Strikes("error") /\ ~Strikes("tamper") /\ ~Strikes("expire")
  BY DEF NothingFromOutside, Strikes
<1>2. /\ \A w \in Workers : ~StepRaises(w)
      /\ \A a \in Actions : ~ApprovalExpires(a) /\ \A p \in Payloads : ~TamperPayload(a, p)
  BY <1>1 DEF StepRaises, ApprovalExpires, TamperPayload
<1>3. ASSUME UNCHANGED expired,
             UNCHANGED faults \/ Strikes("crash") \/ Strikes("decline") \/ Strikes("timeout")
      PROVE  NothingFromOutside'
  BY <1>3 DEF NothingFromOutside, Strikes, IInv, TypeOK, FaultKind
<1>4. ASSUME NEW w \in Workers, WorkerStepOf(w) \/ Crash(w)
      PROVE  NothingFromOutside'
  BY <1>3, <1>4 DEF WorkerStepOf, Crash, Verify, Reserve, CallSucceeds, CallFails, CallTimesOut,
                    Lookup, RecordOutcome, Refuse
<1>5. ASSUME UNCHANGED <<expired, faults>> PROVE NothingFromOutside'
  BY <1>5 DEF NothingFromOutside
<1> QED
  BY <1>2, <1>4, <1>5 DEF Next, vars, Propose, ViewApproval, AuthorizeDecision, RecordDecision,
                          ReviewEnds, Claim, LeaseExpires, BackoffElapses

(* Steps that touch neither the rows nor the provider.                     *)
LEMMA SameRows ==
  ASSUME IInv, OneInv, UNCHANGED <<request, execution, applied, effects>>,
         \A a \in Actions : job'[a].state = job[a].state
  PROVE  /\ \A a \in Actions : OpenAgrees(a)'
         /\ FailureIsReal'
         /\ \A w \in Workers : worker'[w] = worker[w] => CopyAgrees(w)'
<1>1. \A a \in Actions : OpenAgrees(a)'
  BY DEF OneInv, OpenAgrees, Paid, KeyFor
<1>2. FailureIsReal'
  BY FailureMeans, FailureMeansNext DEF OneInv, Paid
<1>3. ASSUME NEW w \in Workers, worker'[w] = worker[w]
      PROVE  CopyAgrees(w)'
  <2>1. worker[w].step # "idle" => worker[w].action \in Actions
    BY HeldClaim
  <2> QED
    BY <1>3, <2>1 DEF OneInv, CopyAgrees, Paid, KeyOf
<1> QED
  BY <1>1, <1>2, <1>3

LEMMA OneProposes ==
  ASSUME IInv, OneInv, NEW u \in Users, NEW a \in Actions, NEW p \in Payloads, Propose(u, a, p)
  PROVE  /\ \A b \in Actions : OpenAgrees(b)'
         /\ \A w \in Workers : CopyAgrees(w)'
         /\ FailureIsReal'
<1>1. /\ request[a].state = Absent /\ job[a].state = Absent /\ ~Paid(a)
      /\ \A b \in Actions \ {a} : request'[b] = request[b]
      /\ request'[a].payload = p /\ request'[a].hash = PayloadHash(p)
  BY DEF Propose, IInv, TypeOK, RowsAgree, PaymentAgrees, NoDecision, Absent
<1>2. UNCHANGED <<job, execution, worker, applied, effects>>
  BY DEF Propose
<1>3. \A h \in Hashes : execution[IdempotencyKey(a, h)] = Absent
  BY <1>1 DEF OneInv, OpenAgrees
<1>4. OpenAgrees(a)'
  BY <1>1, <1>2, <1>3 DEF OpenAgrees, Paid, Absent
<1>5. \A b \in Actions \ {a} : OpenAgrees(b)'
  BY <1>1, <1>2 DEF OneInv, OpenAgrees, Paid, KeyFor
<1>6. \A w \in Workers : CopyAgrees(w)'
  BY <1>2, HeldClaim DEF OneInv, CopyAgrees, Paid, KeyOf
<1>7. FailureIsReal'
  BY <1>1, <1>2, FailureMeans, FailureMeansNext DEF OneInv, Paid
<1> QED
  BY <1>4, <1>5, <1>6, <1>7

LEMMA OneDecides ==
  ASSUME IInv, OneInv, NEW u \in Users, RecordDecision(u)
  PROVE  /\ \A b \in Actions : OpenAgrees(b)'
         /\ \A w \in Workers : CopyAgrees(w)'
         /\ FailureIsReal'
<1>0. PICK a \in Actions, s \in {"APPROVED", "REJECTED"} :
        a = review[u].action /\ s = (IF review[u].verdict = "approved" THEN "APPROVED" ELSE "REJECTED")
  BY DEF IInv, RecordDecision, ReviewAgrees
<1>1. /\ request[a].state = "PENDING_APPROVAL"
      /\ decision[a].verdict = Absent
      /\ job[a].state = Absent
      /\ ~Paid(a)
  BY <1>0 DEF IInv, RecordDecision, DecisionInsertable, ReviewAgrees, RowsAgree, PaymentAgrees, Absent
<1>2. /\ \A b \in Actions \ {a} : request'[b] = request[b] /\ job'[b] = job[b]
      /\ request'[a] = [request[a] EXCEPT !.state = s]
      /\ job'[a].state \in {Absent, "QUEUED"}
      /\ job'[a].state = "QUEUED" => s = "APPROVED"
      /\ UNCHANGED <<execution, worker, applied, effects>>
  BY <1>0, <1>1 DEF IInv, TypeOK, RecordDecision, Enqueue, NoJob, Absent
<1>3. /\ request'[a].state = s
      /\ request'[a].hash = request[a].hash /\ request'[a].payload = request[a].payload
  BY <1>1, <1>2 DEF IInv, TypeOK, RequestRow
<1>4. OpenAgrees(a)'
  BY <1>1, <1>2, <1>3 DEF OneInv, OpenAgrees, Paid, KeyFor, Absent
<1>5. \A b \in Actions \ {a} : OpenAgrees(b)'
  BY <1>2 DEF OneInv, OpenAgrees, Paid, KeyFor
<1>6. ASSUME NEW w \in Workers PROVE CopyAgrees(w)'
  <2>1. worker[w].step # "idle" => worker[w].action \in Actions \ {a}
    BY <1>1, HeldClaim DEF Absent
  <2> QED
    BY <1>2, <2>1 DEF OneInv, CopyAgrees, Paid, KeyOf
<1>7. FailureIsReal'
  BY <1>1, <1>2, FailureMeans, FailureMeansNext DEF OneInv, Paid
<1> QED
  BY <1>4, <1>5, <1>6, <1>7

LEMMA OneClaims ==
  ASSUME IInv, OneInv, NEW w \in Workers, NEW a \in Actions, Claim(w, a)
  PROVE  /\ \A b \in Actions : OpenAgrees(b)'
         /\ CopyAgrees(w)'
         /\ FailureIsReal'
<1>1. job[a].state \in {"QUEUED", "EXECUTING"} /\ request[a].state \in {"APPROVED", "EXECUTING"}
  BY DEF Claim, Claimable, OneInv, OpenAgrees
<1>2. /\ \A b \in Actions \ {a} : job'[b] = job[b]
      /\ job'[a].state = "EXECUTING"
      /\ UNCHANGED <<request, execution, applied, effects>>
  BY DEF Claim, IInv, TypeOK
<1>3. /\ worker'[w].step = "verify" /\ worker'[w].action = a
      /\ worker'[w].seen = request[a].state
      /\ worker'[w].payload = request[a].payload /\ worker'[w].hash = request[a].hash
  BY DEF Claim, IInv, TypeOK
<1>4. \A b \in Actions : OpenAgrees(b)'
  BY <1>1, <1>2 DEF OneInv, OpenAgrees, Paid, KeyFor
<1>5. CopyAgrees(w)'
  BY <1>1, <1>2, <1>3 DEF OneInv, OpenAgrees, CopyAgrees, Absent
<1>6. FailureIsReal'
  BY <1>1, <1>2, FailureMeans, FailureMeansNext DEF OneInv, Paid
<1> QED
  BY <1>4, <1>5, <1>6

(* What a worker that holds a claim can rely on.                           *)
LEMMA OneHolds ==
  ASSUME IInv, OneInv, NEW w \in Workers, worker[w].step # "idle"
  PROVE  LET a == worker[w].action
         IN /\ a \in Actions
            /\ request[a].hash \in Hashes
            /\ KeyOf(w) = IdempotencyKey(a, request[a].hash)
            /\ KeyOf(w) \in Keys
            /\ job[a].state = "EXECUTING"
            /\ request[a].state \in {"APPROVED", "EXECUTING"}
            /\ CopyAgrees(w)
BY HeldClaim DEF OneInv, OpenAgrees, CopyAgrees, KeyFor

(* Every check of verify passes: there is nothing to refuse.               *)
LEMMA OneVerifies ==
  ASSUME IInv, OneInv, NEW w \in Workers, Verify(w)
  PROVE  CopyAgrees(w)'
<1>1. worker[w].step = "verify"
  BY DEF Verify
<1>2. MayExecute(w)
  BY <1>1, HeldClaim, OneHolds
     DEF MayExecute, CopyAgrees, OneInv, NothingFromOutside, IInv, RowsAgree, Absent
<1>3. worker' = [worker EXCEPT ![w].step = "reserve"]
  BY <1>2 DEF Verify
<1>4. worker'[w].step = "reserve" /\ worker'[w].action = worker[w].action
      /\ worker'[w].seen = worker[w].seen /\ worker'[w].payload = worker[w].payload
      /\ worker'[w].hash = worker[w].hash
  BY <1>3 DEF IInv, TypeOK, WorkerState
<1>5. UNCHANGED <<job, effects>>
  BY DEF Verify, dbVars
<1> QED
  BY <1>1, <1>4, <1>5, OneHolds DEF CopyAgrees

LEMMA OneReserves ==
  ASSUME IInv, OneInv, NEW w \in Workers, Reserve(w)
  PROVE  /\ \A b \in Actions : OpenAgrees(b)'
         /\ CopyAgrees(w)'
         /\ FailureIsReal'
<1> DEFINE a == worker[w].action
<1>1. /\ worker[w].step = "reserve"
      /\ UNCHANGED <<request, job, applied, effects>>
  BY DEF Reserve
<1>2. /\ a \in Actions /\ request[a].state \in {"APPROVED", "EXECUTING"}
      /\ KeyOf(w) = IdempotencyKey(a, request[a].hash) /\ KeyOf(w) \in Keys
      /\ request[a].hash \in Hashes
  BY <1>1, OneHolds
<1>3. /\ \A k \in Keys \ {KeyOf(w)} : execution'[k] = execution[k]
      /\ execution'[KeyOf(w)] \in {"ambiguous", execution[KeyOf(w)]}
      /\ worker'[w].step \in {"call", "lookup"}
      /\ worker'[w].step = "call" => execution'[KeyOf(w)] = "ambiguous"
      /\ worker'[w].action = a /\ worker'[w].seen = worker[w].seen
      /\ worker'[w].payload = worker[w].payload /\ worker'[w].hash = worker[w].hash
  BY <1>2 DEF Reserve, IInv, TypeOK, WorkerState
<1> HIDE DEF a
<1>4. \A b \in Actions, h \in Hashes :
        \/ b = a /\ h = request[a].hash
        \/ execution'[IdempotencyKey(b, h)] = execution[IdempotencyKey(b, h)]
  BY <1>2, <1>3, HashesAndKeys
<1>5. ASSUME NEW b \in Actions PROVE OpenAgrees(b)'
  BY <1>1, <1>2, <1>4 DEF OneInv, OpenAgrees, Paid, KeyFor, Absent
<1>6. CopyAgrees(w)'
  <2>1. KeyOf(w)' = KeyOf(w)
    BY <1>3 DEF KeyOf, a
  <2>2. CopyAgrees(w) /\ job[a].state = "EXECUTING"
    BY <1>1, OneHolds DEF a
  <2> QED
    BY <1>1, <1>3, <2>1, <2>2 DEF CopyAgrees
<1>7. FailureIsReal'
  <2>1. ASSUME NEW b \in Actions, NEW h \in Hashes, execution'[IdempotencyKey(b, h)] = "failed"
        PROVE  execution[IdempotencyKey(b, h)] = "failed"
    BY <1>2, <1>3, <1>4, <2>1
  <2> QED
    BY <1>1, <2>1, FailureMeans, FailureMeansNext DEF OneInv, Paid
<1> QED
  BY <1>5, <1>6, <1>7

(* The provider pays or answers: the row of the key says ambiguous, so no  *)
(* failure is written down for what is paid now.                           *)
LEMMA OnePays ==
  ASSUME IInv, OneInv, NEW w \in Workers, CallSucceeds(w) \/ CallTimesOut(w)
  PROVE  /\ \A b \in Actions : OpenAgrees(b)'
         /\ CopyAgrees(w)'
         /\ FailureIsReal'
<1>0. PICK a : a = worker[w].action
  OBVIOUS
<1>1. /\ worker[w].step = "call"
      /\ UNCHANGED <<request, job, execution>>
      /\ Pays(w) \/ UNCHANGED <<applied, effects>>
  BY DEF CallSucceeds, CallTimesOut, dbVars
<1>2. /\ a \in Actions /\ request[a].hash \in Hashes
      /\ KeyOf(w) = IdempotencyKey(a, request[a].hash)
      /\ job[a].state = "EXECUTING" /\ request[a].state \in {"APPROVED", "EXECUTING"}
      /\ CopyAgrees(w)
  BY <1>0, <1>1, OneHolds
<1>3. /\ worker'[w].step \in {"record", "lookup"}
      /\ worker'[w].step = "record" => worker'[w].outcome = "succeeded"
      /\ worker'[w].action = a /\ worker'[w].seen = worker[w].seen
      /\ worker'[w].payload = worker[w].payload /\ worker'[w].hash = worker[w].hash
  <2>1. CASE CallSucceeds(w)
    BY <1>0, <2>1 DEF IInv, TypeOK, CallSucceeds, Answers, WorkerState
  <2>2. CASE CallTimesOut(w)
    BY <1>0, <2>2 DEF IInv, TypeOK, CallTimesOut, WorkerState
  <2> QED
    BY <2>1, <2>2
<1>4. /\ \A b \in Actions \ {a} : effects'[b] = effects[b]
      /\ \A v \in Workers : applied[v] \subseteq applied'[v]
      /\ effects'[a] = effects[a] \/ KeyOf(w) \in applied'[w]
  <2>1. CASE Pays(w)
    <3>1. /\ applied' = [applied EXCEPT ![w] = @ \cup {KeyOf(w)}]
          /\ effects' = [effects EXCEPT ![a] = Append(@, worker[w].payload)]
      BY <1>0, <2>1 DEF Pays
    <3>2. \A b \in Actions \ {a} : effects'[b] = effects[b]
      BY <1>2, <3>1 DEF IInv, TypeOK
    <3>3. \A v \in Workers : applied[v] \subseteq applied'[v]
      BY <3>1 DEF IInv, TypeOK
    <3>4. KeyOf(w) \in applied'[w]
      BY <3>1 DEF IInv, TypeOK
    <3> QED
      BY <3>2, <3>3, <3>4
  <2>2. CASE UNCHANGED <<applied, effects>>
    BY <2>2
  <2> QED
    BY <1>1, <2>1, <2>2
<1>5. ASSUME NEW b \in Actions PROVE OpenAgrees(b)'
  <2>1. OpenAgrees(b) /\ KeyFor(b)' = KeyFor(b)
    BY <1>1 DEF OneInv, KeyFor
  <2>2. Paid(b)' => Paid(b) \/ (b = a /\ KeyFor(b) \in applied'[w])
    BY <1>2, <1>4 DEF Paid, KeyFor
  <2> QED
    BY <1>1, <1>4, <2>1, <2>2 DEF OpenAgrees
<1>6. CopyAgrees(w)'
  BY <1>0, <1>1, <1>2, <1>3 DEF CopyAgrees
<1>7. FailureIsReal'
  <2>1. \A h \in Hashes : execution[IdempotencyKey(a, h)] # "failed"
    BY <1>0, <1>1, <1>2 DEF OneInv, OpenAgrees, CopyAgrees, Absent
  <2> QED
    BY <1>1, <1>2, <1>4, <2>1, FailureMeans, FailureMeansNext DEF OneInv, Paid
<1> QED
  BY <1>5, <1>6, <1>7

(* A refusal of the provider, or a lookup that finds nothing: the provider *)
(* forgets nothing, so nothing was paid under the key.                     *)
LEMMA OneAnswers ==
  ASSUME OneWorkerAlone, IInv, OneInv, NEW w \in Workers, CallFails(w) \/ Lookup(w)
  PROVE  CopyAgrees(w)'
<1>1. PICK o \in {"succeeded", "failed"} :
        Answers(w, o) /\ (o = "failed" => KeyOf(w) \notin ProviderKnows(w))
  BY DEF CallFails, Lookup, Found
<1>2. worker[w].step # "idle" /\ UNCHANGED <<job, effects>>
  BY DEF CallFails, Lookup, dbVars
<1>3. o = "failed" => ~Paid(worker[w].action)
  BY <1>1, <1>2, OneHolds DEF OneWorkerAlone, OneInv, OpenAgrees, ProviderKnows, KeyFor
<1>4. /\ worker'[w].step = "record" /\ worker'[w].outcome = o
      /\ worker'[w].action = worker[w].action /\ worker'[w].seen = worker[w].seen
      /\ worker'[w].payload = worker[w].payload /\ worker'[w].hash = worker[w].hash
  BY <1>1 DEF Answers, IInv, TypeOK, WorkerState
<1> QED
  BY <1>2, <1>3, <1>4, OneHolds DEF CopyAgrees, Paid

LEMMA OneRecords ==
  ASSUME IInv, OneInv, NEW w \in Workers, RecordOutcome(w)
  PROVE  /\ \A b \in Actions : OpenAgrees(b)'
         /\ CopyAgrees(w)'
         /\ FailureIsReal'
<1>0. PICK a, o : a = worker[w].action /\ o = worker[w].outcome
  OBVIOUS
<1>1. /\ worker[w].step = "record"
      /\ UNCHANGED <<applied, effects>>
      /\ execution' = [execution EXCEPT ![KeyOf(w)] = o]
  BY <1>0 DEF RecordOutcome
<1>2. /\ a \in Actions /\ request[a].hash \in Hashes
      /\ KeyOf(w) = IdempotencyKey(a, request[a].hash) /\ KeyOf(w) \in Keys
      /\ request[a].state \in {"APPROVED", "EXECUTING"}
      /\ o \in {"succeeded", "failed"}
      /\ o = "failed" => ~Paid(a)
  BY <1>0, <1>1, OneHolds DEF CopyAgrees, IInv, WorkerAgrees
<1>3. PICK js, rs : /\ FinishJob(a, js) /\ WorkerSetsState(a, rs)
                    /\ <<js, rs>> \in {<<"SUCCEEDED", "SUCCEEDED">>, <<"QUEUED", "EXECUTING">>,
                                       <<"FAILED", "FAILED">>}
                    /\ o = "succeeded" => js = "SUCCEEDED"
  BY <1>0, <1>2 DEF RecordOutcome
<1>4. /\ \A b \in Actions \ {a} : job'[b] = job[b]
      /\ job'[a].state = js
  BY <1>2, <1>3 DEF FinishJob, IInv, TypeOK
<1>5. /\ \A b \in Actions \ {a} : request'[b] = request[b]
      /\ request'[a].state = rs
      /\ request'[a].hash = request[a].hash /\ request'[a].payload = request[a].payload
  BY <1>2, <1>3 DEF WorkerSetsState, IInv, TypeOK, RequestRow
<1>6. \A b \in Actions, h \in Hashes :
        \/ b = a /\ h = request[a].hash
        \/ execution'[IdempotencyKey(b, h)] = execution[IdempotencyKey(b, h)]
  BY <1>1, <1>2, HashesAndKeys DEF IInv, TypeOK
<1>7. ASSUME NEW b \in Actions PROVE OpenAgrees(b)'
  <2>1. CASE b = a
    BY <1>1, <1>2, <1>3, <1>4, <1>5, <1>6, <2>1 DEF OneInv, OpenAgrees, Paid, KeyFor, Absent
  <2>2. CASE b # a
    BY <1>1, <1>4, <1>5, <1>6, <2>2 DEF OneInv, OpenAgrees, Paid, KeyFor
  <2> QED
    BY <2>1, <2>2
<1>8. CopyAgrees(w)'
  BY DEF RecordOutcome, IInv, TypeOK, CopyAgrees, IdleWorker
<1>9. FailureIsReal'
  <2>1. ASSUME Paid(a)
        PROVE  /\ request'[a].state # "FAILED" /\ job'[a].state # "FAILED"
               /\ \A h \in Hashes : execution'[IdempotencyKey(a, h)] # "failed"
    <3>1. o = "succeeded" /\ js = "SUCCEEDED" /\ rs = "SUCCEEDED"
      BY <1>2, <1>3, <2>1
    <3>2. execution'[KeyOf(w)] = "succeeded"
      BY <1>1, <1>2, <3>1 DEF IInv, TypeOK
    <3> QED
      BY <1>2, <1>4, <1>5, <1>6, <2>1, <3>1, <3>2, FailureMeans DEF OneInv
  <2>2. \A b \in Actions : Paid(b)' <=> Paid(b)
    BY <1>1 DEF Paid
  <2>3. ASSUME NEW b \in Actions \ {a}, Paid(b)
        PROVE  /\ request'[b].state # "FAILED" /\ job'[b].state # "FAILED"
               /\ \A h \in Hashes : execution'[IdempotencyKey(b, h)] # "failed"
    BY <1>4, <1>5, <1>6, <2>3, FailureMeans DEF OneInv
  <2> QED
    BY <2>1, <2>2, <2>3, FailureMeansNext
<1> QED
  BY <1>7, <1>8, <1>9

LEMMA OneCrashes ==
  ASSUME OneWorkerAlone, IInv, NEW w \in Workers, Crash(w)
  PROVE  CopyAgrees(w)' /\ UNCHANGED <<request, job, execution, applied, effects>>
BY DEF OneWorkerAlone, Crash, dbVars, IInv, TypeOK, CopyAgrees, IdleWorker

-----------------------------------------------------------------------------
(* OneInv is inductive for one worker alone.                               *)
LEMMA NextOneInv == OneWorkerAlone /\ IInv /\ OneInv /\ [Next]_vars => OneInv'
<1> SUFFICES ASSUME OneWorkerAlone, IInv, OneInv, [Next]_vars PROVE OneInv'
  OBVIOUS
<1> DEFINE Goal == /\ \A b \in Actions : OpenAgrees(b)'
                   /\ \A w \in Workers : CopyAgrees(w)'
                   /\ FailureIsReal'
<1>1. /\ NothingFromOutside'
      /\ \A w \in Workers : ~StepRaises(w)
      /\ \A a \in Actions : ~ApprovalExpires(a) /\ \A p \in Payloads : ~TamperPayload(a, p)
  BY NothingStrikes DEF OneInv
<1>2. \A v, w \in Workers : v = w
  BY DEF OneWorkerAlone
<1>3. ASSUME NEW u \in Users, NEW a \in Actions, NEW p \in Payloads, Propose(u, a, p) PROVE Goal
  BY <1>3, OneProposes
<1>4. ASSUME NEW u \in Users, RecordDecision(u) PROVE Goal
  BY <1>4, OneDecides
<1>5. ASSUME NEW w \in Workers, NEW a \in Actions, Claim(w, a) PROVE Goal
  BY <1>2, <1>5, OneClaims
<1>6. ASSUME NEW w \in Workers, WorkerStepOf(w) PROVE Goal
  <2>1. CASE Verify(w)
    BY <1>2, <2>1, OneVerifies, SameRows DEF Verify, dbVars
  <2>2. CASE Reserve(w)
    BY <1>2, <2>2, OneReserves
  <2>3. CASE CallSucceeds(w) \/ CallTimesOut(w)
    BY <1>2, <2>3, OnePays
  <2>4. CASE CallFails(w) \/ Lookup(w)
    BY <1>2, <2>4, OneAnswers, SameRows DEF CallFails, Lookup, dbVars
  <2>5. CASE RecordOutcome(w)
    BY <1>2, <2>5, OneRecords
  <2>6. ~Refuse(w)
    BY DEF Refuse, OneInv, CopyAgrees
  <2> QED
    BY <1>6, <2>1, <2>2, <2>3, <2>4, <2>5, <2>6 DEF WorkerStepOf
<1>7. ASSUME NEW w \in Workers, Crash(w) PROVE Goal
  BY <1>2, <1>7, OneCrashes, SameRows
<1>8. ASSUME NEW a \in Actions, LeaseExpires(a) \/ BackoffElapses(a) PROVE Goal
  <2>1. \A b \in Actions : job'[b].state = job[b].state
    <3>1. CASE LeaseExpires(a)
      BY <3>1 DEF LeaseExpires, IInv, TypeOK, JobRow
    <3>2. CASE BackoffElapses(a)
      BY <3>2 DEF BackoffElapses, IInv, TypeOK, JobRow
    <3> QED
      BY <1>8, <3>1, <3>2
  <2> QED
    BY <1>8, <2>1, SameRows DEF LeaseExpires, BackoffElapses
<1>9. ASSUME UNCHANGED <<request, job, execution, worker, applied, effects>> PROVE Goal
  BY <1>9, SameRows
<1>10. ASSUME NEW u \in Users,
              \/ \E a \in Actions : ViewApproval(u, a)
              \/ \E v \in {"approved", "rejected"} : AuthorizeDecision(u, v)
              \/ ReviewEnds(u)
       PROVE  Goal
  BY <1>9, <1>10 DEF ViewApproval, AuthorizeDecision, ReviewEnds, dbVars
<1> HIDE DEF Goal
<1>11. Goal
  BY <1>1, <1>3, <1>4, <1>5, <1>6, <1>7, <1>8, <1>9, <1>10 DEF Next, vars
<1> QED
  BY <1>1, <1>11 DEF OneInv, Goal

(* With one worker alone and a provider that remembers, a refund that was  *)
(* paid is never written down as failed: not in the request, not in the    *)
(* job, not in the execution row, however often the worker dies, the       *)
(* provider declines or times out, and leases expire.                      *)
THEOREM FailureHasNoPayment == OneWorkerAlone => (Spec => []FailureIsReal)
<1> SUFFICES ASSUME OneWorkerAlone PROVE Spec => []FailureIsReal
  OBVIOUS
<1>1. Init => OneInv
  BY InitOneInv
<1>2. IInv /\ OneInv /\ [Next]_vars => OneInv'
  BY NextOneInv
<1>3. OneInv => FailureIsReal
  BY DEF OneInv
<1> QED
  BY <1>1, <1>2, <1>3, Invariance, PTL DEF Spec
=============================================================================
