--------------------------- MODULE RefundLifecycle ---------------------------
(***************************************************************************)
(* A refund from proposal to provider call: the API (propose, decide), the *)
(* rows and row policies of the app schema, the worker processes that      *)
(* claim, verify, execute, reconcile and record, and the refund provider.  *)
(*                                                                         *)
(* One step is one database transaction or one provider call: those are    *)
(* the points at which another process, a crash or the clock can come      *)
(* between.  Time is abstract: "expired" and "lease" say what a comparison *)
(* with now() answers, and clock steps change them.                        *)
(***************************************************************************)
EXTENDS Naturals, Sequences, FiniteSets, ActionStates

CONSTANTS
  Actions,          \* identifiers of action requests
  Users,            \* members of the tenant
  Requesters,       \* holders of support_agent or support_manager
  Approvers,        \* holders of finance_approver
  Payloads,         \* frozen payloads: order, amount, currency, reason
  Workers,          \* worker processes
  MaxAttempts,      \* the column action_jobs.max_attempts
  InMemoryProvider, \* TRUE: FakeRefundAdapter, one dictionary per process
                    \* FALSE: a provider that all workers share and that survives them
  MaxFaults,        \* how often each kind of fault may strike
  None              \* SQL NULL

FaultKind == {"crash", "error", "decline", "timeout", "tamper", "expire"}

ASSUME ConstantsAssumption ==
  /\ Requesters \subseteq Users
  /\ Approvers \subseteq Users
  /\ MaxAttempts \in Nat
  /\ InMemoryProvider \in BOOLEAN
  /\ MaxFaults \in [FaultKind -> Nat]
  /\ None \notin Users \cup Payloads \cup Actions \cup Workers

VARIABLES
  request,    \* app.action_requests, one row per action
  decision,   \* app.approval_decisions, at most one row per action
  job,        \* app.action_jobs, at most one row per action
  execution,  \* app.action_executions, one row per idempotency key
  audit,      \* app.audit_events about each action
  expired,    \* the actions whose expires_at has passed
  review,     \* what each approver has on screen or in flight in the API
  worker,     \* each worker process and the ClaimedJob it holds
  applied,    \* the keys each worker's adapter knows as applied
  effects,    \* the payloads the provider really paid out, per action
  faults      \* how many faults of each kind may still strike

dbVars == <<request, decision, job, execution, audit>>
vars   == <<request, decision, job, execution, audit, expired, review, worker,
            applied, effects, faults>>

Hashes == {PayloadHash(p) : p \in Payloads}
Keys   == {IdempotencyKey(a, h) : a \in Actions, h \in Hashes}

JobState   == {"QUEUED", "EXECUTING", "SUCCEEDED", "FAILED"}
Outcome    == {"succeeded", "failed", "ambiguous"}
AuditEvent == {"propose", "approve", "reject", "succeeded", "failed"}
WorkerStep == {"idle", "verify", "reserve", "call", "lookup", "record", "refuse"}

RequestRow  == [state : ActionState \cup {Absent}, requester : Users \cup {None},
                payload : Payloads \cup {None}, hash : Hashes \cup {None}]
DecisionRow == [verdict : {Absent, "approved", "rejected"},
                approver : Users \cup {None}, hash : Hashes \cup {None}]
JobRow      == [state : JobState \cup {Absent}, attempts : Nat,
                owner : Workers \cup {None}, lease : {"none", "held", "expired"},
                available : BOOLEAN]
ReviewState == [step : {"idle", "viewed", "decide"}, action : Actions \cup {None},
                verdict : {"approved", "rejected", None}, hash : Hashes \cup {None}]
WorkerState == [step : WorkerStep, action : Actions \cup {None},
                seen : ActionState \cup {None}, payload : Payloads \cup {None},
                hash : Hashes \cup {None}, attempts : Nat,
                outcome : Outcome \cup {None}]

NoRequest  == [state |-> Absent, requester |-> None, payload |-> None, hash |-> None]
NoDecision == [verdict |-> Absent, approver |-> None, hash |-> None]
NoJob      == [state |-> Absent, attempts |-> 0, owner |-> None,
               lease |-> "none", available |-> FALSE]
NoReview   == [step |-> "idle", action |-> None, verdict |-> None, hash |-> None]
IdleWorker == [step |-> "idle", action |-> None, seen |-> None, payload |-> None,
               hash |-> None, attempts |-> 0, outcome |-> None]

Init ==
  /\ request = [a \in Actions |-> NoRequest]
  /\ decision = [a \in Actions |-> NoDecision]
  /\ job = [a \in Actions |-> NoJob]
  /\ execution = [k \in Keys |-> Absent]
  /\ audit = [a \in Actions |-> {}]
  /\ expired = {}
  /\ review = [u \in Users |-> NoReview]
  /\ worker = [w \in Workers |-> IdleWorker]
  /\ applied = [w \in Workers |-> {}]
  /\ effects = [a \in Actions |-> << >>]
  /\ faults = MaxFaults

Strikes(kind) ==
  /\ faults[kind] > 0
  /\ faults' = [faults EXCEPT ![kind] = @ - 1]

-----------------------------------------------------------------------------
(***************************************************************************)
(* The API.                                                                *)
(***************************************************************************)

(* propose_refund: the row is inserted as PROPOSED, moved to               *)
(* PENDING_APPROVAL and audited in one transaction, so no other process    *)
(* ever sees the state PROPOSED.                                           *)
Propose(u, a, p) ==
  /\ u \in Requesters
  /\ request[a].state = Absent
  /\ request' = [request EXCEPT ![a] = [state |-> "PENDING_APPROVAL", requester |-> u,
                                        payload |-> p, hash |-> PayloadHash(p)]]
  /\ audit' = [audit EXCEPT ![a] = @ \cup {"propose"}]
  /\ UNCHANGED <<decision, job, execution, expired, review, worker, applied, effects, faults>>

(* What the bundle answers to refund.approve.                              *)
PolicyAllowsApproval(u, a) ==
  /\ u # request[a].requester
  /\ u \in Approvers
  /\ a \notin expired

(* The portal's review: a page whose forms send the shown hash back.       *)
Page(a) == [step |-> "viewed", action |-> a, verdict |-> None, hash |-> request[a].hash]

(* get_approval: the row is read and shown, its payload in canonical form  *)
(* beside the stored hash.                                                 *)
ViewApproval(u, a) ==
  /\ review[u].step = "idle"
  /\ request[a].state = "PENDING_APPROVAL"
  /\ PolicyAllowsApproval(u, a)
  /\ review' = [review EXCEPT ![u] = Page(a)]
  /\ UNCHANGED <<dbVars, expired, worker, applied, effects, faults>>

(* post_decision up to the call of decide: the row is read again, the      *)
(* policy asked again, the shown hash and the state compared with the row. *)
DecisionAuthorized(u) ==
  LET a == review[u].action
  IN /\ PolicyAllowsApproval(u, a)
     /\ review[u].hash = request[a].hash
     /\ request[a].state = "PENDING_APPROVAL"

AuthorizeDecision(u, verdict) ==
  /\ review[u].step = "viewed"
  /\ DecisionAuthorized(u)
  /\ review' = [review EXCEPT ![u] = [@ EXCEPT !.step = "decide", !.verdict = verdict]]
  /\ UNCHANGED <<dbVars, expired, worker, applied, effects, faults>>

(* Mutant: neither the unique constraint nor the row policy is there.      *)
DecisionInsertableBlind(u, a) == request[a].requester # u

(* What the table lets decide insert: the unique constraint, the           *)
(* separation-of-duty trigger, and the row policy, in the order in which   *)
(* PostgreSQL can refuse the row.                                          *)
DecisionInsertable(u, a) ==
  /\ decision[a].verdict = Absent
  /\ request[a].requester # u
  /\ u \in Approvers
  /\ request[a].state = "PENDING_APPROVAL"
  /\ a \notin expired

(* _ENQUEUE: one job per action, ON CONFLICT DO NOTHING.                   *)
Enqueue(a, approved) ==
  job' = IF approved /\ job[a].state = Absent
           THEN [job EXCEPT ![a] = [NoJob EXCEPT !.state = "QUEUED", !.available = TRUE]]
           ELSE job

(* ActionRepository.decide: the decision, the move of the request, the     *)
(* queue entry of an approval and the audit event commit together.         *)
RecordDecision(u) ==
  LET a == review[u].action
      approved == review[u].verdict = "approved"
  IN /\ review[u].step = "decide"
     /\ DecisionInsertable(u, a)
     /\ decision' = [decision EXCEPT ![a] = [verdict |-> review[u].verdict,
                                             approver |-> u, hash |-> review[u].hash]]
     /\ request' = [request EXCEPT ![a].state = IF approved THEN "APPROVED" ELSE "REJECTED"]
     /\ Enqueue(a, approved)
     /\ audit' = [audit EXCEPT ![a] = @ \cup {IF approved THEN "approve" ELSE "reject"}]
     /\ review' = [review EXCEPT ![u] = NoReview]
     /\ UNCHANGED <<execution, expired, worker, applied, effects, faults>>

(* A refusal of the check or of the transaction answers 403, 409, 422 or   *)
(* 503 and leaves nothing behind; an approver may also close the page.     *)
ReviewEnds(u) ==
  /\ \/ review[u].step = "viewed"
     \/ review[u].step = "decide" /\ ~DecisionInsertable(u, review[u].action)
  /\ review' = [review EXCEPT ![u] = NoReview]
  /\ UNCHANGED <<dbVars, expired, worker, applied, effects, faults>>

-----------------------------------------------------------------------------
(***************************************************************************)
(* The worker.                                                             *)
(***************************************************************************)

(* Mutant: a claim takes queued jobs only.                                 *)
ClaimableQueued(a) ==
  /\ job[a].state = "QUEUED" /\ job[a].available
  /\ job[a].attempts < MaxAttempts

Claimable(a) ==
  /\ \/ job[a].state = "QUEUED" /\ job[a].available
     \/ job[a].state = "EXECUTING" /\ job[a].lease = "expired"
  /\ job[a].attempts < MaxAttempts

(* _CLAIM and _LOAD_ACTION, one transaction.  The row lock and SKIP LOCKED *)
(* make the choice of the row and its update one step.                     *)
Claim(w, a) ==
  /\ worker[w].step = "idle"
  /\ Claimable(a)
  /\ job' = [job EXCEPT ![a] = [state |-> "EXECUTING", attempts |-> @.attempts + 1, owner |-> w,
                                 lease |-> "held", available |-> @.available]]
  /\ worker' = [worker EXCEPT ![w] =
       [step |-> "verify", action |-> a, seen |-> request[a].state,
        payload |-> request[a].payload, hash |-> request[a].hash,
        attempts |-> job[a].attempts + 1, outcome |-> None]]
  /\ UNCHANGED <<request, decision, execution, audit, expired, review, applied, effects, faults>>

(* Mutant: the payload is not hashed again.                                *)
MayExecuteUnhashed(w) ==
  LET a == worker[w].action
  IN /\ decision[a].verdict = "approved"
     /\ a \notin expired
     /\ decision[a].hash = worker[w].hash

(* The checks of JobProcessor.verify, on the row as claimed and the        *)
(* decision as it is now.                                                  *)
MayExecute(w) ==
  LET a == worker[w].action
  IN /\ worker[w].seen \in {"APPROVED", "QUEUED", "EXECUTING"}
     /\ decision[a].verdict = "approved"
     /\ decision[a].approver # request[a].requester
     /\ a \notin expired
     /\ PayloadHash(worker[w].payload) = worker[w].hash
     /\ decision[a].hash = worker[w].hash

Verify(w) ==
  /\ worker[w].step = "verify"
  /\ worker' = [worker EXCEPT ![w].step = IF MayExecute(w) THEN "reserve" ELSE "refuse"]
  /\ UNCHANGED <<dbVars, expired, review, applied, effects, faults>>

KeyOf(w) == IdempotencyKey(worker[w].action, worker[w].hash)

(* Mutant: no unique constraint on the key.                                *)
KeyIsAlwaysFree(w) == TRUE

KeyIsFree(w) == execution[KeyOf(w)] = Absent

(* _RESERVE_IDEMPOTENCY: the unique constraint lets one worker through and *)
(* sends every other one to reconciliation.                                *)
Reserve(w) ==
  /\ worker[w].step = "reserve"
  /\ \/ /\ KeyIsFree(w)
        /\ execution' = [execution EXCEPT ![KeyOf(w)] = "ambiguous"]
        /\ worker' = [worker EXCEPT ![w].step = "call"]
     \/ /\ ~KeyIsFree(w)
        /\ worker' = [worker EXCEPT ![w].step = "lookup"]
        /\ UNCHANGED execution
  /\ UNCHANGED <<request, decision, job, audit, expired, review, applied, effects, faults>>

(* What the adapter of w can find: its own dictionary, or the one provider *)
(* behind every worker.                                                    *)
ProviderKnows(w) ==
  IF InMemoryProvider THEN applied[w] ELSE UNION {applied[v] : v \in Workers}

Pays(w) ==
  /\ applied' = [applied EXCEPT ![w] = @ \cup {KeyOf(w)}]
  /\ effects' = [effects EXCEPT ![worker[w].action] = Append(@, worker[w].payload)]

Answers(w, outcome) ==
  worker' = [worker EXCEPT ![w] = [@ EXCEPT !.step = "record", !.outcome = outcome]]

(* adapter.execute: a key already applied replays its result and applies   *)
(* nothing new.                                                            *)
CallSucceeds(w) ==
  /\ worker[w].step = "call"
  /\ IF KeyOf(w) \in ProviderKnows(w) THEN UNCHANGED <<applied, effects>> ELSE Pays(w)
  /\ Answers(w, "succeeded")
  /\ UNCHANGED <<dbVars, expired, review, faults>>

CallFails(w) ==
  /\ worker[w].step = "call"
  /\ KeyOf(w) \notin ProviderKnows(w)
  /\ Strikes("decline")
  /\ Answers(w, "failed")
  /\ UNCHANGED <<dbVars, expired, review, applied, effects>>

(* A timeout.  The fake adapter always applies the effect first; a real    *)
(* provider may or may not have.                                           *)
CallTimesOut(w) ==
  /\ worker[w].step = "call"
  /\ KeyOf(w) \notin ProviderKnows(w)
  /\ Strikes("timeout")
  /\ \/ Pays(w)
     \/ ~InMemoryProvider /\ UNCHANGED <<applied, effects>>
  /\ worker' = [worker EXCEPT ![w].step = "lookup"]
  /\ UNCHANGED <<dbVars, expired, review>>

(* Mutants: no record taken for a success; the provider not asked at all.  *)
FoundAlways(w) == "succeeded"
FoundNever(w)  == "failed"

(* _reconcile: adapter.lookup, and no record is taken for a failure.       *)
Found(w) == IF KeyOf(w) \in ProviderKnows(w) THEN "succeeded" ELSE "failed"

Lookup(w) ==
  /\ worker[w].step = "lookup"
  /\ Answers(w, Found(w))
  /\ UNCHANGED <<dbVars, expired, review, applied, effects, faults>>

(* Mutant: no row policy.                                                  *)
WorkerSetsAnyState(a, state) == request' = [request EXCEPT ![a].state = state]

(* The row policy action_requests_worker_update: an UPDATE of a row in any *)
(* other state silently changes nothing.                                   *)
WorkerSetsState(a, state) ==
  request' = [request EXCEPT ![a].state =
                IF @ \in {"APPROVED", "QUEUED", "EXECUTING"} THEN state ELSE @]

(* _FINISH_JOB, keyed by the job's id alone.                               *)
FinishJob(a, state) ==
  job' = [job EXCEPT ![a] = [state |-> state, attempts |-> @.attempts, owner |-> None,
                              lease |-> "none", available |-> state # "QUEUED" /\ @.available]]

(* _record_outcome: the execution, the job, the request and the audit      *)
(* event in one transaction.                                               *)
RecordOutcome(w) ==
  LET a == worker[w].action
      succeeded == worker[w].outcome = "succeeded"
      retryable == worker[w].outcome = "failed" /\ worker[w].attempts < 3
  IN /\ worker[w].step = "record"
     /\ execution' = [execution EXCEPT ![KeyOf(w)] = worker[w].outcome]
     /\ FinishJob(a, IF succeeded THEN "SUCCEEDED"
                     ELSE IF retryable THEN "QUEUED" ELSE "FAILED")
     /\ WorkerSetsState(a, IF succeeded THEN "SUCCEEDED"
                           ELSE IF retryable THEN "EXECUTING" ELSE "FAILED")
     /\ audit' = [audit EXCEPT ![a] = @ \cup {IF succeeded THEN "succeeded" ELSE "failed"}]
     /\ worker' = [worker EXCEPT ![w] = IdleWorker]
     /\ UNCHANGED <<decision, expired, review, applied, effects, faults>>

(* refuse: the job is closed without touching the provider or the          *)
(* execution row.                                                          *)
Refuse(w) ==
  LET a == worker[w].action
  IN /\ worker[w].step = "refuse"
     /\ FinishJob(a, "FAILED")
     /\ WorkerSetsState(a, "FAILED")
     /\ audit' = [audit EXCEPT ![a] = @ \cup {"failed"}]
     /\ worker' = [worker EXCEPT ![w] = IdleWorker]
     /\ UNCHANGED <<decision, execution, expired, review, applied, effects, faults>>

(* An exception out of verify or execute: the open transaction is rolled   *)
(* back and run() refuses the job as verification_error or                 *)
(* execution_error.                                                        *)
StepRaises(w) ==
  /\ worker[w].step \in {"verify", "reserve", "call", "lookup", "record"}
  /\ Strikes("error")
  /\ worker' = [worker EXCEPT ![w].step = "refuse"]
  /\ UNCHANGED <<dbVars, expired, review, applied, effects>>

(* The process dies between two transactions and is started again.  What   *)
(* it held in memory is gone, the fake adapter's dictionary included.      *)
Crash(w) ==
  /\ \/ worker[w].step # "idle"
     \/ InMemoryProvider /\ applied[w] # {}
  /\ Strikes("crash")
  /\ worker' = [worker EXCEPT ![w] = IdleWorker]
  /\ applied' = IF InMemoryProvider THEN [applied EXCEPT ![w] = {}] ELSE applied
  /\ UNCHANGED <<dbVars, expired, review, effects>>

-----------------------------------------------------------------------------
(***************************************************************************)
(* The clock, and writes from outside the request path.                    *)
(***************************************************************************)

LeaseExpires(a) ==
  /\ job[a].lease = "held"
  /\ job' = [job EXCEPT ![a].lease = "expired"]
  /\ UNCHANGED <<request, decision, execution, audit, expired, review, worker,
                 applied, effects, faults>>

BackoffElapses(a) ==
  /\ job[a].state = "QUEUED"
  /\ ~job[a].available
  /\ job' = [job EXCEPT ![a].available = TRUE]
  /\ UNCHANGED <<request, decision, execution, audit, expired, review, worker,
                 applied, effects, faults>>

ApprovalExpires(a) ==
  /\ request[a].state # Absent
  /\ a \notin expired
  /\ Strikes("expire")
  /\ expired' = expired \cup {a}
  /\ UNCHANGED <<dbVars, review, worker, applied, effects>>

(* A write to the payload behind the application's back, as the Range's    *)
(* challenge 6.1 and the acceptance test TS8-06 make it, and its undoing.  *)
TamperPayload(a, p) ==
  /\ request[a].state # Absent
  /\ request[a].payload # p
  /\ Strikes("tamper")
  /\ request' = [request EXCEPT ![a].payload = p]
  /\ UNCHANGED <<decision, job, execution, audit, expired, review, worker, applied, effects>>

-----------------------------------------------------------------------------
WorkerStepOf(w) ==
  \/ Verify(w) \/ Reserve(w)
  \/ CallSucceeds(w) \/ CallFails(w) \/ CallTimesOut(w)
  \/ Lookup(w) \/ RecordOutcome(w) \/ Refuse(w)

Next ==
  \/ \E u \in Users, a \in Actions, p \in Payloads : Propose(u, a, p)
  \/ \E u \in Users, a \in Actions : ViewApproval(u, a)
  \/ \E u \in Users, v \in {"approved", "rejected"} : AuthorizeDecision(u, v)
  \/ \E u \in Users : RecordDecision(u)
  \/ \E u \in Users : ReviewEnds(u)
  \/ \E w \in Workers, a \in Actions : Claim(w, a)
  \/ \E w \in Workers : WorkerStepOf(w)
  \/ \E w \in Workers : StepRaises(w)
  \/ \E w \in Workers : Crash(w)
  \/ \E a \in Actions : LeaseExpires(a)
  \/ \E a \in Actions : BackoffElapses(a)
  \/ \E a \in Actions : ApprovalExpires(a)
  \/ \E a \in Actions, p \in Payloads : TamperPayload(a, p)

(* The worker's loop runs for as long as the process lives, and the clock  *)
(* moves.  Users, faults and writes from outside promise nothing.          *)
Fairness ==
  /\ \A w \in Workers : WF_vars(WorkerStepOf(w)) /\ WF_vars(\E a \in Actions : Claim(w, a))
  /\ \A a \in Actions : WF_vars(LeaseExpires(a)) /\ WF_vars(BackoffElapses(a))

Spec == Init /\ [][Next]_vars
FairSpec == Spec /\ Fairness

-----------------------------------------------------------------------------
(***************************************************************************)
(* Properties.                                                             *)
(***************************************************************************)

(* Every row, process and provider record has the shape its table or class *)
(* gives it.                                                               *)
TypeOK ==
  /\ request \in [Actions -> RequestRow]
  /\ decision \in [Actions -> DecisionRow]
  /\ job \in [Actions -> JobRow]
  /\ execution \in [Keys -> Outcome \cup {Absent}]
  /\ audit \in [Actions -> SUBSET AuditEvent]
  /\ expired \subseteq Actions
  /\ review \in [Users -> ReviewState]
  /\ worker \in [Workers -> WorkerState]
  /\ applied \in [Workers -> SUBSET Keys]
  /\ effects \in [Actions -> Seq(Payloads)]
  /\ faults \in [FaultKind -> Nat]

Paid(a) == effects[a] # << >>

(* A refund is paid at most once, whatever crashes, lease expiries,        *)
(* timeouts and retries do: the reservation in execute comes before the    *)
(* provider call, and its unique constraint admits one call per key.       *)
AtMostOneEffect == \A a \in Actions : Len(effects[a]) <= 1

(* The provider is never called with a key it has already applied: the     *)
(* worker does not lean on the provider's own idempotency.                 *)
NeverAsksTwice ==
  \A w \in Workers : worker[w].step = "call" => KeyOf(w) \notin ProviderKnows(w)

(* What was paid was approved by an approver other than the requester, and *)
(* is the payload whose hash that approval names.  The check is made in    *)
(* verify, on a copy of the row, several transactions before the payment.  *)
EffectWasApproved ==
  \A a \in Actions : \A i \in DOMAIN effects[a] :
    /\ decision[a].verdict = "approved"
    /\ decision[a].approver \in Approvers
    /\ decision[a].approver # request[a].requester
    /\ PayloadHash(effects[a][i]) = decision[a].hash

(* Nothing reports a success without a payment behind it: not the request, *)
(* not the job, not the execution row; and a successful execution is       *)
(* audited, as _record_outcome promises.                                   *)
SuccessIsReal ==
  \A a \in Actions :
    /\ request[a].state = "SUCCEEDED" \/ job[a].state = "SUCCEEDED" => Paid(a)
    /\ \A h \in Hashes :
         execution[IdempotencyKey(a, h)] = "succeeded" => Paid(a) /\ "succeeded" \in audit[a]

(* An approved action always has its queue entry and nothing else has one, *)
(* as decide promises for its single transaction.                          *)
ApprovedHasJob ==
  \A a \in Actions : job[a].state # Absent <=> decision[a].verdict = "approved"

(* One worker alone, with a provider that remembers: a refund that was     *)
(* paid is never written down as failed, because reconciliation asks the   *)
(* provider before deciding anything.                                      *)
FailureIsReal ==
  \A a \in Actions :
    Paid(a) => /\ request[a].state # "FAILED"
               /\ job[a].state # "FAILED"
               /\ "failed" \notin {execution[IdempotencyKey(a, h)] : h \in Hashes}

(* A verdict, once recorded, is never replaced, and a request that reached *)
(* a terminal state never leaves it, although workers that hold older      *)
(* copies of the row still write to it.                                    *)
VerdictsAreFinal ==
  [][\A a \in Actions :
       /\ decision[a] # NoDecision => decision'[a] = decision[a]
       /\ request[a].state \in TerminalStates => request'[a].state = request[a].state]_vars

Settled(a) == job[a].state \in {"SUCCEEDED", "FAILED"}

(* A job whose last attempt died with its worker: no claim takes it again. *)
Stranded(a) ==
  /\ job[a].state = "EXECUTING"
  /\ job[a].lease = "expired"
  /\ job[a].attempts = MaxAttempts

(* Every queued job is settled, unless its last attempt died with its      *)
(* worker.                                                                 *)
JobsSettleOrStrand ==
  \A a \in Actions : job[a].state = "QUEUED" ~> (Settled(a) \/ Stranded(a))

(* A payment is eventually reported as a success.                          *)
PaymentIsReported ==
  \A a \in Actions : Paid(a) ~> (request[a].state = "SUCCEEDED" \/ Stranded(a))

-----------------------------------------------------------------------------
(***************************************************************************)
(* What the whole flow promises (RefundPromise): the payload proposed, if  *)
(* another person approved it, is paid at most once.                       *)
(***************************************************************************)
Proposed(a) == CHOOSE p \in Payloads \cup {None} :
                 IF request[a].state = Absent THEN p = None
                                              ELSE PayloadHash(p) = request[a].hash

Promise == INSTANCE RefundPromise WITH
             proposal <- [a \in Actions |-> [requester |-> request[a].requester,
                                              payload   |-> Proposed(a)]],
             verdict  <- [a \in Actions |-> [answer   |-> decision[a].verdict,
                                              approver |-> decision[a].approver]],
             paid     <- effects

(* The API, the tables, the workers and the provider together keep the     *)
(* promise: every step is a step of RefundPromise or changes nothing it    *)
(* speaks of.                                                              *)
KeepsPromise == Promise!Spec
=============================================================================
