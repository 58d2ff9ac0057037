--------------------------- MODULE RefundInvariant ---------------------------
(***************************************************************************)
(* The inductive invariant behind the safety properties of                 *)
(* RefundLifecycle: what a row, a reviewer's page and a worker's copy of a *)
(* job say about each other between two transactions.                      *)
(***************************************************************************)
EXTENDS RefundLifecycle

KeyFor(a) == IdempotencyKey(a, request[a].hash)

(* A row that exists is complete, a decision names the hash of its request *)
(* and somebody else, and the queue follows the decision.                  *)
RowsAgree(a) ==
  /\ request[a].state = Absent => request[a] = NoRequest /\ decision[a] = NoDecision
  /\ request[a].state # Absent => request[a].requester \in Requesters /\ request[a].hash \in Hashes
  /\ decision[a].verdict = Absent => request[a].state \in {Absent, "PENDING_APPROVAL"}
                                       /\ decision[a] = NoDecision
  /\ decision[a].verdict # Absent =>
       /\ request[a].state \notin {Absent, "PENDING_APPROVAL"}
       /\ decision[a].approver \in Approvers \ {request[a].requester}
       /\ decision[a].hash = request[a].hash
  /\ job[a].state # Absent <=> decision[a].verdict = "approved"

(* A page under review is about a request, and carries its hash.           *)
ReviewAgrees(u) ==
  review[u].step # "idle" =>
    /\ review[u].action \in Actions
    /\ request[review[u].action].state # Absent
    /\ review[u].hash = request[review[u].action].hash
    /\ review[u].step = "decide" => review[u].verdict \in {"approved", "rejected"}

(* A claimed job is an approved one, and its copy carries the hash of the  *)
(* request.  Past verify the copied payload has that hash; past reserve    *)
(* the execution row is there; and the worker at the provider is alone     *)
(* there and first.                                                        *)
WorkerAgrees(w) ==
  worker[w].step # "idle" =>
    /\ worker[w].action \in Actions
    /\ decision[worker[w].action].verdict = "approved"
    /\ worker[w].hash = request[worker[w].action].hash
    /\ worker[w].step \in {"reserve", "call", "lookup", "record"} =>
         worker[w].payload \in Payloads /\ PayloadHash(worker[w].payload) = worker[w].hash
    /\ worker[w].step \in {"call", "lookup", "record"} => execution[KeyOf(w)] # Absent
    /\ worker[w].step = "call" => ~Paid(worker[w].action)
    /\ worker[w].step = "record" => worker[w].outcome \in {"succeeded", "failed"}
    /\ worker[w].step = "record" /\ worker[w].outcome = "succeeded" => Paid(worker[w].action)

AloneAtProvider(v, w) ==
  v # w /\ worker[v].step = "call" /\ worker[w].step = "call"
    => worker[v].action # worker[w].action

(* A payment was reserved, approved, and is the only one of its action.    *)
PaymentAgrees(a) ==
  Paid(a) => /\ Len(effects[a]) = 1
             /\ PayloadHash(effects[a][1]) = request[a].hash
             /\ decision[a].verdict = "approved"
             /\ execution[KeyFor(a)] # Absent

(* Whatever claims a success has a payment behind it.                      *)
SuccessesAgree ==
  /\ \A a \in Actions :
       /\ request[a].state = "SUCCEEDED" \/ job[a].state = "SUCCEEDED" => Paid(a)
       /\ \A h \in Hashes :
            /\ execution[IdempotencyKey(a, h)] = "succeeded" => Paid(a) /\ "succeeded" \in audit[a]
            /\ \A w \in Workers : IdempotencyKey(a, h) \in applied[w] => Paid(a)

(* Everything the safety properties rest on, true of every reachable state *)
(* and preserved by every step.                                            *)
IInv ==
  /\ TypeOK
  /\ \A a \in Actions : RowsAgree(a)
  /\ \A u \in Users : ReviewAgrees(u)
  /\ \A w \in Workers : WorkerAgrees(w)
  /\ \A v, w \in Workers : AloneAtProvider(v, w)
  /\ \A a \in Actions : PaymentAgrees(a)
  /\ SuccessesAgree

-----------------------------------------------------------------------------
(***************************************************************************)
(* One worker alone, with a provider that remembers: no second process     *)
(* writes with an older copy, nothing raises outside the provider call, no *)
(* row is written from outside and no approval lapses.  Crashes, declines, *)
(* timeouts and expired leases remain.                                     *)
(***************************************************************************)
OneWorkerAlone ==
  /\ \A v, w \in Workers : v = w
  /\ ~InMemoryProvider
  /\ MaxFaults["error"] = 0 /\ MaxFaults["tamper"] = 0 /\ MaxFaults["expire"] = 0

(* The excluded faults stay excluded.                                      *)
NothingFromOutside ==
  /\ expired = {}
  /\ faults["error"] = 0 /\ faults["tamper"] = 0 /\ faults["expire"] = 0

(* The row is the one that was proposed; it is open for as long as its job *)
(* is; only its own key is ever reserved; what was paid the provider knows.*)
OpenAgrees(a) ==
  /\ request[a].state # Absent =>
       request[a].payload \in Payloads /\ PayloadHash(request[a].payload) = request[a].hash
  /\ job[a].state \in {"QUEUED", "EXECUTING"} => request[a].state \in {"APPROVED", "EXECUTING"}
  /\ \A h \in Hashes : execution[IdempotencyKey(a, h)] # Absent =>
                         request[a].state # Absent /\ h = request[a].hash
  /\ Paid(a) => KeyFor(a) \in UNION {applied[v] : v \in Workers}

(* The worker's job is still its own, every check of verify will pass, its *)
(* call is not yet answered, and a failure it is about to record is one.   *)
CopyAgrees(w) ==
  worker[w].step # "idle" =>
    /\ worker[w].step # "refuse"
    /\ job[worker[w].action].state = "EXECUTING"
    /\ worker[w].seen \in {"APPROVED", "EXECUTING"}
    /\ PayloadHash(worker[w].payload) = worker[w].hash
    /\ worker[w].step = "call" => execution[KeyOf(w)] = "ambiguous"
    /\ worker[w].step = "record" /\ worker[w].outcome = "failed" => ~Paid(worker[w].action)

(* What FailureIsReal rests on, where OneWorkerAlone holds.                *)
OneInv ==
  /\ NothingFromOutside
  /\ \A a \in Actions : OpenAgrees(a)
  /\ \A w \in Workers : CopyAgrees(w)
  /\ FailureIsReal
=============================================================================
