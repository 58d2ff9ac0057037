# SupportPilot in TLA+

SupportPilot is a multi-tenant support agent: a language model proposes tool calls, and trusted
services decide and act. It comes with a Range, a teaching console that breaks one control after
another on purpose and puts it back. This directory holds TLA+ models of those services, the TLC
configurations that check them on small instances, and TLAPS proofs of what matters most for
instances of any size.

Run everything from this directory:

    tlc -workers 2 -config refund_safety.cfg MCRefundLifecycle
    tlc -workers 2 -config request_pipeline.cfg MCRequestPipeline
    tlapm RequestPipeline_proofs.tla

`PROJECT.json` maps every definition to the lines it models and lists runs, mutants, findings,
hazards and theorems.

## 1. Inventory

Paths are below `services/` unless they start with another directory of the repository.

| Component | State it keeps | Operations | Hard behaviour | Correct when | Module |
|---|---|---|---|---|---|
| Refund proposal and decision (`api/.../tools/actions.py`, `internal/approvals.py`, `repositories/actions.py`) | rows of `app.action_requests`, `approval_decisions`, `action_jobs` | propose, view, authorise, decide | two approvers at once; page rendered from a row that changes; expiry between two reads | one decision, by somebody else, on the exact payload; approved iff queued | `RefundLifecycle` |
| Action tables (`database/migrations/0008_actions.sql`) | the same rows, `action_executions`, `audit_events` | unique keys, row policies, separation-of-duty trigger | an `UPDATE` the policy filters changes nothing, silently | terminal states stay | `RefundLifecycle` |
| Worker (`worker/.../jobs/processor.py`, `main.py`) | lease, attempts, a copy of the claimed row | claim, verify, reserve, execute, reconcile, record, refuse | crash between any two steps, lease expiry under a live worker, ambiguous timeout, retry | paid at most once, as approved; outcome tells the truth | `RefundLifecycle` |
| Refund provider adapter (`worker/.../adapters/refund.py`) | results per idempotency key, in the process | execute, lookup | its memory dies with the process | a key is applied once | `RefundLifecycle` |
| Approval portal (`portal`) | none: it forwards the caller's bearer token | page, post | two-step review | what was shown is what is decided | `RefundLifecycle` |
| Long-term memory (`memory/.../memories.py`, `vectors.py`, `database/memory/migrations`) | `mem.records`, `mem.outbox`, points in two layouts | remember, recall, confirm, summarise, forget | copies applied after commit by concurrent requests, partial failure between layouts | nothing confirmed but by its owner or the switch; nothing lost unnamed | `MemoryStore` |
| memory-init and reconciliation (`init.py`, `qdrant_setup.py`) | none of its own | roles, schemas, migrations, complete forgets, fill, remove, reconcile | runs again beside a serving service; dies in the middle | afterwards the two stores agree | `MemoryStore`, `Bootstrap` |
| Organisation rules (`rules.py`) | `mem.rules` | propose, decide, retire | two approvers on one rule; the second update matches no row | a rule in force was approved by another person who might | `Knowledge` |
| Session history and context (`history.py`, `context.py`) | `mem.sessions`, `turns` | open, append, read, assemble | sequence numbers from `max(seq)+1`; roles captured before the block is built | dense unique sequence; a block holds what its caller may see | `Knowledge` |
| Delegation broker (`broker`) | settings, signing key, cached keys | exchange, mint, gateway | tokens outlive the setting they were minted under; clock leeway; depth limit in two places | scope and lifetime only narrow | `Delegation` |
| Token verification (`api/.../auth/tokens.py`, `memory/.../tokens.py`) | cached keys, time of last fetch | verify, refetch | publisher down, unknown key, refetch limit, rotation | a withdrawn key dies out | `Delegation` |
| Authorization policy (`policy/supportpilot`) | none | decide | conflicting rules, default deny | one decision per input | `AuthorizationPolicy` |
| API pipeline, policy client, audit writer, notes, reads (`api/.../tools`, `policy`, `audit`, `repositories`) | rows read under row policies, `audit_events`, `internal_notes` | verify, load, look up, ask, act, audit | any stage unavailable; memberships and rows that change between two of them | nobody is answered beyond a role held; effect and evidence commit together | `RequestPipeline` |
| Pagination (`api/.../repositories/pagination.py`, `customers.py`) | none: a cursor in the caller's hands | keyset search | rows inserted, renamed and removed between pages | a walk meets everyone who stayed | `Directory` |
| Probe (`probe`) | `_last_minted` | walks, memory scenarios, delegation runs | answers lost after the effect; overlapping runs | a run touches only its own; a row says what was reached | `Probe` |
| Range (`range/.../registry.py`, `store.py`, clients) | controls across catalogue, files, containers, two databases | arm, restore, probe, reset | several controls in one bundle; OPA reads it at start; the Range dies half done | after a reset that says so, every control is restored | `RangeRegistry` |
| Set-up scripts (`scripts/bootstrap_local.py`, `enable_keycloak_tls.py`, `build_ca_bundle.py`, `connect_onyx.py`, `database/entrypoint.sh`) | secrets, certificates, `.env`, volumes | bootstrap, `--reset`, enable TLS, connect Onyx, migrate | interrupted anywhere; a volume older than its secret | what a script reports when it ends is so | `Bootstrap` |
| Backup and restore drill (`scripts/backup_restore_drill.py`) | a dump, a scratch database | backup, restore, verify, neutralise, promote | requests queued or half executed in the copy | a restored backlog pays nothing again and waits for nobody | `RestoreDrill` |
| Database context and pool (`db.py`) | transaction-local settings | open, set, reset | a connection reused after an error | no request runs with another's context | partly, in `RequestPipeline`, `Knowledge` |
| Deployment (`compose.yaml`, Keycloak realm, docker proxy) | - | - | start order, restart policies | - | partly, in `Bootstrap`, `RangeRegistry` |
| Pages, content, embeddings, verification suites | none worth a model | - | - | - | - |

Components meet in three ways: HTTP calls carrying a verified token (agent, portal, broker to API;
probe to API, broker and memory service), rows that several processes write (worker and API on the
action tables; memory service, `memory-init` and Range on `mem.*`; the drill on a copy of them), and
files or containers that one service changes under another (Range on the policy bundle, OPA and
`memory-init`; the scripts on everything).

## 2. Modules

| Module | Models |
|---|---|
| `ActionStates` | `actions/state.py`: the states, hash and key; shared by `RefundLifecycle` and `RestoreDrill` |
| `RefundPromise` | abstract: a proposed payload is decided once, by somebody else, and if approved paid at most once, as proposed |
| `RefundLifecycle` | the whole refund path, one action per transaction or provider call; it implements `RefundPromise` |
| `RefundInvariant`, `MemoryInvariant` | inductive invariants |
| `MemoryStore` | the memory service, its outbox, the two layouts, `memory-init`, and the Range switches that leave something behind |
| `AuthorizationPolicy` | `authz.rego`: every rule, as an operator of the input |
| `RequestPipeline` | a request through the API, one action per transaction or call; it asks `AuthorizationPolicy!Evaluate` |
| `Delegation` | broker, API, memory service, the two key publishers, and the tokens between them |
| `Knowledge` | rules, sessions and the context block that is assembled from both |
| `Directory` | the keyset search of customers |
| `Probe` | the probe's overlapping runs and what the Range asks of it; it extends `Directory` |
| `RangeRegistry` | the Range's controls, their restore and the reset, with the systems they reach |
| `Bootstrap` | the set-up scripts over files, volumes and containers, with the migration jobs |
| `RestoreDrill` | the drill and a promotion beside the live flow |
| `*_proofs` | eight modules of theorems, section 5 |
| `MC*` | the constants, budgets, constraints and symmetry TLC needs |

### Refunds

State: `request`, `decision`, `job`, `execution` and `audit` are the tables; `review` is what an
approver has on screen or in flight; `worker` is the `ClaimedJob` each process holds and the step it
is at; `applied` is what each adapter knows, `effects` what was really paid. Time is abstract:
`expired` and `job[a].lease` say what a comparison with `now()` would answer, and clock steps change
them. `faults` is a budget per kind of fault.

| Code | Action |
|---|---|
| `propose_refund` | `Propose` (PROPOSED and PENDING_APPROVAL are one transaction, so the former is never seen) |
| `get_approval` | `ViewApproval` |
| `post_decision` up to `decide` | `AuthorizeDecision`, `ReviewEnds` |
| `ActionRepository.decide` | `RecordDecision` (decision, move, queue entry and audit event together), `ReviewEnds` when the table refuses |
| `_CLAIM`, `_LOAD_ACTION` | `Claim` |
| `JobProcessor.verify` | `Verify` |
| `_RESERVE_IDEMPOTENCY` | `Reserve` |
| `adapter.execute` | `CallSucceeds`, `CallFails`, `CallTimesOut` |
| `_reconcile` | `Lookup` |
| `_record_outcome` | `RecordOutcome` |
| `refuse` | `Refuse`, reached also from any exception (`StepRaises`) |
| process death | `Crash` |
| the clock | `LeaseExpires`, `BackoffElapses`, `ApprovalExpires` |
| the Range's challenge 6.1 | `TamperPayload` |

Row policies are guards or, where PostgreSQL filters silently, a no-op: `WorkerSetsState` leaves a
row outside APPROVED, QUEUED and EXECUTING as it is. `InMemoryProvider` chooses between the
repository's fake adapter (one dictionary per process, lost in a crash) and a provider that all
workers share, which is what the adapter's interface is written for.

### Memory

State: `record` and `outbox` are the tables (an outbox row that is applied is not kept), `point` is
the status in each point's payload per layout, `setting` the two switches, `request` and `init` what
a running request or job still has to do. `born` and `vouched` are history: which records the armed
switch confirmed at birth and which their owner confirmed. A recall changes nothing, and its read-back
filters in the query that reads, so it is no action. Content never changes, so neither it nor
its hash is in the model; one organisation is modelled, since every key carries it.

| Code | Action |
|---|---|
| `remember` | `Remember` (the switch is read and the row inserted), `CommitRemembered` (the restore may have come between), then `CallStore` per layout and `MarkApplied` |
| `confirm` | `Confirm`, then as above |
| `summarise` | `ReadSource`, `InsertSummary` (another transaction can commit between its read and its insert), then as above |
| `forget` | `Forget`, then `CallStore` per layout and `MarkApplied` |
| `except ApiError`, process death | `RequestFails`: what committed stays |
| `complete_forgets` | `InitStarts` |
| `setup` | `InitLists`, `InitWrites`, `InitNextLayout` |
| `_remove_forgotten` | `InitListsAgain`, `InitRemoves` per layout |
| a failing or killed job | `InitFails` |
| `reconcile` | `Named`, what it would report |
| Range | `ArmAutoConfirm`, `RestoreAutoConfirm`, `RevokeAutoConfirmations`, `ArmPrimaryOnly`, `RestoreForgetScope` |

`Derived(S, T)` is the recursive query as the least set that holds S and is closed under "made from";
no recursion is needed, which keeps it provable. `InitWhileServing` says whether `memory-init` may
run beside requests: compose starts the service only after the job has completed (FALSE), the
Range's restore of challenge 9.8 starts it again while the service runs (TRUE).

### Requests

State: `member`, `suspended`, `disabled` and `row` are what the core database holds, `request` one
request from its token to its answer, `notes`, `proposals` and `audit` what requests write. `held`
and `was` in a request are history: the roles its user held, and the values its object had, while it
was in progress. Properties about "the caller's authority" speak of these, since a check that reads
one moment and answers at another can promise no more.

| Code | Action |
|---|---|
| verified token, route, arguments | `Arrive` |
| `ResolveSubject` (`repositories/memberships.py`) | `LoadSubject` |
| resource lookup before the decision | `LookupResource`, `TenantAsResource` |
| `PolicyClient.decide`, `authz.rego` | `Decide`, `PolicyFails` |
| the audit row of a refusal | `RecordDenial` |
| the operation's transaction | `GetOrder`, `SearchCustomers`, `GetCustomer`, `GetTicket`, `GetActionStatus`, `CreateNote`, `ProposeRefund` |
| minimisation and the audit row of an answer | `RecordSuccess` |
| an exception from the database, process death | `DatabaseFails`, `Crash` |
| administrators and other services | `SetMembership`, `SuspendOrganization`, `DisableUser`, `ChangeRow` |

Data is abstract where the policy compares nothing: text, names and columns have no value here.
Amounts do, since both the policy's limits and the handler's comparison with the order are modelled.

### Delegation

A token is a record of its claims; signatures are the pair (issuer, key id). `cache` has one entry for
each of the four places that hold a key set: the broker's and the API's copies of the provider's keys,
the API's copy of the broker's, and the memory service's copy of the provider's.

| Code | Action |
|---|---|
| `exchange` with a user's or a delegated token | `ExchangeUserToken`, `ExchangeDelegatedToken` |
| gateway: mint, then call the API | `Gateway`, `GatewayPasses` |
| `verify` in the API and in the memory service | `Verify`, `VerifyAtMemory` |
| `JwksCache.get`, `KeycloakKeys.get` | `AfterLookup`, `Fetches`, used by each of them |
| provider, publishers, processes, Range, clock | `LogIn`, `RotateProvider`, `RestartBroker` (a new signing key), `RestartApi`, `RestartMemory`, `StopOrServe`, `SetSwitch`, `Tick` |

### Rules, sessions and context

Each request resolves the caller's roles first and goes on with what it read: `ReadSelfActivate`,
`InsertRule` (`InsertUnchecked` where the Range has removed the check), `CommitRule`; `ReadProposal`,
`WriteDecision`; `Retire`, and the Range's `RetireUnapproved`; `CreateSession`; `NumberTurn`,
`InsertTurn` (two statements, so two appenders can compute one number); `ReadTranscript`; `ReadRules`,
`ReadHistory`, `Deliver` for a context block, the last of which re-authorises it. `Fails` rolls back,
`ChangeMembership` and `SetSwitch` are the environment. `trail` keeps the audit events.

### Range

`console` is the one console action in progress; everything else is what the systems hold. `Order`
is the registry's order of controls.

| Code | Action |
|---|---|
| a button | `Press`, `StartSweep` (reset), `StartCheck` |
| the `arming_requested` row | `RecordIntent` |
| one call of an arm or a restore | `Perform`, one element of the list `Apply` or `Restore` gives for the control's kind |
| a call that raises or outlasts its timeout | `Raise`, `WaitTimesOut` |
| the answers | `FinishArm`, `FinishRestore`, `ProbeNext`, `RestoreNext`, `RestoredOrEnd`, `CheckNext`, `FinishReset` |
| the world | `RangeStops`, `SystemStops`, `SystemReturns`, `TenSecondsPass` (the client's shunning of memory-db), `OpaRestarts`, `ComposeUp`, `Propose`, `RequestEnds`, `LetsThrough` (a request to memory reads an armed leaky setting), `Commits` (its transaction ends, by then perhaps with the setting put back) |

The controls are one of each kind the registry has: a table flag, a tampered payload, a moved approval
window, a membership, a service account, the policy process, variants of the bundle, settings of
memory-db, switches of the broker. Controls of one kind differ only in the SQL text they run.
`IsArmed` reads what the systems hold, not what a probe reads: for the payload, whether a pending
request carries another amount than it was proposed with. `ended` and `late` are history: the amount a
request had when it was decided, and what was committed after its setting had been put back.

### Probe and directory

`Page`, `PageRefused`, `Edit` and `ChangeMembership` are the walk; `Step`, `SkipStep`, `StepLost` the
memory scenarios (a step's effect may happen and its answer be lost), with `ArmPrimaryOnly`,
`RestoreForgetScope` and `CompleteForgets` around them; `Exchange`, `BrokerRefuses`, `Update`,
`Clear`, `Direct`, `Gateway`, `GatewayUnavailable` and `CallApi` the delegation runs. In a delegation
run `held` is the token in hand, `token` what the row says of it, `reached` what got to the API, and
`status` how the run answered. `Clear` and `Update` are two steps because
`_remember` clears and updates one dictionary that all threads share. `Ask`, `GetToken`, `RunFails`,
`GivesUp` and `Answered` are the Range's side of a call and its timeout.

### Set-up scripts

A script is a sequence of steps, and `Interrupt` may fall between any two. Bootstrap: `GenerateSecret`,
`CheckVolume`, `EnsureBrokerKey`, `Mint`, `EnsureTls` with `WriteCertificate` and `WriteKey`,
`BuildBundle`, `Reset`. TLS: `PatchEnv`, `Recreate`, `WaitForRealm`. Onyx: `WriteOverlay`, `CheckOnyx`,
`PutClient`, `GrantScopes`, `ReadBack`, `StoreSecret`, `Discover`. Compose and the jobs: `ComposeUp`,
`MemoryUp`, `Connect`, `First`, `CreateRoles`, `CreateSchemas`, `Apply`, `Record`, `ApplyMigrations`,
`JobFails`, `StartMemory`, `StartKeycloak`, `StartApi`, `WaitForApi`. The operator: `Start`, `Remove`,
`ComposeDown`, `InstallCertifi`. A secret is the generation of it; whether a volume opens is whether
the generations agree.

### Restore drill

`Propose`, `Decide`, `Claim`, `Reserve`, `Call`, `Record`, `WorkerRestarts` and `Migrate` are the live
flow as far as the drill needs it, with the attempts a job has had; `TakeBackup`, `RestoreIntoScratch`,
`VerifyRestore`, `NeutraliseStaleJobs`, `CheckRemaining` and `CleanUp` the script; `Promote` and
`Again` what an operator does with the scratch database.

## 3. Runs

| Run | Instance | Question and answer |
|---|---|---|
| `refund_safety` | 1 action, 3 users (one both requester and approver), 2 payloads, 2 workers, 3 attempts, in-memory adapter; 2 crashes, 1 exception, 2 declines, 2 timeouts, 2 payload writes, 1 expiry | With everything going wrong, is a refund paid at most once, as approved by another person, reported truthfully when it succeeded, and does the flow implement `RefundPromise`? Yes. |
| `refund_one_worker` | 2 actions, 1 worker, shared provider; 2 crashes, 2 declines, 2 timeouts; fair | With one worker, is a paid refund ever recorded as failed, and does every job settle? Never; and it does, unless its last attempt died. |
| `refund_two_workers` | 1 action, 2 workers, no fault | Is a failure always real with two workers? No: finding 1. |
| `memory_store` | 2 records, 2 owners, 2 requests, 1 failure, 1 armed switch whose restore may come before a commit | Is a lost write always pending in the outbox, nothing confirmed but by its owner or by the armed switch, and does `memory-init` repair the rest? Yes. |
| `request_pipeline` | 2 requests, the first for any operation and the second for the status of its proposal; 1 user in 2 organizations, 4 objects, amounts around three limits, 1 change, 1 failure | Does every answer rest on a role held while it was made, in the organization of what it shows; do effects and evidence commit together; do proposals and notes meet the conditions stated for them? Yes. |
| `delegation` | 2 profiles, 3 scopes, 3 tokens, depth 2, times up to 4, 1 rotation, outage or switch | Do scope and lifetime only narrow along the chain, does the API accept what the broker mints, and does a withdrawn key die out? Yes. |
| `knowledge` | 3 people, 2 organizations, 3 requests of which 2 overlap, 1 rule, 1 session, 2 turns, 2 changes | Is every rule in force answerable for, is a session a dense sequence, and does a block hold only what its caller may see? Yes. |
| `range` | 11 controls, 2 arms, 1 event, 2 requests | Does a reset that answers without error leave everything restored but what finding 2 and section 4 say, does the bundle's probe say what OPA enforces, does one failing control not keep others broken, and does the Range alter and restore only the request it holds? Yes. |
| `range_reset` | the same | Does the restore of the approval window put back what the arm moved? No: finding 2. |
| `probe` | 3 customers, pages of 1, 3 calls of which 2 overlap, 2 lost answers, 1 edit | Does a walk meet everyone who stayed, do runs forget only their own, can a survivor be named while fewer than `ShownForgotten` other runs came between, and does the row of a run that was answered, refused or failed tell what reached the API? Yes. |
| `bootstrap` | 2 migrations, 3 runs of the scripts, 2 changes by the operator, 1 fault | Interrupted anywhere, do the scripts still tell the truth when they end, do untouched secrets open the volumes, and does `--reset` recover? Yes. |
| `restore_drill` | 2 requests, 2 attempts, 2 schema versions, 2 drills, 2 crashes | Does a promoted copy pay nothing again on the same approval, and is nobody left waiting for a job that will not run, but where a last attempt died? Yes. |

**Bounds.** Those of the refund runs: no two actions share a row, a key or a lock, so one suffices for
safety, and `refund_one_worker` has two to let them compete for the worker; two workers are what a
race on a lease takes; two payloads what a tampered row takes; three attempts is the column's default
and the literal in `_record_outcome`; budgets of two let a fault strike again during the recovery from
the first. `memory_store`: a memory and its summary, two overlapping routes, two owners between whom
they must not leak. `request_pipeline`: a second organization is what confusion of tenants takes, the
amounts lie on, between and beyond the limits 2, 3 and 5, and one change suffices since a request reads
each fact at most twice. `delegation`: lifetimes, leeway and cache age keep the order they have in
the code; three tokens are a user's, the first agent's and the second's. The broker's refusal of a
chain that is too long (`exchange.py:103`) takes a fourth, and one change meets no second one: for
those there are only the theorems `MintedTokensAreAcceptable` and `RetiredKeysAreForgotten`. `OneVerifier` explores
each behaviour for the API or for the memory service, which share only tokens and publishers;
`ChainOrKeys` explores chains of three tokens while the published keys stay, and lets a change or an
outage of them meet two tokens at most.
`knowledge`: two overlapping requests are what every race here takes, and the third is a later look at
what they left. `range`: two variants and two leaky settings are what sharing takes, one control of any
other kind. `probe`: a directory of three on pages of one has a first, a middle and a last page;
`OneSubject` explores walks, scenarios and delegations one at a time, as they share no state.
`bootstrap`: three runs are one that goes wrong, one that meets what it left, and a reset.
`restore_drill`: one request settles while the other is open, a promoted copy is copied again, two
attempts have one that is not the last, and two crashes use up both. The
proofs remove these bounds for what they cover.

**Symmetry** is used only in runs that check safety (invariants and action properties).
**Deadlock** checking is off: every process may come to rest, since users need not act and budgets
run out.

**Fairness.** `FairSpec` of the refunds: each worker takes its next step and its next claim if it can
(the loop in `main.py` polls for as long as the process lives, and a crashed process is restarted), and
leases and backoffs run out (the clock). Users, the provider's answers, faults and the expiry of an
approval are not fair: under weak fairness a call may still time out or be declined, within the budget.
`RequestPipeline` is fair in each request's handler, whose every call has a timeout. No other
specification needs fairness: nothing in those services retries on its own, a script is run by a
person, and the Range's buttons are pressed by one.

## 4. What the code does differently from what it says

Two of these are runs; TLC finds the counterexample.

1. **A lookup mistaken for an outcome** (`processor.py:279`, `refund_two_workers`). "No record" is
   recorded as a failure although the holder of the reservation is about to pay.
2. **The wrong window** (`registry.py:276`, `range_reset`). Arming moves the newest pending request's
   window, and restoring moves the newest one back: when another refund was proposed in between, the
   first stays altered and the reset reports success.

The rest were met while modelling and are part of the models; the properties are stated so that they
hold beside them, and the comments of the definitions say where.

*Refunds.* A reclaimed job whose approval has expired is closed as FAILED without asking the provider,
even if the crashed attempt had paid (`main.py:185`). `attempts < max_attempts` also guards reclaiming,
so a job whose last attempt died stays as it is (`processor.py:74`). The reservation of a declined
attempt sends every retry to reconciliation (`processor.py:254`). APPROVED goes straight to SUCCEEDED;
QUEUED is never written and `assert_transition` never called.

*Memory.* An upsert can land after another request's deletes, with both outbox rows applied
(`memories.py:139`). The reconciliation compares existence and hash, not status
(`qdrant_setup.py:196`). Run beside a serving service, `memory-init` can remove a live point
(`qdrant_setup.py:160`). The restore of `write.auto_confirm` "sends every memory confirmed this way back
to wait for its owner" (`registry.py:1206`), but a summary made of one meanwhile is born confirmed with
`confirmed_via` 'user' (`memories.py:351`), and the revoke touches 'auto' only
(`0009_range_observations.sql:252`): it stays confirmed, though nobody vouched for it. A memory whose
`remember` had read the switch is committed confirmed after the revoke, until the next one.

*Rules and requests.* A second decision on a rule matches no row and is answered as if it had been made
(`rules.py:129`). A closed ticket takes a note if the caller expected it closed (`authz.rego:247`). The
status of a proposal is looked up in the user's first organization only (`tools/actions.py:226`).

*Delegation.* A token exchanged again keeps the first agent's scopes as its ceiling. The gateway mints
outside its `try`, so a user token accepted within the leeway can be answered with a server error
(`broker/main.py:211`). The refetch limit is measured from the last successful fetch, so it does not
limit fetches while the publisher is down (`tokens.py:120`).

*Range.* "Restore puts that payload back byte for byte" (`0032_range_payload_tamper_exact.sql:18`) holds of
pending requests: the update policy passes over a request that was decided meanwhile (`0018:99`), the
record of it is deleted all the same, and the control reads correct while the request keeps 4500; the
worker refuses its hash. A rule or memory that read its setting while it was armed and is committed after
the reset's last probe is there after a reset that reported success, which is what `registry.py:276`
sets out to make impossible; `ResetRestores` names that case, and the next reset removes it. "A survivor
found a moment ago must still be there to be named" (`0009:176`) fails once three other runs came
between. With no pending request the window's probe answers "unknown", and a reset cannot succeed. Bob's
probe answers "correct" while it is the service account that has been made manager. A pending request
that has aged by itself is "restored". Memory controls whose probe answers ABSENT are skipped by the
reset. All variants of the bundle are named as changed when one is. Demoting Bob collides with the
unique key when he holds both roles. Several timeouts are shorter than the run they wait for.

*Probe.* When the gateway's own call to the API fails, it answers 503 without `X-Delegation` after it has
minted and forwarded (`broker/main.py:232`), and the row says "none: refused by the broker before minting"
(`probe/main.py:698`). The row of an exchanged token is filled in before the API is called
(`probe/main.py:717`), and the answer of a failed run shows it: a 502 row may name a token that reached
nothing. `RowTellsWhatReached` says what remains true of each kind of row.

*Scripts.* Bootstrap refuses a volume older than its secret only in the run that made the secret (with
`--reset` too); the next run sees "exists" and goes on. Role passwords are never altered. Killed between
writing the key and building the CA bundle, or without certifi, there is no bundle afterwards and
nothing builds it, `--reset` included, and the API cannot start. A certificate deleted alone, with a
kill before the new key is written, leaves a mismatched pair that is kept. `entrypoint.sh` applies the
first migration and records it in two commands; a kill between them is fatal until `--reset`.
`connect_onyx.py` writes an older overlay than the one shipped when the file is absent. Read and not
modelled: the lesson scripts edit `policy/supportpilot`, but OPA reads the copy `opa-bundle-init` makes
at `compose up` (`compose.yaml:163`) and the scripts only restart OPA (`learn_authorization.py:268` and
`:315`). So `break` alone does not load the broken rule, and a `restore` after an intervening
`compose up` says "policy restored from backup" with the broken rule still in force until the next
`compose up`, although `LAB.md:618` says it "reinstalls the real one".

*Restore drill.* A request that awaited approval in the backup can be approved and paid again after
the promotion, although the live system had paid it. The strand of a last attempt, above under *Refunds*,
is there in the live database and in a promoted one; the drill cancels it in its copy.

None of them lets a refund be paid twice on one approval, shows a caller what no role of theirs allows,
or lets a token grow: those are the theorems.

## 5. Proofs

Eight modules, each from the named assumptions of its components (counts are naturals, sets of people
lie in each other, special values are none of those they stand beside, the depth the API
allows is not below the broker's, and the like). Hashes are collision-free and signatures cannot be made
without the key by construction; these are abstractions, not theorems.

Each proof is an inductive invariant with one lemma per action and one sub-step per part the action
can disturb. None of the properties is inductive by itself, and the invariant says what is missing:

| Module | Inductive invariant: what it adds to the types | Results |
|---|---|---|
| `RefundLifecycle_proofs` | `IInv`: a decision names the hash of its request (`RowsAgree`), a page carries the hash of the row it was rendered from (`ReviewAgrees`), a worker past `reserve` has an execution row and one at `call` faces an unpaid action (`WorkerAgrees`), no two are at `call` for one action (`AloneAtProvider`), a payment has its reservation (`PaymentAgrees`), a success its payment (`SuccessesAgree`) | `TypeCorrect`, `PaidOnce`, `CalledOncePerKey`, `PaidAsApproved`, `SuccessHasPayment`, `QueueIsApproved`, `FinalVerdicts`, and the refinement `PromiseKept`; with `OneWorkerAlone` also `FailureHasNoPayment`, from `OneInv`: the row is open as long as its job (`OpenAgrees`), and what the worker has read is what the tables hold (`CopyAgrees`) |
| `MemoryStore_proofs` | `MemoryInv`: where each request stands and that what it deletes is forgotten (`RequestAgrees`), that confirmed records and pending summaries go back to one their owner or the switch confirmed (`VouchesAgree`), that a request past a layout has left its points there (`CopiesAgree`), and for `memory-init` that it is alone and that each passed step is done (`InitAgrees`) | `NothingConfirmsItself`; with `~InitWhileServing` also `NoWriteIsLost`, `OneRunRepairs` |
| `RequestPipeline_proofs` | `PipelineInv`: what is in hand was read in the request's time and belongs to the tenant it claims (`Placed`, `Current`), a decision in hand is the policy's of such an input (`Decided`), what is shown was found under it (`Showing`), every effect has its row (`Effected`), and the rows met their conditions (`NoteSound`, `ProposalSound`) | `PolicyNeverConflicts`, `DelegationOnlyNarrows`, `AnswersNeedMembership`, `RestrictedReachesTheTrusted`, `EffectsCarryEvidence`, `ProposalsStayWithinLimits`, `NotesAreAsExpected`, `ScopesOnlyNarrow`, `PolicyIsAskedOnce` |
| `Delegation_proofs` | `BrokerInv`: every token expires with the user's at the latest and stays within ceiling and limits (`TokensSound`), and a key set that still holds a withdrawn key was fetched before the withdrawal (`KeysSound`) | `ChainsNarrow`, `AuthorityEndsWithTheUsers`, `MintedTokensAreAcceptable`, `RetiredKeysAreForgotten` |
| `Knowledge_proofs` | `KInv`: what a request in flight has read is still so in the sense in which it will be used (`RequestSound`), and sequences have no gap (`TurnsBounded`) | `RulesAreAnswerableFor`, `TurnsAreNumbered`, `BlocksAreForTheirCaller` |
| `Range_proofs`, registry | `RangeInv`: every effect the action in progress still has to arm is written down (`Announced`), so is every setting some transaction in flight read while it was armed (`Underway`), and when OPA started after the last write it loaded the bundle (`LoadedIsTheBundle`) | `BundleProbesAreHonest`, `ArmingIsWrittenFirst`, `OnlyTheHeldRequestIsAltered` |
| `Range_proofs`, reset | `ResetInv`: what the action at each step is about (`ActionAgrees`); each control the sweep had its turn with is disarmed, named as failed or in hand (`SweepAgrees`); what a reading found correct or absent stays so until the console acts again, or a transaction in flight commits late (`ReadingsAgree`) | `ResetLeavesNothingArmed`, `SweepReachesEveryControl` |
| `Range_proofs`, probe | `ServiceInv`: of the people nobody touched, a walk has met exactly those up to its cursor, and no row is counted twice; each run names only memories and tokens it got (`RunAgrees`); a memory belongs to the run that stored its source (`MemoryAgrees`); a survivor that was shown belongs to a memory that was forgotten (`ShownAgree`) | `ServiceTypes`, `WalksCount`, `RunsForgetOnlyTheirOwn`, `RowsTellTheTruth` |
| `Range_proofs`, order of runs | `OrderInv`, beside `ServiceInv`: each run has a number of its own (`RunsApart`); it stores one memory, and was not over when a memory was forgotten before it was (`RootsApart`, `ForgottenApart`) | `SurvivorsAreNameable` |
| `Bootstrap_proofs` | `BootInv`: which step each script can be at and what it has made by then (`StepsAgree`, `RunAgrees`, `ResetAgrees`, `EnableAgrees`, `ConnectAgrees`), what a migration job has applied at each of its commands (`JobAgrees`), and which halves of the certificate pair and bundle fit (`PairAgrees`) | `SecretsOpenTheVolumes`, `MigrationsAreAppliedOnce`, `WordIsKept`, `ResetComesUp` |
| `RestoreDrill_proofs` | `DInv`: rows of the live database are sound, a queued job having an attempt left, and those of the copies as far as the drill has come (`CopiesSound`); the worker's job is executing (`WorkerAgrees`); a row that can still be paid has an approval to spare (`ApprovalsCover`); beside it, no more requests are stranded than the worker has died, not counting the one it has in hand (`StrandedByCrashes`) | `ApprovalPaidOnce`, `NobodyIsWaitedFor` |

Each module also states its invariant and its types as theorems. `PROJECT.json` says which property of
which run a theorem states. The proofs about `Probe` stand beside those about the registry because both
are about what the Range's console does; their state is disjoint, so `Probe` names its specification
`ServiceSpec`. They rest on lemmas about `Directory`'s query (a page is the least rows after the
cursor, in order and without gaps), for which `Customers` must be finite.

Three theorems have a hypothesis on the constants. `OneWorkerAlone` excludes the second worker, an
in-memory adapter, exceptions outside the provider call, a rewritten payload and an expired approval;
crashes, declines, timeouts and leases that run out stay. Without it `FailureIsReal` is false
(section 4, the first finding and the paragraph about refunds). `~InitWhileServing` is the order
`compose.yaml` gives `memory-init` and the service.

**Only model-checked:** `JobsSettleOrStrand` and `PaymentIsReported`, which are liveness and beyond the
prover. Every invariant and action property of a passing run is a theorem. No definition a theorem
depends on is recursive over data.

## 6. Not modelled, and why

- *Range pages, content, rendering, source viewer; embeddings; verification suites and document
  export* keep no state, or none that another part reads: layout, text, a pure function, and tools that
  measure the system from outside, one call after the other.
- *Deployment* is configuration. What of it matters to a behaviour (start order, volumes, health,
  restarts) is in `Bootstrap` and `RangeRegistry`.
- *Long-term memory* is modelled without the secret filter, paging, scores and the audit rows of
  refusals; *memory-init* without seeds and creation of collections; the *context block* without its
  length limits. No property here tells their outcomes apart.
- *Connection pooling* is psycopg's. The models take from `db.py` that each transaction
  sets its context locally, so that it ends with the transaction.
- *The code the Range replaces.* Arming controls of the application schema (migrations 0017-0020 and
  0032) exchanges functions and policies; `RangeRegistry` models that they are exchanged and put
  back, and `RefundLifecycle` and `RequestPipeline` the unbroken ones.
- *Two proposals for one order* are each compared with the order's total alone
  (`tools/actions.py:171`). `ProposalsWithinLimits` is stated for each proposal for that reason.
- *Finer interleavings inside one transaction* are left out except where the code reads, then writes
  from what it read.

## 7. Plan

| Next | What it takes |
|---|---|
| Liveness by hand | the variants behind `JobsSettleOrStrand`: attempts left, then steps of one attempt, as a lemma that each fair step lowers them; the temporal conclusion stays with TLC |
| An abstract store for the memory service | records with an outbox that is empty or has the rest, refined by `MemoryStore`, in place of the conjuncts of `NoWriteIsLost` |
| The copy of a confirmation (`memories.py:286`) | a layout step of its own between confirmation and `remember`'s payload, and a property that says which of the two statuses a point ends with |
| Two proposals for one order (`tools/actions.py:171`) | a sum over requests in `RequestPipeline`, and a statement of the code or its documents that limits it |
| Long-term memory | paging and the secret filter, once a property needs them |
