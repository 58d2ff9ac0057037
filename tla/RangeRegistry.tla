--------------------------- MODULE RangeRegistry ----------------------------
(* The Range's mutation registry (services/range): arming one control,      *)
(* restoring one, and the reset that sweeps all of them, against the systems *)
(* they change: Postgres, the bundle file and the OPA that loads it once at  *)
(* start, memory-db, the broker's settings file and the docker proxy.        *)
(*                                                                           *)
(* A control's apply and restore are sequences of effects, performed one at  *)
(* a time, because anything may happen between two of them: the Range stops, *)
(* a system goes away, compose copies the policy again, somebody proposes a  *)
(* refund. Console actions do not overlap: the handler never yields.         *)
EXTENDS Integers, Sequences, FiniteSets

CONSTANTS
  Tables,       \* controls that clear a row-security flag of a table
  Variants,     \* controls that install an altered policy bundle
  Settings,     \* controls that flip a setting of memory-db
  Leaky,        \* settings whose armed state lets something through that stays
  ByMemoryInit, \* leaky settings whose leftovers the memory-init job removes
  Switches,     \* controls that flip a switch of the broker
  Order,        \* every control, in the order of registration
  MaxArms, MaxEvents, MaxRequests   \* bounds: arms, faults and changes, refunds

Payload == "action.payload.tamper"
Window  == "action.approval.expire"
Bob     == "identity.bob.revoke_manager"
Service == "identity.service_account.grant"
OpaStop == "policy.opa.stop"

Database == Tables \union {Payload, Window, Bob, Service}
Ids      == Database \union {OpaStop} \union Variants \union Settings \union Switches
Systems  == {"postgres", "proxy", "memory", "broker"}

ASSUME RangeAssumption ==
  /\ Leaky \subseteq Settings /\ ByMemoryInit \subseteq Leaky
  /\ Order \in Seq(Ids) /\ {Order[i] : i \in DOMAIN Order} = Ids
  /\ "real" \notin Variants
  /\ Tables \intersect (Variants \union Settings \union Switches) = {}
  /\ Variants \intersect (Settings \union Switches) = {}
  /\ Settings \intersect Switches = {}
  /\ {Payload, Window, Bob, Service, OpaStop}
       \intersect (Tables \union Variants \union Settings \union Switches) = {}
  /\ {MaxArms, MaxEvents, MaxRequests} \subseteq Nat

VARIABLES
  forced,    \* [Tables -> BOOLEAN]: the flag as the catalogue has it
  requests,  \* refund requests, oldest first
  tampered,  \* range.payload_tamper: requests whose payload the Range holds
  bob,       \* Bob's membership says support_manager
  service,   \* the roles of the service account's memberships
  bundle,    \* the policy text in OPA's volume
  loaded,    \* the policy text OPA loaded when it last started
  current,   \* OPA started after the bundle was last written
  running,   \* OPA's container runs
  armed,     \* settings of memory-db at their armed value
  leftover,  \* leaky settings with something left of what they let through
  inflight,  \* leaky settings some transaction read while armed and is yet to commit
  late,      \* history: leftovers committed after the setting was put back
  switched,  \* broker switches at true in the settings file
  up,        \* which systems answer
  shunned,   \* memory-db was unreachable less than ten seconds ago
  intents,   \* controls with an arming_requested row in app.audit_events
  arms,      \* arm buttons pressed so far
  events,    \* faults and changes of the world so far
  console    \* the console action in progress and the last answer

world == <<forced, requests, tampered, bob, service, bundle, loaded, current, running,
           armed, leftover, inflight, late, switched>>
vars  == <<world, up, shunned, intents, arms, events, console>>

Readings == {"correct", "armed", "unknown", "absent"}
Amounts  == {"45", "1", "4500"}
\* ended: history, the amount the request carried when it was decided or expired.
Request  == [asked: {"45", "1"}, amount: Amounts, pending: BOOLEAN, ended: Amounts \union {""},
             window: {"open", "aged", "moved"}]
Proposed(amount) == [asked |-> amount, amount |-> amount, pending |-> TRUE, ended |-> "",
                     window |-> "open"]
Effects  == {"sql", "write", "stop", "start", "set", "clear", "init", "switch"}
Idle     == [op |-> "none", at |-> "idle", id |-> OpaStop, todo |-> <<>>, raised |-> FALSE,
             next |-> 1, read |-> [m \in Ids |-> "unknown"], wrong |-> {}, changed |-> {},
             failed |-> {}, answer |-> "none"]

Init ==
  /\ forced = [t \in Tables |-> TRUE]
  /\ requests = <<Proposed("45")>>
  /\ tampered = {} /\ bob = TRUE /\ service = {}
  /\ bundle = "real" /\ loaded = "real" /\ current = TRUE /\ running = TRUE
  /\ armed = {} /\ leftover = {} /\ inflight = {} /\ late = {} /\ switched = {}
  /\ up \in {[s \in Systems |-> TRUE], [s \in Systems |-> s # "memory"]}
  /\ shunned = FALSE
  /\ intents = {} /\ arms = 0 /\ events = 0
  /\ console = Idle

---------------------------------------------------------------------------
(* What the probes report.                                                  *)

Pending       == {i \in DOMAIN requests : requests[i].pending}
Newest(those) == {i \in those : \A j \in those : j <= i}
NewestPending == Newest(Pending)
NewestOf45    == Newest({i \in Pending : requests[i].amount = "45"})

Reading(correct) == IF correct THEN "correct" ELSE "armed"

ProbeTable(t) == Reading(forced[t])
ProbePayload  == Reading(tampered = {})
ProbeWindow ==
  IF NewestPending = {} THEN "unknown"
  ELSE Reading(\A i \in NewestPending : requests[i].window = "open")
ProbeBob     == Reading(bob \/ "support_manager" \in service)
ProbeService == Reading(service = {})

ProbeDatabase(m) ==
  CASE ~up["postgres"] -> "unknown"
    [] up["postgres"] /\ m \in Tables  -> ProbeTable(m)
    [] up["postgres"] /\ m = Payload   -> ProbePayload
    [] up["postgres"] /\ m = Window    -> ProbeWindow
    [] up["postgres"] /\ m = Bob       -> ProbeBob
    [] up["postgres"] /\ m = Service   -> ProbeService

ProbeOpa == IF up["proxy"] THEN Reading(running) ELSE "unknown"

\* Mutant: the file is taken for the policy.
TrustsTheFile == up["proxy"]

OpaHasLoadedTheBundle == up["proxy"] /\ current

ProbeBundle(v) ==
  IF bundle \in {"real", v} /\ OpaHasLoadedTheBundle THEN Reading(bundle = "real") ELSE "unknown"

MemoryUnreachable == shunned \/ ~up["memory"]

ProbeMemory(s) ==
  IF MemoryUnreachable THEN "absent" ELSE Reading(s \notin armed \union leftover)

ProbeSwitch(w) ==
  IF w \in switched THEN "armed" ELSE IF up["broker"] THEN "correct" ELSE "absent"

Probe(m) ==
  CASE m \in Database -> ProbeDatabase(m)
    [] m = OpaStop    -> ProbeOpa
    [] m \in Variants -> ProbeBundle(m)
    [] m \in Settings -> ProbeMemory(m)
    [] m \in Switches -> ProbeSwitch(m)

\* A connection that fails is remembered; inside the window none is tried.
Remembers(m) == shunned' = (shunned \/ (m \in Settings /\ ~up["memory"]))

---------------------------------------------------------------------------
(* What apply and restore do, as effects <<kind, control, arming>>.         *)

RestartOpa == << <<"stop", OpaStop, FALSE>>, <<"start", OpaStop, FALSE>> >>

Apply(m) ==
  CASE m \in Database -> << <<"sql", m, TRUE>> >>
    [] m = OpaStop    -> << <<"stop", m, TRUE>> >>
    [] m \in Variants -> << <<"write", m, TRUE>> >> \o RestartOpa
    [] m \in Settings -> << <<"set", m, TRUE>> >>
    [] m \in Switches -> << <<"switch", m, TRUE>> >>

RestoreMemory(s) ==
  << <<"set", s, FALSE>> >> \o
  CASE s \in ByMemoryInit            -> << <<"init", s, FALSE>> >>
    [] s \in Leaky \ ByMemoryInit    -> << <<"clear", s, FALSE>> >>
    [] s \notin Leaky                -> <<>>

Restore(m) ==
  CASE m \in Database -> << <<"sql", m, FALSE>> >>
    [] m = OpaStop    -> << <<"start", m, FALSE>> >>
    [] m \in Variants -> << <<"write", m, FALSE>> >> \o RestartOpa
    [] m \in Settings -> RestoreMemory(m)
    [] m \in Switches -> << <<"switch", m, FALSE>> >>

---------------------------------------------------------------------------
(* The effects: each leaves what it does not name as it is.                 *)

CallTable(t, arm) ==
  /\ t \in Tables
  /\ forced' = [forced EXCEPT ![t] = ~arm]
  /\ UNCHANGED <<requests, tampered, bob, service>>

TamperPayload ==
  /\ UNCHANGED <<forced, bob, service>>
  /\ IF tampered # {} THEN UNCHANGED <<requests, tampered>>
     ELSE /\ NewestOf45 # {}
          /\ tampered' = NewestOf45
          /\ requests' = [i \in DOMAIN requests |->
               [requests[i] EXCEPT !.amount = IF i \in NewestOf45 THEN "4500" ELSE @]]

\* Mutant: the newest pending refund is given the amount the challenge names.
RestoreNewest ==
  /\ requests' = [i \in DOMAIN requests |->
       [requests[i] EXCEPT !.amount = IF i \in NewestPending THEN "45" ELSE @]]
  /\ tampered' = {}
  /\ UNCHANGED <<forced, bob, service>>

\* The role that owns the function may update pending requests only: a request
\* decided meanwhile is passed over in silence, and its record is dropped too.
RestorePayload ==
  /\ requests' = [i \in DOMAIN requests |->
       [requests[i] EXCEPT !.amount =
          IF i \in tampered \intersect Pending THEN requests[i].asked ELSE @]]
  /\ tampered' = {}
  /\ UNCHANGED <<forced, bob, service>>

MoveWindow(arm) ==
  /\ requests' = [i \in DOMAIN requests |->
       [requests[i] EXCEPT !.window =
          IF i \in NewestPending THEN IF arm THEN "moved" ELSE "open" ELSE @]]
  /\ UNCHANGED <<forced, tampered, bob, service>>

\* Every active manager is demoted; a membership that exists already collides.
DemoteManagers ==
  /\ bob \/ "support_manager" \in service
  /\ service # {"support_manager", "support_agent"}
  /\ bob' = FALSE
  /\ service' = IF service = {} THEN {} ELSE {"support_agent"}
  /\ UNCHANGED <<forced, requests, tampered>>

RestoreBob ==
  /\ ~bob
  /\ bob' = TRUE
  /\ UNCHANGED <<forced, requests, tampered, service>>

GrantService ==
  /\ service' = service \union {"support_manager"}
  /\ UNCHANGED <<forced, requests, tampered, bob>>

WithdrawService ==
  /\ service # {}
  /\ service' = {}
  /\ UNCHANGED <<forced, requests, tampered, bob>>

CallFunction(m, arm) ==
  /\ up["postgres"]
  /\ \/ CallTable(m, arm)
     \/ m = Payload /\ arm  /\ TamperPayload
     \/ m = Payload /\ ~arm /\ RestorePayload
     \/ m = Window  /\ MoveWindow(arm)
     \/ m = Bob     /\ arm  /\ DemoteManagers
     \/ m = Bob     /\ ~arm /\ RestoreBob
     \/ m = Service /\ arm  /\ GrantService
     \/ m = Service /\ ~arm /\ WithdrawService
  /\ UNCHANGED <<bundle, loaded, current, running, armed, leftover, inflight, late, switched>>

\* The policy with the condition the control names taken out, or as it is.
PolicyText(m, arm) == IF arm THEN m ELSE "real"

WriteBundle(text) ==
  /\ bundle' = text /\ current' = FALSE
  /\ UNCHANGED <<forced, requests, tampered, bob, service, loaded, running, armed, leftover,
                 inflight, late, switched>>

OpaStops ==
  /\ up["proxy"]
  /\ running' = FALSE
  /\ UNCHANGED <<forced, requests, tampered, bob, service, bundle, loaded, current, armed,
                 leftover, inflight, late, switched>>

\* Starting a container that runs changes nothing; one that starts reads the bundle.
OpaLoads ==
  /\ running' = TRUE
  /\ IF running THEN UNCHANGED <<loaded, current>> ELSE loaded' = bundle /\ current' = TRUE
  /\ UNCHANGED <<forced, requests, tampered, bob, service, bundle, armed, leftover, inflight,
                 late, switched>>

SetSetting(s, arm) ==
  /\ ~MemoryUnreachable
  /\ armed' = IF arm THEN armed \union {s} ELSE armed \ {s}
  /\ UNCHANGED <<forced, requests, tampered, bob, service, bundle, loaded, current, running,
                 leftover, inflight, late, switched>>

ClearLeftovers(s) ==
  /\ leftover' = leftover \ {s} /\ late' = late \ {s}
  /\ UNCHANGED <<forced, requests, tampered, bob, service, bundle, loaded, current, running,
                 armed, inflight, switched>>

SetSwitch(w, arm) ==
  /\ switched' = IF arm THEN switched \union {w} ELSE switched \ {w}
  /\ UNCHANGED <<forced, requests, tampered, bob, service, bundle, loaded, current, running,
                 armed, leftover, inflight, late>>

\* memory-init is a container beside the memory stack: it needs both to finish.
Effect(e) ==
  LET kind == e[1]  m == e[2]  arm == e[3] IN
  \/ kind = "sql"    /\ CallFunction(m, arm)
  \/ kind = "write"  /\ WriteBundle(PolicyText(m, arm))
  \/ kind = "stop"   /\ OpaStops
  \/ kind = "start"  /\ up["proxy"] /\ OpaLoads
  \/ kind = "set"    /\ SetSetting(m, arm)
  \/ kind = "clear"  /\ ~MemoryUnreachable /\ ClearLeftovers(m)
  \/ kind = "init"   /\ up["proxy"] /\ up["memory"] /\ ClearLeftovers(m)
  \/ kind = "switch" /\ SetSwitch(m, arm)

\* The call raises and changes nothing.
Refused(e) ==
  LET kind == e[1]  m == e[2]  arm == e[3] IN
  \/ kind = "sql" /\ ~up["postgres"]
  \/ kind = "sql" /\ m = Payload /\ arm /\ tampered = {} /\ NewestOf45 = {}
  \/ kind = "sql" /\ m = Bob /\ arm /\ ~bob /\ "support_manager" \notin service
  \/ kind = "sql" /\ m = Bob /\ arm /\ service = {"support_manager", "support_agent"}
  \/ kind = "sql" /\ m = Bob /\ ~arm /\ bob
  \/ kind = "sql" /\ m = Service /\ ~arm /\ service = {}
  \/ kind \in {"stop", "start"} /\ ~up["proxy"]
  \/ kind \in {"set", "clear"} /\ MemoryUnreachable
  \/ kind = "init" /\ (~up["proxy"] \/ ~up["memory"])

---------------------------------------------------------------------------
(* The console: one action at a time, step by step.                         *)

Answer(what) == console' = [console EXCEPT !.op = "none", !.at = "idle", !.answer = what]

Press(op, m) ==
  /\ console.op = "none"
  /\ op = "arm" => arms < MaxArms
  /\ arms' = IF op = "arm" THEN arms + 1 ELSE arms
  /\ console' = [Idle EXCEPT !.op = op, !.id = m,
       !.at = CASE op = "arm" -> "intent" [] op = "restore" -> "perform" [] op = "reset" -> "probe",
       !.todo = IF op = "restore" THEN Restore(m) ELSE <<>>]
  /\ UNCHANGED <<world, up, shunned, intents, events>>

RecordIntent ==
  /\ console.at = "intent"
  /\ IF up["postgres"]
     THEN /\ intents' = intents \union {console.id}
          /\ console' = [console EXCEPT !.at = "perform", !.todo = Apply(console.id)]
     ELSE /\ Answer("failed")
          /\ UNCHANGED intents
  /\ UNCHANGED <<world, up, shunned, arms, events>>

Perform ==
  /\ console.at = "perform" /\ console.todo # <<>>
  /\ Effect(Head(console.todo))
  /\ console' = [console EXCEPT !.todo = Tail(@)]
  /\ UNCHANGED <<up, shunned, intents, arms, events>>

Raise ==
  /\ console.at = "perform" /\ console.todo # <<>>
  /\ Refused(Head(console.todo))
  /\ console' = [console EXCEPT !.todo = <<>>, !.raised = TRUE]
  /\ shunned' = (shunned \/ (Head(console.todo)[1] \in {"set", "clear"} /\ ~up["memory"]))
  /\ UNCHANGED <<world, up, intents, arms, events>>

\* The container does change state, after the wait for it has given up.
WaitTimesOut ==
  /\ console.at = "perform" /\ console.todo # <<>> /\ events < MaxEvents
  /\ Head(console.todo)[1] \in {"stop", "start", "init"}
  /\ Effect(Head(console.todo))
  /\ events' = events + 1
  /\ console' = [console EXCEPT !.todo = <<>>, !.raised = TRUE]
  /\ UNCHANGED <<up, shunned, intents, arms>>

Performed == console.at = "perform" /\ console.todo = <<>>

\* The outcome's row, then the probe the learner is shown.
FinishArm ==
  /\ console.op = "arm" /\ Performed
  /\ Answer(IF console.raised \/ ~up["postgres"] THEN "failed" ELSE Probe(console.id))
  /\ Remembers(console.id)
  /\ UNCHANGED <<world, up, intents, arms, events>>

FinishRestore ==
  /\ console.op = "restore" /\ Performed
  /\ Answer(IF console.raised \/ ~up["postgres"] THEN "failed" ELSE Probe(console.id))
  /\ Remembers(console.id)
  /\ UNCHANGED <<world, up, intents, arms, events>>

Wrong(m) == Probe(m) \notin {"correct", "absent"}

ProbeNext ==
  /\ console.at = "probe" /\ console.next <= Len(Order)
  /\ LET m == Order[console.next] IN
     /\ console' = [console EXCEPT !.next = @ + 1,
          !.wrong = IF Wrong(m) THEN @ \union {m} ELSE @]
     /\ Remembers(m)
  /\ UNCHANGED <<world, up, intents, arms, events>>

StartSweep ==
  /\ console.at = "probe" /\ console.next > Len(Order)
  /\ console' = [console EXCEPT !.at = "sweep"]
  /\ UNCHANGED <<world, up, shunned, intents, arms, events>>

Awaiting == {i \in DOMAIN Order : Order[i] \in console.wrong \ console.changed}

\* The next control the probes found wrong; its turn counts before it works.
RestoreNext ==
  /\ console.at = "sweep"
  /\ \E i \in Awaiting :
       /\ \A j \in Awaiting : i <= j
       /\ console' = [console EXCEPT !.at = "perform", !.id = Order[i], !.todo = Restore(Order[i]),
                                     !.raised = FALSE, !.changed = @ \union {Order[i]}]
  /\ UNCHANGED <<world, up, shunned, intents, arms, events>>

\* Mutant: a restore that raises ends the sweep.
RestoredOrEnd ==
  /\ console.op = "reset" /\ Performed
  /\ console' = IF console.raised
                THEN [console EXCEPT !.at = "check", !.next = 1, !.failed = @ \union {console.id}]
                ELSE [console EXCEPT !.at = "sweep"]
  /\ UNCHANGED <<world, up, shunned, intents, arms, events>>

RestoredNext ==
  /\ console.op = "reset" /\ Performed
  /\ console' = [console EXCEPT !.at = "sweep",
       !.failed = IF console.raised THEN @ \union {console.id} ELSE @]
  /\ UNCHANGED <<world, up, shunned, intents, arms, events>>

StartCheck ==
  /\ console.at = "sweep" /\ Awaiting = {}
  /\ console' = [console EXCEPT !.at = "check", !.next = 1]
  /\ UNCHANGED <<world, up, shunned, intents, arms, events>>

CheckNext ==
  /\ console.at = "check" /\ console.next <= Len(Order)
  /\ LET m == Order[console.next] IN
     /\ console' = [console EXCEPT !.next = @ + 1, !.read[m] = Probe(m)]
     /\ Remembers(m)
  /\ UNCHANGED <<world, up, intents, arms, events>>

\* Mutant: restores that did not raise are taken to have restored.
FailedOnly == console.failed

StillArmed == {m \in Ids : console.read[m] \notin {"correct", "absent"}} \union console.failed

FinishReset ==
  /\ console.at = "check" /\ console.next > Len(Order)
  /\ Answer(IF StillArmed = {} /\ up["postgres"] THEN "restored" ELSE "failed")
  /\ UNCHANGED <<world, up, shunned, intents, arms, events>>

ConsoleStep ==
  \/ RecordIntent \/ Perform \/ Raise \/ WaitTimesOut \/ FinishArm \/ FinishRestore
  \/ ProbeNext \/ StartSweep \/ RestoreNext \/ RestoredNext \/ StartCheck \/ CheckNext
  \/ FinishReset

---------------------------------------------------------------------------
(* What happens around the Range.                                           *)

Happens == events < MaxEvents /\ events' = events + 1

RangeStops ==
  /\ Happens /\ console.op # "none"
  /\ console' = Idle /\ shunned' = FALSE
  /\ UNCHANGED <<world, up, intents, arms>>

SystemStops(s) ==
  /\ Happens /\ up[s]
  /\ up' = [up EXCEPT ![s] = FALSE]
  /\ UNCHANGED <<world, shunned, intents, arms, console>>

SystemReturns(s) ==
  /\ ~up[s]
  /\ up' = [up EXCEPT ![s] = TRUE]
  /\ UNCHANGED <<world, shunned, intents, arms, events, console>>

TenSecondsPass ==
  /\ shunned /\ shunned' = FALSE
  /\ UNCHANGED <<world, up, intents, arms, events, console>>

\* restart: unless-stopped brings an OPA that crashed back, and it reads the bundle.
OpaRestarts ==
  /\ Happens /\ running
  /\ loaded' = bundle /\ current' = TRUE
  /\ UNCHANGED <<forced, requests, tampered, bob, service, bundle, running, armed, leftover,
                 inflight, late, switched, up, shunned, intents, arms, console>>

\* opa-bundle-init copies the repository's policy; compose starts OPA if it is stopped.
ComposeUp ==
  /\ Happens
  /\ bundle' = "real" /\ running' = TRUE
  /\ IF running THEN current' = FALSE /\ UNCHANGED loaded ELSE current' = TRUE /\ loaded' = "real"
  /\ UNCHANGED <<forced, requests, tampered, bob, service, armed, leftover, inflight, late,
                 switched, up, shunned, intents, arms, console>>

Propose ==
  /\ Happens /\ Len(requests) < MaxRequests
  /\ \E amount \in {"45", "1"} :
       requests' = Append(requests, Proposed(amount))
  /\ UNCHANGED <<forced, tampered, bob, service, bundle, loaded, current, running, armed,
                 leftover, inflight, late, switched, up, shunned, intents, arms, console>>

RequestEnds ==
  /\ Happens
  /\ \E i \in DOMAIN requests :
       \/ /\ requests[i].pending
          /\ requests' = [requests EXCEPT ![i].pending = FALSE, ![i].ended = requests[i].amount]
       \/ requests[i].window = "open" /\ requests' = [requests EXCEPT ![i].window = "aged"]
  /\ UNCHANGED <<forced, tampered, bob, service, bundle, loaded, current, running, armed,
                 leftover, inflight, late, switched, up, shunned, intents, arms, console>>

\* A request to memory reads a leaky setting while it is armed.
LetsThrough(s) ==
  /\ Happens /\ up["memory"] /\ s \in armed \intersect Leaky
  /\ inflight' = inflight \union {s}
  /\ UNCHANGED <<forced, requests, tampered, bob, service, bundle, loaded, current, running, armed,
                 leftover, late, switched, up, shunned, intents, arms, console>>

\* Its transaction commits, by then perhaps with the setting put back.
Commits(s) ==
  /\ up["memory"] /\ s \in inflight
  /\ inflight' = inflight \ {s} /\ leftover' = leftover \union {s}
  /\ late' = IF s \in armed THEN late ELSE late \union {s}
  /\ UNCHANGED <<forced, requests, tampered, bob, service, bundle, loaded, current, running, armed,
                 switched, up, shunned, intents, arms, events, console>>

Environment ==
  \/ RangeStops \/ TenSecondsPass \/ OpaRestarts \/ ComposeUp \/ Propose \/ RequestEnds
  \/ \E s \in Systems : SystemStops(s) \/ SystemReturns(s)
  \/ \E s \in Settings : LetsThrough(s) \/ Commits(s)

Next ==
  \/ \E m \in Ids : Press("arm", m) \/ Press("restore", m)
  \/ Press("reset", OpaStop)
  \/ ConsoleStep
  \/ Environment

Spec == Init /\ [][Next]_vars

---------------------------------------------------------------------------
(* Properties.                                                              *)

\* A control is armed as the systems have it, whatever a probe reports.
IsArmed(m) ==
  \/ m \in Tables   /\ ~forced[m]
  \/ m = Payload    /\ \E i \in Pending : requests[i].amount # requests[i].asked
  \/ m = Window     /\ \E i \in Pending : requests[i].window = "moved"
  \/ m = Bob        /\ ~bob
  \/ m = Service    /\ service # {}
  \/ m = OpaStop    /\ ~running
  \/ m \in Variants /\ m \in {bundle, loaded}
  \/ m \in Settings /\ m \in armed \union leftover
  \/ m \in Switches /\ m \in switched

\* Every variable and every field of the console's record keeps its type.
TypeOK ==
  /\ forced \in [Tables -> BOOLEAN]
  /\ requests \in Seq(Request) /\ tampered \subseteq DOMAIN requests
  /\ bob \in BOOLEAN /\ service \subseteq {"support_manager", "support_agent"}
  /\ {bundle, loaded} \subseteq Variants \union {"real"}
  /\ current \in BOOLEAN /\ running \in BOOLEAN
  /\ armed \subseteq Settings /\ {leftover, inflight, late} \subseteq SUBSET Leaky
  /\ switched \subseteq Switches
  /\ up \in [Systems -> BOOLEAN] /\ shunned \in BOOLEAN
  /\ intents \subseteq Ids /\ arms \in Nat /\ events \in Nat
  /\ console \in [op: {"none", "arm", "restore", "reset"},
                  at: {"idle", "intent", "perform", "probe", "sweep", "check"},
                  id: Ids, todo: Seq(Effects \X Ids \X BOOLEAN), raised: BOOLEAN, next: Nat,
                  read: [Ids -> Readings], wrong: SUBSET Ids, changed: SUBSET Ids,
                  failed: SUBSET Ids,
                  answer: Readings \union {"none", "failed", "restored"}]

\* A reset that answers without raising leaves no control armed, through
\* outages, timeouts, compose runs, proposals and decisions in the middle of
\* its sweep. What can be left, apart from the approval window (see
\* ResetRestoresTheWindow), is a control of memory-db it read as absent, and
\* what a request to memory committed after the reset had put its setting back
\* and read it as correct: the reset waits for no transaction under way. A
\* request decided with the altered payload is not armed here: no restore
\* reaches it any more, and the worker refuses its hash.
ResetRestores ==
  console.answer = "restored" =>
    \A m \in Ids \ {Window} : IsArmed(m) =>
      /\ m \in Settings
      /\ console.read[m] = "absent" \/ (m \notin armed /\ m \in late)

\* The same claim for the approval window: after a reset that answered
\* without raising, no pending request is left with the window the Range moved.
ResetRestoresTheWindow == console.answer = "restored" => ~IsArmed(Window)

\* A policy probe reads correct, or armed, only when that is the policy OPA
\* enforces: never from the file alone, which compose or a failed restart
\* can leave different from what OPA loaded.
BundleProbeIsHonest ==
  \A v \in Variants :
    /\ ProbeBundle(v) = "correct" => loaded = "real"
    /\ ProbeBundle(v) = "armed"   => loaded = v

\* Nothing is armed that was not written down first: whatever fails or stops,
\* a control found armed has an arming_requested row. A stopped OPA may also
\* be what a restart of it left, so that one is asked of the bundle's controls.
ArmedIsWritten == \A m \in Ids \ {OpaStop} : IsArmed(m) => m \in intents

\* One control that cannot be restored does not keep the sweep from the rest:
\* when a reset ends, a control that it found wrong and that it did not fail
\* to restore is no longer armed, for the controls nothing else changes.
FailuresDoNotSpread ==
  console.at = "check" =>
    \A m \in console.wrong \intersect (Tables \union Switches \union {Payload, Service}) :
      IsArmed(m) => m \in console.failed

\* The Range alters and restores only the request it holds: any other that is
\* pending has the amount it was proposed with, and a request that was decided
\* keeps the amount it had then, through arms, restores and resets.
GenuineRequestsKeepTheirPayload ==
  \A i \in DOMAIN requests :
    /\ requests[i].pending /\ i \notin tampered => requests[i].amount = requests[i].asked
    /\ ~requests[i].pending => requests[i].amount = requests[i].ended
=============================================================================
