-------------------------------- MODULE Probe --------------------------------
(* The probe service and the Range's use of it: fixed requests named by id,  *)
(* made on behalf of lab users (services/probe), and the observations and    *)
(* flag checks that run them (services/range: probe.py, registry.py,         *)
(* main.py). A run is a sequence of HTTP calls. The Range handles one        *)
(* console action at a time, but it may stop waiting while the run goes on,  *)
(* and then runs overlap; a call may fail with or without its effect. Which  *)
(* tokens the broker mints is Delegation's subject, how the memory service   *)
(* writes is MemoryStore's.                                                  *)
EXTENDS Directory, Sequences

CONSTANTS
  Calls,            \* runs that may be under way together
  MaxPages,         \* Enumeration.max_pages
  ShownForgotten,   \* the LIMIT of range_mem.remaining_copies
  Entries,          \* the entries of the registry that are asked for
  MaxCalls, MaxFaults, MaxChanges   \* bounds

Known == {"search", "forget", "confirm", "gateway", "direct", "exchange", "chain"}

ASSUME ProbeAssumption ==
  /\ Entries \subseteq Known
  /\ MaxPages \in Nat \ {0} /\ ShownForgotten \in Nat \ {0}
  /\ MaxCalls \in Nat /\ MaxFaults \in Nat /\ MaxChanges \in Nat

(* registry.SCENARIOS, as far as two of them share the records of one user:  *)
(* store, confirm, summarise and forget a memory; confirm the one on top of  *)
(* those waiting.                                                            *)
Scenario == [forget  |-> <<"remember", "confirm", "summarise", "forget">>,
             confirm |-> <<"pending", "confirm">>]
Delegated == {"gateway", "direct", "exchange", "chain"}

VARIABLES
  call,        \* one console request of the Range and its run in the probe
  memory,      \* alice's records in mem.records, in order of creation
  forgotten,   \* those a user forgot and that derive from none, in order
  scope,       \* forget.scope: "all", "primary", or "restored" until memory-init ran
  minted,      \* _last_minted
  shown,       \* history: survivors an observation has shown
  verdict,     \* history: the last flag check of a survivor
  obtained,    \* history: <<run, how>> of every token a run obtained
  runs, faults, changes

probeVars == <<call, memory, forgotten, scope, minted, shown, verdict, obtained, runs>>
serviceVars == <<dirVars, probeVars, faults, changes>>

Nothing   == [via |-> "nothing", run |-> 0]
NoVerdict == [answer |-> 0, correct |-> TRUE, lives |-> FALSE, since |-> {}]

(* Of a delegation, held is the token in hand, token what the row says of    *)
(* it, reached what got to the API, and status how the run answered.         *)
NoCall == [entry |-> "none", run |-> 0, answer |-> 0, waiting |-> FALSE, pc |-> "idle",
           position |-> Start, seen |-> {}, steady |-> {}, twice |-> {}, pages |-> 0,
           refused |-> FALSE, step |-> 1, captured |-> 0, held |-> "", token |-> "",
           reached |-> "", status |-> ""]

ServiceInit ==
  /\ DirectoryInit
  /\ call = [c \in Calls |-> NoCall]
  /\ memory = << >> /\ forgotten = << >> /\ scope = "all"
  /\ minted = Nothing /\ shown = {} /\ verdict = NoVerdict /\ obtained = {}
  /\ runs = 0 /\ faults = MaxFaults /\ changes = MaxChanges

Strikes == faults > 0 /\ faults' = faults - 1

Becomes(c, new) == call' = [call EXCEPT ![c] = new]

-----------------------------------------------------------------------------
(* What the registry's observation reads once its scenario was run.          *)

LastOfSeq(s, n) == {s[i] : i \in {j \in 1..Len(s) : j > Len(s) - n}}

(* Mutant: only the memory forgotten last.                                   *)
TargetsOne == LastOfSeq(forgotten, 1)

Targets == LastOfSeq(forgotten, ShownForgotten)

Family(root) == {r \in 1..Len(memory) : r = root \/ memory[r].from = root}

(* A record that outlived the forget, or a point that outlived its record.   *)
Outlives(r) == IF memory[r].state = "live" THEN memory[r].from # 0 ELSE memory[r].point

Survivors == {r \in UNION {Family(t) : t \in Targets} : Outlives(r)}

RootOf(r) == IF memory[r].from = 0 THEN r ELSE memory[r].from

(* The runs, but its own, that stored a memory and were not over when the    *)
(* memory r belongs to was forgotten: those that may have forgotten one since. *)
OthersSince(r) ==
  LET root == memory[RootOf(r)]
  IN {memory[i].by : i \in 1..Len(memory)} \ (root.over \cup {root.by})

(* console: the observation is shown, or _check_flag compares its values     *)
(* with the answer. Only remaining_copies leaves anything to compare later.  *)
Reads(c) ==
  LET a == call[c].answer
  IN IF call[c].entry # "forget" THEN UNCHANGED <<shown, verdict>>
     ELSE IF a = 0 THEN shown' = shown \cup Survivors /\ UNCHANGED verdict
     ELSE /\ verdict' = [answer |-> a, correct |-> a \in Survivors,
                         lives |-> Outlives(a), since |-> OthersSince(a)]
          /\ UNCHANGED shown

-----------------------------------------------------------------------------
(* console never yields: nothing else is asked of the Range while it waits.  *)
Waiting == \E c \in Calls : call[c].waiting

(* The Range asks for an entry, to observe or (an answer) to check a flag.   *)
Ask(c, entry, answer) ==
  /\ ~Waiting /\ call[c].pc = "idle" /\ runs < MaxCalls
  /\ answer = 0 \/ (entry = "forget" /\ answer \in shown)
  /\ runs' = runs + 1
  /\ Becomes(c, [NoCall EXCEPT !.entry = entry, !.run = runs + 1, !.answer = answer,
                               !.waiting = TRUE, !.pc = "token"])
  /\ UNCHANGED <<dirVars, memory, forgotten, scope, minted, shown, verdict, obtained, faults,
                 changes>>

(* The run's first step, for the entry it is of.                             *)
FirstStep(entry) ==
  IF entry = "search" THEN "page"
  ELSE IF entry \in Delegated THEN entry
  ELSE "step"

Found == After(Start)

(* _token_for.                                                               *)
GetToken(c) ==
  /\ call[c].pc = "token"
  /\ Becomes(c, [call[c] EXCEPT !.pc = FirstStep(call[c].entry),
                   !.steady = IF call[c].entry = "search" THEN Found ELSE {}])
  /\ UNCHANGED <<dirVars, memory, forgotten, scope, minted, shown, verdict, obtained, runs,
                 faults, changes>>

(* What may have got to the API by a call that then fails.                   *)
MayHaveReached(k) ==
  {""} \cup CASE k.pc = "api"     -> {k.held}
              [] k.pc = "direct"  -> {"own"}
              [] k.pc = "gateway" -> {"gateway", "passthrough"}
              [] OTHER            -> {}

(* Mutant: the row of a chain describes the token of the first exchange.     *)
FirstToken(k) == IF k.entry = "chain" THEN "exchange" ELSE k.held

(* What the row of an exchange describes, set before the API is called.      *)
RowToken(k) == k.held

(* A call fails and the run with it: 502, and nothing of what it counted; a  *)
(* delegation answers with its row as far as it was filled in. Only a        *)
(* scenario goes on after a failed step.                                     *)
RunFails(c) ==
  LET k == call[c]
  IN /\ k.pc \in {"token", "page"} \cup Delegated \cup {"again", "api"}
     /\ Strikes
     /\ \E sent \in MayHaveReached(k) :
          Becomes(c, [k EXCEPT !.pc = "failed", !.status = "failed", !.reached = sent,
                               !.token = IF k.pc = "api" THEN RowToken(k) ELSE ""])
     /\ UNCHANGED <<dirVars, memory, forgotten, scope, minted, shown, verdict, obtained, runs,
                    changes>>

(* The Range's own timeout, shorter than the run may take: the observation   *)
(* is read as if the run had ended. Or the Range itself stops, and reads     *)
(* nothing. The run goes on.                                                 *)
GivesUp(c) ==
  /\ call[c].waiting /\ call[c].pc \notin {"idle", "done", "failed"}
  /\ Strikes
  /\ Reads(c) \/ UNCHANGED <<shown, verdict>>
  /\ Becomes(c, [call[c] EXCEPT !.waiting = FALSE])
  /\ UNCHANGED <<dirVars, memory, forgotten, scope, minted, obtained, runs, changes>>

(* The answer arrives, at the Range or at a connection nobody reads.         *)
Answered(c) ==
  /\ call[c].pc \in {"done", "failed"}
  /\ IF call[c].waiting THEN Reads(c) ELSE UNCHANGED <<shown, verdict>>
  /\ Becomes(c, NoCall)
  /\ UNCHANGED <<dirVars, memory, forgotten, scope, minted, obtained, runs, faults, changes>>

-----------------------------------------------------------------------------
(* run_enumeration: the pages of one search, up to a ceiling.                *)

(* Mutant: one page too many.                                                *)
PastCeiling(pages) == pages > MaxPages

AtCeiling(pages) == pages = MaxPages

Page(c) ==
  LET k == call[c]
      answer == Search(k.position)
  IN /\ k.pc = "page"
     /\ IF answer.status = 200
          THEN Becomes(c, [k EXCEPT
                 !.pages = @ + 1, !.seen = @ \cup answer.rows,
                 !.twice = @ \cup (k.seen \cap answer.rows \cap k.steady),
                 !.position = answer.next,
                 !.pc = IF answer.next = Start \/ AtCeiling(k.pages + 1) THEN "done" ELSE @])
          ELSE Becomes(c, [k EXCEPT !.pages = @ + 1, !.refused = TRUE, !.pc = "done"])
     /\ UNCHANGED <<dirVars, memory, forgotten, scope, minted, shown, verdict, obtained, runs,
                    faults, changes>>

(* Another status: the API or what it depends on is out of service.          *)
PageRefused(c) ==
  /\ call[c].pc = "page"
  /\ Strikes
  /\ Becomes(c, [call[c] EXCEPT !.pages = @ + 1, !.refused = TRUE, !.pc = "done"])
  /\ UNCHANGED <<dirVars, memory, forgotten, scope, minted, shown, verdict, obtained, runs,
                 changes>>

EveryCallAllowed(k)   == k.pages > 0 /\ ~k.refused
MorePagesRemaining(k) == k.position # Start

(* Outside hands, between two pages of anyone's walk.                        *)
Edit(c, name) ==
  /\ changes > 0 /\ changes' = changes - 1
  /\ Edited(c, name) /\ UNCHANGED searcher
  /\ call' = [k \in Calls |-> [call[k] EXCEPT !.steady = @ \ {c}]]
  /\ UNCHANGED <<memory, forgotten, scope, minted, shown, verdict, obtained, runs, faults>>

ChangeMembership ==
  /\ changes > 0 /\ changes' = changes - 1
  /\ MembershipChanged
  /\ UNCHANGED <<probeVars, faults>>

-----------------------------------------------------------------------------
(* run_scenario: each step of the registry, with the value an earlier one    *)
(* returned.                                                                 *)
Op(k) == Scenario[k.entry][k.step]

NeedsValue(op) == op \in {"confirm", "summarise", "forget"}

Live(r) == r \in 1..Len(memory) /\ memory[r].state = "live"

Unconfirmed == {r \in 1..Len(memory) : Live(r) /\ memory[r].status = "unconfirmed"}

LatestOf(S) == IF S = {} THEN 0 ELSE Max(S)

(* What the step's answer holds, when there is one: the id of the memory     *)
(* just stored, or the first of those waiting.                               *)
Returned(op) == CASE op = "remember" -> Len(memory) + 1
                  [] op = "pending"  -> LatestOf(Unconfirmed)
                  [] OTHER           -> 0

Record(run, status, from) ==
  [status |-> status, state |-> "live", from |-> from, point |-> TRUE, by |-> run, gone |-> 0,
   over |-> {}]

(* The runs that are over.                                                   *)
Over == (1..runs) \ {call[c].run : c \in {d \in Calls : call[d].pc \notin {"done", "failed"}}}

(* mem.forget_records, and the points, unless forget.scope is primary.       *)
Removed(id) == IF scope = "primary" THEN {id} ELSE {r \in Family(id) : Live(r)}

Forgotten(id, run) ==
  [r \in DOMAIN memory |->
     IF r \in Removed(id)
       THEN [memory[r] EXCEPT !.state = "forgotten", !.gone = run, !.over = Over,
                              !.point = scope = "primary"]
       ELSE memory[r]]

(* What the memory service does about a step: nothing, where it answers 404. *)
Does(op, id, run) ==
  CASE op = "remember" ->
         memory' = Append(memory, Record(run, "unconfirmed", 0)) /\ UNCHANGED forgotten
    [] op = "confirm" /\ id \in Unconfirmed ->
         memory' = [memory EXCEPT ![id].status = "confirmed"] /\ UNCHANGED forgotten
    [] op = "summarise" /\ Live(id) ->
         memory' = Append(memory, Record(run, memory[id].status, id)) /\ UNCHANGED forgotten
    [] op = "forget" /\ Live(id) ->
         /\ memory' = Forgotten(id, run)
         /\ forgotten' = IF memory[id].from = 0 THEN Append(forgotten, id) ELSE forgotten
    [] OTHER -> UNCHANGED <<memory, forgotten>>

NextStep(k) ==
  IF k.step = Len(Scenario[k.entry]) THEN [k EXCEPT !.pc = "done"] ELSE [k EXCEPT !.step = @ + 1]

(* The answer captured, if it holds a value.                                 *)
Capture(k, value) == IF value = 0 THEN k ELSE [k EXCEPT !.captured = value]

(* Mutant: captured values are kept in the service, not in the run.          *)
ValueShared(c) == Max({call[k].captured : k \in Calls})

Value(c) == call[c].captured

(* A step that needs a value no earlier step returned is not sent.           *)
Sendable(c) == NeedsValue(Op(call[c])) => Value(c) # 0

Step(c) ==
  LET k == call[c]
  IN /\ k.pc = "step" /\ Sendable(c)
     /\ Does(Op(k), Value(c), k.run)
     /\ Becomes(c, NextStep(Capture(k, Returned(Op(k)))))
     /\ UNCHANGED <<dirVars, scope, minted, shown, verdict, obtained, runs, faults, changes>>

SkipStep(c) ==
  /\ call[c].pc = "step" /\ ~Sendable(c)
  /\ Becomes(c, NextStep(call[c]))
  /\ UNCHANGED <<dirVars, memory, forgotten, scope, minted, shown, verdict, obtained, runs,
                 faults, changes>>

(* A step without an answer: done or not, nothing is captured, and the       *)
(* scenario goes on.                                                         *)
StepLost(c) ==
  LET k == call[c]
  IN /\ k.pc = "step" /\ Sendable(c)
     /\ Strikes
     /\ Does(Op(k), Value(c), k.run) \/ UNCHANGED <<memory, forgotten>>
     /\ Becomes(c, NextStep(k))
     /\ UNCHANGED <<dirVars, scope, minted, shown, verdict, obtained, runs, changes>>

(* The Range arms and restores forget.scope; a restore sets it back and then *)
(* runs memory-init, which completes what was left half forgotten.           *)
ArmPrimaryOnly ==
  /\ ~Waiting /\ scope = "all"
  /\ changes > 0 /\ changes' = changes - 1
  /\ scope' = "primary"
  /\ UNCHANGED <<dirVars, call, memory, forgotten, minted, shown, verdict, obtained, runs, faults>>

RestoreForgetScope ==
  /\ ~Waiting /\ scope = "primary" /\ scope' = "restored"
  /\ UNCHANGED <<dirVars, call, memory, forgotten, minted, shown, verdict, obtained, runs,
                 faults, changes>>

CompleteForgets ==
  /\ scope = "restored" /\ scope' = "all"
  /\ memory' = [r \in DOMAIN memory |->
       IF memory[r].state = "forgotten" \/ (memory[r].from # 0 /\ ~Live(memory[r].from))
         THEN [memory[r] EXCEPT !.state = "forgotten", !.point = FALSE]
         ELSE memory[r]]
  /\ UNCHANGED <<dirVars, call, forgotten, minted, shown, verdict, obtained, runs, faults, changes>>

-----------------------------------------------------------------------------
(* run_delegation: the platform through the gateway, the user's own token,   *)
(* an agent that exchanges it, and a second agent that exchanges the result. *)
Obtain(c, how) ==
  /\ Becomes(c, [call[c] EXCEPT !.pc = "clear", !.held = how])
  /\ obtained' = obtained \cup {<<call[c].run, how>>}

(* The gateway mints and forwards in one call, or lets the user's own token  *)
(* through; its answer carries the API's and names the token.                *)
Gateway(c) ==
  /\ call[c].pc = "gateway"
  /\ \E how \in {"gateway", "passthrough"} :
       /\ Becomes(c, [call[c] EXCEPT !.pc = "clear", !.held = how, !.token = how,
                                     !.reached = how, !.status = "answered"])
       /\ obtained' = obtained \cup {<<call[c].run, how>>}
  /\ UNCHANGED <<dirVars, memory, forgotten, scope, minted, shown, verdict, runs, faults, changes>>

(* The gateway has minted and forwarded, and gets no answer: 503, without    *)
(* the header. The row calls that a refusal before minting too.              *)
GatewayUnavailable(c) ==
  /\ call[c].pc = "gateway"
  /\ Strikes
  /\ \E sent \in MayHaveReached(call[c]) :
       Becomes(c, [call[c] EXCEPT !.pc = "done", !.token = "none", !.reached = sent,
                                  !.status = "unavailable"])
  /\ UNCHANGED <<dirVars, memory, forgotten, scope, minted, shown, verdict, obtained, runs,
                 changes>>

Direct(c) ==
  /\ call[c].pc = "direct"
  /\ Becomes(c, [call[c] EXCEPT !.pc = "done", !.held = "own", !.token = "own",
                                !.reached = "own", !.status = "answered"])
  /\ UNCHANGED <<dirVars, memory, forgotten, scope, minted, shown, verdict, obtained, runs,
                 faults, changes>>

Exchange(c) ==
  /\ \/ call[c].pc \in {"exchange", "chain"} /\ Obtain(c, "exchange")
     \/ call[c].pc = "again" /\ Obtain(c, "re-exchange")
  /\ UNCHANGED <<dirVars, memory, forgotten, scope, minted, shown, verdict, runs, faults, changes>>

(* _refused_exchange, or the gateway's refusal before it mints: the run ends *)
(* here, with whatever token an earlier exchange gave it.                    *)
BrokerRefuses(c) ==
  /\ call[c].pc \in {"gateway", "exchange", "chain", "again"}
  /\ Becomes(c, [call[c] EXCEPT !.pc = "done", !.token = "none", !.status = "refused"])
  /\ UNCHANGED <<dirVars, memory, forgotten, scope, minted, shown, verdict, obtained, runs,
                 faults, changes>>

(* _remember: cleared, then written. Another run's steps may come between.   *)
Clear(c) ==
  /\ call[c].pc = "clear"
  /\ minted' = Nothing
  /\ Becomes(c, [call[c] EXCEPT !.pc = "update"])
  /\ UNCHANGED <<dirVars, memory, forgotten, scope, shown, verdict, obtained, runs, faults,
                 changes>>

AfterToken(k) ==
  CASE k.held \in {"gateway", "passthrough"}           -> "done"
    [] k.held = "exchange" /\ k.entry = "chain"        -> "again"
    [] OTHER                                           -> "api"

Update(c) ==
  /\ call[c].pc = "update"
  /\ minted' = [via |-> call[c].held, run |-> call[c].run]
  /\ Becomes(c, [call[c] EXCEPT !.pc = AfterToken(call[c])])
  /\ UNCHANGED <<dirVars, memory, forgotten, scope, shown, verdict, obtained, runs, faults,
                 changes>>

CallApi(c) ==
  /\ call[c].pc = "api"
  /\ Becomes(c, [call[c] EXCEPT !.pc = "done", !.token = RowToken(call[c]),
                                !.reached = call[c].held, !.status = "answered"])
  /\ UNCHANGED <<dirVars, memory, forgotten, scope, minted, shown, verdict, obtained, runs,
                 faults, changes>>

-----------------------------------------------------------------------------
ServiceNext ==
  \/ \E c \in Calls, entry \in Entries, answer \in shown \cup {0} : Ask(c, entry, answer)
  \/ \E c \in Calls :
       \/ GetToken(c) \/ RunFails(c) \/ GivesUp(c) \/ Answered(c)
       \/ Page(c) \/ PageRefused(c)
       \/ Step(c) \/ SkipStep(c) \/ StepLost(c)
       \/ Gateway(c) \/ GatewayUnavailable(c) \/ Direct(c) \/ Exchange(c) \/ BrokerRefuses(c)
       \/ Clear(c) \/ Update(c) \/ CallApi(c)
  \/ \E c \in Customers, name \in Names \cup {Gone} : Edit(c, name)
  \/ ChangeMembership \/ ArmPrimaryOnly \/ RestoreForgetScope \/ CompleteForgets

ServiceSpec == ServiceInit /\ [][ServiceNext]_serviceVars

-----------------------------------------------------------------------------
Tokens == {"own", "gateway", "passthrough", "exchange", "re-exchange"}

Run == [entry : Known \cup {"none"}, run : 0..MaxCalls, answer : Nat, waiting : BOOLEAN,
        pc : {"idle", "token", "page", "step", "again", "clear", "update", "api", "done",
              "failed"} \cup Delegated,
        position : (Names \cup {0}) \X (Customers \cup {0}),
        seen : SUBSET Customers, steady : SUBSET Customers, twice : SUBSET Customers,
        pages : 0..MaxPages, refused : BOOLEAN, step : 1..4, captured : Nat,
        held : Tokens \cup {""}, token : Tokens \cup {"", "none"}, reached : Tokens \cup {""},
        status : {"", "answered", "refused", "unavailable", "failed"}]

MemoryRow == [status : {"unconfirmed", "confirmed"}, state : {"live", "forgotten"},
              from : Nat, point : BOOLEAN, by : 1..MaxCalls, gone : 0..MaxCalls,
              over : SUBSET (1..MaxCalls)]

(* Every request, record and report has the shape the code gives it.         *)
ServiceTypeOK ==
  /\ DirectoryTypeOK
  /\ call \in [Calls -> Run]
  /\ memory \in Seq(MemoryRow)
  /\ forgotten \in Seq(1..Len(memory))
  /\ scope \in {"all", "primary", "restored"}
  /\ shown \subseteq 1..Len(memory)
  /\ runs \in 0..MaxCalls /\ faults \in 0..MaxFaults /\ changes \in 0..MaxChanges

(* A walk whose every call was allowed and that reports no page remaining    *)
(* has counted each customer that was there, unchanged, from its first page  *)
(* to its last; no such customer was on two pages; and a walk that reports   *)
(* pages remaining with every call allowed stopped at its own ceiling. Rows  *)
(* come, go and are renamed between the pages (pagination.py).               *)
WalkCountsWhoStayed ==
  \A c \in Calls :
    LET k == call[c]
    IN k.entry = "search" /\ k.pc = "done" =>
         /\ EveryCallAllowed(k) /\ ~MorePagesRemaining(k) => k.steady \subseteq k.seen
         /\ EveryCallAllowed(k) /\ MorePagesRemaining(k) => k.pages = MaxPages
         /\ k.twice = {}

(* A scenario forgets only what the same run stored, and never the memory of *)
(* another run of the same user under way beside it, whatever answers were   *)
(* lost ("the only thing that moves between steps" is a value "from this     *)
(* service's own previous response", probe_service/registry.py).             *)
RunsForgetTheirOwn ==
  \A r \in 1..Len(memory) : memory[r].gone # 0 => memory[r].gone = memory[r].by

(* A flag check runs the scenario again before it looks, and so does every   *)
(* observation: "a survivor found a moment ago must still be there to be     *)
(* named" (0009:176-177). A survivor that still lives is nameable as long as *)
(* fewer than ShownForgotten other runs, the check's own among them, could   *)
(* have forgotten a memory since its own was: under way by then or asked     *)
(* for later, answered, lost or given up on.                                 *)
SurvivorStaysNameable ==
  ~verdict.correct /\ verdict.lives => Cardinality(verdict.since) >= ShownForgotten

(* The row of a delegation run against what reached the API. Of a run that   *)
(* was answered it names exactly the token that did, of one the broker       *)
(* refused none did, not even that of an earlier exchange, and of one that   *)
(* failed it names no other token than the one that did. Two rows tell less: *)
(* one without an answer from behind the gateway, which says that nothing    *)
(* was minted, and one of a failed call, which may name a token that reached *)
(* nothing. What is kept for the claims observation is a token some run      *)
(* obtained.                                                                 *)
RowTellsWhatReached ==
  /\ \A c \in Calls :
       LET k == call[c]
       IN k.pc \in {"done", "failed"} /\ k.entry \in Delegated =>
            \/ k.status = "answered" /\ k.token = k.reached /\ k.reached # ""
            \/ k.status = "refused" /\ k.token = "none" /\ k.reached = ""
            \/ k.status = "failed" /\ (k.reached = "" \/ k.token \in {"", k.reached})
            \/ k.status = "unavailable" /\ k.entry = "gateway"
  /\ minted # Nothing => <<minted.run, minted.via>> \in obtained
=============================================================================
