----------------------------- MODULE Knowledge -----------------------------
(* What the agent is told (services/memory): the organisation's rules, from  *)
(* proposal to retirement, the turns of a conversation, and the context      *)
(* block assembled from both. A request resolves its caller once and then    *)
(* runs statements and transactions that other requests, a change of         *)
(* membership and the lab's switches come between. Long-term memories, the   *)
(* third part of a block, are MemoryStore's subject.                         *)
EXTENDS Integers, FiniteSets, FiniteSetsExt

CONSTANTS
  People, Orgs, Roles,
  Written,                  \* the roles of the turns the runtime writes
  Hired,                    \* person -> the <<organisation, role>> pairs at first
  Requests,                 \* requests that may be in flight together
  RuleIds, SessionIds,      \* identifiers the store may hand out
  Texts,                    \* rule texts, which stand for their hashes
  HistoryTail,              \* HISTORY_TAIL, the turns of a block
  MaxTurns, MaxRequests,    \* bounds: turns stored, requests made,
  MaxChanges                \* memberships and switches changed

TurnRoles == {"user", "assistant", "tool"}
Approvers == {"support_manager", "finance_approver"}   \* APPROVER_ROLES
Nobody    == "nobody"
TheRange  == "the-range"
OtherText == "a text nobody proposed"

ASSUME KnowledgeAssumption ==
  /\ Hired \in [People -> SUBSET (Orgs \X Roles)]
  /\ Written \subseteq TurnRoles
  /\ {} \notin {People, Orgs, RuleIds, SessionIds, Texts}
  /\ Nobody \notin People /\ TheRange \notin People
  /\ HistoryTail \in Nat /\ MaxTurns \in Nat /\ MaxRequests \in Nat /\ MaxChanges \in Nat

RuleStates == {"none", "proposed", "active", "rejected", "retired"}
Revalidated == {"tool", "assistant"}                   \* REVALIDATED_ROLES
Switches   == {"rules.self_activate", "history.revalidate off", "history.org_readable"}
Steps      == {"idle", "authorised", "born", "inserted", "decidable", "numbered",
               "ruled", "assembled"}

VARIABLES
  held,       \* person -> memberships in the core database
  widened,    \* switches the Range has set
  rules, sessions, turns,
  trail,      \* audit events that say a rule was decided or retired
  request,    \* the requests in flight
  made,       \* requests made so far
  changes,    \* memberships and switches changed so far
  answer      \* what the last step answered

vars == <<held, widened, rules, sessions, turns, trail, request, made, changes, answer>>

\* decidedAs and bornWhile are not columns: the decider's roles as resolved,
\* and whether rules could activate themselves when the row was inserted.
Rule    == [org: Orgs, text: Texts, state: RuleStates, proposedBy: People,
            decidedBy: People \cup {Nobody}, retiredBy: People \cup {Nobody, TheRange},
            decidedAs: SUBSET Roles, bornWhile: BOOLEAN]
Session == [org: Orgs, owner: People \cup {Nobody}]
Turn    == [session: SessionIds, org: Orgs, owner: People, seq: Nat, role: TurnRoles,
            authz: SUBSET Roles]
Event   == [action: {"rule.decide", "rule.retire"}, rule: RuleIds, by: People \cup {TheRange},
            state: RuleStates]
Block   == [rules: SUBSET RuleIds, shown: SUBSET Turn, omitted: SUBSET Turn, revalidate: BOOLEAN]
Request == [step: Steps, who: People, org: Orgs, roles: SUBSET Roles, row: Rule,
            rule: RuleIds, verdict: RuleStates, session: SessionIds, seq: Nat,
            role: TurnRoles, block: Block]

AnyOf(S) == CHOOSE x \in S : TRUE
NoRule   == [org |-> AnyOf(Orgs), text |-> AnyOf(Texts), state |-> "none",
             proposedBy |-> AnyOf(People), decidedBy |-> Nobody, retiredBy |-> Nobody,
             decidedAs |-> {}, bornWhile |-> FALSE]
NoSession == [org |-> AnyOf(Orgs), owner |-> Nobody]
NoBlock  == [rules |-> {}, shown |-> {}, omitted |-> {}, revalidate |-> TRUE]
Idle     == [step |-> "idle", who |-> AnyOf(People), org |-> AnyOf(Orgs), roles |-> {},
             row |-> NoRule, rule |-> AnyOf(RuleIds), verdict |-> "none",
             session |-> AnyOf(SessionIds), seq |-> 0, role |-> "user", block |-> NoBlock]

Codes   == {"nothing", "not_found", "ambiguous_tenant", "forbidden", "conflict", "unavailable",
            "created", "decided", "appended", "transcript", "context"}
Says(code, q) == [code |-> code, by |-> q]
Silence == Says("nothing", Idle)

Init ==
  /\ held = Hired /\ widened = {} /\ turns = {} /\ trail = {} /\ made = 0 /\ changes = 0
  /\ rules = [i \in RuleIds |-> NoRule]
  /\ sessions = [s \in SessionIds |-> NoSession]
  /\ request = [q \in Requests |-> Idle]
  /\ answer = Silence

---------------------------------------------------------------------------
(* Requests. A refusal ends one; so does the answer of a handler.           *)

At(q, step) == request[q].step = step

Ends(q, code) ==
  /\ request' = [request EXCEPT ![q] = Idle]
  /\ answer' = Says(code, IF code \in {"context", "transcript"} THEN request[q] ELSE Idle)

Continues(q, next) ==
  /\ request' = [request EXCEPT ![q] = next]
  /\ answer' = Silence

OrgsOf(p) == {m[1] : m \in held[p]}

\* PrincipalResolver.resolve: the organisation and the roles of this request,
\* asked of the core database and never asked again.
Resolve(q, p) ==
  /\ At(q, "idle")
  /\ made < MaxRequests
  /\ made' = made + 1
  /\ CASE OrgsOf(p) = {}              -> Ends(q, "not_found")
       [] Cardinality(OrgsOf(p)) > 1  -> Ends(q, "ambiguous_tenant")
       [] OTHER -> Continues(q, [Idle EXCEPT !.step = "authorised", !.who = p,
                                             !.org = AnyOf(OrgsOf(p)),
                                             !.roles = {m[2] : m \in held[p]}])
  /\ UNCHANGED <<held, widened, rules, sessions, turns, trail, changes>>

MayApprove(q) == request[q].roles \cap Approvers # {}

---------------------------------------------------------------------------
(* Rules.                                                                   *)

BornState == IF "rules.self_activate" \in widened THEN "active" ELSE "proposed"

\* propose_rule reads the switch, inserts the row it calls for, and commits.
ReadSelfActivate(q, text) ==
  /\ At(q, "authorised")
  /\ Continues(q, [request[q] EXCEPT
       !.step = "born",
       !.row = [NoRule EXCEPT !.org = request[q].org, !.text = text, !.state = BornState,
                              !.proposedBy = request[q].who]])
  /\ UNCHANGED <<held, widened, rules, sessions, turns, trail, made, changes>>

\* Policy rules_insert reads the switch again, in the INSERT itself.
InsertAllowed(row) == row.state = "proposed" \/ "rules.self_activate" \in widened

\* Mutant: the policy leaves the state of a new rule to the service.
InsertUnchecked(q) ==
  /\ At(q, "born")
  /\ Continues(q, [request[q] EXCEPT !.step = "inserted",
                     !.row.bornWhile = "rules.self_activate" \in widened])
  /\ UNCHANGED <<held, widened, rules, sessions, turns, trail, made, changes>>

InsertRule(q) ==
  /\ At(q, "born")
  /\ IF InsertAllowed(request[q].row)
     THEN Continues(q, [request[q] EXCEPT !.step = "inserted",
                          !.row.bornWhile = "rules.self_activate" \in widened])
     ELSE Ends(q, "forbidden")
  /\ UNCHANGED <<held, widened, rules, sessions, turns, trail, made, changes>>

CommitRule(q, i) ==
  /\ At(q, "inserted")
  /\ rules[i].state = "none"
  /\ rules' = [rules EXCEPT ![i] = request[q].row]
  /\ Ends(q, "created")
  /\ UNCHANGED <<held, widened, sessions, turns, trail, made, changes>>

\* Policy rules_read.
Visible(q, i) ==
  LET rule == rules[i]
  IN /\ rule.state # "none" /\ rule.org = request[q].org
     /\ rule.state = "active" \/ rule.proposedBy = request[q].who \/ MayApprove(q)

\* decide, up to its UPDATE: who asks, what the row says, the text approved.
ReadProposal(q, i, text, verdict) ==
  /\ At(q, "authorised")
  /\ CASE ~MayApprove(q) -> Ends(q, "forbidden")
       [] MayApprove(q) /\ ~(Visible(q, i) /\ rules[i].state = "proposed") -> Ends(q, "not_found")
       [] MayApprove(q) /\ Visible(q, i) /\ rules[i].state = "proposed" /\ rules[i].text # text ->
            Ends(q, "conflict")
       [] OTHER -> Continues(q, [request[q] EXCEPT !.step = "decidable", !.rule = i,
                                                   !.verdict = verdict])
  /\ UNCHANGED <<held, widened, rules, sessions, turns, trail, made, changes>>

Evidence(action, i, who, state) == [action |-> action, rule |-> i, by |-> who, state |-> state]

\* decide's UPDATE with the trigger of 0008. A row somebody else has decided
\* meanwhile no longer matches; nobody counts the rows that did.
WriteDecision(q) ==
  LET r       == request[q]
      matches == rules[r.rule].state = "proposed"
      refused == matches /\ rules[r.rule].proposedBy = r.who
  IN /\ At(q, "decidable")
     /\ rules' = IF matches /\ ~refused
                 THEN [rules EXCEPT ![r.rule].state = r.verdict,
                                    ![r.rule].decidedBy = r.who,
                                    ![r.rule].decidedAs = r.roles]
                 ELSE rules
     /\ trail' = IF refused THEN trail
                 ELSE trail \cup {Evidence("rule.decide", r.rule, r.who, r.verdict)}
     /\ Ends(q, IF refused THEN "forbidden" ELSE "decided")
     /\ UNCHANGED <<held, widened, sessions, turns, made, changes>>

\* retire, a single UPDATE ... RETURNING.
Retire(q, i) ==
  LET found == Visible(q, i) /\ rules[i].state = "active"
  IN /\ At(q, "authorised")
     /\ rules' = IF MayApprove(q) /\ found
                 THEN [rules EXCEPT ![i].state = "retired", ![i].retiredBy = request[q].who]
                 ELSE rules
     /\ trail' = IF MayApprove(q) /\ found
                 THEN trail \cup {Evidence("rule.retire", i, request[q].who, "retired")}
                 ELSE trail
     /\ Ends(q, IF ~MayApprove(q) THEN "forbidden" ELSE IF found THEN "decided" ELSE "not_found")
     /\ UNCHANGED <<held, widened, sessions, turns, made, changes>>

\* The Range's recovery: every committed rule that is active unapproved.
RetireUnapproved ==
  LET unapproved == {i \in RuleIds : rules[i].state = "active" /\ rules[i].decidedBy = Nobody}
  IN /\ unapproved # {}
     /\ rules' = [i \in RuleIds |->
                    IF i \in unapproved
                    THEN [rules[i] EXCEPT !.state = "retired", !.retiredBy = TheRange]
                    ELSE rules[i]]
     /\ trail' = trail \cup {Evidence("rule.retire", i, TheRange, "retired") : i \in unapproved}
     /\ answer' = Silence
     /\ UNCHANGED <<held, widened, sessions, turns, request, made, changes>>
---------------------------------------------------------------------------
(* History.                                                                 *)

CreateSession(q, s) ==
  /\ At(q, "authorised")
  /\ sessions[s] = NoSession
  /\ sessions' = [sessions EXCEPT ![s] = [org |-> request[q].org, owner |-> request[q].who]]
  /\ Ends(q, "created")
  /\ UNCHANGED <<held, widened, rules, turns, trail, made, changes>>

OwnSession(q, s) == sessions[s] = [org |-> request[q].org, owner |-> request[q].who]

\* Policies sessions_read and turns_read, of a row's organisation and owner.
Readable(q, row) ==
  /\ row.org = request[q].org
  /\ \/ row.owner = request[q].who
     \/ "history.org_readable" \in widened /\ "support_manager" \in request[q].roles

TurnsOf(s) == {t \in turns : t.session = s}
NextSeq(s) == 1 + Max({0} \cup {t.seq : t \in TurnsOf(s)})

\* append_turn numbers the turn, then inserts it under UNIQUE (session_id, seq).
NumberTurn(q, s, role) ==
  /\ At(q, "authorised")
  /\ IF OwnSession(q, s)
     THEN Continues(q, [request[q] EXCEPT !.step = "numbered", !.session = s,
                                          !.seq = NextSeq(s), !.role = role])
     ELSE Ends(q, "not_found")
  /\ UNCHANGED <<held, widened, rules, sessions, turns, trail, made, changes>>

\* Mutant: the table has no unique key.
SeqNeverTaken(s, seq) == FALSE
SeqTaken(s, seq) == \E t \in TurnsOf(s) : t.seq = seq

InsertTurn(q) ==
  LET r    == request[q]
      turn == [session |-> r.session, org |-> r.org, owner |-> r.who, seq |-> r.seq,
               role |-> r.role, authz |-> r.roles]
  IN /\ At(q, "numbered")
     /\ Cardinality(turns) < MaxTurns
     /\ IF SeqTaken(r.session, r.seq)
        THEN turns' = turns /\ Ends(q, "unavailable")
        ELSE turns' = turns \cup {turn} /\ Ends(q, "appended")
     /\ UNCHANGED <<held, widened, rules, sessions, trail, made, changes>>

\* read_turns, as far as it decides who sees a transcript and reads what.
ReadTranscript(q, s) ==
  /\ At(q, "authorised")
  /\ IF sessions[s] # NoSession /\ Readable(q, sessions[s])
     THEN /\ answer' = Says("transcript",
                 [request[q] EXCEPT !.block.shown = {t \in TurnsOf(s) : Readable(q, t)}])
          /\ request' = [request EXCEPT ![q] = Idle]
     ELSE Ends(q, "not_found")
  /\ UNCHANGED <<held, widened, rules, sessions, turns, trail, made, changes>>

---------------------------------------------------------------------------
(* Context. assemble reads the switch and the rules, then the tail of the    *)
(* history, then logs and answers the block.                                *)

ReadRules(q) ==
  /\ At(q, "authorised")
  /\ Continues(q, [request[q] EXCEPT
       !.step = "ruled",
       !.block.revalidate = "history.revalidate off" \notin widened,
       !.block.rules = {i \in RuleIds : Visible(q, i) /\ rules[i].state = "active"}])
  /\ UNCHANGED <<held, widened, rules, sessions, turns, trail, made, changes>>

\* The caller's own turns, whatever else the policy would let them read.
OwnTurns(q) == {t \in turns : Readable(q, t) /\ t.owner = request[q].who}

\* The last turns of one session. Without one, the order is by a clock the
\* model does not have, and any turns of the caller may be the last.
TailOf(T)  == {t \in T : Cardinality({u \in T : u.seq > t.seq}) < HistoryTail}
Tails(q)   == {TailOf(OwnTurns(q) \cap TurnsOf(s)) : s \in SessionIds} \cup
              {T \in SUBSET OwnTurns(q) : Cardinality(T) <= HistoryTail}

\* Mutant: one role still held is enough.
StillRelated(q, turn) == turn.role \notin Revalidated \/ turn.authz \cap request[q].roles # {}

\* A turn outlives its permission when the caller has lost a role it was
\* produced under.
Permitted(q, turn) == turn.role \notin Revalidated \/ turn.authz \subseteq request[q].roles

ReadHistory(q, tail) ==
  LET dropped == IF request[q].block.revalidate THEN {t \in tail : ~Permitted(q, t)} ELSE {}
  IN /\ At(q, "ruled")
     /\ tail \in Tails(q)
     /\ Continues(q, [request[q] EXCEPT !.step = "assembled", !.block.shown = tail \ dropped,
                                        !.block.omitted = dropped])
     /\ UNCHANGED <<held, widened, rules, sessions, turns, trail, made, changes>>

Deliver(q) ==
  /\ At(q, "assembled")
  /\ Ends(q, "context")
  /\ UNCHANGED <<held, widened, rules, sessions, turns, trail, made, changes>>

\* A transaction that fails, memory-db out of reach or a connection lost: its
\* effects are rolled back with it.
Fails(q) ==
  /\ ~At(q, "idle")
  /\ Ends(q, "unavailable")
  /\ UNCHANGED <<held, widened, rules, sessions, turns, trail, made, changes>>

---------------------------------------------------------------------------
(* The world: memberships granted and revoked, switches set and restored.   *)

ChangeMembership(p, m) ==
  /\ changes < MaxChanges
  /\ changes' = changes + 1
  /\ held' = [held EXCEPT ![p] = IF m \in @ THEN @ \ {m} ELSE @ \cup {m}]
  /\ answer' = Silence
  /\ UNCHANGED <<widened, rules, sessions, turns, trail, request, made>>

SetSwitch(key) ==
  /\ changes < MaxChanges
  /\ changes' = changes + 1
  /\ widened' = IF key \in widened THEN widened \ {key} ELSE widened \cup {key}
  /\ answer' = Silence
  /\ UNCHANGED <<held, rules, sessions, turns, trail, request, made>>

RuleStep(q) ==
  \/ \E text \in Texts : ReadSelfActivate(q, text)
  \/ InsertRule(q)
  \/ \E i \in RuleIds : CommitRule(q, i) \/ Retire(q, i)
  \/ \E i \in RuleIds, text \in Texts \cup {OtherText}, verdict \in {"active", "rejected"} :
       ReadProposal(q, i, text, verdict)
  \/ WriteDecision(q)

HistoryStep(q) ==
  \/ \E s \in SessionIds : CreateSession(q, s) \/ ReadTranscript(q, s)
  \/ \E s \in SessionIds, role \in Written : NumberTurn(q, s, role)
  \/ InsertTurn(q)

ContextStep(q) ==
  \/ ReadRules(q)
  \/ \E tail \in Tails(q) : ReadHistory(q, tail)
  \/ Deliver(q)

Next ==
  \/ \E q \in Requests, p \in People : Resolve(q, p)
  \/ \E q \in Requests : RuleStep(q) \/ HistoryStep(q) \/ ContextStep(q) \/ Fails(q)
  \/ \E p \in People, m \in Orgs \X Roles : ChangeMembership(p, m)
  \/ \E key \in Switches : SetSwitch(key)
  \/ RetireUnapproved

Spec == Init /\ [][Next]_vars

---------------------------------------------------------------------------
(* Properties.                                                              *)

TypeOK ==
  /\ held \in [People -> SUBSET (Orgs \X Roles)]
  /\ widened \subseteq Switches
  /\ rules \in [RuleIds -> Rule]
  /\ sessions \in [SessionIds -> Session]
  /\ turns \subseteq Turn
  /\ trail \subseteq Event
  /\ request \in [Requests -> Request]
  /\ made \in Nat /\ changes \in Nat
  /\ answer.code \in Codes /\ answer.by \in Request

\* Who answers for a rule, as its row and the audit trail have it.
AnswerableFor(i) ==
  LET rule == rules[i] IN
    /\ rule.decidedBy # Nobody => /\ rule.decidedBy # rule.proposedBy
                                  /\ rule.decidedAs \cap Approvers # {}
                                  /\ \E e \in trail : e.action = "rule.decide" /\ e.rule = i
                                                      /\ e.by = rule.decidedBy
    /\ rule.state \in {"active", "retired"} /\ rule.decidedBy = Nobody => rule.bornWhile
    /\ rule.retiredBy # Nobody => Evidence("rule.retire", i, rule.retiredBy, "retired") \in trail

\* The two ways a rule comes to be obeyed: somebody other than its proposer,
\* an approver when their request began, decided it; or it was born active
\* while the lab's switch let it, at the very statement that inserted it. And
\* whoever decided or retired it is in the audit trail.
RulesNeedAnotherPerson == \A i \in RuleIds : AnswerableFor(i)

\* A conversation is a sequence: its turns are numbered from 1 with
\* no number missing and none twice, however many appends overlap, and they
\* are all its owner's.
TurnsFormASequence ==
  \A s \in SessionIds :
    /\ \A t, u \in TurnsOf(s) : t.seq = u.seq => t = u
    /\ \A t \in TurnsOf(s) : \A n \in 1 .. t.seq : SeqTaken(s, n)
    /\ \A t \in TurnsOf(s) : sessions[s] = [org |-> t.org, owner |-> t.owner]

\* Nothing reaches a reader it is not for. A context block holds rules of the
\* caller's organisation that were somebody's decision or the open switch's,
\* turns of the caller's own, and, while history is re-authorised, nothing the
\* system said under a role the caller did not hold when the request began;
\* a transcript of a colleague goes to managers only.
ShownOnlyToThoseItIsFor ==
  LET r == answer.by IN
    /\ answer.code = "context" =>
         /\ \A i \in r.block.rules : rules[i].org = r.org /\ rules[i].state \in {"active", "retired"}
         /\ \A t \in r.block.shown :
              /\ t.owner = r.who /\ t.org = r.org
              /\ r.block.revalidate /\ t.role # "user" => t.authz \ r.roles = {}
         /\ \A t \in r.block.shown \cup r.block.omitted : t \in turns
    /\ answer.code = "transcript" =>
         \A t \in r.block.shown :
           t.org = r.org /\ (t.owner = r.who \/ "support_manager" \in r.roles)

=============================================================================
