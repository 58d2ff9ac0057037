--------------------------- MODULE Knowledge_proofs ---------------------------
(* Proofs of the safety properties of Knowledge, for every set of people,    *)
(* organisations, roles, requests, rules and sessions.                       *)
EXTENDS Knowledge, WellFoundedInduction, TLAPS

Quiet == Codes \ {"context", "transcript"}

(* What a request in flight has read is still so when it uses it: a rule it  *)
(* inserts is undecided, a decision is an approver's, every number below the *)
(* one of its turn is taken, and its block is of its caller's rules and turns.*)
RowUndecided(row) ==
  row.decidedBy = Nobody /\ row.retiredBy = Nobody /\ row.state \in {"proposed", "active"}

RulesOf(r) ==
  \A i \in r.block.rules : rules[i].org = r.org /\ rules[i].state \in {"active", "retired"}

TurnsFor(r) ==
  /\ \A t \in r.block.shown :
       /\ t.owner = r.who /\ t.org = r.org
       /\ r.block.revalidate /\ t.role # "user" => t.authz \ r.roles = {}
  /\ \A t \in r.block.shown \cup r.block.omitted : t \in turns

Numbered(r) ==
  /\ sessions[r.session] = [org |-> r.org, owner |-> r.who]
  /\ r.seq # 0
  /\ \A n \in 1 .. (r.seq - 1) : SeqTaken(r.session, n)

RequestSound(q) ==
  LET r == request[q] IN
    /\ r.step \in {"born", "inserted"} => RowUndecided(r.row)
    /\ r.step = "inserted" /\ r.row.state = "active" => r.row.bornWhile
    /\ r.step = "decidable" => r.roles \cap Approvers # {} /\ r.verdict \in {"active", "rejected"}
    /\ r.step = "numbered" => Numbered(r)
    /\ r.step \in {"ruled", "assembled"} => RulesOf(r)
    /\ r.step = "assembled" => TurnsFor(r)

TurnsBounded == \E n \in Nat : \A t \in turns : t.seq <= n

KInv ==
  /\ TypeOK
  /\ \A q \in Requests : RequestSound(q)
  /\ RulesNeedAnotherPerson
  /\ TurnsFormASequence
  /\ TurnsBounded
  /\ ShownOnlyToThoseItIsFor

-----------------------------------------------------------------------------
(* Constants and types.                                                      *)
LEMMA SomeOf == ASSUME NEW S, S # {} PROVE AnyOf(S) \in S
BY DEF AnyOf

LEMMA NoRuleIsRule == NoRule \in Rule /\ RowUndecided([NoRule EXCEPT !.state = "proposed"])
<1>1. AnyOf(Orgs) \in Orgs /\ AnyOf(Texts) \in Texts /\ AnyOf(People) \in People
  BY KnowledgeAssumption, SomeOf
<1> QED  BY <1>1 DEF NoRule, Rule, RuleStates, RowUndecided

LEMMA NoBlockIsBlock == NoBlock \in Block
BY DEF NoBlock, Block

LEMMA IdleIsRequest == Idle \in Request /\ Idle.step = "idle"
<1>1. AnyOf(Orgs) \in Orgs /\ AnyOf(People) \in People /\ AnyOf(RuleIds) \in RuleIds
      /\ AnyOf(SessionIds) \in SessionIds
  BY KnowledgeAssumption, SomeOf
<1> QED  BY <1>1, NoRuleIsRule, NoBlockIsBlock DEF Idle, Request, Steps, RuleStates, TurnRoles

LEMMA NoSessionIsSession == NoSession \in Session /\ NoSession.owner = Nobody
BY KnowledgeAssumption, SomeOf DEF NoSession, Session

(* A bounded set of numbers that is not empty has a greatest, which Max is.  *)
LEMMA MaxIsThere ==
  ASSUME NEW S \in SUBSET Nat, S # {}, NEW n \in Nat, \A x \in S : x <= n
  PROVE  Max(S) \in S /\ \A y \in S : y <= Max(S)
<1> DEFINE Room == {m \in Nat : \A x \in S : x <= m}
<1>1. n \in Room /\ Room \subseteq Nat
  OBVIOUS
<1>2. PICK least \in Room : \A m \in Room : least <= m
  <2> DEFINE R == OpToRel(<, Nat)
  <2>1. IsWellFoundedOn(R, Nat)
    BY NatLessThanWellFounded
  <2>2. \A k, m \in Nat : k < m => <<k, m>> \in R
    BY DEF OpToRel
  <2> HIDE DEF R
  <2>3. \E m \in Room : \A k \in Room : ~(<<k, m>> \in R)
    <3> HIDE DEF Room
    <3> QED  BY <1>1, <2>1, WFMin
  <2>4. PICK m \in Room : \A k \in Room : ~(<<k, m>> \in R)
    BY <2>3
  <2>5. \A k \in Room : k \in Nat /\ m \in Nat /\ ~(k < m)
    <3> HIDE DEF Room
    <3> QED  BY <1>1, <2>2, <2>4
  <2>6. \A k \in Room : m <= k
    <3> HIDE DEF Room
    <3> QED  BY <2>5
  <2> QED  BY <2>4, <2>6
<1>3. least \in Nat /\ \A x \in S : x <= least
  BY <1>2
<1>4. least \in S
  <2> SUFFICES ASSUME least \notin S PROVE FALSE
    OBVIOUS
  <2>1. \A x \in S : x <= least - 1
    <3> SUFFICES ASSUME NEW x \in S PROVE x <= least - 1
      OBVIOUS
    <3>1. x \in Nat /\ x <= least /\ x # least
      BY <1>3
    <3> QED  BY <1>3, <3>1
  <2>2. least - 1 \in Nat
    <3>1. PICK x \in S : x \in Nat /\ x <= least - 1
      BY <2>1
    <3> QED  BY <1>3, <3>1
  <2>3. least - 1 \in Room
    BY <2>1, <2>2
  <2>4. least <= least - 1
    BY <1>2, <2>3
  <2> QED  BY <1>3, <2>4
<1>5. \E x \in S : \A y \in S : x >= y
  BY <1>3, <1>4
<1>6. Max(S) \in S /\ \A y \in S : Max(S) >= y
  BY <1>5 DEF Max
<1> QED  BY <1>6

-----------------------------------------------------------------------------
(* Steps in general.                                                         *)

(* What others do to the store leaves a request's reading of it sound.       *)
Grows ==
  /\ turns \subseteq turns'
  /\ \A s \in SessionIds : sessions[s].owner \in People => sessions'[s] = sessions[s]
  /\ \A i \in RuleIds : rules[i].state \in {"active", "retired"} =>
       rules'[i].org = rules[i].org /\ rules'[i].state \in {"active", "retired"}

LEMMA StoreAlone == UNCHANGED <<rules, sessions, turns>> => Grows
BY DEF Grows

LEMMA OthersSound ==
  ASSUME KInv, NEW q \in Requests, request'[q] = request[q], Grows
  PROVE  RequestSound(q)'
<1> DEFINE r == request[q]
<1>1. r \in Request /\ RequestSound(q)
  BY DEF KInv, TypeOK
<1>2. r.who \in People /\ r.session \in SessionIds /\ r.block \in Block
  BY <1>1 DEF Request
<1>3. Numbered(r) => Numbered(r)'
  BY <1>2 DEF Numbered, Grows, SeqTaken, TurnsOf
<1>4. RulesOf(r) => RulesOf(r)'
  BY <1>2 DEF RulesOf, Grows, Block
<1>5. TurnsFor(r) => TurnsFor(r)'
  BY DEF TurnsFor, Grows
<1> QED  BY <1>1, <1>3, <1>4, <1>5 DEF RequestSound

LEMMA IdleSound ==
  ASSUME NEW q \in Requests, request'[q] = Idle
  PROVE  RequestSound(q)'
BY IdleIsRequest DEF RequestSound

LEMMA QuietAnswer ==
  ASSUME NEW code \in Quiet, answer' = Says(code, Idle)
  PROVE  answer'.code \in Codes /\ answer'.by \in Request /\ ShownOnlyToThoseItIsFor'
BY IdleIsRequest DEF Says, Quiet, ShownOnlyToThoseItIsFor

LEMMA SilenceIsQuiet == "nothing" \in Quiet /\ Silence = Says("nothing", Idle)
BY DEF Quiet, Codes, Silence

(* A request ends, or goes on with what it has read; the others go on.       *)
LEMMA RequestMoves ==
  ASSUME KInv, Grows, NEW q \in Requests, NEW code \in Quiet,
         \/ Ends(q, code)
         \/ \E next \in Request : Continues(q, next) /\ RequestSound(q)'
  PROVE  /\ request' \in [Requests -> Request]
         /\ \A p \in Requests : RequestSound(p)'
         /\ answer'.code \in Codes /\ answer'.by \in Request /\ ShownOnlyToThoseItIsFor'
<1>1. request \in [Requests -> Request]
  BY DEF KInv, TypeOK
<1>2. CASE Ends(q, code)
  <2>1. request' = [request EXCEPT ![q] = Idle]
    BY <1>2 DEF Ends
  <2>2. answer' = Says(code, Idle)
    BY <1>2 DEF Ends, Quiet
  <2>3. request' \in [Requests -> Request] /\ request'[q] = Idle
        /\ \A p \in Requests \ {q} : request'[p] = request[p]
    BY <1>1, <2>1, IdleIsRequest
  <2>4. \A p \in Requests : RequestSound(p)'
    BY <2>3, IdleSound, OthersSound
  <2> QED  BY <2>2, <2>3, <2>4, QuietAnswer
<1>3. CASE \E next \in Request : Continues(q, next) /\ RequestSound(q)'
  <2>1. PICK next \in Request : Continues(q, next) /\ RequestSound(q)'
    BY <1>3
  <2>2. request' = [request EXCEPT ![q] = next] /\ answer' = Silence
    BY <2>1 DEF Continues
  <2>3. request' \in [Requests -> Request] /\ \A p \in Requests \ {q} : request'[p] = request[p]
    BY <1>1, <2>2
  <2>4. \A p \in Requests : RequestSound(p)'
    BY <2>1, <2>3, OthersSound
  <2> QED  BY <2>2, <2>3, <2>4, SilenceIsQuiet, QuietAnswer
<1> QED  BY <1>2, <1>3

(* A step that stores nothing.                                               *)
LEMMA StoresNothing ==
  ASSUME KInv, UNCHANGED <<rules, sessions, turns, trail>>
  PROVE  RulesNeedAnotherPerson' /\ TurnsFormASequence' /\ TurnsBounded'
BY DEF KInv, RulesNeedAnotherPerson, AnswerableFor, TurnsFormASequence, TurnsBounded, TurnsOf, SeqTaken

LEMMA ReadsOnlyKeeps ==
  ASSUME KInv, NEW q \in Requests, NEW code \in Quiet,
         UNCHANGED <<held, widened, rules, sessions, turns, trail, changes>>, made' \in Nat,
         \/ Ends(q, code)
         \/ \E next \in Request : Continues(q, next) /\ RequestSound(q)'
  PROVE  KInv'
<1>1. /\ request' \in [Requests -> Request]
      /\ \A p \in Requests : RequestSound(p)'
      /\ answer'.code \in Codes /\ answer'.by \in Request /\ ShownOnlyToThoseItIsFor'
  BY StoreAlone, RequestMoves
<1>2. TypeOK'
  BY <1>1 DEF KInv, TypeOK
<1> QED  BY <1>1, <1>2, StoresNothing DEF KInv

(* What a request in flight is made of.                                      *)
LEMMA RequestParts ==
  ASSUME KInv, NEW q \in Requests
  PROVE  /\ request[q] \in Request /\ request[q].who \in People /\ request[q].org \in Orgs
         /\ request[q].roles \in SUBSET Roles /\ request[q].row \in Rule
         /\ request[q].rule \in RuleIds /\ request[q].session \in SessionIds
         /\ request[q].seq \in Nat /\ request[q].role \in TurnRoles
         /\ request[q].block \in Block /\ RequestSound(q)
BY DEF KInv, TypeOK, Request

(* What a step that goes on leaves in its request.                           *)
LEMMA GoesOn ==
  ASSUME KInv, NEW q \in Requests, NEW next, Continues(q, next)
  PROVE  request'[q] = next
BY DEF KInv, TypeOK, Continues

-----------------------------------------------------------------------------
(* Resolving the caller.                                                     *)
LEMMA ResolveKeeps ==
  ASSUME KInv, NEW q \in Requests, NEW p \in People, Resolve(q, p)
  PROVE  KInv'
<1> DEFINE next == [Idle EXCEPT !.step = "authorised", !.who = p, !.org = AnyOf(OrgsOf(p)),
                                !.roles = {m[2] : m \in held[p]}]
<1>1. UNCHANGED <<held, widened, rules, sessions, turns, trail, changes>> /\ made' \in Nat
  BY DEF Resolve, KInv, TypeOK
<1>2. CASE Ends(q, "not_found")
  BY <1>1, <1>2, ReadsOnlyKeeps DEF Quiet, Codes
<1>3. CASE Ends(q, "ambiguous_tenant")
  BY <1>1, <1>3, ReadsOnlyKeeps DEF Quiet, Codes
<1>4. CASE OrgsOf(p) # {} /\ Continues(q, next)
  <2>1. held[p] \in SUBSET (Orgs \X Roles)
    BY DEF KInv, TypeOK
  <2>2. AnyOf(OrgsOf(p)) \in Orgs
    <3>1. AnyOf(OrgsOf(p)) \in OrgsOf(p)
      BY <1>4, SomeOf
    <3> QED  BY <2>1, <3>1 DEF OrgsOf
  <2>3. {m[2] : m \in held[p]} \in SUBSET Roles
    BY <2>1
  <2>4. next \in Request /\ next.step = "authorised"
    BY <2>2, <2>3, IdleIsRequest DEF Request, Steps
  <2> HIDE DEF next
  <2>5. RequestSound(q)'
    BY <1>4, <2>4, GoesOn DEF RequestSound
  <2> QED  BY <1>1, <1>4, <2>4, <2>5, ReadsOnlyKeeps, SilenceIsQuiet
<1> QED  BY <1>2, <1>3, <1>4 DEF Resolve

-----------------------------------------------------------------------------
(* Rules.                                                                    *)
LEMMA ReadSelfActivateKeeps ==
  ASSUME KInv, NEW q \in Requests, NEW text \in Texts, ReadSelfActivate(q, text)
  PROVE  KInv'
<1> DEFINE row  == [NoRule EXCEPT !.org = request[q].org, !.text = text, !.state = BornState,
                                  !.proposedBy = request[q].who]
           next == [request[q] EXCEPT !.step = "born", !.row = row]
<1>1. /\ UNCHANGED <<held, widened, rules, sessions, turns, trail, changes>> /\ made' \in Nat
      /\ Continues(q, next)
  BY DEF ReadSelfActivate, KInv, TypeOK
<1>2. BornState \in {"proposed", "active"}
  BY DEF BornState
<1>3. row \in Rule /\ RowUndecided(row)
  <2>1. NoRule \in Rule /\ NoRule.decidedBy = Nobody /\ NoRule.retiredBy = Nobody
    BY NoRuleIsRule DEF NoRule
  <2>2. row \in Rule /\ row.state = BornState /\ row.decidedBy = Nobody /\ row.retiredBy = Nobody
    BY <1>2, <2>1, RequestParts DEF Rule, RuleStates
  <2> QED  BY <1>2, <2>2 DEF RowUndecided
<1> HIDE DEF row
<1>4. next \in Request /\ next.step = "born" /\ next.row = row
  BY <1>3, RequestParts DEF Request, Steps
<1> HIDE DEF next
<1>5. RequestSound(q)'
  BY <1>1, <1>3, <1>4, GoesOn DEF RequestSound
<1> QED  BY <1>1, <1>4, <1>5, ReadsOnlyKeeps, SilenceIsQuiet

LEMMA InsertRuleKeeps ==
  ASSUME KInv, NEW q \in Requests, InsertRule(q)
  PROVE  KInv'
<1> DEFINE loose == "rules.self_activate" \in widened
           row   == [request[q].row EXCEPT !.bornWhile = loose]
           next  == [request[q] EXCEPT !.step = "inserted", !.row = row]
<1>1. /\ UNCHANGED <<held, widened, rules, sessions, turns, trail, changes>> /\ made' \in Nat
      /\ request[q].step = "born"
  BY DEF InsertRule, At, KInv, TypeOK
<1>2. CASE Ends(q, "forbidden")
  BY <1>1, <1>2, ReadsOnlyKeeps DEF Quiet, Codes
<1>3. CASE InsertAllowed(request[q].row) /\ Continues(q, next)
  <2>1. /\ row \in Rule /\ row.state = request[q].row.state /\ row.bornWhile = loose
        /\ row.decidedBy = request[q].row.decidedBy /\ row.retiredBy = request[q].row.retiredBy
    <3>1. loose \in BOOLEAN
      OBVIOUS
    <3> HIDE DEF loose
    <3> QED  BY <3>1, RequestParts DEF Rule
  <2>2. RowUndecided(row) /\ (row.state = "active" => row.bornWhile)
    BY <1>1, <1>3, <2>1, RequestParts DEF RequestSound, RowUndecided, InsertAllowed
  <2> HIDE DEF row
  <2>3. next \in Request /\ next.step = "inserted" /\ next.row = row
    BY <2>1, RequestParts DEF Request, Steps
  <2> HIDE DEF next
  <2>4. RequestSound(q)'
    BY <1>3, <2>2, <2>3, GoesOn DEF RequestSound
  <2> QED  BY <1>1, <1>3, <2>3, <2>4, ReadsOnlyKeeps, SilenceIsQuiet
<1>4. Continues(q, [request[q] EXCEPT !.step = "inserted", !.row.bornWhile = loose])
        => Continues(q, next)
  BY RequestParts DEF Request
<1> QED  BY <1>2, <1>3, <1>4 DEF InsertRule

LEMMA ReadProposalKeeps ==
  ASSUME KInv, NEW q \in Requests, NEW i \in RuleIds, NEW text \in Texts \cup {OtherText},
         NEW verdict \in {"active", "rejected"}, ReadProposal(q, i, text, verdict)
  PROVE  KInv'
<1> DEFINE next == [request[q] EXCEPT !.step = "decidable", !.rule = i, !.verdict = verdict]
<1>1. UNCHANGED <<held, widened, rules, sessions, turns, trail, changes>> /\ made' \in Nat
  BY DEF ReadProposal, KInv, TypeOK
<1>2. CASE \E code \in {"forbidden", "not_found", "conflict"} : Ends(q, code)
  BY <1>1, <1>2, ReadsOnlyKeeps DEF Quiet, Codes
<1>3. CASE MayApprove(q) /\ Continues(q, next)
  <2>1. /\ next \in Request /\ next.step = "decidable" /\ next.verdict = verdict
        /\ next.roles = request[q].roles
    BY RequestParts DEF Request, Steps, RuleStates
  <2> HIDE DEF next
  <2>2. RequestSound(q)'
    BY <1>3, <2>1, GoesOn DEF RequestSound, MayApprove
  <2> QED  BY <1>1, <1>3, <2>1, <2>2, ReadsOnlyKeeps, SilenceIsQuiet
<1> QED  BY <1>2, <1>3 DEF ReadProposal

(* The trail only grows, and a rule that has not changed keeps what it says; *)
(* so do the turns.                                                          *)
LEMMA RuleStays ==
  ASSUME KInv, trail \subseteq trail', NEW j \in RuleIds, rules'[j] = rules[j]
  PROVE  AnswerableFor(j)'
BY DEF KInv, RulesNeedAnotherPerson, AnswerableFor

LEMMA TurnsStay ==
  ASSUME KInv, UNCHANGED <<turns, sessions>>
  PROVE  TurnsFormASequence' /\ TurnsBounded'
BY DEF KInv, TurnsFormASequence, TurnsBounded, TurnsOf, SeqTaken

LEMMA CommitRuleKeeps ==
  ASSUME KInv, NEW q \in Requests, NEW i \in RuleIds, CommitRule(q, i)
  PROVE  KInv'
<1> DEFINE row == request[q].row
<1>1. /\ rules' = [rules EXCEPT ![i] = row] /\ Ends(q, "created") /\ rules[i].state = "none"
      /\ request[q].step = "inserted"
      /\ UNCHANGED <<held, widened, sessions, turns, trail, made, changes>>
  BY DEF CommitRule, At
<1>2. row \in Rule /\ RowUndecided(row) /\ (row.state = "active" => row.bornWhile)
  BY <1>1, RequestParts DEF RequestSound
<1> HIDE DEF row
<1>3. rules \in [RuleIds -> Rule]
  BY DEF KInv, TypeOK
<1>4. /\ rules' \in [RuleIds -> Rule] /\ rules'[i] = row
      /\ \A j \in RuleIds \ {i} : rules'[j] = rules[j]
  BY <1>1, <1>2, <1>3
<1>5. Grows
  BY <1>1, <1>4 DEF Grows
<1>6. /\ request' \in [Requests -> Request]
      /\ \A p \in Requests : RequestSound(p)'
      /\ answer'.code \in Codes /\ answer'.by \in Request /\ ShownOnlyToThoseItIsFor'
  BY <1>1, <1>5, RequestMoves DEF Quiet, Codes
<1>7. \A j \in RuleIds : AnswerableFor(j)'
  <2> TAKE j \in RuleIds
  <2>1. CASE j = i
    BY <1>2, <1>4, <2>1 DEF RowUndecided, AnswerableFor
  <2>2. CASE j # i
    BY <1>1, <1>4, <2>2, RuleStays
  <2> QED  BY <2>1, <2>2
<1>8. TurnsFormASequence' /\ TurnsBounded'
  BY <1>1, TurnsStay
<1>9. TypeOK' /\ RulesNeedAnotherPerson'
  BY <1>1, <1>4, <1>6, <1>7 DEF KInv, TypeOK, RulesNeedAnotherPerson
<1> QED  BY <1>6, <1>8, <1>9 DEF KInv

LEMMA WriteDecisionKeeps ==
  ASSUME KInv, NEW q \in Requests, WriteDecision(q)
  PROVE  KInv'
<1>0. PICK i \in RuleIds : i = request[q].rule
  BY RequestParts
<1> DEFINE r == request[q]
           event == Evidence("rule.decide", i, r.who, r.verdict)
           matches == rules[i].state = "proposed"
           refused == matches /\ rules[i].proposedBy = r.who
<1>1. /\ r.step = "decidable"
      /\ rules' = IF matches /\ ~refused
                  THEN [rules EXCEPT ![i].state = r.verdict, ![i].decidedBy = r.who,
                                     ![i].decidedAs = r.roles]
                  ELSE rules
      /\ trail' = IF refused THEN trail ELSE trail \cup {event}
      /\ Ends(q, IF refused THEN "forbidden" ELSE "decided")
      /\ UNCHANGED <<held, widened, sessions, turns, made, changes>>
  BY <1>0 DEF WriteDecision, At
<1>2. /\ r.who \in People /\ r.roles \in SUBSET Roles
      /\ r.roles \cap Approvers # {} /\ r.verdict \in {"active", "rejected"}
  BY <1>1, RequestParts DEF RequestSound
<1>3. rules \in [RuleIds -> Rule] /\ trail \subseteq Event
  BY DEF KInv, TypeOK
<1>4. /\ event \in Event /\ event.action = "rule.decide" /\ event.rule = i /\ event.by = r.who
  BY <1>2 DEF Evidence, Event, RuleStates
<1> HIDE DEF event
<1>5. trail \subseteq trail' /\ trail' \subseteq Event
  BY <1>1, <1>3, <1>4
<1>6. /\ rules' \in [RuleIds -> Rule] /\ Grows
      /\ \A j \in RuleIds : AnswerableFor(j)'
  <2>1. CASE matches /\ ~refused
    <3> DEFINE row == [rules[i] EXCEPT !.state = r.verdict, !.decidedBy = r.who,
                                       !.decidedAs = r.roles]
    <3>1. /\ row \in Rule /\ row.state = r.verdict /\ row.decidedBy = r.who
          /\ row.decidedAs = r.roles /\ row.proposedBy = rules[i].proposedBy
          /\ row.retiredBy = rules[i].retiredBy
      <4> HIDE DEF r
      <4> QED  BY <1>2, <1>3 DEF Rule, RuleStates
    <3>2. rules' = [rules EXCEPT ![i] = row] /\ event \in trail'
      BY <1>1, <1>2, <1>3, <2>1
    <3>3. rules[i].proposedBy # r.who /\ r.who # Nobody /\ rules[i].state = "proposed"
      BY <1>2, <2>1, KnowledgeAssumption
    <3> HIDE DEF row
    <3>4. /\ rules' \in [RuleIds -> Rule] /\ rules'[i] = row
          /\ \A j \in RuleIds \ {i} : rules'[j] = rules[j]
      BY <1>2, <1>3, <3>1, <3>2
    <3>5. Grows
      BY <1>1, <3>3, <3>4 DEF Grows
    <3>6. AnswerableFor(i)'
      <4>1. row.retiredBy # Nobody => Evidence("rule.retire", i, row.retiredBy, "retired") \in trail'
        BY <1>2, <1>5, <3>1 DEF KInv, RulesNeedAnotherPerson, AnswerableFor
      <4>2. row.decidedBy # row.proposedBy /\ row.decidedAs \cap Approvers # {}
        BY <1>2, <3>1, <3>3
      <4>3. \E e \in trail' : e.action = "rule.decide" /\ e.rule = i /\ e.by = row.decidedBy
        BY <1>4, <3>1, <3>2
      <4>4. row.decidedBy # Nobody
        BY <3>1, <3>3
      <4> QED  BY <3>4, <4>1, <4>2, <4>3, <4>4 DEF AnswerableFor
    <3>7. ASSUME NEW j \in RuleIds \ {i} PROVE AnswerableFor(j)'
      BY <1>5, <3>4, RuleStays
    <3> QED  BY <3>4, <3>5, <3>6, <3>7
  <2>2. CASE ~(matches /\ ~refused)
    <3>1. rules' = rules
      BY <1>1, <2>2
    <3> QED  BY <1>1, <1>3, <1>5, <3>1, StoreAlone, RuleStays
  <2> QED  BY <2>1, <2>2
<1>7. /\ request' \in [Requests -> Request]
      /\ \A p \in Requests : RequestSound(p)'
      /\ answer'.code \in Codes /\ answer'.by \in Request /\ ShownOnlyToThoseItIsFor'
  <2>1. (IF refused THEN "forbidden" ELSE "decided") \in Quiet
    BY DEF Quiet, Codes
  <2> QED  BY <1>1, <1>6, <2>1, RequestMoves
<1>8. TurnsFormASequence' /\ TurnsBounded'
  BY <1>1, TurnsStay
<1>9. TypeOK' /\ RulesNeedAnotherPerson'
  BY <1>1, <1>5, <1>6, <1>7 DEF KInv, TypeOK, RulesNeedAnotherPerson
<1> QED  BY <1>7, <1>8, <1>9 DEF KInv

LEMMA RetireKeeps ==
  ASSUME KInv, NEW q \in Requests, NEW i \in RuleIds, Retire(q, i)
  PROVE  KInv'
<1> DEFINE r == request[q]
           event == Evidence("rule.retire", i, r.who, "retired")
           found == Visible(q, i) /\ rules[i].state = "active"
           code  == IF ~MayApprove(q) THEN "forbidden" ELSE IF found THEN "decided" ELSE "not_found"
<1>1. /\ rules' = IF MayApprove(q) /\ found
                  THEN [rules EXCEPT ![i].state = "retired", ![i].retiredBy = r.who]
                  ELSE rules
      /\ trail' = IF MayApprove(q) /\ found THEN trail \cup {event} ELSE trail
      /\ Ends(q, code)
      /\ UNCHANGED <<held, widened, sessions, turns, made, changes>>
  BY DEF Retire
<1>2. r.who \in People
  BY RequestParts
<1>3. rules \in [RuleIds -> Rule] /\ trail \subseteq Event
  BY DEF KInv, TypeOK
<1>4. event \in Event
  BY <1>2 DEF Evidence, Event, RuleStates
<1>5. trail \subseteq trail' /\ trail' \subseteq Event
  <2> HIDE DEF event
  <2> QED  BY <1>1, <1>3, <1>4
<1>6. /\ rules' \in [RuleIds -> Rule] /\ Grows
      /\ \A j \in RuleIds : AnswerableFor(j)'
  <2>1. CASE MayApprove(q) /\ found
    <3> DEFINE row == [rules[i] EXCEPT !.state = "retired", !.retiredBy = r.who]
    <3>1. /\ row \in Rule /\ row.state = "retired" /\ row.retiredBy = r.who
          /\ row.org = rules[i].org /\ row.decidedAs = rules[i].decidedAs
          /\ row.proposedBy = rules[i].proposedBy /\ row.decidedBy = rules[i].decidedBy
          /\ row.bornWhile = rules[i].bornWhile
      BY <1>2, <1>3 DEF Rule, RuleStates
    <3>2. rules' = [rules EXCEPT ![i] = row] /\ event \in trail' /\ rules[i].state = "active"
      BY <1>1, <1>3, <2>1
    <3> HIDE DEF row
    <3>3. /\ rules' \in [RuleIds -> Rule] /\ rules'[i] = row
          /\ \A j \in RuleIds \ {i} : rules'[j] = rules[j]
      BY <1>3, <3>1, <3>2
    <3>4. Grows
      BY <1>1, <3>1, <3>2, <3>3 DEF Grows
    <3>5. AnswerableFor(i)'
      BY <1>5, <3>1, <3>2, <3>3 DEF KInv, RulesNeedAnotherPerson, AnswerableFor
    <3>6. ASSUME NEW j \in RuleIds \ {i} PROVE AnswerableFor(j)'
      BY <1>5, <3>3, RuleStays
    <3> QED  BY <3>3, <3>4, <3>5, <3>6
  <2>2. CASE ~(MayApprove(q) /\ found)
    <3>1. rules' = rules
      BY <1>1, <2>2
    <3> QED  BY <1>1, <1>3, <1>5, <3>1, StoreAlone, RuleStays
  <2> QED  BY <2>1, <2>2
<1>7. /\ request' \in [Requests -> Request]
      /\ \A p \in Requests : RequestSound(p)'
      /\ answer'.code \in Codes /\ answer'.by \in Request /\ ShownOnlyToThoseItIsFor'
  <2>1. code \in Quiet
    BY DEF Quiet, Codes
  <2> HIDE DEF code
  <2> QED  BY <1>1, <1>6, <2>1, RequestMoves
<1>8. TurnsFormASequence' /\ TurnsBounded'
  BY <1>1, TurnsStay
<1>9. TypeOK' /\ RulesNeedAnotherPerson'
  BY <1>1, <1>5, <1>6, <1>7 DEF KInv, TypeOK, RulesNeedAnotherPerson
<1> QED  BY <1>7, <1>8, <1>9 DEF KInv

LEMMA RetireUnapprovedKeeps ==
  ASSUME KInv, RetireUnapproved
  PROVE  KInv'
<1> DEFINE unapproved == {i \in RuleIds : rules[i].state = "active" /\ rules[i].decidedBy = Nobody}
           gone(i) == [rules[i] EXCEPT !.state = "retired", !.retiredBy = TheRange]
           events == {Evidence("rule.retire", i, TheRange, "retired") : i \in unapproved}
<1>1. /\ rules' = [i \in RuleIds |-> IF i \in unapproved THEN gone(i) ELSE rules[i]]
      /\ trail' = trail \cup events
      /\ answer' = Silence
      /\ UNCHANGED <<held, widened, sessions, turns, request, made, changes>>
  BY DEF RetireUnapproved
<1>2. rules \in [RuleIds -> Rule] /\ trail \subseteq Event
  BY DEF KInv, TypeOK
<1>3. \A i \in RuleIds :
        /\ gone(i) \in Rule /\ gone(i).state = "retired" /\ gone(i).retiredBy = TheRange
        /\ gone(i).org = rules[i].org /\ gone(i).decidedBy = rules[i].decidedBy
        /\ gone(i).decidedAs = rules[i].decidedAs /\ gone(i).proposedBy = rules[i].proposedBy
        /\ gone(i).bornWhile = rules[i].bornWhile
  BY <1>2 DEF Rule, RuleStates
<1> HIDE DEF gone
<1>4. \A i \in RuleIds : rules'[i] = IF i \in unapproved THEN gone(i) ELSE rules[i]
  BY <1>1
<1>5. rules' \in [RuleIds -> Rule]
  BY <1>1, <1>2, <1>3
<1>6. events \subseteq Event
  BY DEF Evidence, Event, RuleStates
<1>7. Grows
  BY <1>1, <1>3, <1>4 DEF Grows
<1>8. ASSUME NEW i \in RuleIds PROVE AnswerableFor(i)'
  <2>1. CASE i \in unapproved
    <3>1. Evidence("rule.retire", i, TheRange, "retired") \in trail' /\ trail \subseteq trail'
      BY <1>1, <2>1
    <3> QED  BY <1>3, <1>4, <2>1, <3>1 DEF KInv, RulesNeedAnotherPerson, AnswerableFor
  <2>2. CASE i \notin unapproved
    BY <1>1, <1>4, <2>2, RuleStays
  <2> QED  BY <2>1, <2>2
<1>9. \A q \in Requests : RequestSound(q)'
  BY <1>1, <1>7, OthersSound
<1>10. answer'.code \in Codes /\ answer'.by \in Request /\ ShownOnlyToThoseItIsFor'
  BY <1>1, SilenceIsQuiet, QuietAnswer
<1>11. TurnsFormASequence' /\ TurnsBounded'
  BY <1>1, TurnsStay
<1>12. trail' \subseteq Event
  <2> HIDE DEF events
  <2> QED  BY <1>1, <1>2, <1>6
<1>13. TypeOK' /\ RulesNeedAnotherPerson'
  BY <1>1, <1>5, <1>8, <1>10, <1>12 DEF KInv, TypeOK, RulesNeedAnotherPerson
<1> QED  BY <1>9, <1>10, <1>11, <1>13 DEF KInv

-----------------------------------------------------------------------------
(* History.                                                                  *)
LEMMA CreateSessionKeeps ==
  ASSUME KInv, NEW q \in Requests, NEW s \in SessionIds, CreateSession(q, s)
  PROVE  KInv'
<1>1. /\ sessions[s] = NoSession
      /\ sessions' = [sessions EXCEPT ![s] = [org |-> request[q].org, owner |-> request[q].who]]
      /\ Ends(q, "created")
      /\ UNCHANGED <<held, widened, rules, turns, trail, made, changes>>
  BY DEF CreateSession
<1>2. sessions \in [SessionIds -> Session] /\ turns \subseteq Turn
  BY DEF KInv, TypeOK
<1>3. [org |-> request[q].org, owner |-> request[q].who] \in Session
  BY RequestParts DEF Session
<1>4. sessions' \in [SessionIds -> Session] /\ \A o \in SessionIds \ {s} : sessions'[o] = sessions[o]
  BY <1>1, <1>2, <1>3
<1>5. sessions[s].owner \notin People
  BY <1>1, NoSessionIsSession, KnowledgeAssumption
<1>6. Grows
  BY <1>1, <1>4, <1>5 DEF Grows
<1>7. /\ request' \in [Requests -> Request]
      /\ \A p \in Requests : RequestSound(p)'
      /\ answer'.code \in Codes /\ answer'.by \in Request /\ ShownOnlyToThoseItIsFor'
  BY <1>1, <1>6, RequestMoves DEF Quiet, Codes
<1>8. TurnsOf(s) = {}
  <2> SUFFICES ASSUME NEW t \in TurnsOf(s) PROVE FALSE
    OBVIOUS
  <2>1. sessions[s] = [org |-> t.org, owner |-> t.owner] /\ t.owner \in People
    BY <1>2 DEF KInv, TurnsFormASequence, TurnsOf, Turn
  <2> QED  BY <1>5, <2>1
<1>9. TurnsFormASequence' /\ TurnsBounded'
  BY <1>1, <1>4, <1>8 DEF KInv, TurnsFormASequence, TurnsBounded, TurnsOf, SeqTaken
<1>10. TypeOK' /\ RulesNeedAnotherPerson'
  BY <1>1, <1>4, <1>7 DEF KInv, TypeOK, RulesNeedAnotherPerson, AnswerableFor
<1> QED  BY <1>7, <1>9, <1>10 DEF KInv

(* Every number below the next one of a session is taken.                    *)
LEMMA NextSeqFollows ==
  ASSUME KInv, NEW s \in SessionIds
  PROVE  NextSeq(s) \in Nat \ {0} /\ \A n \in 1 .. (NextSeq(s) - 1) : SeqTaken(s, n)
<1> DEFINE taken == {0} \cup {t.seq : t \in TurnsOf(s)}
<1>1. TurnsOf(s) \subseteq turns /\ \A t \in TurnsOf(s) : t.seq \in Nat
  BY DEF KInv, TypeOK, TurnsOf, Turn
<1>2. taken \in SUBSET Nat /\ taken # {}
  BY <1>1
<1>3. PICK n \in Nat : \A t \in turns : t.seq <= n
  BY DEF KInv, TurnsBounded
<1>4. \A x \in taken : x <= n
  BY <1>1, <1>3
<1>5. Max(taken) \in taken
  <2> HIDE DEF taken
  <2> QED  BY <1>2, <1>4, MaxIsThere
<1>6. NextSeq(s) = 1 + Max(taken)
  BY DEF NextSeq
<1>7. Max(taken) \in Nat
  <2> HIDE DEF taken
  <2> QED  BY <1>2, <1>5
<1>8. \A m \in 1 .. Max(taken) : SeqTaken(s, m)
  <2>1. CASE Max(taken) = 0
    BY <2>1
  <2>2. CASE \E t \in TurnsOf(s) : Max(taken) = t.seq
    BY <2>2 DEF KInv, TurnsFormASequence
  <2> QED  BY <1>5, <2>1, <2>2
<1> HIDE DEF taken
<1>9. NextSeq(s) \in Nat \ {0} /\ NextSeq(s) - 1 = Max(taken)
  BY <1>6, <1>7
<1> QED  BY <1>8, <1>9

LEMMA NumberTurnKeeps ==
  ASSUME KInv, NEW q \in Requests, NEW s \in SessionIds, NEW role \in Written,
         NumberTurn(q, s, role)
  PROVE  KInv'
<1> DEFINE next == [request[q] EXCEPT !.step = "numbered", !.session = s, !.seq = NextSeq(s),
                                      !.role = role]
<1>1. UNCHANGED <<held, widened, rules, sessions, turns, trail, changes>> /\ made' \in Nat
  BY DEF NumberTurn, KInv, TypeOK
<1>2. CASE Ends(q, "not_found")
  BY <1>1, <1>2, ReadsOnlyKeeps DEF Quiet, Codes
<1>3. CASE OwnSession(q, s) /\ Continues(q, next)
  <2>1. role \in TurnRoles /\ NextSeq(s) \in Nat \ {0}
    BY NextSeqFollows, KnowledgeAssumption
  <2>2. /\ next \in Request /\ next.step = "numbered" /\ next.session = s
        /\ next.seq = NextSeq(s) /\ next.org = request[q].org /\ next.who = request[q].who
    BY <2>1, RequestParts DEF Request, Steps
  <2> HIDE DEF next
  <2>3. Numbered(next)
    BY <1>3, <2>1, <2>2, NextSeqFollows DEF Numbered, OwnSession
  <2>4. request'[q] = next
    BY <1>3, GoesOn
  <2>5. Numbered(request[q])'
    BY <1>1, <2>3, <2>4 DEF Numbered, SeqTaken, TurnsOf
  <2>6. RequestSound(q)'
    BY <2>2, <2>4, <2>5 DEF RequestSound
  <2> QED  BY <1>1, <1>3, <2>2, <2>6, ReadsOnlyKeeps, SilenceIsQuiet
<1> QED  BY <1>2, <1>3 DEF NumberTurn

LEMMA InsertTurnKeeps ==
  ASSUME KInv, NEW q \in Requests, InsertTurn(q)
  PROVE  KInv'
<1>0. PICK s \in SessionIds : s = request[q].session
  BY RequestParts
<1> DEFINE r == request[q]
           turn == [session |-> s, org |-> r.org, owner |-> r.who, seq |-> r.seq,
                    role |-> r.role, authz |-> r.roles]
<1>1. /\ r.step = "numbered"
      /\ \/ SeqTaken(s, r.seq) /\ turns' = turns /\ Ends(q, "unavailable")
         \/ ~SeqTaken(s, r.seq) /\ turns' = turns \cup {turn} /\ Ends(q, "appended")
      /\ UNCHANGED <<held, widened, rules, sessions, trail, made, changes>>
  BY <1>0 DEF InsertTurn, At
<1>2. Numbered(r) /\ r.seq \in Nat
  BY <1>1, RequestParts DEF RequestSound
<1>3. /\ turn \in Turn /\ turn.session = s /\ turn.seq = r.seq /\ turn.org = r.org
      /\ turn.owner = r.who
  BY RequestParts DEF Turn
<1> HIDE DEF turn
<1>4. turns \subseteq turns' /\ turns' \subseteq turns \cup {turn} /\ turns' \subseteq Turn
  BY <1>1, <1>3 DEF KInv, TypeOK
<1>5. Grows
  BY <1>1, <1>4 DEF Grows
<1>6. /\ request' \in [Requests -> Request]
      /\ \A p \in Requests : RequestSound(p)'
      /\ answer'.code \in Codes /\ answer'.by \in Request /\ ShownOnlyToThoseItIsFor'
  BY <1>1, <1>5, RequestMoves DEF Quiet, Codes
<1>7. CASE turns' = turns
  <2>1. TurnsFormASequence' /\ TurnsBounded'
    BY <1>1, <1>7, TurnsStay
  <2>2. TypeOK' /\ RulesNeedAnotherPerson'
    BY <1>1, <1>6, <1>7 DEF KInv, TypeOK, RulesNeedAnotherPerson, AnswerableFor
  <2> QED  BY <1>6, <2>1, <2>2 DEF KInv
<1>8. CASE turns' = turns \cup {turn} /\ ~SeqTaken(s, r.seq)
  <2>1. TypeOK' /\ RulesNeedAnotherPerson'
    BY <1>1, <1>4, <1>6 DEF KInv, TypeOK, RulesNeedAnotherPerson, AnswerableFor
  <2>2. TurnsBounded'
    <3>1. PICK n \in Nat : \A t \in turns : t.seq <= n
      BY DEF KInv, TurnsBounded
    <3>2. \A t \in turns : t.seq \in Nat
      BY DEF KInv, TypeOK, Turn
    <3>3. n + r.seq \in Nat
      BY <1>2, <3>1
    <3>4. \A t \in turns' : t.seq <= n + r.seq
      <4> SUFFICES ASSUME NEW t \in turns' PROVE t.seq <= n + r.seq
        OBVIOUS
      <4>1. CASE t \in turns
        BY <1>2, <3>1, <3>2, <4>1
      <4>2. CASE t = turn
        BY <1>2, <1>3, <3>1, <4>2
      <4> QED  BY <1>8, <4>1, <4>2
    <3> QED  BY <3>3, <3>4 DEF TurnsBounded
  <2>3. ASSUME NEW o \in SessionIds
        PROVE  /\ \A t, u \in TurnsOf(o)' : t.seq = u.seq => t = u
               /\ \A t \in TurnsOf(o)' : \A n \in 1 .. t.seq : SeqTaken(o, n)'
               /\ \A t \in TurnsOf(o)' : sessions'[o] = [org |-> t.org, owner |-> t.owner]
    <3>1. /\ \A t, u \in TurnsOf(o) : t.seq = u.seq => t = u
          /\ \A t \in TurnsOf(o) : \A n \in 1 .. t.seq : SeqTaken(o, n)
          /\ \A t \in TurnsOf(o) : sessions[o] = [org |-> t.org, owner |-> t.owner]
      BY DEF KInv, TurnsFormASequence
    <3>2. TurnsOf(o)' = IF o = s THEN TurnsOf(o) \cup {turn} ELSE TurnsOf(o)
      BY <1>3, <1>8 DEF TurnsOf
    <3>3. \A n : SeqTaken(o, n) => SeqTaken(o, n)'
      BY <3>2 DEF SeqTaken
    <3>4. CASE o # s
      BY <1>1, <3>1, <3>2, <3>3, <3>4
    <3>5. CASE o = s
      <4>1. \A t, u \in TurnsOf(o)' : t.seq = u.seq => t = u
        BY <1>3, <1>8, <3>1, <3>2, <3>5 DEF SeqTaken
      <4>2. \A n \in 1 .. r.seq : SeqTaken(o, n)'
        <5> SUFFICES ASSUME NEW n \in 1 .. r.seq PROVE SeqTaken(o, n)'
          OBVIOUS
        <5>1. CASE n = r.seq
          <6>1. turn \in TurnsOf(o)' /\ turn.seq = n
            BY <1>3, <3>2, <3>5, <5>1
          <6> QED  BY <6>1 DEF SeqTaken
        <5>2. CASE n # r.seq
          <6>1. n \in 1 .. (r.seq - 1)
            BY <1>2, <5>2
          <6> QED  BY <1>0, <1>2, <3>3, <3>5, <6>1 DEF Numbered
        <5> QED  BY <5>1, <5>2
      <4>3. \A t \in TurnsOf(o)' : \A n \in 1 .. t.seq : SeqTaken(o, n)'
        BY <1>3, <3>1, <3>2, <3>3, <4>2
      <4>4. \A t \in TurnsOf(o)' : sessions'[o] = [org |-> t.org, owner |-> t.owner]
        BY <1>0, <1>1, <1>2, <1>3, <3>1, <3>2, <3>5, ZenonT(40) DEF Numbered
      <4> QED  BY <4>1, <4>3, <4>4
    <3> QED  BY <3>4, <3>5
  <2>4. TurnsFormASequence'
    BY <2>3 DEF TurnsFormASequence
  <2> QED  BY <1>6, <2>1, <2>2, <2>4 DEF KInv
<1> QED  BY <1>1, <1>7, <1>8

LEMMA ReadTranscriptKeeps ==
  ASSUME KInv, NEW q \in Requests, NEW s \in SessionIds, ReadTranscript(q, s)
  PROVE  KInv'
<1> DEFINE r     == request[q]
           shown == {t \in TurnsOf(s) : Readable(q, t)}
           block == [r.block EXCEPT !.shown = shown]
           by    == [r EXCEPT !.block = block]
<1>1. UNCHANGED <<held, widened, rules, sessions, turns, trail, changes>> /\ made' \in Nat
  BY DEF ReadTranscript, KInv, TypeOK
<1>2. CASE Ends(q, "not_found")
  BY <1>1, <1>2, ReadsOnlyKeeps DEF Quiet, Codes
<1>3. CASE answer' = Says("transcript", by) /\ request' = [request EXCEPT ![q] = Idle]
  <2>1. shown \in SUBSET Turn
    BY DEF KInv, TypeOK, TurnsOf
  <2>2. \A t \in shown : t.org = r.org /\ (t.owner = r.who \/ "support_manager" \in r.roles)
    BY DEF Readable
  <2> HIDE DEF shown
  <2>3. block \in Block /\ block.shown = shown
    BY <2>1, RequestParts DEF Block
  <2> HIDE DEF block
  <2>4. /\ by \in Request /\ by.block = block /\ by.org = r.org /\ by.who = r.who
        /\ by.roles = r.roles
    BY <2>3, RequestParts DEF Request
  <2> HIDE DEF by
  <2>5. ShownOnlyToThoseItIsFor' /\ answer'.code \in Codes /\ answer'.by \in Request
    BY <1>3, <2>2, <2>3, <2>4 DEF ShownOnlyToThoseItIsFor, Says, Codes
  <2>6. /\ request' \in [Requests -> Request] /\ request'[q] = Idle
        /\ \A p \in Requests \ {q} : request'[p] = request[p]
    BY <1>3, IdleIsRequest DEF KInv, TypeOK
  <2>7. \A p \in Requests : RequestSound(p)'
    BY <1>1, <2>6, IdleSound, OthersSound, StoreAlone
  <2>8. TypeOK'
    BY <1>1, <2>5, <2>6 DEF KInv, TypeOK
  <2> QED  BY <1>1, <2>5, <2>7, <2>8, StoresNothing DEF KInv
<1>4. answer' = Says("transcript", [request[q] EXCEPT !.block.shown = shown])
        => answer' = Says("transcript", by)
  BY RequestParts DEF Request
<1> QED  BY <1>2, <1>3, <1>4 DEF ReadTranscript

-----------------------------------------------------------------------------
(* Context.                                                                  *)
LEMMA ReadRulesKeeps ==
  ASSUME KInv, NEW q \in Requests, ReadRules(q)
  PROVE  KInv'
<1> DEFINE r     == request[q]
           check == "history.revalidate off" \notin widened
           seen  == {i \in RuleIds : Visible(q, i) /\ rules[i].state = "active"}
           block == [r.block EXCEPT !.revalidate = check, !.rules = seen]
           next  == [r EXCEPT !.step = "ruled", !.block = block]
<1>1. /\ UNCHANGED <<held, widened, rules, sessions, turns, trail, changes>> /\ made' \in Nat
      /\ Continues(q, [r EXCEPT !.step = "ruled", !.block.revalidate = check, !.block.rules = seen])
  BY DEF ReadRules, KInv, TypeOK
<1>2. check \in BOOLEAN /\ seen \in SUBSET RuleIds
      /\ \A i \in seen : rules[i].org = r.org /\ rules[i].state = "active"
  BY DEF Visible
<1>3. next = [r EXCEPT !.step = "ruled", !.block.revalidate = check, !.block.rules = seen]
  <2> HIDE DEF check, seen
  <2> QED  BY RequestParts DEF Request
<1> HIDE DEF check, seen
<1>4. block \in Block /\ block.rules = seen
  BY <1>2, RequestParts DEF Block
<1>5. next \in Request /\ next.step = "ruled" /\ next.block = block /\ next.org = r.org
  <2> HIDE DEF block
  <2> QED  BY <1>4, RequestParts DEF Request, Steps
<1> HIDE DEF block, next
<1>6. request'[q] = next /\ Continues(q, next)
  BY <1>1, <1>3, GoesOn
<1>7. RequestSound(q)'
  BY <1>1, <1>2, <1>4, <1>5, <1>6 DEF RequestSound, RulesOf
<1> QED  BY <1>1, <1>5, <1>6, <1>7, ReadsOnlyKeeps, SilenceIsQuiet

LEMMA ReadHistoryKeeps ==
  ASSUME KInv, NEW q \in Requests, NEW tail \in Tails(q), ReadHistory(q, tail)
  PROVE  KInv'
<1> DEFINE r       == request[q]
           dropped == IF r.block.revalidate THEN {t \in tail : ~Permitted(q, t)} ELSE {}
           kept    == tail \ dropped
           block   == [r.block EXCEPT !.shown = kept, !.omitted = dropped]
           next    == [r EXCEPT !.step = "assembled", !.block = block]
<1>1. /\ UNCHANGED <<held, widened, rules, sessions, turns, trail, changes>> /\ made' \in Nat
      /\ Continues(q, [r EXCEPT !.step = "assembled", !.block.shown = kept, !.block.omitted = dropped])
      /\ r.step = "ruled"
  BY DEF ReadHistory, At, KInv, TypeOK
<1>2. tail \subseteq OwnTurns(q) /\ OwnTurns(q) \subseteq turns /\ turns \subseteq Turn
  BY DEF Tails, TailOf, OwnTurns, KInv, TypeOK
<1>3. \A t \in kept : /\ t.owner = r.who /\ t.org = r.org
                      /\ r.block.revalidate /\ t.role # "user" => t.authz \ r.roles = {}
  <2> SUFFICES ASSUME NEW t \in kept
               PROVE  /\ t.owner = r.who /\ t.org = r.org
                      /\ r.block.revalidate /\ t.role # "user" => t.authz \ r.roles = {}
    OBVIOUS
  <2>1. t.owner = r.who /\ t.org = r.org /\ t.role \in TurnRoles
    BY <1>2 DEF OwnTurns, Readable, Turn
  <2>2. r.block.revalidate => Permitted(q, t)
    OBVIOUS
  <2> QED  BY <2>1, <2>2 DEF Permitted, TurnRoles, Revalidated
<1>4. kept \cup dropped \subseteq turns /\ kept \in SUBSET Turn /\ dropped \in SUBSET Turn
  BY <1>2
<1> HIDE DEF kept, dropped
<1>5. next = [r EXCEPT !.step = "assembled", !.block.shown = kept, !.block.omitted = dropped]
  BY RequestParts DEF Request
<1>6. /\ block \in Block /\ block.shown = kept /\ block.omitted = dropped
      /\ block.rules = r.block.rules /\ block.revalidate = r.block.revalidate
  BY <1>4, RequestParts DEF Block
<1>7. /\ next \in Request /\ next.step = "assembled" /\ next.block = block
      /\ next.org = r.org /\ next.who = r.who /\ next.roles = r.roles
  <2> HIDE DEF block
  <2> QED  BY <1>6, RequestParts DEF Request, Steps
<1> HIDE DEF block, next
<1>8. request'[q] = next /\ Continues(q, next)
  BY <1>1, <1>5, GoesOn
<1>9. RulesOf(request[q])
  BY <1>1, RequestParts DEF RequestSound
<1>10. request'[q].block.rules = request[q].block.rules
       /\ request'[q].block.shown = kept /\ request'[q].block.omitted = dropped
       /\ request'[q].block.revalidate = request[q].block.revalidate
       /\ request'[q].org = request[q].org /\ request'[q].who = request[q].who
       /\ request'[q].roles = request[q].roles /\ request'[q].step = "assembled"
  BY <1>6, <1>7, <1>8
<1>11. RequestSound(q)'
  <2>1. \A i \in request'[q].block.rules :
          rules'[i].org = request'[q].org /\ rules'[i].state \in {"active", "retired"}
    BY <1>1, <1>9, <1>10 DEF RulesOf
  <2>2. \A t \in request'[q].block.shown :
          /\ t.owner = request'[q].who /\ t.org = request'[q].org
          /\ request'[q].block.revalidate /\ t.role # "user" => t.authz \ request'[q].roles = {}
    BY <1>3, <1>10
  <2>3. \A t \in request'[q].block.shown \cup request'[q].block.omitted : t \in turns'
    BY <1>1, <1>4, <1>10
  <2> QED  BY <1>10, <2>1, <2>2, <2>3 DEF RequestSound, RulesOf, TurnsFor
<1> QED  BY <1>1, <1>7, <1>8, <1>11, ReadsOnlyKeeps, SilenceIsQuiet

LEMMA DeliverKeeps ==
  ASSUME KInv, NEW q \in Requests, Deliver(q)
  PROVE  KInv'
<1> DEFINE r == request[q]
<1>1. /\ UNCHANGED <<held, widened, rules, sessions, turns, trail, made, changes>>
      /\ request' = [request EXCEPT ![q] = Idle] /\ answer' = Says("context", r)
      /\ r.step = "assembled"
  BY DEF Deliver, At, Ends
<1>2. RulesOf(r) /\ TurnsFor(r) /\ r \in Request
  BY <1>1, RequestParts DEF RequestSound
<1> HIDE DEF r
<1>3. ShownOnlyToThoseItIsFor' /\ answer'.code \in Codes /\ answer'.by \in Request
  BY <1>1, <1>2 DEF ShownOnlyToThoseItIsFor, Says, Codes, RulesOf, TurnsFor
<1>4. /\ request' \in [Requests -> Request] /\ request'[q] = Idle
      /\ \A p \in Requests \ {q} : request'[p] = request[p]
  BY <1>1, IdleIsRequest DEF KInv, TypeOK
<1>5. \A p \in Requests : RequestSound(p)'
  BY <1>1, <1>4, IdleSound, OthersSound, StoreAlone
<1>6. TypeOK'
  BY <1>1, <1>3, <1>4 DEF KInv, TypeOK
<1> QED  BY <1>1, <1>3, <1>5, <1>6, StoresNothing DEF KInv

LEMMA FailsKeeps ==
  ASSUME KInv, NEW q \in Requests, Fails(q)
  PROVE  KInv'
<1>1. /\ UNCHANGED <<held, widened, rules, sessions, turns, trail, changes>> /\ made' \in Nat
      /\ Ends(q, "unavailable")
  BY DEF Fails, KInv, TypeOK
<1> QED  BY <1>1, ReadsOnlyKeeps DEF Quiet, Codes

-----------------------------------------------------------------------------
(* The world.                                                                *)
LEMMA WorldKeeps ==
  ASSUME KInv, held' \in [People -> SUBSET (Orgs \X Roles)], widened' \subseteq Switches,
         made' \in Nat, changes' \in Nat, answer' = Silence,
         UNCHANGED <<rules, sessions, turns, trail, request>>
  PROVE  KInv'
<1>1. \A q \in Requests : RequestSound(q)'
  BY StoreAlone, OthersSound
<1>2. answer'.code \in Codes /\ answer'.by \in Request /\ ShownOnlyToThoseItIsFor'
  BY SilenceIsQuiet, QuietAnswer
<1>3. TypeOK'
  BY <1>2 DEF KInv, TypeOK
<1> QED  BY <1>1, <1>2, <1>3, StoresNothing DEF KInv

LEMMA ChangeMembershipKeeps ==
  ASSUME KInv, NEW p \in People, NEW m \in Orgs \X Roles, ChangeMembership(p, m)
  PROVE  KInv'
<1>1. changes \in Nat /\ changes' = changes + 1
  BY DEF ChangeMembership, KInv, TypeOK
<1>2. held \in [People -> SUBSET (Orgs \X Roles)]
  BY DEF KInv, TypeOK
<1>3. held' \in [People -> SUBSET (Orgs \X Roles)]
  <2>1. CASE m \in held[p]
    <3>1. held' = [held EXCEPT ![p] = held[p] \ {m}]
      BY <2>1 DEF ChangeMembership
    <3> QED  BY <1>2, <3>1
  <2>2. CASE m \notin held[p]
    <3>1. held' = [held EXCEPT ![p] = held[p] \cup {m}]
      BY <2>2 DEF ChangeMembership
    <3> QED  BY <1>2, <3>1
  <2> QED  BY <2>1, <2>2
<1>4. changes' \in Nat
  BY <1>1
<1> QED  BY <1>3, <1>4, WorldKeeps DEF ChangeMembership, KInv, TypeOK

LEMMA SetSwitchKeeps ==
  ASSUME KInv, NEW key \in Switches, SetSwitch(key)
  PROVE  KInv'
<1>1. changes \in Nat /\ changes' = changes + 1 /\ widened \subseteq Switches
  BY DEF SetSwitch, KInv, TypeOK
<1>2. changes' \in Nat
  BY <1>1
<1>3. widened' \subseteq Switches
  BY <1>1 DEF SetSwitch
<1> QED  BY <1>2, <1>3, WorldKeeps DEF SetSwitch, KInv, TypeOK

-----------------------------------------------------------------------------
LEMMA InitSound == Init => KInv
<1> SUFFICES ASSUME Init PROVE KInv
  OBVIOUS
<1>1. TypeOK
  BY KnowledgeAssumption, NoRuleIsRule, NoSessionIsSession, IdleIsRequest
     DEF Init, TypeOK, Silence, Says, Codes
<1>2. \A q \in Requests : RequestSound(q)
  BY IdleIsRequest DEF Init, RequestSound
<1>3. RulesNeedAnotherPerson
  BY DEF Init, RulesNeedAnotherPerson, AnswerableFor, NoRule
<1>4. TurnsFormASequence /\ TurnsBounded
  BY DEF Init, TurnsFormASequence, TurnsBounded, TurnsOf
<1>5. ShownOnlyToThoseItIsFor
  BY DEF Init, ShownOnlyToThoseItIsFor, Silence, Says
<1> QED  BY <1>1, <1>2, <1>3, <1>4, <1>5 DEF KInv

LEMMA StepKeeps == KInv /\ [Next]_vars => KInv'
<1> SUFFICES ASSUME KInv, [Next]_vars PROVE KInv'
  OBVIOUS
<1>1. CASE UNCHANGED vars
  <2>1. UNCHANGED <<held, widened, rules, sessions, turns, trail, request, made, changes, answer>>
    BY <1>1 DEF vars
  <2>2. \A q \in Requests : RequestSound(q)'
    BY <2>1, StoreAlone, OthersSound
  <2>3. TypeOK' /\ ShownOnlyToThoseItIsFor'
    BY <2>1 DEF KInv, TypeOK, ShownOnlyToThoseItIsFor
  <2> QED  BY <2>1, <2>2, <2>3, StoresNothing DEF KInv
<1>2. ASSUME NEW q \in Requests, NEW p \in People, Resolve(q, p) PROVE KInv'
  BY <1>2, ResolveKeeps
<1>3. ASSUME NEW q \in Requests, RuleStep(q) PROVE KInv'
  <2>1. ASSUME NEW text \in Texts, ReadSelfActivate(q, text) PROVE KInv'
    BY <2>1, ReadSelfActivateKeeps
  <2>2. ASSUME NEW i \in RuleIds, CommitRule(q, i) \/ Retire(q, i) PROVE KInv'
    BY <2>2, CommitRuleKeeps, RetireKeeps
  <2>3. ASSUME NEW i \in RuleIds, NEW text \in Texts \cup {OtherText},
               NEW verdict \in {"active", "rejected"}, ReadProposal(q, i, text, verdict)
        PROVE  KInv'
    BY <2>3, ReadProposalKeeps
  <2> QED  BY <1>3, <2>1, <2>2, <2>3, InsertRuleKeeps, WriteDecisionKeeps DEF RuleStep
<1>4. ASSUME NEW q \in Requests, HistoryStep(q) PROVE KInv'
  BY <1>4, CreateSessionKeeps, ReadTranscriptKeeps, NumberTurnKeeps, InsertTurnKeeps DEF HistoryStep
<1>5. ASSUME NEW q \in Requests, ContextStep(q) PROVE KInv'
  BY <1>5, ReadRulesKeeps, ReadHistoryKeeps, DeliverKeeps DEF ContextStep
<1>6. ASSUME NEW q \in Requests, Fails(q) PROVE KInv'
  BY <1>6, FailsKeeps
<1>7. ASSUME NEW p \in People, NEW m \in Orgs \X Roles, ChangeMembership(p, m) PROVE KInv'
  BY <1>7, ChangeMembershipKeeps
<1>8. ASSUME NEW key \in Switches, SetSwitch(key) PROVE KInv'
  BY <1>8, SetSwitchKeeps
<1> QED  BY <1>1, <1>2, <1>3, <1>4, <1>5, <1>6, <1>7, <1>8, RetireUnapprovedKeeps DEF Next

(* KInv holds in every reachable state.                                      *)
THEOREM KnowledgeInvariant == Spec => []KInv
BY InitSound, StepKeeps, PTL DEF Spec

(* Every variable keeps its type, rows and blocks field by field.            *)
THEOREM KnowledgeTypeCorrect == Spec => []TypeOK
<1>1. KInv => TypeOK
  BY DEF KInv
<1> QED  BY <1>1, KnowledgeInvariant, PTL

(* Whatever approvers, switches and the Range's recovery do between the      *)
(* statements of a request (rules.py), an obeyed rule was another person's   *)
(* decision or born under the open switch, and the trail names them.         *)
THEOREM RulesAreAnswerableFor == Spec => []RulesNeedAnotherPerson
<1>1. KInv => RulesNeedAnotherPerson
  BY DEF KInv
<1> QED  BY <1>1, KnowledgeInvariant, PTL

(* However many appends to one session overlap (history.py), its turns are   *)
(* numbered from 1 with no gap and no number used twice.                     *)
THEOREM TurnsAreNumbered == Spec => []TurnsFormASequence
<1>1. KInv => TurnsFormASequence
  BY DEF KInv
<1> QED  BY <1>1, KnowledgeInvariant, PTL

(* A block or a transcript (context.py, history.py) holds nothing that is    *)
(* not for the caller the request began with.                                *)
THEOREM BlocksAreForTheirCaller == Spec => []ShownOnlyToThoseItIsFor
<1>1. KInv => ShownOnlyToThoseItIsFor
  BY DEF KInv
<1> QED  BY <1>1, KnowledgeInvariant, PTL
=============================================================================
