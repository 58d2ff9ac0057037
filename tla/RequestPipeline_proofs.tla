------------------------ MODULE RequestPipeline_proofs ------------------------
(* Proofs about AuthorizationPolicy, for every input, and RequestPipeline,   *)
(* for every set of users, organizations, rows and requests.                 *)
EXTENDS RequestPipeline, FiniteSetTheorems, WellFoundedInduction, TLAPS

-----------------------------------------------------------------------------
(* The policy.                                                               *)
AtMostOne(S) == \A g, h \in S : g = h

LEMMA WhenHolds ==
  ASSUME NEW condition, NEW head
  PROVE  \A h : h \in When(condition, head) <=> condition /\ h = head
BY DEF When

LEMMA TenantAndRoleDecidesOnce ==
  ASSUME NEW i, NEW roles, NEW verdict
  PROVE  AtMostOne(TenantAndRole(i, roles, verdict))
BY WhenHolds, ZenonT(40) DEF TenantAndRole, AtMostOne

LEMMA RefundProposeDecidesOnce ==
  ASSUME NEW i, i.amount \in Nat
  PROVE  AtMostOne(RefundPropose(i))
<1> DEFINE proposer   == InTenant(i) /\ AnyRole(i, RefundProposers)
           refundable == proposer /\ i.attribute \in RefundableStates
           comparable == refundable /\ i.sameCurrency
<1>1. i.amount > ActionMaximum <=> ~(i.amount <= ActionMaximum)
  BY PolicyAssumption
<1>2. WithinRoleLimit(i) => ~AboveRoleLimit(i)
  BY <1>1 DEF WithinRoleLimit, AboveRoleLimit
<1> QED  BY <1>1, <1>2 DEF When, RefundPropose, AtMostOne

LEMMA HeadsAreFew ==
  ASSUME NEW i, i.amount \in Nat
  PROVE  AtMostOne(Heads(i))
<1>1. AtMostOne(OrderRead(i)) /\ AtMostOne(CustomerSearch(i)) /\ AtMostOne(TicketRead(i))
      /\ AtMostOne(ActionRead(i))
  BY TenantAndRoleDecidesOnce DEF OrderRead, CustomerSearch, TicketRead, ActionRead
<1>2. AtMostOne(CustomerRead(i))
  <2>1. CASE ~InTenant(i)
    BY <2>1 DEF When, CustomerRead, AtMostOne
  <2>2. CASE InTenant(i) /\ ~AnyRole(i, ReadRoles)
    <3>1. ~AnyRole(i, SensitiveReaders)
      BY <2>2 DEF AnyRole, ReadRoles, SensitiveReaders
    <3> QED  BY <2>2, <3>1 DEF When, CustomerRead, AtMostOne
  <2>3. CASE InTenant(i) /\ AnyRole(i, ReadRoles)
    BY <2>3 DEF When, CustomerRead, AtMostOne
  <2> QED  BY <2>1, <2>2, <2>3
<1>3. AtMostOne(NoteCreate(i))
  BY DEF When, NoteCreate, AtMostOne
<1>4. AtMostOne(RefundApprove(i))
  BY DEF When, RefundApprove, AtMostOne
<1>5. AtMostOne({})
  BY DEF AtMostOne
<1> QED  BY <1>1, <1>2, <1>3, <1>4, <1>5, RefundProposeDecidesOnce DEF Heads

(* authz.rego gives every input one decision: no two of its rules hold with  *)
(* different heads, whatever the limits and the roles that have one, so OPA  *)
(* never answers an evaluation conflict.                                     *)
THEOREM PolicyNeverConflicts ==
  ASSUME NEW i, i.amount \in Nat
  PROVE  Heads(i) # {} => \E h \in Heads(i) : Heads(i) = {h} /\ Evaluate(i) = h
<1> SUFFICES ASSUME Heads(i) # {}
             PROVE  \E h \in Heads(i) : Heads(i) = {h} /\ Evaluate(i) = h
  OBVIOUS
<1>1. PICK h \in Heads(i) : TRUE
  OBVIOUS
<1>2. Heads(i) = {h}
  BY <1>1, HeadsAreFew DEF AtMostOne
<1>3. Evaluate(i) = h
  BY <1>2 DEF Evaluate
<1> QED  BY <1>2, <1>3

(* Two inputs that differ in the scopes of the token at most.                *)
SameButScopes(i, j) ==
  /\ i.action = j.action /\ i.id = j.id /\ i.orgs = j.orgs /\ i.roles = j.roles
  /\ i.level = j.level /\ i.org = j.org /\ i.attribute = j.attribute
  /\ i.amount = j.amount /\ i.sameCurrency = j.sameCurrency
  /\ i.action = "refund.approve" => i.requester = j.requester /\ i.expired = j.expired

LEMMA GrantsArePermitted ==
  ASSUME NEW i, NEW j, SameButScopes(i, j), j.scopes = None, NEW reason, NEW fields, NEW most,
         AllowWith(i, reason, fields, most).allow
  PROVE  DelegationPermits(i) /\ AllowWith(i, reason, fields, most) = AllowWith(j, reason, fields, most)
<1>1. DelegationPermits(i)
  BY DEF AllowWith, Deny
<1>2. DelegationPermits(j)
  BY DEF DelegationPermits, IsDelegated
<1> QED  BY <1>1, <1>2 DEF AllowWith

LEMMA DeniesDoNotGrant ==
  /\ ~NotAMember.allow /\ ~RoleNotPermitted.allow /\ ~StateForbids.allow /\ ~DefaultDeny.allow
  /\ \A reason : ~Deny(reason).allow
BY DEF NotAMember, RoleNotPermitted, StateForbids, DefaultDeny, Deny

LEMMA TenantAndRoleCarries ==
  ASSUME NEW i, NEW j, SameButScopes(i, j), j.scopes = None, NEW roles, NEW reason, NEW fields, NEW most,
         NEW h \in TenantAndRole(i, roles, AllowWith(i, reason, fields, most)), h.allow
  PROVE  /\ DelegationPermits(i)
         /\ h \in TenantAndRole(j, roles, AllowWith(j, reason, fields, most))
<1>1. h = AllowWith(i, reason, fields, most) /\ InTenant(i) /\ AnyRole(i, roles)
  BY DeniesDoNotGrant DEF TenantAndRole, When
<1>2. InTenant(j) /\ AnyRole(j, roles)
  BY <1>1 DEF SameButScopes, InTenant, AnyRole
<1> QED  BY <1>1, <1>2, GrantsArePermitted DEF TenantAndRole, When

LEMMA GrantsCarry ==
  ASSUME NEW i, NEW j, SameButScopes(i, j), j.scopes = None, NEW h \in Heads(i), h.allow
  PROVE  DelegationPermits(i) /\ h \in Heads(j)
<1>1. i.action = j.action /\ (InTenant(i) <=> InTenant(j)) /\ i.attribute = j.attribute
      /\ \A roles : AnyRole(i, roles) <=> AnyRole(j, roles)
  BY DEF SameButScopes, InTenant, AnyRole
<1>2. CASE i.action \in {"order.read", "customer.search", "ticket.read", "action.read"}
  BY <1>1, <1>2, TenantAndRoleCarries DEF Heads, OrderRead, CustomerSearch, TicketRead, ActionRead
<1>3. CASE i.action = "customer.read"
  <2>1. h \in CustomerRead(i)
    BY <1>3 DEF Heads
  <2>2. DelegationPermits(i) /\ h \in CustomerRead(j)
    BY <1>1, <2>1, GrantsArePermitted, DeniesDoNotGrant DEF CustomerRead, When
  <2> QED  BY <1>1, <1>3, <2>2 DEF Heads
<1>4. CASE i.action = "note.create"
  <2>1. h \in NoteCreate(i)
    BY <1>4 DEF Heads
  <2>2. DelegationPermits(i) /\ h \in NoteCreate(j)
    BY <1>1, <2>1, GrantsArePermitted, DeniesDoNotGrant DEF NoteCreate, When
  <2> QED  BY <1>1, <1>4, <2>2 DEF Heads
<1>5. CASE i.action = "refund.propose"
  <2>1. h \in RefundPropose(i)
    BY <1>5 DEF Heads
  <2>2. /\ WithinRoleLimit(i) <=> WithinRoleLimit(j)
        /\ i.amount = j.amount /\ i.sameCurrency = j.sameCurrency
    BY DEF SameButScopes, WithinRoleLimit, Limited, ExceedsRole
  <2>3. /\ h = AllowWith(i, SameOrganization, None, None)
        /\ InTenant(i) /\ AnyRole(i, RefundProposers) /\ i.attribute \in RefundableStates
        /\ i.sameCurrency /\ WithinRoleLimit(i) /\ i.amount <= ActionMaximum
    BY <2>1, DeniesDoNotGrant DEF RefundPropose, When
  <2>4. DelegationPermits(i) /\ h = AllowWith(j, SameOrganization, None, None)
    BY <2>3, GrantsArePermitted
  <2>5. h \in RefundPropose(j)
    BY <1>1, <2>2, <2>3, <2>4 DEF RefundPropose, When
  <2> QED  BY <1>1, <1>5, <2>4, <2>5 DEF Heads
<1>6. CASE i.action = "refund.approve"
  <2>1. h \in RefundApprove(i)
    BY <1>6 DEF Heads
  <2>2. i.id = j.id /\ i.requester = j.requester /\ i.expired = j.expired /\ i.level = j.level
        /\ i.roles = j.roles
    BY <1>6 DEF SameButScopes
  <2>3. DelegationPermits(i) /\ h \in RefundApprove(j)
    BY <1>1, <2>1, <2>2, GrantsArePermitted, DeniesDoNotGrant DEF RefundApprove, When
  <2> QED  BY <1>1, <1>6, <2>3 DEF Heads
<1>7. CASE i.action \notin {"order.read", "customer.search", "ticket.read", "action.read",
                            "customer.read", "note.create", "refund.propose", "refund.approve"}
  BY <1>7 DEF Heads
<1> QED  BY <1>2, <1>3, <1>4, <1>5, <1>6, <1>7

(* A delegated token is a limit and never a source: what the policy allows   *)
(* its bearer, with the fields and the result limit it allows, it would have *)
(* allowed the user without one, and the action's scope is in the token and  *)
(* may be delegated.                                                         *)
THEOREM DelegationOnlyNarrows ==
  ASSUME NEW i, NEW j, i.amount \in Nat, SameButScopes(i, j), j.scopes = None, Evaluate(i).allow
  PROVE  /\ Evaluate(j) = Evaluate(i)
         /\ i.scopes # None => RequiredScope[i.action] \in i.scopes \ NeverDelegable
<1>1. Heads(i) # {}
  BY DeniesDoNotGrant DEF Evaluate
<1>2. PICK h \in Heads(i) : Heads(i) = {h} /\ Evaluate(i) = h
  BY <1>1, PolicyNeverConflicts
<1>3. DelegationPermits(i) /\ h \in Heads(j)
  BY <1>2, GrantsCarry
<1>4. Evaluate(j) = h
  <2>1. j.amount \in Nat
    BY DEF SameButScopes
  <2>2. PICK g \in Heads(j) : Heads(j) = {g} /\ Evaluate(j) = g
    BY <1>3, <2>1, PolicyNeverConflicts
  <2> QED  BY <1>3, <2>2
<1> QED  BY <1>2, <1>3, <1>4 DEF DelegationPermits, IsDelegated, IsNeverDelegable, ScopeGranted

(* What an allowing decision says of the input.                              *)
LEMMA HeadsOf ==
  ASSUME NEW i, NEW h \in Heads(i), h.allow, i.action \in Operations
  PROVE  /\ InTenant(i) /\ AnyRole(i, RolesFor(i.action))
         /\ i.action = "refund.propose" => i.attribute \in RefundableStates /\ WithinRoleLimit(i)
         /\ i.action = "note.create" => i.attribute # "closed"
         /\ i.action = "customer.read" /\ i.attribute = "restricted" /\ ~AnyRole(i, SensitiveReaders)
              => h.fields = CustomerFieldsRestricted
<1> USE DeniesDoNotGrant
<1>1. CASE i.action \in {"order.read", "customer.search", "ticket.read", "action.read"}
  <2>1. ASSUME NEW roles, NEW verdict, h \in TenantAndRole(i, roles, verdict)
        PROVE  InTenant(i) /\ AnyRole(i, roles)
    BY <2>1 DEF TenantAndRole, When
  <2>2. RolesFor(i.action) = IF i.action = "action.read" THEN StatusReaders ELSE ReadRoles
    BY <1>1 DEF RolesFor
  <2> QED  BY <1>1, <2>1, <2>2 DEF Heads, OrderRead, CustomerSearch, TicketRead, ActionRead
<1>2. CASE i.action = "customer.read"
  <2>1. h \in CustomerRead(i) /\ RolesFor(i.action) = ReadRoles
    BY <1>2 DEF Heads, RolesFor
  <2>2. AnyRole(i, SensitiveReaders) => AnyRole(i, ReadRoles)
    BY DEF AnyRole, SensitiveReaders, ReadRoles
  <2>3. InTenant(i) /\ AnyRole(i, ReadRoles)
    BY <2>1, <2>2 DEF CustomerRead, When
  <2>4. ASSUME i.attribute = "restricted", ~AnyRole(i, SensitiveReaders)
        PROVE  h.fields = CustomerFieldsRestricted
    <3>1. h = AllowWith(i, "restricted_customer_minimal_fields", CustomerFieldsRestricted, None)
      BY <2>1, <2>4 DEF CustomerRead, When
    <3> QED  BY <3>1 DEF AllowWith, Grant
  <2> QED  BY <1>2, <2>1, <2>3, <2>4
<1>3. CASE i.action = "note.create"
  <2>1. h \in NoteCreate(i) /\ RolesFor(i.action) = NoteAuthors
    BY <1>3 DEF Heads, RolesFor
  <2> QED  BY <1>3, <2>1 DEF NoteCreate, When
<1>4. CASE i.action = "refund.propose"
  <2>1. h \in RefundPropose(i) /\ RolesFor(i.action) = NoteAuthors /\ RefundProposers = NoteAuthors
    BY <1>4 DEF Heads, RolesFor, RefundProposers, NoteAuthors
  <2> QED  BY <1>4, <2>1 DEF RefundPropose, When
<1> QED  BY <1>1, <1>2, <1>3, <1>4 DEF Operations, ActionNames

LEMMA FieldsMakeDecision ==
  ASSUME NEW allow \in BOOLEAN, NEW reason \in Reasons, NEW fields \in (SUBSET Fields) \cup {None},
         NEW most \in Nat \cup {None}
  PROVE  [allow |-> allow, reason |-> reason, fields |-> fields, most |-> most] \in Decision
BY Zenon DEF Decision

LEMMA DenyIsDecision ==
  ASSUME NEW reason \in Reasons
  PROVE  Deny(reason) \in Decision
<1>1. FALSE \in BOOLEAN /\ None \in (SUBSET Fields) \cup {None} /\ None \in Nat \cup {None}
  OBVIOUS
<1> QED  BY <1>1, FieldsMakeDecision, Zenon DEF Deny

LEMMA HeadsAreDecisions ==
  ASSUME NEW i, NEW h \in Heads(i)
  PROVE  h \in Decision
<1>1. \A reason \in Reasons : Deny(reason) \in Decision
  BY DenyIsDecision
<1>2. {OrderFields, CustomerFields, CustomerFieldsRestricted, SearchFields, TicketFields} \subseteq SUBSET Fields
  BY DEF OrderFields, CustomerFields, CustomerFieldsRestricted, SearchFields, TicketFields, Fields
<1>3. ASSUME NEW reason \in Reasons, NEW fields \in (SUBSET Fields) \cup {None}, NEW most \in Nat \cup {None}
      PROVE  AllowWith(i, reason, fields, most) \in Decision
  <2>1. Grant(reason, fields, most) \in Decision
    <3>1. TRUE \in BOOLEAN
      OBVIOUS
    <3> QED  BY <3>1, FieldsMakeDecision, Zenon DEF Grant
  <2>2. Deny(DelegationDenial(i)) \in Decision
    BY <1>1 DEF DelegationDenial, Reasons
  <2> QED  BY <2>1, <2>2 DEF AllowWith
<1>4. NotAMember \in Decision /\ RoleNotPermitted \in Decision /\ StateForbids \in Decision
  BY <1>1 DEF NotAMember, RoleNotPermitted, StateForbids, Reasons
<1>5. /\ None \in (SUBSET Fields) \cup {None} /\ None \in Nat \cup {None} /\ 25 \in Nat \cup {None}
      /\ 50 \in Nat \cup {None} /\ SameOrganization \in Reasons
      /\ "restricted_customer_minimal_fields" \in Reasons /\ "independent_approver_verified" \in Reasons
  BY DEF Reasons
<1>6. CASE h \in OrderRead(i) \/ h \in CustomerSearch(i) \/ h \in TicketRead(i) \/ h \in ActionRead(i)
  <2>1. /\ AllowWith(i, SameOrganization, OrderFields, None) \in Decision
        /\ AllowWith(i, SameOrganization, SearchFields, 25) \in Decision
        /\ AllowWith(i, SameOrganization, TicketFields, 50) \in Decision
        /\ AllowWith(i, SameOrganization, None, None) \in Decision
    BY <1>2, <1>3, <1>5
  <2>2. ASSUME NEW roles, NEW verdict \in Decision, h \in TenantAndRole(i, roles, verdict)
        PROVE  h \in Decision
    BY <1>4, <2>2 DEF TenantAndRole, When
  <2> QED  BY <1>6, <2>1, <2>2 DEF OrderRead, CustomerSearch, TicketRead, ActionRead
<1>7. CASE h \in CustomerRead(i) \/ h \in NoteCreate(i)
  <2>1. /\ AllowWith(i, SameOrganization, CustomerFields, None) \in Decision
        /\ AllowWith(i, "restricted_customer_minimal_fields", CustomerFieldsRestricted, None) \in Decision
        /\ AllowWith(i, SameOrganization, None, None) \in Decision
    BY <1>2, <1>3, <1>5
  <2> QED  BY <1>4, <1>7, <2>1 DEF CustomerRead, NoteCreate, When
<1>8. CASE h \in RefundPropose(i) \/ h \in RefundApprove(i)
  <2>1. /\ AllowWith(i, SameOrganization, None, None) \in Decision
        /\ AllowWith(i, "independent_approver_verified", None, None) \in Decision
    BY <1>3, <1>5
  <2>2. \A reason \in {"currency_mismatch", "amount_exceeds_action_maximum",
          "amount_exceeds_role_limit", "self_approval_not_permitted", "approval_expired",
          "authentication_level_insufficient"} : Deny(reason) \in Decision
    BY <1>1 DEF Reasons
  <2> QED  BY <1>4, <1>8, <2>1, <2>2 DEF RefundPropose, RefundApprove, When
<1> QED  BY <1>6, <1>7, <1>8 DEF Heads

LEMMA EvaluateIsDecision ==
  ASSUME NEW i, i.amount \in Nat
  PROVE  Evaluate(i) \in Decision
<1>1. DefaultDeny \in Decision
  BY DenyIsDecision DEF DefaultDeny, Reasons
<1>2. Heads(i) # {} => Evaluate(i) \in Heads(i)
  BY PolicyNeverConflicts
<1> QED  BY <1>1, <1>2, HeadsAreDecisions DEF Evaluate

LEMMA AllowedMeans ==
  ASSUME NEW i, i.amount \in Nat, Evaluate(i).allow, i.action \in Operations
  PROVE  /\ InTenant(i) /\ AnyRole(i, RolesFor(i.action))
         /\ i.action = "refund.propose" => i.attribute \in RefundableStates /\ WithinRoleLimit(i)
         /\ i.action = "note.create" => i.attribute # "closed"
         /\ i.action = "customer.read" /\ i.attribute = "restricted" /\ ~AnyRole(i, SensitiveReaders)
              => Evaluate(i).fields = CustomerFieldsRestricted
<1>1. Heads(i) # {}
  BY DeniesDoNotGrant DEF Evaluate
<1>2. Evaluate(i) \in Heads(i)
  BY <1>1, PolicyNeverConflicts
<1> QED  BY <1>2, HeadsOf

-----------------------------------------------------------------------------
(* The inductive invariant. What a request's record says on its own:         *)
Named(q) ==
  q.step # "none" =>
    /\ q.op \in Operations
    /\ KindOf[q.op] # "none" => q.target \in Objects /\ Kind[q.target] = KindOf[q.op]
    /\ KindOf[q.op] = "none" => q.target \notin Objects
    /\ q.subject # None => q.user \in Users

Coded(q) ==
  /\ q.step \in {"none", "subject", "resource", "decide", "act"} => q.code = "none"
  /\ q.step = "deny" => q.code \in {"404", "503"}
  /\ q.step = "evidence" => q.code \in {"200", "404"}
  /\ q.step \in {"none", "subject", "resource", "decide", "act", "deny"} => q.content = {}
  /\ q.step \in {"none", "subject", "resource", "decide"} => q.decision = None

Answered(q) == q.code \in {"200", "201"}

Placed(q) ==
  /\ \A o \in Orgs : Roster(q.subject)[o] \subseteq q.held[o]
  /\ q.step \in {"decide", "act", "evidence"} \/ Answered(q) =>
       /\ q.org \in Organizations(q.subject)
       /\ q.target \in Objects => Home[q.target] = q.org
                                  /\ q.attribute \in q.was \cap Values[Kind[q.target]]

Decided(q) ==
  /\ q.decision # None => q.step # "none" /\ q.decision = Evaluate(PolicyInput(q))
  /\ q.step \in {"act", "evidence"} \/ Answered(q) =>
       q.step # "none" /\ q.decision = Evaluate(PolicyInput(q)) /\ q.decision.allow

Showing(q) ==
  /\ q.content # {} => q.org \in Orgs
  /\ q.op = "customer.search" => \A x \in q.content : Home[x] = q.org
  /\ q.op = "customer.read" /\ "contact" \in q.content =>
       "normal" \in q.was \/ q.held[q.org] \cap SensitiveReaders # {}
  /\ q.op = "ticket.read" /\ "restricted" \in q.content =>
       q.held[q.org] \cap SensitiveReaders # {}

Sound(q) == Named(q) /\ Coded(q) /\ Placed(q) /\ Decided(q) /\ Showing(q)

(* What it says of the memberships, the rows and the tables.                  *)
Current(r) ==
  Open(r) =>
    /\ \A o \in Orgs : Roster(ResolveSubject(request[r].user))[o] \subseteq request[r].held[o]
    /\ request[r].target \in Objects => row[request[r].target] \in request[r].was

StatusKnown(r) ==
  request[r].code = "200" /\ request[r].op = "action.read" =>
    \E p \in proposals : p.request = request[r].target /\ p.org = request[r].org

Effected(r) ==
  /\ Effect(r) <=> Wrote(r, "succeeded") \in audit
  /\ Effect(r) => request[r].step = "done" /\ request[r].code \notin {"404", "409", "422"}
  /\ request[r].code = "201" => Effect(r) /\ request[r].op \in {"note.create", "refund.propose"}

NoteSound(n) ==
  LET q == request[n.request] IN
  q.step = "done" /\ n.status = q.expected /\ "open" \in q.was /\ n.org = Home[n.ticket]

ProposalSound(p) ==
  LET q == request[p.request] IN
  /\ q.step = "done"
  /\ p.org = Home[p.order] /\ p.amount <= Total[p.order] /\ p.amount <= ActionMaximum
  /\ \E role \in q.held[p.org] \cap DOMAIN RoleLimit : p.amount <= RoleLimit[role]
  /\ q.was \cap RefundableStates # {}

PipelineInv ==
  /\ TypeOK
  /\ \A r \in Requests : Sound(request[r]) /\ Current(r) /\ StatusKnown(r) /\ Effected(r)
  /\ \A n \in notes : NoteSound(n)
  /\ \A p \in proposals : ProposalSound(p)

-----------------------------------------------------------------------------
(* Records and subjects.                                                     *)
Same(new, q) ==
  /\ new.user = q.user /\ new.op = q.op /\ new.target = q.target /\ new.scopes = q.scopes
  /\ new.amount = q.amount /\ new.currency = q.currency /\ new.expected = q.expected
  /\ new.held = q.held /\ new.was = q.was

SamePlace(new, q) == new.subject = q.subject /\ new.org = q.org /\ new.attribute = q.attribute

LEMMA RecordParts ==
  ASSUME NEW q \in RequestRecord
  PROVE  /\ q.step \in Steps /\ q.user \in Users \cup {None} /\ q.op \in Operations \cup {None}
         /\ q.target \in Objects \cup Requests \cup {None} /\ q.amount \in Nat
         /\ q.amount \in Amounts \cup {0}
         /\ q.expected \in Attributes /\ q.subject \in [Orgs -> SUBSET Roles] \cup {None}
         /\ q.org \in Orgs \cup {None} /\ q.attribute \in Attributes
         /\ q.decision \in Decision \cup {None} /\ q.code \in Codes
         /\ q.content \subseteq Fields \cup Objects /\ q.failed \in BOOLEAN
         /\ q.held \in [Orgs -> SUBSET Roles] /\ q.was \subseteq Attributes
<1>1. q.amount \in Amounts \cup {0}
  BY DEF RequestRecord
<1>2. q.amount \in Nat
  <2>1. Amounts \subseteq Nat \ {0}
    BY PipelineAssumption, Zenon
  <2>2. \A a \in Amounts \cup {0} : a \in Nat
    BY <2>1
  <2> QED  BY <1>1, <2>2
<1>3. /\ q.step \in Steps /\ q.user \in Users \cup {None} /\ q.op \in Operations \cup {None}
      /\ q.target \in Objects \cup Requests \cup {None}
      /\ q.expected \in Attributes /\ q.subject \in [Orgs -> SUBSET Roles] \cup {None}
      /\ q.org \in Orgs \cup {None} /\ q.attribute \in Attributes
      /\ q.decision \in Decision \cup {None} /\ q.code \in Codes
      /\ q.content \subseteq Fields \cup Objects /\ q.failed \in BOOLEAN
      /\ q.held \in [Orgs -> SUBSET Roles] /\ q.was \subseteq Attributes
  BY DEF RequestRecord
<1> QED  BY <1>1, <1>2, <1>3

LEMMA RequestIsRecord ==
  ASSUME PipelineInv, NEW r \in Requests
  PROVE  request[r] \in RequestRecord /\ Sound(request[r]) /\ Current(r) /\ StatusKnown(r) /\ Effected(r)
BY DEF PipelineInv, TypeOK

LEMMA RosterType ==
  ASSUME NEW s \in [Orgs -> SUBSET Roles] \cup {None}
  PROVE  Roster(s) \in [Orgs -> SUBSET Roles]
BY DEF Roster, NoMembership

LEMMA SubjectType ==
  ASSUME NEW u, NEW members \in [Users -> [Orgs -> SUBSET Roles]], NEW inactive, NEW gone
  PROVE  /\ Subject(u, members, inactive, gone) \in [Orgs -> SUBSET Roles] \cup {None}
         /\ Subject(u, members, inactive, gone) # None => u \in Users
<1>1. CASE u \in Users
  <2>1. \A o \in Orgs : members[u][o] \in SUBSET Roles
    BY <1>1
  <2> QED  BY <1>1, <2>1 DEF Subject
<1>2. CASE u \notin Users
  BY <1>2 DEF Subject
<1> QED  BY <1>1, <1>2

LEMMA SameInput ==
  ASSUME NEW q, NEW new, Same(new, q), SamePlace(new, q)
  PROVE  PolicyInput(new) = PolicyInput(q)
BY DEF Same, SamePlace, PolicyInput

LEMMA InputParts ==
  ASSUME NEW q \in RequestRecord
  PROVE  /\ PolicyInput(q).amount \in Nat /\ PolicyInput(q).action = q.op
         /\ PolicyInput(q).orgs = Organizations(q.subject) /\ PolicyInput(q).org = q.org
         /\ PolicyInput(q).roles = RolesIn(q.subject, q.org) /\ PolicyInput(q).attribute = q.attribute
         /\ PolicyInput(q).scopes = q.scopes /\ PolicyInput(q).amount = q.amount
BY RecordParts DEF PolicyInput

(* A refusal keeps what was known of the request.                            *)
LEMMA RefusalSound ==
  ASSUME NEW q \in RequestRecord, Sound(q), q.step # "none", NEW new \in RequestRecord,
         Same(new, q), SamePlace(new, q), new.decision = q.decision,
         new.step = "done", new.code \notin {"200", "201"}, new.content \in {q.content, {}}
  PROVE  Sound(new)
<1>1. PolicyInput(new) = PolicyInput(q)
  BY SameInput
<1>2. Named(new) /\ Coded(new) /\ Placed(new)
  BY DEF Sound, Named, Coded, Placed, Same, SamePlace, Answered
<1>3. Decided(new)
  BY <1>1 DEF Sound, Decided, Answered
<1>4. Showing(new)
  BY DEF Sound, Showing, Same, SamePlace
<1> QED  BY <1>2, <1>3, <1>4 DEF Sound

(* So does an answer, or what is about to become one.                        *)
LEMMA AnswerSound ==
  ASSUME NEW q \in RequestRecord, Sound(q), q.step = "act" \/ q.step = "evidence",
         NEW new \in RequestRecord,
         Same(new, q), SamePlace(new, q), new.decision = q.decision,
         new.step \in {"evidence", "done"}, new.step = "evidence" => new.code \in {"200", "404"},
         Showing(new)
  PROVE  Sound(new)
<1>1. PolicyInput(new) = PolicyInput(q)
  BY SameInput
<1>2. Named(new) /\ Coded(new) /\ Placed(new)
  BY DEF Sound, Named, Coded, Placed, Same, SamePlace, Answered
<1>3. Decided(new)
  BY <1>1 DEF Sound, Decided, Answered
<1> QED  BY <1>2, <1>3 DEF Sound

(* What a request that may act, or was answered, has been allowed.            *)
LEMMA ActingMeans ==
  ASSUME NEW q \in RequestRecord, Sound(q), q.step \in {"act", "evidence"} \/ Answered(q)
  PROVE  /\ q.op \in Operations /\ q.org \in Orgs /\ q.user \in Users
         /\ q.subject \in [Orgs -> SUBSET Roles] /\ RolesIn(q.subject, q.org) \subseteq q.held[q.org]
         /\ RolesIn(q.subject, q.org) \cap RolesFor(q.op) # {}
         /\ KindOf[q.op] # "none" => q.target \in Objects /\ Kind[q.target] = KindOf[q.op]
         /\ KindOf[q.op] = "none" => q.target \notin Objects
         /\ q.target \in Objects => Home[q.target] = q.org
                                    /\ q.attribute \in q.was \cap Values[Kind[q.target]]
         /\ q.op = "refund.propose" => q.attribute \in RefundableStates /\ WithinRoleLimit(PolicyInput(q))
         /\ q.op = "note.create" => q.attribute # "closed"
         /\ q.op = "customer.read" /\ q.attribute = "restricted"
              /\ RolesIn(q.subject, q.org) \cap SensitiveReaders = {}
              => q.decision.fields = CustomerFieldsRestricted
<1>1. /\ q.step # "none" /\ q.op \in Operations
      /\ KindOf[q.op] # "none" => q.target \in Objects /\ Kind[q.target] = KindOf[q.op]
      /\ KindOf[q.op] = "none" => q.target \notin Objects
      /\ q.subject # None => q.user \in Users
      /\ q.org \in Organizations(q.subject)
      /\ q.target \in Objects => Home[q.target] = q.org
                                 /\ q.attribute \in q.was \cap Values[Kind[q.target]]
      /\ q.decision = Evaluate(PolicyInput(q)) /\ q.decision.allow
  BY DEF Sound, Named, Placed, Decided
<1>2. q.subject # None /\ q.org \in Orgs /\ q.subject \in [Orgs -> SUBSET Roles]
  BY <1>1, RecordParts DEF Organizations, ActiveOrgs
<1>3. RolesIn(q.subject, q.org) \subseteq q.held[q.org]
  BY <1>2 DEF Sound, Placed, Roster, RolesIn
<1>4. PICK i : i = PolicyInput(q)
  OBVIOUS
<1>5. /\ i.amount \in Nat /\ i.action = q.op /\ i.roles = RolesIn(q.subject, q.org)
      /\ i.attribute = q.attribute /\ Evaluate(i).allow /\ i.action \in Operations
  BY <1>1, <1>4, InputParts
<1>6. /\ AnyRole(i, RolesFor(i.action))
      /\ i.action = "refund.propose" => i.attribute \in RefundableStates /\ WithinRoleLimit(i)
      /\ i.action = "note.create" => i.attribute # "closed"
      /\ i.action = "customer.read" /\ i.attribute = "restricted" /\ ~AnyRole(i, SensitiveReaders)
           => Evaluate(i).fields = CustomerFieldsRestricted
  BY <1>5, AllowedMeans
<1> QED  BY <1>1, <1>2, <1>3, <1>4, <1>5, <1>6 DEF AnyRole

-----------------------------------------------------------------------------
(* Steps of one request.                                                     *)
Knows(new) ==
  new.step \notin {"none", "done"} =>
    /\ \A o \in Orgs : Roster(ResolveSubject(new.user))[o] \subseteq new.held[o]
    /\ new.target \in Objects => row[new.target] \in new.was

LEMMA WorldStays ==
  ASSUME UNCHANGED world
  PROVE  /\ UNCHANGED <<member, suspended, disabled, row, changes>>
         /\ \A u : ResolveSubject(u)' = ResolveSubject(u)
<1>1. UNCHANGED <<member, suspended, disabled, row, changes>>
  BY DEF world
<1> QED  BY <1>1 DEF ResolveSubject, Subject, ActiveOrgs

LEMMA OthersStay ==
  ASSUME PipelineInv, NEW s \in Requests, request'[s] = request[s], UNCHANGED world,
         proposals \subseteq proposals'
  PROVE  Sound(request[s])' /\ Current(s)' /\ StatusKnown(s)'
<1>1. Sound(request[s]) /\ Current(s) /\ StatusKnown(s)
  BY RequestIsRecord
<1>2. Sound(request[s])'
  <2>1. PICK q : q = request[s]
    OBVIOUS
  <2>2. request'[s] = q
    BY <2>1
  <2> QED  BY <1>1, <2>1, <2>2
<1>3. Current(s)'
  BY <1>1, WorldStays DEF Current, Open
<1>4. StatusKnown(s)'
  BY <1>1 DEF StatusKnown
<1> QED  BY <1>2, <1>3, <1>4

LEMMA ItselfMoves ==
  ASSUME NEW r \in Requests, NEW new, request'[r] = new, UNCHANGED world,
         Sound(new), Knows(new),
         new.code = "200" /\ new.op = "action.read" =>
           \E p \in proposals' : p.request = new.target /\ p.org = new.org
  PROVE  Sound(request[r])' /\ Current(r)' /\ StatusKnown(r)'
<1>1. Sound(request[r])'
  OBVIOUS
<1>2. Current(r)'
  BY WorldStays DEF Current, Open, Knows
<1>3. StatusKnown(r)'
  BY DEF StatusKnown
<1> QED  BY <1>1, <1>2, <1>3

LEMMA Quiet ==
  ASSUME PipelineInv, NEW r \in Requests, NEW new \in RequestRecord, request[r].step # "done",
         Update(r, new), UNCHANGED <<world, notes, proposals>>, failures' \in Nat,
         \/ audit' = audit
         \/ \E e \in {"denied", "allowed", "rls_empty"} : audit' = audit \cup {Wrote(r, e)},
         Sound(new), Knows(new), new.code # "201",
         new.code = "200" /\ new.op = "action.read" =>
           \E p \in proposals : p.request = new.target /\ p.org = new.org
  PROVE  PipelineInv'
<1>1. /\ request' \in [Requests -> RequestRecord] /\ request'[r] = new
      /\ \A s \in Requests \ {r} : request'[s] = request[s]
  BY DEF Update, PipelineInv, TypeOK
<1>2. ~Effect(r) /\ Wrote(r, "succeeded") \notin audit
  BY RequestIsRecord DEF Effected
<1>3. \A s \in Requests : /\ Effect(s)' <=> Effect(s)
                          /\ Wrote(s, "succeeded") \in audit' <=> Wrote(s, "succeeded") \in audit
  BY DEF Effect, Wrote
<1>4. ASSUME NEW s \in Requests
      PROVE  Sound(request[s])' /\ Current(s)' /\ StatusKnown(s)' /\ Effected(s)'
  <2>1. CASE s = r
    BY <1>1, <1>2, <1>3, <2>1, ItselfMoves DEF Effected
  <2>2. CASE s # r
    <3>1. request'[s] = request[s] /\ Effected(s)
      BY <1>1, <2>2, RequestIsRecord
    <3>2. Effected(s)'
      BY <1>3, <3>1 DEF Effected
    <3> QED  BY <3>1, <3>2, OthersStay
  <2> QED  BY <2>1, <2>2
<1>5. \A x \in notes \cup proposals : x.request # r
  BY <1>2 DEF Effect
<1>6. \A n \in notes' : NoteSound(n)'
  <2> SUFFICES ASSUME NEW n \in notes PROVE NoteSound(n)'
    OBVIOUS
  <2>1. NoteSound(n) /\ n.request \in Requests \ {r}
    BY <1>5 DEF PipelineInv, TypeOK
  <2> QED  BY <1>1, <2>1 DEF NoteSound
<1>7. \A p \in proposals' : ProposalSound(p)'
  <2> SUFFICES ASSUME NEW p \in proposals PROVE ProposalSound(p)'
    OBVIOUS
  <2>1. ProposalSound(p) /\ p.request \in Requests \ {r}
    BY <1>5 DEF PipelineInv, TypeOK
  <2>2. request'[p.request] = request[p.request]
    BY <1>1, <2>1
  <2> QED  BY <2>1, <2>2 DEF ProposalSound
<1>8. TypeOK'
  <2>1. audit' \subseteq [request : Requests, event : {"denied", "allowed", "succeeded", "rls_empty"}]
    BY DEF PipelineInv, TypeOK, Wrote
  <2> QED  BY <1>1, <2>1, WorldStays DEF PipelineInv, TypeOK
<1> QED  BY <1>4, <1>6, <1>7, <1>8 DEF PipelineInv

(* A request that is not over yet still knows what it knew.                   *)
LEMMA KnowsOn ==
  ASSUME PipelineInv, NEW r \in Requests, Open(r), NEW new, Same(new, request[r])
  PROVE  Knows(new)
BY RequestIsRecord DEF Current, Open, Knows, Same

(* Refusals: no row, no effect.                                              *)
LEMMA Refuses ==
  ASSUME PipelineInv, NEW r \in Requests, Open(r), NEW new \in RequestRecord,
         Same(new, request[r]), SamePlace(new, request[r]), new.decision = request[r].decision,
         new.step = "done", new.code \notin {"200", "201"}, new.content \in {request[r].content, {}},
         Update(r, new), UNCHANGED <<world, notes, proposals>>, failures' \in Nat,
         \/ audit' = audit
         \/ \E e \in {"denied", "allowed", "rls_empty"} : audit' = audit \cup {Wrote(r, e)}
  PROVE  PipelineInv'
<1>1. request[r] \in RequestRecord /\ Sound(request[r]) /\ request[r].step \notin {"none", "done"}
  BY RequestIsRecord DEF Open
<1>2. Sound(new)
  BY <1>1, RefusalSound
<1> QED  BY <1>1, <1>2, KnowsOn, Quiet

LEMMA StepsAre ==
  /\ "subject" \in Steps /\ "resource" \in Steps /\ "decide" \in Steps /\ "act" \in Steps
  /\ "deny" \in Steps /\ "evidence" \in Steps /\ "done" \in Steps
  /\ "none" \in Codes /\ "200" \in Codes /\ "201" \in Codes /\ "404" \in Codes
  /\ "409" \in Codes /\ "422" \in Codes /\ "503" \in Codes /\ "lost" \in Codes
BY DEF Steps, Codes

(* The shapes in which a handler changes a request's record.                 *)
Loaded(q, s, sub)      == [q EXCEPT !.step = s, !.subject = sub]
Found(q, s, o, v)      == [q EXCEPT !.step = s, !.org = o, !.attribute = v]
Housed(q, s, o)        == [q EXCEPT !.step = s, !.org = o]
Ruled(q, d, s, c, b)   == [q EXCEPT !.decision = d, !.step = s, !.code = c, !.failed = b]
Moved(q, s, c)         == [q EXCEPT !.step = s, !.code = c]
Filled(q, s, c, x)     == [q EXCEPT !.step = s, !.code = c, !.content = x]
Emptied(q)             == [q EXCEPT !.content = {}]
Failed(q)              == [q EXCEPT !.failed = TRUE]

LEMMA LoadedRecord ==
  ASSUME NEW q \in RequestRecord, NEW s \in Steps, NEW sub \in [Orgs -> SUBSET Roles] \cup {None}
  PROVE  LET new == Loaded(q, s, sub) IN
         /\ new \in RequestRecord /\ Same(new, q) /\ new.step = s /\ new.subject = sub
         /\ new.org = q.org /\ new.attribute = q.attribute /\ new.decision = q.decision
         /\ new.code = q.code /\ new.content = q.content
<1>1. Loaded(q, s, sub) \in RequestRecord
  BY DEF RequestRecord, Loaded
<1>2. LET new == Loaded(q, s, sub) IN
      /\ Same(new, q) /\ new.step = s /\ new.subject = sub
      /\ new.org = q.org /\ new.attribute = q.attribute /\ new.decision = q.decision
      /\ new.code = q.code /\ new.content = q.content
  BY DEF RequestRecord, Same, Loaded
<1> QED  BY <1>1, <1>2

LEMMA FoundRecord ==
  ASSUME NEW q \in RequestRecord, NEW s \in Steps, NEW o \in Orgs, NEW v \in Attributes
  PROVE  LET new == Found(q, s, o, v) IN
         /\ new \in RequestRecord /\ Same(new, q) /\ new.step = s /\ new.subject = q.subject
         /\ new.org = o /\ new.attribute = v /\ new.decision = q.decision
         /\ new.code = q.code /\ new.content = q.content
BY ZenonT(40) DEF RequestRecord, Same, Found

LEMMA HousedRecord ==
  ASSUME NEW q \in RequestRecord, NEW s \in Steps, NEW o \in Orgs
  PROVE  LET new == Housed(q, s, o) IN
         /\ new \in RequestRecord /\ Same(new, q) /\ new.step = s /\ new.subject = q.subject
         /\ new.org = o /\ new.attribute = q.attribute /\ new.decision = q.decision
         /\ new.code = q.code /\ new.content = q.content
BY ZenonT(40) DEF RequestRecord, Same, Housed

LEMMA RuledRecord ==
  ASSUME NEW q \in RequestRecord, NEW s \in Steps, NEW d \in Decision, NEW c \in Codes,
         NEW b \in BOOLEAN
  PROVE  LET new == Ruled(q, d, s, c, b) IN
         /\ new \in RequestRecord /\ Same(new, q) /\ SamePlace(new, q) /\ new.step = s
         /\ new.decision = d /\ new.code = c /\ new.content = q.content
<1>1. Ruled(q, d, s, c, b) \in RequestRecord
  BY ZenonT(40) DEF RequestRecord, Ruled
<1>2. LET new == Ruled(q, d, s, c, b) IN
      /\ Same(new, q) /\ SamePlace(new, q) /\ new.step = s
      /\ new.decision = d /\ new.code = c /\ new.content = q.content
  BY DEF RequestRecord, Same, SamePlace, Ruled
<1> QED  BY <1>1, <1>2

LEMMA MovedRecord ==
  ASSUME NEW q \in RequestRecord, NEW s \in Steps, NEW c \in Codes
  PROVE  LET new == Moved(q, s, c) IN
         /\ new \in RequestRecord /\ Same(new, q) /\ SamePlace(new, q) /\ new.step = s
         /\ new.decision = q.decision /\ new.code = c /\ new.content = q.content
<1>1. Moved(q, s, c) \in RequestRecord
  BY DEF RequestRecord, Moved
<1>2. LET new == Moved(q, s, c) IN
      /\ Same(new, q) /\ SamePlace(new, q) /\ new.step = s
      /\ new.decision = q.decision /\ new.code = c /\ new.content = q.content
  BY DEF RequestRecord, Same, SamePlace, Moved
<1> QED  BY <1>1, <1>2

LEMMA FilledRecord ==
  ASSUME NEW q \in RequestRecord, NEW s \in Steps, NEW c \in Codes,
         NEW x \in SUBSET (Fields \cup Objects)
  PROVE  LET new == Filled(q, s, c, x) IN
         /\ new \in RequestRecord /\ Same(new, q) /\ SamePlace(new, q) /\ new.step = s
         /\ new.decision = q.decision /\ new.code = c /\ new.content = x
<1>1. Filled(q, s, c, x) \in RequestRecord
  BY DEF RequestRecord, Filled
<1>2. LET new == Filled(q, s, c, x) IN
      /\ Same(new, q) /\ SamePlace(new, q) /\ new.step = s
      /\ new.decision = q.decision /\ new.code = c /\ new.content = x
  BY DEF RequestRecord, Same, SamePlace, Filled
<1> QED  BY <1>1, <1>2

LEMMA EmptiedRecord ==
  ASSUME NEW q \in RequestRecord
  PROVE  LET new == Emptied(q) IN
         /\ new \in RequestRecord /\ Same(new, q) /\ SamePlace(new, q) /\ new.step = q.step
         /\ new.decision = q.decision /\ new.code = q.code /\ new.content = {}
BY DEF RequestRecord, Same, SamePlace, Emptied

LEMMA FailedRecord ==
  ASSUME NEW q \in RequestRecord
  PROVE  LET new == Failed(q) IN
         /\ new \in RequestRecord /\ Same(new, q) /\ SamePlace(new, q) /\ new.step = q.step
         /\ new.decision = q.decision /\ new.code = q.code /\ new.content = q.content
<1>1. PICK b \in BOOLEAN : b
  OBVIOUS
<1>2. Failed(q) = [q EXCEPT !.failed = b]
  BY <1>1 DEF Failed
<1>3. Failed(q) \in RequestRecord
  BY <1>2 DEF RequestRecord
<1>4. LET new == Failed(q) IN
      /\ Same(new, q) /\ SamePlace(new, q) /\ new.step = q.step
      /\ new.decision = q.decision /\ new.code = q.code /\ new.content = q.content
  BY DEF RequestRecord, Same, SamePlace, Failed
<1> QED  BY <1>3, <1>4

LEMMA LoadSubjectKeeps ==
  ASSUME PipelineInv, NEW r \in Requests, LoadSubject(r)
  PROVE  PipelineInv'
<1>0. PICK q \in RequestRecord : q = request[r]
  BY RequestIsRecord
<1>1. PICK sub : sub = ResolveSubject(q.user)
  OBVIOUS
<1>2. PICK new : new = Loaded(q, "resource", sub)
  OBVIOUS
<1>3. /\ Sound(q) /\ Current(r) /\ q.step = "subject" /\ Open(r)
      /\ Update(r, new) /\ UNCHANGED <<world, notes, proposals, audit, failures>>
  BY <1>0, <1>1, <1>2, RequestIsRecord DEF LoadSubject, Loaded, Open, rows
<1>4. /\ sub \in [Orgs -> SUBSET Roles] \cup {None}
      /\ sub # None => q.user \in Users
  BY <1>1, SubjectType DEF ResolveSubject, PipelineInv, TypeOK
<1>5. /\ new \in RequestRecord /\ Same(new, q) /\ new.step = "resource" /\ new.subject = sub
      /\ new.code = "none" /\ new.content = {} /\ new.decision = None
  <2>1. /\ new \in RequestRecord /\ Same(new, q) /\ new.step = "resource" /\ new.subject = sub
        /\ new.code = q.code /\ new.content = q.content /\ new.decision = q.decision
    BY <1>2, <1>4, StepsAre, LoadedRecord
  <2> QED  BY <1>3, <2>1 DEF Sound, Coded
<1>6. Named(new)
  <2>1. /\ q.op \in Operations
        /\ KindOf[q.op] # "none" => q.target \in Objects /\ Kind[q.target] = KindOf[q.op]
        /\ KindOf[q.op] = "none" => q.target \notin Objects
    BY <1>3 DEF Sound, Named
  <2>2. new.op = q.op /\ new.target = q.target /\ new.user = q.user
    BY <1>5 DEF Same
  <2> QED  BY <1>4, <1>5, <2>1, <2>2 DEF Named
<1>7. Placed(new)
  <2>1. \A o \in Orgs : Roster(sub)[o] \subseteq q.held[o]
    BY <1>0, <1>1, <1>3 DEF Current
  <2> QED  BY <1>5, <2>1 DEF Placed, Same, Answered
<1>8. Coded(new) /\ Decided(new)
  BY <1>5 DEF Coded, Decided, Answered
<1>9. Showing(new)
  BY <1>5 DEF Showing
<1>10. failures' \in Nat
  BY <1>3 DEF PipelineInv, TypeOK
<1> QED  BY <1>0, <1>3, <1>5, <1>6, <1>7, <1>8, <1>9, <1>10, KnowsOn, Quiet DEF Sound

LEMMA FirstIsOne ==
  ASSUME NEW orgs \in SUBSET Orgs, orgs # {}
  PROVE  First(orgs) \in orgs
<1>1. orgs \subseteq Nat
  BY PipelineAssumption
<1>2. PICK least \in orgs : \A p \in orgs : least <= p
  <2> DEFINE R == OpToRel(<, Nat)
  <2>1. IsWellFoundedOn(R, Nat)
    BY NatLessThanWellFounded
  <2>2. \A k, m \in Nat : k < m => <<k, m>> \in R
    BY DEF OpToRel
  <2> HIDE DEF R
  <2>3. PICK m \in orgs : \A k \in orgs : ~(<<k, m>> \in R)
    BY <1>1, <2>1, WFMin
  <2>4. \A k \in orgs : k \in Nat /\ m \in Nat /\ ~(k < m)
    BY <1>1, <2>2, <2>3
  <2> QED  BY <2>3, <2>4
<1> QED  BY <1>2 DEF First

(* On the way to a refusal.                                                   *)
LEMMA DenySound ==
  ASSUME NEW q \in RequestRecord, Sound(q), q.step \in {"resource", "decide"},
         NEW new \in RequestRecord, Same(new, q), SamePlace(new, q), new.step = "deny",
         new.code \in {"404", "503"}, new.content = q.content,
         new.decision \in {q.decision, Evaluate(PolicyInput(q))}
  PROVE  Sound(new)
<1>1. PolicyInput(new) = PolicyInput(q)
  BY SameInput
<1>2. q.content = {} /\ q.decision = None /\ q.step # "none"
  BY DEF Sound, Coded
<1>3. Named(new)
  BY <1>2 DEF Sound, Named, Same, SamePlace
<1>4. Coded(new)
  BY <1>2 DEF Coded
<1>5. Placed(new)
  BY DEF Sound, Placed, Same, SamePlace, Answered
<1>6. Decided(new)
  BY <1>1, <1>2 DEF Decided, Answered
<1>7. Showing(new)
  BY <1>2 DEF Showing
<1> QED  BY <1>3, <1>4, <1>5, <1>6, <1>7 DEF Sound

LEMMA LookupResourceKeeps ==
  ASSUME PipelineInv, NEW r \in Requests, LookupResource(r)
  PROVE  PipelineInv'
<1>0. PICK q \in RequestRecord : q = request[r]
  BY RequestIsRecord
<1>1. /\ Sound(q) /\ Current(r) /\ q.step = "resource" /\ Open(r) /\ KindOf[q.op] # "none"
      /\ UNCHANGED <<world, notes, proposals, audit, failures>> /\ failures' \in Nat
  BY <1>0, RequestIsRecord DEF LookupResource, Open, rows, PipelineInv, TypeOK
<1>2. CASE Hits(q) = {} /\ Update(r, Moved(q, "deny", "404"))
  <2>1. PICK new : new = Moved(q, "deny", "404")
    OBVIOUS
  <2>2. /\ new \in RequestRecord /\ Same(new, q) /\ SamePlace(new, q) /\ new.step = "deny"
        /\ new.decision = q.decision /\ new.code = "404" /\ new.content = q.content
    <3>1. "deny" \in Steps /\ "404" \in Codes
      BY StepsAre
    <3>2. LET moved == Moved(q, "deny", "404") IN
          /\ moved \in RequestRecord /\ Same(moved, q) /\ SamePlace(moved, q) /\ moved.step = "deny"
          /\ moved.decision = q.decision /\ moved.code = "404" /\ moved.content = q.content
      BY <3>1, MovedRecord
    <3> QED  BY <2>1, <3>2
  <2>3. Sound(new)
    BY <1>1, <2>2, DenySound
  <2> QED  BY <1>0, <1>1, <1>2, <2>1, <2>2, <2>3, KnowsOn, Quiet
<1>3. CASE Hits(q) # {} /\ Update(r, Found(q, "decide", First(Hits(q)), row[q.target]))
  <2>1. PICK o : o = First(Hits(q))
    OBVIOUS
  <2>2. PICK v : v = row[q.target]
    OBVIOUS
  <2>3. PICK new : new = Found(q, "decide", o, v)
    OBVIOUS
  <2>4. Hits(q) \subseteq Probe(q)
    <3>1. q.op \in Operations
      BY <1>1 DEF Sound, Named
    <3>2. KindOf[q.op] \in {"order", "ticket", "customer"}
      BY <1>1, <3>1 DEF KindOf, Operations, ActionNames
    <3> QED  BY <3>2 DEF Hits, FindOrder, LookupTicket, LookupCustomer
  <2>5. o \in Probe(q)
    <3>1. Hits(q) \in SUBSET Orgs
      BY <2>4 DEF Probe, Organizations, ActiveOrgs
    <3> QED  BY <1>3, <2>1, <2>4, <3>1, FirstIsOne
  <2>6. /\ o \in Orgs /\ o \in Organizations(q.subject)
        /\ q.target \in Objects /\ Home[q.target] = o /\ v # None
    BY <2>2, <2>5 DEF Probe, Visible, Organizations, ActiveOrgs
  <2>7. v \in q.was /\ v \in Values[Kind[q.target]] /\ v \in Attributes
    <3>1. v \in q.was
      BY <1>0, <1>1, <2>2, <2>6 DEF Current
    <3>2. v \in Values[Kind[q.target]] /\ v \in Attributes
      BY <2>2, <2>6 DEF PipelineInv, TypeOK
    <3> QED  BY <3>1, <3>2
  <2>8. /\ new \in RequestRecord /\ Same(new, q) /\ new.step = "decide" /\ new.subject = q.subject
        /\ new.org = o /\ new.attribute = v /\ new.decision = q.decision
        /\ new.code = q.code /\ new.content = q.content
    BY <2>3, <2>6, <2>7, StepsAre, FoundRecord
  <2>9. new.decision = None /\ new.code = "none" /\ new.content = {}
    BY <1>1, <2>8 DEF Sound, Coded
  <2>10. Named(new)
    BY <1>1, <2>8 DEF Sound, Named, Same
  <2>11. Placed(new)
    BY <1>1, <2>6, <2>7, <2>8 DEF Sound, Placed, Same, Answered
  <2>12. Coded(new) /\ Decided(new)
    BY <2>8, <2>9 DEF Coded, Decided, Answered
  <2>13. Showing(new)
    BY <2>9 DEF Showing
  <2>14. Update(r, new)
    BY <1>3, <2>1, <2>2, <2>3
  <2> QED  BY <1>0, <1>1, <2>8, <2>9, <2>10, <2>11, <2>12, <2>13, <2>14, KnowsOn, Quiet DEF Sound
<1> QED  BY <1>0, <1>2, <1>3 DEF LookupResource, Moved, Found

LEMMA AnswerRecord ==
  ASSUME NEW q \in RequestRecord, NEW c \in Codes
  PROVE  LET new == Answer(q, c) IN
         /\ new \in RequestRecord /\ Same(new, q) /\ SamePlace(new, q) /\ new.step = "done"
         /\ new.decision = q.decision /\ new.code = c /\ new.content = q.content
<1>1. "done" \in Steps
  BY StepsAre
<1>2. Answer(q, c) = Moved(q, "done", c)
  BY DEF Answer, Moved
<1> QED  BY <1>1, <1>2, MovedRecord

LEMMA RefusesWith ==
  ASSUME PipelineInv, NEW r \in Requests, Open(r), NEW q \in RequestRecord, q = request[r],
         NEW c \in Codes \ {"200", "201"}, Update(r, Answer(q, c)),
         UNCHANGED <<world, notes, proposals>>, failures' \in Nat,
         \/ audit' = audit
         \/ \E e \in {"denied", "allowed", "rls_empty"} : audit' = audit \cup {Wrote(r, e)}
  PROVE  PipelineInv'
<1>1. PICK new : new = Answer(q, c)
  OBVIOUS
<1>2. /\ new \in RequestRecord /\ Same(new, q) /\ SamePlace(new, q) /\ new.step = "done"
      /\ new.decision = q.decision /\ new.code = c /\ new.content = q.content
  BY <1>1, AnswerRecord
<1> QED  BY <1>1, <1>2, Refuses

(* The service is unavailable, whatever the request was doing.                *)
LEMMA UnavailableRecord ==
  ASSUME NEW q \in RequestRecord
  PROVE  LET new == [Answer(q, "503") EXCEPT !.failed = TRUE] IN
         /\ new \in RequestRecord /\ Same(new, q) /\ SamePlace(new, q) /\ new.step = "done"
         /\ new.decision = q.decision /\ new.code = "503" /\ new.content = q.content
<1>1. PICK answered : answered = Answer(q, "503")
  OBVIOUS
<1>2. /\ answered \in RequestRecord /\ Same(answered, q) /\ SamePlace(answered, q)
      /\ answered.step = "done" /\ answered.decision = q.decision /\ answered.code = "503"
      /\ answered.content = q.content
  BY <1>1, StepsAre, AnswerRecord
<1>3. PICK new : new = Failed(answered)
  OBVIOUS
<1>4. /\ new \in RequestRecord /\ Same(new, answered) /\ SamePlace(new, answered)
      /\ new.step = answered.step
      /\ new.decision = answered.decision /\ new.code = answered.code /\ new.content = answered.content
  BY <1>2, <1>3, FailedRecord
<1>5. Same(new, q) /\ SamePlace(new, q)
  BY <1>2, <1>4 DEF Same, SamePlace
<1>6. new = [Answer(q, "503") EXCEPT !.failed = TRUE]
  BY <1>1, <1>3 DEF Failed
<1> QED  BY <1>2, <1>4, <1>5, <1>6

LEMMA TenantAsResourceKeeps ==
  ASSUME PipelineInv, NEW r \in Requests, TenantAsResource(r)
  PROVE  PipelineInv'
<1>0. PICK q \in RequestRecord : q = request[r]
  BY RequestIsRecord
<1>1. /\ Sound(q) /\ Current(r) /\ q.step = "resource" /\ Open(r) /\ KindOf[q.op] = "none"
      /\ UNCHANGED <<world, notes, proposals, audit, failures>> /\ failures' \in Nat
  BY <1>0, RequestIsRecord DEF TenantAsResource, Open, rows, PipelineInv, TypeOK
<1>2. CASE Update(r, Answer(q, "404"))
  <2>1. "404" \in Codes \ {"200", "201"}
    BY StepsAre
  <2> QED  BY <1>0, <1>1, <1>2, <2>1, RefusesWith
<1>3. CASE /\ Organizations(q.subject) # {}
           /\ Update(r, Housed(q, "decide", First(Organizations(q.subject))))
  <2>1. PICK o : o = First(Organizations(q.subject))
    OBVIOUS
  <2>2. PICK new : new = Housed(q, "decide", o)
    OBVIOUS
  <2>3. o \in Organizations(q.subject) /\ o \in Orgs
    <3>1. Organizations(q.subject) \in SUBSET Orgs
      BY DEF Organizations, ActiveOrgs
    <3> QED  BY <1>3, <2>1, <3>1, FirstIsOne
  <2>4. /\ new \in RequestRecord /\ Same(new, q) /\ new.step = "decide" /\ new.subject = q.subject
        /\ new.org = o /\ new.attribute = q.attribute /\ new.decision = q.decision
        /\ new.code = q.code /\ new.content = q.content
    <3>1. "decide" \in Steps
      BY StepsAre
    <3>2. LET housed == Housed(q, "decide", o) IN
          /\ housed \in RequestRecord /\ Same(housed, q) /\ housed.step = "decide"
          /\ housed.subject = q.subject /\ housed.org = o /\ housed.attribute = q.attribute
          /\ housed.decision = q.decision /\ housed.code = q.code /\ housed.content = q.content
      BY <2>3, <3>1, HousedRecord
    <3> QED  BY <2>2, <3>2
  <2>5. new.decision = None /\ new.code = "none" /\ new.content = {}
    BY <1>1, <2>4 DEF Sound, Coded
  <2>6. Named(new)
    BY <1>1, <2>4 DEF Sound, Named, Same
  <2>7. new.target \notin Objects
    BY <1>1, <2>4 DEF Sound, Named, Same
  <2>8. Placed(new)
    BY <1>1, <2>3, <2>4, <2>7 DEF Sound, Placed, Same, Answered
  <2>9. Coded(new) /\ Decided(new)
    BY <2>4, <2>5 DEF Coded, Decided, Answered
  <2>10. Showing(new)
    BY <2>5 DEF Showing
  <2>11. Update(r, new)
    BY <1>3, <2>1, <2>2
  <2> QED  BY <1>0, <1>1, <2>4, <2>5, <2>6, <2>8, <2>9, <2>10, <2>11, KnowsOn, Quiet DEF Sound
<1> QED  BY <1>0, <1>2, <1>3 DEF TenantAsResource, Housed

LEMMA DecideKeeps ==
  ASSUME PipelineInv, NEW r \in Requests, Decide(r)
  PROVE  PipelineInv'
<1>0. PICK q \in RequestRecord : q = request[r]
  BY RequestIsRecord
<1>1. PICK d : d = Evaluate(PolicyInput(q))
  OBVIOUS
<1>2. d \in Decision
  BY <1>1, InputParts, EvaluateIsDecision
<1>3. PICK b \in BOOLEAN : b <=> (q.failed \/ d = Conflict)
  OBVIOUS
<1>4. PICK s : s = IF d.allow THEN "act" ELSE "deny"
  OBVIOUS
<1>5. PICK c : c = IF d.allow THEN "none" ELSE IF d = Conflict THEN "503" ELSE "404"
  OBVIOUS
<1>6. PICK new : new = Ruled(q, d, s, c, b)
  OBVIOUS
<1>7. /\ Sound(q) /\ q.step = "decide" /\ Open(r)
      /\ UNCHANGED <<world, notes, proposals, audit, failures>> /\ failures' \in Nat
  BY <1>0, RequestIsRecord DEF Decide, Open, rows, PipelineInv, TypeOK
<1>8. Update(r, new)
  <2>1. Update(r, [q EXCEPT !.decision = d, !.step = s, !.code = c, !.failed = q.failed \/ d = Conflict])
    BY <1>0, <1>1, <1>4, <1>5 DEF Decide
  <2>2. (q.failed \/ d = Conflict) \in BOOLEAN
    OBVIOUS
  <2>3. b = (q.failed \/ d = Conflict)
    BY <1>3, <2>2, Zenon
  <2> QED  BY <1>6, <2>1, <2>3 DEF Ruled
<1>9. s \in {"act", "deny"} /\ s \in Steps /\ c \in {"none", "404", "503"} /\ c \in Codes
  BY <1>4, <1>5, StepsAre
<1>10. LET ruled == Ruled(q, d, s, c, b) IN
       /\ ruled \in RequestRecord /\ Same(ruled, q) /\ SamePlace(ruled, q) /\ ruled.step = s
       /\ ruled.decision = d /\ ruled.code = c /\ ruled.content = q.content
  BY <1>2, <1>9, RuledRecord
<1>11. /\ new \in RequestRecord /\ Same(new, q) /\ SamePlace(new, q) /\ new.step = s
       /\ new.decision = d /\ new.code = c /\ new.content = q.content
  BY <1>6, <1>10
<1>12. CASE d.allow
  <2>1. PolicyInput(new) = PolicyInput(q)
    BY <1>11, SameInput
  <2>2. s = "act" /\ c = "none" /\ new.content = {}
    BY <1>4, <1>5, <1>7, <1>11, <1>12 DEF Sound, Coded
  <2>3. Named(new)
    BY <1>7, <1>11, <2>2 DEF Sound, Named, Same, SamePlace
  <2>4. Placed(new)
    BY <1>7, <1>11, <2>2 DEF Sound, Placed, Same, SamePlace, Answered
  <2>5. Coded(new)
    BY <1>11, <2>2 DEF Coded
  <2>6. Decided(new)
    BY <1>1, <1>11, <1>12, <2>1, <2>2 DEF Decided, Answered
  <2>7. Showing(new)
    BY <2>2 DEF Showing
  <2> QED  BY <1>0, <1>7, <1>8, <1>11, <2>2, <2>3, <2>4, <2>5, <2>6, <2>7, KnowsOn, Quiet DEF Sound
<1>13. CASE ~d.allow
  <2>1. s = "deny" /\ c \in {"404", "503"}
    BY <1>4, <1>5, <1>13
  <2>2. Sound(new)
    BY <1>1, <1>7, <1>11, <2>1, DenySound
  <2> QED  BY <1>0, <1>7, <1>8, <1>11, <2>1, <2>2, KnowsOn, Quiet
<1> QED  BY <1>12, <1>13

LEMMA PolicyFailsKeeps ==
  ASSUME PipelineInv, NEW r \in Requests, PolicyFails(r)
  PROVE  PipelineInv'
<1>0. PICK q \in RequestRecord : q = request[r]
  BY RequestIsRecord
<1>1. /\ Sound(q) /\ q.step = "decide" /\ Open(r)
      /\ UNCHANGED <<world, notes, proposals, audit>>
  BY <1>0, RequestIsRecord DEF PolicyFails, Open, rows
<1>2. failures' \in Nat
  BY DEF PolicyFails, Fail, PipelineInv, TypeOK
<1>3. ASSUME NEW c \in {"404", "503"}, NEW new \in RequestRecord, Same(new, q), SamePlace(new, q),
             new.step = "deny", new.decision = q.decision, new.code = c, new.content = q.content,
             Update(r, new)
      PROVE  PipelineInv'
  <2>1. Sound(new)
    BY <1>1, <1>3, DenySound
  <2> QED  BY <1>0, <1>1, <1>2, <1>3, <2>1, KnowsOn, Quiet
<1>4. "deny" \in Steps /\ "404" \in Codes /\ "503" \in Codes
  BY StepsAre
<1>5. CASE Update(r, Failed(Moved(q, "deny", "503")))
  <2>1. PICK moved : moved = Moved(q, "deny", "503")
    OBVIOUS
  <2>2. LET new == Moved(q, "deny", "503") IN
        /\ new \in RequestRecord /\ Same(new, q) /\ SamePlace(new, q) /\ new.step = "deny"
        /\ new.decision = q.decision /\ new.code = "503" /\ new.content = q.content
    BY <1>4, MovedRecord
  <2>3. PICK new : new = Failed(moved)
    OBVIOUS
  <2>4. /\ new \in RequestRecord /\ Same(new, moved) /\ SamePlace(new, moved)
        /\ new.step = moved.step
        /\ new.decision = moved.decision /\ new.code = moved.code /\ new.content = moved.content
    BY <2>1, <2>2, <2>3, FailedRecord
  <2>5. Same(new, q) /\ SamePlace(new, q)
    BY <2>1, <2>2, <2>4 DEF Same, SamePlace
  <2> QED  BY <1>3, <1>5, <2>1, <2>2, <2>3, <2>4, <2>5
<1>6. CASE Update(r, Moved(q, "deny", "404"))
  <2>1. PICK new : new = Moved(q, "deny", "404")
    OBVIOUS
  <2>2. LET moved == Moved(q, "deny", "404") IN
        /\ moved \in RequestRecord /\ Same(moved, q) /\ SamePlace(moved, q) /\ moved.step = "deny"
        /\ moved.decision = q.decision /\ moved.code = "404" /\ moved.content = q.content
    BY <1>4, MovedRecord
  <2> QED  BY <1>3, <1>6, <2>1, <2>2
<1>7. [q EXCEPT !.step = "deny", !.code = "503", !.failed = TRUE] = Failed(Moved(q, "deny", "503"))
  BY DEF Failed, Moved, RequestRecord
<1> QED  BY <1>0, <1>5, <1>6, <1>7 DEF PolicyFails, Moved

LEMMA RecordDenialKeeps ==
  ASSUME PipelineInv, NEW r \in Requests, RecordDenial(r)
  PROVE  PipelineInv'
<1>0. PICK q \in RequestRecord : q = request[r]
  BY RequestIsRecord
<1>1. /\ Sound(q) /\ q.step = "deny" /\ Open(r) /\ Update(r, Answer(q, q.code))
      /\ UNCHANGED <<world, notes, proposals>>
      /\ audit' = audit \/ \E e \in {"denied", "allowed", "rls_empty"} : audit' = audit \cup {Wrote(r, e)}
  BY <1>0, RequestIsRecord DEF RecordDenial, Open
<1>2. failures' \in Nat
  BY DEF RecordDenial, Fail, PipelineInv, TypeOK
<1>3. q.code \in Codes \ {"200", "201"}
  BY <1>1, StepsAre DEF Sound, Coded
<1> QED  BY <1>0, <1>1, <1>2, <1>3, RefusesWith

LEMMA DatabaseFailsKeeps ==
  ASSUME PipelineInv, NEW r \in Requests, DatabaseFails(r)
  PROVE  PipelineInv'
<1>0. PICK q \in RequestRecord : q = request[r]
  BY RequestIsRecord
<1>1. PICK new : new = [Answer(q, "503") EXCEPT !.failed = TRUE]
  OBVIOUS
<1>2. /\ new \in RequestRecord /\ Same(new, q) /\ SamePlace(new, q) /\ new.step = "done"
      /\ new.decision = q.decision /\ new.code = "503" /\ new.content = q.content
  BY <1>1, UnavailableRecord
<1>3. Open(r) /\ Update(r, new) /\ UNCHANGED <<world, notes, proposals, audit>>
  BY <1>0, <1>1 DEF DatabaseFails, Open, rows
<1>4. failures' \in Nat
  BY DEF DatabaseFails, Fail, PipelineInv, TypeOK
<1> QED  BY <1>0, <1>2, <1>3, <1>4, Refuses

LEMMA CrashKeeps ==
  ASSUME PipelineInv, NEW r \in Requests, Crash(r)
  PROVE  PipelineInv'
<1>0. PICK q \in RequestRecord : q = request[r]
  BY RequestIsRecord
<1>1. PICK answered : answered = Answer(q, "lost")
  OBVIOUS
<1>2. /\ answered \in RequestRecord /\ Same(answered, q) /\ SamePlace(answered, q)
      /\ answered.step = "done" /\ answered.decision = q.decision /\ answered.code = "lost"
  BY <1>1, StepsAre, AnswerRecord
<1>3. PICK new : new = Emptied(answered)
  OBVIOUS
<1>4. /\ new \in RequestRecord /\ Same(new, answered) /\ SamePlace(new, answered)
      /\ new.step = answered.step /\ new.decision = answered.decision
      /\ new.code = answered.code /\ new.content = {}
  BY <1>2, <1>3, EmptiedRecord
<1>5. Same(new, q) /\ SamePlace(new, q)
  BY <1>2, <1>4 DEF Same, SamePlace
<1>6. Open(r) /\ Update(r, new) /\ UNCHANGED <<world, notes, proposals, audit>>
  BY <1>0, <1>1, <1>3 DEF Crash, Emptied, rows
<1>7. failures' \in Nat
  BY DEF Crash, Fail, PipelineInv, TypeOK
<1> QED  BY <1>0, <1>2, <1>4, <1>5, <1>6, <1>7, Refuses

(* What a read returns is shown; its evidence follows.                       *)
Shows(q, x) ==
  /\ q.op = "customer.search" => \A y \in x : Home[y] = q.org
  /\ q.op = "customer.read" /\ "contact" \in x =>
       "normal" \in q.was \/ q.held[q.org] \cap SensitiveReaders # {}
  /\ q.op = "ticket.read" /\ "restricted" \in x =>
       q.held[q.org] \cap SensitiveReaders # {}

LEMMA Returns ==
  ASSUME PipelineInv, NEW r \in Requests, NEW q \in RequestRecord, q = request[r], q.step = "act",
         NEW x \in SUBSET (Fields \cup Objects), NEW c \in {"200", "404"},
         NEW new, new = Filled(q, "evidence", c, x), Update(r, new), ReadsOnly, Shows(q, x),
         c = "200" /\ q.op = "action.read" => \E p \in proposals : p.request = q.target /\ p.org = q.org
  PROVE  PipelineInv'
<1>1. Sound(q) /\ Open(r) /\ UNCHANGED <<world, notes, proposals, audit, failures>> /\ failures' \in Nat
  BY RequestIsRecord DEF Open, ReadsOnly, rows, PipelineInv, TypeOK
<1>2. "evidence" \in Steps /\ c \in Codes
  BY StepsAre
<1>3. LET filled == Filled(q, "evidence", c, x) IN
      /\ filled \in RequestRecord /\ Same(filled, q) /\ SamePlace(filled, q) /\ filled.step = "evidence"
      /\ filled.decision = q.decision /\ filled.code = c /\ filled.content = x
  BY <1>2, FilledRecord
<1>4. /\ new \in RequestRecord /\ Same(new, q) /\ SamePlace(new, q) /\ new.step = "evidence"
      /\ new.decision = q.decision /\ new.code = c /\ new.content = x
  BY <1>3
<1>5. Sound(new)
  <2>1. q.org \in Orgs
    BY <1>1, ActingMeans
  <2>2. Showing(new)
    BY <1>4, <2>1 DEF Shows, Showing, Same, SamePlace
  <2> QED  BY <1>1, <1>4, <2>2, AnswerSound
<1>6. new.code = "200" /\ new.op = "action.read" =>
        \E p \in proposals : p.request = new.target /\ p.org = new.org
  BY <1>4 DEF Same, SamePlace
<1> QED  BY <1>1, <1>4, <1>5, <1>6, KnowsOn, Quiet

LEMMA ReturnsFields ==
  ASSUME PipelineInv, NEW r \in Requests, NEW q \in RequestRecord, q = request[r], q.step = "act",
         NEW x \in SUBSET (Fields \cup Objects), Return(r, x), ReadsOnly, Shows(q, x),
         q.op = "action.read" => \E p \in proposals : p.request = q.target /\ p.org = q.org
  PROVE  PipelineInv'
<1>1. PICK new : new = Filled(q, "evidence", "200", x)
  OBVIOUS
<1>2. Update(r, new)
  BY <1>1 DEF Return, Filled
<1> QED  BY <1>1, <1>2, Returns

LEMMA ReadRefused ==
  ASSUME PipelineInv, NEW r \in Requests, NEW q \in RequestRecord, q = request[r], q.step = "act",
         Update(r, Answer(q, "404")), ReadsOnly
  PROVE  PipelineInv'
<1>1. Open(r) /\ UNCHANGED <<world, notes, proposals, audit, failures>> /\ failures' \in Nat
  BY DEF Open, ReadsOnly, rows, PipelineInv, TypeOK
<1>2. "404" \in Codes \ {"200", "201"}
  BY StepsAre
<1> QED  BY <1>1, <1>2, RefusesWith

LEMMA MinimizeNarrows ==
  ASSUME NEW q, NEW fields
  PROVE  Minimize(q, fields) \subseteq fields
BY DEF Minimize

LEMMA GetOrderKeeps ==
  ASSUME PipelineInv, NEW r \in Requests, GetOrder(r)
  PROVE  PipelineInv'
<1>0. PICK q \in RequestRecord : q = request[r]
  BY RequestIsRecord
<1>1. /\ Sound(q) /\ q.step = "act" /\ q.op = "order.read" /\ Open(r) /\ ReadsOnly
      /\ UNCHANGED <<world, notes, proposals, audit, failures>> /\ failures' \in Nat
  BY <1>0, RequestIsRecord DEF GetOrder, Acting, Open, ReadsOnly, rows, PipelineInv, TypeOK
<1>2. CASE Return(r, Minimize(q, OrderRecord(q)))
  <2>1. Minimize(q, OrderRecord(q)) \in SUBSET (Fields \cup Objects)
    BY MinimizeNarrows DEF OrderRecord, Fields
  <2>2. PICK x \in SUBSET (Fields \cup Objects) : x = Minimize(q, OrderRecord(q))
    BY <2>1
  <2>3. Shows(q, x)
    BY <1>1 DEF Shows
  <2> QED  BY <1>0, <1>1, <1>2, <2>2, <2>3, ReturnsFields
<1>3. CASE Update(r, Moved(q, "evidence", "404"))
  <2>1. "evidence" \in Steps /\ "404" \in Codes
    BY StepsAre
  <2>2. LET moved == Moved(q, "evidence", "404") IN
        /\ moved \in RequestRecord /\ Same(moved, q) /\ SamePlace(moved, q) /\ moved.step = "evidence"
        /\ moved.decision = q.decision /\ moved.code = "404" /\ moved.content = q.content
    BY <2>1, MovedRecord
  <2>3. PICK new : new = Moved(q, "evidence", "404")
    OBVIOUS
  <2>4. /\ new \in RequestRecord /\ Same(new, q) /\ SamePlace(new, q) /\ new.step = "evidence"
        /\ new.decision = q.decision /\ new.code = "404" /\ new.content = q.content
    BY <2>2, <2>3
  <2>5. Showing(new)
    BY <1>1, <2>4 DEF Sound, Coded, Showing
  <2>6. Sound(new)
    BY <1>1, <2>4, <2>5, AnswerSound
  <2> QED  BY <1>0, <1>1, <1>3, <2>3, <2>4, <2>6, KnowsOn, Quiet
<1> QED  BY <1>0, <1>2, <1>3 DEF GetOrder, Moved

LEMMA SearchCustomersKeeps ==
  ASSUME PipelineInv, NEW r \in Requests, SearchCustomers(r)
  PROVE  PipelineInv'
<1>0. PICK q \in RequestRecord : q = request[r]
  BY RequestIsRecord
<1>1. q.step = "act" /\ q.op = "customer.search" /\ ReadsOnly /\ Return(r, SearchResults(q))
  BY <1>0 DEF SearchCustomers, Acting
<1>2. PICK x \in SUBSET (Fields \cup Objects) : x = SearchResults(q)
  BY DEF SearchResults
<1>3. Shows(q, x)
  BY <1>1, <1>2 DEF Shows, SearchResults, Visible
<1> QED  BY <1>0, <1>1, <1>2, <1>3, ReturnsFields

LEMMA GetCustomerKeeps ==
  ASSUME PipelineInv, NEW r \in Requests, GetCustomer(r)
  PROVE  PipelineInv'
<1>0. PICK q \in RequestRecord : q = request[r]
  BY RequestIsRecord
<1>1. Sound(q) /\ q.step = "act" /\ q.op = "customer.read" /\ ReadsOnly
  BY <1>0, RequestIsRecord DEF GetCustomer, Acting
<1>2. CASE Return(r, Minimize(q, CustomerRecord(q)))
  <2>1. Minimize(q, CustomerRecord(q)) \in SUBSET (Fields \cup Objects)
    BY MinimizeNarrows DEF CustomerRecord, Fields
  <2>2. PICK x \in SUBSET (Fields \cup Objects) : x = Minimize(q, CustomerRecord(q))
    BY <2>1
  <2>3. /\ q.attribute \in q.was \cap Values["customer"]
        /\ RolesIn(q.subject, q.org) \subseteq q.held[q.org]
        /\ q.attribute = "restricted" /\ RolesIn(q.subject, q.org) \cap SensitiveReaders = {}
             => q.decision.fields = CustomerFieldsRestricted
    <3>1. KindOf[q.op] = "customer"
      BY <1>1 DEF KindOf, Operations, ActionNames
    <3> QED  BY <1>1, <3>1, ActingMeans
  <2>4. q.attribute \in {"normal", "restricted"}
    BY <2>3 DEF Values
  <2>5. ASSUME "contact" \in x, q.attribute = "restricted"
        PROVE  q.held[q.org] \cap SensitiveReaders # {}
    <3>1. q.decision.fields # CustomerFieldsRestricted
      BY <2>2, <2>5, PipelineAssumption DEF Minimize, CustomerFieldsRestricted
    <3> QED  BY <2>3, <2>5, <3>1
  <2>6. Shows(q, x)
    BY <1>1, <2>3, <2>4, <2>5 DEF Shows
  <2> QED  BY <1>0, <1>1, <1>2, <2>2, <2>6, ReturnsFields
<1>3. CASE Update(r, Answer(q, "404"))
  BY <1>0, <1>1, <1>3, ReadRefused
<1> QED  BY <1>0, <1>2, <1>3 DEF GetCustomer

LEMMA GetTicketKeeps ==
  ASSUME PipelineInv, NEW r \in Requests, GetTicket(r)
  PROVE  PipelineInv'
<1>0. PICK q \in RequestRecord : q = request[r]
  BY RequestIsRecord
<1>1. Sound(q) /\ q.step = "act" /\ q.op = "ticket.read" /\ ReadsOnly
  BY <1>0, RequestIsRecord DEF GetTicket, Acting
<1>2. CASE Return(r, Minimize(q, TicketRecord(q)) \cup Messages(q))
  <2>1. /\ Minimize(q, TicketRecord(q)) \subseteq {"ticket"}
        /\ Messages(q) \subseteq {"messages", "restricted"}
    BY MinimizeNarrows DEF TicketRecord, Messages
  <2>2. PICK x \in SUBSET (Fields \cup Objects) : x = Minimize(q, TicketRecord(q)) \cup Messages(q)
    BY <2>1 DEF Fields
  <2>3. RolesIn(q.subject, q.org) \subseteq q.held[q.org]
    BY <1>1, ActingMeans
  <2>4. "restricted" \in x => q.held[q.org] \cap SensitiveReaders # {}
    BY <2>1, <2>2, <2>3 DEF Messages, SeesRestrictedMessages, SensitiveReaders
  <2>5. Shows(q, x)
    BY <1>1, <2>4 DEF Shows
  <2> QED  BY <1>0, <1>1, <1>2, <2>2, <2>5, ReturnsFields
<1>3. CASE Update(r, Answer(q, "404"))
  BY <1>0, <1>1, <1>3, ReadRefused
<1> QED  BY <1>0, <1>2, <1>3 DEF GetTicket

LEMMA GetActionStatusKeeps ==
  ASSUME PipelineInv, NEW r \in Requests, GetActionStatus(r)
  PROVE  PipelineInv'
<1>0. PICK q \in RequestRecord : q = request[r]
  BY RequestIsRecord
<1>1. q.step = "act" /\ q.op = "action.read" /\ ReadsOnly
  BY <1>0 DEF GetActionStatus, Acting
<1>2. CASE ActionStatus(q) # {} /\ Return(r, ActionStatus(q))
  <2>1. PICK x \in SUBSET (Fields \cup Objects) : x = ActionStatus(q)
    BY DEF ActionStatus, Fields
  <2>2. \E p \in proposals : p.request = q.target /\ p.org = q.org
    BY <1>2 DEF ActionStatus, ProposalVisible
  <2>3. Shows(q, x)
    BY <1>1 DEF Shows
  <2> QED  BY <1>0, <1>1, <1>2, <2>1, <2>2, <2>3, ReturnsFields
<1>3. CASE Update(r, Answer(q, "404"))
  BY <1>0, <1>1, <1>3, ReadRefused
<1> QED  BY <1>0, <1>2, <1>3 DEF GetActionStatus

LEMMA RecordSuccessKeeps ==
  ASSUME PipelineInv, NEW r \in Requests, RecordSuccess(r)
  PROVE  PipelineInv'
<1>0. PICK q \in RequestRecord : q = request[r]
  BY RequestIsRecord
<1>1. /\ Sound(q) /\ StatusKnown(r) /\ q.step = "evidence" /\ Open(r) /\ Update(r, Answer(q, q.code))
      /\ UNCHANGED <<world, notes, proposals>>
      /\ audit' = audit \/ \E e \in {"denied", "allowed", "rls_empty"} : audit' = audit \cup {Wrote(r, e)}
  BY <1>0, RequestIsRecord DEF RecordSuccess, Open
<1>2. failures' \in Nat
  BY DEF RecordSuccess, Fail, PipelineInv, TypeOK
<1>3. q.code \in {"200", "404"} /\ q.code \in Codes
  BY <1>1, StepsAre DEF Sound, Coded
<1>4. PICK new : new = Answer(q, q.code)
  OBVIOUS
<1>5. /\ new \in RequestRecord /\ Same(new, q) /\ SamePlace(new, q) /\ new.step = "done"
      /\ new.decision = q.decision /\ new.code = q.code /\ new.content = q.content
  BY <1>3, <1>4, AnswerRecord
<1>6. Showing(new)
  BY <1>1, <1>5 DEF Sound, Showing, Same, SamePlace
<1>7. Sound(new)
  BY <1>1, <1>5, <1>6, AnswerSound
<1>8. new.code = "200" /\ new.op = "action.read" =>
        \E p \in proposals : p.request = new.target /\ p.org = new.org
  BY <1>0, <1>1, <1>5 DEF StatusKnown, Same, SamePlace
<1> QED  BY <1>0, <1>1, <1>2, <1>3, <1>4, <1>5, <1>7, <1>8, KnowsOn, Quiet

-----------------------------------------------------------------------------
(* Effects.                                                                  *)
NoteType     == [request : Requests, ticket : Objects, author : Users, org : Orgs, status : Attributes]
ProposalType == [request : Requests, order : Objects, org : Orgs, requester : Users,
                 amount : Amounts \cup {0}]

LEMMA Writes ==
  ASSUME PipelineInv, NEW r \in Requests, NEW q \in RequestRecord, q = request[r], q.step = "act",
         NEW new \in RequestRecord, Update(r, new), Same(new, q), SamePlace(new, q),
         new.decision = q.decision, new.step = "done", new.code \in {"201", "503"},
         new.content = q.content,
         UNCHANGED world, failures' \in Nat, audit' = audit \cup {Wrote(r, "succeeded")},
         q.op \in {"note.create", "refund.propose"},
         notes' \subseteq NoteType, proposals' \subseteq ProposalType,
         notes \subseteq notes', proposals \subseteq proposals',
         \A n \in notes' \ notes : n.request = r /\ NoteSound(n)',
         \A p \in proposals' \ proposals : p.request = r /\ ProposalSound(p)',
         \E x \in (notes' \cup proposals') : x.request = r
  PROVE  PipelineInv'
<1>1. /\ request' \in [Requests -> RequestRecord] /\ request'[r] = new
      /\ \A s \in Requests \ {r} : request'[s] = request[s]
  BY DEF Update, PipelineInv, TypeOK
<1>2. ~Effect(r) /\ Wrote(r, "succeeded") \notin audit /\ Sound(q)
  BY RequestIsRecord DEF Effected
<1>3. \A s \in Requests \ {r} : /\ Effect(s)' <=> Effect(s)
                                /\ Wrote(s, "succeeded") \in audit' <=> Wrote(s, "succeeded") \in audit
  BY DEF Effect, Wrote
<1>4. Sound(new)
  <2>1. Showing(new)
    BY <1>2 DEF Sound, Showing, Same, SamePlace
  <2> QED  BY <1>2, <2>1, AnswerSound
<1>5. Effected(r)'
  <2>1. Effect(r)' /\ Wrote(r, "succeeded") \in audit'
    BY DEF Effect
  <2>2. /\ request'[r].step = "done" /\ request'[r].code \in {"201", "503"}
        /\ request'[r].op \in {"note.create", "refund.propose"}
    BY <1>1 DEF Same
  <2> QED  BY <2>1, <2>2 DEF Effected
<1>6. ASSUME NEW s \in Requests
      PROVE  Sound(request[s])' /\ Current(s)' /\ StatusKnown(s)' /\ Effected(s)'
  <2>1. CASE s = r
    <3>1. Knows(new)
      BY DEF Knows
    <3> QED  BY <1>1, <1>4, <1>5, <2>1, <3>1, ItselfMoves
  <2>2. CASE s # r
    <3>1. request'[s] = request[s] /\ Effected(s)
      BY <1>1, <2>2, RequestIsRecord
    <3>2. Effected(s)'
      BY <1>3, <2>2, <3>1 DEF Effected
    <3> QED  BY <3>1, <3>2, OthersStay
  <2> QED  BY <2>1, <2>2
<1>7. \A x \in (notes \cup proposals) : x.request # r
  BY <1>2 DEF Effect
<1>8. ASSUME NEW n \in notes'
      PROVE  NoteSound(n)'
  <2>1. CASE n \in notes
    <3>1. NoteSound(n) /\ n.request \in Requests \ {r}
      BY <1>7, <2>1 DEF PipelineInv, TypeOK
    <3> QED  BY <1>1, <3>1 DEF NoteSound
  <2> QED  BY <2>1
<1>9. ASSUME NEW p \in proposals'
      PROVE  ProposalSound(p)'
  <2>1. CASE p \in proposals
    <3>1. ProposalSound(p) /\ p.request \in Requests \ {r}
      BY <1>7, <2>1 DEF PipelineInv, TypeOK
    <3>2. request'[p.request] = request[p.request]
      BY <1>1, <3>1
    <3> QED  BY <3>1, <3>2 DEF ProposalSound
  <2> QED  BY <2>1
<1>10. TypeOK'
  <2>1. audit' \subseteq [request : Requests, event : {"denied", "allowed", "succeeded", "rls_empty"}]
    BY DEF PipelineInv, TypeOK, Wrote
  <2> QED  BY <1>1, <2>1, WorldStays DEF PipelineInv, TypeOK, NoteType, ProposalType
<1> QED  BY <1>6, <1>8, <1>9, <1>10 DEF PipelineInv

(* The answer to an effect, acknowledged or lost on the way.                  *)
LEMMA AcknowledgedMeans ==
  ASSUME NEW r \in Requests, NEW q \in RequestRecord, Acknowledged(r, q), failures \in Nat
  PROVE  \E new \in RequestRecord :
           /\ Update(r, new) /\ Same(new, q) /\ SamePlace(new, q) /\ new.decision = q.decision
           /\ new.step = "done" /\ new.code \in {"201", "503"} /\ new.content = q.content
           /\ failures' \in Nat
<1>1. CASE Update(r, Answer(q, "201")) /\ UNCHANGED failures
  <2>1. "201" \in Codes
    BY StepsAre
  <2>2. PICK new : new = Answer(q, "201")
    OBVIOUS
  <2>3. LET answered == Answer(q, "201") IN
        /\ answered \in RequestRecord /\ Same(answered, q) /\ SamePlace(answered, q)
        /\ answered.step = "done" /\ answered.decision = q.decision /\ answered.code = "201"
        /\ answered.content = q.content
    BY <2>1, AnswerRecord
  <2> QED  BY <1>1, <2>2, <2>3
<1>2. CASE Update(r, [Answer(q, "503") EXCEPT !.failed = TRUE]) /\ Fail
  <2>1. PICK new : new = [Answer(q, "503") EXCEPT !.failed = TRUE]
    OBVIOUS
  <2>2. /\ new \in RequestRecord /\ Same(new, q) /\ SamePlace(new, q) /\ new.step = "done"
        /\ new.decision = q.decision /\ new.code = "503" /\ new.content = q.content
    BY <2>1, UnavailableRecord
  <2>3. failures' \in Nat
    BY <1>2 DEF Fail
  <2> QED  BY <1>2, <2>1, <2>2, <2>3
<1> QED  BY <1>1, <1>2 DEF Acknowledged

LEMMA CreateNoteKeeps ==
  ASSUME PipelineInv, NEW r \in Requests, CreateNote(r)
  PROVE  PipelineInv'
<1>0. PICK q \in RequestRecord : q = request[r]
  BY RequestIsRecord
<1>1. /\ Sound(q) /\ q.step = "act" /\ q.op = "note.create" /\ Open(r) /\ UNCHANGED <<world, proposals>>
      /\ failures \in Nat
  BY <1>0, RequestIsRecord DEF CreateNote, Open, PipelineInv, TypeOK
<1>2. CASE /\ TicketAsExpected(q) /\ InsertNote(r, q)
           /\ audit' = audit \cup {Wrote(r, "succeeded")} /\ Acknowledged(r, q)
  <2>1. PICK new \in RequestRecord :
           /\ Update(r, new) /\ Same(new, q) /\ SamePlace(new, q) /\ new.decision = q.decision
           /\ new.step = "done" /\ new.code \in {"201", "503"} /\ new.content = q.content
           /\ failures' \in Nat
    BY <1>1, <1>2, AcknowledgedMeans
  <2>2. PICK n : n = [request |-> r, ticket |-> q.target, author |-> q.user, org |-> q.org,
                      status |-> row[q.target]]
    OBVIOUS
  <2>3. notes' = notes \cup {n}
    BY <1>2, <2>2 DEF InsertNote
  <2>4. /\ q.org \in Orgs /\ q.user \in Users /\ q.target \in Objects /\ Home[q.target] = q.org
        /\ q.attribute \in q.was \cap Values["ticket"] /\ q.attribute # "closed"
    <3>1. KindOf[q.op] = "ticket"
      BY <1>1 DEF KindOf, Operations, ActionNames
    <3> QED  BY <1>1, <3>1, ActingMeans
  <2>5. "open" \in q.was
    BY <2>4 DEF Values
  <2>6. row[q.target] = q.expected /\ row[q.target] \in Attributes
    BY <1>2, <2>4 DEF TicketAsExpected, PipelineInv, TypeOK
  <2>7. n \in NoteType /\ n.request = r /\ n.status = q.expected /\ n.ticket = q.target /\ n.org = q.org
    BY <2>2, <2>4, <2>6 DEF NoteType
  <2>8. request'[r] = new
    BY <2>1 DEF Update, PipelineInv, TypeOK
  <2>9. NoteSound(n)'
    BY <2>1, <2>4, <2>5, <2>7, <2>8 DEF NoteSound, Same
  <2>10. notes' \subseteq NoteType /\ proposals' \subseteq ProposalType
    BY <1>1, <2>3, <2>7 DEF PipelineInv, TypeOK, NoteType, ProposalType
  <2> QED  BY <1>0, <1>1, <1>2, <2>1, <2>3, <2>7, <2>9, <2>10, Writes
<1>3. CASE Update(r, Answer(q, "409")) /\ UNCHANGED <<notes, audit, failures>>
  <2>1. "409" \in Codes \ {"200", "201"}
    BY StepsAre
  <2> QED  BY <1>0, <1>1, <1>3, <2>1, RefusesWith
<1> QED  BY <1>0, <1>2, <1>3 DEF CreateNote

LEMMA ProposeRefundKeeps ==
  ASSUME PipelineInv, NEW r \in Requests, ProposeRefund(r)
  PROVE  PipelineInv'
<1>0. PICK q \in RequestRecord : q = request[r]
  BY RequestIsRecord
<1>1. /\ Sound(q) /\ q.step = "act" /\ q.op = "refund.propose" /\ Open(r) /\ UNCHANGED <<world, notes>>
      /\ failures \in Nat
  BY <1>0, RequestIsRecord DEF ProposeRefund, Open, PipelineInv, TypeOK
<1>2. CASE /\ q.amount <= Total[q.target] /\ InsertProposal(r, q)
           /\ audit' = audit \cup {Wrote(r, "succeeded")} /\ Acknowledged(r, q)
  <2>1. PICK new \in RequestRecord :
           /\ Update(r, new) /\ Same(new, q) /\ SamePlace(new, q) /\ new.decision = q.decision
           /\ new.step = "done" /\ new.code \in {"201", "503"} /\ new.content = q.content
           /\ failures' \in Nat
    BY <1>1, <1>2, AcknowledgedMeans
  <2>2. PICK p : p = [request |-> r, order |-> q.target, org |-> q.org, requester |-> q.user,
                      amount |-> q.amount]
    OBVIOUS
  <2>3. proposals' = proposals \cup {p}
    BY <1>2, <2>2 DEF InsertProposal
  <2>4. /\ q.org \in Orgs /\ q.user \in Users /\ q.target \in Objects /\ Home[q.target] = q.org
        /\ q.attribute \in q.was /\ q.attribute \in RefundableStates
        /\ RolesIn(q.subject, q.org) \subseteq q.held[q.org] /\ WithinRoleLimit(PolicyInput(q))
    <3>1. KindOf[q.op] = "order"
      BY <1>1 DEF KindOf, Operations, ActionNames
    <3> QED  BY <1>1, <3>1, ActingMeans
  <2>5. /\ q.amount <= ActionMaximum
        /\ \E role \in q.held[q.org] \cap DOMAIN RoleLimit : q.amount <= RoleLimit[role]
    <3>1. PICK i : i = PolicyInput(q)
      OBVIOUS
    <3>2. i.roles = RolesIn(q.subject, q.org) /\ i.amount = q.amount /\ i.amount \in Nat
      BY <3>1, InputParts
    <3>3. i.amount <= ActionMaximum
      BY <2>4, <3>1 DEF WithinRoleLimit
    <3>4. PICK role \in i.roles \cap DOMAIN RoleLimit : ~(i.amount > RoleLimit[role])
      BY <2>4, <3>1 DEF WithinRoleLimit, ExceedsRole
    <3>5. RoleLimit[role] \in Nat
      BY <3>4, PolicyAssumption
    <3>6. i.amount <= RoleLimit[role]
      BY <3>2, <3>4, <3>5
    <3> QED  BY <2>4, <3>2, <3>3, <3>4, <3>6
  <2>6. q.amount \in Amounts \cup {0}
    BY RecordParts
  <2>7. /\ p \in ProposalType /\ p.request = r /\ p.org = q.org /\ p.order = q.target
        /\ p.amount = q.amount
    BY <2>2, <2>4, <2>6 DEF ProposalType
  <2>8. request'[r] = new
    BY <2>1 DEF Update, PipelineInv, TypeOK
  <2>9. ProposalSound(p)'
    <3>1. new.held = q.held /\ new.was = q.was
      BY <2>1 DEF Same
    <3> QED  BY <1>2, <2>1, <2>4, <2>5, <2>7, <2>8, <3>1 DEF ProposalSound
  <2>10. notes' \subseteq NoteType /\ proposals' \subseteq ProposalType
    BY <1>1, <2>3, <2>7 DEF PipelineInv, TypeOK, NoteType, ProposalType
  <2> QED  BY <1>0, <1>1, <1>2, <2>1, <2>3, <2>7, <2>9, <2>10, Writes
<1>3. CASE Update(r, Answer(q, "422")) /\ UNCHANGED <<proposals, audit, failures>>
  <2>1. "422" \in Codes \ {"200", "201"}
    BY StepsAre
  <2> QED  BY <1>0, <1>1, <1>3, <2>1, RefusesWith
<1> QED  BY <1>0, <1>2, <1>3 DEF ProposeRefund

-----------------------------------------------------------------------------
(* A request arrives.                                                        *)
LEMMA NothingYet ==
  /\ NoMembership \in [Orgs -> SUBSET Roles] /\ 0 \in Amounts \cup {0} /\ None \in Attributes
  /\ "none" \in Steps /\ "none" \in Codes /\ "subject" \in Steps
BY DEF NoMembership, Attributes, Steps, Codes

LEMMA IdleRecord ==
  /\ Idle \in RequestRecord /\ Idle.step = "none" /\ Idle.subject = None /\ Idle.code = "none"
  /\ Idle.content = {} /\ Idle.decision = None
<1> DEFINE With(t, b) ==
      [step |-> "none", user |-> None, op |-> None, target |-> None,
       scopes |-> None, amount |-> 0, currency |-> t, expected |-> None,
       subject |-> None, org |-> None, attribute |-> None, decision |-> None,
       code |-> "none", content |-> {}, failed |-> b, held |-> NoMembership, was |-> {}]
<1>1. PICK t \in BOOLEAN, b \in BOOLEAN : t /\ ~b
  OBVIOUS
<1>2. Idle = With(t, b)
  BY <1>1 DEF Idle
<1>3. With(t, b) \in RequestRecord
  BY NothingYet DEF RequestRecord
<1>4. /\ Idle.step = "none" /\ Idle.subject = None /\ Idle.code = "none"
      /\ Idle.content = {} /\ Idle.decision = None
  BY DEF Idle
<1> QED  BY <1>2, <1>3, <1>4

Asked(q, s, u, a, x, sc) == [q EXCEPT !.step = s, !.user = u, !.op = a, !.target = x, !.scopes = sc]
Detailed(q, m, c, e)     == [q EXCEPT !.amount = m, !.currency = c, !.expected = e]
Dated(q, h, w)           == [q EXCEPT !.held = h, !.was = w]

Unplaced(new, q) ==
  /\ new.subject = q.subject /\ new.code = q.code /\ new.content = q.content
  /\ new.decision = q.decision

LEMMA AskedRecord ==
  ASSUME NEW q \in RequestRecord, NEW s \in Steps,
         NEW u \in Users \cup {None}, NEW a \in Operations, NEW x \in Objects \cup Requests \cup {None},
         NEW sc \in TokenScopes \cup {None}
  PROVE  LET new == Asked(q, s, u, a, x, sc) IN
         /\ new \in RequestRecord /\ Unplaced(new, q)
         /\ new.step = s /\ new.user = u /\ new.op = a /\ new.target = x
<1>1. Asked(q, s, u, a, x, sc) \in RequestRecord
  BY ZenonT(40) DEF RequestRecord, Asked
<1>2. LET new == Asked(q, s, u, a, x, sc) IN
      Unplaced(new, q) /\ new.step = s /\ new.user = u /\ new.op = a /\ new.target = x
  BY DEF RequestRecord, Asked, Unplaced
<1> QED  BY <1>1, <1>2

LEMMA DetailedRecord ==
  ASSUME NEW q \in RequestRecord, NEW m \in Amounts \cup {0}, NEW c \in BOOLEAN, NEW e \in Attributes
  PROVE  LET new == Detailed(q, m, c, e) IN
         /\ new \in RequestRecord /\ Unplaced(new, q)
         /\ new.step = q.step /\ new.user = q.user /\ new.op = q.op /\ new.target = q.target
<1>1. PICK q1 : q1 = [q EXCEPT !.amount = m]
  OBVIOUS
<1>2. q1 \in RequestRecord
  BY <1>1 DEF RequestRecord
<1>3. PICK q2 : q2 = [q1 EXCEPT !.currency = c]
  OBVIOUS
<1>4. q2 \in RequestRecord
  BY <1>2, <1>3 DEF RequestRecord
<1>5. [q2 EXCEPT !.expected = e] \in RequestRecord
  BY <1>4 DEF RequestRecord
<1>6. Detailed(q, m, c, e) = [q2 EXCEPT !.expected = e]
  BY <1>1, <1>3 DEF Detailed, RequestRecord
<1>7. LET new == Detailed(q, m, c, e) IN
      /\ Unplaced(new, q)
      /\ new.step = q.step /\ new.user = q.user /\ new.op = q.op /\ new.target = q.target
  BY DEF RequestRecord, Detailed, Unplaced
<1> QED  BY <1>5, <1>6, <1>7

LEMMA DatedRecord ==
  ASSUME NEW q \in RequestRecord, NEW h \in [Orgs -> SUBSET Roles], NEW w \in SUBSET Attributes
  PROVE  LET new == Dated(q, h, w) IN
         /\ new \in RequestRecord /\ Unplaced(new, q) /\ new.held = h /\ new.was = w
         /\ new.step = q.step /\ new.user = q.user /\ new.op = q.op /\ new.target = q.target
         /\ new.scopes = q.scopes /\ new.amount = q.amount /\ new.currency = q.currency
         /\ new.expected = q.expected /\ SamePlace(new, q)
<1>1. PICK q1 : q1 = [q EXCEPT !.held = h]
  OBVIOUS
<1>2. q1 \in RequestRecord
  BY <1>1 DEF RequestRecord
<1>3. [q1 EXCEPT !.was = w] \in RequestRecord
  BY <1>2 DEF RequestRecord
<1>4. Dated(q, h, w) = [q1 EXCEPT !.was = w]
  BY <1>1 DEF Dated, RequestRecord
<1>5. LET new == Dated(q, h, w) IN
      /\ Unplaced(new, q) /\ new.held = h /\ new.was = w
      /\ new.step = q.step /\ new.user = q.user /\ new.op = q.op /\ new.target = q.target
      /\ new.scopes = q.scopes /\ new.amount = q.amount /\ new.currency = q.currency
      /\ new.expected = q.expected /\ SamePlace(new, q)
  BY DEF RequestRecord, Dated, Unplaced, SamePlace
<1> QED  BY <1>3, <1>4, <1>5

LEMMA ValuesAreAttributes ==
  \A k \in {"order", "ticket", "customer"} : Values[k] \subseteq Attributes
BY DEF Values, Attributes

LEMMA ArriveKeeps ==
  ASSUME PipelineInv, NEW r \in Requests, NEW u \in Users \cup {None}, NEW a \in Operations,
         NEW x \in Objects \cup Requests \cup {None}, NEW scopes \in TokenScopes \cup {None},
         Arrive(r, u, a, x, scopes)
  PROVE  PipelineInv'
<1>0. PICK idle \in RequestRecord :
        /\ idle = Idle /\ idle.subject = None /\ idle.code = "none" /\ idle.content = {}
        /\ idle.decision = None
  BY IdleRecord
<1>1. PICK h : h = Roster(ResolveSubject(u))
  OBVIOUS
<1>2. PICK w : w = IF x \in Objects THEN {row[x]} ELSE {}
  OBVIOUS
<1>3. PICK body \in ProposeRefundRequest(a), e \in CreateNoteRequest(a) :
        Update(r, [Idle EXCEPT
            !.step = "subject", !.user = u, !.op = a, !.target = x, !.scopes = scopes,
            !.amount = body[1], !.currency = body[2], !.expected = e, !.held = h, !.was = w])
  BY <1>1, <1>2 DEF Arrive
<1>4. body[1] \in Amounts \cup {0} /\ body[2] \in BOOLEAN
  <2>1. CASE a = "refund.propose"
    BY <2>1 DEF ProposeRefundRequest
  <2>2. CASE a # "refund.propose"
    <3>1. body = <<0, TRUE>>
      BY <2>2 DEF ProposeRefundRequest
    <3>2. body[1] = 0 /\ body[2] = TRUE
      BY <3>1
    <3>3. body[2] \in BOOLEAN
      BY <3>2, Zenon
    <3> QED  BY <3>2, <3>3
  <2> QED  BY <2>1, <2>2
<1>5. e \in Attributes
  BY ValuesAreAttributes DEF CreateNoteRequest, Attributes
<1>6. h \in [Orgs -> SUBSET Roles]
  BY <1>1, SubjectType, RosterType DEF ResolveSubject, PipelineInv, TypeOK
<1>7. w \in SUBSET Attributes
  BY <1>2 DEF PipelineInv, TypeOK
<1>8. PICK m \in Amounts \cup {0}, c \in BOOLEAN : m = body[1] /\ c = body[2]
  BY <1>4
<1>9. PICK asked : asked = Asked(idle, "subject", u, a, x, scopes)
  OBVIOUS
<1>10. /\ asked \in RequestRecord /\ Unplaced(asked, idle)
       /\ asked.step = "subject" /\ asked.user = u /\ asked.op = a /\ asked.target = x
  <2>1. PICK s \in Steps : s = "subject"
    BY NothingYet
  <2>2. asked = Asked(idle, s, u, a, x, scopes)
    BY <1>9, <2>1
  <2>3. /\ Asked(idle, s, u, a, x, scopes) \in RequestRecord
        /\ Unplaced(Asked(idle, s, u, a, x, scopes), idle)
        /\ Asked(idle, s, u, a, x, scopes).step = s /\ Asked(idle, s, u, a, x, scopes).user = u
        /\ Asked(idle, s, u, a, x, scopes).op = a /\ Asked(idle, s, u, a, x, scopes).target = x
    BY AskedRecord
  <2> QED  BY <2>1, <2>2, <2>3
<1>11. PICK detailed : detailed = Detailed(asked, m, c, e)
  OBVIOUS
<1>12. /\ detailed \in RequestRecord /\ Unplaced(detailed, asked)
       /\ detailed.step = asked.step /\ detailed.user = asked.user /\ detailed.op = asked.op
       /\ detailed.target = asked.target
  BY <1>5, <1>10, <1>11, DetailedRecord
<1>13. PICK new : new = Dated(detailed, h, w)
  OBVIOUS
<1>14. /\ new \in RequestRecord /\ Unplaced(new, detailed) /\ new.held = h /\ new.was = w
       /\ new.step = detailed.step /\ new.user = detailed.user /\ new.op = detailed.op
       /\ new.target = detailed.target
  BY <1>6, <1>7, <1>13, <1>12, DatedRecord
<1>15. /\ new \in RequestRecord /\ new.step = "subject" /\ new.user = u /\ new.op = a
       /\ new.target = x /\ new.held = h /\ new.was = w /\ new.subject = None
       /\ new.code = "none" /\ new.content = {} /\ new.decision = None
  BY <1>0, <1>10, <1>12, <1>14 DEF Unplaced
<1>16. Update(r, new)
  <2>1. new = [Idle EXCEPT
            !.step = "subject", !.user = u, !.op = a, !.target = x, !.scopes = scopes,
            !.amount = m, !.currency = c, !.expected = e, !.held = h, !.was = w]
    BY <1>0, <1>9, <1>13, <1>11 DEF Asked, Detailed, Dated, RequestRecord
  <2> QED  BY <1>3, <1>8, <2>1
<1>17. /\ KindOf[a] # "none" => x \in Objects /\ Kind[x] = KindOf[a]
       /\ KindOf[a] = "none" => x \notin Objects
  <2>1. CASE KindOf[a] # "none"
    <3>1. a # "action.read"
      BY <2>1 DEF KindOf, Operations, ActionNames
    <3> QED  BY <2>1, <3>1 DEF Arrive
  <2>2. CASE KindOf[a] = "none" /\ a = "action.read"
    <3>1. PICK p \in proposals : p.request = x
      BY <2>2 DEF Arrive
    <3>2. x \in Requests
      BY <3>1 DEF PipelineInv, TypeOK
    <3> QED  BY <2>2, <3>2, PipelineAssumption
  <2>3. CASE KindOf[a] = "none" /\ a # "action.read"
    <3>1. x = None
      BY <2>3 DEF Arrive
    <3> QED  BY <2>3, <3>1, PipelineAssumption
  <2> QED  BY <2>1, <2>2, <2>3
<1>18. Named(new)
  BY <1>15, <1>17 DEF Named
<1>19. Placed(new)
  BY <1>15 DEF Placed, Roster, NoMembership, Answered
<1>20. Coded(new) /\ Decided(new)
  BY <1>15 DEF Coded, Decided, Answered
<1>21. Showing(new)
  BY <1>15 DEF Showing
<1>22. Knows(new)
  BY <1>1, <1>2, <1>15 DEF Knows
<1>23. /\ request[r].step # "done" /\ UNCHANGED <<world, notes, proposals, audit, failures>>
       /\ failures' \in Nat
  BY DEF Arrive, rows, PipelineInv, TypeOK
<1>24. Sound(new)
  BY <1>18, <1>19, <1>20, <1>21 DEF Sound
<1> QED  BY <1>15, <1>16, <1>22, <1>23, <1>24, Quiet

-----------------------------------------------------------------------------
(* Administrators and owners.                                                *)
Grows(new, q) ==
  /\ new.step = q.step /\ new.user = q.user /\ new.op = q.op /\ new.target = q.target
  /\ new.scopes = q.scopes /\ new.amount = q.amount /\ new.currency = q.currency
  /\ new.expected = q.expected /\ SamePlace(new, q) /\ new.decision = q.decision
  /\ new.code = q.code /\ new.content = q.content
  /\ \A o \in Orgs : q.held[o] \subseteq new.held[o]
  /\ q.was \subseteq new.was

LEMMA GrowingKeepsSound ==
  ASSUME NEW q \in RequestRecord, Sound(q), NEW new \in RequestRecord, Grows(new, q)
  PROVE  Sound(new)
<1>1. PolicyInput(new) = PolicyInput(q)
  BY DEF Grows, SamePlace, PolicyInput
<1>2. Named(new)
  BY DEF Grows, SamePlace, Sound, Named
<1>3. Coded(new)
  BY DEF Grows, Sound, Coded
<1>4. Placed(new)
  <2>1. \A o \in Orgs : Roster(new.subject)[o] \subseteq new.held[o]
    BY DEF Grows, SamePlace, Sound, Placed
  <2> QED  BY <2>1 DEF Grows, SamePlace, Sound, Placed, Answered
<1>5. Decided(new)
  BY <1>1 DEF Grows, Sound, Decided, Answered
<1>6. Showing(new)
  <2>1. new.content = {} \/ q.org \in Orgs
    BY DEF Grows, Sound, Showing
  <2> QED  BY <2>1 DEF Grows, SamePlace, Sound, Showing
<1> QED  BY <1>2, <1>3, <1>4, <1>5, <1>6 DEF Sound

LEMMA RememberedRecord ==
  ASSUME PipelineInv, Remember, NEW s \in Requests, row' \in [Objects -> Attributes],
         member' \in [Users -> [Orgs -> SUBSET Roles]]
  PROVE  /\ request'[s] \in RequestRecord /\ Grows(request'[s], request[s])
         /\ Open(s) =>
              /\ \A o \in Orgs : Roster(ResolveSubject(request[s].user))'[o] \subseteq request'[s].held[o]
              /\ request[s].target \in Objects => row'[request[s].target] \in request'[s].was
<1>0. PICK q \in RequestRecord : q = request[s]
  BY RequestIsRecord
<1>1. CASE ~Open(s)
  <2>1. request'[s] = q
    BY <1>0, <1>1 DEF Remember
  <2> QED  BY <1>0, <1>1, <2>1 DEF Grows, SamePlace
<1>2. CASE Open(s)
  <2>1. PICK t : t = Roster(Subject(q.user, member', suspended', disabled'))
    OBVIOUS
  <2>2. t \in [Orgs -> SUBSET Roles]
    <3>1. PICK m : m = member'
      OBVIOUS
    <3>2. PICK inactive, gone : inactive = suspended' /\ gone = disabled'
      OBVIOUS
    <3> QED  BY <2>1, <3>1, <3>2, SubjectType, RosterType
  <2>3. PICK h : h = [o \in Orgs |-> q.held[o] \cup t[o]]
    OBVIOUS
  <2>4. q.held \in [Orgs -> SUBSET Roles]
    BY RecordParts
  <2>5. h \in [Orgs -> SUBSET Roles] /\ \A o \in Orgs : q.held[o] \subseteq h[o] /\ t[o] \subseteq h[o]
    BY <2>2, <2>3, <2>4
  <2>6. PICK w : w = q.was \cup IF q.target \in Objects THEN {row'[q.target]} ELSE {}
    OBVIOUS
  <2>7. w \in SUBSET Attributes /\ q.was \subseteq w /\ (q.target \in Objects => row'[q.target] \in w)
    BY <2>6, RecordParts
  <2>8. request'[s] = Dated(q, h, w)
    BY <1>0, <1>2, <2>1, <2>3, <2>6 DEF Remember, Dated
  <2>9. PICK new : new = Dated(q, h, w)
    OBVIOUS
  <2>10. /\ new \in RequestRecord /\ Unplaced(new, q) /\ new.held = h /\ new.was = w
         /\ new.step = q.step /\ new.user = q.user /\ new.op = q.op /\ new.target = q.target
         /\ new.scopes = q.scopes /\ new.amount = q.amount /\ new.currency = q.currency
         /\ new.expected = q.expected /\ SamePlace(new, q)
    BY <2>5, <2>7, <2>9, DatedRecord
  <2>11. Grows(new, q)
    BY <2>5, <2>7, <2>10 DEF Grows, Unplaced
  <2>12. Roster(ResolveSubject(request[s].user))' = Roster(Subject(request'[s].user, member', suspended', disabled'))
    BY DEF ResolveSubject, Roster, Subject, ActiveOrgs
  <2>13. request'[s].user = q.user
    BY <2>8, <2>9, <2>10
  <2> QED  BY <1>0, <2>1, <2>5, <2>7, <2>8, <2>9, <2>10, <2>11, <2>12, <2>13
<1> QED  BY <1>1, <1>2

LEMMA RememberKeeps ==
  ASSUME PipelineInv, Remember, UNCHANGED rows, changes' \in Nat, failures' \in Nat,
         member' \in [Users -> [Orgs -> SUBSET Roles]], suspended' \subseteq Orgs, disabled' \subseteq Users,
         row' \in [Objects -> Attributes], \A x \in Objects : row'[x] \in Values[Kind[x]] \cup {None}
  PROVE  PipelineInv'
<1>1. UNCHANGED <<notes, proposals, audit>>
  BY DEF rows
<1>2. request' \in [Requests -> RequestRecord]
  <2>1. \A s \in Requests : request'[s] \in RequestRecord
    BY RememberedRecord
  <2> QED  BY <2>1 DEF Remember
<1>3. TypeOK'
  BY <1>1, <1>2 DEF PipelineInv, TypeOK
<1>4. \A s \in Requests : Grows(request'[s], request[s])
  BY RememberedRecord
<1>5. ASSUME NEW s \in Requests
      PROVE  Sound(request[s])' /\ Current(s)' /\ StatusKnown(s)' /\ Effected(s)'
  <2>1. request[s] \in RequestRecord /\ Sound(request[s]) /\ StatusKnown(s) /\ Effected(s)
    BY RequestIsRecord
  <2>2. PICK q, new : q = request[s] /\ new = request'[s]
    OBVIOUS
  <2>3. Sound(request[s])'
    <3>1. Sound(new)
      BY <1>4, <2>1, <2>2, RememberedRecord, GrowingKeepsSound
    <3> QED  BY <2>2, <3>1
  <2>4. /\ new.step = q.step /\ new.user = q.user /\ new.op = q.op /\ new.target = q.target
        /\ new.org = q.org /\ new.code = q.code
    BY <1>4, <2>2 DEF Grows, SamePlace
  <2>5. Current(s)'
    <3> SUFFICES ASSUME Open(s)'
                 PROVE  /\ \A o \in Orgs : Roster(ResolveSubject(request[s].user))'[o] \subseteq request'[s].held[o]
                        /\ request'[s].target \in Objects => row'[request'[s].target] \in request'[s].was
      BY DEF Current
    <3>1. Open(s)
      BY <2>2, <2>4 DEF Open
    <3> QED  BY <2>2, <2>4, <3>1, RememberedRecord
  <2>6. StatusKnown(s)'
    BY <1>1, <2>1, <2>2, <2>4 DEF StatusKnown
  <2>7. Effected(s)'
    BY <1>1, <2>1, <2>2, <2>4 DEF Effected, Effect
  <2> QED  BY <2>3, <2>5, <2>6, <2>7
<1>6. ASSUME NEW n \in notes'
      PROVE  NoteSound(n)'
  <2>1. NoteSound(n) /\ n.request \in Requests
    BY <1>1 DEF PipelineInv, TypeOK
  <2>2. Grows(request'[n.request], request[n.request])
    BY <1>4, <2>1
  <2> QED  BY <2>1, <2>2 DEF NoteSound, Grows
<1>7. ASSUME NEW p \in proposals'
      PROVE  ProposalSound(p)'
  <2>1. ProposalSound(p) /\ p.request \in Requests /\ p.org \in Orgs
    BY <1>1 DEF PipelineInv, TypeOK
  <2>2. Grows(request'[p.request], request[p.request])
    BY <1>4, <2>1
  <2>3. PICK q, new : q = request[p.request] /\ new = request'[p.request]
    OBVIOUS
  <2>4. new.step = q.step /\ q.held[p.org] \subseteq new.held[p.org] /\ q.was \subseteq new.was
    BY <2>1, <2>2, <2>3 DEF Grows
  <2> QED  BY <2>1, <2>3, <2>4 DEF ProposalSound
<1> QED  BY <1>3, <1>5, <1>6, <1>7 DEF PipelineInv

LEMMA AdministrationKeeps ==
  ASSUME PipelineInv, Administration
  PROVE  PipelineInv'
<1>0. TypeOK
  BY DEF PipelineInv
<1>1. ASSUME Change
      PROVE  UNCHANGED rows /\ changes' \in Nat /\ failures' \in Nat
  BY <1>0, <1>1 DEF Change, TypeOK
<1>2. ASSUME NEW u \in Users, NEW o \in Orgs, NEW role \in Roles, SetMembership(u, o, role)
      PROVE  PipelineInv'
  <2>1. member' \in [Users -> [Orgs -> SUBSET Roles]]
    <3>1. PICK mine : mine = IF role \in member[u][o] THEN member[u][o] \ {role} ELSE member[u][o] \cup {role}
      OBVIOUS
    <3>2. mine \in SUBSET Roles
      BY <1>0, <3>1 DEF TypeOK
    <3>3. [member[u] EXCEPT ![o] = mine] \in [Orgs -> SUBSET Roles]
      BY <1>0, <3>2 DEF TypeOK
    <3>4. member' = [member EXCEPT ![u] = [member[u] EXCEPT ![o] = mine]]
      BY <1>0, <1>2, <3>1 DEF SetMembership, TypeOK
    <3> QED  BY <1>0, <3>3, <3>4 DEF TypeOK
  <2> QED  BY <1>0, <1>1, <1>2, <2>1, RememberKeeps DEF SetMembership, TypeOK
<1>3. ASSUME NEW o \in Orgs, SuspendOrganization(o)
      PROVE  PipelineInv'
  BY <1>0, <1>1, <1>3, RememberKeeps DEF SuspendOrganization, TypeOK
<1>4. ASSUME NEW u \in Users, DisableUser(u)
      PROVE  PipelineInv'
  BY <1>0, <1>1, <1>4, RememberKeeps DEF DisableUser, TypeOK
<1>5. ASSUME NEW x \in Objects, NEW v \in Values[Kind[x]] \cup {None}, ChangeRow(x, v)
      PROVE  PipelineInv'
  <2>1. v \in Attributes
    <3>1. Kind[x] \in {"order", "ticket", "customer"}
      BY PipelineAssumption
    <3> QED  BY <3>1, ValuesAreAttributes, NothingYet
  <2>2. /\ row' \in [Objects -> Attributes]
        /\ \A y \in Objects : row'[y] \in Values[Kind[y]] \cup {None}
    BY <1>0, <1>5, <2>1 DEF ChangeRow, TypeOK
  <2> QED  BY <1>0, <1>1, <1>5, <2>2, RememberKeeps DEF ChangeRow, TypeOK
<1> QED  BY <1>2, <1>3, <1>4, <1>5 DEF Administration

-----------------------------------------------------------------------------
(* The invariant, and what follows from it.                                  *)
LEMMA InitKeeps == Init => PipelineInv
<1> SUFFICES ASSUME Init PROVE PipelineInv
  OBVIOUS
<1>1. \A r \in Requests : request[r] = Idle
  BY DEF Init
<1>2. TypeOK
  <2>1. request \in [Requests -> RequestRecord]
    BY IdleRecord DEF Init
  <2>2. member \in [Users -> [Orgs -> SUBSET Roles]]
    BY PipelineAssumption DEF Init
  <2>3. row \in [Objects -> Attributes] /\ \A x \in Objects : row[x] \in Values[Kind[x]] \cup {None}
    <3>1. PICK f \in StartRows : f = row
      BY DEF Init
    <3>2. f \in [Objects -> UNION {Values[k] : k \in DOMAIN Values}]
      BY PipelineAssumption
    <3>3. \A x \in Objects : f[x] \in Values[Kind[x]]
      BY PipelineAssumption
    <3>4. \A x \in Objects : f[x] \in Attributes
      BY <3>2 DEF Attributes
    <3> QED  BY <3>1, <3>2, <3>3, <3>4
  <2>4. changes \in Nat /\ failures \in Nat
    BY PipelineAssumption DEF Init
  <2> QED  BY <2>1, <2>2, <2>3, <2>4 DEF Init, TypeOK
<1>3. ASSUME NEW r \in Requests
      PROVE  Sound(request[r]) /\ Current(r) /\ StatusKnown(r) /\ Effected(r)
  <2>1. PICK q : q = Idle
    OBVIOUS
  <2>2. /\ q.step = "none" /\ q.subject = None /\ q.code = "none" /\ q.content = {} /\ q.decision = None
        /\ request[r] = q
    BY <1>1, <2>1, IdleRecord
  <2>3. Named(q) /\ Coded(q)
    BY <2>2 DEF Named, Coded
  <2>4. Placed(q)
    BY <2>2 DEF Placed, Roster, NoMembership, Answered
  <2>5. Decided(q)
    BY <2>2 DEF Decided, Answered
  <2>6. Showing(q)
    BY <2>2 DEF Showing
  <2>7. Current(r) /\ StatusKnown(r) /\ Effected(r)
    BY <2>2 DEF Current, Open, StatusKnown, Effected, Effect, Init
  <2> QED  BY <2>2, <2>3, <2>4, <2>5, <2>6, <2>7 DEF Sound
<1> QED  BY <1>2, <1>3 DEF PipelineInv, Init

LEMMA StepKeeps ==
  ASSUME PipelineInv, [Next]_vars
  PROVE  PipelineInv'
<1>1. CASE UNCHANGED vars
  <2>1. UNCHANGED <<member, suspended, disabled, row, request, notes, proposals, audit, changes, failures>>
    BY <1>1 DEF vars
  <2>2. \A u : ResolveSubject(u)' = ResolveSubject(u)
    BY <2>1 DEF ResolveSubject, Subject, ActiveOrgs
  <2>3. TypeOK'
    BY <2>1 DEF PipelineInv, TypeOK
  <2>4. ASSUME NEW r \in Requests
        PROVE  Sound(request[r])' /\ Current(r)' /\ StatusKnown(r)' /\ Effected(r)'
    <3>1. UNCHANGED world
      BY <2>1 DEF world
    <3>2. Effected(r)'
      BY <2>1, RequestIsRecord DEF Effected, Effect
    <3> QED  BY <2>1, <3>1, <3>2, OthersStay
  <2>5. \A n \in notes' : NoteSound(n)'
    BY <2>1 DEF PipelineInv, NoteSound
  <2>6. \A p \in proposals' : ProposalSound(p)'
    BY <2>1 DEF PipelineInv, ProposalSound
  <2> QED  BY <2>3, <2>4, <2>5, <2>6 DEF PipelineInv
<1>2. ASSUME NEW r \in Requests, Handler(r) \/ Crash(r)
      PROVE  PipelineInv'
  BY <1>2, LoadSubjectKeeps, LookupResourceKeeps, TenantAsResourceKeeps, DecideKeeps, PolicyFailsKeeps,
     RecordDenialKeeps, GetOrderKeeps, SearchCustomersKeeps, GetCustomerKeeps, GetTicketKeeps,
     GetActionStatusKeeps, RecordSuccessKeeps, CreateNoteKeeps, ProposeRefundKeeps,
     DatabaseFailsKeeps, CrashKeeps DEF Handler
<1> QED  BY <1>1, <1>2, ArriveKeeps, AdministrationKeeps DEF Next

(* PipelineInv holds in every reachable state.                               *)
THEOREM PipelineInvariant == Spec => []PipelineInv
<1>1. PipelineInv /\ [Next]_vars => PipelineInv'
  BY StepKeeps
<1> QED  BY <1>1, InitKeeps, PTL DEF Spec

(* Requests, memberships, rows and evidence keep their types.                *)
THEOREM PipelineTypeCorrect == Spec => []TypeOK
<1>1. PipelineInv => TypeOK
  BY DEF PipelineInv
<1> QED  BY <1>1, PipelineInvariant, PTL

(* Whoever pipeline.authorize let through held a role for the operation, in  *)
(* the organization of what was answered about, at a moment of the request.  *)
THEOREM AnswersNeedMembership == Spec => []AnswersRestOnMembership
<1>1. ASSUME PipelineInv PROVE AnswersRestOnMembership
  <2> SUFFICES ASSUME NEW r \in Requests, Granted(r)
               PROVE  LET q == request[r] IN
                      /\ q.held[q.org] \cap RolesFor(q.op) # {}
                      /\ q.target \in Objects => Home[q.target] = q.org
                      /\ q.op = "customer.search" => \A x \in q.content : Home[x] = q.org
                      /\ q.op = "action.read" => \E p \in proposals : p.request = q.target /\ p.org = q.org
    BY DEF AnswersRestOnMembership
  <2>1. PICK q \in RequestRecord : q = request[r]
    BY <1>1, RequestIsRecord
  <2>2. Sound(q) /\ StatusKnown(r) /\ Effected(r) /\ Answered(q)
    BY <1>1, <2>1, RequestIsRecord DEF Granted, Answered
  <2>3. /\ RolesIn(q.subject, q.org) \subseteq q.held[q.org]
        /\ RolesIn(q.subject, q.org) \cap RolesFor(q.op) # {}
        /\ q.target \in Objects => Home[q.target] = q.org
    BY <2>2, ActingMeans
  <2>4. q.op = "customer.search" => \A x \in q.content : Home[x] = q.org
    BY <2>2 DEF Sound, Showing
  <2>5. q.op = "action.read" => \E p \in proposals : p.request = q.target /\ p.org = q.org
    BY <2>1, <2>2 DEF StatusKnown, Effected, Answered
  <2> QED  BY <2>1, <2>3, <2>4, <2>5
<1> QED  BY <1>1, PipelineInvariant, PTL

(* Restricted contact details (authz.rego, customer.read) and messages (the  *)
(* row policy on ticket messages) reach managers and auditors only.          *)
THEOREM RestrictedReachesTheTrusted == Spec => []RestrictedStaysHidden
<1>1. ASSUME PipelineInv PROVE RestrictedStaysHidden
  <2> SUFFICES ASSUME NEW r \in Requests
               PROVE  LET q == request[r] IN
                      \/ q.op = "customer.read" /\ "contact" \in q.content /\ "normal" \notin q.was
                      \/ q.op = "ticket.read" /\ "restricted" \in q.content
                      => q.held[q.org] \cap SensitiveReaders # {}
    BY DEF RestrictedStaysHidden
  <2>1. Showing(request[r])
    BY <1>1, RequestIsRecord DEF Sound
  <2> QED  BY <2>1 DEF Showing
<1> QED  BY <1>1, PipelineInvariant, PTL

(* A note or proposal and its audit event (writer.py) are there together or   *)
(* not at all, and the answer agrees.                                        *)
THEOREM EffectsCarryEvidence == Spec => []EffectsAreEvidenced
<1>1. ASSUME PipelineInv PROVE EffectsAreEvidenced
  BY <1>1, RequestIsRecord DEF Effected, EffectsAreEvidenced
<1> QED  BY <1>1, PipelineInvariant, PTL

(* What propose_refund inserts is within the order's total, the action's     *)
(* maximum and the limit of a role its requester held during the request.    *)
THEOREM ProposalsStayWithinLimits == Spec => []ProposalsWithinLimits
<1>1. ASSUME PipelineInv PROVE ProposalsWithinLimits
  BY <1>1 DEF PipelineInv, ProposalSound, ProposalsWithinLimits
<1> QED  BY <1>1, PipelineInvariant, PTL

(* A note (add_internal_note) is attached to a ticket in the status its      *)
(* author stated, which was open at some moment of the request.              *)
THEOREM NotesAreAsExpected == Spec => []NotesMeetExpectation
<1>1. ASSUME PipelineInv PROVE NotesMeetExpectation
  BY <1>1 DEF PipelineInv, NoteSound, NotesMeetExpectation
<1> QED  BY <1>1, PipelineInvariant, PTL

(* Every decision of authz.rego for a delegated token is the one its user    *)
(* would have had, and the token's scope covers the operation.               *)
THEOREM ScopesOnlyNarrow == Spec => []ScopeIsALimit
<1>1. ASSUME PipelineInv PROVE ScopeIsALimit
  <2> SUFFICES ASSUME NEW r \in Requests, NEW q, q = request[r], q.decision # None,
                      q.decision.allow, q.scopes # None
               PROVE  /\ RequiredScope[q.op] \in q.scopes \ NeverDelegable
                      /\ Evaluate(PolicyInput([q EXCEPT !.scopes = None])) = q.decision
    BY DEF ScopeIsALimit
  <2>1. q \in RequestRecord /\ q.decision = Evaluate(PolicyInput(q)) /\ q.op \in Operations
    BY <1>1, RequestIsRecord DEF Sound, Decided, Named
  <2>2. PICK i : i = PolicyInput(q)
    OBVIOUS
  <2>3. PICK j : j = PolicyInput([q EXCEPT !.scopes = None])
    OBVIOUS
  <2>4. /\ j.action = i.action /\ j.id = i.id /\ j.orgs = i.orgs /\ j.roles = i.roles
        /\ j.level = i.level /\ j.org = i.org /\ j.attribute = i.attribute /\ j.amount = i.amount
        /\ j.sameCurrency = i.sameCurrency /\ j.scopes = None
        /\ i.scopes = q.scopes /\ i.action = q.op /\ i.amount \in Nat
    BY <2>1, <2>2, <2>3, RecordParts DEF PolicyInput, RequestRecord
  <2>5. i.action # "refund.approve"
    BY <2>1, <2>4 DEF Operations
  <2>6. SameButScopes(i, j)
    BY <2>4, <2>5 DEF SameButScopes
  <2> QED  BY <2>1, <2>2, <2>3, <2>4, <2>6, DelegationOnlyNarrows
<1> QED  BY <1>1, PipelineInvariant, PTL

(* Whatever the pipeline puts to authz.rego, at most one rule answers it.     *)
THEOREM PolicyIsAskedOnce == Spec => []OneDecision
<1>1. ASSUME PipelineInv PROVE OneDecision
  <2> SUFFICES ASSUME NEW r \in Requests
               PROVE  Cardinality(Heads(PolicyInput(request[r]))) <= 1
    BY DEF OneDecision
  <2>1. PICK i : i = PolicyInput(request[r])
    OBVIOUS
  <2>2. i.amount \in Nat
    BY <1>1, <2>1, RequestIsRecord, InputParts
  <2>3. CASE Heads(i) = {}
    BY <2>1, <2>3, FS_EmptySet
  <2>4. CASE Heads(i) # {}
    <3>1. PICK h : Heads(i) = {h}
      BY <2>2, <2>4, PolicyNeverConflicts
    <3>2. Cardinality({h}) = 1
      BY FS_Singleton
    <3> QED  BY <2>1, <3>1, <3>2
  <2> QED  BY <2>3, <2>4
<1> QED  BY <1>1, PipelineInvariant, PTL

=============================================================================
