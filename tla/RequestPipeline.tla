--------------------------- MODULE RequestPipeline ---------------------------
(***************************************************************************)
(* The request path of the API: one verified request loads its subject,    *)
(* looks its resource up in the caller's tenants, asks the policy, reads   *)
(* or writes under the tenant's context and leaves evidence.  Each of      *)
(* these is a transaction or a network call of its own, so other requests, *)
(* administrators (memberships, organizations, users), the owners of the   *)
(* business rows and failures of the database, the policy or the process   *)
(* come in between.                                                        *)
(*                                                                         *)
(* "held" and "was" are history: what the caller could have been granted,  *)
(* and what the target has been, since the request began.                  *)
(***************************************************************************)
EXTENDS AuthorizationPolicy

CONSTANTS
  Requests,       \* request identifiers; a request happens once
  Users,          \* application users
  Orgs,           \* organizations: naturals, in the order of their identifiers
  Home,           \* the organization of each business object
  Kind,           \* "order", "ticket" or "customer"
  Total,          \* what was paid for each order
  Amounts,        \* positive amounts a caller may ask to refund
  TokenScopes,    \* the scope sets of delegated tokens
  Intent,         \* the operations each request may be for
  StartMembers,   \* the memberships there may be at the start
  StartRows,      \* the business rows there may be at the start
  MaxChanges,     \* how often administrators and owners change something
  MaxFailures     \* how often a dependency or the process may fail

Objects == DOMAIN Home
Operations == ActionNames \ {"refund.approve"}
Values == [order |-> {"paid", "cancelled"}, ticket |-> {"open", "closed"},
           customer |-> {"normal", "restricted"}]
KindOf == [a \in Operations |->
             CASE a \in {"order.read", "refund.propose"} -> "order"
               [] a \in {"ticket.read", "note.create"}   -> "ticket"
               [] a = "customer.read"                    -> "customer"
               [] OTHER                                  -> "none"]

ASSUME PipelineAssumption ==
  /\ Orgs \subseteq Nat
  /\ Home \in [Objects -> Orgs]
  /\ Kind \in [Objects -> {"order", "ticket", "customer"}]
  /\ Total \in [Objects -> Nat] /\ Amounts \subseteq Nat \ {0}
  /\ Intent \in [Requests -> SUBSET Operations]
  /\ StartMembers \subseteq [Users -> [Orgs -> SUBSET Roles]]
  /\ StartRows \subseteq [Objects -> UNION {Values[k] : k \in DOMAIN Values}]
  /\ \A f \in StartRows, x \in Objects : f[x] \in Values[Kind[x]]
  /\ Objects \cap Requests = {} /\ None \notin Objects /\ None # CustomerFieldsRestricted
  /\ MaxChanges \in Nat /\ MaxFailures \in Nat

VARIABLES
  member,     \* app.memberships, the active ones: roles of a user in an organization
  suspended,  \* app.organizations whose status is not active
  disabled,   \* app.users whose status is not active
  row,        \* the status or sensitivity of each business object, None once deleted
  request,    \* each request: its token and arguments, how far it is, what it holds
  notes,      \* app.internal_notes
  proposals,  \* app.action_requests
  audit,      \* app.audit_events
  changes,    \* changes administrators and owners may still make
  failures    \* failures that may still happen

world == <<member, suspended, disabled, row, changes>>
rows  == <<notes, proposals, audit>>
vars  == <<member, suspended, disabled, row, request, notes, proposals, audit,
           changes, failures>>

Steps == {"none", "subject", "resource", "decide", "act", "deny", "evidence", "done"}
Codes == {"none", "200", "201", "404", "409", "422", "503", "lost"}

NoMembership == [o \in Orgs |-> {}]
Idle == [step |-> "none", user |-> None, op |-> None, target |-> None,
         scopes |-> None, amount |-> 0, currency |-> TRUE, expected |-> None,
         subject |-> None, org |-> None, attribute |-> None, decision |-> None,
         code |-> "none", content |-> {}, failed |-> FALSE,
         held |-> NoMembership, was |-> {}]

Init ==
  /\ member \in StartMembers /\ suspended = {} /\ disabled = {}
  /\ row \in StartRows
  /\ request = [r \in Requests |-> Idle]
  /\ notes = {} /\ proposals = {} /\ audit = {}
  /\ changes = MaxChanges /\ failures = MaxFailures

(***************************************************************************)
(* Subjects and rows as the database shows them.                           *)
(***************************************************************************)
(* app.resolve_subject: no row for an inactive or unknown user, and none    *)
(* for a user whose active memberships are all in inactive organizations;   *)
(* one row without an organization for a user with no active membership.    *)
ActiveOrgs(m) == {o \in Orgs : m[o] # {}}
Subject(u, members, inactive, gone) ==
  IF u \notin Users \ gone
     \/ (ActiveOrgs(members[u]) # {} /\ ActiveOrgs(members[u]) \subseteq inactive)
  THEN None
  ELSE [o \in Orgs |-> IF o \in inactive THEN {} ELSE members[u][o]]
ResolveSubject(u) == Subject(u, member, suspended, disabled)

Organizations(s) == IF s = None THEN {} ELSE ActiveOrgs(s)
First(orgs)      == CHOOSE o \in orgs : \A p \in orgs : o <= p
(* Mutant: Subject.all_roles where roles_in belongs.                        *)
RolesAnywhere(s, o) == IF s = None THEN {} ELSE UNION {s[p] : p \in Orgs}

RolesIn(s, o)    == IF s = None THEN {} ELSE s[o]
Roster(s)        == IF s = None THEN NoMembership ELSE s

(* The tenant policies: a row is visible in its own organization only; a    *)
(* proposal further to its requester, or to a manager, approver or auditor. *)
Visible(x, o)    == x \in Objects /\ Home[x] = o /\ row[x] # None
ProposalVisible(p, q) ==
  /\ p.org = q.org
  /\ \/ p.requester = q.user
     \/ RolesIn(q.subject, q.org) \cap {"support_manager", "finance_approver", "auditor"} # {}
SeesRestrictedMessages(q) ==
  RolesIn(q.subject, q.org) \cap {"support_manager", "auditor"} # {}

(***************************************************************************)
(* Changes nobody asked the API for.  The history of every open request    *)
(* follows them.                                                           *)
(***************************************************************************)
Open(r) == request[r].step \notin {"none", "done"}

(* Evaluated with the new values: what has been true since the request began *)
Remember ==
  request' = [r \in Requests |->
    IF Open(r)
    THEN [request[r] EXCEPT
            !.held = [o \in Orgs |->
               @[o] \cup Roster(Subject(request[r].user, member', suspended', disabled'))[o]],
            !.was  = @ \cup IF request[r].target \in Objects
                            THEN {row'[request[r].target]} ELSE {}]
    ELSE request[r]]

Change == changes > 0 /\ changes' = changes - 1 /\ UNCHANGED <<failures, rows>>

(* One row of app.memberships becomes active or stops being active.         *)
SetMembership(u, o, role) ==
  /\ Change
  /\ member' = [member EXCEPT ![u][o] = IF role \in @ THEN @ \ {role} ELSE @ \cup {role}]
  /\ UNCHANGED <<suspended, disabled, row>> /\ Remember

SuspendOrganization(o) ==
  /\ Change /\ o \notin suspended
  /\ suspended' = suspended \cup {o}
  /\ UNCHANGED <<member, disabled, row>> /\ Remember

DisableUser(u) ==
  /\ Change /\ u \notin disabled
  /\ disabled' = disabled \cup {u}
  /\ UNCHANGED <<member, suspended, row>> /\ Remember

ChangeRow(x, v) ==
  /\ Change /\ row[x] # None /\ v # row[x]
  /\ row' = [row EXCEPT ![x] = v]
  /\ UNCHANGED <<member, suspended, disabled>> /\ Remember

(***************************************************************************)
(* The handler, step by step.                                              *)
(***************************************************************************)
Update(r, new)  == request' = [request EXCEPT ![r] = new]
Fail            == failures > 0 /\ failures' = failures - 1
Answer(q, code) == [q EXCEPT !.step = "done", !.code = code]
Wrote(r, event) == [request |-> r, event |-> event]

(* The bodies a request is validated against: an amount is positive, and a  *)
(* note names the status its author saw.                                    *)
ProposeRefundRequest(a) == IF a = "refund.propose" THEN Amounts \X BOOLEAN ELSE {<<0, TRUE>>}
CreateNoteRequest(a)    == IF a = "note.create" THEN Values["ticket"] ELSE {None}

(* A token has been verified; its subject is a user or nobody we know.      *)
Arrive(r, u, a, x, scopes) ==
  /\ request[r].step = "none" /\ a \in Intent[r]
  /\ CASE KindOf[a] # "none"  -> x \in Objects /\ Kind[x] = KindOf[a]
       [] a = "action.read"   -> \E p \in proposals : p.request = x
       [] OTHER               -> x = None
  /\ \E body \in ProposeRefundRequest(a), expected \in CreateNoteRequest(a) :
       Update(r, [Idle EXCEPT
            !.step = "subject", !.user = u, !.op = a, !.target = x, !.scopes = scopes,
            !.amount = body[1], !.currency = body[2], !.expected = expected,
            !.held = Roster(ResolveSubject(u)),
            !.was = IF x \in Objects THEN {row[x]} ELSE {}])
  /\ UNCHANGED <<world, rows, failures>>

LoadSubject(r) ==
  LET q == request[r] IN
  /\ q.step = "subject"
  /\ Update(r, [q EXCEPT !.step = "resource", !.subject = ResolveSubject(q.user)])
  /\ UNCHANGED <<world, rows, failures>>

(* The organizations where a row is found: the caller's organizations are   *)
(* probed in order, each under its own context, and the first hit counts.   *)
Probe(q) == {o \in Organizations(q.subject) : Visible(q.target, o)}
FindOrder(q)      == IF Kind[q.target] = "order"    THEN Probe(q) ELSE {}
LookupTicket(q)   == IF Kind[q.target] = "ticket"   THEN Probe(q) ELSE {}
LookupCustomer(q) == IF Kind[q.target] = "customer" THEN Probe(q) ELSE {}
Hits(q) ==
  CASE KindOf[q.op] = "order"    -> FindOrder(q)
    [] KindOf[q.op] = "ticket"   -> LookupTicket(q)
    [] KindOf[q.op] = "customer" -> LookupCustomer(q)

LookupResource(r) ==
  LET q == request[r] IN
  /\ q.step = "resource" /\ KindOf[q.op] # "none"
  /\ \/ /\ Hits(q) = {}
        /\ Update(r, [q EXCEPT !.step = "deny", !.code = "404"])
     \/ /\ Hits(q) # {}
        /\ Update(r, [q EXCEPT !.step = "decide", !.org = First(Hits(q)),
                               !.attribute = row[q.target]])
  /\ UNCHANGED <<world, rows, failures>>

(* A search and a status request take the caller's first organization for   *)
(* the resource, and answer 404 without evidence when there is none.        *)
TenantAsResource(r) ==
  LET q    == request[r]
      orgs == Organizations(q.subject)
  IN
  /\ q.step = "resource" /\ KindOf[q.op] = "none"
  /\ \/ orgs = {} /\ Update(r, Answer(q, "404"))
     \/ orgs # {} /\ Update(r, [q EXCEPT !.step = "decide", !.org = First(orgs)])
  /\ UNCHANGED <<world, rows, failures>>

PolicyInput(q) ==
  [action |-> q.op, id |-> q.user, orgs |-> Organizations(q.subject),
   roles |-> RolesIn(q.subject, q.org), level |-> "password",
   org |-> q.org, attribute |-> q.attribute, amount |-> q.amount,
   sameCurrency |-> q.currency, scopes |-> q.scopes]

(* The decision of the policy; an evaluation conflict is an HTTP error.     *)
Decide(r) ==
  LET q == request[r]
      d == Evaluate(PolicyInput(q))
  IN
  /\ q.step = "decide"
  /\ Update(r, [q EXCEPT !.decision = d,
                         !.step   = IF d.allow THEN "act" ELSE "deny",
                         !.code   = IF d.allow THEN "none"
                                    ELSE IF d = Conflict THEN "503" ELSE "404",
                         !.failed = @ \/ d = Conflict])
  /\ UNCHANGED <<world, rows, failures>>

(* No answer, a bad status (unavailable), or an answer that cannot be       *)
(* trusted (malformed): a denial either way.                                *)
PolicyFails(r) ==
  LET q == request[r] IN
  /\ q.step = "decide" /\ Fail
  /\ \/ Update(r, [q EXCEPT !.step = "deny", !.code = "503", !.failed = TRUE])
     \/ Update(r, [q EXCEPT !.step = "deny", !.code = "404"])
  /\ UNCHANGED <<world, rows>>

(* The denial's evidence is a transaction of its own, and its failure is    *)
(* swallowed: the caller is refused all the same.                           *)
RecordDenial(r) ==
  LET q == request[r] IN
  /\ q.step = "deny"
  /\ \/ audit' = audit \cup {Wrote(r, "denied")} /\ UNCHANGED failures
     \/ UNCHANGED audit /\ Fail
  /\ Update(r, Answer(q, q.code))
  /\ UNCHANGED <<world, notes, proposals>>

(***************************************************************************)
(* Reads: one transaction under the tenant's context, filtered by the row  *)
(* policies a second time, cut down to the allowed fields.                 *)
(***************************************************************************)
(* Mutant: the obligation is not applied.                                   *)
Everything(q, fields) == fields

Minimize(q, fields) == IF q.decision.fields = None THEN fields ELSE fields \cap q.decision.fields

(* What each repository returns under the tenant's context; {} for no row.  *)
OrderRecord(q)    == IF Visible(q.target, q.org) THEN {"order"} ELSE {}
CustomerRecord(q) == IF Visible(q.target, q.org) THEN {"name", "contact"} ELSE {}
TicketRecord(q)   == IF Visible(q.target, q.org) THEN {"ticket"} ELSE {}
Messages(q)       == IF SeesRestrictedMessages(q) THEN {"messages", "restricted"}
                                                  ELSE {"messages"}
SearchResults(q)  == {x \in Objects : Kind[x] = "customer" /\ Visible(x, q.org)}
ActionStatus(q)   ==
  IF \E p \in proposals : p.request = q.target /\ ProposalVisible(p, q) THEN {"status"} ELSE {}

Acting(r, op) == request[r].step = "act" /\ request[r].op = op
Return(r, content) ==
  Update(r, [request[r] EXCEPT !.step = "evidence", !.code = "200", !.content = content])
ReadsOnly == UNCHANGED <<world, rows, failures>>

(* Allowed by policy and invisible to the row policies: the disagreement is *)
(* put on record before the refusal.                                        *)
GetOrder(r) ==
  LET q == request[r] IN
  /\ Acting(r, "order.read") /\ ReadsOnly
  /\ \/ OrderRecord(q) # {} /\ Return(r, Minimize(q, OrderRecord(q)))
     \/ OrderRecord(q) = {} /\ Update(r, [q EXCEPT !.step = "evidence", !.code = "404"])

SearchCustomers(r) ==
  Acting(r, "customer.search") /\ ReadsOnly /\ Return(r, SearchResults(request[r]))

GetCustomer(r) ==
  LET q == request[r] IN
  /\ Acting(r, "customer.read") /\ ReadsOnly
  /\ \/ CustomerRecord(q) # {} /\ Return(r, Minimize(q, CustomerRecord(q)))
     \/ CustomerRecord(q) = {} /\ Update(r, Answer(q, "404"))

GetTicket(r) ==
  LET q == request[r] IN
  /\ Acting(r, "ticket.read") /\ ReadsOnly
  /\ \/ TicketRecord(q) # {} /\ Return(r, Minimize(q, TicketRecord(q)) \cup Messages(q))
     \/ TicketRecord(q) = {} /\ Update(r, Answer(q, "404"))

GetActionStatus(r) ==
  LET q == request[r] IN
  /\ Acting(r, "action.read") /\ ReadsOnly
  /\ \/ ActionStatus(q) # {} /\ Return(r, ActionStatus(q))
     \/ ActionStatus(q) = {} /\ Update(r, Answer(q, "404"))

RecordSuccess(r) ==
  LET q == request[r] IN
  /\ q.step = "evidence"
  /\ \/ audit' = audit \cup {Wrote(r, IF q.code = "200" THEN "allowed" ELSE "rls_empty")}
        /\ UNCHANGED failures
     \/ UNCHANGED audit /\ Fail
  /\ Update(r, Answer(q, q.code))
  /\ UNCHANGED <<world, notes, proposals>>

(***************************************************************************)
(* Effects: the row and its evidence in one transaction.                   *)
(***************************************************************************)
(* Mutant: the expected status is compared with the one looked up earlier.  *)
TicketWasAsExpected(q) == Visible(q.target, q.org) /\ q.attribute = q.expected

(* INSERT ... SELECT with the expected status in its WHERE clause.          *)
TicketAsExpected(q) == Visible(q.target, q.org) /\ row[q.target] = q.expected

Acknowledged(r, q) ==
  \/ Update(r, Answer(q, "201")) /\ UNCHANGED failures
  \/ Update(r, [Answer(q, "503") EXCEPT !.failed = TRUE]) /\ Fail

(* What the repositories insert: the row as the database has it by then.   *)
InsertNote(r, q) ==
  notes' = notes \cup {[request |-> r, ticket |-> q.target, author |-> q.user,
                         org |-> q.org, status |-> row[q.target]]}

(* Mutant: the evidence is a standalone event, which may be lost.           *)
CreateNoteThenRecord(r) ==
  LET q == request[r] IN
  /\ q.step = "act" /\ q.op = "note.create" /\ TicketAsExpected(q)
  /\ InsertNote(r, q)
  /\ audit' \in {audit, audit \cup {Wrote(r, "succeeded")}}
  /\ Acknowledged(r, q) /\ UNCHANGED <<world, proposals>>

CreateNote(r) ==
  LET q == request[r] IN
  /\ q.step = "act" /\ q.op = "note.create"
  /\ \/ /\ TicketAsExpected(q)
        /\ InsertNote(r, q)
        /\ audit' = audit \cup {Wrote(r, "succeeded")}
        /\ Acknowledged(r, q)
     \/ /\ ~TicketAsExpected(q)
        /\ Update(r, Answer(q, "409"))
        /\ UNCHANGED <<notes, audit, failures>>
  /\ UNCHANGED <<world, proposals>>

InsertProposal(r, q) ==
  proposals' = proposals \cup {[request |-> r, order |-> q.target, org |-> q.org,
                                 requester |-> q.user, amount |-> q.amount]}

(* Mutant: the policy is trusted to have bounded the amount.                *)
ProposeUnbounded(r) ==
  LET q == request[r] IN
  /\ q.step = "act" /\ q.op = "refund.propose"
  /\ InsertProposal(r, q)
  /\ audit' = audit \cup {Wrote(r, "succeeded")}
  /\ Acknowledged(r, q) /\ UNCHANGED <<world, notes>>

ProposeRefund(r) ==
  LET q == request[r] IN
  /\ q.step = "act" /\ q.op = "refund.propose"
  /\ \/ /\ q.amount > Total[q.target]
        /\ Update(r, Answer(q, "422"))
        /\ UNCHANGED <<proposals, audit, failures>>
     \/ /\ q.amount <= Total[q.target]
        /\ InsertProposal(r, q)
        /\ audit' = audit \cup {Wrote(r, "succeeded")}
        /\ Acknowledged(r, q)
  /\ UNCHANGED <<world, notes>>

(* Any transaction of a handler may fail: it rolls back, and the caller is  *)
(* told the service is unavailable.                                         *)
DatabaseFails(r) ==
  LET q == request[r] IN
  /\ q.step \in {"subject", "resource", "act"} /\ Fail
  /\ Update(r, [Answer(q, "503") EXCEPT !.failed = TRUE])
  /\ UNCHANGED <<world, rows>>

(* The process dies: no answer at all.                                      *)
Crash(r) ==
  /\ Open(r) /\ Fail
  /\ Update(r, [Answer(request[r], "lost") EXCEPT !.content = {}])
  /\ UNCHANGED <<world, rows>>

(***************************************************************************)
Handler(r) ==
  \/ LoadSubject(r) \/ LookupResource(r) \/ TenantAsResource(r)
  \/ Decide(r) \/ PolicyFails(r) \/ RecordDenial(r)
  \/ GetOrder(r) \/ SearchCustomers(r) \/ GetCustomer(r) \/ GetTicket(r) \/ GetActionStatus(r)
  \/ RecordSuccess(r) \/ CreateNote(r) \/ ProposeRefund(r) \/ DatabaseFails(r)

Administration ==
  \/ \E u \in Users, o \in Orgs, role \in Roles : SetMembership(u, o, role)
  \/ \E o \in Orgs : SuspendOrganization(o)
  \/ \E u \in Users : DisableUser(u)
  \/ \E x \in Objects : \E v \in Values[Kind[x]] \cup {None} : ChangeRow(x, v)

Next ==
  \/ \E r \in Requests : Handler(r) \/ Crash(r)
  \/ \E r \in Requests, u \in Users \cup {None}, a \in Operations,
        x \in Objects \cup Requests \cup {None}, scopes \in TokenScopes \cup {None} :
        Arrive(r, u, a, x, scopes)
  \/ Administration

(* A handler runs to its end: every call it makes has a timeout.            *)
Spec == Init /\ [][Next]_vars /\ \A r \in Requests : WF_vars(Handler(r))

(***************************************************************************)
(* Properties                                                              *)
(***************************************************************************)
Granted(r) == request[r].code \in {"200", "201"}
Effect(r)  == \E x \in notes \cup proposals : x.request = r

RolesFor(a) ==
  CASE a \in {"note.create", "refund.propose"} -> NoteAuthors
    [] a = "action.read"                       -> StatusReaders
    [] OTHER                                   -> ReadRoles

Fields == {"order", "name", "contact", "ticket", "messages", "restricted", "status"}
Attributes == (UNION {Values[k] : k \in DOMAIN Values}) \cup {None}
Reasons ==
  {"default_deny", "conflict", "agent_cannot_approve", "scope_not_granted", "currency_mismatch",
   "restricted_customer_minimal_fields", "independent_approver_verified", "approval_expired",
   "not_a_member_of_resource_organization", "role_not_permitted_for_action",
   "resource_state_forbids_action", "amount_exceeds_action_maximum", "amount_exceeds_role_limit",
   "self_approval_not_permitted", "authentication_level_insufficient", SameOrganization}
Decision ==
  [allow : BOOLEAN, reason : Reasons, fields : (SUBSET Fields) \cup {None}, most : Nat \cup {None}]
RequestRecord ==
  [step : Steps, user : Users \cup {None}, op : Operations \cup {None},
   target : Objects \cup Requests \cup {None}, scopes : TokenScopes \cup {None},
   amount : Amounts \cup {0}, currency : BOOLEAN, expected : Attributes,
   subject : [Orgs -> SUBSET Roles] \cup {None}, org : Orgs \cup {None},
   attribute : Attributes, decision : Decision \cup {None},
   code : Codes, content : SUBSET (Fields \cup Objects), failed : BOOLEAN,
   held : [Orgs -> SUBSET Roles], was : SUBSET Attributes]

(* The requests, memberships, rows and evidence have their types.           *)
TypeOK ==
  /\ member \in [Users -> [Orgs -> SUBSET Roles]]
  /\ suspended \subseteq Orgs /\ disabled \subseteq Users
  /\ row \in [Objects -> Attributes] /\ \A x \in Objects : row[x] \in Values[Kind[x]] \cup {None}
  /\ request \in [Requests -> RequestRecord]
  /\ notes \subseteq [request : Requests, ticket : Objects, author : Users, org : Orgs,
                      status : Attributes]
  /\ proposals \subseteq [request : Requests, order : Objects, org : Orgs,
                          requester : Users, amount : Amounts \cup {0}]
  /\ audit \subseteq [request : Requests, event : {"denied", "allowed", "succeeded", "rls_empty"}]
  /\ changes \in Nat /\ failures \in Nat

(* pipeline.authorize with the row policies: whoever is answered 200 or 201 *)
(* about something held, in its organization and at some moment of that     *)
(* request, a role that permits the operation.  Roles taken away before the *)
(* request began, or held in another organization, count for nothing.       *)
AnswersRestOnMembership ==
  \A r \in Requests : Granted(r) =>
    LET q == request[r] IN
    /\ q.held[q.org] \cap RolesFor(q.op) # {}
    /\ q.target \in Objects => Home[q.target] = q.org
    /\ q.op = "customer.search" => \A x \in q.content : Home[x] = q.org
    /\ q.op = "action.read" => \E p \in proposals : p.request = q.target /\ p.org = q.org

(* customer.read and the row policy on ticket messages: contact details of  *)
(* a customer who was restricted all through the request, and restricted    *)
(* messages, reach only those who were a manager or an auditor in it.       *)
RestrictedStaysHidden ==
  \A r \in Requests :
    LET q == request[r] IN
    \/ q.op = "customer.read" /\ "contact" \in q.content /\ "normal" \notin q.was
    \/ q.op = "ticket.read" /\ "restricted" \in q.content
    => q.held[q.org] \cap SensitiveReaders # {}

(* notes.create and actions.propose: a row and its evidence commit together *)
(* or not at all; 201 is never said without them, and a refusal (404, 409,  *)
(* 422) never leaves one behind.                                            *)
EffectsAreEvidenced ==
  \A r \in Requests :
    /\ Effect(r) <=> Wrote(r, "succeeded") \in audit
    /\ request[r].code = "201" => Effect(r)
    /\ request[r].code \in {"404", "409", "422"} => ~Effect(r)

(* propose_refund: what is proposed is at most what was paid, within the    *)
(* limit of a role the requester held in that organization during the       *)
(* request, for an order that was refundable at some moment of it.          *)
ProposalsWithinLimits ==
  \A p \in proposals :
    LET q == request[p.request] IN
    /\ p.org = Home[p.order] /\ p.amount <= Total[p.order] /\ p.amount <= ActionMaximum
    /\ \E role \in q.held[p.org] \cap DOMAIN RoleLimit : p.amount <= RoleLimit[role]
    /\ q.was \cap RefundableStates # {}

(* add_internal_note: a note is attached to a ticket in the status its      *)
(* author stated, by a request during which the ticket was open.            *)
NotesMeetExpectation ==
  \A n \in notes :
    LET q == request[n.request] IN
    n.status = q.expected /\ "open" \in q.was /\ n.org = Home[n.ticket]

(* authz.rego, delegation: what a delegated token is allowed, its user      *)
(* would have been allowed with the same answer, and its scope covers it.   *)
ScopeIsALimit ==
  \A r \in Requests :
    LET q == request[r]
        d == q.decision
    IN d # None /\ d.allow /\ q.scopes # None =>
         /\ RequiredScope[q.op] \in q.scopes \ NeverDelegable
         /\ Evaluate(PolicyInput([q EXCEPT !.scopes = None])) = d

(* authz.rego: at most one decision holds for any input.                    *)
OneDecision ==
  \A r \in Requests : request[r].step = "decide" =>
    Cardinality(Heads(PolicyInput(request[r]))) <= 1

=============================================================================
