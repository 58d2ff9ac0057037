------------------------- MODULE AuthorizationPolicy -------------------------
(***************************************************************************)
(* The authorization policy the API asks before it touches a resource, as  *)
(* an operator from an input to a decision.  A Rego rule with a body is a  *)
(* set that holds its head when the body is true (When); the rules of one  *)
(* action are united, and two different heads at once are the evaluation   *)
(* conflict that OPA answers with an error.                                *)
(*                                                                         *)
(* An input is a record: action, id, orgs, roles, level (the subject),     *)
(* org (the tenant of the resource), the attributes the rules look at, and *)
(* scopes, which is None unless the caller's token is delegated.           *)
(***************************************************************************)
EXTENDS Naturals, FiniteSets

CONSTANTS
  ActionMaximum,  \* limits.json: refund.action_maximum
  RoleLimit,      \* limits.json: refund.per_role, a function on some roles
  RequireMfa,     \* limits.json: refund.approval.require_mfa
  RequiredScope,  \* scopes.json: the scope of each action
  NeverDelegable, \* scopes.json: scopes no delegated token may use
  None            \* an absent attribute

Roles == {"support_agent", "support_manager", "auditor", "finance_approver"}
ActionNames == {"order.read", "customer.search", "customer.read", "ticket.read",
                "note.create", "refund.propose", "refund.approve", "action.read"}

ASSUME PolicyAssumption ==
  /\ ActionMaximum \in Nat
  /\ DOMAIN RoleLimit \subseteq Roles
  /\ \A r \in DOMAIN RoleLimit : RoleLimit[r] \in Nat
  /\ RequireMfa \in BOOLEAN
  /\ ActionNames \subseteq DOMAIN RequiredScope

ReadRoles        == {"support_agent", "support_manager", "auditor"}
NoteAuthors      == {"support_agent", "support_manager"}
RefundProposers  == {"support_agent", "support_manager"}
StatusReaders    == Roles
SensitiveReaders == {"support_manager", "auditor"}
RefundableStates == {"paid", "shipped", "delivered"}

OrderFields              == {"order"}
CustomerFields           == {"name", "contact"}
CustomerFieldsRestricted == {"name"}
SearchFields             == {"name"}
TicketFields             == {"ticket", "messages"}

InTenant(i)        == i.org \in i.orgs
AnyRole(i, roles)  == i.roles \cap roles # {}

When(condition, head) == {h \in {head} : condition}

Deny(reason) == [allow |-> FALSE, reason |-> reason, fields |-> None, most |-> None]
DefaultDeny  == Deny("default_deny")
Grant(reason, fields, most) ==
  [allow |-> TRUE, reason |-> reason, fields |-> fields, most |-> most]

(***************************************************************************)
(* Delegation: a scope is a limit on what the user may do, never a source. *)
(***************************************************************************)
IsDelegated(i)       == i.scopes # None
IsNeverDelegable(i)  == RequiredScope[i.action] \in NeverDelegable
ScopeGranted(i)      == RequiredScope[i.action] \in i.scopes
DelegationPermits(i) == IsDelegated(i) => ~IsNeverDelegable(i) /\ ScopeGranted(i)
DelegationDenial(i)  ==
  IF IsNeverDelegable(i) THEN "agent_cannot_approve" ELSE "scope_not_granted"

AllowWith(i, reason, fields, most) ==
  IF DelegationPermits(i) THEN Grant(reason, fields, most)
                          ELSE Deny(DelegationDenial(i))

SameOrganization == "same_organization_and_allowed_role"
NotAMember       == Deny("not_a_member_of_resource_organization")
RoleNotPermitted == Deny("role_not_permitted_for_action")
StateForbids     == Deny("resource_state_forbids_action")

(* The three rules every tenant-and-role action has.                        *)
TenantAndRole(i, roles, verdict) ==
  When(InTenant(i) /\ AnyRole(i, roles), verdict)
    \cup When(~InTenant(i), NotAMember)
    \cup When(InTenant(i) /\ ~AnyRole(i, roles), RoleNotPermitted)

OrderRead(i) ==
  TenantAndRole(i, ReadRoles, AllowWith(i, SameOrganization, OrderFields, None))
CustomerSearch(i) ==
  TenantAndRole(i, ReadRoles, AllowWith(i, SameOrganization, SearchFields, 25))
TicketRead(i) ==
  TenantAndRole(i, ReadRoles, AllowWith(i, SameOrganization, TicketFields, 50))
ActionRead(i) ==
  TenantAndRole(i, StatusReaders, AllowWith(i, SameOrganization, None, None))

CustomerRead(i) ==
  LET whole      == AllowWith(i, SameOrganization, CustomerFields, None)
      restricted == i.attribute = "restricted"
      reader     == InTenant(i) /\ AnyRole(i, ReadRoles)
      trusted    == AnyRole(i, SensitiveReaders)
  IN When(reader /\ restricted /\ ~trusted,
          AllowWith(i, "restricted_customer_minimal_fields", CustomerFieldsRestricted, None))
       \cup When(reader /\ ~restricted, whole)
       \cup When(InTenant(i) /\ restricted /\ trusted, whole)
       \cup When(~InTenant(i), NotAMember)
       \cup When(InTenant(i) /\ ~AnyRole(i, ReadRoles), RoleNotPermitted)

NoteCreate(i) ==
  LET author == InTenant(i) /\ AnyRole(i, NoteAuthors)
  IN When(author /\ i.attribute # "closed", AllowWith(i, SameOrganization, None, None))
       \cup When(~InTenant(i), NotAMember)
       \cup When(InTenant(i) /\ ~AnyRole(i, NoteAuthors), RoleNotPermitted)
       \cup When(author /\ i.attribute = "closed", StateForbids)

(* role_limit is undefined when none of the roles has a limit; a rule that  *)
(* mentions it is then not true, whichever way it compares.                 *)
Limited(i)         == i.roles \cap DOMAIN RoleLimit # {}
ExceedsRole(i)     == \A r \in i.roles \cap DOMAIN RoleLimit : i.amount > RoleLimit[r]
AboveRoleLimit(i)  == Limited(i) /\ (ExceedsRole(i) \/ i.amount > ActionMaximum)
WithinRoleLimit(i) == Limited(i) /\ ~ExceedsRole(i) /\ i.amount <= ActionMaximum

RefundPropose(i) ==
  LET proposer   == InTenant(i) /\ AnyRole(i, RefundProposers)
      refundable == proposer /\ i.attribute \in RefundableStates
      comparable == refundable /\ i.sameCurrency
  IN When(~InTenant(i), NotAMember)
       \cup When(InTenant(i) /\ ~AnyRole(i, RefundProposers), RoleNotPermitted)
       \cup When(proposer /\ i.attribute \notin RefundableStates, StateForbids)
       \cup When(refundable /\ ~i.sameCurrency, Deny("currency_mismatch"))
       \cup When(comparable /\ i.amount > ActionMaximum, Deny("amount_exceeds_action_maximum"))
       \cup When(comparable /\ i.amount <= ActionMaximum /\ AboveRoleLimit(i),
                 Deny("amount_exceeds_role_limit"))
       \cup When(comparable /\ WithinRoleLimit(i) /\ i.amount <= ActionMaximum,
                 AllowWith(i, SameOrganization, None, None))

RefundApprove(i) ==
  LET other    == i.id # i.requester
      approver == other /\ InTenant(i) /\ "finance_approver" \in i.roles
      strong   == RequireMfa => i.level = "mfa"
  IN When(~other, Deny("self_approval_not_permitted"))
       \cup When(other /\ ~InTenant(i), NotAMember)
       \cup When(other /\ InTenant(i) /\ "finance_approver" \notin i.roles, RoleNotPermitted)
       \cup When(approver /\ i.expired, Deny("approval_expired"))
       \cup When(approver /\ ~i.expired /\ ~strong, Deny("authentication_level_insufficient"))
       \cup When(approver /\ ~i.expired /\ strong,
                 AllowWith(i, "independent_approver_verified", None, None))

(* Every head whose rule is true of the input.                              *)
Heads(i) ==
  CASE i.action = "order.read"      -> OrderRead(i)
    [] i.action = "customer.search" -> CustomerSearch(i)
    [] i.action = "customer.read"   -> CustomerRead(i)
    [] i.action = "ticket.read"     -> TicketRead(i)
    [] i.action = "note.create"     -> NoteCreate(i)
    [] i.action = "refund.propose"  -> RefundPropose(i)
    [] i.action = "refund.approve"  -> RefundApprove(i)
    [] i.action = "action.read"     -> ActionRead(i)
    [] OTHER                        -> {}

(* OPA's answer: the head, the default, or Conflict (an HTTP error).        *)
Conflict == [allow |-> FALSE, reason |-> "conflict", fields |-> None, most |-> None]
Evaluate(i) ==
  IF Heads(i) = {} THEN DefaultDeny
  ELSE IF \E h \in Heads(i) : Heads(i) = {h} THEN CHOOSE h \in Heads(i) : TRUE
  ELSE Conflict
=============================================================================
