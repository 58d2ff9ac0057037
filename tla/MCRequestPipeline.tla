------------------------- MODULE MCRequestPipeline --------------------------
(* A bounded instance of RequestPipeline: ann, who is an agent in one or    *)
(* two organizations, a manager, an approver or no member at all; an order, *)
(* a ticket and a customer of organization 2, a customer of organization 1. *)
(* r1 may be for any operation, r2 asks what became of r1's proposal.       *)
EXTENDS RequestPipeline, TLC

CONSTANTS r1, r2, ann, ord, tkt, cus, far

MCHome  == ord :> 2 @@ tkt :> 2 @@ cus :> 2 @@ far :> 1
MCKind  == ord :> "order" @@ tkt :> "ticket" @@ cus :> "customer" @@ far :> "customer"
MCTotal == [x \in DOMAIN MCHome |-> 2]
MCLimit == "support_agent" :> 2 @@ "support_manager" :> 5
MCMembers == {ann :> (1 :> first @@ 2 :> second) :
                first \in {{}, {"support_agent"}},
                second \in {{"support_agent"}, {"support_manager"}, {"finance_approver"}}}
MCRows == {ord :> "paid" @@ tkt :> "open" @@ cus :> "normal" @@ far :> "normal",
           ord :> "cancelled" @@ tkt :> "closed" @@ cus :> "restricted" @@ far :> "normal"}
MCIntent == r1 :> Operations @@ r2 :> {"action.read"}
MCScope == [a \in ActionNames |-> a]
MCScopes == {{"order.read", "note.create"}, {"refund.propose", "action.read"}}
=============================================================================
