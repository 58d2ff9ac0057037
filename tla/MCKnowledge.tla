----------------------------- MODULE MCKnowledge ----------------------------
(* A bounded instance of Knowledge: three people of one organisation, two of *)
(* them approvers, of whom one may move to another.                         *)
EXTENDS Knowledge, TLC

MCHired == "agent" :> {<<"north", "support_agent">>} @@
           "manager" :> {<<"north", "support_manager">>} @@
           "approver" :> {<<"north", "support_manager">>}
=============================================================================
