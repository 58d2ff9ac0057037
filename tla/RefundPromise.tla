---------------------------- MODULE RefundPromise ----------------------------
(***************************************************************************)
(* What the approval flow promises, without the machinery that delivers it *)
(* (docs/architecture, services/api/actions, services/worker): a proposed  *)
(* payload is decided once, by somebody else who may approve, and is paid  *)
(* exactly as proposed, at most once, and only if approved.                *)
(***************************************************************************)
EXTENDS Naturals, Sequences, ActionStates

CONSTANTS Actions, Requesters, Approvers, Payloads, None

VARIABLES
  proposal,  \* who proposed what
  verdict,   \* the answer, and who gave it
  paid       \* the payloads paid, in order

promiseVars == <<proposal, verdict, paid>>

PromiseInit ==
  /\ proposal = [a \in Actions |-> [requester |-> None, payload |-> None]]
  /\ verdict = [a \in Actions |-> [answer |-> Absent, approver |-> None]]
  /\ paid = [a \in Actions |-> << >>]

ProposeOnce(a, u, p) ==
  /\ proposal[a].requester = None
  /\ proposal' = [proposal EXCEPT ![a] = [requester |-> u, payload |-> p]]
  /\ UNCHANGED <<verdict, paid>>

DecideOnce(a, u, answer) ==
  /\ proposal[a].requester \notin {None, u}
  /\ verdict[a].answer = Absent
  /\ verdict' = [verdict EXCEPT ![a] = [answer |-> answer, approver |-> u]]
  /\ UNCHANGED <<proposal, paid>>

PayOnce(a) ==
  /\ verdict[a].answer = "approved"
  /\ paid[a] = << >>
  /\ paid' = [paid EXCEPT ![a] = <<proposal[a].payload>>]
  /\ UNCHANGED <<proposal, verdict>>

PromiseNext ==
  \E a \in Actions :
    \/ \E u \in Requesters, p \in Payloads : ProposeOnce(a, u, p)
    \/ \E u \in Approvers, answer \in {"approved", "rejected"} : DecideOnce(a, u, answer)
    \/ PayOnce(a)

Spec == PromiseInit /\ [][PromiseNext]_promiseVars
=============================================================================
