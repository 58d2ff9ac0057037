--------------------------- MODULE MemoryInvariant ---------------------------
(***************************************************************************)
(* The inductive invariant behind the safety properties of MemoryStore:    *)
(* what a record, its points and the steps still to be made by a request   *)
(* or by memory-init say about each other.                                 *)
(***************************************************************************)
EXTENDS MemoryStore

(* A request is at one of the steps its route goes through, and holds      *)
(* records that exist; those it deletes are forgotten.                     *)
RequestAgrees(q) ==
  /\ request[q].todo \in {LAYOUTS, <<"shared">>, << >>}
  /\ request[q].todo # << >> => request[q].step \in Op
  /\ request[q].step = "upsert" =>
       /\ request[q].status \in Status
       /\ \A r \in request[q].records : record[r].state # "absent"
  /\ request[q].step = "delete" => \A r \in request[q].records : record[r].state = "forgotten"
  /\ request[q].step \in {"write", "insert"} =>
       request[q].user \in Users /\ request[q].status \in Status
  /\ request[q].step = "insert" => \E s \in Records : request[q].records = {s}

(* What a summary's status may be taken from.                              *)
Sourced(r) == VouchedFor(r) \/ SwitchedIn(r)

(* A record that does not exist was made from nothing; what says that the  *)
(* switch confirmed it was inserted under the switch; whatever is, or is   *)
(* about to be, confirmed goes back to its owner or to the switch.         *)
VouchesAgree ==
  /\ \A r \in Records : record[r].state = "absent" => record[r] = NoRecord
  /\ \A r \in Records : record[r].state # "absent" => record[r].status \in Status
  /\ \A r \in Records : record[r].via = "auto" => r \in born
  /\ ConfirmedWasVouched
  /\ \A q \in Requests : request[q].step = "insert" /\ request[q].status = "confirmed" =>
       \A s \in request[q].records : Sourced(s)

(* The layouts a request or memory-init has yet to come to.                *)
Ahead(l, todo) == todo = LAYOUTS \/ (todo = <<"shared">> /\ l = "shared")

(* What a request has copied is there for as long as the record lives.     *)
CopiesAgree(q) ==
  request[q].step = "upsert" =>
    \A r \in request[q].records, l \in Layouts :
      Live(r) /\ point[l][r] = None => Ahead(l, request[q].todo)

(* While memory-init runs nothing else does; what it listed is what lives; *)
(* and past each of its steps the repair of that step is done.             *)
InitAgrees ==
  init.step # "idle" =>
    /\ Quiet
    /\ init.todo \in {LAYOUTS, <<"shared">>, << >>}
    /\ init.todo # << >> <=> init.step \in {"fill", "remove"}
    /\ init.step \in {"fill", "remove"} => \A r \in Records : init.live[r] = None <=> ~Live(r)
    /\ init.step = "fill" =>
         /\ init.missing \subseteq {r \in Records : Live(r)}
         /\ \A r \in Records \ init.missing, l \in Layouts :
              Live(r) /\ point[l][r] = None => Ahead(l, init.todo) /\ l # Head(init.todo)
         /\ \A r \in init.missing, l \in Layouts :
              point[l][r] = None => Ahead(l, init.todo)
    /\ init.step \in {"scope", "remove"} =>
         \A r \in Records, l \in Layouts : Live(r) => point[l][r] # None
    /\ init.step = "remove" =>
         \A r \in Records, l \in Layouts : ~Live(r) /\ point[l][r] # None => Ahead(l, init.todo)
    /\ init.full => Survivors = {}

(* Everything the theorems rest on.  The last three parts need memory-init *)
(* to run alone, as it does unless the Range starts it.                    *)
MemoryInv ==
  /\ TypeOK
  /\ \A q \in Requests : RequestAgrees(q)
  /\ VouchesAgree
  /\ ~InitWhileServing => /\ \A q \in Requests : CopiesAgree(q)
                          /\ InitAgrees
                          /\ MissingIsPending
=============================================================================
