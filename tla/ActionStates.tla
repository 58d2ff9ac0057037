---------------------------- MODULE ActionStates ----------------------------
(***************************************************************************)
(* The action state machine as services/api declares it                    *)
(* (supportpilot_api/actions/state.py): the states, the transition map,    *)
(* the terminal states, and the two conversions an approval binds to, the  *)
(* payload hash and the idempotency key.                                   *)
(*                                                                         *)
(* A request row that does not exist yet is in state Absent; that is the   *)
(* model's name for "no row", not a value of the column.                   *)
(***************************************************************************)

Absent == "absent"

ActionState == {"PROPOSED", "PENDING_APPROVAL", "APPROVED", "REJECTED",
                "QUEUED", "EXECUTING", "SUCCEEDED", "FAILED", "CANCELLED"}

TerminalStates == {"SUCCEEDED", "FAILED", "REJECTED", "CANCELLED"}

(***************************************************************************)
(* sha256 over the canonical JSON form.  Two payloads hash alike exactly   *)
(* when they are the same payload (collision freedom is assumed), and a    *)
(* hash is never itself a payload: the tag keeps the two kinds apart.      *)
(***************************************************************************)
PayloadHash(payload) == <<"sha256", payload>>

(* f"{action_id}:{hash_value[:32]}": the action and the payload it approved. *)
IdempotencyKey(action, hash) == <<action, hash>>
=============================================================================
