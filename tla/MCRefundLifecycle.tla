-------------------------- MODULE MCRefundLifecycle --------------------------
(* Bounded instances of RefundLifecycle: the fault budgets of the runs.     *)
EXTENDS RefundInvariant, TLC

Budget(crash, error, decline, timeout, tamper, expire) ==
  "crash" :> crash @@ "error" :> error @@ "decline" :> decline @@
  "timeout" :> timeout @@ "tamper" :> tamper @@ "expire" :> expire

(* One worker: crashes and provider faults, but no exception and no expiry. *)
ProviderOnly   == Budget(2, 0, 2, 2, 0, 0)
NoFaults       == Budget(0, 0, 0, 0, 0, 0)
(* Two workers on one action: everything may go wrong, most of it twice.    *)
TwoEach        == Budget(2, 1, 2, 2, 2, 1)
(* Workers, payloads and the approvers who request nothing are alike.       *)
Symmetry == Permutations(Workers) \cup Permutations(Payloads)
              \cup Permutations(Approvers \ Requesters)
=============================================================================
