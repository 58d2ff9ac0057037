-------------------------- MODULE MCRangeRegistry ---------------------------
(* A bounded instance of RangeRegistry: one control of each kind, but two    *)
(* variants of the bundle and two leaky settings (memory-init removes the    *)
(* leftovers of one, the Range those of the other), in the order the         *)
(* registry registers them.                                                  *)
EXTENDS RangeRegistry

MCOrder == << "rls.orders.force_off", Payload, Window, Bob, OpaStop, "role", "undefined", Service,
              "rules.self_activate", "forget.scope", "chain.widen" >>
=============================================================================
