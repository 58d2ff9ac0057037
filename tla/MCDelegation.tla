---------------------------- MODULE MCDelegation ----------------------------
(* A bounded instance of Delegation: the repository's two profiles, three of *)
(* its scopes, and lifetimes, leeway and cache ages that keep their order.   *)
EXTENDS Delegation, TLC

MCCeiling == "status-helper" :> {"orders:read"} @@
             "refund-assistant" :> {"orders:read", "refunds:propose"}
MCNeeds == "propose_refund" :> "refunds:propose"

(* The API and the memory service have nothing in common but the tokens and  *)
(* the publishers: a behaviour is explored for one of the two, and no chain  *)
(* of exchanges ends at the memory service.                                  *)
OneVerifier ==
  \/ cache["idp at memory"] = Empty
  \/ (\A c \in AtApi : cache[c] = Empty) /\ Cardinality(tokens) <= 2
(* A chain of three tokens is explored as long as all keys are served and    *)
(* none has changed; a change of keys meets two tokens at most.              *)
ChainOrKeys == changes > 0 /\ settings = {} => Cardinality(tokens) <= 2
=============================================================================
