------------------------------- MODULE MCProbe -------------------------------
(* Three customers, two of whose names match, on pages of one; two requests  *)
(* of the Range at a time.                                                   *)
EXTENDS Probe

(* Walks, scenarios and delegations share no state but the bounds: a         *)
(* behaviour is explored for one of the three, the others from one directory.*)
OneSubject ==
  LET under(S) == \E c \in Calls : call[c].entry \in S
      plain == directory = [c \in Customers |-> 1] /\ searcher
  IN /\ under({"search"}) => memory = << >> /\ minted = Nothing
     /\ under({"forget", "confirm"}) => plain /\ minted = Nothing /\ ~under(Delegated)
     /\ under(Delegated) => plain /\ memory = << >>
=============================================================================
