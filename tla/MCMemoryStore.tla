---------------------------- MODULE MCMemoryStore ----------------------------
(* Bounded instances of MemoryStore.                                         *)
EXTENDS MemoryInvariant, TLC

(* Requests and owners are alike, and so are the identifiers of records.     *)
Symmetry == Permutations(Requests) \cup Permutations(Users) \cup Permutations(Records)
=============================================================================
