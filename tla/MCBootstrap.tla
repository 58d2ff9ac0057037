----------------------------- MODULE MCBootstrap -----------------------------
(* Two migrations a database, so that one can be applied and the other not.  *)
EXTENDS Bootstrap
=============================================================================
