----------------------------- MODULE MCResolver -----------------------------
(***************************************************************************)
(* An instance of Resolver for TLC: the real 120 or 300, 30 and 10 seconds *)
(* shrink to 2, 1 and 1, and 1024 entries to 1, one less than documents.   *)
(***************************************************************************)
EXTENDS Resolver, TLC

Sym == Permutations(Reqs) \cup Permutations(Docs)
=============================================================================
