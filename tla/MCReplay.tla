------------------------------ MODULE MCReplay ------------------------------
(***************************************************************************)
(* Instances of Replay for TLC.  The real 300, 5 and 60 seconds shrink to  *)
(* 2, 1 and 1; the run is long enough for a proof to be recorded, swept and*)
(* presented again, and iats reach from stale to skewed.                   *)
(***************************************************************************)
EXTENDS Replay, TLC

MCIats == {0, 3, 5}

Sym == Permutations(Reqs)
=============================================================================
