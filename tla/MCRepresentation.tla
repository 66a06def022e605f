-------------------------- MODULE MCRepresentation --------------------------
(***************************************************************************)
(* Instances of Representation for TLC.                                    *)
(***************************************************************************)
EXTENDS Representation, TLC

\* A dataset with no named graph, one with each, one with both.
MCDatasets ==
  {[mt |-> "turtle", fact |-> "d0", names |-> {}],
   [mt |-> "trig", fact |-> "d1", names |-> {"g1"}],
   [mt |-> "trig", fact |-> "d2", names |-> {"g1", "g2"}]}

MCFacts == {"d0", "d1", "d2", "b1", "b2", "p1", "p2"}

\* Two byte formats, so that new bytes under an old type would show.
MixedTypes == {"turtle", "trig", "png", "pdf"}
MixedBlobs == {[mt |-> "png", bytes |-> "b1"], [mt |-> "pdf", bytes |-> "b2"]}

\* One patch that only adds and one that replaces what the first added.
MCPatches == {[del |-> {}, add |-> {"p1"}], [del |-> {"p1"}, add |-> {"p2"}]}

Sym == Permutations(Reqs)
=============================================================================
