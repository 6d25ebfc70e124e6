----------------------------- MODULE MCFrontEnd -----------------------------
(* Two users who share one browser session.                                 *)
EXTENDS FrontEnd, TLC

CONSTANTS ann, bob, f1

Symmetry == Permutations(Ids)

=============================================================================
