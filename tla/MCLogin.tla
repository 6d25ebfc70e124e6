------------------------------ MODULE MCLogin ------------------------------
(* One user, who may have typed his name in two ways; two failures within   *)
(* two ticks of the clock lock the address.                                 *)
EXTENDS Login, TLC

MCNormName == [n \in RawNames |-> "ann"]
Symmetry == Permutations(Threads)

=============================================================================
