---------------------------- MODULE MCMessaging ----------------------------
(* Two threads, a sender, a receiver and a third user, one or two messages. *)
EXTENDS Messaging, TLC

Symmetry == Permutations(Threads) \cup Permutations(Ids)

=============================================================================
