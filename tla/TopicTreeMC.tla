---------------------------- MODULE TopicTreeMC ----------------------------
(***************************************************************************)
(* TLC instance of TopicTree: symmetry of the interchangeable WebSockets   *)
(* and topics (for the runs that check no liveness).                       *)
(***************************************************************************)
EXTENDS TopicTree, TLC

Symmetry == Permutations(Subscribers) \cup Permutations(Topics)

=============================================================================
