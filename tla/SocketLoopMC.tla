---------------------------- MODULE SocketLoopMC ----------------------------
(***************************************************************************)
(* TLC instance of SocketLoop: symmetry of the addresses, for the runs that *)
(* check no liveness.                                                      *)
(***************************************************************************)
EXTENDS SocketLoop, TLC

Symmetry == Permutations(Sockets)

=============================================================================
