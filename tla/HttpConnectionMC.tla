-------------------------- MODULE HttpConnectionMC --------------------------
(***************************************************************************)
(* TLC instance of HttpConnection: symmetry of the sockets.                *)
(***************************************************************************)
EXTENDS HttpConnection, TLC

Symmetry == Permutations(Sockets)

=============================================================================
