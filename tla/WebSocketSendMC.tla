-------------------------- MODULE WebSocketSendMC --------------------------
(***************************************************************************)
(* TLC instance of WebSocketSend: symmetry of the sockets, for the runs    *)
(* that check no liveness and give all sockets a Subscriber or none.       *)
(***************************************************************************)
EXTENDS WebSocketSend, TLC

Symmetry == Permutations(Sockets)

=============================================================================
