-------------------------- MODULE ClientConnectMC --------------------------
(* Instances of ClientConnect for TLC. *)
EXTENDS ClientConnect

=============================================================================
