---------------------------- MODULE ByteStreams ----------------------------
(***************************************************************************)
(* What a socket promises to those who send on it: the bytes it accepts    *)
(* reach the wire in the order in which it accepted them, each once, and   *)
(* nothing follows the end of the stream, before which all of them are     *)
(* out.  Closing the socket gives up what is left.                         *)
(***************************************************************************)
EXTENDS Integers, Sequences

CONSTANT Sockets

VARIABLES
  unsent,   \* accepted bytes that are not on the wire
  wire,
  open,
  finished  \* the sockets whose stream has ended

vars == <<unsent, wire, open, finished>>

Init ==
  /\ unsent = [s \in Sockets |-> <<>>]
  /\ wire = [s \in Sockets |-> <<>>]
  /\ open = Sockets
  /\ finished = {}

Extends(longer, shorter) ==
  /\ Len(shorter) <= Len(longer)
  /\ SubSeq(longer, 1, Len(shorter)) = shorter

Same(s) == unsent'[s] = unsent[s] /\ wire'[s] = wire[s]

\* Bytes are accepted behind those that wait, and taken from the front.
Transfer(s) ==
  /\ s \in open
  /\ Extends(wire'[s], wire[s])
  /\ Extends(wire'[s] \o unsent'[s], wire[s] \o unsent[s])
  /\ UNCHANGED open
  /\ s \in finished => Same(s)
  /\ \/ UNCHANGED finished
     \/ finished' = finished \cup {s} /\ unsent'[s] = <<>>

Close(s) ==
  /\ open' = open \ {s}
  /\ unsent'[s] = <<>>
  /\ wire'[s] = wire[s]
  /\ UNCHANGED finished

Next == \E s \in Sockets :
          /\ Transfer(s) \/ Close(s)
          /\ \A r \in Sockets \ {s} : Same(r)

Spec == Init /\ [][Next]_vars

=============================================================================
