------------------------------ MODULE Connects ------------------------------
(***************************************************************************)
(* What a client promises of its connects: each is answered at most once,  *)
(* by open or by failed; only what opened closes; and nothing is started   *)
(* or opened once the client is closed. src/src/types.ts:238 and README.md:112 *)
(***************************************************************************)
EXTENDS Naturals

CONSTANT Slots

VARIABLES
  status,  \* of each connect
  closed   \* whether close() has been called

vars == <<status, closed>>

Statuses == {"unused", "pending", "open", "failed", "closed", "cancelled"}

Move(c, from, to) ==
  /\ status[c] = from
  /\ status' = [status EXCEPT ![c] = to]
  /\ UNCHANGED closed

Start(c)  == ~closed /\ Move(c, "unused", "pending")
Open(c)   == ~closed /\ Move(c, "pending", "open")
Fail(c)   == Move(c, "pending", "failed")
Close(c)  == Move(c, "open", "closed")
Cancel(c) == closed /\ Move(c, "pending", "cancelled")

CloseClient == closed' = TRUE /\ UNCHANGED status

Init ==
  /\ status = [c \in Slots |-> "unused"]
  /\ closed = FALSE

Next ==
  \/ CloseClient
  \/ \E c \in Slots : Start(c) \/ Open(c) \/ Fail(c) \/ Close(c) \/ Cancel(c)

Spec == Init /\ [][Next]_vars

=============================================================================
