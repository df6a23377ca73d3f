----------------------------- MODULE Exchanges -----------------------------
(***************************************************************************)
(* What an HTTP connection promises its application: requests are handed   *)
(* over one at a time, each is settled exactly once (answered, aborted or, *)
(* when the connection is lost before the application has said what to     *)
(* do about that, dropped), and nothing follows the end of the connection. *)
(***************************************************************************)
EXTENDS Sequences

CONSTANT Sockets

VARIABLE log    \* of each connection: its events so far

Begun(c) == log[c] # <<>> /\ log[c][Len(log[c])] = "request"

Over(c) == log[c] # <<>> /\ log[c][Len(log[c])] \in {"aborted", "dropped", "upgraded"}

Then(c, event) == log' = [log EXCEPT ![c] = Append(@, event)]

Init == log = [c \in Sockets |-> <<>>]

Begin(c) == ~Begun(c) /\ ~Over(c) /\ Then(c, "request")

Answer(c) == Begun(c) /\ Then(c, "answered")

Lose(c) == Begun(c) /\ \E event \in {"aborted", "dropped", "upgraded"} : Then(c, event)

Next == \E c \in Sockets : Begin(c) \/ Answer(c) \/ Lose(c)

Spec == Init /\ [][Next]_log

=============================================================================
