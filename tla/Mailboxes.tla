----------------------------- MODULE Mailboxes -----------------------------
(***************************************************************************)
(* What publishing promises to one WebSocket, without queues shared        *)
(* between WebSockets, indices or re-entry: every WebSocket has a mailbox  *)
(* of its own, messages enter it in the order they were published, leave   *)
(* it in that order, and a direct send overtakes none of them.             *)
(* Messages are numbered in call order.                                    *)
(***************************************************************************)
EXTENDS Integers, Sequences

CONSTANTS Subscribers, MaxCalls

VARIABLES mail,        \* published to the WebSocket, not yet written to it
          delivered,   \* written to the WebSocket
          current      \* the message being published, 0 if none is

boxes == <<mail, delivered, current>>

Message == 1 .. MaxCalls

\* m is newer than every message of the sequence q.
Newer(m, q) == \A i \in DOMAIN q : q[i] < m

Init ==
  /\ mail = [s \in Subscribers |-> <<>>]
  /\ delivered = [s \in Subscribers |-> <<>>]
  /\ current = 0

\* A publish begins or ends.
Publish ==
  /\ current' \in {0} \cup Message
  /\ UNCHANGED <<mail, delivered>>

\* The publish under way reaches s.
Post(s) ==
  /\ current # 0
  /\ Newer(current, mail[s] \o delivered[s])
  /\ mail' = [mail EXCEPT ![s] = Append(@, current)]
  /\ UNCHANGED <<delivered, current>>

\* The oldest messages are written; the others stay, or are given up.
Deliver(s) ==
  \E n \in 0 .. Len(mail[s]) :
    /\ delivered' = [delivered EXCEPT ![s] = @ \o SubSeq(mail[s], 1, n)]
    /\ mail' \in {[mail EXCEPT ![s] = SubSeq(@, n + 1, Len(@))],
                  [mail EXCEPT ![s] = <<>>]}
    /\ UNCHANGED current

\* A direct send: nothing published before it is still waiting.
Pass(s) ==
  \E m \in Message :
    /\ mail[s] = <<>>
    /\ Newer(m, delivered[s])
    /\ delivered' = [delivered EXCEPT ![s] = Append(@, m)]
    /\ UNCHANGED <<mail, current>>

\* A new WebSocket takes the place of a closed one.
Renew(s) ==
  /\ mail[s] = <<>>
  /\ delivered' = [delivered EXCEPT ![s] = <<>>]
  /\ UNCHANGED <<mail, current>>

Next == Publish \/ \E s \in Subscribers : Post(s) \/ Deliver(s) \/ Pass(s) \/ Renew(s)

Spec == Init /\ [][Next]_boxes

=============================================================================
