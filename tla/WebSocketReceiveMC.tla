------------------------- MODULE WebSocketReceiveMC -------------------------
(***************************************************************************)
(* TLC instance of WebSocketReceive: the frames conversations are made of. *)
(***************************************************************************)
EXTENDS WebSocketReceive

Frame(op, fin, payload) ==
  [op |-> op, fin |-> fin, rsv1 |-> FALSE, kind |-> "short", size |-> Len(payload), payload |-> payload]

Compressed(f) == [f EXCEPT !.rsv1 = TRUE]

Sized(f, kind) == [f EXCEPT !.kind = kind]

MCFrames == {
  Frame("text", TRUE, <<"a">>),
  Frame("text", FALSE, <<>>),
  Frame("text", FALSE, <<"a", "b", "c">>),
  Sized(Frame("binary", TRUE, <<"a", "b", "c", "d", "e">>), "medium"),
  Sized(Frame("binary", FALSE, <<"a">>), "long"),
  Frame("continuation", TRUE, <<"b">>),
  Sized(Frame("continuation", FALSE, <<"b", "bad">>), "medium"),
  Frame("ping", TRUE, <<"p", "q">>),
  Frame("pong", TRUE, <<>>),
  Frame("close", TRUE, <<"code", "code", "x">>),
  Frame("close", TRUE, <<"x">>),
  Compressed(Frame("text", TRUE, <<"z", "z">>)),
  Sized(Compressed(Frame("text", TRUE, <<"z">>)), "medium"),
  Compressed(Frame("binary", FALSE, <<"z">>)),
  Frame("continuation", TRUE, <<"z">>),
  Frame("ping", FALSE, <<>>),
  Frame("reserved", TRUE, <<>>),
  [Sized(Frame("text", TRUE, <<>>), "long") EXCEPT !.size = 99]}

\* Every handler is set, or none but that of messages.
MCBehaviors == {{"message", "ping", "pong"}, {"message"}}

=============================================================================
