---------------------------- MODULE AsyncSocket ----------------------------
(***************************************************************************)
(* The outgoing half of a socket: src/native/uwebsockets/AsyncSocket.h     *)
(* over the writes of usockets/socket.c (without TLS).                     *)
(*                                                                         *)
(* Bytes wait in two places: the cork buffer, one per loop and lent to one *)
(* socket at a time, and the backpressure buffer of each socket.  The      *)
(* kernel takes any prefix of what it is given, so each operation maps the *)
(* record "io" of this state to the set of its possible outcomes.          *)
(***************************************************************************)
EXTENDS Integers, Sequences, FiniteSets

CONSTANTS
  Sockets,
  NoSocket,     \* the null AsyncSocket *
  CorkSize,     \* CORK_BUFFER_SIZE, 16 * 1024 in the code
  EraseShare    \* 32 in the code: erase at least this share of the buffer

ASSUME AsyncSocketAssumption ==
  /\ NoSocket \notin Sockets
  /\ CorkSize \in Nat \ {0}
  /\ EraseShare \in Nat \ {0}

\* A byte is named by the socket it was sent on and its position there.
Byte == Sockets \X (Nat \ {0})

IO == [open   : SUBSET Sockets,
       shut   : SUBSET Sockets,          \* POLL_TYPE_SOCKET_SHUT_DOWN: FIN is sent
       polls  : SUBSET Sockets,          \* polled for writable
       failed : BOOLEAN,                 \* last_write_failed
       wire   : [Sockets -> Seq(Byte)],  \* history: what the kernel has taken
       buffer : [Sockets -> Seq(Byte)],  \* BackPressure, without what is removed
       removed: [Sockets -> Nat],        \* pendingRemoval
       corked : Sockets \cup {NoSocket}, \* corkedSocket
       cork   : Seq(Byte)]               \* corkBuffer[0 .. corkOffset - 1]

Outcome(io, failed) == [io |-> io, failed |-> failed]

-----------------------------------------------------------------------------
(* usockets.                                                               *)

Refuses(io, s) == s \notin io.open \/ s \in io.shut

\* The kernel takes the first n of the bytes.
Taken(io, s, bytes, n) ==
  [io EXCEPT !.wire[s] = @ \o SubSeq(bytes, 1, n),
             !.polls = IF n < Len(bytes) THEN @ \cup {s} ELSE @]

\* How many bytes the kernel may take.
Accepted(io, s, bytes) == IF Refuses(io, s) THEN {0} ELSE 0 .. Len(bytes)

\* us_socket_write, after which n bytes are written: a short write is
\* remembered in last_write_failed, one that is refused is not.
Written(io, s, bytes, n) ==
  IF Refuses(io, s) THEN io
  ELSE [Taken(io, s, bytes, n) EXCEPT !.failed = @ \/ n < Len(bytes)]

\* us_socket_write2: a short write polls but leaves last_write_failed alone.
Written2(io, s, bytes, n) == IF Refuses(io, s) THEN io ELSE Taken(io, s, bytes, n)

Shutdown(io, s) ==
  IF Refuses(io, s) THEN io
  ELSE [io EXCEPT !.shut = @ \cup {s}, !.polls = @ \ {s}]

\* us_socket_close, and the destructor of the socket's data in on_close.
Closed(io, s) ==
  [io EXCEPT !.open = @ \ {s}, !.polls = @ \ {s}, !.buffer[s] = <<>>, !.removed[s] = 0]

-----------------------------------------------------------------------------
(* BackPressure.                                                           *)

Rest(bytes, n) == SubSeq(bytes, n + 1, Len(bytes))

TotalLength(io, s) == Len(io.buffer[s]) + io.removed[s]

\* Bytes are removed in front, but the string is only cut once they are a
\* certain share of it.
Erase(io, s, n) ==
  [io EXCEPT !.buffer[s] = Rest(@, n),
             !.removed[s] = IF @ + n > TotalLength(io, s) \div EraseShare THEN 0 ELSE @ + n]

Clear(io, s) == [io EXCEPT !.buffer[s] = <<>>, !.removed[s] = 0]

Buffered(io, s, bytes) == [io EXCEPT !.buffer[s] = @ \o bytes]

GetBufferedAmount(io, s) == TotalLength(io, s)

-----------------------------------------------------------------------------
(* AsyncSocket.                                                            *)

CanCork(io) == io.corked = NoSocket

\* cork() terminates the process if the buffer holds somebody else's bytes.
CorkTerminates(io, s) == io.cork # <<>> /\ io.corked # s

Cork(io, s) == [io EXCEPT !.corked = s]

UncorkWithoutSending(io, s) == [io EXCEPT !.corked = IF @ = s THEN NoSocket ELSE @]

\* write() up to the point where the socket's own buffer is gone, or not.
Flush(io, s) ==
  IF io.buffer[s] = <<>> THEN {Outcome(io, FALSE)}
  ELSE {LET after == Written(io, s, io.buffer[s], n)
        IN  IF n < Len(io.buffer[s]) THEN Outcome(Erase(after, s, n), TRUE)
            ELSE Outcome(Clear(after, s), FALSE) :
        n \in Accepted(io, s, io.buffer[s])}

\* Variant: what the kernel has taken is buffered as well.
SyscallBuffersAll(io, s, src) ==
  IF src = <<>> THEN {Outcome(io, FALSE)}
  ELSE {Outcome(IF n < Len(src) THEN Buffered(Written(io, s, src, n), s, src)
                ELSE Written(io, s, src, n), n < Len(src)) :
        n \in Accepted(io, s, src)}

\* The rest of write() for a socket that is not corked.
Syscall(io, s, src) ==
  IF src = <<>> THEN {Outcome(io, FALSE)}
  ELSE {Outcome(Buffered(Written(io, s, src, n), s, Rest(src, n)), n < Len(src)) :
        n \in Accepted(io, s, src)}

\* write(), not optional, of a socket that is not corked or of no bytes; it
\* claims success on a closed socket.
Write(io, s, src) ==
  IF s \notin io.open THEN {Outcome(io, FALSE)}
  ELSE UNION {IF f.failed THEN {Outcome(Buffered(f.io, s, src), TRUE)}
              ELSE Syscall(f.io, s, src) : f \in Flush(io, s)}

\* uncork(): flush the cork buffer, then write src.
Uncork(io, s, src) ==
  IF io.corked # s THEN {Outcome(io, FALSE)}
  ELSE LET free    == [io EXCEPT !.corked = NoSocket]
           flushed == IF io.cork = <<>> THEN {Outcome(free, FALSE)}
                      ELSE Write(free, s, io.cork)
       IN  UNION {LET w == [f.io EXCEPT !.cork = <<>>]
                  IN  IF f.failed THEN {Outcome(Buffered(w, s, src), TRUE)}
                      ELSE Write(w, s, src) : f \in flushed}

FitsCork(io, s, frame) ==
  /\ io.buffer[s] = <<>>
  /\ io.corked \in {s, NoSocket}
  /\ Len(io.cork) + Len(frame) < CorkSize

\* getSendBuffer() and the formatting of a frame into what it returns: the
\* cork buffer, taken if it is free, or else the backpressure buffer, into
\* which the socket's own corked bytes are moved first.
Place(io, s, frame) ==
  IF FitsCork(io, s, frame)
  THEN [io    |-> [io EXCEPT !.corked = s, !.cork = @ \o frame],
        needs |-> IF io.corked = s THEN "nothing" ELSE "uncork"]
  ELSE LET own == IF io.corked = s THEN io.cork ELSE <<>>
       IN  [io    |-> [io EXCEPT !.cork = IF io.corked = s THEN <<>> ELSE @,
                                 !.buffer[s] = @ \o own \o frame],
            needs |-> "drain"]

=============================================================================
