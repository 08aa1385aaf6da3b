---------------------------- MODULE LineReaders ----------------------------
(***************************************************************************)
(* How the tcp programs cut what they read into lines: the select server   *)
(* and its client (dclprocessor/tcp/src/tcp_process.c), and the messenger, *)
(* its epoll server and client (messenger.c).  One connection is a record; *)
(* each operator is what a loop does with it for one read of n bytes, 0    *)
(* being the end of the stream or an error.  Bytes are their positions in  *)
(* the stream.                                                             *)
(***************************************************************************)
EXTENDS Integers, Sequences, FiniteSets
LOCAL INSTANCE FiniteSetsExt
LOCAL INSTANCE Functions

CONSTANTS
  BufLen,      \* MAX_BUFFER_SIZE, MAX_MSG_LEN
  StreamLen    \* bytes the peer sends

\* reader: which loop; ends: the positions of the newlines; taken: bytes read;
\* buf: the buffer's bytes in use; cut: newlines overwritten by a zero in it;
\* done: the lines passed on; glued: a read went on behind a newline
NewConnection(reader, ends) ==
  [reader |-> reader, ends |-> ends, taken |-> 0, buf |-> <<>>, cut |-> {},
   done |-> <<>>, glued |-> FALSE, state |-> "open"]

Positions(from, to) == [i \in 1..(to - from + 1) |-> from + i - 1]

\* memchr for a newline: its index in the buffer, 0 if there is none
Endl(conn) ==
  LET at == {i \in DOMAIN conn.buf : conn.buf[i] \in conn.ends \ conn.cut}
  IN  IF at = {} THEN 0 ELSE Min(at)

Received(conn, n) ==
  LET bytes == Positions(conn.taken + 1, conn.taken + n)
  IN  [conn EXCEPT !.taken = @ + n, !.buf = @ \o bytes,
                   !.glued = @ \/ \E i \in 1..n - 1 : bytes[i] \in conn.ends]

Closed(conn)  == [conn EXCEPT !.state = "closed"]
Faulted(conn) == [conn EXCEPT !.state = "faulted"]

\* variant: the newline itself stays in the buffer
PassLineOnly(conn, at) ==
  [conn EXCEPT !.done = Append(@, SubSeq(conn.buf, 1, at - 1)),
               !.buf = SubSeq(@, at, Len(@))]

\* the line before index `at` is passed on and leaves the buffer
PassLine(conn, at) ==
  [conn EXCEPT !.done = Append(@, SubSeq(conn.buf, 1, at - 1)),
               !.buf = SubSeq(@, at + 1, Len(@))]

\* _tcp_server_process: a full buffer is skipped before the read, at most one
\* line is taken after it
ServerReads(conn, n) ==
  LET read == Received(conn, n)
  IN  CASE Len(conn.buf) >= BufLen -> conn
        [] Len(conn.buf) < BufLen /\ n = 0 -> Closed(conn)
        [] OTHER -> IF Endl(read) = 0 THEN read ELSE PassLine(read, Endl(read))

\* _tcp_client_process: the reply is passed on with or without its newline,
\* and without one the pointer behind it is one behind NULL
ClientReads(conn, n) ==
  LET read == Received(conn, n)
  IN  CASE Len(conn.buf) >= BufLen -> conn
        [] Len(conn.buf) < BufLen /\ n = 0 -> Closed(conn)
        [] OTHER -> IF Endl(read) = 0
                    THEN Faulted([read EXCEPT !.done = Append(@, read.buf)])
                    ELSE PassLine(read, Endl(read))

\* connection_extract_message: the newline becomes the end of a C string, the
\* message is what the buffer begins with, and nothing leaves the buffer
ExtractMessage(conn) ==
  LET string == LET zero == {i \in DOMAIN conn.buf : conn.buf[i] \in conn.cut}
                IN  SubSeq(conn.buf, 1, Min(zero) - 1)
  IN  [conn EXCEPT !.done = Append(@, string)]

\* tcp_server_process and event_thread with read_connection_data: a full
\* buffer closes the connection, a read without newline moves from NULL
MessengerReads(conn, n) ==
  LET read == Received(conn, n)
      at   == Endl(read)
  IN  CASE Len(conn.buf) >= BufLen \/ n = 0 -> Closed(conn)
        [] OTHER -> IF at = 0 THEN Faulted(read)
                    ELSE ExtractMessage([read EXCEPT !.cut = @ \cup {read.buf[at]}])

Reads(conn, n) ==
  CASE conn.reader = "server" -> ServerReads(conn, n)
    [] conn.reader = "client" -> ClientReads(conn, n)
    [] conn.reader = "messenger" -> MessengerReads(conn, n)

\* what one read may return
ReadSizes(conn) ==
  0..(LET room == BufLen - Len(conn.buf)
          left == StreamLen - conn.taken
      IN  IF left < room THEN left ELSE IF room < 0 THEN 0 ELSE room)

-----------------------------------------------------------------------------
(* The k-th newline of the stream, and the line that it ends.              *)
EndOf(conn, k) ==
  IF k = 0 THEN 0
  ELSE CHOOSE e \in conn.ends : Cardinality({x \in conn.ends : x <= e}) = k

LineOf(conn, k) == Positions(EndOf(conn, k - 1) + 1, EndOf(conn, k) - 1)

(* However the stream is cut into reads, the server passes on the lines of *)
(* its peer in their order, each whole and once, and holds all it has read *)
(* of the next ones; a whole line waits in the buffer only behind a read   *)
(* that went on beyond a newline, so never for a peer that sends a line    *)
(* after the reply to the last one.                                        *)
ServerLinesServed(conn) ==
  /\ Len(conn.done) <= Cardinality(conn.ends)
  /\ \A k \in DOMAIN conn.done : conn.done[k] = LineOf(conn, k)
  /\ conn.buf = Positions(EndOf(conn, Len(conn.done)) + 1, conn.taken)
  /\ Endl(conn) # 0 => conn.glued

(* The client gives its receiver the same lines, but for a last piece of a *)
(* line, with which it faults.                                             *)
ClientLinesServed(conn) ==
  LET whole == IF conn.state = "faulted"
               THEN [conn EXCEPT !.done = SubSeq(@, 1, Len(@) - 1)] ELSE conn
  IN  ServerLinesServed(whole)

(* The messenger passes on the first line once for every newline that it   *)
(* found, at most one for a read: only a peer that sends a single line is  *)
(* served as the text says.                                                *)
MessengerLinesServed(conn) ==
  /\ \A k \in DOMAIN conn.done : conn.done[k] = LineOf(conn, 1)
  /\ Len(conn.done) = Cardinality(conn.cut)
  /\ Cardinality(conn.ends) = 1 => Len(conn.done) <= 1

LinesServed(conn) ==
  CASE conn.reader = "server" -> ServerLinesServed(conn)
    [] conn.reader = "client" -> ClientLinesServed(conn)
    [] conn.reader = "messenger" -> MessengerLinesServed(conn)
=============================================================================
