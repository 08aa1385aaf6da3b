----------------------------- MODULE TcpServer -----------------------------
(***************************************************************************)
(* The select loop of the tcp server (dclprocessor/tcp/src/tcp_process.c,  *)
(* connection.c, server.c) over several connections: who is accepted, read *)
(* and answered in which round.  How bytes become lines is in LineReaders, *)
(* what tmk-server does with a line in CommandServer.                      *)
(***************************************************************************)
EXTENDS Integers, Sequences, FiniteSets
LOCAL INSTANCE SequencesExt

CONSTANTS
  PeerCnt,    \* bound: connections made
  PieceCnt    \* bound: pieces sent by each peer

Peers == 1..PeerCnt
Fds   == 1..PeerCnt
Full  == 2     \* pieces that fill a connection's buffer

\* table: the peer behind each open descriptor; list: the connections with what
\* their buffers hold; rfds: what select returned, todo: connections left of
\* this round, turn: those read in it; ahead: a peer has sent on while one of
\* its lines had no reply
NewServer ==
  [state |-> "up", pc |-> "select", table |-> [f \in Fds |-> 0], list |-> <<>>, cnt |-> 0,
   rfds |-> {}, accept |-> FALSE, todo |-> <<>>, turn |-> <<>>, exit_flag |-> FALSE,
   peer |-> [p \in Peers |-> [state |-> "away", inbox |-> <<>>, sent |-> <<>>, replies |-> 0,
                             ahead |-> FALSE]]]

Pending(s)   == {p \in Peers : s.peer[p].state = "connecting"}
Ready(s, fd) == LET peer == s.peer[s.table[fd]] IN peer.inbox # <<>> \/ peer.state \in {"gone", "reset"}
IndexOf(s, fd) == CHOOSE i \in DOMAIN s.list : s.list[i].fd = fd

\* select waits for the listening socket and the connections of the list; an
\* interruption ends the program
Select(s) ==
  LET fds   == {s.list[i].fd : i \in DOMAIN s.list}
      ready == {fd \in fds : Ready(s, fd)}
  IN  {[s EXCEPT !.state = "exited"]}
      \cup (IF ready = {} /\ Pending(s) = {} THEN {}
            ELSE {[s EXCEPT !.pc = "accept", !.rfds = ready, !.turn = <<>>, !.accept = Pending(s) # {}]})

\* accept takes the lowest free descriptor; connection_add puts it last
Accept(s) ==
  LET free == {f \in Fds : s.table[f] = 0}
      fd   == Min(free)
      all(t) == [t EXCEPT !.pc = "serve", !.todo = [i \in DOMAIN t.list |-> t.list[i].fd]]
  IN  IF ~s.accept THEN {all(s)}
      ELSE {all([s EXCEPT !.table[fd] = p, !.peer[p].state = "open", !.cnt = @ + 1,
                          !.list = Append(@, [fd |-> fd, buf |-> <<>>])]) : p \in Pending(s)}

connection_delete(s, i) ==
  [s EXCEPT !.list = SubSeq(@, 1, i - 1) \o SubSeq(@, i + 1, Len(@)), !.cnt = @ - 1,
            !.table[s.list[i].fd] = 0]

\* default_server_reciever, and the reply that is written over its own; a
\* second reply to a peer that has gone is a SIGPIPE
default_server_reciever(s, fd, line) ==
  LET p == s.table[fd]
      done == [s EXCEPT !.exit_flag = @ \/ line = "quit"]
  IN  CASE s.peer[p].state = "open" -> {[done EXCEPT !.peer[p].replies = @ + 1]}
        [] s.peer[p].state = "gone" -> {[done EXCEPT !.peer[p].state = "reset"]}
        [] OTHER -> {[done EXCEPT !.state = "SIGPIPE"]}

\* how many of the pieces in a sequence are lines
LinesIn(pieces) == Cardinality({i \in DOMAIN pieces : pieces[i] # "part"})

\* what the round does with the next connection: if it was ready and has room, a
\* read takes all that has come and fits, and the first line in the buffer, if
\* there is one, is answered; the end of the stream, or an error, deletes it
Serve(s) ==
  LET fd   == Head(s.todo)
      i    == IndexOf(s, fd)
      p    == s.table[fd]
      past == [s EXCEPT !.todo = Tail(@)]
      read == [past EXCEPT !.turn = Append(@, fd)]
      inbox == s.peer[p].inbox
      room == Full - Len(s.list[i].buf)
      n    == IF Len(inbox) < room THEN Len(inbox) ELSE room
      buf  == s.list[i].buf \o SubSeq(inbox, 1, n)
      line == SelectInSeq(buf, LAMBDA piece : piece # "part")
      took == [read EXCEPT !.peer[p].inbox = SubSeq(@, n + 1, Len(@)),
                           !.list[i].buf = SubSeq(buf, line + 1, Len(buf))]
  IN  CASE s.exit_flag -> {[s EXCEPT !.pc = "close"]}
        [] ~s.exit_flag /\ s.todo = <<>> -> {[s EXCEPT !.pc = "select"]}
        [] OTHER ->
             IF fd \notin s.rfds \/ room = 0 THEN {past}
             ELSE (IF inbox = <<>> \/ s.peer[p].state = "reset"
                   THEN {connection_delete(read, i)} ELSE {})
                  \cup (IF inbox = <<>> THEN {}
                        ELSE IF line = 0 THEN {took}
                        ELSE default_server_reciever(took, fd, buf[line]))

\* server_destroy, up to its join of a thread that was never created
server_destroy(s) ==
  IF s.list # <<>> THEN {connection_delete(s, 1)} ELSE {[s EXCEPT !.state = "destroyed"]}

ServerLoop(s) ==
  CASE s.pc = "select" -> Select(s)
    [] s.pc = "accept" -> Accept(s)
    [] s.pc = "serve" -> Serve(s)
    [] s.pc = "close" -> server_destroy(s)

\* external: the next peer connects, one sends a line or a part of one, or goes
PeerSteps(s) ==
  UNION {LET peer == s.peer[p]
         IN  CASE peer.state = "away" /\ \A q \in 1..p - 1 : s.peer[q].state # "away" ->
                      {[s EXCEPT !.peer[p].state = "connecting"]}
               [] peer.state = "open" ->
                    {[s EXCEPT !.peer[p].state = "gone"]} \cup
                    (IF Len(peer.sent) = PieceCnt THEN {}
                     ELSE {[s EXCEPT !.peer[p].inbox = Append(@, piece), !.peer[p].sent = Append(@, piece),
                                     !.peer[p].ahead = @ \/ peer.replies < LinesIn(peer.sent)] :
                             piece \in {"line", "quit", "part"}})
               [] OTHER -> {} : p \in Peers}

ServerSteps(s) == IF s.state # "up" THEN {} ELSE ServerLoop(s) \cup PeerSteps(s)

(* The list, its count and the open descriptors agree.  A round reads each *)
(* connection that was ready once, so no peer keeps the others waiting,    *)
(* not even one whose full buffer is never read again; only the flag ends  *)
(* a round early, and only a peer raises it.  A line whose socket has been *)
(* emptied is answered, or waits in the connection's buffer behind a       *)
(* select that does not see it; one waits there only for a peer that sent  *)
(* on before it had its reply.                                             *)
PeersServedInTurn(s) ==
  LET fds == {s.list[i].fd : i \in DOMAIN s.list}
      buf(f) == s.list[IndexOf(s, f)].buf
      lines(p) == LinesIn(s.peer[p].sent)
      full  == {f \in fds : Len(buf(f)) = Full}
  IN  /\ s.cnt = Len(s.list) /\ s.cnt = Cardinality(fds)
      /\ fds = {f \in Fds : s.table[f] # 0}
      /\ s.pc = "select" => s.rfds \subseteq Range(s.turn) \cup full /\ Range(s.turn) \subseteq s.rfds
      /\ \A i, j \in DOMAIN s.turn : i # j => s.turn[i] # s.turn[j]
      /\ s.exit_flag => \E p \in Peers : "quit" \in Range(s.peer[p].sent)
      /\ \A f \in fds :
           LET p == s.table[f]
           IN  /\ s.peer[p].state = "open" =>
                    s.peer[p].replies + LinesIn(buf(f)) + LinesIn(s.peer[p].inbox) = lines(p)
               /\ LinesIn(buf(f)) > 0 => s.peer[p].ahead
      /\ s.state = "SIGPIPE" => \E p \in Peers : s.peer[p].state = "reset" /\ lines(p) >= 2
      /\ s.state = "destroyed" => s.exit_flag /\ fds = {}
=============================================================================
