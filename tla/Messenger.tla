----------------------------- MODULE Messenger -----------------------------
(***************************************************************************)
(* The messenger's client (dclprocessor/tcp/src/messenger.c, client.c,     *)
(* connection.c): the main thread reads commands of its user, finds the    *)
(* keyword and the server in each and writes it to the connection to that  *)
(* server; the event thread waits for all connections and reads what the   *)
(* servers answer.  They share the list of connections without a lock.     *)
(* How a connection's bytes become messages is in LineReaders.             *)
(***************************************************************************)
EXTENDS Integers, Sequences, FiniteSets
LOCAL INSTANCE FiniteSetsExt
LOCAL INSTANCE Functions

CONSTANTS
  CommandCnt,   \* bound: commands that the user gives
  AnswerCnt     \* answers that fill a connection's buffer, which keeps them

\* the keywords in the order of their tests
Keywords == <<"CONNECT", "INIT", "START", "STOP", "STATUS", "SET", "GET", "CONFIG", "QUIT">>

\* a command is its first word and, but for "bare" ones, the server it names;
\* the name of one server has keywords in it
Hosts == {"lan", "reset.lan"}
Texts == [verb : Range(Keywords) \cup {"HELLO"}, host : Hosts] \cup [verb : {"QUIT", "GET"}, host : {"bare"}]
Within(host) == IF host = "reset.lan" THEN {"SET"} ELSE {}

\* the characters of the words
Length(word) ==
  CASE word \in {"SET", "GET"} -> 3
    [] word \in {"INIT", "STOP", "QUIT"} -> 4
    [] word \in {"START", "HELLO"} -> 5
    [] word \in {"STATUS", "CONFIG"} -> 6
    [] word = "CONNECT" -> 7

\* conns: the connection list, with the server's end; poll: epoll_fd; main: the
\* main thread's next step, on connection or host `at`; wrote: commands written;
\* odd: what happened that no command or server should do
NewClient ==
  [conns |-> <<>>, fds |-> 0, poll |-> "open", events |-> "waiting", exit_flag |-> FALSE,
   sigusr2 |-> FALSE, main |-> "read", at |-> 0, text |-> [verb |-> "none", host |-> "bare"],
   cnt |-> 0, wrote |-> <<>>, odd |-> {}, state |-> "running"]

Die(cli, why) == [cli EXCEPT !.state = why]
Odd(cli, what) == [cli EXCEPT !.odd = @ \cup {what}]

\* parse_api_request: every test overwrites what the ones before it found, and
\* INIT is taken for START; without a keyword the command and its length are
\* what malloc returned
parse_api_request(text) ==
  LET found == {i \in DOMAIN Keywords : Keywords[i] \in Within(text.host) \cup {text.verb}}
      word  == LET last == Keywords[Max(found)] IN IF last = "INIT" THEN "START" ELSE last
  IN  IF found # {} THEN {[cmd |-> word, cmd_len |-> Length(word)]}
      ELSE [cmd : {"none", "QUIT", "GET"}, cmd_len : {0, 5}]

\* msg_get_connect_information: the host starts one character behind the
\* command's length, and its text is another one if this is not the first word's
msg_get_connect_information(text, msg) ==
  IF text.host = "bare" THEN "missing"
  ELSE IF msg.cmd_len = Length(text.verb) THEN text.host ELSE "garbled"

\* connection_get: the first one of that host
connection_get(cli, host) ==
  LET at == {i \in DOMAIN cli.conns : cli.conns[i].host = host}
  IN  IF at = {} THEN 0 ELSE cli.conns[Min(at)].fd

IndexOf(cli, fd) == {i \in DOMAIN cli.conns : cli.conns[i].fd = fd}

\* connections that the event thread may be deleting
Leaving(cli) == {i \in DOMAIN cli.conns : cli.conns[i].peer # "open" \/ cli.conns[i].answers = AnswerCnt}

\* client_add_connection: no server, or a new connection at the end of the list;
\* one that cannot be waited for is freed twice, and one that is linked while
\* the event thread unlinks another may break the list
client_add_connection(cli, host) ==
  LET conn == [fd |-> cli.fds + 1, host |-> host, peer |-> "open", answers |-> 0]
  IN  {[added |-> FALSE, cli |-> cli],
       IF cli.poll = "open"
       THEN [added |-> TRUE, cli |-> [cli EXCEPT !.conns = Append(@, conn), !.fds = @ + 1]]
       ELSE [added |-> FALSE, cli |-> Die(cli, "freed twice")]}
      \cup {[added |-> FALSE, cli |-> Die(cli, "list broken")] : i \in Leaving(cli)}

\* client_execute_callback: QUIT raises the flag and wakes the event thread,
\* CONNECT connects; the others look for their connection, and write to NULL if
\* there was none and the reconnection succeeds
client_execute_callback(cli, text, msg) ==
  LET host == msg_get_connect_information(text, msg)
      fd   == connection_get(cli, host)
      next == [cli EXCEPT !.main = "test"]
  IN  CASE msg.cmd = "QUIT" -> {[next EXCEPT !.exit_flag = TRUE, !.sigusr2 = TRUE]}
        [] msg.cmd \in {"STATUS", "none"} \/ host = "missing" -> {next}
        [] msg.cmd = "CONNECT" -> {r.cli : r \in client_add_connection(next, host)}
        [] fd # 0 -> {[cli EXCEPT !.main = "write", !.at = fd]}
        [] OTHER -> {IF r.added THEN Die(Odd(r.cli, "reconnected"), "no connection") ELSE r.cli :
                       r \in client_add_connection(next, host)}

\* the write of client_execute_callback: the event thread may have freed the
\* connection since it was found; a second write to a gone server is a SIGPIPE
WriteCommand(cli) ==
  LET i == IndexOf(cli, cli.at)
      next == [cli EXCEPT !.main = "test"]
  IN  IF i = {} THEN {next, Die(cli, "freed connection")}
      ELSE LET conn == cli.conns[Max(i)]
           IN  CASE conn.peer = "open" ->
                      {[next EXCEPT !.wrote = Append(@, [text |-> cli.text, to |-> conn.host])]}
                 [] conn.peer = "gone" -> {[next EXCEPT !.conns[Max(i)].peer = "reset"]}
                 [] conn.peer = "reset" -> {Die(cli, "SIGPIPE")}

\* tcp_client_process: commands until the flag is up, then the event thread is
\* joined and the descriptor closed
tcp_client_process(cli) ==
  CASE cli.main = "read" ->
         IF cli.cnt = CommandCnt THEN {}
         ELSE UNION {UNION {client_execute_callback([cli EXCEPT !.text = text, !.cnt = @ + 1], text, msg) :
                              msg \in parse_api_request(text)} : text \in Texts}
    [] cli.main = "write" -> WriteCommand(cli)
    [] cli.main = "test" -> {[cli EXCEPT !.main = IF cli.exit_flag THEN "join" ELSE "read"]}
    [] cli.main = "join" ->
         IF cli.events = "ended" THEN {[cli EXCEPT !.main = "ended", !.poll = "closed"]} ELSE {}
    [] OTHER -> {}

\* connection_delete
connection_delete(cli, i) == [cli EXCEPT !.conns = SubSeq(@, 1, i - 1) \o SubSeq(@, i + 1, Len(@))]

\* event_thread: the signal, an error of the wait, or one connection's event.
\* An end of the stream and a full buffer delete the connection; a piece
\* of a line is moved from behind NULL
event_thread(cli) ==
  LET ends == {[cli EXCEPT !.events = "ended"]}
      read(i) ==
        LET conn == cli.conns[i]
        IN  IF i \in Leaving(cli) THEN {connection_delete(cli, i)}
            ELSE {[cli EXCEPT !.conns[i].answers = @ + 1],
                  Die(Odd(cli, "piece"), "moved from NULL")}
  IN  CASE cli.events = "ended" -> {}
        [] cli.exit_flag -> IF cli.sigusr2 \/ cli.conns # <<>> THEN ends ELSE {}
        [] OTHER -> {Odd([cli EXCEPT !.events = "ended", !.poll = "closed"], "wait failed")}
                      \cup UNION {read(i) : i \in DOMAIN cli.conns}

\* external: a server closes its end
ServerCloses(cli) ==
  {Odd([cli EXCEPT !.conns[i].peer = "gone"], "closed") :
     i \in {i \in DOMAIN cli.conns : cli.conns[i].peer = "open"}}

ClientSteps(cli) ==
  IF cli.state # "running" THEN {}
  ELSE tcp_client_process(cli) \cup event_thread(cli) \cup ServerCloses(cli)

-----------------------------------------------------------------------------
(* A command reaches only the server that its text names, and only if its  *)
(* first word is as long as the keyword found last in the whole text: INIT *)
(* reaches none, and a server with a keyword in its name is reached by no  *)
(* command, for it cannot even be connected to.  No command but QUIT, or   *)
(* one without a keyword, makes the client leave; QUIT always does, with its*)
(* event thread ended.  It dies only after a command for a server it had   *)
(* no connection to, a piece of a line, a failed wait, or while a          *)
(* connection whose server closed or whose buffer is full is deleted.      *)
CommandsReachServers(cli) ==
  /\ \A k \in DOMAIN cli.wrote :
       LET w == cli.wrote[k]
       IN  /\ w.to = w.text.host /\ Within(w.to) = {}
           /\ w.text.verb \notin {"INIT", "CONNECT", "STATUS", "QUIT"}
  /\ cli.exit_flag => cli.text.verb \in {"QUIT", "HELLO"}
  /\ cli.main = "read" => cli.text.verb # "QUIT"
  /\ cli.main = "ended" => cli.events = "ended" /\ cli.exit_flag
  /\ cli.state \in {"no connection", "moved from NULL", "freed twice", "SIGPIPE"} => cli.odd # {}
  /\ cli.state = "no connection" => "reconnected" \in cli.odd
  /\ cli.state = "freed twice" => "wait failed" \in cli.odd
=============================================================================
