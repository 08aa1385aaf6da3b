----------------------------- MODULE Generator -----------------------------
(***************************************************************************)
(* The camera without a camera (libcapture/src/cvgenerator.cpp): a program *)
(* that sends prepared images to whoever connects, with a detached thread  *)
(* for each connection.  The threads share one count of images, and get    *)
(* their connection through one field that the next connection overwrites. *)
(***************************************************************************)
EXTENDS Integers, Sequences, FiniteSets

CONSTANTS
  PictureCnt,   \* DATA_CNT
  PeerCnt,      \* bound: connections made
  TakeCnt       \* bound: images taken

Threads == 1..PeerCnt
Fds == 1..PeerCnt

\* test_data_create: a file that cannot be read is copied from NULL, one of
\* another size from or to behind its end
test_data_create(files) ==
  IF \E i \in DOMAIN files : files[i] = "missing" THEN {"crashed"}
  ELSE IF \E i \in DOMAIN files : files[i] = "small" THEN {"crashed", "serving"}
  ELSE {"serving"}

\* table: the peer behind each open descriptor; got: the images of each peer,
\* -1 being what lies before them; taken: all images in the order they were
\* taken; quick: a connection came before the last one's thread had its fd;
\* raced: two threads took an image at once; a thread that is "unnamed" was never
\* created, as its peer's name was not found
NewGenerator(files) ==
  {[state |-> state, curr |-> -1, fd |-> 0, table |-> [f \in Fds |-> 0], made |-> 0,
    gone |-> {}, reset |-> {}, got |-> [p \in 1..PeerCnt |-> <<>>],
    thread |-> [t \in Threads |-> [pc |-> "none", fd |-> 0, curr |-> 0, peer |-> 0]],
    taken |-> <<>>, quick |-> FALSE, raced |-> FALSE] : state \in test_data_create(files)}

\* next_image: the post-increment reads and writes; the remainder of -1 is -1
Picture(curr) == IF curr = -1 THEN -1 ELSE curr % PictureCnt

next_image(g, t) ==
  CASE g.thread[t].pc = "take" /\ Len(g.taken) < TakeCnt ->
         {[g EXCEPT !.thread[t].pc = "count", !.thread[t].curr = g.curr,
                    !.taken = Append(@, Picture(g.curr)),
                    !.raced = @ \/ \E u \in Threads : g.thread[u].pc = "count"]}
    [] g.thread[t].pc = "count" ->
         {[g EXCEPT !.thread[t].pc = "write", !.curr = g.thread[t].curr + 1]}
    [] OTHER -> {}

\* generate_data_thread: the size in front of the images is any number, so
\* what is sent first may be refused or be rubbish; the second write to
\* a peer that has gone is a SIGPIPE
generate_data_thread(g, t) ==
  LET me   == g.thread[t]
      peer == IF me.fd \in Fds THEN g.table[me.fd] ELSE 0
      stop == [g EXCEPT !.thread[t].pc = "close"]
      next == [g EXCEPT !.thread[t].pc = "take"]
  IN  CASE me.pc = "start" -> {[next EXCEPT !.thread[t].fd = g.fd]}
        [] me.pc = "write" ->
             (IF me.curr = -1 THEN {stop, [stop EXCEPT !.state = "crashed"]} ELSE {})
             \cup (IF peer = 0 THEN {stop} ELSE
                   CASE peer \in g.reset -> {[g EXCEPT !.state = "SIGPIPE"]}
                     [] peer \in g.gone \ g.reset -> {[next EXCEPT !.reset = @ \cup {peer}]}
                     [] OTHER -> {[next EXCEPT !.got[peer] = Append(@, Picture(me.curr))]})
        [] me.pc = "close" -> {[g EXCEPT !.thread[t].pc = "ended",
                                  !.table = IF me.fd \in Fds THEN [@ EXCEPT ![me.fd] = 0] ELSE @]}
        [] OTHER -> next_image(g, t)

\* generator_init's loop: accept returns the lowest descriptor that is free;
\* any error of it but an interruption ends the program; a connection whose peer
\* getnameinfo cannot name stays open without a thread
generator_init(g) ==
  LET free == {f \in Fds : g.table[f] = 0}
      fd   == CHOOSE f \in free : \A e \in free : f <= e
      peer == g.made + 1
      open == [g EXCEPT !.made = peer, !.table[fd] = peer]
  IN  {[g EXCEPT !.state = "ended"]}
      \cup (IF g.made = PeerCnt THEN {}
            ELSE {[open EXCEPT !.thread[peer] = [@ EXCEPT !.pc = "unnamed", !.peer = peer]],
                  [open EXCEPT !.fd = fd,
                               !.thread[peer] = [@ EXCEPT !.pc = "start", !.peer = peer],
                               !.quick = @ \/ \E t \in Threads : open.thread[t].pc = "start"]})

\* external: a peer goes
PeerGoes(g) == {[g EXCEPT !.gone = @ \cup {p}] : p \in (1..g.made) \ g.gone}

GeneratorSteps(g) ==
  IF g.state # "serving" THEN {}
  ELSE generator_init(g) \cup PeerGoes(g) \cup UNION {generate_data_thread(g, t) : t \in Threads}

Taking(g, t) == g.thread[t].pc \in {"take", "count", "write", "close"}

(* Unless two connections come so close that the second one takes the      *)
(* first one's place, every thread serves the connection it was made for   *)
(* and nobody waits without a thread but a peer that could not be named:   *)
(* its connection stays open.  Unless two threads take an image at once,   *)
(* the images are taken one after another, over and over, and only the     *)
(* very first one is none.                                                 *)
PeersGetImages(g) ==
  /\ ~g.quick =>
       /\ \A t \in {t \in Threads : Taking(g, t)} : g.table[g.thread[t].fd] = g.thread[t].peer
       /\ \A f \in {f \in Fds : g.table[f] # 0} :
            g.thread[g.table[f]].pc \in {"start", "unnamed"} \/ Taking(g, g.table[f])
  /\ ~g.raced =>
       \A i \in DOMAIN g.taken : g.taken[i] = IF i = 1 THEN -1 ELSE (i - 2) % PictureCnt
  /\ \A p \in DOMAIN g.got : \A i \in 2..Len(g.got[p]) : ~g.quick => g.got[p][i] # -1
  /\ g.state = "SIGPIPE" => g.gone # {}
=============================================================================
