---------------------------- MODULE SharedMemory ----------------------------
(***************************************************************************)
(* The segment that a pipeline's server shares with its clients, found by  *)
(* one name (dclprocessor/pipeline/src/shared_memory.c): pipeline_init and *)
(* pipeline_destroy of pipeline_server.c make and remove it, and           *)
(* pipeline_process_init of pipeline_client.c attaches to it.  A server    *)
(* may be configured again, killed and started again, and two of them may  *)
(* use the same name.  System calls may fail.                              *)
(***************************************************************************)
EXTENDS Integers, Sequences, FiniteSets

CONSTANTS
  SegmentCnt,  \* bound: segments made
  ChildCnt     \* bound: clients started

Servers == {"x", "y"}

\* name: the segment that has the name, 0 for none; segments: by: its server,
\* sized: ftruncate and the copy of the map are done, left: its server was
\* killed; seen: what befell the name since the segment was made
NewSegments ==
  [name |-> 0, segments |-> <<>>, children |-> <<>>,
   server |-> [x \in Servers |-> [pc |-> "idle", seg |-> 0, env |-> 0]]]

To(s, x, pc) == [s EXCEPT !.server[x].pc = pc]

Told(segments, what) == [i \in DOMAIN segments |-> [segments[i] EXCEPT !.seen = @ \cup {what}]]
Tell(s, what) == [s EXCEPT !.segments = Told(@, what)]

shm_unlink(s, who) == Tell([s EXCEPT !.name = 0], who)

\* shm_open of the server: only a name that nobody has
Create(s, x) ==
  LET seg == Len(s.segments) + 1
  IN  IF s.name # 0 THEN To(s, x, "idle")
      ELSE [To(Tell(s, "made"), x, "truncate") EXCEPT
              !.name = seg, !.server[x].seg = seg,
              !.segments = Append(@, [by |-> x, sized |-> FALSE, left |-> FALSE, seen |-> {}])]

\* shared_memory_server_init, after pipeline_init has unlinked the name; when it
\* fails the server has no pipeline, and may be asked for one again
shared_memory_server_init(s, x) ==
  LET seg == s.server[x].seg
  IN  CASE s.server[x].pc = "create" -> {Create(s, x)}
        [] s.server[x].pc = "truncate" ->
             {To(shm_unlink(s, "unlinked"), x, "idle"), To(s, x, "map")}
        [] s.server[x].pc = "map" ->
             {To(shm_unlink(s, "unlinked"), x, "idle"), [To(s, x, "up") EXCEPT !.segments[seg].sized = TRUE]}
        [] OTHER -> {}

\* shared_memory_setenv, for the clients started from now on; env: the segment
\* whose size is told
shared_memory_setenv(s, x) == [To(s, x, "serving") EXCEPT !.server[x].env = s.server[x].seg]

\* process_start: a client with the server's environment
Fork(s, x) ==
  [s EXCEPT !.children = Append(@, [for |-> s.server[x].seg, env |-> s.server[x].env, pc |-> "open", seg |-> 0])]

\* pipeline_init for the first time or again, the end of the pipeline, and the
\* end of the server, which leaves its segment and its clients behind
ServerSteps(s, x) ==
  LET server == s.server[x]
      init == IF Len(s.segments) < SegmentCnt THEN {To(shm_unlink(s, "unlinked"), x, "create")} ELSE {}
      killed == [NewSegments.server[x] EXCEPT !.pc = "idle"]
      mine(g) == g.by = x
      kill == [s EXCEPT !.server[x] = killed,
                        !.segments = [i \in DOMAIN @ |-> IF mine(@[i]) THEN [@[i] EXCEPT !.left = TRUE] ELSE @[i]]]
  IN  shared_memory_server_init(s, x)
        \cup (IF server.pc \in {"idle", "serving"} THEN init ELSE {})
        \cup (IF server.pc = "up" THEN {shared_memory_setenv(s, x)} ELSE {})
        \cup (IF server.pc = "serving" THEN {To(shm_unlink(s, "unlinked"), x, "idle")} ELSE {})
        \cup (IF server.pc = "serving" /\ Len(s.children) < ChildCnt THEN {Fork(s, x)} ELSE {})
        \cup (IF server.pc # "idle" THEN {kill} ELSE {})

\* shared_memory_client_init: a client that cannot map the segment takes the
\* name away, from whomever has it by now
shared_memory_client_init(s, c) ==
  LET to(t, pc) == [t EXCEPT !.children[c].pc = pc]
      child == s.children[c]
  IN  CASE child.pc = "open" ->
             {IF s.name = 0 THEN to(s, "missing")
              ELSE [to(s, "map") EXCEPT !.children[c].seg = s.name]}
        [] child.pc = "map" -> {to(s, "attached"), to(shm_unlink(s, "cut"), "unmapped")}
        [] OTHER -> {}

\* pipeline_process_init: a server always sets all that its clients ask for,
\* and a client without a segment exits
pipeline_process_init(s, c) == shared_memory_client_init(s, c)

SegmentSteps(s) ==
  (UNION {ServerSteps(s, x) : x \in Servers})
    \cup (UNION {pipeline_process_init(s, c) : c \in DOMAIN s.children})

(* A server works on a segment of its own that is whole and new, not on    *)
(* what one that was killed has left.  A client is on the segment it was   *)
(* started for, which is whole, and knows its size, unless another was     *)
(* made since; it misses the segment only if the name was taken away       *)
(* since.  The name stays behind only when a server is killed.             *)
SegmentsOwn(s) ==
  /\ \A x \in Servers :
       LET seg == s.server[x].seg
       IN  s.server[x].pc \in {"up", "serving"} =>
             s.segments[seg].by = x /\ s.segments[seg].sized /\ ~s.segments[seg].left
  /\ \A c \in DOMAIN s.children :
       LET child == s.children[c]
           seen  == s.segments[child.for].seen
       IN  /\ child.pc = "attached" =>
                \/ "made" \in seen
                \/ child.seg = child.for /\ child.env = child.seg /\ s.segments[child.seg].sized
           /\ child.pc = "missing" => seen \cap {"unlinked", "cut"} # {}
  /\ s.name # 0 =>
       \/ s.segments[s.name].left
       \/ LET x == s.segments[s.name].by
          IN  s.server[x].seg = s.name /\ s.server[x].pc \notin {"idle", "create"}
=============================================================================
