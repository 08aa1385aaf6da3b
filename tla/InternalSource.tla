--------------------------- MODULE InternalSource ---------------------------
(***************************************************************************)
(* A pipeline whose first module is internal: initial_thread (pipeline.c)  *)
(* takes the place of source_thread and has a slot of the process table    *)
(* but no client.  Of the other modules the next one is modelled by its    *)
(* mailbox, as in Pipeline, and the rest of the chain by the chunks it     *)
(* holds; of pipeline_thread its start of the modules in list order.       *)
(***************************************************************************)
EXTENDS Integers, Sequences, FiniteSets

CONSTANTS
  ChunkCnt,     \* data_cnt
  SourceSlots   \* what process_cnt may be when the pipeline is started

\* chain order: the source, a process, the finalization; and the table's slots
Chain  == 0..2
Orders == {l \in [1..3 -> Chain] : \A i \in Chain : \E k \in 1..3 : l[k] = i}
Slots  == Cardinality(Chain) + 1

NoIdx == -1
Initialised == -200

\* slots: process_cnt, before: what it was at first; idx: of the next module;
\* joins: pipeline_thread waits for the source's end; behind: chunks of the
\* modules after the next one
NewChain(list, slots) ==
  [list |-> list, pos |-> 1, started |-> 0, slots |-> slots, before |-> slots,
   joins |-> FALSE, live |-> FALSE, exit |-> FALSE,
   pc |-> "none", off |-> 0, free |-> [i \in 1..ChunkCnt |-> i],
   next |-> "none", idx |-> NoIdx, result |-> 0, newCmd |-> 0, cmd |-> "STOP", mail |-> 0, behind |-> {},
   semResult |-> 0]

-----------------------------------------------------------------------------
(* pipeline_thread: the source starts whether or not it got a slot, but    *)
(* without one pipeline_thread waits for its end; a process that cannot be *)
(* started raises the flag, and no more modules are started.               *)

StartSteps(s) ==
  LET module == s.list[s.pos]
      room == s.slots < Slots
      took == [s EXCEPT !.pos = @ + 1, !.started = @ + 1, !.slots = IF room THEN @ + 1 ELSE @]
      failed == [s EXCEPT !.next = "failed", !.idx = NoIdx, !.exit = TRUE, !.pos = 4]
  IN  IF s.pos = 4 THEN
        IF ~s.live /\ s.started >= 2 THEN {[s EXCEPT !.live = TRUE]} ELSE {}
      ELSE CASE module = 0 /\ s.pc = "none" ->
                  {IF room THEN [took EXCEPT !.pc = "test"]
                   ELSE [s EXCEPT !.pc = "test", !.joins = TRUE]}
             [] module = 0 /\ s.pc = "done" /\ s.joins -> {[s EXCEPT !.pos = 4, !.joins = FALSE]}
             [] module = 1 /\ s.next = "none" ->
                  {[s EXCEPT !.next = "launch", !.idx = Initialised, !.result = 1, !.cmd = "JOB"]}
             [] module = 1 /\ s.next = "launch" ->
                  {failed} \cup (IF room THEN {[took EXCEPT !.next = "recv", !.idx = s.slots]} ELSE {})
             [] module = 2 -> {IF room THEN took ELSE [s EXCEPT !.pos = 4]}
             [] OTHER -> {}

-----------------------------------------------------------------------------
(* The source.                                                             *)

\* what it has its own process_info told nobody reads; having stopped the next
\* module it looks at that module's slot, and waits for a process it has not
initial_thread(s) ==
  LET to(pc) == [s EXCEPT !.pc = pc]
      waits(pc) == IF s.result = 0 THEN {} ELSE {[to(pc) EXCEPT !.result = @ - 1]}
      put(pc, cmd) == {[to(pc) EXCEPT !.cmd = cmd, !.newCmd = @ + 1]}
  IN  CASE s.pc = "test" -> {to(IF s.exit THEN "stop" ELSE "state")}
        [] s.pc = "state" -> {to(IF s.live THEN "pop" ELSE "test")}
        [] s.pc = "pop" /\ s.free # <<>> ->
             {[to("next") EXCEPT !.off = Head(s.free), !.free = Tail(@)]}
        [] s.pc = "next" -> waits("put")
        [] s.pc = "put" -> {[t EXCEPT !.mail = s.off, !.off = 0] : t \in put("test", "JOB")}
        [] s.pc = "stop" -> waits("putStop")
        [] s.pc = "putStop" -> put("look", "STOP")
        [] s.pc = "look" -> {to(IF s.idx > 1 THEN "process" ELSE "done")}
        [] s.pc = "process" /\ s.semResult > 0 -> {to("done")}
        [] OTHER -> {}

-----------------------------------------------------------------------------
(* The next module and those after it, and whoever has the flag.           *)

NextModule(s) ==
  CASE s.next = "recv" /\ s.newCmd > 0 -> {[s EXCEPT !.next = "read", !.newCmd = @ - 1]}
    [] s.next = "read" ->
         {[s EXCEPT !.result = @ + 1, !.mail = 0,
                    !.next = IF s.cmd = "STOP" THEN "stopped" ELSE "recv",
                    !.behind = IF s.cmd = "STOP" THEN @ ELSE @ \cup {s.mail}]}
    [] OTHER -> {}

ReturnChunk(s) == {[s EXCEPT !.behind = @ \ {c}, !.free = Append(@, c)] : c \in s.behind}

RequestExit(s) == IF s.live THEN {[s EXCEPT !.exit = TRUE]} ELSE {}

ChainSteps(s) ==
  StartSteps(s) \cup initial_thread(s) \cup NextModule(s) \cup ReturnChunk(s) \cup RequestExit(s)

(* The source shares a mailbox without a lock, and every chunk is in one   *)
(* place, unless the next module has failed.  STOP is the last command it  *)
(* gives.  A source that has read the flag ends, unless its next module    *)
(* does not run or has taken neither of the table's first two slots: so    *)
(* the place of modules in the list, and the pipelines the server had      *)
(* before, decide whether a pipeline with an internal source can be        *)
(* stopped.                                                                *)
InternalSourceStops(s) ==
  /\ s.pc \in {"put", "putStop"} => s.newCmd = 0 /\ s.next # "read"
  /\ LET places == [c \in 1..ChunkCnt |->
                      Cardinality({i \in DOMAIN s.free : s.free[i] = c})
                        + Cardinality({p \in {"off", "mail"} : s[p] = c})
                        + Cardinality(s.behind \cap {c})]
     IN  \A c \in 1..ChunkCnt : places[c] = 1
  /\ s.next = "stopped" => s.exit /\ s.newCmd = 0 /\ s.pc \in {"look", "process", "done"}
  /\ s.pc \in {"test", "stop", "putStop", "look", "process"} /\ s.exit /\ ChainSteps(s) \subseteq {s} =>
       \/ s.next \in {"none", "launch", "failed"}
       \/ \E k \in 1..3 : s.list[k] = 1 /\ s.before + k > 2
=============================================================================
