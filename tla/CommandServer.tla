---------------------------- MODULE CommandServer ---------------------------
(***************************************************************************)
(* tmk-server: main's thread serves the tcp connections and puts each line *)
(* it receives into the command ring; the command thread takes the         *)
(* commands out, starts a pipeline on CONFIG and destroys it on STOP       *)
(* (dclcomponents/server.c, dclprocessor/tcp/src/command_server.c and the  *)
(* loop of tcp_process.c).  A pipeline is here what its thread does for    *)
(* the command server: pipeline_thread ends by itself when modules failed  *)
(* to start, and otherwise runs until pl->exit_flag is raised, which       *)
(* pipeline_destroy does only after it has joined the thread.              *)
(***************************************************************************)
EXTENDS RingBuffer, Sequences

CONSTANTS
  Kinds,         \* the kinds of lines clients send
  MaxLines,      \* bound: lines received in the server's life
  JoinOutcomes   \* what pthread_join does for a thread never created

AllKinds == {"stop", "quit", "config", "other"}

\* joining such a thread is undefined: it comes back with an error or faults
ASSUME KindsAssumption == Kinds \subseteq AllKinds
ASSUME LinesAssumption == MaxLines \in Nat
ASSUME JoinAssumption  == JoinOutcomes \subseteq {"returns", "faults"}

\* commands are numbered as they are put; main itself puts the last one
Commands == 1..MaxLines + 1
NULL == 0
ASSUME EntriesAssumption == Entries = Commands \cup {NULL}

VARIABLES
  ready,      \* sem command_ready
  exitFlag,   \* main's exit_flag, which cmdsrv->exit_flag points to
  tcpExit,    \* the exit_flag of _tcp_server_process, a local of its own
  mpc,        \* where main's thread is; "faulted" ends the whole process
  caller,     \* who called push_new_command: the tcp loop, or destroy
  cpc,        \* where the command thread is
  kind,       \* the commands put so far, by number
  current,    \* command_thread's cmd
  executed,   \* the commands executed, in order
  pl,         \* the static pl: none, or what its pipeline_thread does
  running     \* pipeline_threads that run and will not end by themselves

pipeline == <<pl, running>>
command  == <<cpc, current, executed>>
main     == <<mpc, caller, tcpExit, kind>>
vars     == <<ringVars, ready, exitFlag, pipeline, command, main>>

\* command_server_init: the ring is created as if it were full, of NULLs
Init ==
  /\ CreateFull([s \in Slots |-> NULL])
  /\ ready = 0 /\ exitFlag = FALSE
  /\ pl = "none" /\ running = 0
  /\ cpc = "test" /\ current = NULL /\ executed = <<>>
  /\ mpc = "serve" /\ caller = "loop" /\ tcpExit = FALSE /\ kind = <<>>

-----------------------------------------------------------------------------
(* main's thread: the tcp loop, then command_server_destroy.               *)

MainGoto(from, to) == mpc = from /\ mpc' = to

\* a line arrives: putCommand raises the loop's own flag and makes a command
ReceiveLine ==
  /\ MainGoto("serve", "push")
  /\ Len(kind) < MaxLines
  /\ \E k \in Kinds :
       /\ kind' = Append(kind, k)
       /\ tcpExit' = (k \in {"stop", "quit"})
  /\ UNCHANGED <<ringVars, ready, exitFlag, pipeline, command, caller>>

\* a push behind the last slot writes to memory of others
PushCommand ==
  /\ \/ MainGoto("push", "post")
     \/ PushPos \notin Slots /\ MainGoto("push", "faulted")
  /\ PushLocked(Len(kind))
  /\ UNCHANGED <<ready, exitFlag, pipeline, command, caller, tcpExit, kind>>

PostRing ==
  /\ MainGoto("post", "ready")
  /\ PushPost
  /\ UNCHANGED <<ready, exitFlag, pipeline, command, caller, tcpExit, kind>>

PostReady ==
  /\ MainGoto("ready", IF caller = "destroy" THEN "join"
                       ELSE IF tcpExit THEN "leave" ELSE "serve")
  /\ ready' = ready + 1
  /\ UNCHANGED <<ringVars, exitFlag, pipeline, command, caller, tcpExit, kind>>

\* server_destroy joins srv->listen_thread_id, which this server never made
LeaveLoop ==
  /\ \/ "returns" \in JoinOutcomes /\ MainGoto("leave", "destroy")
     \/ "faults" \in JoinOutcomes /\ MainGoto("leave", "faulted")
  /\ UNCHANGED <<ringVars, ready, exitFlag, pipeline, command, caller, tcpExit, kind>>

\* variant: no command is put for a thread that waits for one
RaiseExitOnly ==
  /\ MainGoto("destroy", "join")
  /\ exitFlag' = TRUE
  /\ UNCHANGED <<ringVars, ready, pipeline, command, caller, tcpExit, kind>>

\* command_server_destroy raises the flag before it puts its STOP
RaiseExit ==
  /\ MainGoto("destroy", "push")
  /\ exitFlag' = TRUE
  /\ caller' = "destroy"
  /\ kind' = Append(kind, "stop")
  /\ UNCHANGED <<ringVars, ready, pipeline, command, tcpExit>>

\* main returns: the process ends with all its threads
JoinCommandThread ==
  /\ MainGoto("join", "done")
  /\ cpc = "done"
  /\ UNCHANGED <<ringVars, ready, exitFlag, pipeline, command, caller, tcpExit, kind>>

-----------------------------------------------------------------------------
(* command_thread.                                                         *)

Alive == mpc \notin {"faulted", "done"}

CommandGoto(from, to) == Alive /\ cpc = from /\ cpc' = to

TestExit ==
  /\ CommandGoto("test", IF exitFlag THEN "done" ELSE "ready")
  /\ UNCHANGED <<ringVars, ready, exitFlag, pipeline, main, current, executed>>

\* variant: only the ring's own semaphore is waited for
AwaitNothing ==
  /\ CommandGoto("ready", "ring")
  /\ UNCHANGED <<ringVars, ready, exitFlag, pipeline, main, current, executed>>

AwaitReady ==
  /\ CommandGoto("ready", "ring")
  /\ ready > 0 /\ ready' = ready - 1
  /\ UNCHANGED <<ringVars, exitFlag, pipeline, main, current, executed>>

AwaitRing ==
  /\ CommandGoto("ring", "locked")
  /\ PopWait
  /\ UNCHANGED <<ready, exitFlag, pipeline, main, current, executed>>

\* a NULL is no command: sleep and try again
TakeCommand ==
  \E entry \in Entries :
    /\ CommandGoto("locked", IF entry = NULL THEN "test" ELSE "execute")
    /\ PopLocked(entry)
    /\ current' = entry
    /\ UNCHANGED <<ready, exitFlag, pipeline, main, executed>>

\* a command popped again has been freed: its text may be anything
Fresh == \A n \in DOMAIN executed : executed[n] # current
TextOf == IF Fresh THEN {kind[current]} ELSE AllKinds

Execute(to) ==
  /\ CommandGoto("execute", to)
  /\ executed' = Append(executed, current)
  /\ UNCHANGED <<ringVars, ready, main, current>>

\* "quit" and every other text is an unknown command to executeAPICommand
ExecuteOther ==
  /\ Execute("test")
  /\ TextOf \cap {"quit", "other"} # {}
  /\ UNCHANGED <<exitFlag, pipeline>>

ExecuteStop ==
  /\ Execute(IF pl = "none" THEN "test" ELSE "destroyPipeline")
  /\ "stop" \in TextOf
  /\ exitFlag' = TRUE
  /\ UNCHANGED pipeline

\* pipeline_init of a description: it cannot be read, the shared memory
\* cannot be had, modules fail to start, or the pipeline runs; one that ran
\* before is not stopped
ExecuteConfig ==
  /\ Execute("test")
  /\ "config" \in TextOf
  /\ \/ UNCHANGED pipeline
     \/ pl' = "none" /\ UNCHANGED running
     \/ pl' = "failed" /\ UNCHANGED running
     \/ pl' = "runs" /\ running' = running + 1
  /\ UNCHANGED exitFlag

\* two modules without a next one: pipeline_init destroys what it made, and
\* joins the thread of an earlier pipeline, or one it never created
ConfigWrongModules ==
  /\ Execute("destroyPipeline")
  /\ "config" \in TextOf
  /\ pl = "none" => "returns" \in JoinOutcomes
  /\ UNCHANGED <<exitFlag, pipeline>>

ConfigFaults ==
  /\ Alive /\ cpc = "execute"
  /\ "config" \in TextOf /\ pl = "none" /\ "faults" \in JoinOutcomes
  /\ mpc' = "faulted"
  /\ UNCHANGED <<ringVars, ready, exitFlag, pipeline, command, caller, tcpExit, kind>>

\* freeing a command a second time is found out by the allocator, or not
FreeFaults ==
  /\ Alive /\ cpc = "execute" /\ ~Fresh
  /\ mpc' = "faulted"
  /\ UNCHANGED <<ringVars, ready, exitFlag, pipeline, command, caller, tcpExit, kind>>

\* pipeline_destroy comes back from its join when the thread ends
DestroyPipeline ==
  /\ CommandGoto("destroyPipeline", "test")
  /\ pl # "runs"
  /\ pl' = "none"
  /\ UNCHANGED <<ringVars, ready, exitFlag, running, main, current, executed>>

-----------------------------------------------------------------------------

ServeLoop == PushCommand \/ PostRing \/ PostReady
Shutdown  == LeaveLoop \/ RaiseExit \/ JoinCommandThread
Pop       == TestExit \/ AwaitReady \/ AwaitRing \/ TakeCommand
Config    == ExecuteConfig \/ ConfigWrongModules \/ ConfigFaults

CommandThread ==
  Pop \/ ExecuteOther \/ ExecuteStop \/ Config \/ FreeFaults \/ DestroyPipeline

Next == ReceiveLine \/ ServeLoop \/ Shutdown \/ CommandThread

Spec == Init /\ [][Next]_vars

\* both threads are run; nobody has to send a line
FairSpec == Spec /\ WF_vars(ServeLoop \/ Shutdown) /\ WF_vars(CommandThread)

-----------------------------------------------------------------------------

(* As many commands as the ring has slots are executed in the order they   *)
(* were put, each once, although the ring says it was full from the start. *)
FirstCommandsInOrder ==
  \A n \in DOMAIN executed : n <= MaxCnt => executed[n] = n

(* None of the NULLs the ring was created with is ever taken for an entry: *)
(* command_ready holds the command thread back (command_server.c:99).      *)
NoNullCommand == [][cpc = "locked" /\ cpc' # "locked" => current' # NULL]_vars

(* A server that was never told to start a pipeline, and was given fewer   *)
(* commands than the ring has slots, returns from main after a stop or a   *)
(* quit - or faults there, in the join of a thread it never had            *)
(* (server.c:74), but it does not hang.                                    *)
Quiet == (\A n \in DOMAIN kind : kind[n] # "config") /\ Len(kind) < MaxCnt
QuietServerReturns == tcpExit ~> (mpc \in {"done", "faulted"} \/ ~Quiet)

\* the commands in the ring, beside the entries it was created with
Waiting == used - MaxCnt

(* "no overflow check, should not happen" (ring_buffer.c:54): as long as   *)
(* fewer commands wait than the ring has slots, the next one gets a slot.  *)
PushStaysInRing == mpc = "push" /\ Waiting < MaxCnt => PushPos \in Slots

(* "After some waitting the system should be stopped without any errors."  *)
(* (README.md:73): after a stop or quit the server ends, by whatever end.  *)
StopEndsServer == tcpExit ~> mpc \in {"done", "faulted"}
=============================================================================
