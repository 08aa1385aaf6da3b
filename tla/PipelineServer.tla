--------------------------- MODULE PipelineServer ---------------------------
(***************************************************************************)
(* The life of pipeline_thread (pipeline_server.c): it starts the modules  *)
(* one after another in the order of the list, turns them LIVE, joins and  *)
(* destroys them in the same order; and the top of the modules' threads,   *)
(* where process_start may fail.  From there on the threads and clients    *)
(* are those of Pipeline.  Nobody but a failed start raises the exit flag. *)
(***************************************************************************)
EXTENDS Pipeline

CONSTANTS
  Lists,          \* the orders the modules may have in pl->modules_list
  EarlierSlots    \* what process_cnt may be when the pipeline is started

InOrderOf(list) == Len(list) = LastStage + 1 /\ \A i \in Stages : \E k \in DOMAIN list : list[k] = i

ASSUME ListsAssumption == \A list \in Lists : list \in Seq(Stages) /\ InOrderOf(list)
ASSUME SlotsAssumption == EarlierSlots \subseteq Nat

ProcCnt == LastStage + 2    \* modules_cnt + 1 slots in the process table

\* module->idx when it is no slot: no thread yet or a failed one, a module
\* just initialised, a module destroyed
NotStarted == -1
Initialised == -200
Destroyed == -250

VARIABLES
  list,          \* pl->modules_list, by chain position
  spc,           \* where pipeline_thread is
  pos,           \* the list element it is at
  realStarted,   \* its real_started
  startControl,  \* sem start_control
  idx,           \* module->idx
  processCnt     \* process_mngr's process_cnt

serverVars == <<list, spc, pos, realStarted, startControl, idx, processCnt>>
startVars  == <<vars, serverVars>>
flow       == <<off, dataoffset, free, semJob, semResult, procCmd, procOff, cmdResult, visited>>

Current == list[pos]
After(here, there) == IF pos = LastStage + 1 THEN there ELSE here

-----------------------------------------------------------------------------
(* pipeline_init has added zeroed modules, pipeline_thread has set up the  *)
(* process table and the ring of chunks.                                   *)

StartInit ==
  /\ list \in Lists
  /\ spc = "start" /\ pos = 1 /\ realStarted = 0 /\ startControl = 0
  /\ idx = [i \in Stages |-> NotStarted]
  /\ processCnt \in EarlierSlots
  /\ exitFlag = FALSE /\ plState = "UNKNOWN"
  /\ state = [i \in Stages |-> "INIT"]     \* MD_STATE_INIT is 0
  /\ pc  = [i \in Stages |-> "none"]
  /\ off = [i \in Stages |-> 0]
  /\ newCmd = [i \in Stages |-> 0]
  /\ result = [i \in Stages |-> 0]
  /\ cmd    = [i \in Stages |-> "STOP"]    \* PROCESS_CMD_STOP is 0
  /\ dataoffset = [i \in Stages |-> 0]
  /\ semJob    = [i \in Workers |-> 0]
  /\ semResult = [i \in Workers |-> 0]
  /\ procCmd   = [i \in Workers |-> "STOP"]
  /\ procOff   = [i \in Workers |-> 0]
  /\ cmdResult = [i \in Workers |-> StatusOk]
  /\ cpc       = [i \in Workers |-> "none"]
  /\ DataInit

-----------------------------------------------------------------------------
(* pipeline_thread, starting.                                              *)

ServerGoto(from, to) == spc = from /\ spc' = to

\* variant: the semaphore result is not given its first turn
StartModuleWithoutTurn ==
  /\ ServerGoto("start", "await")
  /\ idx'    = [idx EXCEPT ![Current] = Initialised]
  /\ state'  = [state EXCEPT ![Current] = "UNKNOWN"]
  /\ cmd'    = [cmd EXCEPT ![Current] = "JOB"]
  /\ pc'     = [pc EXCEPT ![Current] = "launch"]
  /\ UNCHANGED <<list, pos, realStarted, startControl, processCnt, exitFlag, plState,
                 newCmd, result, flow, cpc>>

\* pipeline_module_init and pthread_create
StartModule ==
  /\ ServerGoto("start", "await")
  /\ idx'    = [idx EXCEPT ![Current] = Initialised]
  /\ state'  = [state EXCEPT ![Current] = "UNKNOWN"]
  /\ newCmd' = [newCmd EXCEPT ![Current] = 0]
  /\ result' = [result EXCEPT ![Current] = 1]
  /\ cmd'    = [cmd EXCEPT ![Current] = "JOB"]
  /\ pc'     = [pc EXCEPT ![Current] = "launch"]
  /\ UNCHANGED <<list, pos, realStarted, startControl, processCnt, exitFlag, plState,
                 flow, cpc>>

AwaitStarted ==
  /\ ServerGoto("await", After("start", "settle"))
  /\ idx[Current] # NotStarted
  /\ startControl > 0 /\ startControl' = startControl - 1
  /\ SetState(Current, "INIT")
  /\ realStarted' = realStarted + 1
  /\ pos' = pos + 1
  /\ UNCHANGED <<list, idx, processCnt, exitFlag, plState, pc, newCmd, result, cmd, flow, cpc>>

AwaitFailed ==
  /\ ServerGoto("await", "joinFailed")
  /\ idx[Current] = NotStarted
  /\ startControl > 0 /\ startControl' = startControl - 1
  /\ UNCHANGED <<list, pos, realStarted, idx, processCnt, vars>>

\* no more modules are started
JoinFailed ==
  /\ ServerGoto("joinFailed", "settle")
  /\ pc[Current] \in {"failed", "done"}
  /\ SetState(Current, "ERROR")
  /\ plState' = "ERROR"
  /\ UNCHANGED <<list, pos, realStarted, startControl, idx, processCnt, exitFlag, pc,
                 newCmd, result, cmd, flow, cpc>>

\* two modules are enough, whatever failed
Settle ==
  /\ ServerGoto("settle", "live")
  /\ plState' = IF realStarted >= 2 THEN "INIT" ELSE "ERROR"
  /\ UNCHANGED <<list, pos, realStarted, startControl, idx, processCnt, exitFlag, state,
                 pc, newCmd, result, cmd, flow, cpc>>

TurnLive ==
  /\ ServerGoto("live", "join")
  /\ pos' = 1
  /\ \/ GoLive
     \/ plState # "INIT" /\ UNCHANGED vars
  /\ UNCHANGED <<list, realStarted, startControl, idx, processCnt>>

-----------------------------------------------------------------------------
(* pipeline_thread, ending; and pipeline_destroy.                          *)

\* variant: the module is destroyed without waiting for its thread
DestroyAtOnce ==
  /\ ServerGoto("join", After("join", "free"))
  /\ idx'   = [idx EXCEPT ![Current] = Destroyed]
  /\ state' = [state EXCEPT ![Current] = "UNKNOWN"]
  /\ pos' = pos + 1
  /\ UNCHANGED <<list, realStarted, startControl, processCnt, exitFlag, plState, pc,
                 newCmd, result, cmd, flow, cpc>>

\* a thread with idx -1 has been joined, or was never created
JoinModule ==
  /\ ServerGoto("join", After("join", "free"))
  /\ idx[Current] # NotStarted => pc[Current] = "done"
  /\ idx'   = [idx EXCEPT ![Current] = Destroyed]
  /\ state' = [state EXCEPT ![Current] = "UNKNOWN"]
  /\ pos' = pos + 1
  /\ UNCHANGED <<list, realStarted, startControl, processCnt, exitFlag, plState, pc,
                 newCmd, result, cmd, flow, cpc>>

\* ring_buffer_destroy, and process_subsystem_destroy clears the table
FreeTable ==
  /\ ServerGoto("free", "done")
  /\ semJob'    = [i \in Workers |-> 0]
  /\ semResult' = [i \in Workers |-> 0]
  /\ procCmd'   = [i \in Workers |-> "STOP"]
  /\ procOff'   = [i \in Workers |-> 0]
  /\ cmdResult' = [i \in Workers |-> StatusOk]
  /\ UNCHANGED <<list, pos, realStarted, startControl, idx, processCnt, exitFlag, plState,
                 state, pc, mailbox, off, free, visited, cpc>>

\* pipeline_destroy, once it has joined pipeline_thread
DestroyPipeline ==
  /\ ServerGoto("done", "deleted")
  /\ state' = [i \in Stages |-> IF state[i] = "ERROR" THEN "ERROR" ELSE "UNKNOWN"]
  /\ plState' = "UNKNOWN"
  /\ exitFlag' = TRUE
  /\ UNCHANGED <<list, pos, realStarted, startControl, idx, processCnt, pc, newCmd, result,
                 cmd, flow, cpc>>

-----------------------------------------------------------------------------
(* The top of source_thread, process_thread and finalization_thread.       *)

LoopTop(i) == IF i = 0 THEN "test" ELSE "recv"

Launched(i, to) == pc[i] = "launch" /\ pc' = [pc EXCEPT ![i] = to] /\ startControl' = startControl + 1

\* process_start finds a slot and the client runs
LaunchProcess(i) ==
  /\ Launched(i, LoopTop(i))
  /\ processCnt < ProcCnt /\ processCnt' = processCnt + 1
  /\ idx' = [idx EXCEPT ![i] = processCnt]
  /\ cpc' = [cpc EXCEPT ![i] = "wait"]
  /\ UNCHANGED <<list, spc, pos, realStarted, exitFlag, plState, state, newCmd, result, cmd,
                 flow>>

\* variant: pipeline_thread is not told of the failure
LaunchFailsSilently(i) ==
  /\ pc[i] = "launch" /\ pc' = [pc EXCEPT ![i] = "failed"]
  /\ \/ processCnt >= ProcCnt /\ UNCHANGED processCnt
     \/ processCnt < ProcCnt /\ processCnt' = processCnt + 1
  /\ idx' = [idx EXCEPT ![i] = NotStarted]
  /\ exitFlag' = TRUE
  /\ UNCHANGED <<list, spc, pos, realStarted, startControl, plState, state, newCmd, result,
                 cmd, flow, cpc>>

\* no slot is left; or one is taken, but the program is missing or fork fails
LaunchFails(i) ==
  /\ Launched(i, "failed")
  /\ \/ processCnt >= ProcCnt /\ UNCHANGED processCnt
     \/ processCnt < ProcCnt /\ processCnt' = processCnt + 1
  /\ idx' = [idx EXCEPT ![i] = NotStarted]
  /\ exitFlag' = TRUE
  /\ UNCHANGED <<list, spc, pos, realStarted, plState, state, newCmd, result, cmd, flow, cpc>>

\* the finalization runs whether or not process_start gave it a slot
LaunchFinalization ==
  /\ Launched(LastStage, "recv")
  /\ \/ /\ processCnt < ProcCnt /\ processCnt' = processCnt + 1
        /\ idx' = [idx EXCEPT ![LastStage] = processCnt]
     \/ /\ processCnt >= ProcCnt /\ UNCHANGED processCnt
        /\ idx' = [idx EXCEPT ![LastStage] = NotStarted]
  /\ UNCHANGED <<list, spc, pos, realStarted, exitFlag, plState, state, newCmd, result, cmd,
                 flow, cpc>>

-----------------------------------------------------------------------------

Start == StartModule \/ AwaitStarted \/ AwaitFailed \/ JoinFailed \/ Settle \/ TurnLive
End   == JoinModule \/ FreeTable

Launch(i) ==
  \/ i \in Workers /\ (LaunchProcess(i) \/ LaunchFails(i))
  \/ i = LastStage /\ LaunchFinalization

StartNext ==
  \/ Start \/ End \/ DestroyPipeline
  \/ \E i \in Stages : Launch(i) \/ (Thread(i) /\ UNCHANGED serverVars)
  \/ \E i \in Workers : Client(i) /\ UNCHANGED serverVars

StartSpec == StartInit /\ [][StartNext]_startVars

\* every thread and client is run; nobody has to destroy the pipeline
FairStartSpec ==
  /\ StartSpec
  /\ WF_startVars(Start \/ End)
  /\ \A i \in Stages  : WF_startVars(Launch(i) \/ (Thread(i) /\ UNCHANGED serverVars))
  /\ \A i \in Workers : WF_startVars(Client(i) /\ UNCHANGED serverVars)

-----------------------------------------------------------------------------

Ended(i) == pc[i] \in {"none", "failed", "done"}

(* A module is destroyed, in whatever order modules are listed, only when  *)
(* its thread has ended and the thread before it has sent its STOP, so     *)
(* that nobody uses its semaphores any more; and the ring and the process  *)
(* table only when all threads and clients have ended.                     *)
DestroyedUnused ==
  /\ \A i \in Stages : idx[i] = Destroyed =>
       /\ Ended(i)
       /\ i # 0 => Ended(i - 1) \/ StopSent(i - 1)
  /\ spc \in {"done", "deleted"} =>
       \A i \in Workers : Ended(i) /\ Ended(i + 1) /\ cpc[i] \in {"none", "gone"}

(* What a pipeline that is being started shows of Pipeline: modules not    *)
(* started yet, and those that failed, are threads that have not moved.    *)
Prepared(i) == pc[i] # "none"
StateShown(i) ==
  IF plState # "LIVE" THEN "INIT" ELSE
  CASE state[i] = "ERROR" -> "LIVE" [] state[i] = "UNKNOWN" -> "INIT" [] OTHER -> state[i]

Threads == INSTANCE Pipeline WITH
  plState <- IF plState = "LIVE" THEN "LIVE" ELSE "INIT",
  state   <- [i \in Stages |-> StateShown(i)],
  pc      <- [i \in Stages |-> IF pc[i] \in ThreadPlaces THEN pc[i] ELSE LoopTop(i)],
  result  <- [i \in Stages |-> IF Prepared(i) THEN result[i] ELSE 1],
  cmd     <- [i \in Stages |-> IF Prepared(i) THEN cmd[i] ELSE "JOB"],
  cpc     <- [i \in Workers |-> IF cpc[i] = "none" THEN "wait" ELSE cpc[i]]

(* The modules of a pipeline move like those of Pipeline while others are  *)
(* being started, after one failed, and while they are joined, up to the   *)
(* steps that destroy a module, the table or the pipeline.  What is proved *)
(* of Pipeline holds for every start, in every order of the list.          *)
StartsPipeline ==
  Threads!Init /\ [][JoinModule \/ FreeTable \/ DestroyPipeline
                     \/ [Threads!Next]_(Threads!vars)]_startVars

InChainOrder == \A k \in DOMAIN list : list[k] = k - 1

(* A start that fails at its first or second module comes to its end, when *)
(* modules are listed in chain order: the failed thread's exit flag stops  *)
(* the source, and everything that was started is joined.                  *)
FailedStartEnds == (InChainOrder /\ exitFlag /\ realStarted < 2) ~> spc \in {"done", "deleted"}
=============================================================================
