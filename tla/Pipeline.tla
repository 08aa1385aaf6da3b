------------------------------ MODULE Pipeline ------------------------------
(***************************************************************************)
(* The data path of a started pipeline: one server thread per module (the  *)
(* source, the process stages, the finalization), one client process for   *)
(* every module but the last, the mailbox each module receives commands    *)
(* through, the process_info slot each thread shares with its client, and  *)
(* the ring of free data chunks (dclprocessor/pipeline/src/pipeline.c and  *)
(* pipeline_client.c).                                                     *)
(*                                                                         *)
(* One action per semaphore operation or test of a shared flag.  The       *)
(* fields a thread writes just before a sem_post, or reads just after a    *)
(* sem_wait, are written and read in the same action: MailboxTurn and      *)
(* ClientTurn below state that nobody else can touch them there.           *)
(***************************************************************************)
EXTENDS Integers, Sequences

CONSTANTS
  LastStage,     \* chain position of the finalization module; 0 is the source
  DataCnt,       \* pl->data_cnt: number of data chunks in shared memory
  Statuses,      \* the values a client's pipeline_action may leave in *status
  ClientsCrash   \* whether a client process may die at any point

StatusOk   == 0
StatusDrop == 1    \* stands for every status other than 0 and -1
StatusStop == -1   \* "external stop pipeline client status"

ASSUME LastStageAssumption == LastStage \in Nat \ {0}
ASSUME DataCntAssumption   == DataCnt \in Nat \ {0}
ASSUME StatusesAssumption  == Statuses \subseteq {StatusOk, StatusDrop, StatusStop}
ASSUME CrashAssumption     == ClientsCrash \in BOOLEAN

Stages  == 0..LastStage        \* the threads
Workers == 0..LastStage - 1    \* those with a client process
Inner   == 1..LastStage        \* those with a mailbox somebody posts to
Offsets == 1..DataCnt          \* the data chunks, by position

VARIABLES
  exitFlag,    \* pl->exit_flag, which every module->exit_flag points to
  plState,     \* pl->state
  state,       \* module->state
  pc,          \* where each server thread is
  off,         \* each thread's local dataoffset
  newCmd,      \* sem module->new_cmd
  result,      \* sem module->result
  cmd,         \* module->cmd
  dataoffset,  \* module->dataoffset
  free,        \* the chunks in data_ring, next to pop first
  cpc,         \* where each client process is
  semJob,      \* sem proc_info->sem_job
  semResult,   \* sem proc_info->sem_result
  procCmd,     \* proc_info->cmd
  procOff,     \* proc_info->cmd_offs
  cmdResult,   \* proc_info->cmd_result
  visited      \* for each chunk, the stages whose action ran on its frame

mailbox == <<newCmd, result, cmd, dataoffset>>
slot    == <<semJob, semResult, procCmd, procOff, cmdResult>>
vars    == <<exitFlag, plState, state, pc, off, newCmd, result, cmd, dataoffset, free,
             cpc, semJob, semResult, procCmd, procOff, cmdResult, visited>>

-----------------------------------------------------------------------------
(* Semaphores, and the two places a thread puts a chunk it lets go of.     *)

Post(sem, i) == sem' = [sem EXCEPT ![i] = @ + 1]
Wait(sem, i) == sem[i] > 0 /\ sem' = [sem EXCEPT ![i] = @ - 1]

Goto(i, from, to) == pc[i] = from /\ pc' = [pc EXCEPT ![i] = to]

\* pipeline_module_set_state: ERROR is never left
SetState(i, s) ==
  state' = [state EXCEPT ![i] = IF @ = "ERROR" THEN @ ELSE s]

\* ring_buffer_push of thread i's chunk; RingBuffer has the ring's own steps
PushFree(i) == free' = Append(free, off[i])

-----------------------------------------------------------------------------
(* A pipeline whose modules all started: pipeline_module_init has been run *)
(* on each, every thread is at the top of its loop, every client waits.    *)

ModuleInit ==
  /\ newCmd     = [i \in Stages |-> 0]
  /\ result     = [i \in Stages |-> 1]
  /\ cmd        = [i \in Stages |-> "JOB"]
  /\ dataoffset = [i \in Stages |-> 0]
  /\ state      = [i \in Stages |-> "INIT"]

SlotInit ==
  /\ semJob    = [i \in Workers |-> 0]
  /\ semResult = [i \in Workers |-> 0]
  /\ procCmd   = [i \in Workers |-> "STOP"]   \* PROCESS_CMD_STOP is 0
  /\ procOff   = [i \in Workers |-> 0]
  /\ cmdResult = [i \in Workers |-> StatusOk]
  /\ cpc       = [i \in Workers |-> "wait"]

DataInit ==
  /\ free    = [k \in Offsets |-> k]
  /\ visited = [o \in Offsets |-> {}]

Init ==
  /\ exitFlag = FALSE
  /\ plState = "INIT"
  /\ pc  = [i \in Stages |-> IF i = 0 THEN "test" ELSE "recv"]
  /\ off = [i \in Stages |-> 0]
  /\ ModuleInit
  /\ SlotInit
  /\ DataInit

-----------------------------------------------------------------------------
(* source_thread: its loop up to the hand-over.                            *)

TestExit ==
  /\ Goto(0, "test", IF exitFlag THEN "stopGive" ELSE "checkLive")
  /\ UNCHANGED <<exitFlag, plState, state, off, mailbox, free, cpc, slot, visited>>

CheckLive ==
  /\ Goto(0, "checkLive", IF state[0] = "LIVE" THEN "pop" ELSE "test")
  /\ UNCHANGED <<exitFlag, plState, state, off, mailbox, free, cpc, slot, visited>>

PopFree ==
  /\ Goto(0, "pop", "job")
  /\ free # <<>>
  /\ off'  = [off EXCEPT ![0] = Head(free)]
  /\ free' = Tail(free)
  /\ UNCHANGED <<exitFlag, plState, state, mailbox, cpc, slot, visited>>

(* process_thread and finalization_thread: take the next command.          *)

\* variant: a stage that looks at the exit flag itself
ReceiveCommandOrExit(i) ==
  /\ \/ Goto(i, "recv", "read") /\ Wait(newCmd, i)
     \/ Goto(i, "recv", "stopGive") /\ exitFlag /\ i # LastStage /\ UNCHANGED newCmd
  /\ UNCHANGED <<exitFlag, plState, state, off, result, cmd, dataoffset, free, cpc,
                 slot, visited>>

ReceiveCommand(i) ==
  /\ Goto(i, "recv", "read")
  /\ Wait(newCmd, i)
  /\ UNCHANGED <<exitFlag, plState, state, off, result, cmd, dataoffset, free, cpc,
                 slot, visited>>

\* where a stage goes with the command it has read
AfterRead(i) ==
  IF cmd[i] = "STOP"
  THEN IF i = LastStage THEN "done" ELSE "stopGive"
  ELSE IF i = LastStage THEN "free" ELSE "job"

ReadCommand(i) ==
  /\ Goto(i, "read", AfterRead(i))
  /\ off' = [off EXCEPT ![i] = dataoffset[i]]
  /\ Post(result, i)
  /\ IF i = LastStage /\ cmd[i] = "STOP" THEN SetState(i, "INIT")
                                         ELSE UNCHANGED state
  /\ UNCHANGED <<exitFlag, plState, newCmd, cmd, dataoffset, free, cpc, slot, visited>>

(* Both threads that have a client: run the job there.                     *)

SubmitJob(i) ==
  /\ Goto(i, "job", "await")
  /\ procCmd' = [procCmd EXCEPT ![i] = "JOB"]
  /\ procOff' = [procOff EXCEPT ![i] = off[i]]
  /\ Post(semJob, i)
  /\ UNCHANGED <<exitFlag, plState, state, off, mailbox, free, cpc, semResult,
                 cmdResult, visited>>

\* variant: the thread does not wait for the client
AwaitNothing(i) ==
  /\ Goto(i, "await", IF i = 0 THEN "give" ELSE "judge")
  /\ UNCHANGED <<exitFlag, plState, state, off, mailbox, free, cpc, slot, visited>>

\* the source does not look at cmd_result
AwaitResult(i) ==
  /\ Goto(i, "await", IF i = 0 THEN "give" ELSE "judge")
  /\ Wait(semResult, i)
  /\ UNCHANGED <<exitFlag, plState, state, off, mailbox, free, cpc, semJob, procCmd,
                 procOff, cmdResult, visited>>

\* variant: the chunk of a dropped frame is not pushed back
DropWithoutPush(i) ==
  /\ Goto(i, "judge", "recv")
  /\ cmdResult[i] # StatusOk
  /\ UNCHANGED <<exitFlag, plState, state, off, mailbox, free, cpc, slot, visited>>

\* variant: without the continue the dropped frame is given on as well
DropAndGive(i) ==
  /\ Goto(i, "judge", "give")
  /\ cmdResult[i] # StatusOk
  /\ PushFree(i)
  /\ UNCHANGED <<exitFlag, plState, state, off, mailbox, cpc, slot, visited>>

DropFrame(i) ==
  /\ Goto(i, "judge", "recv")
  /\ cmdResult[i] # StatusOk
  /\ PushFree(i)
  /\ UNCHANGED <<exitFlag, plState, state, off, mailbox, cpc, slot, visited>>

KeepFrame(i) ==
  /\ Goto(i, "judge", "give")
  /\ cmdResult[i] = StatusOk
  /\ UNCHANGED <<exitFlag, plState, state, off, mailbox, free, cpc, slot, visited>>

(* Hand the chunk, or the STOP, to the next module.                        *)

\* variant: the next module's result is not waited for
WaitForNobody(i) ==
  /\ \/ Goto(i, "give", "put")
     \/ Goto(i, "stopGive", "stopPut")
  /\ UNCHANGED <<exitFlag, plState, state, off, mailbox, free, cpc, slot, visited>>

WaitNext(i) ==
  /\ \/ Goto(i, "give", "put")
     \/ Goto(i, "stopGive", "stopPut")
  /\ Wait(result, i + 1)
  /\ UNCHANGED <<exitFlag, plState, state, off, newCmd, cmd, dataoffset, free, cpc,
                 slot, visited>>

PutJob(i) ==
  /\ Goto(i, "put", IF i = 0 THEN "test" ELSE "recv")
  /\ cmd' = [cmd EXCEPT ![i + 1] = "JOB"]
  /\ dataoffset' = [dataoffset EXCEPT ![i + 1] = off[i]]
  /\ Post(newCmd, i + 1)
  /\ UNCHANGED <<exitFlag, plState, state, off, result, free, cpc, slot, visited>>

\* variant: the STOP is left in the mailbox unannounced
PutStopSilently(i) ==
  /\ Goto(i, "stopPut", "stopJob")
  /\ cmd' = [cmd EXCEPT ![i + 1] = "STOP"]
  /\ UNCHANGED <<exitFlag, plState, state, off, newCmd, result, dataoffset, free, cpc,
                 slot, visited>>

PutStop(i) ==
  /\ Goto(i, "stopPut", "stopJob")
  /\ cmd' = [cmd EXCEPT ![i + 1] = "STOP"]
  /\ Post(newCmd, i + 1)
  /\ UNCHANGED <<exitFlag, plState, state, off, result, dataoffset, free, cpc, slot,
                 visited>>

(* After its STOP went on, a thread stops its own client.                  *)

SubmitStop(i) ==
  /\ Goto(i, "stopJob", "stopAwait")
  /\ procCmd' = [procCmd EXCEPT ![i] = "STOP"]
  /\ Post(semJob, i)
  /\ UNCHANGED <<exitFlag, plState, state, off, mailbox, free, cpc, semResult, procOff,
                 cmdResult, visited>>

AwaitStop(i) ==
  /\ Goto(i, "stopAwait", "done")
  /\ Wait(semResult, i)
  /\ IF i = 0 THEN SetState(i, "INIT") ELSE UNCHANGED state
  /\ UNCHANGED <<exitFlag, plState, off, mailbox, free, cpc, semJob, procCmd, procOff,
                 cmdResult, visited>>

\* finalization_thread clears the chunk's first byte and gives it back
ReturnChunk ==
  /\ Goto(LastStage, "free", "recv")
  /\ visited' = [visited EXCEPT ![off[LastStage]] = {}]
  /\ PushFree(LastStage)
  /\ UNCHANGED <<exitFlag, plState, state, off, mailbox, cpc, slot>>

-----------------------------------------------------------------------------
(* pipeline_process, the loop of a client.                                 *)

ClientGoto(i, from, to) == cpc[i] = from /\ cpc' = [cpc EXCEPT ![i] = to]

ClientTake(i) ==
  /\ Wait(semJob, i)
  /\ \/ /\ procCmd[i] = "STOP"
        /\ ClientGoto(i, "wait", "leave")
        /\ cmdResult' = [cmdResult EXCEPT ![i] = StatusOk]
     \/ /\ procCmd[i] # "STOP"
        /\ ClientGoto(i, "wait", "act")
        /\ UNCHANGED cmdResult
  /\ UNCHANGED <<exitFlag, plState, state, pc, off, mailbox, free, semResult, procCmd,
                 procOff, visited>>

\* variant: status -1 is reported to the server as it is
ClientActReportsStop(i) ==
  \E status \in Statuses :
    /\ ClientGoto(i, "act", IF status = StatusStop THEN "leave" ELSE "answer")
    /\ cmdResult' = [cmdResult EXCEPT ![i] = status]
    /\ visited' = [visited EXCEPT ![procOff[i]] = IF i = 0 THEN {0} ELSE @ \cup {i}]
    /\ UNCHANGED <<exitFlag, plState, state, pc, off, mailbox, free, semJob, semResult,
                   procCmd, procOff>>

\* the source's action starts a new frame in the chunk
ClientAct(i) ==
  \E status \in Statuses :
    /\ ClientGoto(i, "act", IF status = StatusStop THEN "leave" ELSE "answer")
    /\ cmdResult' = [cmdResult EXCEPT ![i] =
                       IF status = StatusStop THEN StatusOk ELSE status]
    /\ visited' = [visited EXCEPT ![procOff[i]] = IF i = 0 THEN {0} ELSE @ \cup {i}]
    /\ UNCHANGED <<exitFlag, plState, state, pc, off, mailbox, free, semJob, semResult,
                   procCmd, procOff>>

ClientAnswer(i) ==
  /\ \/ ClientGoto(i, "answer", "wait")
     \/ ClientGoto(i, "leave", "gone")
  /\ Post(semResult, i)
  /\ UNCHANGED <<exitFlag, plState, state, pc, off, mailbox, free, semJob, procCmd,
                 procOff, cmdResult, visited>>

\* a client killed by a signal; nothing in the server notices
ClientCrash(i) ==
  /\ ClientsCrash
  /\ cpc[i] # "gone"
  /\ cpc' = [cpc EXCEPT ![i] = "gone"]
  /\ UNCHANGED <<exitFlag, plState, state, pc, off, mailbox, free, slot, visited>>

-----------------------------------------------------------------------------
(* What happens around the threads: once all modules started,              *)
(* pipeline_thread turns them LIVE; a signal thread given the exit flag    *)
(* raises it at any time.                                                  *)

GoLive ==
  /\ plState = "INIT"
  /\ plState' = "LIVE"
  /\ state' = [i \in Stages |-> IF state[i] = "ERROR" THEN "ERROR" ELSE "LIVE"]
  /\ UNCHANGED <<exitFlag, pc, off, mailbox, free, cpc, slot, visited>>

RequestExit ==
  /\ ~exitFlag
  /\ exitFlag' = TRUE
  /\ UNCHANGED <<plState, state, pc, off, mailbox, free, cpc, slot, visited>>

-----------------------------------------------------------------------------

Source == TestExit \/ CheckLive \/ PopFree

Mailbox(i) == ReceiveCommand(i) \/ ReadCommand(i)

Work(i) ==
  \/ SubmitJob(i) \/ AwaitResult(i)
  \/ WaitNext(i) \/ PutJob(i) \/ PutStop(i)
  \/ SubmitStop(i) \/ AwaitStop(i)

Thread(i) ==
  \/ i = 0 /\ Source
  \/ i \in Inner /\ Mailbox(i)
  \/ i \in Workers /\ Work(i)
  \/ i \in Inner \cap Workers /\ (DropFrame(i) \/ KeepFrame(i))
  \/ i = LastStage /\ ReturnChunk

Client(i) == ClientTake(i) \/ ClientAct(i) \/ ClientAnswer(i)

AllDone == \A i \in Stages : pc[i] = "done"

\* every thread has returned: the only state the pipeline may rest in
Finished == AllDone /\ UNCHANGED vars

Next ==
  \/ \E i \in Stages : Thread(i)
  \/ \E i \in Workers : Client(i) \/ ClientCrash(i)
  \/ GoLive
  \/ RequestExit
  \/ Finished

\* the scheduler runs every thread and every client, and actions return
Fairness ==
  /\ \A i \in Stages  : WF_vars(Thread(i))
  /\ \A i \in Workers : WF_vars(Client(i))
  /\ WF_vars(GoLive)

Spec     == Init /\ [][Next]_vars
FairSpec == Spec /\ Fairness

-----------------------------------------------------------------------------
(* Where a chunk can be outside the ring.                                  *)

\* thread i is responsible for the chunk off[i]
Holds(i) == pc[i] \in {"job", "await", "judge", "give", "put", "free"}

\* the mailbox of i carries a job its thread has not read
Boxed(i) == cmd[i] = "JOB" /\ (newCmd[i] > 0 \/ pc[i] = "read")

\* thread i has left its loop; its STOP has been sent on
Stopping(i) == pc[i] \in {"stopGive", "stopPut", "stopJob", "stopAwait", "done"}
StopSent(i) == pc[i] \in {"stopJob", "stopAwait", "done"}

-----------------------------------------------------------------------------

ThreadPlaces == {"test", "checkLive", "pop", "recv", "read", "job", "await",
                 "judge", "give", "put", "free", "stopGive", "stopPut",
                 "stopJob", "stopAwait", "done"}
ClientPlaces == {"wait", "act", "answer", "leave", "gone"}
ModuleStates == {"UNKNOWN", "ERROR", "INIT", "LIVE"}

(* The variables have the types the structs give them.                     *)
TypeOK ==
  /\ exitFlag   \in BOOLEAN
  /\ plState    \in ModuleStates
  /\ state      \in [Stages -> ModuleStates]
  /\ pc         \in [Stages -> ThreadPlaces]
  /\ off        \in [Stages -> Offsets \cup {0}]
  /\ newCmd     \in [Stages -> Nat]
  /\ result     \in [Stages -> Nat]
  /\ cmd        \in [Stages -> {"JOB", "STOP"}]
  /\ dataoffset \in [Stages -> Offsets \cup {0}]
  /\ free       \in Seq(Offsets)
  /\ cpc        \in [Workers -> ClientPlaces]
  /\ semJob     \in [Workers -> Nat]
  /\ semResult  \in [Workers -> Nat]
  /\ procCmd    \in [Workers -> {"JOB", "STOP"}]
  /\ procOff    \in [Workers -> Offsets \cup {0}]
  /\ cmdResult  \in [Workers -> {StatusOk, StatusDrop}]
  /\ visited    \in [Offsets -> SUBSET Workers]

MailboxTurnAt(i) ==
  LET writing == pc[i - 1] \in {"put", "stopPut"}
      reading == pc[i] = "read"
  IN  \/ result[i] = 1 /\ newCmd[i] = 0 /\ ~writing /\ ~reading
      \/ result[i] = 0 /\ newCmd[i] = 0 /\  writing /\ ~reading
      \/ result[i] = 0 /\ newCmd[i] = 1 /\ ~writing /\ ~reading
      \/ result[i] = 0 /\ newCmd[i] = 0 /\ ~writing /\  reading

(* Every mailbox has exactly one turn: empty, being written by the module  *)
(* before it, full, or being read.  A second command is never put over one *)
(* that has not been read, and no command is read twice.                   *)
MailboxTurn == \A i \in Inner : MailboxTurnAt(i)

ClientTurnAt(i) ==
  LET waiting == pc[i] \in {"await", "stopAwait"}
      working == cpc[i] \in {"act", "answer", "leave"}
  IN  /\ ~waiting => semJob[i] = 0 /\ semResult[i] = 0 /\ ~working
      /\  waiting =>
            /\ procCmd[i] = IF pc[i] = "await" THEN "JOB" ELSE "STOP"
            /\ IF pc[i] = "await" THEN procOff[i] = off[i] ELSE cpc[i] # "act"
            /\ \/ semJob[i] = 1 /\ semResult[i] = 0 /\ ~working
               \/ semJob[i] = 0 /\ semResult[i] = 0 /\ cpc[i] # "wait"
               \/ semJob[i] = 0 /\ semResult[i] = 1 /\ ~working

(* Thread and client of a stage take turns on its process_info: while the  *)
(* client works on it the thread waits for its result, on the job and the  *)
(* chunk the thread gave it.                                               *)
ClientTurn == \A i \in Workers : ClientTurnAt(i)

(* No chunk has two owners: not two threads, two mailboxes, a thread and   *)
(* the ring, ... whatever order frames are dropped and handed on in.       *)
SingleOwner ==
  /\ \A i, j \in Stages : i # j /\ Holds(i) /\ Holds(j) => off[i] # off[j]
  /\ \A i, j \in Inner : i # j /\ Boxed(i) /\ Boxed(j) =>
                            dataoffset[i] # dataoffset[j]
  /\ \A i \in Stages, j \in Inner : Holds(i) /\ Boxed(j) => off[i] # dataoffset[j]
  /\ \A k, l \in DOMAIN free : k # l => free[k] # free[l]
  /\ \A k \in DOMAIN free :
       /\ \A i \in Stages : Holds(i) => off[i] # free[k]
       /\ \A i \in Inner : Boxed(i) => dataoffset[i] # free[k]

(* No chunk is lost: each one is in the ring, with a thread or in a        *)
(* mailbox, even when clients stop or die.                                 *)
NoChunkLost ==
  \A o \in Offsets :
    \/ \E k \in DOMAIN free : free[k] = o
    \/ \E i \in Stages : Holds(i) /\ off[i] = o
    \/ \E i \in Inner : Boxed(i) /\ dataoffset[i] = o

(* "Data in the middle should visit all active steps of pipeline"          *)
(* (pipeline.c:247): a frame reaches a stage after the action of every     *)
(* stage before it, and of no other, ran on it.                            *)
VisitsAllSteps ==
  \A i \in Inner :
    /\ pc[i] \in {"job", "free"} => visited[off[i]] = 0..i - 1
    /\ Boxed(i) => visited[dataoffset[i]] = 0..i - 1

(* When finalization has stopped the pipeline is drained: every thread     *)
(* before it left its loop and every chunk is back in the ring.            *)
StopDrains ==
  pc[LastStage] = "done" =>
    /\ \A i \in Workers : StopSent(i)
    /\ \A o \in Offsets : \E k \in DOMAIN free : free[k] = o

(* Once a thread has been told to stop, neither a job nor a second STOP is *)
(* put into its mailbox: the STOP is the last command of every new_cmd.    *)
NothingAfterStop ==
  [][\A i \in Inner : Stopping(i) => newCmd'[i] <= newCmd[i]]_vars

\* a client that went without an answer to a STOP: its thread has not sent one
\* yet, or waits for the answer
ClientLost(i) ==
  /\ cpc[i] = "gone"
  /\ pc[i] # "done"
  /\ pc[i] = "stopAwait" => semResult[i] = 0

(* When the exit flag is raised, every thread ends, unless a client was    *)
(* lost: nobody posts its sem_result again.                                *)
ExitEndsAllThreads ==
  exitFlag ~> (AllDone \/ \E i \in Workers : ClientLost(i))

(* A chunk that left the ring always comes back to it, unless a client was *)
(* lost.                                                                   *)
EveryFrameReturns ==
  \A o \in Offsets :
    (\A k \in DOMAIN free : free[k] # o)
      ~> (\/ \E k \in DOMAIN free : free[k] = o
          \/ \E i \in Workers : ClientLost(i))

=============================================================================
