------------------------ MODULE PipelineServerProofs ------------------------
(***************************************************************************)
(* What a start of a pipeline keeps, in every order of the list, for every *)
(* number of modules and chunks and whatever fails.  The threads' part is  *)
(* taken from PipelineProofs, seen through the mapping of Threads; what is *)
(* added is about pipeline_thread and the modules that do not run.         *)
(***************************************************************************)
EXTENDS PipelineServer, FiniteSetTheorems, TLAPS

\* PipelineProofs, with the mapping of Threads
Proved == INSTANCE PipelineProofs WITH
  plState <- IF plState = "LIVE" THEN "LIVE" ELSE "INIT",
  state   <- [i \in Stages |-> StateShown(i)],
  pc      <- [i \in Stages |-> IF pc[i] \in ThreadPlaces THEN pc[i] ELSE LoopTop(i)],
  result  <- [i \in Stages |-> IF Prepared(i) THEN result[i] ELSE 1],
  cmd     <- [i \in Stages |-> IF Prepared(i) THEN cmd[i] ELSE "JOB"],
  cpc     <- [i \in Workers |-> IF cpc[i] = "none" THEN "wait" ELSE cpc[i]]

Listed == 1..LastStage + 1

\* up to position p of the list modules are prepared, and none behind it
PreparedTo(p) == \A k \in Listed : Prepared(list[k]) <=> k <= p

(* What the mapping hides keeps its types.                                 *)
ServerTypes ==
  /\ list \in Lists /\ pos \in 1..LastStage + 2 /\ startControl \in {0, 1}
  /\ spc \in {"start", "await", "joinFailed", "settle", "live", "join", "free", "done", "deleted"}
  /\ spc \in {"start", "await", "joinFailed", "join"} => pos \in Listed
  /\ idx \in [Stages -> Int] /\ processCnt \in Nat
  /\ plState \in ModuleStates /\ state \in [Stages -> ModuleStates]
  /\ pc  \in [Stages -> ThreadPlaces \cup {"none", "launch", "failed"}]
  /\ cmd \in [Stages -> {"JOB", "STOP"}] /\ result \in [Stages -> Nat]
  /\ cpc \in [Workers -> ClientPlaces \cup {"none"}]

(* Modules are prepared in the order of the list, one at a time; behind a  *)
(* failed one no module is.                                                *)
InTurn ==
  /\ spc = "start" => /\ PreparedTo(pos - 1) /\ startControl = 0
                       /\ \A i \in Stages : pc[i] # "failed"
  /\ spc = "await" => PreparedTo(pos) /\ startControl = IF pc[Current] = "launch" THEN 0 ELSE 1
  /\ spc = "joinFailed" => PreparedTo(pos) /\ idx[Current] = NotStarted /\ startControl = 0
  /\ \E p \in 0..LastStage + 1 : PreparedTo(p)
  /\ \A i \in Stages : pc[i] = "launch" => spc = "await" /\ i = Current /\ idx[i] = Initialised
  /\ \A i \in Stages : pc[i] = "failed" => idx[i] \in {NotStarted, Destroyed}
  /\ \A k, l \in Listed : pc[list[k]] = "failed" /\ k < l => ~Prepared(list[l])

(* A module that is not prepared is as zeroed memory left it; one without  *)
(* a client has none to stop; pipeline_thread waits for the thread of one  *)
(* that got no slot before it joins anything.                              *)
Unmoved ==
  /\ \A i \in Stages : ~Prepared(i) => result[i] = 0 /\ newCmd[i] = 0
  /\ newCmd[0] = 0
  /\ \A i \in Workers : pc[i] \in {"none", "launch", "failed"} <=> cpc[i] = "none"
  /\ \A i \in Stages : idx[i] = NotStarted =>
       Ended(i) \/ (spc \in {"await", "joinFailed"} /\ i = Current)

(* The state of a module is shown truly to its thread.                     *)
Shown ==
  /\ spc \in {"start", "await", "joinFailed", "settle", "live"} => plState # "LIVE"
  /\ spc = "start" \/ spc = "await" => plState = "UNKNOWN"
  /\ plState # "LIVE" => \A i \in Stages : state[i] # "LIVE"
  /\ plState = "LIVE" => \A i \in Stages : ~Ended(i) => state[i] \in {"LIVE", "INIT"}
  /\ \A i \in Stages : state[i] = "ERROR" => Ended(i)

(* Modules are joined in the order of the list, each when it has ended.    *)
Joined ==
  /\ spc \notin {"join", "free", "done", "deleted"} => \A i \in Stages : idx[i] # Destroyed
  /\ spc = "join" => \A k \in Listed : idx[list[k]] = Destroyed <=> k < pos
  /\ spc \in {"free", "done", "deleted"} => \A i \in Stages : idx[i] = Destroyed
  /\ \A i \in Stages : idx[i] = Destroyed => Ended(i)

(* A client told to stop is on its way out, and gone when its thread ends. *)
ClientsLeave ==
  \A i \in Workers :
    /\ pc[i] = "stopAwait" => /\ cpc[i] # "answer"
                              /\ semResult[i] = 1 => cpc[i] = "gone"
    /\ pc[i] = "done" => cpc[i] = "gone"

SInv == ServerTypes /\ Proved!IInv /\ InTurn /\ Unmoved /\ Shown /\ Joined /\ ClientsLeave

USE LastStageAssumption, DataCntAssumption, StatusesAssumption, CrashAssumption

-----------------------------------------------------------------------------
(* What the mapping shows.                                                 *)

shownPc     == [i \in Stages |-> IF pc[i] \in ThreadPlaces THEN pc[i] ELSE LoopTop(i)]
shownState  == [i \in Stages |-> StateShown(i)]
shownResult == [i \in Stages |-> IF Prepared(i) THEN result[i] ELSE 1]
shownCmd    == [i \in Stages |-> IF Prepared(i) THEN cmd[i] ELSE "JOB"]
shownCpc    == [i \in Workers |-> IF cpc[i] = "none" THEN "wait" ELSE cpc[i]]
shownPl     == IF plState = "LIVE" THEN "LIVE" ELSE "INIT"

(* A thread that moves is seen to move, and nobody else.                   *)
LEMMA ShownGoto ==
  ASSUME ServerTypes, NEW i \in Stages, NEW from \in ThreadPlaces, NEW to \in ThreadPlaces, Goto(i, from, to)
  PROVE  /\ Threads!Goto(i, from, to)
         /\ Prepared(i) /\ \A j \in Stages : Prepared(j)' = Prepared(j)
  <1>1. shownPc[i] = from /\ shownPc' = [shownPc EXCEPT ![i] = to]
    BY DEF ServerTypes, Goto, shownPc
  <1>2. Threads!Goto(i, from, to)
    BY <1>1 DEF Threads!Goto, shownPc
  <1>3. QED
    BY <1>2 DEF ServerTypes, Goto, Prepared, ThreadPlaces

(* The steps of PipelineProofs are those of Threads.                       *)
LEMMA SameSteps ==
  /\ \A i \in Stages : Threads!Thread(i) => Proved!Thread(i)
  /\ \A i \in Workers : Threads!Client(i) => Proved!Client(i)
  /\ Threads!GoLive => Proved!GoLive
  /\ Threads!RequestExit => Proved!RequestExit
  <1>1. Threads!TestExit => Proved!TestExit
    BY DEF Threads!TestExit, Proved!TestExit, Threads!Goto, Proved!Goto, Threads!mailbox,
           Proved!mailbox, Threads!slot, Proved!slot
  <1>2. Threads!CheckLive => Proved!CheckLive
    BY DEF Threads!CheckLive, Proved!CheckLive, Threads!Goto, Proved!Goto, Threads!mailbox,
           Proved!mailbox, Threads!slot, Proved!slot
  <1>3. Threads!PopFree => Proved!PopFree
    BY DEF Threads!PopFree, Proved!PopFree, Threads!Goto, Proved!Goto, Threads!mailbox,
           Proved!mailbox, Threads!slot, Proved!slot
  <1>4. \A i : Threads!ReceiveCommand(i) => Proved!ReceiveCommand(i)
    BY DEF Threads!ReceiveCommand, Proved!ReceiveCommand, Threads!Goto, Proved!Goto, Threads!Wait,
           Proved!Wait, Threads!slot, Proved!slot
  <1>5. \A i : Threads!ReadCommand(i) => Proved!ReadCommand(i)
    BY DEF Threads!ReadCommand, Proved!ReadCommand, Threads!Goto, Proved!Goto, Threads!AfterRead,
           Proved!AfterRead, Threads!Post, Proved!Post, Threads!SetState, Proved!SetState,
           Threads!slot, Proved!slot
  <1>6. \A i : Threads!SubmitJob(i) => Proved!SubmitJob(i)
    BY DEF Threads!SubmitJob, Proved!SubmitJob, Threads!Goto, Proved!Goto, Threads!Post,
           Proved!Post, Threads!mailbox, Proved!mailbox
  <1>7. \A i : Threads!AwaitResult(i) => Proved!AwaitResult(i)
    BY DEF Threads!AwaitResult, Proved!AwaitResult, Threads!Goto, Proved!Goto, Threads!Wait,
           Proved!Wait, Threads!mailbox, Proved!mailbox
  <1>8. \A i : Threads!DropFrame(i) => Proved!DropFrame(i)
    BY DEF Threads!DropFrame, Proved!DropFrame, Threads!Goto, Proved!Goto, Threads!PushFree,
           Proved!PushFree, Threads!mailbox, Proved!mailbox, Threads!slot, Proved!slot,
           Threads!StatusOk, Proved!StatusOk
  <1>9. \A i : Threads!KeepFrame(i) => Proved!KeepFrame(i)
    BY DEF Threads!KeepFrame, Proved!KeepFrame, Threads!Goto, Proved!Goto, Threads!mailbox,
           Proved!mailbox, Threads!slot, Proved!slot, Threads!StatusOk, Proved!StatusOk
  <1>10. \A i : Threads!WaitNext(i) => Proved!WaitNext(i)
    BY DEF Threads!WaitNext, Proved!WaitNext, Threads!Goto, Proved!Goto, Threads!Wait,
           Proved!Wait, Threads!slot, Proved!slot
  <1>11. \A i : Threads!PutJob(i) => Proved!PutJob(i)
    BY DEF Threads!PutJob, Proved!PutJob, Threads!Goto, Proved!Goto, Threads!Post, Proved!Post,
           Threads!slot, Proved!slot
  <1>12. \A i : Threads!PutStop(i) => Proved!PutStop(i)
    BY DEF Threads!PutStop, Proved!PutStop, Threads!Goto, Proved!Goto, Threads!Post, Proved!Post,
           Threads!slot, Proved!slot
  <1>13. \A i : Threads!SubmitStop(i) => Proved!SubmitStop(i)
    BY DEF Threads!SubmitStop, Proved!SubmitStop, Threads!Goto, Proved!Goto, Threads!Post,
           Proved!Post, Threads!mailbox, Proved!mailbox
  <1>14. \A i : Threads!AwaitStop(i) => Proved!AwaitStop(i)
    BY DEF Threads!AwaitStop, Proved!AwaitStop, Threads!Goto, Proved!Goto, Threads!Wait,
           Proved!Wait, Threads!SetState, Proved!SetState, Threads!mailbox, Proved!mailbox
  <1>15. Threads!ReturnChunk => Proved!ReturnChunk
    BY DEF Threads!ReturnChunk, Proved!ReturnChunk, Threads!Goto, Proved!Goto, Threads!PushFree,
           Proved!PushFree, Threads!mailbox, Proved!mailbox, Threads!slot, Proved!slot
  <1>16. \A i : Threads!ClientTake(i) => Proved!ClientTake(i)
    BY DEF Threads!ClientTake, Proved!ClientTake, Threads!ClientGoto, Proved!ClientGoto,
           Threads!Wait, Proved!Wait, Threads!mailbox, Proved!mailbox, Threads!StatusOk,
           Proved!StatusOk
  <1>17. \A i : Threads!ClientAct(i) => Proved!ClientAct(i)
    BY DEF Threads!ClientAct, Proved!ClientAct, Threads!ClientGoto, Proved!ClientGoto,
           Threads!mailbox, Proved!mailbox, Threads!StatusOk, Proved!StatusOk, Threads!StatusStop,
           Proved!StatusStop
  <1>18. \A i : Threads!ClientAnswer(i) => Proved!ClientAnswer(i)
    BY DEF Threads!ClientAnswer, Proved!ClientAnswer, Threads!ClientGoto, Proved!ClientGoto,
           Threads!Post, Proved!Post, Threads!mailbox, Proved!mailbox
  <1>19. Threads!GoLive => Proved!GoLive
    BY DEF Threads!GoLive, Proved!GoLive, Threads!mailbox, Proved!mailbox, Threads!slot,
           Proved!slot, Threads!Stages, Proved!Stages
  <1>20. Threads!RequestExit => Proved!RequestExit
    BY DEF Threads!RequestExit, Proved!RequestExit, Threads!mailbox, Proved!mailbox, Threads!slot,
           Proved!slot
  <1>21. \A i \in Stages : Threads!Thread(i) => Proved!Thread(i)
    BY <1>1, <1>2, <1>3, <1>4, <1>5, <1>6, <1>7, <1>8, <1>9, <1>10, <1>11, <1>12, <1>13, <1>14,
       <1>15
    DEF Threads!Thread, Proved!Thread, Threads!Source, Proved!Source, Threads!Mailbox,
        Proved!Mailbox, Threads!Work, Proved!Work, Threads!Inner, Proved!Inner, Threads!Workers,
        Proved!Workers
  <1>22. \A i \in Workers : Threads!Client(i) => Proved!Client(i)
    BY <1>16, <1>17, <1>18 DEF Threads!Client, Proved!Client
  <1>23. QED
    BY <1>19, <1>20, <1>21, <1>22

-----------------------------------------------------------------------------
(* A thread's own steps.                                                   *)

(* The module a thread hands to has been prepared: an unprepared one shows *)
(* a full result, and nothing is put before it was taken.                  *)
LEMMA HandedPrepared ==
  ASSUME SInv, NEW i \in Workers, pc[i] \in {"put", "stopPut"} \/ result[i + 1] > 0
  PROVE  Prepared(i + 1) /\ i + 1 \in Stages /\ i \in Stages
  <1>1. i + 1 \in Inner /\ i \in Stages /\ i + 1 \in Stages /\ i + 1 - 1 = i
    BY DEF Workers, Inner, Stages
  <1>2. CASE pc[i] \in {"put", "stopPut"}
    <2>1. shownPc[i] \in {"put", "stopPut"}
      BY <1>1, <1>2 DEF shownPc, ThreadPlaces
    <2>2. \A j \in Inner : Proved!MailboxTurnAt(j)
      BY DEF SInv, Proved!IInv, Proved!MailboxTurn, Proved!Inner, Inner
    <2>3. \A j \in Inner : shownPc[j - 1] \in {"put", "stopPut"} => shownResult[j] = 0
      BY <2>2 DEF Proved!MailboxTurnAt, shownPc, shownResult
    <2>4. PICK j \in Inner : j = i + 1 /\ j - 1 = i
      BY <1>1 DEF Workers
    <2>5. shownResult[i + 1] = 0
      BY <2>1, <2>3, <2>4
    <2>6. QED
      BY <1>1, <2>5 DEF shownResult
  <1>3. CASE result[i + 1] > 0
    BY <1>1, <1>3 DEF SInv, Unmoved
  <1>4. QED
    BY <1>1, <1>2, <1>3

(* The state of a module whose thread runs is shown as it is.              *)
LEMMA ShownSetState ==
  ASSUME SInv, NEW i \in Stages, ~Ended(i), SetState(i, "INIT"), plState' = plState
  PROVE  shownState' = [shownState EXCEPT ![i] = IF @ = "ERROR" THEN @ ELSE "INIT"] /\ shownPl' = shownPl
  <1>1. state \in [Stages -> ModuleStates] /\ state[i] # "ERROR"
    BY DEF SInv, ServerTypes, Shown
  <1>2. state' = [state EXCEPT ![i] = "INIT"]
    BY <1>1 DEF SetState
  <1>3. QED
    BY <1>1, <1>2 DEF shownState, shownPl, StateShown

\* what a step of thread i leaves as it was shown, but for its place
ShownStill ==
  shownState' = shownState /\ shownPl' = shownPl /\ shownResult' = shownResult
    /\ shownCmd' = shownCmd /\ shownCpc' = shownCpc

(* A step that moves thread i and none of the mapped fields.               *)
LEMMA StillShown ==
  ASSUME SInv, NEW i \in Stages, NEW from \in ThreadPlaces, NEW to \in ThreadPlaces, Goto(i, from, to),
         UNCHANGED <<plState, state, result, cmd, cpc>>
  PROVE  ShownStill
  BY ShownGoto
  DEF SInv, ShownStill, shownState, shownPl, StateShown, shownResult, shownCmd, shownCpc

(* Every thread's place in the chain.                                      *)
LEMMA StageSets ==
  /\ 0 \in Stages /\ LastStage \in Stages
  /\ \A i \in Workers : i \in Stages
  /\ \A i \in Inner : i \in Stages
  BY DEF Stages, Workers, Inner

(* The exit flag is not mapped: the source leaves its loop where Pipeline  *)
(* does.                                                                   *)
LEMMA TestExitShown == ASSUME SInv, TestExit PROVE Threads!TestExit
  <1>1. 0 \in Stages
    BY StageSets
  <1>2. PICK to \in ThreadPlaces : /\ to = IF exitFlag THEN "stopGive" ELSE "checkLive"
                                  /\ Goto(0, "test", to)
    BY DEF TestExit, ThreadPlaces
  <1>3. Threads!Goto(0, "test", to)
    BY <1>1, <1>2, ShownGoto DEF SInv, ThreadPlaces
  <1>4. ShownStill
    BY <1>1, <1>2, StillShown DEF TestExit, mailbox, slot, ThreadPlaces
  <1>5. Threads!Goto(0, "test", IF exitFlag THEN "stopGive" ELSE "checkLive")
    BY <1>2, <1>3 DEF Threads!Goto
  <1>6. QED
    BY <1>5, <1>4
    DEF TestExit, Threads!TestExit, mailbox, slot, Threads!mailbox, Threads!slot, shownState,
        shownPl, shownResult, shownCmd, shownCpc, ShownStill

(* Nor is the ring of chunks.                                              *)
LEMMA PopShown == ASSUME SInv, PopFree PROVE Threads!PopFree
  <1>1. 0 \in Stages
    BY StageSets
  <1>2. Goto(0, "pop", "job")
    BY DEF PopFree
  <1>3. Threads!Goto(0, "pop", "job")
    BY <1>1, <1>2, ShownGoto DEF SInv, ThreadPlaces
  <1>4. ShownStill
    BY <1>1, <1>2, StillShown DEF PopFree, mailbox, slot, ThreadPlaces
  <1>5. QED
    BY <1>3, <1>4
    DEF PopFree, Threads!PopFree, mailbox, slot, Threads!mailbox, Threads!slot, shownState,
        shownPl, shownResult, shownCmd, shownCpc, ShownStill

(* new_cmd of a module is shown as it is.                                  *)
LEMMA ReceiveShown ==
  ASSUME SInv, NEW i \in Inner, ReceiveCommand(i)
  PROVE  Threads!ReceiveCommand(i)
  <1>1. i \in Stages
    BY StageSets
  <1>2. Goto(i, "recv", "read")
    BY DEF ReceiveCommand
  <1>3. Threads!Goto(i, "recv", "read")
    BY <1>1, <1>2, ShownGoto DEF SInv, ThreadPlaces
  <1>4. ShownStill
    BY <1>1, <1>2, StillShown DEF ReceiveCommand, mailbox, slot, ThreadPlaces
  <1>5. QED
    BY <1>3, <1>4
    DEF ReceiveCommand, Threads!ReceiveCommand, Wait, slot, mailbox, Threads!Wait, Threads!slot,
        Threads!mailbox, shownState, shownPl, shownResult, shownCmd, shownCpc, ShownStill

(* So is the slot a thread shares with its client.                         *)
LEMMA SubmitShown == ASSUME SInv, NEW i \in Workers, SubmitJob(i) PROVE Threads!SubmitJob(i)
  <1>1. i \in Stages
    BY StageSets
  <1>2. Goto(i, "job", "await")
    BY DEF SubmitJob
  <1>3. Threads!Goto(i, "job", "await")
    BY <1>1, <1>2, ShownGoto DEF SInv, ThreadPlaces
  <1>4. ShownStill
    BY <1>1, <1>2, StillShown DEF SubmitJob, mailbox, slot, ThreadPlaces
  <1>5. QED
    BY <1>3, <1>4
    DEF SubmitJob, Threads!SubmitJob, Post, mailbox, slot, Threads!Post, Threads!mailbox,
        Threads!slot, shownState, shownPl, shownResult, shownCmd, shownCpc, ShownStill

(* A result of the client is taken as in Pipeline.                         *)
LEMMA AwaitShown == ASSUME SInv, NEW i \in Workers, AwaitResult(i) PROVE Threads!AwaitResult(i)
  <1>1. i \in Stages
    BY StageSets
  <1>2. Goto(i, "await", IF i = 0 THEN "give" ELSE "judge")
    BY DEF AwaitResult
  <1>3. Threads!Goto(i, "await", IF i = 0 THEN "give" ELSE "judge")
    BY <1>1, <1>2, ShownGoto DEF SInv, ThreadPlaces
  <1>4. ShownStill
    BY <1>1, <1>2, StillShown DEF AwaitResult, mailbox, slot, ThreadPlaces
  <1>5. QED
    BY <1>3, <1>4
    DEF AwaitResult, Threads!AwaitResult, Wait, mailbox, slot, Threads!Wait, Threads!mailbox,
        Threads!slot, shownState, shownPl, shownResult, shownCmd, shownCpc, ShownStill

(* A frame is dropped as in Pipeline.                                      *)
LEMMA DropShown ==
  ASSUME SInv, NEW i \in Inner \cap Workers, DropFrame(i)
  PROVE  Threads!DropFrame(i)
  <1>1. i \in Stages
    BY StageSets
  <1>2. Goto(i, "judge", "recv")
    BY DEF DropFrame
  <1>3. Threads!Goto(i, "judge", "recv")
    BY <1>1, <1>2, ShownGoto DEF SInv, ThreadPlaces
  <1>4. ShownStill
    BY <1>1, <1>2, StillShown DEF DropFrame, mailbox, slot, ThreadPlaces
  <1>5. QED
    BY <1>3, <1>4
    DEF DropFrame, Threads!DropFrame, PushFree, mailbox, slot, StatusOk, Threads!PushFree,
        Threads!mailbox, Threads!slot, Threads!StatusOk, shownState, shownPl, shownResult,
        shownCmd, shownCpc, ShownStill

(* A frame is kept as in Pipeline.                                         *)
LEMMA KeepShown ==
  ASSUME SInv, NEW i \in Inner \cap Workers, KeepFrame(i)
  PROVE  Threads!KeepFrame(i)
  <1>1. i \in Stages
    BY StageSets
  <1>2. Goto(i, "judge", "give")
    BY DEF KeepFrame
  <1>3. Threads!Goto(i, "judge", "give")
    BY <1>1, <1>2, ShownGoto DEF SInv, ThreadPlaces
  <1>4. ShownStill
    BY <1>1, <1>2, StillShown DEF KeepFrame, mailbox, slot, ThreadPlaces
  <1>5. QED
    BY <1>3, <1>4
    DEF KeepFrame, Threads!KeepFrame, mailbox, slot, StatusOk, Threads!mailbox, Threads!slot,
        Threads!StatusOk, shownState, shownPl, shownResult, shownCmd, shownCpc, ShownStill

(* The STOP reaches the client as in Pipeline.                             *)
LEMMA SubmitStopShown == ASSUME SInv, NEW i \in Workers, SubmitStop(i) PROVE Threads!SubmitStop(i)
  <1>1. i \in Stages
    BY StageSets
  <1>2. Goto(i, "stopJob", "stopAwait")
    BY DEF SubmitStop
  <1>3. Threads!Goto(i, "stopJob", "stopAwait")
    BY <1>1, <1>2, ShownGoto DEF SInv, ThreadPlaces
  <1>4. ShownStill
    BY <1>1, <1>2, StillShown DEF SubmitStop, mailbox, slot, ThreadPlaces
  <1>5. QED
    BY <1>3, <1>4
    DEF SubmitStop, Threads!SubmitStop, Post, mailbox, slot, Threads!Post, Threads!mailbox,
        Threads!slot, shownState, shownPl, shownResult, shownCmd, shownCpc, ShownStill

(* The finalization returns a chunk as in Pipeline.                        *)
LEMMA ReturnShown == ASSUME SInv, ReturnChunk PROVE Threads!ReturnChunk
  <1>1. LastStage \in Stages
    BY StageSets
  <1>2. Goto(LastStage, "free", "recv")
    BY DEF ReturnChunk
  <1>3. Threads!Goto(LastStage, "free", "recv")
    BY <1>1, <1>2, ShownGoto DEF SInv, ThreadPlaces
  <1>4. ShownStill
    BY <1>1, <1>2, StillShown DEF ReturnChunk, mailbox, slot, ThreadPlaces
  <1>5. QED
    BY <1>3, <1>4
    DEF ReturnChunk, Threads!ReturnChunk, PushFree, mailbox, slot, Threads!PushFree,
        Threads!mailbox, Threads!slot, shownState, shownPl, shownResult, shownCmd, shownCpc,
        ShownStill

(* The source sees its own state in the mapping: it runs, so it did not fail. *)
LEMMA CheckShown == ASSUME SInv, CheckLive PROVE Threads!CheckLive
  <1>1. 0 \in Stages
    BY StageSets
  <1>2. pc[0] = "checkLive" /\ ~Ended(0)
    BY DEF CheckLive, Goto, Ended
  <1>3. shownState[0] = "LIVE" <=> state[0] = "LIVE"
    BY <1>1, <1>2 DEF SInv, Shown, shownState, StateShown
  <1>4. PICK to \in ThreadPlaces : /\ to = IF state[0] = "LIVE" THEN "pop" ELSE "test"
                                  /\ Goto(0, "checkLive", to)
    BY DEF CheckLive, ThreadPlaces
  <1>5. Threads!Goto(0, "checkLive", to)
    BY <1>1, <1>4, ShownGoto DEF SInv, ThreadPlaces
  <1>6. ShownStill
    BY <1>1, <1>4, StillShown DEF CheckLive, mailbox, slot, ThreadPlaces
  <1>7. Threads!Goto(0, "checkLive", IF shownState[0] = "LIVE" THEN "pop" ELSE "test")
    BY <1>3, <1>4, <1>5 DEF Threads!Goto
  <1>8. QED
    BY <1>6, <1>7
    DEF CheckLive, Threads!CheckLive, mailbox, slot, Threads!mailbox, Threads!slot, shownState,
        shownPl, shownResult, shownCmd, shownCpc, ShownStill

(* A thread that reads its command has been prepared, so the command is    *)
(* shown.                                                                  *)
LEMMA ReadShown == ASSUME SInv, NEW i \in Inner, ReadCommand(i) PROVE Threads!ReadCommand(i)
  <1>1. i \in Stages /\ pc[i] = "read" /\ ~Ended(i) /\ Prepared(i)
    BY StageSets DEF ReadCommand, Goto, Ended, Prepared
  <1>2. cmd[i] = shownCmd[i] /\ result[i] = shownResult[i]
    BY <1>1 DEF shownCmd, shownResult
  <1>3. PICK to \in ThreadPlaces : to = AfterRead(i) /\ Goto(i, "read", to)
    BY DEF ReadCommand, AfterRead, ThreadPlaces
  <1>4. Threads!Goto(i, "read", to) /\ \A j \in Stages : Prepared(j)' = Prepared(j)
    BY <1>1, <1>3, ShownGoto DEF SInv, ThreadPlaces
  <1>5. AfterRead(i) = Threads!AfterRead(i)
    BY <1>2 DEF AfterRead, Threads!AfterRead, shownCmd
  <1>6. shownResult' = [shownResult EXCEPT ![i] = @ + 1] /\ shownCmd' = shownCmd /\ shownCpc' = shownCpc
    BY <1>1, <1>4 DEF SInv, ServerTypes, ReadCommand, Post, shownResult, shownCmd, shownCpc
  <1>7. shownPl' = shownPl
    BY DEF ReadCommand, shownPl
  <1>8. IF i = LastStage /\ shownCmd[i] = "STOP"
        THEN shownState' = [shownState EXCEPT ![i] = IF @ = "ERROR" THEN @ ELSE "INIT"]
        ELSE shownState' = shownState
    BY <1>1, <1>2, ShownSetState DEF ReadCommand, shownState, StateShown
  <1>9. Threads!Goto(i, "read", Threads!AfterRead(i))
    BY <1>3, <1>4, <1>5 DEF Threads!Goto
  <1>10. QED
    BY <1>6, <1>7, <1>8, <1>9
    DEF ReadCommand, Threads!ReadCommand, Threads!Post, Threads!SetState, slot, Threads!slot,
        shownState, shownPl, shownResult, shownCmd, shownCpc

(* The turn a thread takes of the next module is shown: it was given to a  *)
(* prepared one.                                                           *)
LEMMA WaitShown == ASSUME SInv, NEW i \in Workers, WaitNext(i) PROVE Threads!WaitNext(i)
  <1>1. i \in Stages /\ i + 1 \in Stages /\ Prepared(i + 1) /\ result[i + 1] > 0
    BY HandedPrepared DEF WaitNext, Wait
  <1>2. PICK b \in {<<"give", "put">>, <<"stopGive", "stopPut">>} : Goto(i, b[1], b[2])
    BY DEF WaitNext
  <1>3. b[1] \in ThreadPlaces /\ b[2] \in ThreadPlaces
    BY DEF ThreadPlaces
  <1>4. Threads!Goto(i, b[1], b[2]) /\ \A j \in Stages : Prepared(j)' = Prepared(j)
    BY <1>1, <1>2, <1>3, ShownGoto DEF SInv
  <1>5. Threads!Goto(i, "give", "put") \/ Threads!Goto(i, "stopGive", "stopPut")
    BY <1>4
  <1>6. shownResult[i + 1] = result[i + 1] /\ shownResult' = [shownResult EXCEPT ![i + 1] = @ - 1]
    BY <1>1, <1>4 DEF SInv, ServerTypes, WaitNext, Wait, shownResult
  <1>7. shownCmd' = shownCmd /\ shownCpc' = shownCpc /\ shownPl' = shownPl /\ shownState' = shownState
    BY <1>4 DEF WaitNext, shownCmd, shownCpc, shownPl, shownState, StateShown
  <1>8. QED
    BY <1>1, <1>5, <1>6, <1>7
    DEF WaitNext, Threads!WaitNext, Threads!Wait, slot, Threads!slot, shownState, shownPl,
        shownResult, shownCmd, shownCpc

(* The job is put into the mailbox of a prepared module.                   *)
LEMMA PutShown == ASSUME SInv, NEW i \in Workers, PutJob(i) PROVE Threads!PutJob(i)
  <1>1. i \in Stages /\ i + 1 \in Stages /\ Prepared(i + 1)
    BY HandedPrepared DEF PutJob, Goto
  <1> DEFINE to == IF i = 0 THEN "test" ELSE "recv"
  <1>2. to \in ThreadPlaces /\ Goto(i, "put", to)
    BY DEF PutJob, ThreadPlaces
  <1>3. Threads!Goto(i, "put", to) /\ \A j \in Stages : Prepared(j)' = Prepared(j)
    BY <1>1, <1>2, ShownGoto DEF SInv, ThreadPlaces
  <1>4. shownCmd' = [shownCmd EXCEPT ![i + 1] = "JOB"]
    BY <1>1, <1>3 DEF SInv, ServerTypes, PutJob, shownCmd
  <1>5. shownResult' = shownResult /\ shownCpc' = shownCpc /\ shownPl' = shownPl /\ shownState' = shownState
    BY <1>3 DEF PutJob, shownResult, shownCpc, shownPl, shownState, StateShown
  <1>6. QED
    BY <1>3, <1>4, <1>5
    DEF PutJob, Threads!PutJob, Post, Threads!Post, slot, Threads!slot, shownState, shownPl,
        shownResult, shownCmd, shownCpc

(* So is the STOP.                                                         *)
LEMMA PutStopShown == ASSUME SInv, NEW i \in Workers, PutStop(i) PROVE Threads!PutStop(i)
  <1>1. i \in Stages /\ i + 1 \in Stages /\ Prepared(i + 1)
    BY HandedPrepared DEF PutStop, Goto
  <1>2. Goto(i, "stopPut", "stopJob")
    BY DEF PutStop
  <1>3. Threads!Goto(i, "stopPut", "stopJob") /\ \A j \in Stages : Prepared(j)' = Prepared(j)
    BY <1>1, <1>2, ShownGoto DEF SInv, ThreadPlaces
  <1>4. shownCmd' = [shownCmd EXCEPT ![i + 1] = "STOP"]
    BY <1>1, <1>3 DEF SInv, ServerTypes, PutStop, shownCmd
  <1>5. shownResult' = shownResult /\ shownCpc' = shownCpc /\ shownPl' = shownPl /\ shownState' = shownState
    BY <1>3 DEF PutStop, shownResult, shownCpc, shownPl, shownState, StateShown
  <1>6. QED
    BY <1>3, <1>4, <1>5
    DEF PutStop, Threads!PutStop, Post, Threads!Post, slot, Threads!slot, shownState, shownPl,
        shownResult, shownCmd, shownCpc

(* The source ends in state INIT, as in Pipeline.                          *)
LEMMA AwaitStopShown == ASSUME SInv, NEW i \in Workers, AwaitStop(i) PROVE Threads!AwaitStop(i)
  <1>1. i \in Stages /\ Goto(i, "stopAwait", "done") /\ ~Ended(i)
    BY StageSets DEF AwaitStop, Goto, Ended
  <1>2. Threads!Goto(i, "stopAwait", "done") /\ \A j \in Stages : Prepared(j)' = Prepared(j)
    BY <1>1, ShownGoto DEF SInv, ThreadPlaces
  <1>3. shownResult' = shownResult /\ shownCmd' = shownCmd /\ shownCpc' = shownCpc /\ shownPl' = shownPl
    BY <1>2 DEF AwaitStop, mailbox, shownResult, shownCmd, shownCpc, shownPl
  <1>4. IF i = 0 THEN shownState' = [shownState EXCEPT ![i] = IF @ = "ERROR" THEN @ ELSE "INIT"]
                 ELSE shownState' = shownState
    BY <1>1, ShownSetState DEF AwaitStop, shownState, StateShown
  <1>5. QED
    BY <1>2, <1>3, <1>4
    DEF AwaitStop, Threads!AwaitStop, Wait, Threads!Wait, Threads!SetState, mailbox,
        Threads!mailbox, shownState, shownPl, shownResult, shownCmd, shownCpc

(* A client that moves has been started, and is seen to move.              *)
LEMMA ShownClientGoto ==
  ASSUME SInv, NEW i \in Workers, NEW from \in ClientPlaces, NEW to \in ClientPlaces, ClientGoto(i, from, to)
  PROVE  Threads!ClientGoto(i, from, to)
  <1>1. cpc \in [Workers -> ClientPlaces \cup {"none"}]
    BY DEF SInv, ServerTypes
  <1>2. shownCpc[i] = from /\ shownCpc' = [shownCpc EXCEPT ![i] = to]
    BY <1>1 DEF ClientGoto, shownCpc, ClientPlaces
  <1>3. QED
    BY <1>2 DEF Threads!ClientGoto, shownCpc

(* The rest of what is shown does not depend on the clients.               *)
LEMMA ClientStill ==
  ASSUME UNCHANGED <<plState, state, pc, result, cmd>>
  PROVE  shownPc' = shownPc /\ shownState' = shownState /\ shownPl' = shownPl
         /\ shownResult' = shownResult /\ shownCmd' = shownCmd
  BY DEF shownPc, shownState, StateShown, shownPl, shownResult, shownCmd, Prepared, LoopTop

(* A client takes what its thread submitted.                               *)
LEMMA TakeShown == ASSUME SInv, NEW i \in Workers, ClientTake(i) PROVE Threads!ClientTake(i)
  <1>1. \/ procCmd[i] = "STOP" /\ Threads!ClientGoto(i, "wait", "leave")
        \/ procCmd[i] # "STOP" /\ Threads!ClientGoto(i, "wait", "act")
    BY ShownClientGoto DEF ClientTake, ClientPlaces
  <1>2. QED
    BY <1>1, ClientStill
    DEF ClientTake, Threads!ClientTake, Wait, Threads!Wait, mailbox, Threads!mailbox, StatusOk,
        Threads!StatusOk, ClientGoto, shownPc, shownState, shownPl, shownResult, shownCmd

(* Its action ends as in Pipeline.                                         *)
LEMMA ActShown == ASSUME SInv, NEW i \in Workers, ClientAct(i) PROVE Threads!ClientAct(i)
  <1>1. PICK status \in Statuses : ClientAct(i)!(status)
    BY DEF ClientAct
  <1>2. (IF status = StatusStop THEN "leave" ELSE "answer") \in ClientPlaces
    BY DEF ClientPlaces
  <1>3. Threads!ClientGoto(i, "act", IF status = StatusStop THEN "leave" ELSE "answer")
    BY <1>1, <1>2, ShownClientGoto DEF ClientPlaces
  <1>4. QED
    BY <1>1, <1>3, ClientStill
    DEF Threads!ClientAct, mailbox, Threads!mailbox, StatusOk, StatusStop, Threads!StatusOk,
        Threads!StatusStop, shownPc, shownState, shownPl, shownResult, shownCmd

(* And so does its answer.                                                 *)
LEMMA AnswerShown == ASSUME SInv, NEW i \in Workers, ClientAnswer(i) PROVE Threads!ClientAnswer(i)
  <1>1. Threads!ClientGoto(i, "answer", "wait") \/ Threads!ClientGoto(i, "leave", "gone")
    BY ShownClientGoto DEF ClientAnswer, ClientPlaces
  <1>2. QED
    BY <1>1, ClientStill
    DEF ClientAnswer, Threads!ClientAnswer, Post, Threads!Post, mailbox, Threads!mailbox, shownPc,
        shownState, shownPl, shownResult, shownCmd

(* Every step of a thread or a client is one of Pipeline.                  *)
LEMMA ThreadsMove ==
  /\ \A i \in Stages : SInv /\ Thread(i) => Threads!Thread(i)
  /\ \A i \in Workers : SInv /\ Client(i) => Threads!Client(i)
  <1>1. ASSUME NEW i \in Stages, SInv, Thread(i) PROVE Threads!Thread(i)
    BY <1>1, TestExitShown, CheckShown, PopShown, ReceiveShown, ReadShown, SubmitShown,
       AwaitShown, DropShown, KeepShown, WaitShown, PutShown, PutStopShown, SubmitStopShown,
       AwaitStopShown, ReturnShown
    DEF Thread, Source, Mailbox, Work, Inner, Workers, Threads!Thread, Threads!Source,
        Threads!Mailbox, Threads!Work, Threads!Inner, Threads!Workers
  <1>2. ASSUME NEW i \in Workers, SInv, Client(i) PROVE Threads!Client(i)
    BY <1>2, TakeShown, ActShown, AnswerShown DEF Client, Threads!Client
  <1>3. QED
    BY <1>1, <1>2

-----------------------------------------------------------------------------
(* What the steps of threads and clients leave to pipeline_thread.         *)

(* A list has every module once.                                           *)
LEMMA ListFacts ==
  ASSUME NEW l \in Lists
  PROVE  /\ \A k \in Listed : l[k] \in Stages
         /\ \A i \in Stages : \E k \in Listed : l[k] = i
         /\ \A j, k \in Listed : l[j] = l[k] => j = k
  <1>1. l \in [Listed -> Stages] /\ \A i \in Stages : \E k \in Listed : l[k] = i
    BY ListsAssumption DEF InOrderOf, Listed
  <1>2. IsFiniteSet(Listed) /\ Cardinality(Listed) = LastStage + 1
    BY FS_Interval DEF Listed
  <1>3. Cardinality(Stages) = LastStage + 1
    BY FS_Interval DEF Stages
  <1>4. l \in Surjection(Listed, Stages)
    BY <1>1 DEF Surjection
  <1>5. l \in Injection(Listed, Stages)
    BY <1>2, <1>3, <1>4, FS_SurjSameCardinalityImpliesInj
  <1>6. QED
    BY <1>1, <1>5 DEF Injection, IsInjective

\* a step of thread i, as far as pipeline_thread can tell
ThreadStep(i) ==
  /\ pc[i] \in ThreadPlaces /\ pc[i] # "done"
  /\ \E to \in ThreadPlaces : pc' = [pc EXCEPT ![i] = to]
  /\ UNCHANGED <<plState, cpc>>
  /\ state' \in {state, [state EXCEPT ![i] = "INIT"]}
  /\ \A j \in Stages : ~Prepared(j) => result'[j] = result[j] /\ newCmd'[j] = newCmd[j]
  /\ newCmd'[0] = newCmd[0]
  /\ result' \in [Stages -> Nat] /\ cmd' \in [Stages -> {"JOB", "STOP"}]

(* Every step of a thread is such a step.                                  *)
LEMMA ThreadSteps ==
  ASSUME SInv, NEW i \in Stages, Thread(i) PROVE ThreadStep(i)
  <1>1. /\ pc \in [Stages -> ThreadPlaces \cup {"none", "launch", "failed"}]
        /\ cmd \in [Stages -> {"JOB", "STOP"}] /\ result \in [Stages -> Nat]
    BY DEF SInv, ServerTypes
  <1>2. newCmd \in [Stages -> Nat] /\ 0 \in Stages /\ \A j \in Inner : j # 0 /\ j \in Stages
    BY DEF SInv, Proved!IInv, Proved!TypeOK, Proved!Stages, Stages, Inner
  <1>3. state[i] # "ERROR" \/ Ended(i)
    BY DEF SInv, Shown
  <1> USE DEF Goto, mailbox, slot
  <1>4. CASE i = 0 /\ Source
    BY <1>1, <1>4 DEF Source, TestExit, CheckLive, PopFree, ThreadStep, ThreadPlaces
  <1>5. CASE i \in Inner /\ ReceiveCommand(i)
    BY <1>1, <1>2, <1>5 DEF ReceiveCommand, Wait, ThreadStep, ThreadPlaces, Prepared
  <1>6. CASE i \in Inner /\ ReadCommand(i)
    <2>1. state' \in {state, [state EXCEPT ![i] = "INIT"]}
      BY <1>3, <1>6 DEF ReadCommand, SetState, Ended
    <2>2. PICK to \in ThreadPlaces : pc' = [pc EXCEPT ![i] = to]
      BY <1>6 DEF ReadCommand, AfterRead, ThreadPlaces
    <2>3. pc[i] = "read" /\ result' = [result EXCEPT ![i] = @ + 1] /\ UNCHANGED <<plState, newCmd, cmd, cpc>>
      BY <1>6 DEF ReadCommand, Post
    <2>4. \A j \in Stages : ~Prepared(j) => result'[j] = result[j]
      BY <1>1, <2>3 DEF Prepared
    <2>5. result' \in [Stages -> Nat]
      BY <1>1, <2>3
    <2>6. pc[i] \in ThreadPlaces /\ pc[i] # "done"
      BY <2>3 DEF ThreadPlaces
    <2>7. QED
      BY <1>1, <2>1, <2>2, <2>3, <2>4, <2>5, <2>6 DEF ThreadStep
  <1>7. CASE i \in Workers /\ (SubmitJob(i) \/ AwaitResult(i) \/ SubmitStop(i))
    BY <1>1, <1>7 DEF SubmitJob, AwaitResult, SubmitStop, ThreadStep, ThreadPlaces
  <1>8. CASE i \in Workers /\ AwaitStop(i)
    <2>1. state' \in {state, [state EXCEPT ![i] = "INIT"]}
      BY <1>3, <1>8 DEF AwaitStop, SetState, Ended
    <2>2. QED
      BY <1>1, <1>8, <2>1 DEF AwaitStop, ThreadStep, ThreadPlaces
  <1>9. CASE i \in Workers /\ WaitNext(i)
    <2>1. i + 1 \in Stages /\ Prepared(i + 1)
      BY <1>9, HandedPrepared DEF WaitNext, Wait
    <2>2. QED
      BY <1>1, <1>9, <2>1 DEF WaitNext, Wait, ThreadStep, ThreadPlaces
  <1>10. CASE i \in Workers /\ (PutJob(i) \/ PutStop(i))
    <2>1. i + 1 \in Stages /\ Prepared(i + 1) /\ i + 1 # 0
      BY <1>10, HandedPrepared DEF PutJob, PutStop, Workers
    <2>2. QED
      BY <1>1, <1>2, <1>10, <2>1 DEF PutJob, PutStop, Post, ThreadStep, ThreadPlaces
  <1>11. CASE i \in Inner \cap Workers /\ (DropFrame(i) \/ KeepFrame(i))
    BY <1>1, <1>11 DEF DropFrame, KeepFrame, ThreadStep, ThreadPlaces
  <1>12. CASE i = LastStage /\ ReturnChunk
    BY <1>1, <1>12 DEF ReturnChunk, ThreadStep, ThreadPlaces
  <1>13. QED
    BY <1>4, <1>5, <1>6, <1>7, <1>8, <1>9, <1>10, <1>11, <1>12 DEF Thread, Mailbox, Work

(* A running thread changes nothing of what pipeline_thread relies on.     *)
LEMMA ThreadKeeps ==
  ASSUME SInv, NEW i \in Stages, ThreadStep(i), UNCHANGED serverVars
  PROVE  ServerTypes' /\ InTurn' /\ Unmoved' /\ Shown' /\ Joined'
  <1>1. /\ pc \in [Stages -> ThreadPlaces \cup {"none", "launch", "failed"}]
        /\ state \in [Stages -> ModuleStates]
    BY DEF SInv, ServerTypes
  <1>2. /\ \A j \in Stages : j # i => pc'[j] = pc[j]
        /\ pc[i] \in ThreadPlaces /\ pc[i] # "done" /\ pc'[i] \in ThreadPlaces
    BY <1>1 DEF ThreadStep
  <1>3. /\ \A j \in Stages : Prepared(j)' = Prepared(j)
        /\ \A j \in Stages : pc'[j] = "failed" <=> pc[j] = "failed"
        /\ \A j \in Stages : pc'[j] = "launch" <=> pc[j] = "launch"
        /\ \A j \in Stages : pc'[j] = "none" <=> pc[j] = "none"
        /\ \A j \in Stages : Ended(j) => Ended(j)' /\ j # i
    BY <1>2 DEF Prepared, Ended, ThreadPlaces
  <1>4. /\ list' = list /\ spc' = spc /\ pos' = pos /\ startControl' = startControl
        /\ idx' = idx /\ processCnt' = processCnt /\ plState' = plState /\ cpc' = cpc
    BY DEF serverVars, ThreadStep
  <1>5. ServerTypes'
    BY <1>1, <1>4 DEF SInv, ServerTypes, ThreadStep, ModuleStates
  <1>6. /\ \A k \in Listed : list[k] \in Stages
        /\ spc = "await" => Current \in Stages
    BY ListFacts DEF SInv, ServerTypes, Current
  <1>7. InTurn'
    BY <1>3, <1>4, <1>6 DEF SInv, InTurn, PreparedTo, Current
  <1>8. Unmoved'
    BY <1>3, <1>4 DEF SInv, Unmoved, ThreadStep, Current, Workers, Stages
  <1>9. \A j \in Stages : state'[j] = state[j] \/ (j = i /\ state'[j] = "INIT")
    BY <1>1 DEF ThreadStep
  <1>10. Shown'
    BY <1>3, <1>4, <1>9 DEF SInv, Shown
  <1>11. Joined'
    BY <1>3, <1>4, <1>6 DEF SInv, Joined
  <1>12. QED
    BY <1>5, <1>7, <1>8, <1>10, <1>11

(* A client changes none of it either.                                     *)
LEMMA ClientKeeps ==
  ASSUME SInv, NEW i \in Workers, Client(i), UNCHANGED serverVars
  PROVE  ServerTypes' /\ InTurn' /\ Unmoved' /\ Shown' /\ Joined'
  <1>1. /\ cpc \in [Workers -> ClientPlaces \cup {"none"}]
        /\ pc' = pc /\ state' = state /\ plState' = plState /\ cmd' = cmd /\ result' = result /\ newCmd' = newCmd
    BY DEF SInv, ServerTypes, Client, ClientTake, ClientAct, ClientAnswer, mailbox
  <1>2. \E to \in ClientPlaces : cpc[i] # "none" /\ cpc' = [cpc EXCEPT ![i] = to]
    BY DEF Client, ClientTake, ClientAct, ClientAnswer, ClientGoto, ClientPlaces
  <1>3. cpc' \in [Workers -> ClientPlaces \cup {"none"}] /\ \A j \in Workers : cpc'[j] = "none" <=> cpc[j] = "none"
    BY <1>1, <1>2 DEF ClientPlaces
  <1>4. /\ list' = list /\ spc' = spc /\ pos' = pos /\ startControl' = startControl
        /\ idx' = idx /\ processCnt' = processCnt
    BY DEF serverVars
  <1>5. ServerTypes'
    BY <1>1, <1>3, <1>4 DEF SInv, ServerTypes
  <1>6. InTurn' /\ Shown' /\ Joined'
    BY <1>1, <1>4 DEF SInv, InTurn, PreparedTo, Prepared, Shown, Joined, Ended, Current
  <1>7. Unmoved'
    BY <1>1, <1>3, <1>4 DEF SInv, Unmoved, Prepared, Ended, Current
  <1>8. QED
    BY <1>5, <1>6, <1>7

(* The slot of a module that does not wait for its client is at rest.      *)
LEMMA SlotAtRest ==
  ASSUME SInv, NEW i \in Workers
  PROVE  /\ semJob[i] \in Nat /\ semResult[i] \in Nat
         /\ pc[i] \notin {"await", "stopAwait"} =>
              semJob[i] = 0 /\ semResult[i] = 0 /\ cpc[i] \notin {"act", "answer", "leave"}
         /\ pc[i] = "stopAwait" => procCmd[i] = "STOP" /\ cpc[i] # "act" /\ (semJob[i] = 1 => semResult[i] = 0)
         /\ semResult[i] \in {0, 1}
  <1>1. i \in Stages
    BY StageSets
  <1>2. Proved!ClientTurnAt(i) /\ semJob[i] \in Nat /\ semResult[i] \in Nat
    BY DEF SInv, Proved!IInv, Proved!ClientTurn, Proved!TypeOK, Proved!Workers, Workers
  <1>3. /\ shownPc[i] \in {"await", "stopAwait"} <=> pc[i] \in {"await", "stopAwait"}
        /\ shownPc[i] = "await" <=> pc[i] = "await"
    BY <1>1 DEF shownPc, ThreadPlaces, LoopTop
  <1>4. \A c \in {"act", "answer", "leave"} : shownCpc[i] = c <=> cpc[i] = c
    BY DEF shownCpc
  <1>5. LET waiting == shownPc[i] \in {"await", "stopAwait"}
            working == shownCpc[i] \in {"act", "answer", "leave"}
        IN  /\ ~waiting => semJob[i] = 0 /\ semResult[i] = 0 /\ ~working
            /\ waiting => /\ procCmd[i] = IF shownPc[i] = "await" THEN "JOB" ELSE "STOP"
                          /\ shownPc[i] # "await" => shownCpc[i] # "act"
                          /\ \/ semJob[i] = 1 /\ semResult[i] = 0
                             \/ semJob[i] = 0 /\ semResult[i] = 0
                             \/ semJob[i] = 0 /\ semResult[i] = 1
    BY <1>2 DEF Proved!ClientTurnAt, shownPc, shownCpc
  <1>6. QED
    BY <1>2, <1>3, <1>4, <1>5

(* A client told to stop leaves, and its thread ends only then.            *)
LEMMA ClientsStillLeave ==
  ASSUME SInv, UNCHANGED serverVars,
         (\E i \in Stages : Thread(i)) \/ (\E i \in Workers : Client(i))
  PROVE  ClientsLeave'
  <1> SUFFICES ASSUME NEW j \in Workers
               PROVE  /\ pc'[j] = "stopAwait" => cpc'[j] # "answer" /\ (semResult'[j] = 1 => cpc'[j] = "gone")
                      /\ pc'[j] = "done" => cpc'[j] = "gone"
    BY DEF ClientsLeave
  <1>1. /\ pc \in [Stages -> ThreadPlaces \cup {"none", "launch", "failed"}]
        /\ cpc \in [Workers -> ClientPlaces \cup {"none"}] /\ j \in Stages /\ j # LastStage
        /\ semResult \in [Workers -> Nat]
    <2>1. j \in Stages /\ j # LastStage
      BY StageSets DEF Workers
    <2>2. semResult \in [Workers -> Nat]
      BY DEF SInv, Proved!IInv, Proved!TypeOK, Proved!Workers, Workers
    <2>3. QED
      BY <2>1, <2>2 DEF SInv, ServerTypes
  <1>2. /\ pc[j] = "stopAwait" => cpc[j] # "answer" /\ (semResult[j] = 1 => cpc[j] = "gone")
        /\ pc[j] = "done" => cpc[j] = "gone"
    BY DEF SInv, ClientsLeave
  <1>3. ASSUME NEW i \in Stages, Thread(i)
        PROVE  /\ cpc' = cpc
               /\ \/ pc'[j] = pc[j] /\ semResult'[j] = semResult[j]
                  \/ pc'[j] \notin {"stopAwait", "done"}
                  \/ pc[j] = "stopJob" /\ semResult' = semResult /\ pc'[j] = "stopAwait"
                  \/ pc[j] = "stopAwait" /\ semResult[j] > 0
    <2> USE <1>1, <1>3 DEF Goto, slot
    <2>1. CASE Source \/ ReturnChunk
      BY <2>1 DEF Source, TestExit, CheckLive, PopFree, ReturnChunk
    <2>2. CASE Mailbox(i)
      BY <2>2 DEF Mailbox, ReceiveCommand, ReadCommand, AfterRead
    <2>3. CASE SubmitJob(i) \/ AwaitResult(i) \/ SubmitStop(i)
      BY <2>3 DEF SubmitJob, AwaitResult, SubmitStop, Wait
    <2>4. CASE AwaitStop(i)
      BY <2>4 DEF AwaitStop, Wait
    <2>5. CASE WaitNext(i) \/ PutJob(i) \/ PutStop(i)
      BY <2>5 DEF WaitNext, PutJob, PutStop
    <2>6. CASE DropFrame(i) \/ KeepFrame(i)
      BY <2>6 DEF DropFrame, KeepFrame
    <2>7. QED
      BY <2>1, <2>2, <2>3, <2>4, <2>5, <2>6 DEF Thread, Work
  <1>4. ASSUME NEW i \in Workers, Client(i), i # j
        PROVE  pc' = pc /\ cpc'[j] = cpc[j] /\ semResult'[j] = semResult[j]
    BY <1>1, <1>4 DEF Client, ClientTake, ClientAct, ClientAnswer, ClientGoto, Post
  <1>5. ASSUME Client(j)
        PROVE  /\ pc' = pc
               /\ \/ cpc[j] = "wait" /\ semJob[j] > 0 /\ semResult' = semResult
                     /\ cpc'[j] = IF procCmd[j] = "STOP" THEN "leave" ELSE "act"
                  \/ cpc[j] = "act"
                  \/ cpc[j] = "answer"
                  \/ cpc[j] = "leave" /\ cpc'[j] = "gone"
    BY <1>1, <1>5 DEF Client, ClientTake, ClientAct, ClientAnswer, ClientGoto, Wait
  <1>6. CASE \E i \in Stages : Thread(i)
    BY <1>2, <1>3, <1>6, SlotAtRest
  <1>7. CASE \E i \in Workers : Client(i) /\ i # j
    BY <1>2, <1>4, <1>7
  <1>8. CASE Client(j)
    BY <1>2, <1>5, <1>8, SlotAtRest
  <1>9. QED
    BY <1>6, <1>7, <1>8

-----------------------------------------------------------------------------
(* The steps of pipeline_thread and of threads that are being started.     *)

(* What PipelineProofs shows of its steps holds of those of the mapping.   *)
LEMMA ProvedNext == Proved!IInv /\ [Proved!Next]_(Proved!vars) => Proved!IInv'
  BY Proved!NextIInv, LastStageAssumption, DataCntAssumption, StatusesAssumption, CrashAssumption
  DEF StatusOk, StatusStop, StatusDrop, Proved!StatusOk, Proved!StatusDrop, Proved!StatusStop

\* the mapping shows nothing of the step
NothingShown ==
  /\ shownPc' = shownPc /\ ShownStill
  /\ UNCHANGED <<off, newCmd, dataoffset, free, semJob, semResult, procCmd, procOff, cmdResult, visited>>

(* A step the mapping hides.                                               *)
LEMMA Hidden ==
  ASSUME Proved!IInv, NothingShown, exitFlag' = exitFlag PROVE Proved!IInv' /\ Threads!vars' = Threads!vars
  <1>1. Proved!vars' = Proved!vars
    BY DEF Proved!vars, NothingShown, ShownStill, shownPc, shownState, shownPl, shownResult,
           shownCmd, shownCpc
  <1>2. Threads!vars' = Threads!vars
    BY DEF Threads!vars, NothingShown, ShownStill, shownPc, shownState, shownPl, shownResult,
           shownCmd, shownCpc
  <1>3. QED
    BY <1>1, <1>2, ProvedNext

(* Behind position p of the list the next module is the one to prepare.    *)
LEMMA PreparedAt ==
  ASSUME ServerTypes, NEW p \in Listed
  PROVE  /\ list[p] \in Stages
         /\ \A k \in Listed : list[k] = list[p] <=> k = p
  BY ListFacts DEF ServerTypes

(* The next module of the list is prepared; its zeroed fields were shown   *)
(* as prepared.                                                            *)
LEMMA StartModuleKeeps == ASSUME SInv, StartModule PROVE SInv' /\ Threads!vars' = Threads!vars
  <1>1. /\ list \in Lists /\ pos \in Listed /\ Current \in Stages
        /\ \A k \in Listed : list[k] \in Stages /\ (list[k] = Current <=> k = pos)
        /\ \A j \in Stages : \E k \in Listed : list[k] = j
    BY PreparedAt, ListFacts DEF SInv, ServerTypes, StartModule, ServerGoto, Current
  <1>2. /\ pc \in [Stages -> ThreadPlaces \cup {"none", "launch", "failed"}]
        /\ state \in [Stages -> ModuleStates] /\ idx \in [Stages -> Int]
        /\ cmd \in [Stages -> {"JOB", "STOP"}] /\ result \in [Stages -> Nat]
        /\ newCmd \in [Stages -> Nat]
    BY DEF SInv, ServerTypes, Proved!IInv, Proved!TypeOK, Proved!Stages, Stages
  <1>3. PreparedTo(pos - 1) /\ plState = "UNKNOWN" /\ \A j \in Stages : pc[j] # "failed"
    BY DEF SInv, InTurn, Shown, StartModule, ServerGoto
  <1>4. pc[Current] = "none" /\ result[Current] = 0 /\ newCmd[Current] = 0
    <2>1. pos \in Int /\ ~(pos <= pos - 1)
      BY <1>1 DEF Listed
    <2>2. ~Prepared(Current)
      BY <1>1, <1>3, <2>1 DEF PreparedTo
    <2>3. QED
      BY <1>1, <2>2 DEF Prepared, SInv, Unmoved
  <1>5. /\ pc' = [pc EXCEPT ![Current] = "launch"] /\ idx' = [idx EXCEPT ![Current] = Initialised]
        /\ state' = [state EXCEPT ![Current] = "UNKNOWN"] /\ newCmd' = [newCmd EXCEPT ![Current] = 0]
        /\ result' = [result EXCEPT ![Current] = 1] /\ cmd' = [cmd EXCEPT ![Current] = "JOB"]
        /\ UNCHANGED <<list, pos, realStarted, startControl, processCnt, exitFlag, plState, flow, cpc>>
        /\ spc = "start" /\ spc' = "await"
    BY DEF StartModule, ServerGoto
  <1>6. NothingShown
    <2>1. newCmd' = newCmd
      BY <1>1, <1>2, <1>4, <1>5
    <2>2. shownPc' = shownPc
      BY <1>1, <1>2, <1>4, <1>5 DEF shownPc, LoopTop, ThreadPlaces
    <2>3. shownState' = shownState /\ shownPl' = shownPl
      BY <1>3, <1>5 DEF shownState, shownPl, StateShown
    <2>4. shownResult' = shownResult /\ shownCmd' = shownCmd /\ shownCpc' = shownCpc
      BY <1>1, <1>2, <1>4, <1>5 DEF shownResult, shownCmd, shownCpc, Prepared
    <2>5. QED
      BY <1>5, <2>1, <2>2, <2>3, <2>4 DEF NothingShown, ShownStill, flow
  <1>7. /\ \A j \in Stages : j # Current => pc'[j] = pc[j] /\ idx'[j] = idx[j] /\ state'[j] = state[j] /\ result'[j] = result[j]
        /\ pc'[Current] = "launch" /\ idx'[Current] = Initialised /\ state'[Current] = "UNKNOWN" /\ newCmd' = newCmd
        /\ Current' = Current /\ Initialised # NotStarted /\ Initialised # Destroyed
    BY <1>1, <1>2, <1>5, <1>6 DEF Current, Initialised, NotStarted, Destroyed, NothingShown
  <1>8. ServerTypes'
    BY <1>1, <1>2, <1>5 DEF SInv, ServerTypes, ModuleStates, Initialised
  <1>9. PreparedTo(pos)'
    BY <1>1, <1>3, <1>5, <1>7 DEF PreparedTo, Prepared, Listed
  <1>10. InTurn'
    BY <1>1, <1>3, <1>5, <1>7, <1>9 DEF SInv, InTurn, Listed
  <1>11. Unmoved'
    BY <1>1, <1>4, <1>5, <1>7, StageSets DEF SInv, Unmoved, Prepared, Ended
  <1>12. Shown' /\ Joined'
    BY <1>1, <1>3, <1>4, <1>5, <1>7 DEF SInv, Shown, Joined, Ended
  <1>13. ClientsLeave'
    BY <1>4, <1>5, <1>7, StageSets DEF SInv, ClientsLeave, flow
  <1>14. QED
    BY <1>5, <1>6, <1>8, <1>10, <1>11, <1>12, <1>13, Hidden DEF SInv

(* pipeline_thread goes on after a module that came up: none before it     *)
(* failed.                                                                 *)
LEMMA AwaitStartedKeeps == ASSUME SInv, AwaitStarted PROVE SInv' /\ Threads!vars' = Threads!vars
  <1>1. /\ list \in Lists /\ pos \in Listed /\ Current \in Stages
        /\ \A k \in Listed : list[k] \in Stages /\ (list[k] = Current <=> k = pos)
        /\ \A j \in Stages : \E k \in Listed : list[k] = j
    BY PreparedAt, ListFacts DEF SInv, ServerTypes, AwaitStarted, ServerGoto, Current
  <1>2. state \in [Stages -> ModuleStates]
    BY DEF SInv, ServerTypes
  <1>3. /\ spc = "await" /\ spc' = (IF pos = LastStage + 1 THEN "settle" ELSE "start") /\ pos' = pos + 1
        /\ startControl > 0 /\ startControl' = startControl - 1 /\ idx[Current] # NotStarted
        /\ SetState(Current, "INIT")
        /\ UNCHANGED <<list, idx, processCnt, exitFlag, plState, pc, newCmd, result, cmd, flow, cpc>>
    BY DEF AwaitStarted, ServerGoto, After
  <1>4. PreparedTo(pos) /\ startControl = 1 /\ pc[Current] # "launch" /\ plState = "UNKNOWN"
    BY <1>3 DEF SInv, InTurn, Shown
  <1>5. \A j \in Stages : state'[j] = state[j] \/ state'[j] = "INIT"
    BY <1>1, <1>2, <1>3 DEF SetState
  <1>6. NothingShown
    BY <1>3, <1>4
    DEF NothingShown, ShownStill, shownPc, shownState, StateShown, shownPl, shownResult, shownCmd,
        shownCpc, Prepared, LoopTop, flow
  <1>7. \A j \in Stages : pc[j] # "failed" /\ pc[j] # "launch"
    <2>1. pc[Current] # "failed"
      BY <1>1, <1>3 DEF SInv, InTurn, Joined
    <2>2. ASSUME NEW k \in Listed, k # pos PROVE pc[list[k]] # "failed"
      <3>1. CASE k < pos
        <4>1. Prepared(list[pos])
          BY <1>1, <1>4 DEF PreparedTo, Listed
        <4>2. QED
          BY <1>1, <3>1, <4>1 DEF SInv, InTurn
      <3>2. CASE k > pos
        BY <1>1, <1>4, <3>2 DEF PreparedTo, Prepared, Listed
      <3>3. QED
        BY <1>1, <2>2, <3>1, <3>2 DEF Listed
    <2>3. QED
      BY <1>1, <1>4, <2>1, <2>2 DEF SInv, InTurn
  <1>8. ServerTypes'
    BY <1>1, <1>2, <1>3, <1>4 DEF SInv, ServerTypes, ModuleStates, SetState, Listed
  <1>9. InTurn'
    <2>1. \A j \in Stages : pc'[j] # "failed" /\ pc'[j] # "launch"
      BY <1>3, <1>7
    <2>2. PreparedTo(pos - 1)'
      <3>1. pos' - 1 = pos
        BY <1>1, <1>3 DEF Listed
      <3>2. \A k \in Listed : (pc'[list'[k]] # "none") <=> k <= pos
        BY <1>3, <1>4 DEF PreparedTo, Prepared
      <3>3. QED
        BY <3>1, <3>2 DEF PreparedTo, Prepared
    <2>3. \E p \in 0..LastStage + 1 : PreparedTo(p)'
      BY <1>3 DEF SInv, InTurn, PreparedTo, Prepared
    <2>4. \A k \in Listed : pc'[list'[k]] # "failed"
      BY <1>1, <1>3, <1>7
    <2>5. spc' \in {"start", "settle"} /\ startControl' = 0
      BY <1>3, <1>4
    <2>6. QED
      BY <2>1, <2>2, <2>3, <2>4, <2>5 DEF InTurn
  <1>10. Unmoved'
    BY <1>3 DEF SInv, Unmoved, Prepared, Ended, flow
  <1>11. Shown'
    BY <1>3, <1>4, <1>5 DEF SInv, Shown, Ended
  <1>12. Joined' /\ ClientsLeave'
    BY <1>3 DEF SInv, Joined, ClientsLeave, Ended, flow
  <1>13. QED
    BY <1>3, <1>6, <1>8, <1>9, <1>10, <1>11, <1>12, Hidden DEF SInv

(* It stops starting modules after one that did not.                       *)
LEMMA AwaitFailedKeeps == ASSUME SInv, AwaitFailed PROVE SInv' /\ Threads!vars' = Threads!vars
  <1>1. /\ spc = "await" /\ spc' = "joinFailed" /\ startControl > 0 /\ startControl' = startControl - 1
        /\ idx[Current] = NotStarted /\ UNCHANGED <<list, pos, realStarted, idx, processCnt, vars>>
    BY DEF AwaitFailed, ServerGoto
  <1>2. PreparedTo(pos) /\ startControl = 1 /\ pc[Current] # "launch"
    BY <1>1 DEF SInv, InTurn
  <1>3. NothingShown /\ UNCHANGED <<pc, state, plState, result, cmd, newCmd, cpc, semResult, exitFlag>>
    BY <1>1
    DEF vars, NothingShown, ShownStill, shownPc, shownState, StateShown, shownPl, shownResult,
        shownCmd, shownCpc, Prepared, LoopTop
  <1>4. ServerTypes'
    BY <1>1, <1>2, <1>3 DEF SInv, ServerTypes
  <1>5. InTurn'
    BY <1>1, <1>2, <1>3 DEF SInv, InTurn, PreparedTo, Prepared, Current
  <1>6. Unmoved'
    BY <1>1, <1>3 DEF SInv, Unmoved, Prepared, Ended, Current
  <1>7. Shown' /\ Joined' /\ ClientsLeave'
    BY <1>1, <1>3 DEF SInv, Shown, Joined, ClientsLeave, Ended
  <1>8. QED
    BY <1>3, <1>4, <1>5, <1>6, <1>7, Hidden DEF SInv

(* The failed module's thread has ended when its state becomes ERROR.      *)
LEMMA JoinFailedKeeps == ASSUME SInv, JoinFailed PROVE SInv' /\ Threads!vars' = Threads!vars
  <1>1. list \in Lists /\ pos \in Listed /\ Current \in Stages /\ state \in [Stages -> ModuleStates]
    BY PreparedAt DEF SInv, ServerTypes, JoinFailed, ServerGoto, Current
  <1>2. /\ spc = "joinFailed" /\ spc' = "settle" /\ Ended(Current) /\ SetState(Current, "ERROR") /\ plState' = "ERROR"
        /\ UNCHANGED <<list, pos, realStarted, startControl, idx, processCnt, exitFlag, pc, newCmd, result, cmd,
                       flow, cpc>>
    BY DEF JoinFailed, ServerGoto, Ended
  <1>3. plState # "LIVE" /\ \A j \in Stages : state[j] # "LIVE"
    BY <1>2 DEF SInv, Shown
  <1>4. \A j \in Stages : state'[j] = state[j] \/ (j = Current /\ state'[j] = "ERROR")
    BY <1>1, <1>2 DEF SetState
  <1>5. NothingShown
    BY <1>2, <1>3
    DEF NothingShown, ShownStill, shownPc, shownState, StateShown, shownPl, shownResult, shownCmd,
        shownCpc, Prepared, LoopTop, flow
  <1>6. ServerTypes'
    BY <1>1, <1>2 DEF SInv, ServerTypes, ModuleStates, SetState
  <1>7. InTurn'
    BY <1>2 DEF SInv, InTurn, PreparedTo, Prepared, Current
  <1>8. Unmoved'
    BY <1>2 DEF SInv, Unmoved, Prepared, Ended, flow
  <1>9. Shown'
    BY <1>2, <1>3, <1>4 DEF SInv, Shown, Ended
  <1>10. Joined' /\ ClientsLeave'
    BY <1>2 DEF SInv, Joined, ClientsLeave, Ended, flow
  <1>11. QED
    BY <1>2, <1>5, <1>6, <1>7, <1>8, <1>9, <1>10, Hidden DEF SInv

(* The pipeline is INIT or ERROR, which a thread does not tell apart.      *)
LEMMA SettleKeeps == ASSUME SInv, Settle PROVE SInv' /\ Threads!vars' = Threads!vars
  <1>1. /\ spc = "settle" /\ spc' = "live" /\ plState' \in {"INIT", "ERROR"}
        /\ UNCHANGED <<list, pos, realStarted, startControl, idx, processCnt, exitFlag, state, pc, newCmd, result,
                       cmd, flow, cpc>>
    BY DEF Settle, ServerGoto
  <1>2. plState # "LIVE"
    BY <1>1 DEF SInv, Shown
  <1>3. NothingShown
    BY <1>1, <1>2
    DEF NothingShown, ShownStill, shownPc, shownState, StateShown, shownPl, shownResult, shownCmd,
        shownCpc, Prepared, LoopTop, flow
  <1>4. ServerTypes'
    BY <1>1 DEF SInv, ServerTypes, ModuleStates
  <1>5. InTurn' /\ Unmoved' /\ Joined' /\ ClientsLeave'
    BY <1>1
    DEF SInv, InTurn, Unmoved, Joined, ClientsLeave, PreparedTo, Prepared, Ended, Current, flow
  <1>6. Shown'
    BY <1>1, <1>2 DEF SInv, Shown, Ended
  <1>7. QED
    BY <1>1, <1>3, <1>4, <1>5, <1>6, Hidden DEF SInv

(* Nothing PipelineProofs shows but the types depends on the states: they  *)
(* may be reset when a module or the pipeline is destroyed.                *)
LEMMA StatesReset ==
  ASSUME Proved!IInv, shownPc' = shownPc, shownResult' = shownResult, shownCmd' = shownCmd, shownCpc' = shownCpc,
         UNCHANGED <<off, newCmd, dataoffset, free, semJob, semResult, procCmd, procOff, cmdResult, visited>>,
         exitFlag' \in BOOLEAN, shownState' \in [Stages -> ModuleStates]
  PROVE  Proved!IInv'
  <1> USE DEF Proved!IInv, shownPc, shownResult, shownCmd, shownCpc, shownState
  <1>1. Proved!TypeOK'
    BY DEF Proved!TypeOK, Proved!Stages, Stages, Proved!ModuleStates, ModuleStates
  <1>2. Proved!RealChunks'
    BY DEF Proved!RealChunks, Proved!Holds, Proved!Boxed
  <1>3. Proved!MailboxTurn'
    BY DEF Proved!MailboxTurn, Proved!MailboxTurnAt
  <1>4. Proved!ClientTurn'
    BY DEF Proved!ClientTurn, Proved!ClientTurnAt
  <1>5. Proved!Owned'
    <2>1. \A i : Proved!Holds(i)' = Proved!Holds(i) /\ Proved!Boxed(i)' = Proved!Boxed(i)
      BY DEF Proved!Holds, Proved!Boxed
    <2>2. Proved!SingleOwner'
      BY <2>1 DEF Proved!Owned, Proved!SingleOwner
    <2>3. Proved!NoChunkLost'
      BY <2>1 DEF Proved!Owned, Proved!NoChunkLost
    <2>4. QED
      BY <2>2, <2>3 DEF Proved!Owned
  <1>6. Proved!StopOrder'
    BY DEF Proved!StopOrder, Proved!Stopping, Proved!StopSent
  <1>7. Proved!FrameProgress'
    BY DEF Proved!FrameProgress, Proved!Todo, Proved!Worked, Proved!Boxed
  <1>8. QED
    BY <1>1, <1>2, <1>3, <1>4, <1>5, <1>6, <1>7

(* Turned LIVE, running modules show it; or the pipeline stays as it is.   *)
LEMMA TurnLiveKeeps ==
  ASSUME SInv, TurnLive PROVE SInv' /\ (Threads!GoLive \/ Threads!vars' = Threads!vars)
  <1>1. /\ spc = "live" /\ spc' = "join" /\ pos' = 1
        /\ UNCHANGED <<list, realStarted, startControl, idx, processCnt, exitFlag, pc, off, mailbox, free, cpc, slot,
                       visited>>
        /\ \/ GoLive
           \/ plState # "INIT" /\ plState' = plState /\ state' = state
    BY DEF TurnLive, ServerGoto, GoLive, vars, mailbox, slot
  <1>2. /\ plState # "LIVE" /\ state \in [Stages -> ModuleStates] /\ plState \in ModuleStates
        /\ \A j \in Stages : state[j] # "LIVE" /\ (state[j] = "ERROR" => Ended(j))
    BY <1>1 DEF SInv, Shown, ServerTypes
  <1>3. /\ state' \in [Stages -> ModuleStates] /\ plState' \in ModuleStates
        /\ plState' # "LIVE" => state' = state
        /\ plState' = "LIVE" => \A j \in Stages : state'[j] = IF state[j] = "ERROR" THEN "ERROR" ELSE "LIVE"
    BY <1>1, <1>2 DEF GoLive, ModuleStates
  <1>4. ServerTypes'
    BY <1>1, <1>3 DEF SInv, ServerTypes, mailbox, Listed
  <1>5. InTurn' /\ ClientsLeave'
    BY <1>1 DEF SInv, InTurn, ClientsLeave, PreparedTo, Prepared, mailbox, slot
  <1>6. Unmoved'
    BY <1>1 DEF SInv, Unmoved, Prepared, Ended, mailbox
  <1>7. Shown'
    BY <1>1, <1>2, <1>3 DEF Shown, Ended
  <1>8. Joined'
    <2>1. \A j \in Stages : idx'[j] # Destroyed
      BY <1>1 DEF SInv, Joined
    <2>2. \A k \in Listed : list'[k] \in Stages /\ ~(k < pos')
      BY <1>1, ListFacts DEF SInv, ServerTypes, Listed
    <2>3. QED
      BY <1>1, <2>1, <2>2 DEF Joined
  <1>9. shownPc' = shownPc /\ shownResult' = shownResult /\ shownCmd' = shownCmd /\ shownCpc' = shownCpc
    BY <1>1 DEF shownPc, shownResult, shownCmd, shownCpc, Prepared, LoopTop, mailbox
  <1>10. CASE plState' = plState /\ state' = state
    <2>1. NothingShown
      BY <1>1, <1>9, <1>10
      DEF NothingShown, ShownStill, shownState, StateShown, shownPl, mailbox, slot
    <2>2. QED
      BY <1>1, <1>4, <1>5, <1>6, <1>7, <1>8, <2>1, Hidden DEF SInv
  <1>11. CASE GoLive
    <2>1. shownPl = "INIT" /\ shownPl' = "LIVE" /\ shownState = [j \in Stages |-> "INIT"]
          /\ shownState' = [j \in Stages |-> "LIVE"]
      BY <1>2, <1>3, <1>11 DEF GoLive, shownPl, shownState, StateShown
    <2>2. shownState' = [j \in Stages |-> IF shownState[j] = "ERROR" THEN "ERROR" ELSE "LIVE"]
      BY <2>1
    <2>3. Threads!GoLive
      BY <1>1, <1>9, <2>1, <2>2
      DEF Threads!GoLive, Threads!mailbox, Threads!slot, Threads!Stages, Stages, mailbox, slot,
          shownPl, shownState, shownPc, shownResult, shownCmd, shownCpc
    <2>4. Proved!IInv'
      BY <2>3, SameSteps, ProvedNext DEF SInv, Proved!Next
    <2>5. QED
      BY <1>4, <1>5, <1>6, <1>7, <1>8, <2>3, <2>4 DEF SInv
  <1>12. QED
    BY <1>1, <1>10, <1>11

(* The module joined has ended, whether it ran, failed or was never        *)
(* created.                                                                *)
LEMMA JoinModuleKeeps == ASSUME SInv, JoinModule PROVE SInv'
  <1>1. /\ list \in Lists /\ pos \in Listed /\ Current \in Stages
        /\ \A k \in Listed : list[k] \in Stages /\ (list[k] = Current <=> k = pos)
        /\ \A j \in Stages : \E k \in Listed : list[k] = j
    BY PreparedAt, ListFacts DEF SInv, ServerTypes, JoinModule, ServerGoto, Current
  <1>2. /\ spc = "join" /\ spc' = (IF pos = LastStage + 1 THEN "free" ELSE "join") /\ pos' = pos + 1
        /\ idx' = [idx EXCEPT ![Current] = Destroyed] /\ state' = [state EXCEPT ![Current] = "UNKNOWN"]
        /\ idx[Current] # NotStarted => pc[Current] = "done"
        /\ UNCHANGED <<list, realStarted, startControl, processCnt, exitFlag, plState, pc, newCmd, result, cmd, flow,
                       cpc>>
    BY DEF JoinModule, ServerGoto, After
  <1>3. Ended(Current)
    BY <1>1, <1>2 DEF SInv, Unmoved, Ended
  <1>4. idx \in [Stages -> Int] /\ state \in [Stages -> ModuleStates]
    BY DEF SInv, ServerTypes
  <1>5. /\ \A j \in Stages : j # Current => idx'[j] = idx[j] /\ state'[j] = state[j]
        /\ idx'[Current] = Destroyed /\ state'[Current] = "UNKNOWN" /\ Destroyed # NotStarted
    BY <1>1, <1>2, <1>4 DEF Destroyed, NotStarted
  <1>6. ServerTypes'
    BY <1>1, <1>2, <1>4 DEF SInv, ServerTypes, ModuleStates, Destroyed, Listed
  <1>7. InTurn'
    BY <1>1, <1>2, <1>5 DEF SInv, InTurn, PreparedTo, Prepared, Listed
  <1>8. Unmoved'
    BY <1>2, <1>5 DEF SInv, Unmoved, Prepared, Ended, flow
  <1>9. Shown'
    BY <1>2, <1>3, <1>5 DEF SInv, Shown, Ended
  <1>10. Joined'
    <2>1. \A k \in Listed : idx'[list[k]] = Destroyed <=> k < pos + 1
      BY <1>1, <1>2, <1>5 DEF SInv, Joined, Listed
    <2>2. \A j \in Stages : idx'[j] = Destroyed => Ended(j)'
      BY <1>2, <1>3, <1>5 DEF SInv, Joined, Ended
    <2>3. spc' = "free" => \A j \in Stages : idx'[j] = Destroyed
      BY <1>1, <1>2, <2>1 DEF Listed
    <2>4. QED
      BY <1>2, <2>1, <2>2, <2>3 DEF Joined
  <1>11. ClientsLeave'
    BY <1>2 DEF SInv, ClientsLeave, flow
  <1>12. Proved!IInv'
    <2>1. shownPc' = shownPc /\ shownResult' = shownResult /\ shownCmd' = shownCmd /\ shownCpc' = shownCpc
      BY <1>2 DEF shownPc, shownResult, shownCmd, shownCpc, Prepared, LoopTop
    <2>2. shownState' \in [Stages -> ModuleStates]
      BY <1>6 DEF ServerTypes, shownState, StateShown, ModuleStates
    <2>3. exitFlag' \in BOOLEAN
      BY <1>2 DEF SInv, Proved!IInv, Proved!TypeOK
    <2>4. QED
      BY <1>2, <2>1, <2>2, <2>3, StatesReset DEF SInv, flow
  <1>13. QED
    BY <1>6, <1>7, <1>8, <1>9, <1>10, <1>11, <1>12 DEF SInv

(* pipeline_destroy touches states and the exit flag only.                 *)
LEMMA DestroyPipelineKeeps == ASSUME SInv, DestroyPipeline PROVE SInv'
  <1>1. /\ spc = "done" /\ spc' = "deleted" /\ plState' = "UNKNOWN" /\ exitFlag' = TRUE
        /\ state' = [i \in Stages |-> IF state[i] = "ERROR" THEN "ERROR" ELSE "UNKNOWN"]
        /\ UNCHANGED <<list, pos, realStarted, startControl, idx, processCnt, pc, newCmd, result, cmd, flow, cpc>>
    BY DEF DestroyPipeline, ServerGoto
  <1>2. ServerTypes'
    BY <1>1 DEF SInv, ServerTypes, ModuleStates
  <1>3. InTurn' /\ ClientsLeave'
    BY <1>1 DEF SInv, InTurn, ClientsLeave, PreparedTo, Prepared, flow
  <1>4. Unmoved' /\ Shown' /\ Joined'
    BY <1>1 DEF SInv, Unmoved, Shown, Joined, Prepared, Ended
  <1>5. Proved!IInv'
    <2>1. shownPc' = shownPc /\ shownResult' = shownResult /\ shownCmd' = shownCmd /\ shownCpc' = shownCpc
      BY <1>1 DEF shownPc, shownResult, shownCmd, shownCpc, Prepared, LoopTop
    <2>2. shownState' \in [Stages -> ModuleStates]
      BY <1>1 DEF shownState, StateShown, ModuleStates
    <2>3. QED
      BY <1>1, <2>1, <2>2, StatesReset DEF SInv, flow
  <1>6. QED
    BY <1>2, <1>3, <1>4, <1>5 DEF SInv

(* The process table is cleared when nobody waits for a client.            *)
LEMMA FreeTableKeeps == ASSUME SInv, FreeTable PROVE SInv'
  <1>1. /\ spc = "free" /\ spc' = "done"
        /\ semJob' = [i \in Workers |-> 0] /\ semResult' = [i \in Workers |-> 0]
        /\ procCmd' = [i \in Workers |-> "STOP"] /\ procOff' = [i \in Workers |-> 0]
        /\ cmdResult' = [i \in Workers |-> StatusOk]
        /\ UNCHANGED <<list, pos, realStarted, startControl, idx, processCnt, exitFlag, plState, state, pc, newCmd,
                       result, cmd, dataoffset, off, free, visited, cpc>>
    BY DEF FreeTable, ServerGoto, mailbox
  <1>2. \A j \in Stages : Ended(j)
    BY <1>1 DEF SInv, Joined
  <1>3. \A j \in Stages : shownPc[j] \in {"test", "recv", "done"}
    BY <1>2 DEF shownPc, Ended, ThreadPlaces, LoopTop
  <1>4. /\ shownPc' = shownPc /\ shownState' = shownState /\ shownPl' = shownPl
        /\ shownResult' = shownResult /\ shownCmd' = shownCmd /\ shownCpc' = shownCpc
    BY <1>1
    DEF shownPc, shownState, StateShown, shownPl, shownResult, shownCmd, shownCpc, Prepared,
        LoopTop
  <1>5. ServerTypes'
    BY <1>1 DEF SInv, ServerTypes
  <1>6. InTurn' /\ Unmoved' /\ Shown' /\ Joined'
    BY <1>1 DEF SInv, InTurn, Unmoved, Shown, Joined, PreparedTo, Prepared, Ended, Current
  <1>7. ClientsLeave'
    BY <1>1, <1>2, StageSets DEF SInv, ClientsLeave, Ended
  <1>8. Proved!IInv'
    <2> USE DEF Proved!IInv, shownPc, shownState, shownPl, shownResult, shownCmd, shownCpc
    <2>1. Proved!TypeOK'
      BY <1>1, <1>4 DEF SInv, Proved!TypeOK, Proved!Workers, Workers, StatusOk, Proved!StatusOk
    <2>2. Proved!RealChunks' /\ Proved!MailboxTurn'
      BY <1>1, <1>4
      DEF SInv, Proved!RealChunks, Proved!Holds, Proved!Boxed, Proved!MailboxTurn,
          Proved!MailboxTurnAt
    <2>3. Proved!ClientTurn'
      <3>1. \A j \in Workers : cpc[j] \notin {"act", "answer", "leave"}
        BY <1>2, SlotAtRest, StageSets DEF Ended
      <3>2. \A j \in Workers : shownCpc[j] \notin {"act", "answer", "leave"}
        BY <3>1
      <3>3. \A j \in Workers : shownPc[j] \notin {"await", "stopAwait"} /\ semJob'[j] = 0 /\ semResult'[j] = 0
        BY <1>1, <1>3, StageSets
      <3>4. QED
        BY <1>4, <3>2, <3>3 DEF Proved!ClientTurn, Proved!ClientTurnAt, Proved!Workers, Workers
    <2>4. Proved!Owned'
      <3>1. \A i : Proved!Holds(i)' = Proved!Holds(i) /\ Proved!Boxed(i)' = Proved!Boxed(i)
        BY <1>1, <1>4 DEF Proved!Holds, Proved!Boxed
      <3>2. Proved!SingleOwner'
        BY <1>1, <3>1 DEF SInv, Proved!Owned, Proved!SingleOwner
      <3>3. Proved!NoChunkLost'
        BY <1>1, <3>1 DEF SInv, Proved!Owned, Proved!NoChunkLost
      <3>4. QED
        BY <3>2, <3>3 DEF Proved!Owned
    <2>5. Proved!StopOrder'
      BY <1>4 DEF SInv, Proved!StopOrder, Proved!Stopping, Proved!StopSent
    <2>6. Proved!FrameProgress'
      <3>1. \A j \in Stages : ~Proved!Todo(j)' /\ ~Proved!Worked(j)'
        BY <1>3, <1>4 DEF Proved!Todo, Proved!Worked
      <3>2. \A j \in Inner : Proved!Boxed(j)' = Proved!Boxed(j)
        BY <1>1, <1>4 DEF Proved!Boxed
      <3>3. (\A j \in Inner : j \in Stages) /\ (\A j \in Workers : j \in Stages)
        BY StageSets
      <3>4. QED
        BY <1>1, <3>1, <3>2, <3>3
        DEF SInv, Proved!FrameProgress, Proved!Inner, Inner, Proved!Workers, Workers
    <2>7. QED
      BY <2>1, <2>2, <2>3, <2>4, <2>5, <2>6
  <1>9. QED
    BY <1>5, <1>6, <1>7, <1>8 DEF SInv

(* The module whose thread comes up is the one pipeline_thread waits for.  *)
LEMMA Launching ==
  ASSUME SInv, NEW i \in Stages, pc[i] = "launch"
  PROVE  /\ spc = "await" /\ i = Current /\ startControl = 0 /\ pos \in Listed /\ plState = "UNKNOWN"
         /\ PreparedTo(pos) /\ \A k \in Listed : list[k] \in Stages /\ (list[k] = i <=> k = pos)
         /\ \A j \in Stages : j # i => pc[j] # "launch"
         /\ \A k \in Listed : pc[list[k]] # "failed"
  <1>1. spc = "await" /\ i = Current /\ \A j \in Stages : pc[j] = "launch" => j = Current
    BY DEF SInv, InTurn
  <1>2. startControl = 0 /\ PreparedTo(pos) /\ pos \in Listed /\ plState = "UNKNOWN"
    BY <1>1 DEF SInv, InTurn, ServerTypes, Shown
  <1>3. \A k \in Listed : list[k] \in Stages /\ (list[k] = i <=> k = pos)
    BY <1>1, <1>2, PreparedAt DEF SInv, Current
  <1>4. ASSUME NEW k \in Listed PROVE pc[list[k]] # "failed"
    <2>1. CASE k < pos
      <3>1. Prepared(list[pos])
        BY <1>2 DEF PreparedTo, Listed
      <3>2. QED
        BY <1>2, <2>1, <3>1 DEF SInv, InTurn
    <2>2. CASE k = pos
      BY <1>3, <2>2
    <2>3. CASE k > pos
      BY <1>2, <2>3 DEF PreparedTo, Prepared, Listed
    <2>4. QED
      BY <1>2, <2>1, <2>2, <2>3 DEF Listed
  <1>5. QED
    BY <1>1, <1>2, <1>3, <1>4

\* how a launch of thread i ends, for pipeline_thread
LaunchEnds(i, to) ==
  /\ pc[i] = "launch" /\ pc' = [pc EXCEPT ![i] = to] /\ startControl' = startControl + 1
  /\ idx' \in [Stages -> Int] /\ processCnt' \in Nat
  /\ \A j \in Stages : j # i => idx'[j] = idx[j]
  /\ idx'[i] # Destroyed
  /\ to = "failed" => idx'[i] = NotStarted
  /\ UNCHANGED <<list, spc, pos, realStarted, plState, state, newCmd, result, cmd, flow>>

(* Each way it may end keeps what does not concern clients.                *)
LEMMA LaunchEndKeeps ==
  ASSUME SInv, NEW i \in Stages, NEW to \in {LoopTop(i), "failed"}, LaunchEnds(i, to),
         cpc' \in [Workers -> ClientPlaces \cup {"none"}],
         \A j \in Workers : j # i => cpc'[j] = cpc[j],
         i \in Workers => (cpc'[i] = "none" <=> to = "failed")
  PROVE  ServerTypes' /\ InTurn' /\ Unmoved' /\ Shown' /\ Joined' /\ ClientsLeave' /\ shownPc' = shownPc
         /\ shownState' = shownState /\ shownPl' = shownPl /\ shownResult' = shownResult /\ shownCmd' = shownCmd
  <1>1. /\ pc \in [Stages -> ThreadPlaces \cup {"none", "launch", "failed"}]
        /\ to \in ThreadPlaces \cup {"failed"} /\ to \notin {"launch", "none", "done", "stopAwait"}
    BY DEF SInv, ServerTypes, LoopTop, ThreadPlaces
  <1>2. /\ \A j \in Stages : j # i => pc'[j] = pc[j] /\ idx'[j] = idx[j]
        /\ pc[i] = "launch" /\ pc'[i] = to /\ startControl' = startControl + 1
        /\ UNCHANGED <<list, spc, pos, plState, state, newCmd, result, cmd, semResult>>
        /\ Current' = Current
    BY <1>1 DEF LaunchEnds, flow, Current
  <1>3. /\ spc = "await" /\ i = Current /\ startControl = 0 /\ pos \in Listed /\ plState = "UNKNOWN"
        /\ PreparedTo(pos) /\ \A k \in Listed : list[k] \in Stages /\ (list[k] = i <=> k = pos)
        /\ \A j \in Stages : j # i => pc[j] # "launch"
        /\ \A k \in Listed : pc[list[k]] # "failed"
    BY <1>2, Launching
  <1>4. \A j \in Stages : Prepared(j)' = Prepared(j)
    BY <1>1, <1>2 DEF Prepared
  <1>5. ServerTypes'
    BY <1>1, <1>2, <1>3 DEF SInv, ServerTypes, LaunchEnds
  <1>6. InTurn'
    <2>1. \A p \in Int : PreparedTo(p)' = PreparedTo(p)
      BY <1>2, <1>3, <1>4 DEF PreparedTo
    <2>2. PreparedTo(pos)' /\ \E p \in 0..LastStage + 1 : PreparedTo(p)'
      BY <1>2, <1>3, <1>4 DEF PreparedTo, Listed
    <2>3. \A j \in Stages : pc'[j] # "launch" /\ (pc'[j] = "failed" => j = i /\ idx'[j] = NotStarted)
      <3>1. \A j \in Stages : pc[j] # "failed"
        BY <1>3, ListFacts DEF SInv, ServerTypes
      <3>2. QED
        BY <1>1, <1>2, <1>3, <3>1 DEF LaunchEnds
    <2>4. \A k, l \in Listed : pc'[list'[k]] = "failed" /\ k < l => ~Prepared(list[l])'
      BY <1>2, <1>3, <1>4, <2>3 DEF PreparedTo, Listed
    <2>5. QED
      BY <1>1, <1>2, <1>3, <2>2, <2>3, <2>4 DEF InTurn
  <1>7. Unmoved'
    BY <1>1, <1>2, <1>3, <1>4, StageSets DEF SInv, Unmoved, Ended, LoopTop
  <1>8. Shown'
    BY <1>2, <1>3 DEF SInv, Shown, Ended
  <1>9. Joined'
    BY <1>2, <1>3 DEF SInv, Joined, LaunchEnds
  <1>10. ClientsLeave'
    BY <1>1, <1>2, StageSets DEF SInv, ClientsLeave
  <1>11. shownPc' = shownPc
    BY <1>1, <1>2 DEF shownPc, LoopTop, ThreadPlaces
  <1>12. shownState' = shownState /\ shownPl' = shownPl
    BY <1>2 DEF shownState, StateShown, shownPl
  <1>13. shownResult' = shownResult /\ shownCmd' = shownCmd
    BY <1>2, <1>4 DEF shownResult, shownCmd
  <1>14. QED
    BY <1>5, <1>6, <1>7, <1>8, <1>9, <1>10, <1>11, <1>12, <1>13

(* A thread that got its client enters its loop.                           *)
LEMMA LaunchProcessKeeps ==
  ASSUME SInv, NEW i \in Workers, LaunchProcess(i) PROVE SInv' /\ Threads!vars' = Threads!vars
  <1>1. i \in Stages /\ cpc \in [Workers -> ClientPlaces \cup {"none"}] /\ cpc[i] = "none"
        /\ idx \in [Stages -> Int] /\ processCnt \in Nat
    BY StageSets DEF SInv, ServerTypes, Unmoved, LaunchProcess, Launched
  <1>2. LaunchEnds(i, LoopTop(i)) /\ exitFlag' = exitFlag
    BY <1>1 DEF LaunchProcess, Launched, LaunchEnds, LoopTop, Destroyed
  <1>3. cpc' = [cpc EXCEPT ![i] = "wait"] /\ LoopTop(i) # "failed"
    BY DEF LaunchProcess, LoopTop
  <1>4. ServerTypes' /\ InTurn' /\ Unmoved' /\ Shown' /\ Joined' /\ ClientsLeave' /\ shownPc' = shownPc
         /\ shownState' = shownState /\ shownPl' = shownPl /\ shownResult' = shownResult /\ shownCmd' = shownCmd
    BY <1>1, <1>2, <1>3, LaunchEndKeeps DEF ClientPlaces
  <1>5. shownCpc' = shownCpc
    BY <1>1, <1>3 DEF shownCpc
  <1>6. QED
    BY <1>2, <1>4, <1>5, Hidden DEF SInv, NothingShown, ShownStill, LaunchEnds, flow

(* The finalization enters its loop with or without a slot.                *)
LEMMA LaunchFinalizationKeeps ==
  ASSUME SInv, LaunchFinalization PROVE SInv' /\ Threads!vars' = Threads!vars
  <1>1. LastStage \in Stages /\ idx \in [Stages -> Int] /\ processCnt \in Nat
        /\ cpc \in [Workers -> ClientPlaces \cup {"none"}] /\ LastStage \notin Workers
    BY StageSets DEF SInv, ServerTypes, Workers
  <1>2. LoopTop(LastStage) = "recv"
    BY DEF LoopTop
  <1>3. LaunchEnds(LastStage, LoopTop(LastStage)) /\ exitFlag' = exitFlag /\ cpc' = cpc
    BY <1>1, <1>2 DEF LaunchFinalization, Launched, LaunchEnds, Destroyed, NotStarted
  <1>4. ServerTypes' /\ InTurn' /\ Unmoved' /\ Shown' /\ Joined' /\ ClientsLeave' /\ shownPc' = shownPc
         /\ shownState' = shownState /\ shownPl' = shownPl /\ shownResult' = shownResult /\ shownCmd' = shownCmd
    BY <1>1, <1>3, LaunchEndKeeps
  <1>5. shownCpc' = shownCpc
    BY <1>3 DEF shownCpc
  <1>6. QED
    BY <1>3, <1>4, <1>5, Hidden DEF SInv, NothingShown, ShownStill, LaunchEnds, flow

(* A thread that got no client raises the exit flag and ends.              *)
LEMMA LaunchFailsKeeps ==
  ASSUME SInv, NEW i \in Workers, LaunchFails(i)
  PROVE  SInv' /\ (Threads!RequestExit \/ Threads!vars' = Threads!vars)
  <1>1. i \in Stages /\ cpc \in [Workers -> ClientPlaces \cup {"none"}] /\ cpc[i] = "none"
        /\ idx \in [Stages -> Int] /\ processCnt \in Nat /\ exitFlag \in BOOLEAN
    BY StageSets DEF SInv, ServerTypes, Unmoved, LaunchFails, Launched, Proved!IInv, Proved!TypeOK
  <1>2. LaunchEnds(i, "failed") /\ exitFlag' = TRUE /\ cpc' = cpc
    BY <1>1 DEF LaunchFails, Launched, LaunchEnds, Destroyed, NotStarted
  <1>3. ServerTypes' /\ InTurn' /\ Unmoved' /\ Shown' /\ Joined' /\ ClientsLeave' /\ shownPc' = shownPc
         /\ shownState' = shownState /\ shownPl' = shownPl /\ shownResult' = shownResult /\ shownCmd' = shownCmd
    BY <1>1, <1>2, LaunchEndKeeps
  <1>4. shownCpc' = shownCpc
    BY <1>2 DEF shownCpc
  <1>5. NothingShown
    BY <1>2, <1>3, <1>4 DEF NothingShown, ShownStill, LaunchEnds, flow
  <1>6. CASE exitFlag = TRUE
    BY <1>2, <1>3, <1>5, <1>6, Hidden DEF SInv
  <1>7. CASE exitFlag = FALSE
    <2>1. Threads!RequestExit
      BY <1>2, <1>5, <1>7
      DEF Threads!RequestExit, Threads!mailbox, Threads!slot, NothingShown, ShownStill, shownPc,
          shownState, shownPl, shownResult, shownCmd, shownCpc
    <2>2. Proved!IInv'
      BY <2>1, SameSteps, ProvedNext DEF SInv, Proved!Next
    <2>3. QED
      BY <1>3, <2>1, <2>2 DEF SInv
  <1>8. QED
    BY <1>1, <1>6, <1>7

-----------------------------------------------------------------------------
(* The inductive invariant of a start.                                     *)

(* When pipeline_thread begins, nothing has been prepared.                 *)
LEMMA InitSInv == StartInit => SInv /\ Threads!Init
  <1> SUFFICES ASSUME StartInit PROVE SInv /\ Threads!Init
    OBVIOUS
  <1>1. /\ list \in Lists /\ spc = "start" /\ pos = 1 /\ startControl = 0 /\ processCnt \in Nat
        /\ idx = [i \in Stages |-> NotStarted] /\ exitFlag = FALSE /\ plState = "UNKNOWN"
        /\ state = [i \in Stages |-> "INIT"] /\ pc = [i \in Stages |-> "none"] /\ off = [i \in Stages |-> 0]
        /\ newCmd = [i \in Stages |-> 0] /\ result = [i \in Stages |-> 0] /\ cmd = [i \in Stages |-> "STOP"]
        /\ cpc = [i \in Workers |-> "none"]
    BY SlotsAssumption DEF StartInit
  <1>2. /\ 1 \in Listed /\ 1 \in 1..LastStage + 2 /\ ~(\E k \in Listed : k <= 0)
        /\ \A k \in Listed : list[k] \in Stages
    BY <1>1, ListFacts DEF Listed
  <1>3. Threads!Init
    <2>1. shownPc = [i \in Stages |-> IF i = 0 THEN "test" ELSE "recv"]
      BY <1>1 DEF shownPc, LoopTop, ThreadPlaces
    <2>2. shownPl = "INIT" /\ shownState = [i \in Stages |-> "INIT"]
      BY <1>1 DEF shownPl, shownState, StateShown
    <2>3. shownResult = [i \in Stages |-> 1] /\ shownCmd = [i \in Stages |-> "JOB"]
          /\ shownCpc = [i \in Workers |-> "wait"]
      BY <1>1 DEF shownResult, shownCmd, shownCpc, Prepared
    <2>4. Threads!ModuleInit
      BY <1>1, <2>2, <2>3
      DEF Threads!ModuleInit, Threads!Stages, Stages, StartInit, shownState, shownResult, shownCmd
    <2>5. Threads!SlotInit
      BY <2>3
      DEF Threads!SlotInit, Threads!Workers, Workers, StartInit, shownCpc, StatusOk,
          Threads!StatusOk
    <2>6. Threads!DataInit
      BY DEF StartInit, DataInit, Threads!DataInit, Threads!Offsets, Offsets
    <2>7. QED
      BY <1>1, <2>1, <2>2, <2>4, <2>5, <2>6
      DEF Threads!Init, Threads!Stages, Stages, shownPc, shownPl
  <1>4. Proved!IInv
    <2>1. Proved!Init
      BY <1>3
      DEF Threads!Init, Proved!Init, Threads!ModuleInit, Proved!ModuleInit, Threads!SlotInit,
          Proved!SlotInit, Threads!DataInit, Proved!DataInit, Threads!Stages, Proved!Stages,
          Threads!Workers, Proved!Workers, Threads!Offsets, Proved!Offsets, Threads!StatusOk,
          Proved!StatusOk
    <2>2. QED
      BY <2>1, Proved!InitIInv, LastStageAssumption, DataCntAssumption, StatusesAssumption,
         CrashAssumption
      DEF StatusOk, StatusStop, StatusDrop, Proved!StatusOk, Proved!StatusDrop, Proved!StatusStop
  <1>5. ServerTypes
    BY <1>1, <1>2 DEF ServerTypes, NotStarted, ModuleStates
  <1>6. InTurn
    <2>1. PreparedTo(0)
      BY <1>1, <1>2 DEF PreparedTo, Prepared
    <2>2. QED
      BY <1>1, <1>2, <2>1 DEF InTurn
  <1>7. Unmoved /\ Shown /\ Joined /\ ClientsLeave
    BY <1>1, StageSets DEF Unmoved, Shown, Joined, ClientsLeave, Ended, NotStarted, Destroyed
  <1>8. QED
    BY <1>3, <1>4, <1>5, <1>6, <1>7 DEF SInv

(* No step of a start leaves it, and the steps that destroy nothing are    *)
(* steps of Pipeline, or none.                                             *)
LEMMA NextSInv ==
  SInv /\ [StartNext]_startVars =>
    SInv' /\ (JoinModule \/ FreeTable \/ DestroyPipeline \/ [Threads!Next]_(Threads!vars))
  <1> SUFFICES ASSUME SInv, [StartNext]_startVars
               PROVE  SInv' /\ (JoinModule \/ FreeTable \/ DestroyPipeline \/ [Threads!Next]_(Threads!vars))
    OBVIOUS
  <1>1. CASE Start
    BY <1>1, StartModuleKeeps, AwaitStartedKeeps, AwaitFailedKeeps, JoinFailedKeeps, SettleKeeps,
       TurnLiveKeeps
    DEF Start, Threads!Next
  <1>2. CASE End \/ DestroyPipeline
    BY <1>2, JoinModuleKeeps, FreeTableKeeps, DestroyPipelineKeeps DEF End
  <1>3. ASSUME NEW i \in Stages, Launch(i) PROVE SInv' /\ [Threads!Next]_(Threads!vars)
    BY <1>3, LaunchProcessKeeps, LaunchFailsKeeps, LaunchFinalizationKeeps
    DEF Launch, Threads!Next
  <1>4. ASSUME NEW i \in Stages, Thread(i), UNCHANGED serverVars PROVE SInv' /\ Threads!Next
    <2>1. Threads!Thread(i)
      BY <1>4, ThreadsMove
    <2>2. Threads!Next /\ Proved!Next
      BY <2>1, SameSteps DEF Threads!Next, Proved!Next, Threads!Stages, Proved!Stages, Stages
    <2>3. Proved!IInv'
      BY <2>2, ProvedNext DEF SInv
    <2>4. ServerTypes' /\ InTurn' /\ Unmoved' /\ Shown' /\ Joined'
      BY <1>4, ThreadSteps, ThreadKeeps
    <2>5. ClientsLeave'
      BY <1>4, ClientsStillLeave
    <2>6. QED
      BY <2>2, <2>3, <2>4, <2>5 DEF SInv
  <1>5. ASSUME NEW i \in Workers, Client(i), UNCHANGED serverVars PROVE SInv' /\ Threads!Next
    <2>1. Threads!Client(i)
      BY <1>5, ThreadsMove
    <2>2. Threads!Next /\ Proved!Next
      BY <2>1, SameSteps DEF Threads!Next, Proved!Next, Threads!Workers, Proved!Workers, Workers
    <2>3. Proved!IInv'
      BY <2>2, ProvedNext DEF SInv
    <2>4. ServerTypes' /\ InTurn' /\ Unmoved' /\ Shown' /\ Joined'
      BY <1>5, ClientKeeps
    <2>5. ClientsLeave'
      BY <1>5, ClientsStillLeave
    <2>6. QED
      BY <2>2, <2>3, <2>4, <2>5 DEF SInv
  <1>6. CASE UNCHANGED startVars
    <2>1. NothingShown /\ exitFlag' = exitFlag
      BY <1>6
      DEF startVars, vars, NothingShown, ShownStill, shownPc, shownState, StateShown, shownPl,
          shownResult, shownCmd, shownCpc, Prepared, LoopTop
    <2>2. Proved!IInv' /\ Threads!vars' = Threads!vars
      BY <2>1, Hidden DEF SInv
    <2>3. QED
      BY <1>6, <2>2
      DEF startVars, vars, serverVars, SInv, ServerTypes, InTurn, Unmoved, Shown, Joined,
          ClientsLeave, PreparedTo, Prepared, Ended, Current
  <1>7. QED
    BY <1>1, <1>2, <1>3, <1>4, <1>5, <1>6 DEF StartNext

(* In every state of every start, the parts the next theorems name hold.   *)
THEOREM StartInductive == StartSpec => []SInv
  <1>1. SInv /\ [StartNext]_startVars => SInv'
    BY NextSInv
  <1>2. StartInit => SInv
    BY InitSInv
  <1>3. QED
    BY <1>1, <1>2, PTL DEF StartSpec

-----------------------------------------------------------------------------

(* A module joined in the list's order has a thread before it in the chain *)
(* that has ended or sent its STOP.                                        *)
LEMMA PredecessorIsThrough ==
  ASSUME SInv, NEW i \in Inner, idx[i] = Destroyed PROVE Ended(i - 1) \/ StopSent(i - 1)
  <1>1. i \in Stages /\ i - 1 \in Stages /\ i - 1 < i
    BY DEF Inner, Stages
  <1>2. Ended(i) /\ spc \in {"join", "free", "done", "deleted"}
    BY <1>1 DEF SInv, Joined
  <1>3. CASE pc[i] = "done"
    <2>1. shownPc[i] = "done"
      BY <1>1, <1>3 DEF shownPc, ThreadPlaces
    <2>2. shownPc[i - 1] \in {"stopJob", "stopAwait", "done"}
      BY <1>1, <2>1
      DEF SInv, Proved!IInv, Proved!StopOrder, Proved!Stopping, Proved!StopSent, Proved!Stages,
          Stages, shownPc
    <2>3. QED
      BY <1>1, <2>2 DEF shownPc, StopSent, LoopTop
  <1>4. CASE pc[i] \in {"none", "failed"}
    <2>1. CASE spc # "join"
      BY <1>1, <1>2, <2>1 DEF SInv, Joined
    <2>2. CASE spc = "join"
      <3>1. list \in Lists /\ pos \in Listed
        BY <2>2 DEF SInv, ServerTypes
      <3>2. PICK k \in Listed : list[k] = i
        BY <1>1, <3>1, ListFacts
      <3>3. PICK l \in Listed : list[l] = i - 1
        BY <1>1, <3>1, ListFacts
      <3>4. k < pos /\ k # l
        <4>1. i # i - 1
          BY <1>1 DEF Stages
        <4>2. QED
          BY <2>2, <3>2, <3>3, <4>1 DEF SInv, Joined
      <3>5. CASE l < pos
        BY <1>1, <2>2, <3>3, <3>5 DEF SInv, Joined
      <3>6. CASE l >= pos
        <4>1. k < l
          BY <3>1, <3>4, <3>6 DEF Listed
        <4>2. CASE pc[i] = "failed"
          BY <3>2, <3>3, <4>1, <4>2 DEF SInv, InTurn, Prepared, Ended
        <4>3. CASE pc[i] = "none"
          <5>1. PICK p \in 0..LastStage + 1 : PreparedTo(p)
            BY DEF SInv, InTurn
          <5>2. ~(k <= p)
            BY <3>2, <4>3, <5>1 DEF PreparedTo, Prepared
          <5>3. ~(l <= p)
            BY <4>1, <5>2 DEF Listed
          <5>4. QED
            BY <3>3, <5>1, <5>3 DEF PreparedTo, Prepared, Ended
        <4>4. QED
          BY <1>4, <4>2, <4>3
      <3>7. QED
        BY <3>1, <3>5, <3>6 DEF Listed
    <2>3. QED
      BY <2>1, <2>2
  <1>5. QED
    BY <1>2, <1>3, <1>4 DEF Ended

(* Whatever order modules are listed in and whichever of them fail, what   *)
(* pipeline_thread destroys is used by nobody any more.                    *)
THEOREM NothingInUseDestroyed == StartSpec => []DestroyedUnused
  <1>1. SInv => DestroyedUnused
    <2> SUFFICES ASSUME SInv PROVE DestroyedUnused
      OBVIOUS
    <2>1. ASSUME NEW i \in Stages, idx[i] = Destroyed
          PROVE  Ended(i) /\ (i # 0 => Ended(i - 1) \/ StopSent(i - 1))
      <3>1. i # 0 => i \in Inner
        BY DEF Stages, Inner
      <3>2. QED
        BY <2>1, <3>1, PredecessorIsThrough DEF SInv, Joined
    <2>2. ASSUME spc \in {"done", "deleted"}, NEW i \in Workers
          PROVE  Ended(i) /\ Ended(i + 1) /\ cpc[i] \in {"none", "gone"}
      <3>1. i \in Stages /\ i + 1 \in Stages
        BY DEF Workers, Stages
      <3>2. Ended(i) /\ Ended(i + 1)
        BY <2>2, <3>1 DEF SInv, Joined
      <3>3. QED
        BY <3>2 DEF SInv, Unmoved, ClientsLeave, Ended
    <2>3. QED
      BY <2>1, <2>2 DEF DestroyedUnused
  <1>2. QED
    BY <1>1, StartInductive, PTL

(* The modules of a pipeline move like those of Pipeline during every      *)
(* start, up to the steps that destroy something.                          *)
THEOREM StartRefines == StartSpec => StartsPipeline
  <1>1. StartInit => Threads!Init
    BY InitSInv
  <1>2. SInv /\ [StartNext]_startVars
          => [JoinModule \/ FreeTable \/ DestroyPipeline \/ [Threads!Next]_(Threads!vars)]_startVars
    BY NextSInv
  <1>3. QED
    BY <1>1, <1>2, StartInductive, PTL DEF StartSpec, StartsPipeline

(* While some modules are prepared, others fail and others are joined, a   *)
(* chunk has one owner and is not lost, mailboxes and clients take turns,  *)
(* a frame visits every stage before it, and the STOP drains the chain.    *)
THEOREM StartKeepsData ==
  StartSpec => [](Threads!MailboxTurn /\ Threads!ClientTurn /\ Threads!SingleOwner /\ Threads!NoChunkLost
                  /\ Threads!VisitsAllSteps /\ Threads!StopDrains)
  <1>1. SInv => Threads!MailboxTurn
    BY DEF SInv, Proved!IInv, Threads!MailboxTurn, Proved!MailboxTurn, Threads!MailboxTurnAt,
           Proved!MailboxTurnAt, Threads!Inner, Proved!Inner
  <1>2. SInv => Threads!ClientTurn
    BY DEF SInv, Proved!IInv, Threads!ClientTurn, Proved!ClientTurn, Threads!ClientTurnAt,
           Proved!ClientTurnAt, Threads!Workers, Proved!Workers
  <1>3. SInv => Threads!SingleOwner /\ Threads!NoChunkLost
    BY DEF SInv, Proved!IInv, Proved!Owned, Threads!SingleOwner, Proved!SingleOwner,
           Threads!NoChunkLost, Proved!NoChunkLost, Threads!Holds, Proved!Holds, Threads!Boxed,
           Proved!Boxed, Threads!Stages, Proved!Stages, Threads!Inner, Proved!Inner,
           Threads!Offsets, Proved!Offsets
  <1>4. Proved!IInv => Proved!VisitsAllSteps /\ Proved!StopDrains
    BY Proved!VisitsFollow, Proved!DrainFollows, LastStageAssumption, DataCntAssumption,
       StatusesAssumption, CrashAssumption
    DEF StatusOk, StatusStop, StatusDrop, Proved!StatusOk, Proved!StatusDrop, Proved!StatusStop
  <1>5. SInv => Threads!VisitsAllSteps /\ Threads!StopDrains
    BY <1>4
    DEF SInv, Threads!VisitsAllSteps, Proved!VisitsAllSteps, Threads!StopDrains,
        Proved!StopDrains, Threads!Boxed, Proved!Boxed, Threads!StopSent, Proved!StopSent,
        Threads!Inner, Proved!Inner, Threads!Workers, Proved!Workers, Threads!Offsets,
        Proved!Offsets
  <1>6. QED
    BY <1>1, <1>2, <1>3, <1>5, StartInductive, PTL
=============================================================================
