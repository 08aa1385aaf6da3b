--------------------------- MODULE PipelineProofs ---------------------------
(***************************************************************************)
(* What Pipeline's invariants rest on, for every length of the chain,      *)
(* every number of chunks, and clients that answer, stop or die; and that  *)
(* its threads implement FrameFlow.                                        *)
(***************************************************************************)
EXTENDS PipelineFlow, FiniteSetTheorems, SequenceTheorems, TLAPS

(* The places and sets every action's types are read from.                 *)
LEMMA StageFacts ==
  /\ Workers \subseteq Stages
  /\ Inner \subseteq Stages
  /\ 0 \in Stages /\ 0 \in Workers
  /\ LastStage \in Stages /\ LastStage \in Inner
  /\ \A i \in Workers : i + 1 \in Inner
  /\ \A i \in Inner : i - 1 \in Workers
  /\ \A i \in Stages : i # LastStage => i \in Workers
  /\ LastStage \notin Workers
  BY LastStageAssumption DEF Stages, Workers, Inner

(* A thread with a client has a next module to hand its chunks to.         *)
LEMMA NextStage == \A i \in Workers : i + 1 \in Stages
  BY LastStageAssumption DEF Stages, Workers

(* Init gives every variable its type.                                     *)
LEMMA InitTypeOK == Init => TypeOK
  <1> SUFFICES ASSUME Init PROVE TypeOK
    OBVIOUS
  <1>1. free \in Seq(Offsets)
    BY DataCntAssumption DEF Init, DataInit, Offsets
  <1>2. QED
    BY <1>1 DEF Init, ModuleInit, SlotInit, DataInit, TypeOK, ThreadPlaces,
       ClientPlaces, ModuleStates, StatusOk, StatusDrop

(* A chunk a thread or a mailbox is responsible for is one of the ring's.  *)
RealChunks ==
  /\ \A i \in Stages : Holds(i) => off[i] \in Offsets
  /\ \A i \in Inner : Boxed(i) => dataoffset[i] \in Offsets

(* No step of a thread, of a client or around them leaves the types.       *)
LEMMA NextTypeOK == TypeOK /\ RealChunks /\ [Next]_vars => TypeOK'
  <1> SUFFICES ASSUME TypeOK, RealChunks PROVE [Next]_vars => TypeOK'
    OBVIOUS
  <1> USE DEF TypeOK, mailbox, slot, Goto, ThreadPlaces
  <1>1. CASE TestExit
    BY <1>1 DEF TestExit
  <1>2. CASE CheckLive
    BY <1>2 DEF CheckLive
  <1>3. CASE PopFree
    <2>1. Head(free) \in Offsets /\ Tail(free) \in Seq(Offsets)
      BY <1>3 DEF PopFree
    <2>2. QED
      BY <1>3, <2>1 DEF PopFree
  <1>4. ASSUME NEW i \in Stages, ReceiveCommand(i) PROVE TypeOK'
    BY <1>4 DEF ReceiveCommand, Wait
  <1>5. ASSUME NEW i \in Stages, ReadCommand(i) PROVE TypeOK'
    <2>1. pc' \in [Stages -> ThreadPlaces]
      BY <1>5 DEF ReadCommand, AfterRead
    <2>2. state' \in [Stages -> ModuleStates]
      BY <1>5 DEF ReadCommand, SetState, ModuleStates
    <2>3. QED
      BY <1>5, <2>1, <2>2 DEF ReadCommand, Post
  <1>6. ASSUME NEW i \in Workers, i \in Stages, SubmitJob(i) PROVE TypeOK'
    BY <1>6 DEF SubmitJob, Post
  <1>7. ASSUME NEW i \in Workers, i \in Stages, AwaitResult(i) PROVE TypeOK'
    BY <1>7 DEF AwaitResult, Wait
  <1>8. ASSUME NEW i \in Stages, DropFrame(i) PROVE TypeOK'
    <2>1. free' \in Seq(Offsets)
      BY <1>8 DEF DropFrame, PushFree, RealChunks, Holds
    <2>2. QED
      BY <1>8, <2>1 DEF DropFrame
  <1>9. ASSUME NEW i \in Stages, KeepFrame(i) PROVE TypeOK'
    BY <1>9 DEF KeepFrame
  <1>10. ASSUME NEW i \in Workers, i \in Stages, WaitNext(i) PROVE TypeOK'
    <2>1. pc' \in [Stages -> ThreadPlaces]
      BY <1>10 DEF WaitNext
    <2>2. result' \in [Stages -> Nat]
      BY <1>10, NextStage DEF WaitNext, Wait
    <2>3. QED
      BY <1>10, <2>1, <2>2 DEF WaitNext
  <1>11. ASSUME NEW i \in Workers, i \in Stages, PutJob(i) PROVE TypeOK'
    <2>1. newCmd' \in [Stages -> Nat]
      BY <1>11, NextStage DEF PutJob, Post
    <2>2. QED
      BY <1>11, <2>1 DEF PutJob
  <1>12. ASSUME NEW i \in Workers, i \in Stages, PutStop(i) PROVE TypeOK'
    <2>1. newCmd' \in [Stages -> Nat]
      BY <1>12, NextStage DEF PutStop, Post
    <2>2. QED
      BY <1>12, <2>1 DEF PutStop
  <1>13. ASSUME NEW i \in Workers, i \in Stages, SubmitStop(i) PROVE TypeOK'
    BY <1>13 DEF SubmitStop, Post
  <1>14. ASSUME NEW i \in Workers, i \in Stages, AwaitStop(i) PROVE TypeOK'
    <2>1. state' \in [Stages -> ModuleStates]
      BY <1>14 DEF AwaitStop, SetState, ModuleStates
    <2>2. semResult' \in [Workers -> Nat]
      BY <1>14 DEF AwaitStop, Wait
    <2>3. QED
      BY <1>14, <2>1, <2>2 DEF AwaitStop
  <1>15. CASE ReturnChunk
    <2>1. free' \in Seq(Offsets)
      BY <1>15, StageFacts DEF ReturnChunk, PushFree, RealChunks, Holds
    <2>2. visited' \in [Offsets -> SUBSET Workers]
      BY <1>15 DEF ReturnChunk
    <2>3. QED
      BY <1>15, <2>1, <2>2 DEF ReturnChunk
  <1>16. ASSUME NEW i \in Workers, ClientTake(i) PROVE TypeOK'
    <2>1. semJob' \in [Workers -> Nat]
      BY <1>16 DEF ClientTake, Wait
    <2>2. cpc' \in [Workers -> ClientPlaces]
      BY <1>16 DEF ClientTake, ClientGoto, ClientPlaces
    <2>3. cmdResult' \in [Workers -> {StatusOk, StatusDrop}]
      BY <1>16 DEF ClientTake
    <2>4. QED
      BY <1>16, <2>1, <2>2, <2>3 DEF ClientTake
  <1>17. ASSUME NEW i \in Workers, ClientAct(i) PROVE TypeOK'
    <2>1. PICK status \in Statuses : ClientAct(i)!(status)
      BY <1>17 DEF ClientAct
    <2>2. cpc' \in [Workers -> ClientPlaces]
      BY <2>1 DEF ClientGoto, ClientPlaces
    <2>3. cmdResult' \in [Workers -> {StatusOk, StatusDrop}]
      BY <2>1, StatusesAssumption
    <2>4. visited' \in [Offsets -> SUBSET Workers]
      <3>1. 0 \in Workers
        BY StageFacts
      <3>2. QED
        BY <2>1, <3>1
    <2>5. QED
      BY <2>1, <2>2, <2>3, <2>4
  <1>18. ASSUME NEW i \in Workers, ClientAnswer(i) PROVE TypeOK'
    <2>1. cpc' \in [Workers -> ClientPlaces]
      BY <1>18 DEF ClientAnswer, ClientGoto, ClientPlaces
    <2>2. semResult' \in [Workers -> Nat]
      BY <1>18 DEF ClientAnswer, Post
    <2>3. QED
      BY <1>18, <2>1, <2>2 DEF ClientAnswer
  <1>19. ASSUME NEW i \in Workers, ClientCrash(i) PROVE TypeOK'
    BY <1>19 DEF ClientCrash, ClientPlaces
  <1>20. CASE GoLive
    BY <1>20 DEF GoLive, ModuleStates
  <1>21. CASE RequestExit
    BY <1>21 DEF RequestExit
  <1>22. CASE UNCHANGED vars
    BY <1>22 DEF vars
  <1>23. QED
    BY <1>1, <1>2, <1>3, <1>4, <1>5, <1>6, <1>7, <1>8, <1>9, <1>10, <1>11,
       <1>12, <1>13, <1>14, <1>15, <1>16, <1>17, <1>18, <1>19, <1>20, <1>21,
       <1>22, StageFacts DEF Next, Thread, Source, Mailbox, Work, Client, Finished

(* The chunk of a job reaches a mailbox and a thread's hand unchanged.     *)
LEMMA NextRealChunks == TypeOK /\ RealChunks /\ [Next]_vars => RealChunks'
  <1> SUFFICES ASSUME TypeOK, RealChunks PROVE [Next]_vars => RealChunks'
    OBVIOUS
  <1>0. /\ pc \in [Stages -> ThreadPlaces]
        /\ off \in [Stages -> Offsets \cup {0}]
        /\ cmd \in [Stages -> {"JOB", "STOP"}]
        /\ dataoffset \in [Stages -> Offsets \cup {0}]
        /\ newCmd \in [Stages -> Nat]
        /\ free \in Seq(Offsets)
    BY DEF TypeOK
  <1> USE <1>0, StageFacts DEF RealChunks, Holds, Boxed, mailbox, slot, Goto
  <1>1. CASE TestExit
    BY <1>1 DEF TestExit
  <1>2. CASE CheckLive
    BY <1>2 DEF CheckLive
  <1>3. CASE PopFree
    <2>1. Head(free) \in Offsets
      BY <1>3 DEF PopFree
    <2>2. ASSUME NEW i \in Stages, pc'[i] \in {"job", "await", "judge", "give", "put", "free"}
          PROVE  off'[i] \in Offsets
      BY <1>3, <2>1, <2>2 DEF PopFree
    <2>3. ASSUME NEW i \in Inner, Boxed(i)' PROVE Boxed(i)
      <3>1. i # 0 /\ pc'[i] = pc[i] /\ cmd' = cmd /\ newCmd' = newCmd
        BY <1>3 DEF PopFree, Inner
      <3>. QED BY <2>3, <3>1, Zenon
    <2>4. dataoffset' = dataoffset
      BY <1>3 DEF PopFree
    <2>. QED BY <2>2, <2>3, <2>4
  <1>4. ASSUME NEW i \in Inner, ReceiveCommand(i) PROVE RealChunks'
    BY <1>4 DEF ReceiveCommand, Wait
  <1>5. ASSUME NEW i \in Inner, ReadCommand(i) PROVE RealChunks'
    BY <1>5 DEF ReadCommand, AfterRead, Post
  <1>6. ASSUME NEW i \in Workers, SubmitJob(i) PROVE RealChunks'
    BY <1>6 DEF SubmitJob
  <1>7. ASSUME NEW i \in Workers, AwaitResult(i) PROVE RealChunks'
    BY <1>7 DEF AwaitResult
  <1>8. ASSUME NEW i \in Inner \cap Workers, DropFrame(i) PROVE RealChunks'
    BY <1>8 DEF DropFrame
  <1>9. ASSUME NEW i \in Inner \cap Workers, KeepFrame(i) PROVE RealChunks'
    BY <1>9 DEF KeepFrame
  <1>10. ASSUME NEW i \in Workers, WaitNext(i) PROVE RealChunks'
    BY <1>10 DEF WaitNext
  <1>11. ASSUME NEW i \in Workers, PutJob(i) PROVE RealChunks'
    BY <1>11 DEF PutJob, Post
  <1>12. ASSUME NEW i \in Workers, PutStop(i) PROVE RealChunks'
    BY <1>12 DEF PutStop, Post
  <1>13. ASSUME NEW i \in Workers, SubmitStop(i) PROVE RealChunks'
    BY <1>13 DEF SubmitStop
  <1>14. ASSUME NEW i \in Workers, AwaitStop(i) PROVE RealChunks'
    BY <1>14 DEF AwaitStop
  <1>15. CASE ReturnChunk
    BY <1>15 DEF ReturnChunk
  <1>16. ASSUME NEW i \in Workers, Client(i) \/ ClientCrash(i) PROVE RealChunks'
    BY <1>16 DEF Client, ClientTake, ClientAct, ClientAnswer, ClientCrash
  <1>17. CASE GoLive \/ RequestExit \/ UNCHANGED vars
    BY <1>17 DEF GoLive, RequestExit, vars
  <1>18. QED
    BY <1>1, <1>2, <1>3, <1>4, <1>5, <1>6, <1>7, <1>8, <1>9, <1>10, <1>11,
       <1>12, <1>13, <1>14, <1>15, <1>16, <1>17
    DEF Next, Thread, Source, Mailbox, Work, Finished

(* Each step of the two threads that share a mailbox passes its turn on.   *)
LEMMA NextMailboxTurn == TypeOK /\ MailboxTurn /\ [Next]_vars => MailboxTurn'
  <1> SUFFICES ASSUME TypeOK, MailboxTurn, NEW i \in Inner
               PROVE  [Next]_vars => MailboxTurnAt(i)'
    BY DEF MailboxTurn
  <1>0. /\ MailboxTurnAt(i)
        /\ pc \in [Stages -> ThreadPlaces]
        /\ newCmd \in [Stages -> Nat] /\ result \in [Stages -> Nat]
        /\ i \in Int /\ i \in Stages /\ i - 1 \in Stages
    BY LastStageAssumption DEF MailboxTurn, TypeOK, Inner, Stages
  <1> USE <1>0 DEF MailboxTurnAt, mailbox, slot, Goto, Stages
  <1>1. CASE TestExit
    BY <1>1 DEF TestExit
  <1>2. CASE CheckLive
    BY <1>2 DEF CheckLive
  <1>3. CASE PopFree
    BY <1>3 DEF PopFree
  <1>4. ASSUME NEW j \in Inner, ReceiveCommand(j) PROVE MailboxTurnAt(i)'
    BY <1>4 DEF ReceiveCommand, Wait
  <1>5. ASSUME NEW j \in Inner, ReadCommand(j) PROVE MailboxTurnAt(i)'
    BY <1>5 DEF ReadCommand, AfterRead, Post
  <1>6. ASSUME NEW j \in Workers, SubmitJob(j) PROVE MailboxTurnAt(i)'
    BY <1>6 DEF SubmitJob
  <1>7. ASSUME NEW j \in Workers, AwaitResult(j) PROVE MailboxTurnAt(i)'
    BY <1>7 DEF AwaitResult
  <1>8. ASSUME NEW j \in Inner \cap Workers, DropFrame(j) PROVE MailboxTurnAt(i)'
    BY <1>8 DEF DropFrame
  <1>9. ASSUME NEW j \in Inner \cap Workers, KeepFrame(j) PROVE MailboxTurnAt(i)'
    BY <1>9 DEF KeepFrame
  <1>10. ASSUME NEW j \in Workers, WaitNext(j) PROVE MailboxTurnAt(i)'
    <2>1. j \in Int /\ j \in Stages /\ j + 1 \in Stages
      BY StageFacts, NextStage, LastStageAssumption DEF Workers
    <2>2. PICK to \in {"put", "stopPut"} :
            pc[j] \in {"give", "stopGive"} /\ pc' = [pc EXCEPT ![j] = to]
      BY <1>10 DEF WaitNext
    <2>3. /\ result[j + 1] > 0 /\ result' = [result EXCEPT ![j + 1] = @ - 1]
          /\ newCmd' = newCmd
      BY <1>10 DEF WaitNext, Wait
    <2>4. CASE i = j + 1
      BY <2>1, <2>2, <2>3, <2>4
    <2>5. CASE i # j + 1
      BY <2>1, <2>2, <2>3, <2>5
    <2>6. QED
      BY <2>4, <2>5
  <1>11. ASSUME NEW j \in Workers, PutJob(j) PROVE MailboxTurnAt(i)'
    <2>1. j \in Int /\ j \in Stages /\ j + 1 \in Stages
      BY StageFacts, NextStage, LastStageAssumption DEF Workers
    <2>2. CASE i = j + 1
      BY <1>11, <2>1, <2>2 DEF PutJob, Post
    <2>3. CASE i # j + 1
      BY <1>11, <2>1, <2>3 DEF PutJob, Post
    <2>4. QED
      BY <2>2, <2>3
  <1>12. ASSUME NEW j \in Workers, PutStop(j) PROVE MailboxTurnAt(i)'
    <2>1. j \in Int /\ j \in Stages /\ j + 1 \in Stages
      BY StageFacts, NextStage, LastStageAssumption DEF Workers
    <2>2. CASE i = j + 1
      BY <1>12, <2>1, <2>2 DEF PutStop, Post
    <2>3. CASE i # j + 1
      BY <1>12, <2>1, <2>3 DEF PutStop, Post
    <2>4. QED
      BY <2>2, <2>3
  <1>13. ASSUME NEW j \in Workers, SubmitStop(j) PROVE MailboxTurnAt(i)'
    BY <1>13 DEF SubmitStop
  <1>14. ASSUME NEW j \in Workers, AwaitStop(j) PROVE MailboxTurnAt(i)'
    BY <1>14 DEF AwaitStop
  <1>15. CASE ReturnChunk
    BY <1>15 DEF ReturnChunk
  <1>16. ASSUME NEW j \in Workers, Client(j) \/ ClientCrash(j) PROVE MailboxTurnAt(i)'
    BY <1>16 DEF Client, ClientTake, ClientAct, ClientAnswer, ClientCrash
  <1>17. CASE GoLive \/ RequestExit \/ UNCHANGED vars
    BY <1>17 DEF GoLive, RequestExit, vars
  <1>18. QED
    BY <1>1, <1>2, <1>3, <1>4, <1>5, <1>6, <1>7, <1>8, <1>9, <1>10, <1>11,
       <1>12, <1>13, <1>14, <1>15, <1>16, <1>17
    DEF Next, Thread, Source, Mailbox, Work, Finished

(* Each step of a stage's thread or client passes its slot's turn on.      *)
LEMMA NextClientTurn == TypeOK /\ ClientTurn /\ [Next]_vars => ClientTurn'
  <1> SUFFICES ASSUME TypeOK, ClientTurn, NEW i \in Workers
               PROVE  [Next]_vars => ClientTurnAt(i)'
    BY DEF ClientTurn
  <1>0. /\ ClientTurnAt(i)
        /\ pc \in [Stages -> ThreadPlaces]
        /\ off \in [Stages -> Offsets \cup {0}]
        /\ cpc \in [Workers -> ClientPlaces]
        /\ semJob \in [Workers -> Nat] /\ semResult \in [Workers -> Nat]
        /\ procCmd \in [Workers -> {"JOB", "STOP"}]
        /\ procOff \in [Workers -> Offsets \cup {0}]
        /\ i \in Stages
    BY StageFacts DEF ClientTurn, TypeOK
  <1> USE <1>0 DEF ClientTurnAt, mailbox, slot, Goto
  <1>1. CASE TestExit
    BY <1>1 DEF TestExit
  <1>2. CASE CheckLive
    BY <1>2 DEF CheckLive
  <1>3. CASE PopFree
    BY <1>3 DEF PopFree
  <1>4. ASSUME NEW j \in Inner, ReceiveCommand(j) PROVE ClientTurnAt(i)'
    BY <1>4 DEF ReceiveCommand
  <1>5. ASSUME NEW j \in Inner, ReadCommand(j) PROVE ClientTurnAt(i)'
    BY <1>5 DEF ReadCommand, AfterRead
  <1>6. ASSUME NEW j \in Workers, SubmitJob(j) PROVE ClientTurnAt(i)'
    BY <1>6 DEF SubmitJob, Post
  <1>7. ASSUME NEW j \in Workers, AwaitResult(j) PROVE ClientTurnAt(i)'
    BY <1>7 DEF AwaitResult, Wait
  <1>8. ASSUME NEW j \in Inner \cap Workers, DropFrame(j) PROVE ClientTurnAt(i)'
    BY <1>8 DEF DropFrame
  <1>9. ASSUME NEW j \in Inner \cap Workers, KeepFrame(j) PROVE ClientTurnAt(i)'
    BY <1>9 DEF KeepFrame
  <1>10. ASSUME NEW j \in Workers, WaitNext(j) PROVE ClientTurnAt(i)'
    BY <1>10 DEF WaitNext
  <1>11. ASSUME NEW j \in Workers, PutJob(j) PROVE ClientTurnAt(i)'
    BY <1>11 DEF PutJob
  <1>12. ASSUME NEW j \in Workers, PutStop(j) PROVE ClientTurnAt(i)'
    BY <1>12 DEF PutStop
  <1>13. ASSUME NEW j \in Workers, SubmitStop(j) PROVE ClientTurnAt(i)'
    BY <1>13 DEF SubmitStop, Post
  <1>14. ASSUME NEW j \in Workers, AwaitStop(j) PROVE ClientTurnAt(i)'
    BY <1>14 DEF AwaitStop, Wait
  <1>15. CASE ReturnChunk
    BY <1>15 DEF ReturnChunk
  <1>16. ASSUME NEW j \in Workers, ClientTake(j) PROVE ClientTurnAt(i)'
    BY <1>16 DEF ClientTake, ClientGoto, Wait
  <1>17. ASSUME NEW j \in Workers, ClientAct(j) PROVE ClientTurnAt(i)'
    BY <1>17 DEF ClientAct, ClientGoto
  <1>18. ASSUME NEW j \in Workers, ClientAnswer(j) PROVE ClientTurnAt(i)'
    BY <1>18 DEF ClientAnswer, ClientGoto, Post
  <1>19. ASSUME NEW j \in Workers, ClientCrash(j) PROVE ClientTurnAt(i)'
    BY <1>19 DEF ClientCrash
  <1>20. CASE GoLive \/ RequestExit \/ UNCHANGED vars
    BY <1>20 DEF GoLive, RequestExit, vars
  <1>21. QED
    BY <1>1, <1>2, <1>3, <1>4, <1>5, <1>6, <1>7, <1>8, <1>9, <1>10, <1>11,
       <1>12, <1>13, <1>14, <1>15, <1>16, <1>17, <1>18, <1>19, <1>20
    DEF Next, Thread, Source, Mailbox, Work, Client, Finished

-----------------------------------------------------------------------------
(* Ownership of the chunks.                                                *)

(* Popping the ring shifts the remaining chunks and keeps their order.     *)
LEMMA TailFacts ==
  ASSUME NEW S, NEW s \in Seq(S), s # <<>>
  PROVE  /\ 1 \in DOMAIN s /\ Head(s) = s[1]
         /\ \A k \in DOMAIN Tail(s) :
              k + 1 \in DOMAIN s /\ k + 1 # 1 /\ Tail(s)[k] = s[k + 1]
         /\ \A k, l \in DOMAIN Tail(s) : k # l => k + 1 # l + 1
         /\ \A k \in DOMAIN s :
              k # 1 => k - 1 \in DOMAIN Tail(s) /\ Tail(s)[k - 1] = s[k]
  OBVIOUS

(* Pushing a chunk into the ring leaves those before it where they were.   *)
LEMMA AppendFacts ==
  ASSUME NEW S, NEW s \in Seq(S), NEW e
  PROVE  /\ \A k \in DOMAIN Append(s, e) :
              \/ k \in DOMAIN s /\ Append(s, e)[k] = s[k]
              \/ k = Len(s) + 1 /\ Append(s, e)[k] = e
         /\ \A k \in DOMAIN s : k \in DOMAIN Append(s, e) /\ Append(s, e)[k] = s[k]
         /\ Len(s) + 1 \in DOMAIN Append(s, e) /\ Append(s, e)[Len(s) + 1] = e
  OBVIOUS

\* nobody's chunk changes hands in this step
OwnersKept ==
  /\ \A i \in Stages : Holds(i)' = Holds(i) /\ (Holds(i) => off'[i] = off[i])
  /\ \A i \in Inner : Boxed(i)' = Boxed(i) /\ (Boxed(i) => dataoffset'[i] = dataoffset[i])
  /\ free' = free

Owned == SingleOwner /\ NoChunkLost

(* A step that moves no chunk keeps their owners.                          *)
LEMMA KeptOwned == Owned /\ OwnersKept => Owned'
  <1> SUFFICES ASSUME Owned, OwnersKept PROVE Owned'
    OBVIOUS
  <1>1. SingleOwner'
    BY DEF Owned, OwnersKept, SingleOwner
  <1>2. NoChunkLost'
    BY DEF Owned, OwnersKept, NoChunkLost
  <1>3. QED
    BY <1>1, <1>2 DEF Owned

(* The ring gives its first chunk to the source.                           *)
LEMMA PopOwned == TypeOK /\ Owned /\ PopFree => Owned'
  <1> SUFFICES ASSUME TypeOK, Owned, PopFree PROVE Owned'
    OBVIOUS
  <1>1. /\ ~Holds(0) /\ Holds(0)' /\ off'[0] = Head(free)
        /\ \A i \in Stages : i # 0 => Holds(i)' = Holds(i) /\ off'[i] = off[i]
        /\ \A i \in Inner : Boxed(i)' = Boxed(i) /\ dataoffset'[i] = dataoffset[i]
        /\ free \in Seq(Offsets) /\ free # <<>> /\ free' = Tail(free)
    BY StageFacts DEF TypeOK, PopFree, Goto, Holds, Boxed, mailbox
  <1>2. SingleOwner'
    BY <1>1, TailFacts DEF Owned, SingleOwner
  <1>3. NoChunkLost'
    <2>1. SUFFICES ASSUME NEW o \in Offsets
                   PROVE  \/ \E k \in DOMAIN free' : free'[k] = o
                          \/ \E i \in Stages : Holds(i)' /\ off'[i] = o
                          \/ \E i \in Inner : Boxed(i)' /\ dataoffset'[i] = o
      BY DEF NoChunkLost
    <2>2. ASSUME NEW k \in DOMAIN free, free[k] = o
          PROVE  o = off'[0] \/ \E l \in DOMAIN free' : free'[l] = o
      BY <1>1, <2>2, TailFacts
    <2>3. QED
      BY <1>1, <2>2, StageFacts DEF Owned, NoChunkLost
  <1>4. QED
    BY <1>2, <1>3 DEF Owned

(* A thread gives its chunk back to the ring.                              *)
LEMMA PushOwned ==
  ASSUME TypeOK, Owned, NEW i \in Stages, Holds(i), ~Holds(i)', PushFree(i),
         \A j \in Stages : j # i => Holds(j)' = Holds(j) /\ off'[j] = off[j],
         \A j \in Inner : Boxed(j)' = Boxed(j) /\ dataoffset'[j] = dataoffset[j]
  PROVE  Owned'
  <1>1. free \in Seq(Offsets) /\ free' = Append(free, off[i])
    BY DEF TypeOK, PushFree
  <1>2. \A k, l \in DOMAIN free' : k # l => free'[k] # free'[l]
    BY <1>1, AppendFacts DEF Owned, SingleOwner
  <1>3. \A k \in DOMAIN free' :
          /\ \A j \in Stages : Holds(j)' => off'[j] # free'[k]
          /\ \A j \in Inner : Boxed(j)' => dataoffset'[j] # free'[k]
    BY <1>1, AppendFacts DEF Owned, SingleOwner
  <1>4. SingleOwner'
    BY <1>2, <1>3 DEF Owned, SingleOwner
  <1>5. NoChunkLost'
    BY <1>1, AppendFacts DEF Owned, NoChunkLost
  <1>6. QED
    BY <1>4, <1>5 DEF Owned

(* A thread's chunk goes into the empty mailbox of the next one.           *)
LEMMA PutOwned ==
  ASSUME TypeOK, MailboxTurn, Owned, NEW i \in Workers, PutJob(i) PROVE Owned'
  <1>1. i \in Int /\ i \in Stages /\ i + 1 \in Stages /\ i + 1 \in Inner /\ i + 1 # i
    BY StageFacts, NextStage, LastStageAssumption DEF Workers
  <1>2. ~Boxed(i + 1)
    <2>1. MailboxTurnAt(i + 1) /\ (i + 1) - 1 = i
      BY <1>1 DEF MailboxTurn
    <2>2. QED
      BY <1>1, <2>1 DEF MailboxTurnAt, PutJob, Goto, Boxed
  <1>3. /\ Holds(i) /\ ~Holds(i)' /\ Boxed(i + 1)' /\ dataoffset'[i + 1] = off[i]
        /\ \A j \in Stages : j # i => Holds(j)' = Holds(j)
        /\ off' = off /\ free' = free
        /\ \A j \in Inner : j # i + 1 => Boxed(j)' = Boxed(j) /\ dataoffset'[j] = dataoffset[j]
    <2>1. \A j \in Inner : j # i + 1 => cmd'[j] = cmd[j] /\ newCmd'[j] = newCmd[j]
                                          /\ dataoffset'[j] = dataoffset[j]
      BY <1>1 DEF PutJob, Post, TypeOK, Inner, Stages
    <2>2. cmd'[i + 1] = "JOB" /\ newCmd'[i + 1] > 0 /\ dataoffset'[i + 1] = off[i]
      BY <1>1 DEF PutJob, Post, TypeOK
    <2>3. /\ pc[i] = "put" /\ pc'[i] \in {"test", "recv"}
          /\ \A j \in Stages : j # i => pc'[j] = pc[j]
      BY <1>1 DEF PutJob, Goto, TypeOK
    <2>4. off' = off /\ free' = free
      BY DEF PutJob
    <2>5. QED
      BY <1>1, <2>1, <2>2, <2>3, <2>4, StageFacts DEF Holds, Boxed
  <1>4. SingleOwner'
    BY <1>1, <1>2, <1>3 DEF Owned, SingleOwner
  <1>5. NoChunkLost'
    BY <1>1, <1>2, <1>3 DEF Owned, NoChunkLost
  <1>6. QED
    BY <1>4, <1>5 DEF Owned

(* A thread takes the chunk out of its mailbox, or leaves the loop.        *)
LEMMA ReadOwned ==
  ASSUME TypeOK, MailboxTurn, Owned, NEW i \in Inner, ReadCommand(i) PROVE Owned'
  <1>1. i \in Stages
    BY StageFacts
  <1>2. /\ pc[i] = "read" /\ newCmd[i] = 0 /\ newCmd' = newCmd /\ cmd' = cmd
        /\ dataoffset' = dataoffset /\ free' = free
        /\ off'[i] = dataoffset[i]
        /\ \A j \in Stages : j # i => pc'[j] = pc[j] /\ off'[j] = off[j]
        /\ pc'[i] = AfterRead(i)
    BY <1>1 DEF ReadCommand, Goto, TypeOK, MailboxTurn, MailboxTurnAt
  <1>3. /\ ~Holds(i) /\ (Holds(i)' <=> Boxed(i)) /\ ~Boxed(i)'
        /\ \A j \in Stages : j # i => Holds(j)' = Holds(j)
        /\ \A j \in Inner : j # i => Boxed(j)' = Boxed(j)
    <2>1. cmd[i] \in {"JOB", "STOP"}
      BY <1>1 DEF TypeOK
    <2>2. ~Holds(i) /\ (Holds(i)' <=> Boxed(i)) /\ ~Boxed(i)'
      BY <1>2, <2>1 DEF Holds, Boxed, AfterRead
    <2>3. QED
      BY <1>2, <2>2, StageFacts DEF Holds, Boxed
  <1>4. SingleOwner'
    BY <1>1, <1>2, <1>3 DEF Owned, SingleOwner
  <1>5. NoChunkLost'
    BY <1>1, <1>2, <1>3 DEF Owned, NoChunkLost
  <1>6. QED
    BY <1>4, <1>5 DEF Owned

(* No step of Pipeline gives a chunk two owners or none.                   *)
LEMMA NextOwned == TypeOK /\ MailboxTurn /\ Owned /\ [Next]_vars => Owned'
  <1> SUFFICES ASSUME TypeOK, MailboxTurn, Owned PROVE [Next]_vars => Owned'
    OBVIOUS
  <1>0. pc \in [Stages -> ThreadPlaces] /\ newCmd \in [Stages -> Nat]
    BY DEF TypeOK
  <1> USE <1>0, StageFacts DEF Goto, Holds, Boxed, mailbox, slot
  <1>1. CASE TestExit \/ CheckLive
    BY <1>1, KeptOwned DEF TestExit, CheckLive, OwnersKept
  <1>3. CASE PopFree
    BY <1>3, PopOwned
  <1>4. ASSUME NEW i \in Inner, ReceiveCommand(i) PROVE Owned'
    <2>1. newCmd[i] = 1 /\ newCmd' = [newCmd EXCEPT ![i] = 0]
      <3>1. MailboxTurnAt(i)
        BY DEF MailboxTurn
      <3>2. newCmd[i] > 0 /\ newCmd' = [newCmd EXCEPT ![i] = newCmd[i] - 1]
        BY <1>4 DEF ReceiveCommand, Wait
      <3>3. newCmd[i] = 1
        BY <3>1, <3>2 DEF MailboxTurnAt
      <3>4. QED
        BY <3>2, <3>3
    <2>2. OwnersKept
      BY <1>4, <2>1 DEF ReceiveCommand, OwnersKept
    <2>3. QED
      BY <2>2, KeptOwned
  <1>5. ASSUME NEW i \in Inner, ReadCommand(i) PROVE Owned'
    BY <1>5, ReadOwned
  <1>6. ASSUME NEW i \in Workers, SubmitJob(i) PROVE Owned'
    BY <1>6, KeptOwned DEF SubmitJob, OwnersKept
  <1>7. ASSUME NEW i \in Workers, AwaitResult(i) PROVE Owned'
    BY <1>7, KeptOwned DEF AwaitResult, OwnersKept
  <1>8. ASSUME NEW i \in Inner \cap Workers, DropFrame(i) PROVE Owned'
    BY <1>8, PushOwned DEF DropFrame
  <1>9. ASSUME NEW i \in Inner \cap Workers, KeepFrame(i) PROVE Owned'
    BY <1>9, KeptOwned DEF KeepFrame, OwnersKept
  <1>10. ASSUME NEW i \in Workers, WaitNext(i) PROVE Owned'
    BY <1>10, KeptOwned DEF WaitNext, OwnersKept
  <1>11. ASSUME NEW i \in Workers, PutJob(i) PROVE Owned'
    BY <1>11, PutOwned
  <1>12. ASSUME NEW i \in Workers, PutStop(i) PROVE Owned'
    <2>1. i \in Int /\ i + 1 \in Inner
      BY LastStageAssumption DEF Workers
    <2>2. ~Boxed(i + 1) /\ ~Boxed(i + 1)'
      BY <1>12, <2>1 DEF MailboxTurn, MailboxTurnAt, PutStop, TypeOK
    <2>3. \A j \in Inner : j # i + 1 => newCmd'[j] = newCmd[j] /\ cmd'[j] = cmd[j]
      BY <1>12, <2>1 DEF PutStop, Post, TypeOK, Inner, Stages
    <2>4. OwnersKept
      BY <1>12, <2>1, <2>2, <2>3 DEF PutStop, OwnersKept
    <2>5. QED
      BY <2>4, KeptOwned
  <1>13. ASSUME NEW i \in Workers, SubmitStop(i) PROVE Owned'
    BY <1>13, KeptOwned DEF SubmitStop, OwnersKept
  <1>14. ASSUME NEW i \in Workers, AwaitStop(i) PROVE Owned'
    BY <1>14, KeptOwned DEF AwaitStop, OwnersKept
  <1>15. CASE ReturnChunk
    BY <1>15, PushOwned DEF ReturnChunk
  <1>16. ASSUME NEW i \in Workers, Client(i) \/ ClientCrash(i) PROVE Owned'
    BY <1>16, KeptOwned
    DEF Client, ClientTake, ClientAct, ClientAnswer, ClientCrash, OwnersKept
  <1>17. CASE GoLive \/ RequestExit \/ UNCHANGED vars
    BY <1>17, KeptOwned DEF GoLive, RequestExit, vars, OwnersKept
  <1>18. QED
    BY <1>1, <1>3, <1>4, <1>5, <1>6, <1>7, <1>8, <1>9, <1>10, <1>11,
       <1>12, <1>13, <1>14, <1>15, <1>16, <1>17
    DEF Next, Thread, Source, Mailbox, Work, Finished

-----------------------------------------------------------------------------
(* The STOP travels down the chain behind the last job.                    *)

StopOrder ==
  /\ \A j \in Inner : cmd[j] = "STOP" <=> StopSent(j - 1)
  /\ \A j \in Inner : Stopping(j) => cmd[j] = "STOP"
  /\ \A i, j \in Stages : i < j /\ Stopping(j) => StopSent(i)

\* the step neither stops a thread nor touches a command
StopKept ==
  /\ \A i \in Stages : Stopping(i)' = Stopping(i) /\ StopSent(i)' = StopSent(i)
  /\ cmd' = cmd

(* A step that moves no STOP keeps its order.                              *)
LEMMA KeptStopOrder == StopOrder /\ StopKept => StopOrder'
  <1> SUFFICES ASSUME StopOrder, StopKept PROVE StopOrder'
    OBVIOUS
  <1>1. \A j \in Inner : j - 1 \in Stages /\ j \in Stages
    BY LastStageAssumption DEF Inner, Stages
  <1>2. QED
    BY <1>1 DEF StopOrder, StopKept

(* The thread that reads the STOP was sent it by the thread before, which  *)
(* had been stopped by the one before it.                                  *)
LEMMA ReadStopOrder ==
  ASSUME TypeOK, StopOrder, NEW i \in Inner, ReadCommand(i) PROVE StopOrder'
  <1>1. i \in Int /\ i \in Stages /\ i - 1 \in Stages /\ cmd[i] \in {"JOB", "STOP"}
    BY LastStageAssumption DEF Inner, Stages, TypeOK
  <1>2. /\ pc[i] = "read" /\ pc'[i] = AfterRead(i) /\ cmd' = cmd
        /\ \A j \in Stages : j # i => pc'[j] = pc[j]
    BY <1>1 DEF ReadCommand, Goto, TypeOK
  <1>3. /\ ~Stopping(i) /\ ~StopSent(i)
        /\ \A j \in Stages : j # i => Stopping(j)' = Stopping(j) /\ StopSent(j)' = StopSent(j)
    BY <1>2 DEF Stopping, StopSent
  <1>4. CASE cmd[i] = "JOB"
    <2>1. ~Stopping(i)' /\ ~StopSent(i)'
      BY <1>2, <1>4 DEF Stopping, StopSent, AfterRead
    <2>2. Stopping(i)' = Stopping(i) /\ StopSent(i)' = StopSent(i)
      BY <1>3, <2>1 DEF Stopping, StopSent
    <2>3. StopKept
      <3>1. ASSUME NEW j \in Stages PROVE Stopping(j)' = Stopping(j) /\ StopSent(j)' = StopSent(j)
        BY <1>3, <2>2
      <3>2. QED
        BY <1>2, <3>1 DEF StopKept
    <2>4. QED
      BY <2>3, KeptStopOrder
  <1>5. CASE cmd[i] = "STOP"
    <2>1. Stopping(i)' /\ (StopSent(i)' <=> i = LastStage)
      BY <1>2, <1>5 DEF Stopping, StopSent, AfterRead
    <2>2. StopSent(i - 1) /\ i - 1 # i
      BY <1>1, <1>5 DEF StopOrder
    <2>3. \A k \in Stages : k < i => StopSent(k)
      <3>1. Stopping(i - 1)
        BY <2>2 DEF Stopping, StopSent
      <3>2. \A k \in Stages : k < i => k = i - 1 \/ k < i - 1
        BY <1>1 DEF Stages
      <3>3. QED
        BY <1>1, <2>2, <3>1, <3>2 DEF StopOrder
    <2>4. \A j \in Inner : j \in Stages /\ j - 1 \in Stages /\ j - 1 # LastStage
      BY LastStageAssumption DEF Inner, Stages
    <2>5. \A j \in Inner : cmd'[j] = "STOP" <=> StopSent(j - 1)'
      BY <1>2, <1>3, <2>1, <2>4 DEF StopOrder
    <2>6. \A j \in Inner : Stopping(j)' => cmd'[j] = "STOP"
      BY <1>2, <1>3, <1>5, <2>4 DEF StopOrder
    <2>7. \A k, j \in Stages : k < j /\ Stopping(j)' => StopSent(k)'
      <3> SUFFICES ASSUME NEW k \in Stages, NEW j \in Stages, k < j, Stopping(j)'
                   PROVE  StopSent(k)'
        OBVIOUS
      <3>1. CASE j = i
        <4>1. k # i
          BY <1>1, <3>1 DEF Stages
        <4>2. QED
          BY <1>3, <2>3, <3>1, <4>1
      <3>2. CASE j # i
        <4>1. StopSent(k)
          BY <1>3, <3>2 DEF StopOrder
        <4>2. QED
          BY <1>3, <4>1
      <3>3. QED
        BY <3>1, <3>2
    <2>8. QED
      BY <2>5, <2>6, <2>7 DEF StopOrder
  <1>6. QED
    BY <1>1, <1>4, <1>5

(* A thread that hands a job on has not sent its STOP: it overwrites none. *)
LEMMA PutJobStopOrder ==
  ASSUME TypeOK, StopOrder, NEW i \in Workers, PutJob(i) PROVE StopOrder'
  <1>1. i \in Int /\ i \in Stages /\ i + 1 \in Inner /\ i + 1 \in Stages /\ (i + 1) - 1 = i
    BY LastStageAssumption DEF Workers, Inner, Stages
  <1>2. /\ pc[i] = "put" /\ pc'[i] \in {"test", "recv"}
        /\ \A j \in Stages : j # i => pc'[j] = pc[j]
    BY <1>1 DEF PutJob, Goto, TypeOK
  <1>3. cmd[i + 1] = "JOB"
    <2>1. ~StopSent(i)
      BY <1>2 DEF StopSent
    <2>2. QED
      BY <1>1, <2>1 DEF StopOrder, TypeOK
  <1>4. cmd' = cmd
    BY <1>1, <1>3 DEF PutJob, TypeOK
  <1>5. StopKept
    BY <1>2, <1>4 DEF StopKept, Stopping, StopSent
  <1>6. QED
    BY <1>5, KeptStopOrder

(* The STOP goes into the next mailbox once its sender left the loop.      *)
LEMMA PutStopOrder ==
  ASSUME TypeOK, StopOrder, NEW i \in Workers, PutStop(i) PROVE StopOrder'
  <1>1. i \in Int /\ i \in Stages /\ i + 1 \in Inner /\ i + 1 \in Stages /\ (i + 1) - 1 = i
    BY LastStageAssumption DEF Workers, Inner, Stages
  <1>2. /\ pc[i] = "stopPut" /\ pc'[i] = "stopJob"
        /\ \A j \in Stages : j # i => pc'[j] = pc[j]
    BY <1>1 DEF PutStop, Goto, TypeOK
  <1>3. /\ cmd'[i + 1] = "STOP"
        /\ \A j \in Inner : j # i + 1 => cmd'[j] = cmd[j]
    BY <1>1, StageFacts DEF PutStop, TypeOK
  <1>4. /\ StopSent(i)' /\ Stopping(i)'
        /\ Stopping(i)
        /\ \A j \in Stages : j # i => Stopping(j)' = Stopping(j) /\ StopSent(j)' = StopSent(j)
    BY <1>2 DEF Stopping, StopSent
  <1>5. \A j \in Inner : j \in Stages /\ j - 1 \in Stages /\ (j # i + 1 => j - 1 # i)
    BY <1>1, LastStageAssumption DEF Inner, Stages
  <1>6. \A j \in Inner : cmd'[j] = "STOP" <=> StopSent(j - 1)'
    BY <1>1, <1>3, <1>4, <1>5 DEF StopOrder
  <1>7. \A j \in Inner : Stopping(j)' => cmd'[j] = "STOP"
    BY <1>3, <1>4, <1>5 DEF StopOrder
  <1>8. \A k, j \in Stages : k < j /\ Stopping(j)' => StopSent(k)'
    BY <1>4 DEF StopOrder
  <1>9. QED
    BY <1>6, <1>7, <1>8 DEF StopOrder

(* No step of Pipeline lets a STOP overtake another or a job follow it.    *)
LEMMA NextStopOrder == TypeOK /\ StopOrder /\ [Next]_vars => StopOrder'
  <1> SUFFICES ASSUME TypeOK, StopOrder PROVE [Next]_vars => StopOrder'
    OBVIOUS
  <1>0. pc \in [Stages -> ThreadPlaces]
    BY DEF TypeOK
  <1> USE <1>0, StageFacts DEF Goto, Stopping, StopSent, mailbox, slot
  <1>1. CASE TestExit
    <2>1. /\ pc[0] = "test" /\ pc'[0] \in {"stopGive", "checkLive"} /\ cmd' = cmd
          /\ \A j \in Stages : j # 0 => pc'[j] = pc[j]
      BY <1>1 DEF TestExit
    <2>2. \A j \in Stages : StopSent(j)' = StopSent(j) /\ (j # 0 => Stopping(j)' = Stopping(j))
      BY <2>1
    <2>3. \A i, j \in Stages : i < j => j # 0
      BY DEF Stages
    <2>4. \A j \in Inner : j # 0 /\ j - 1 \in Stages /\ j \in Stages
      BY LastStageAssumption DEF Inner, Stages
    <2>5. QED
      BY <2>1, <2>2, <2>3, <2>4 DEF StopOrder
  <1>2. CASE CheckLive \/ PopFree
    BY <1>2, KeptStopOrder DEF CheckLive, PopFree, StopKept
  <1>4. ASSUME NEW i \in Inner, ReceiveCommand(i) PROVE StopOrder'
    BY <1>4, KeptStopOrder DEF ReceiveCommand, StopKept
  <1>5. ASSUME NEW i \in Inner, ReadCommand(i) PROVE StopOrder'
    BY <1>5, ReadStopOrder
  <1>6. ASSUME NEW i \in Workers, SubmitJob(i) PROVE StopOrder'
    BY <1>6, KeptStopOrder DEF SubmitJob, StopKept
  <1>7. ASSUME NEW i \in Workers, AwaitResult(i) PROVE StopOrder'
    BY <1>7, KeptStopOrder DEF AwaitResult, StopKept
  <1>8. ASSUME NEW i \in Inner \cap Workers, DropFrame(i) \/ KeepFrame(i) PROVE StopOrder'
    BY <1>8, KeptStopOrder DEF DropFrame, KeepFrame, StopKept
  <1>10. ASSUME NEW i \in Workers, WaitNext(i) PROVE StopOrder'
    BY <1>10, KeptStopOrder DEF WaitNext, StopKept
  <1>11. ASSUME NEW i \in Workers, PutJob(i) PROVE StopOrder'
    BY <1>11, PutJobStopOrder
  <1>12. ASSUME NEW i \in Workers, PutStop(i) PROVE StopOrder'
    BY <1>12, PutStopOrder
  <1>13. ASSUME NEW i \in Workers, SubmitStop(i) \/ AwaitStop(i) PROVE StopOrder'
    BY <1>13, KeptStopOrder DEF SubmitStop, AwaitStop, StopKept
  <1>15. CASE ReturnChunk
    BY <1>15, KeptStopOrder DEF ReturnChunk, StopKept
  <1>16. ASSUME NEW i \in Workers, Client(i) \/ ClientCrash(i) PROVE StopOrder'
    BY <1>16, KeptStopOrder
    DEF Client, ClientTake, ClientAct, ClientAnswer, ClientCrash, StopKept
  <1>17. CASE GoLive \/ RequestExit \/ UNCHANGED vars
    BY <1>17, KeptStopOrder DEF GoLive, RequestExit, vars, StopKept
  <1>18. QED
    BY <1>1, <1>2, <1>4, <1>5, <1>6, <1>7, <1>8, <1>10, <1>11,
       <1>12, <1>13, <1>15, <1>16, <1>17
    DEF Next, Thread, Source, Mailbox, Work, Finished

-----------------------------------------------------------------------------
(* The stages that have worked on the frame a thread or mailbox carries.   *)

\* stage i's action still has to run on the chunk its thread holds
Todo(i) ==
  \/ pc[i] \in {"job", "free"}
  \/ i \in Workers /\ pc[i] = "await" /\ (semJob[i] = 1 \/ cpc[i] = "act")

\* it has run
Worked(i) ==
  \/ pc[i] \in {"judge", "give", "put"}
  \/ pc[i] = "await" /\ (semResult[i] = 1 \/ cpc[i] \in {"answer", "leave"})

FrameProgress ==
  /\ \A i \in Inner : Todo(i) => visited[off[i]] = 0..i - 1
  /\ \A i \in Workers : Worked(i) => visited[off[i]] = 0..i
  /\ \A i \in Inner : Boxed(i) => visited[dataoffset[i]] = 0..i - 1

\* nothing anybody carries is worked on in this step
ProgressKept ==
  /\ \A i \in Inner : Todo(i)' => Todo(i) /\ off'[i] = off[i]
  /\ \A i \in Workers : Worked(i)' => Worked(i) /\ off'[i] = off[i]
  /\ \A i \in Inner : Boxed(i)' => Boxed(i) /\ dataoffset'[i] = dataoffset[i]
  /\ visited' = visited

(* A step in which nobody works keeps what each frame visited.             *)
LEMMA KeptProgress == FrameProgress /\ ProgressKept => FrameProgress'
  <1> SUFFICES ASSUME FrameProgress, ProgressKept PROVE FrameProgress'
    OBVIOUS
  <1>1. ASSUME NEW i \in Inner, Todo(i)' PROVE visited'[off'[i]] = 0..i - 1
    BY <1>1 DEF FrameProgress, ProgressKept
  <1>2. ASSUME NEW i \in Workers, Worked(i)' PROVE visited'[off'[i]] = 0..i
    BY <1>2 DEF FrameProgress, ProgressKept
  <1>3. ASSUME NEW i \in Inner, Boxed(i)' PROVE visited'[dataoffset'[i]] = 0..i - 1
    BY <1>3 DEF FrameProgress, ProgressKept
  <1>4. QED
    BY <1>1, <1>2, <1>3 DEF FrameProgress

(* The frame in a mailbox is the one its reader has to work on.            *)
LEMMA ReadProgress ==
  ASSUME TypeOK, MailboxTurn, FrameProgress, NEW i \in Inner, ReadCommand(i)
  PROVE  FrameProgress'
  <1>1. i \in Stages /\ cmd[i] \in {"JOB", "STOP"}
    BY StageFacts DEF TypeOK
  <1>2. /\ pc[i] = "read" /\ pc'[i] = AfterRead(i) /\ off'[i] = dataoffset[i]
        /\ \A j \in Stages : j # i => pc'[j] = pc[j] /\ off'[j] = off[j]
        /\ newCmd' = newCmd /\ cmd' = cmd /\ dataoffset' = dataoffset
        /\ cpc' = cpc /\ semJob' = semJob /\ semResult' = semResult /\ visited' = visited
    BY <1>1 DEF ReadCommand, Goto, TypeOK, slot
  <1>3. ASSUME NEW j \in Inner, Todo(j)' PROVE visited'[off'[j]] = 0..j - 1
    <2>1. CASE j = i
      <3>1. Boxed(i)
        BY <1>1, <1>2, <1>3, <2>1 DEF Todo, AfterRead, Boxed
      <3>2. QED
        BY <1>2, <2>1, <3>1 DEF FrameProgress
    <2>2. CASE j # i
      <3>1. Todo(j) /\ off'[j] = off[j]
        BY <1>2, <1>3, <2>2, StageFacts DEF Todo
      <3>2. QED
        BY <1>2, <3>1 DEF FrameProgress
    <2>3. QED
      BY <2>1, <2>2
  <1>4. ASSUME NEW j \in Workers, Worked(j)' PROVE visited'[off'[j]] = 0..j
    <2>1. j # i /\ j \in Stages
      BY <1>2, <1>4, StageFacts DEF Worked, AfterRead
    <2>2. Worked(j) /\ off'[j] = off[j]
      BY <1>2, <1>4, <2>1 DEF Worked
    <2>3. QED
      BY <1>2, <2>2 DEF FrameProgress
  <1>5. ASSUME NEW j \in Inner, Boxed(j)' PROVE visited'[dataoffset'[j]] = 0..j - 1
    <2>1. Boxed(j)
      <3>1. j \in Stages
        BY StageFacts
      <3>2. j = i \/ pc'[j] = pc[j]
        BY <1>2, <3>1
      <3>3. QED
        BY <1>2, <1>5, <3>2 DEF Boxed
    <2>2. QED
      BY <1>2, <2>1 DEF FrameProgress
  <1>6. QED
    BY <1>3, <1>4, <1>5 DEF FrameProgress

(* A thread hands on a frame its own stage has worked on.                  *)
LEMMA PutProgress ==
  ASSUME TypeOK, FrameProgress, NEW i \in Workers, PutJob(i) PROVE FrameProgress'
  <1>1. /\ i \in Int /\ i \in Stages /\ i + 1 \in Stages /\ i + 1 \in Inner
        /\ (i + 1) - 1 = i
    BY StageFacts, NextStage, LastStageAssumption DEF Workers
  <1>2. /\ pc[i] = "put" /\ pc'[i] \in {"test", "recv"}
        /\ \A j \in Stages : j # i => pc'[j] = pc[j]
        /\ off' = off /\ cpc' = cpc /\ semJob' = semJob /\ semResult' = semResult
        /\ visited' = visited
        /\ dataoffset'[i + 1] = off[i]
    BY <1>1 DEF PutJob, Goto, TypeOK, slot
  <1>3. \A j \in Inner : j # i + 1 =>
          cmd'[j] = cmd[j] /\ newCmd'[j] = newCmd[j] /\ dataoffset'[j] = dataoffset[j]
    BY <1>1 DEF PutJob, Post, TypeOK, Inner, Stages
  <1>4. ASSUME NEW j \in Stages, Todo(j)' PROVE Todo(j)
    BY <1>2, <1>4 DEF Todo
  <1>5. ASSUME NEW j \in Stages, Worked(j)' PROVE Worked(j)
    BY <1>2, <1>5 DEF Worked
  <1>6. ASSUME NEW j \in Inner, Boxed(j)' PROVE visited'[dataoffset'[j]] = 0..j - 1
    <2>1. CASE j = i + 1
      <3>1. Worked(i)
        BY <1>2 DEF Worked
      <3>2. visited[off[i]] = 0..i
        BY <3>1 DEF FrameProgress
      <3>3. QED
        BY <1>1, <1>2, <2>1, <3>2
    <2>2. CASE j # i + 1
      <3>1. j \in Stages
        BY StageFacts
      <3>2. Boxed(j)
        BY <1>2, <1>3, <1>6, <2>2, <3>1 DEF Boxed
      <3>3. QED
        BY <1>2, <1>3, <2>2, <3>2 DEF FrameProgress
    <2>3. QED
      BY <2>1, <2>2
  <1>7. QED
    BY <1>2, <1>4, <1>5, <1>6, StageFacts DEF FrameProgress

(* A client works on its own stage's frame, and on no other.               *)
LEMMA ActProgress ==
  ASSUME TypeOK, RealChunks, ClientTurn, Owned, FrameProgress,
         NEW i \in Workers, ClientAct(i)
  PROVE  FrameProgress'
  <1>1. i \in Nat /\ i \in Stages /\ ClientTurnAt(i)
    BY StageFacts DEF ClientTurn, Workers
  <1>2. PICK status \in Statuses : ClientAct(i)!(status)
    BY DEF ClientAct
  <1>3. /\ cpc[i] = "act" /\ cpc'[i] \in {"answer", "leave"}
        /\ \A j \in Workers : j # i => cpc'[j] = cpc[j]
        /\ pc' = pc /\ off' = off /\ semJob' = semJob /\ semResult' = semResult
        /\ newCmd' = newCmd /\ cmd' = cmd /\ dataoffset' = dataoffset
    BY <1>2 DEF ClientGoto, TypeOK, mailbox
  <1>4. /\ pc[i] = "await" /\ procOff[i] = off[i] /\ semJob[i] = 0 /\ semResult[i] = 0
        /\ off[i] \in Offsets /\ Holds(i) /\ Todo(i)
    <2>1. pc[i] = "await" /\ procOff[i] = off[i] /\ semJob[i] = 0 /\ semResult[i] = 0
      BY <1>1, <1>3 DEF ClientTurnAt
    <2>2. Holds(i) /\ Todo(i)
      BY <1>3, <2>1 DEF Holds, Todo
    <2>3. QED
      BY <1>1, <2>1, <2>2 DEF RealChunks
  <1>5. visited'[off[i]] = 0..i
    <2>1. visited'[off[i]] = IF i = 0 THEN {0} ELSE visited[off[i]] \cup {i}
      BY <1>2, <1>4 DEF TypeOK
    <2>2. CASE i = 0
      BY <2>1, <2>2
    <2>3. CASE i # 0
      <3>1. i \in Inner
        BY <2>3, LastStageAssumption DEF Workers, Inner
      <3>2. visited[off[i]] = 0..i - 1
        BY <1>4, <3>1 DEF FrameProgress
      <3>3. QED
        BY <1>1, <2>1, <2>3, <3>2
    <2>4. QED
      BY <2>2, <2>3
  <1>6. \A o \in Offsets : o # off[i] => visited'[o] = visited[o]
    BY <1>2, <1>4 DEF TypeOK
  <1>7. ASSUME NEW j \in Inner, Todo(j)' PROVE visited'[off'[j]] = 0..j - 1
    <2>1. j \in Stages /\ j # i
      BY <1>3, <1>4, <1>7, StageFacts DEF Todo
    <2>2. Todo(j)
      BY <1>3, <1>7, <2>1 DEF Todo
    <2>3. Holds(j)
      BY <2>2 DEF Todo, Holds
    <2>4. off[j] # off[i] /\ off[j] \in Offsets
      BY <1>1, <1>4, <2>1, <2>3 DEF Owned, SingleOwner, RealChunks
    <2>5. QED
      BY <1>3, <1>6, <2>2, <2>4 DEF FrameProgress
  <1>8. ASSUME NEW j \in Workers, Worked(j)' PROVE visited'[off'[j]] = 0..j
    <2>1. CASE j = i
      BY <1>3, <1>5, <2>1
    <2>2. CASE j # i
      <3>1. Worked(j) /\ j \in Stages
        BY <1>3, <1>8, <2>2, StageFacts DEF Worked
      <3>2. Holds(j)
        BY <3>1 DEF Worked, Holds
      <3>3. off[j] # off[i] /\ off[j] \in Offsets
        BY <1>1, <1>4, <2>2, <3>1, <3>2 DEF Owned, SingleOwner, RealChunks
      <3>4. QED
        BY <1>3, <1>6, <3>1, <3>3 DEF FrameProgress
    <2>3. QED
      BY <2>1, <2>2
  <1>9. ASSUME NEW j \in Inner, Boxed(j)' PROVE visited'[dataoffset'[j]] = 0..j - 1
    <2>1. Boxed(j)
      BY <1>3, <1>9 DEF Boxed
    <2>2. dataoffset[j] # off[i] /\ dataoffset[j] \in Offsets
      BY <1>1, <1>4, <2>1 DEF Owned, SingleOwner, RealChunks
    <2>3. QED
      BY <1>3, <1>6, <2>1, <2>2 DEF FrameProgress
  <1>10. QED
    BY <1>7, <1>8, <1>9 DEF FrameProgress

(* Finalization clears the chunk it gives back, and no other.              *)
LEMMA ReturnProgress ==
  ASSUME TypeOK, RealChunks, Owned, FrameProgress, ReturnChunk PROVE FrameProgress'
  <1>1. /\ LastStage \in Stages /\ pc[LastStage] = "free" /\ pc'[LastStage] = "recv"
        /\ \A j \in Stages : j # LastStage => pc'[j] = pc[j]
        /\ off' = off /\ cpc' = cpc /\ semJob' = semJob /\ semResult' = semResult
        /\ newCmd' = newCmd /\ cmd' = cmd /\ dataoffset' = dataoffset
    BY StageFacts DEF ReturnChunk, Goto, TypeOK, mailbox, slot
  <1>2. Holds(LastStage) /\ off[LastStage] \in Offsets
    BY <1>1 DEF Holds, RealChunks
  <1>3. \A o \in Offsets : o # off[LastStage] => visited'[o] = visited[o]
    BY <1>2 DEF ReturnChunk, TypeOK
  <1>4. ASSUME NEW j \in Stages, Holds(j), j # LastStage
        PROVE  off[j] \in Offsets /\ visited'[off'[j]] = visited[off[j]]
    BY <1>1, <1>2, <1>3, <1>4 DEF Owned, SingleOwner, RealChunks
  <1>5. ASSUME NEW j \in Inner, Todo(j)' PROVE visited'[off'[j]] = 0..j - 1
    <2>1. j # LastStage /\ j \in Stages /\ Todo(j)
      BY <1>1, <1>5, StageFacts DEF Todo
    <2>2. QED
      BY <1>4, <2>1 DEF FrameProgress, Todo, Holds
  <1>6. ASSUME NEW j \in Workers, Worked(j)' PROVE visited'[off'[j]] = 0..j
    <2>1. j # LastStage /\ j \in Stages /\ Worked(j)
      BY <1>1, <1>6, StageFacts DEF Worked
    <2>2. QED
      BY <1>4, <2>1 DEF FrameProgress, Worked, Holds
  <1>7. ASSUME NEW j \in Inner, Boxed(j)' PROVE visited'[dataoffset'[j]] = 0..j - 1
    <2>1. Boxed(j) /\ j \in Stages
      <3>1. j \in Stages
        BY StageFacts
      <3>2. QED
        BY <1>1, <1>7, <3>1 DEF Boxed
    <2>2. dataoffset[j] # off[LastStage] /\ dataoffset[j] \in Offsets
      BY <1>1, <1>2, <2>1 DEF Owned, SingleOwner, RealChunks
    <2>3. QED
      BY <1>1, <1>3, <2>1, <2>2 DEF FrameProgress
  <1>8. QED
    BY <1>5, <1>6, <1>7 DEF FrameProgress

(* No step lets a frame reach a stage with a visit missing.                *)
LEMMA NextProgress ==
  TypeOK /\ RealChunks /\ MailboxTurn /\ ClientTurn /\ Owned /\ FrameProgress /\ [Next]_vars
    => FrameProgress'
  <1> SUFFICES ASSUME TypeOK, RealChunks, MailboxTurn, ClientTurn, Owned, FrameProgress
               PROVE  [Next]_vars => FrameProgress'
    OBVIOUS
  <1>0. /\ pc \in [Stages -> ThreadPlaces] /\ newCmd \in [Stages -> Nat]
        /\ off \in [Stages -> Offsets \cup {0}] /\ cpc \in [Workers -> ClientPlaces]
        /\ semJob \in [Workers -> Nat] /\ semResult \in [Workers -> Nat]
    BY DEF TypeOK
  <1>a. \A i \in Workers : ClientTurnAt(i)
    BY DEF ClientTurn
  <1> USE <1>0, StageFacts DEF Goto, Todo, Worked, Boxed, mailbox, slot
  <1>1. CASE TestExit \/ CheckLive
    BY <1>1, KeptProgress DEF TestExit, CheckLive, ProgressKept
  <1>3. CASE PopFree
    <2>1. \A i \in Inner : i # 0
      BY DEF Inner
    <2>2. ProgressKept
      BY <1>3, <2>1 DEF PopFree, ProgressKept
    <2>3. QED
      BY <2>2, KeptProgress
  <1>4. ASSUME NEW i \in Inner, ReceiveCommand(i) PROVE FrameProgress'
    <2>1. newCmd[i] > 0 /\ newCmd' = [newCmd EXCEPT ![i] = @ - 1] /\ cmd' = cmd
          /\ dataoffset' = dataoffset
      BY <1>4 DEF ReceiveCommand, Wait
    <2>2. \A j \in Inner : Boxed(j)' => Boxed(j)
      BY <1>4, <2>1 DEF ReceiveCommand
    <2>3. ProgressKept
      BY <1>4, <2>1, <2>2 DEF ReceiveCommand, ProgressKept
    <2>4. QED
      BY <2>3, KeptProgress
  <1>5. ASSUME NEW i \in Inner, ReadCommand(i) PROVE FrameProgress'
    BY <1>5, ReadProgress
  <1>6. ASSUME NEW i \in Workers, SubmitJob(i) PROVE FrameProgress'
    <2>1. semResult[i] = 0 /\ cpc[i] \notin {"answer", "leave"}
      BY <1>6, <1>a DEF SubmitJob, ClientTurnAt
    <2>2. ProgressKept
      BY <1>6, <2>1 DEF SubmitJob, Post, ProgressKept
    <2>3. QED
      BY <2>2, KeptProgress
  <1>7. ASSUME NEW i \in Workers, AwaitResult(i) PROVE FrameProgress'
    <2>1. semResult[i] = 1
      BY <1>7, <1>a DEF AwaitResult, Wait, ClientTurnAt
    <2>2. ProgressKept
      BY <1>7, <2>1 DEF AwaitResult, Wait, ProgressKept
    <2>3. QED
      BY <2>2, KeptProgress
  <1>8. ASSUME NEW i \in Inner \cap Workers, DropFrame(i) \/ KeepFrame(i) PROVE FrameProgress'
    BY <1>8, KeptProgress DEF DropFrame, KeepFrame, ProgressKept
  <1>10. ASSUME NEW i \in Workers, WaitNext(i) PROVE FrameProgress'
    BY <1>10, KeptProgress DEF WaitNext, ProgressKept
  <1>11. ASSUME NEW i \in Workers, PutJob(i) PROVE FrameProgress'
    BY <1>11, PutProgress
  <1>12. ASSUME NEW i \in Workers, PutStop(i) PROVE FrameProgress'
    <2>1. i \in Int /\ i + 1 \in Inner /\ i + 1 \in Stages
      BY NextStage, LastStageAssumption DEF Workers
    <2>2. cmd' = [cmd EXCEPT ![i + 1] = "STOP"] /\ cmd \in [Stages -> {"JOB", "STOP"}]
      BY <1>12 DEF PutStop, TypeOK
    <2>3. \A j \in Inner : j # i + 1 => newCmd'[j] = newCmd[j] /\ cmd'[j] = cmd[j]
      BY <1>12, <2>1, <2>2 DEF PutStop, Post, Inner, Stages
    <2>4. \A j \in Inner : Boxed(j)' => Boxed(j)
      BY <1>12, <2>1, <2>2, <2>3 DEF PutStop
    <2>5. ProgressKept
      BY <1>12, <2>4 DEF PutStop, ProgressKept
    <2>6. QED
      BY <2>5, KeptProgress
  <1>13. ASSUME NEW i \in Workers, SubmitStop(i) PROVE FrameProgress'
    BY <1>13, KeptProgress DEF SubmitStop, Post, ProgressKept
  <1>14. ASSUME NEW i \in Workers, AwaitStop(i) PROVE FrameProgress'
    BY <1>14, KeptProgress DEF AwaitStop, Wait, ProgressKept
  <1>15. CASE ReturnChunk
    BY <1>15, ReturnProgress
  <1>16. ASSUME NEW i \in Workers, ClientTake(i) PROVE FrameProgress'
    <2>1. pc[i] \in {"await", "stopAwait"} /\ semJob[i] = 1
          /\ procCmd[i] = (IF pc[i] = "await" THEN "JOB" ELSE "STOP")
      BY <1>16, <1>a DEF ClientTake, Wait, ClientTurnAt
    <2>2. ProgressKept
      BY <1>16, <2>1 DEF ClientTake, ClientGoto, Wait, ProgressKept
    <2>3. QED
      BY <2>2, KeptProgress
  <1>17. ASSUME NEW i \in Workers, ClientAct(i) PROVE FrameProgress'
    BY <1>17, ActProgress
  <1>18. ASSUME NEW i \in Workers, ClientAnswer(i) PROVE FrameProgress'
    <2>1. cpc[i] \in {"answer", "leave"} /\ cpc'[i] \in {"wait", "gone"}
      BY <1>18 DEF ClientAnswer, ClientGoto
    <2>2. ProgressKept
      BY <1>18, <2>1 DEF ClientAnswer, ClientGoto, Post, ProgressKept
    <2>3. QED
      BY <2>2, KeptProgress
  <1>19. ASSUME NEW i \in Workers, ClientCrash(i) PROVE FrameProgress'
    BY <1>19, KeptProgress DEF ClientCrash, ProgressKept
  <1>20. CASE GoLive \/ RequestExit \/ UNCHANGED vars
    BY <1>20, KeptProgress DEF GoLive, RequestExit, vars, ProgressKept
  <1>21. QED
    BY <1>1, <1>3, <1>4, <1>5, <1>6, <1>7, <1>8, <1>10, <1>11, <1>12, <1>13,
       <1>14, <1>15, <1>16, <1>17, <1>18, <1>19, <1>20
    DEF Next, Thread, Source, Mailbox, Work, Client, Finished

-----------------------------------------------------------------------------
(* The inductive invariant.                                                *)

IInv ==
  /\ TypeOK
  /\ RealChunks
  /\ MailboxTurn
  /\ ClientTurn
  /\ Owned
  /\ StopOrder
  /\ FrameProgress

(* A pipeline just started satisfies it.                                   *)
LEMMA InitIInv == Init => IInv
  <1> SUFFICES ASSUME Init PROVE IInv
    OBVIOUS
  <1>1. /\ \A i \in Stages : pc[i] \in {"test", "recv"} /\ newCmd[i] = 0 /\ cmd[i] = "JOB"
        /\ \A i \in Stages : result[i] = 1
        /\ \A i \in Workers : semJob[i] = 0 /\ semResult[i] = 0 /\ cpc[i] = "wait"
        /\ free = [k \in Offsets |-> k]
    BY DEF Init, ModuleInit, SlotInit, DataInit
  <1> USE StageFacts
  <1>2. \A i \in Stages : ~Holds(i) /\ ~Boxed(i) /\ ~Stopping(i) /\ ~StopSent(i) /\ ~Todo(i)
                          /\ ~Worked(i)
    BY <1>1 DEF Holds, Boxed, Stopping, StopSent, Todo, Worked
  <1>3. RealChunks
    BY <1>2 DEF RealChunks
  <1>4. MailboxTurn
    BY <1>1 DEF MailboxTurn, MailboxTurnAt
  <1>5. ClientTurn
    BY <1>1 DEF ClientTurn, ClientTurnAt
  <1>6. SingleOwner
    BY <1>1, <1>2 DEF SingleOwner
  <1>7. NoChunkLost
    BY <1>1 DEF NoChunkLost
  <1>8. StopOrder
    BY <1>1, <1>2 DEF StopOrder
  <1>9. FrameProgress
    BY <1>2 DEF FrameProgress
  <1>10. QED
    BY <1>3, <1>4, <1>5, <1>6, <1>7, <1>8, <1>9, InitTypeOK DEF IInv, Owned

(* No step of Pipeline leaves it.                                          *)
LEMMA NextIInv == IInv /\ [Next]_vars => IInv'
  BY NextTypeOK, NextRealChunks, NextMailboxTurn, NextClientTurn, NextOwned,
     NextStopOrder, NextProgress DEF IInv

(* In every state of every run, the parts the next theorems name hold.     *)
THEOREM Inductive == Spec => []IInv
  BY InitIInv, NextIInv, PTL DEF Spec

-----------------------------------------------------------------------------

(* The structs keep their types; cmdResult never shows the value -1.       *)
THEOREM TypeCorrect == Spec => []TypeOK
  <1>1. IInv => TypeOK
    BY DEF IInv
  <1>2. QED
    BY <1>1, Inductive, PTL

(* No command is overwritten before it was read, or read twice, in a chain *)
(* of any length (the new_cmd and result semaphores of a module).          *)
THEOREM MailboxesTakeTurns == Spec => []MailboxTurn
  <1>1. IInv => MailboxTurn
    BY DEF IInv
  <1>2. QED
    BY <1>1, Inductive, PTL

(* A thread and its client never work on their process_info at once, even  *)
(* when the client leaves or dies (sem_job and sem_result).                *)
THEOREM ClientsTakeTurns == Spec => []ClientTurn
  <1>1. IInv => ClientTurn
    BY DEF IInv
  <1>2. QED
    BY <1>1, Inductive, PTL

(* A data chunk never has two owners.                                      *)
THEOREM ChunksHaveOneOwner == Spec => []SingleOwner
  <1>1. IInv => SingleOwner
    BY DEF IInv, Owned
  <1>2. QED
    BY <1>1, Inductive, PTL

(* A data chunk always has an owner.                                       *)
THEOREM ChunksAreNotLost == Spec => []NoChunkLost
  <1>1. IInv => NoChunkLost
    BY DEF IInv, Owned
  <1>2. QED
    BY <1>1, Inductive, PTL

(* What is still to do at a stage has been through every stage before it.  *)
LEMMA VisitsFollow == IInv => VisitsAllSteps
  BY DEF IInv, FrameProgress, VisitsAllSteps, Todo

(* A frame reaches a stage after every stage before it.                    *)
THEOREM FramesVisitAllSteps == Spec => []VisitsAllSteps
  BY VisitsFollow, Inductive, PTL

(* No thread and no mailbox keeps a chunk when every STOP has been sent.   *)
LEMMA DrainFollows == IInv => StopDrains
  <1> SUFFICES ASSUME IInv, pc[LastStage] = "done"
               PROVE  /\ \A i \in Workers : StopSent(i)
                      /\ \A o \in Offsets : \E k \in DOMAIN free : free[k] = o
    BY DEF StopDrains
  <1>1. \A i \in Workers : i \in Stages /\ i < LastStage
    BY LastStageAssumption DEF Workers, Stages
  <1>2. \A i \in Workers : StopSent(i)
    BY <1>1, StageFacts DEF IInv, StopOrder, Stopping
  <1>3. \A i \in Stages : StopSent(i)
    BY <1>2, StageFacts DEF StopSent
  <1>4. \A i \in Stages : ~Holds(i)
    BY <1>3 DEF StopSent, Holds
  <1>5. \A i \in Inner : ~Boxed(i)
    <2>1. \A i \in Inner : StopSent(i - 1)
      BY <1>3, StageFacts
    <2>2. QED
      BY <2>1 DEF IInv, StopOrder, Boxed
  <1>6. QED
    BY <1>2, <1>4, <1>5 DEF IInv, Owned, NoChunkLost

(* When finalization has read its STOP, no frame is left in the chain.     *)
THEOREM StopDrainsPipeline == Spec => []StopDrains
  BY DrainFollows, Inductive, PTL

(* Only the module before i posts to i's mailbox.                          *)
LEMMA OnlyPredecessorPosts ==
  ASSUME TypeOK, [Next]_vars, NEW i \in Inner, pc[i - 1] \notin {"put", "stopPut"}
  PROVE  newCmd'[i] <= newCmd[i]
  <1>0. /\ pc \in [Stages -> ThreadPlaces] /\ newCmd \in [Stages -> Nat]
        /\ i \in Int /\ i \in Stages /\ newCmd[i] \in Nat
    BY LastStageAssumption DEF TypeOK, Inner, Stages
  <1>1. newCmd' = newCmd => newCmd'[i] <= newCmd[i]
    BY <1>0
  <1>2. ASSUME NEW j \in Inner, ReceiveCommand(j) PROVE newCmd'[i] <= newCmd[i]
    BY <1>0, <1>2 DEF ReceiveCommand, Wait
  <1>3. ASSUME NEW j \in Workers, PutJob(j) \/ PutStop(j) PROVE newCmd'[i] <= newCmd[i]
    <2>1. /\ pc[j] \in {"put", "stopPut"}
          /\ newCmd' = [newCmd EXCEPT ![j + 1] = @ + 1]
          /\ j \in Int
      BY <1>3 DEF PutJob, PutStop, Goto, Post, Workers
    <2>2. j + 1 # i
      BY <1>0, <2>1
    <2>3. QED
      BY <1>0, <2>1, <2>2
  <1>4. QED
    BY <1>1, <1>2, <1>3
    DEF Next, Thread, Source, Mailbox, Work, Client, Finished, vars, mailbox, TestExit,
        CheckLive, PopFree, ReadCommand, SubmitJob, AwaitResult, DropFrame, KeepFrame,
        WaitNext, SubmitStop, AwaitStop, ReturnChunk, ClientTake, ClientAct,
        ClientAnswer, ClientCrash, GoLive, RequestExit

(* A stage that has been stopped is never sent a job, nor a second STOP.   *)
THEOREM NoJobAfterStop == Spec => NothingAfterStop
  <1>1. IInv /\ [Next]_vars => \A i \in Inner : Stopping(i) => newCmd'[i] <= newCmd[i]
    <2> SUFFICES ASSUME IInv, [Next]_vars, NEW i \in Inner, Stopping(i)
                 PROVE  newCmd'[i] <= newCmd[i]
      OBVIOUS
    <2>1. StopSent(i - 1)
      <3>1. i - 1 \in Stages /\ i \in Stages /\ i - 1 < i
        BY LastStageAssumption DEF Inner, Stages
      <3>2. QED
        BY <3>1 DEF IInv, StopOrder
    <2>2. pc[i - 1] \notin {"put", "stopPut"}
      BY <2>1 DEF StopSent
    <2>3. QED
      BY <2>2, OnlyPredecessorPosts DEF IInv
  <1>2. QED
    BY <1>1, Inductive, PTL DEF Spec, NothingAfterStop

-----------------------------------------------------------------------------
(* Chunks in a line: finitely many, no two at a place.                     *)
Line(C, X) ==
  /\ IsFiniteSet(C) /\ C \subseteq Int \X X
  /\ \A c, d \in C : c[1] = d[1] => c = d

Ahead(C, c) == {d \in C : d[1] <= c[1]}

-----------------------------------------------------------------------------
(* Ranks number the line.                                                  *)
LEMMA RankOrder ==
  ASSUME NEW C, NEW X, Line(C, X), NEW c \in C, NEW d \in C
  PROVE  /\ Rank(C, c) \in 1..Cardinality(C)
         /\ Rank(C, c) <= Rank(C, d) <=> c[1] <= d[1]
         /\ Rank(C, c) = Rank(C, d) => c = d
  <1>1. \A e \in C : e[1] \in Int
    BY DEF Line
  <1>2. IsFiniteSet(C) /\ Cardinality(C) \in Nat
    BY FS_CardinalityType DEF Line
  <1>3. ASSUME NEW e \in C
        PROVE  /\ IsFiniteSet(Ahead(C, e)) /\ Rank(C, e) = Cardinality(Ahead(C, e))
               /\ Rank(C, e) \in Nat /\ Rank(C, e) <= Cardinality(C) /\ Rank(C, e) # 0
    <2>1. Ahead(C, e) \in SUBSET C /\ e \in Ahead(C, e)
      BY <1>1 DEF Ahead
    <2>2. IsFiniteSet(Ahead(C, e)) /\ Cardinality(Ahead(C, e)) <= Cardinality(C)
      BY <1>2, <2>1, FS_Subset
    <2>3. Cardinality(Ahead(C, e)) \in Nat
      BY <2>2, FS_CardinalityType
    <2>4. Cardinality(Ahead(C, e)) # 0
      BY <2>1, <2>2, FS_EmptySet
    <2>5. Rank(C, e) = Cardinality(Ahead(C, e))
      BY DEF Rank, Ahead
    <2>6. QED
      BY <2>2, <2>3, <2>4, <2>5
  <1>4. ASSUME NEW a \in C, NEW b \in C, a[1] <= b[1] PROVE Rank(C, a) <= Rank(C, b)
    <2>1. Ahead(C, a) \in SUBSET Ahead(C, b)
      BY <1>1, <1>4 DEF Ahead
    <2>2. Cardinality(Ahead(C, a)) <= Cardinality(Ahead(C, b))
      BY <1>3, <2>1, FS_Subset
    <2>3. QED
      BY <1>3, <2>2
  <1>5. ASSUME NEW a \in C, NEW b \in C, a[1] < b[1] PROVE Rank(C, a) # Rank(C, b)
    <2>1. Ahead(C, a) \in SUBSET Ahead(C, b) /\ b \in Ahead(C, b) /\ b \notin Ahead(C, a)
      BY <1>1, <1>5 DEF Ahead
    <2>2. Cardinality(Ahead(C, a)) # Cardinality(Ahead(C, b))
      BY <1>3, <2>1, FS_Subset
    <2>3. QED
      BY <1>3, <2>2
  <1>6. Rank(C, c) \in 1..Cardinality(C)
    BY <1>2, <1>3
  <1>7. Rank(C, c) <= Rank(C, d) <=> c[1] <= d[1]
    <2>1. Rank(C, c) \in Nat /\ Rank(C, d) \in Nat /\ c[1] \in Int /\ d[1] \in Int
      BY <1>1, <1>3
    <2>2. CASE c[1] <= d[1]
      BY <1>4, <2>2
    <2>3. CASE d[1] < c[1]
      <3>1. Rank(C, d) <= Rank(C, c) /\ Rank(C, d) # Rank(C, c)
        BY <1>4, <1>5, <2>1, <2>3
      <3>2. QED
        BY <2>1, <2>3, <3>1
    <2>4. QED
      BY <2>1, <2>2, <2>3
  <1>8. Rank(C, c) = Rank(C, d) => c = d
    <2>1. c[1] \in Int /\ d[1] \in Int
      BY <1>1
    <2>2. c[1] # d[1] => Rank(C, c) # Rank(C, d)
      BY <1>5, <2>1
    <2>3. QED
      BY <2>2 DEF Line
  <1>9. QED
    BY <1>6, <1>7, <1>8

(* Every position of the line is taken by one chunk.                       *)
LEMMA RankTaken ==
  ASSUME NEW C, NEW X, Line(C, X), NEW k \in 1..Cardinality(C)
  PROVE  \E c \in C : Rank(C, c) = k
  <1> DEFINE n == Cardinality(C)
             f == [c \in C |-> Rank(C, c)]
  <1>1. IsFiniteSet(C) /\ n \in Nat
    BY FS_CardinalityType DEF Line
  <1>2. f \in [C -> 1..n]
    BY RankOrder
  <1>3. \A c, d \in C : f[c] = f[d] => c = d
    BY RankOrder
  <1>4. f \in Injection(C, 1..n)
    BY <1>2, <1>3 DEF Injection, IsInjective
  <1>5. IsFiniteSet(1..n) /\ Cardinality(1..n) = n
    BY <1>1, FS_Interval
  <1>6. f \in Surjection(C, 1..n)
    <2>1. Cardinality(C) = Cardinality(1..n) <=> f \in Surjection(C, 1..n)
      BY <1>4, <1>5, FS_Injection
    <2>2. QED
      BY <1>5, <2>1
  <1>7. \E c \in C : f[c] = k
    BY <1>6 DEF Surjection
  <1>8. QED
    BY <1>7

(* The line as a sequence: each chunk stands where its rank says.          *)
LEMMA LineFacts ==
  ASSUME NEW C, NEW X, Line(C, X)
  PROVE  /\ Cardinality(C) \in Nat
         /\ InLine(C) \in Seq(X)
         /\ Len(InLine(C)) = Cardinality(C)
         /\ \A c \in C : InLine(C)[Rank(C, c)] = c[2]
  <1>1. Cardinality(C) \in Nat
    BY FS_CardinalityType DEF Line
  <1>2. ASSUME NEW c \in C PROVE InLine(C)[Rank(C, c)] = c[2]
    <2>1. Rank(C, c) \in 1..Cardinality(C)
      BY RankOrder
    <2>2. (CHOOSE d \in C : Rank(C, d) = Rank(C, c)) = c
      BY RankOrder
    <2>3. QED
      BY <2>1, <2>2 DEF InLine
  <1>3. ASSUME NEW k \in 1..Cardinality(C) PROVE InLine(C)[k] \in X
    <2>1. PICK c \in C : Rank(C, c) = k
      BY RankTaken
    <2>2. c[2] \in X
      BY DEF Line
    <2>3. QED
      BY <1>2, <2>1, <2>2
  <1>4. DOMAIN InLine(C) = 1..Cardinality(C)
    BY DEF InLine
  <1>5. InLine(C) = [k \in 1..Cardinality(C) |-> InLine(C)[k]]
    BY DEF InLine
  <1>6. InLine(C) \in [1..Cardinality(C) -> X]
    BY <1>3, <1>5
  <1>7. QED
    BY <1>1, <1>2, <1>4, <1>6

(* Two lines are the same sequence when their chunks have the same ranks.  *)
LEMMA SameLine ==
  ASSUME NEW C, NEW D, NEW X, Line(C, X), Line(D, X),
         Cardinality(C) = Cardinality(D),
         \A c \in C : \E d \in D : Rank(D, d) = Rank(C, c) /\ d[2] = c[2]
  PROVE  InLine(D) = InLine(C)
  <1>1. ASSUME NEW k \in 1..Cardinality(C) PROVE InLine(D)[k] = InLine(C)[k]
    <2>1. PICK c \in C : Rank(C, c) = k
      BY RankTaken
    <2>2. PICK d \in D : Rank(D, d) = Rank(C, c) /\ d[2] = c[2]
      OBVIOUS
    <2>3. InLine(C)[Rank(C, c)] = c[2] /\ InLine(D)[Rank(D, d)] = d[2]
      BY LineFacts
    <2>4. QED
      BY <2>1, <2>2, <2>3
  <1>2. QED
    BY <1>1 DEF InLine

(* A chunk that goes on to a place between its neighbours stays in line.   *)
LEMMA MoveInLine ==
  ASSUME NEW C, NEW X, Line(C, X), NEW c \in C, NEW p \in Int,
         \A d \in C : d # c => d[1] # p /\ (d[1] < p <=> d[1] < c[1])
  PROVE  LET D == (C \ {c}) \cup {<<p, c[2]>>}
         IN  Line(D, X) /\ InLine(D) = InLine(C)
  <1> DEFINE m == <<p, c[2]>>
             D == (C \ {c}) \cup {m}
  <1>1. IsFiniteSet(C) /\ Cardinality(C) \in Nat
    BY FS_CardinalityType DEF Line
  <1>2. \A d \in C : d[1] \in Int /\ d[2] \in X
    BY DEF Line
  <1>3. m \notin C \ {c} /\ m[1] = p /\ m[2] = c[2]
    OBVIOUS
  <1>4. Line(D, X)
    <2>1. IsFiniteSet(C \ {c})
      BY <1>1, FS_RemoveElement
    <2>2. IsFiniteSet(D)
      BY <2>1, FS_AddElement
    <2>3. D \subseteq Int \X X
      <3>1. m \in Int \X X
        BY <1>2
      <3>2. QED
        BY <3>1 DEF Line
    <2>4. ASSUME NEW a \in D, NEW b \in D, a[1] = b[1] PROVE a = b
      BY <1>3, <2>4 DEF Line
    <2>5. QED
      BY <2>2, <2>3, <2>4 DEF Line
  \* putting m for c in a set of chunks of the line keeps their number
  <1>5. ASSUME NEW S, S \subseteq C, c \in S
        PROVE  Cardinality((S \ {c}) \cup {m}) = Cardinality(S)
    <2>1. IsFiniteSet(S)
      BY <1>1, <1>5, FS_Subset
    <2>2. IsFiniteSet(S \ {c}) /\ Cardinality(S \ {c}) = Cardinality(S) - 1
      BY <1>5, <2>1, FS_RemoveElement
    <2>3. Cardinality((S \ {c}) \cup {m}) = Cardinality(S \ {c}) + 1
      BY <1>3, <1>5, <2>2, FS_AddElement
    <2>4. Cardinality(S) \in Nat
      BY <2>1, FS_CardinalityType
    <2>5. QED
      BY <2>2, <2>3, <2>4
  <1>6. Cardinality(D) = Cardinality(C)
    BY <1>5
  <1>7. Rank(D, m) = Rank(C, c)
    <2>1. Ahead(D, m) = (Ahead(C, c) \ {c}) \cup {m}
      <3>1. \A d \in C : d # c => (d[1] <= p <=> d[1] <= c[1])
        BY <1>2 DEF Line
      <3>2. QED
        BY <1>3, <3>1 DEF Ahead
    <2>2. Ahead(C, c) \subseteq C /\ c \in Ahead(C, c)
      BY <1>2 DEF Ahead
    <2>3. Cardinality(Ahead(D, m)) = Cardinality(Ahead(C, c))
      BY <1>5, <2>1, <2>2
    <2>4. QED
      BY <2>3 DEF Rank, Ahead
  <1>8. ASSUME NEW d \in C, d # c PROVE d \in D /\ Rank(D, d) = Rank(C, d)
    <2>1. d[1] # p /\ d[1] # c[1] /\ (d[1] < p <=> d[1] < c[1])
      BY <1>8 DEF Line
    <2>2. CASE c[1] < d[1]
      <3>1. Ahead(D, d) = (Ahead(C, d) \ {c}) \cup {m}
        <4>1. p < d[1]
          BY <1>2, <2>1, <2>2
        <4>2. QED
          BY <1>2, <1>3, <4>1 DEF Ahead
      <3>2. Ahead(C, d) \subseteq C /\ c \in Ahead(C, d)
        BY <1>2, <2>2 DEF Ahead
      <3>3. Cardinality(Ahead(D, d)) = Cardinality(Ahead(C, d))
        BY <1>5, <3>1, <3>2
      <3>4. QED
        BY <1>8, <3>3 DEF Rank, Ahead
    <2>3. CASE d[1] < c[1]
      <3>1. Ahead(D, d) = Ahead(C, d)
        <4>1. ~(p <= d[1]) /\ ~(c[1] <= d[1])
          BY <1>2, <2>1, <2>3
        <4>2. QED
          BY <1>3, <4>1 DEF Ahead
      <3>2. QED
        BY <1>8, <3>1 DEF Rank, Ahead
    <2>4. QED
      BY <1>2, <2>1, <2>2, <2>3
  <1>9. \A d \in C : \E e \in D : Rank(D, e) = Rank(C, d) /\ e[2] = d[2]
    BY <1>3, <1>7, <1>8
  <1>10. InLine(D) = InLine(C)
    BY <1>4, <1>6, <1>9, SameLine
  <1>11. QED
    BY <1>4, <1>10

(* A chunk that is taken up behind all others stands last.                 *)
LEMMA JoinLine ==
  ASSUME NEW C, NEW X, Line(C, X), NEW p \in Int, NEW x \in X, \A d \in C : d[1] < p
  PROVE  LET D == C \cup {<<p, x>>}
         IN  Line(D, X) /\ InLine(D) = Append(InLine(C), x)
  <1> DEFINE m == <<p, x>>
             D == C \cup {m}
             n == Cardinality(C)
  <1>1. IsFiniteSet(C) /\ n \in Nat /\ m \notin C /\ m[1] = p /\ m[2] = x
    BY FS_CardinalityType DEF Line
  <1>2. \A d \in C : d[1] \in Int
    BY DEF Line
  <1>3. IsFiniteSet(D) /\ Cardinality(D) = n + 1
    BY <1>1, FS_AddElement
  <1>4. Line(D, X)
    BY <1>1, <1>2, <1>3 DEF Line
  <1>5. ASSUME NEW d \in C PROVE Rank(D, d) = Rank(C, d)
    <2>1. Ahead(D, d) = Ahead(C, d)
      BY <1>1, <1>2 DEF Ahead
    <2>2. QED
      BY <2>1 DEF Rank, Ahead
  <1>6. Rank(D, m) = n + 1
    <2>1. Ahead(D, m) = D
      BY <1>1, <1>2 DEF Ahead
    <2>2. QED
      BY <1>3, <2>1 DEF Rank, Ahead
  <1>7. ASSUME NEW k \in 1..n + 1 PROVE InLine(D)[k] = Append(InLine(C), x)[k]
    <2>1. InLine(C) \in Seq(X) /\ Len(InLine(C)) = n
      BY LineFacts
    <2>2. CASE k = n + 1
      <3>1. InLine(D)[Rank(D, m)] = m[2]
        BY <1>4, LineFacts
      <3>2. QED
        BY <1>1, <1>6, <2>1, <2>2, <3>1
    <2>3. CASE k # n + 1
      <3>1. k \in 1..n
        BY <1>1, <2>3
      <3>2. PICK c \in C : Rank(C, c) = k
        BY <3>1, RankTaken
      <3>3. InLine(C)[Rank(C, c)] = c[2] /\ InLine(D)[Rank(D, c)] = c[2]
        BY <1>4, LineFacts
      <3>4. InLine(D)[k] = InLine(C)[k]
        BY <1>5, <3>2, <3>3
      <3>5. Append(InLine(C), x)[k] = InLine(C)[k]
        BY <2>1, <3>1
      <3>6. QED
        BY <3>4, <3>5
    <2>4. QED
      BY <2>2, <2>3
  <1>8. InLine(D) \in Seq(X) /\ Len(InLine(D)) = n + 1
    BY <1>3, <1>4, LineFacts
  <1>9. Append(InLine(C), x) \in Seq(X) /\ Len(Append(InLine(C), x)) = n + 1
    BY <1>1, LineFacts
  <1>10. InLine(D) = Append(InLine(C), x)
    BY <1>1, <1>7, <1>8, <1>9, SeqEqual
  <1>11. QED
    BY <1>4, <1>10

(* A sequence without its k-th element.                                    *)
LEMMA RemovedAt ==
  ASSUME NEW X, NEW s \in Seq(X), NEW k \in 1..Len(s)
  PROVE  /\ Flow!RemoveAt(s, k) \in Seq(X)
         /\ Len(Flow!RemoveAt(s, k)) = Len(s) - 1
         /\ \A j \in 1..Len(s) - 1 : Flow!RemoveAt(s, k)[j] = IF j < k THEN s[j] ELSE s[j + 1]
  <1>1. PICK a : a = SubSeq(s, 1, k - 1)
    OBVIOUS
  <1>2. PICK b : b = SubSeq(s, k + 1, Len(s))
    OBVIOUS
  <1>3. Flow!RemoveAt(s, k) = a \o b
    BY <1>1, <1>2 DEF Flow!RemoveAt
  <1>4. a \in Seq(X) /\ Len(a) = k - 1 /\ \A j \in 1..k - 1 : a[j] = s[j]
    BY <1>1
  <1>5. b \in Seq(X) /\ Len(b) = Len(s) - k /\ \A j \in 1..Len(s) - k : b[j] = s[j + k]
    BY <1>2
  <1>6. /\ a \o b \in Seq(X) /\ Len(a \o b) = Len(a) + Len(b)
        /\ \A j \in 1..Len(a) + Len(b) : (a \o b)[j] = IF j <= Len(a) THEN a[j] ELSE b[j - Len(a)]
    BY <1>4, <1>5, ConcatProperties
  <1>7. Len(s) \in Nat /\ Len(a) + Len(b) = Len(s) - 1
    BY <1>4, <1>5
  <1>8. ASSUME NEW j \in 1..Len(s) - 1 PROVE (a \o b)[j] = IF j < k THEN s[j] ELSE s[j + 1]
    <2>1. (a \o b)[j] = IF j < k THEN a[j] ELSE b[j - (k - 1)]
      BY <1>4, <1>6, <1>7
    <2>2. j < k => a[j] = s[j]
      BY <1>4
    <2>3. ~(j < k) => b[j - (k - 1)] = s[j + 1]
      <3>1. ~(j < k) => j - (k - 1) \in 1..Len(s) - k /\ j - (k - 1) + k = j + 1
        BY <1>7
      <3>2. QED
        BY <1>5, <3>1
    <2>4. QED
      BY <2>1, <2>2, <2>3
  <1>9. QED
    BY <1>3, <1>6, <1>7, <1>8

(* A chunk that is dropped leaves the others in line.                      *)
LEMMA LeaveLine ==
  ASSUME NEW C, NEW X, Line(C, X), NEW c \in C
  PROVE  Line(C \ {c}, X) /\ InLine(C \ {c}) = Flow!RemoveAt(InLine(C), Rank(C, c))
  <1> DEFINE D == C \ {c}
             n == Cardinality(C)
             r == Rank(C, c)
  <1>1. IsFiniteSet(C) /\ n \in Nat /\ r \in 1..n
    BY FS_CardinalityType, RankOrder DEF Line
  <1>2. \A d \in C : d[1] \in Int
    BY DEF Line
  <1>3. IsFiniteSet(D) /\ Cardinality(D) = n - 1
    BY <1>1, FS_RemoveElement
  <1>4. Line(D, X)
    BY <1>3 DEF Line
  <1>5. InLine(C) \in Seq(X) /\ Len(InLine(C)) = n
    BY LineFacts
  <1>6. ASSUME NEW d \in D
        PROVE  Rank(D, d) = IF Rank(C, d) < r THEN Rank(C, d) ELSE Rank(C, d) - 1
    <2>1. d \in C /\ d[1] # c[1] /\ Rank(C, d) \in Nat
      BY RankOrder DEF Line
    <2>2. CASE d[1] < c[1]
      <3>1. Ahead(D, d) = Ahead(C, d)
        BY <1>2, <2>1, <2>2 DEF Ahead
      <3>2. Rank(C, d) < r
        BY <1>1, <1>2, <2>1, <2>2, RankOrder
      <3>3. QED
        BY <3>1, <3>2 DEF Rank, Ahead
    <2>3. CASE c[1] < d[1]
      <3>1. Ahead(D, d) = Ahead(C, d) \ {c} /\ c \in Ahead(C, d)
        BY <1>2, <2>1, <2>3 DEF Ahead
      <3>2. IsFiniteSet(Ahead(C, d))
        BY <1>1, FS_Subset DEF Ahead
      <3>3. Cardinality(Ahead(D, d)) = Cardinality(Ahead(C, d)) - 1
        BY <3>1, <3>2, FS_RemoveElement
      <3>4. ~(Rank(C, d) < r)
        BY <1>1, <1>2, <2>1, <2>3, RankOrder
      <3>5. QED
        BY <3>3, <3>4 DEF Rank, Ahead
    <2>4. QED
      BY <1>2, <2>1, <2>2, <2>3
  <1>7. ASSUME NEW j \in 1..n - 1
        PROVE  InLine(D)[j] = Flow!RemoveAt(InLine(C), r)[j]
    <2>1. j \in 1..Cardinality(D)
      BY <1>3
    <2>2. PICK d \in D : Rank(D, d) = j
      BY <1>4, <2>1, RankTaken
    <2>3. InLine(D)[j] = d[2] /\ InLine(C)[Rank(C, d)] = d[2]
      BY <1>4, <2>2, LineFacts
    <2>4. Rank(C, d) \in 1..n /\ Rank(C, d) # r
      BY RankOrder
    <2>5. Rank(C, d) = IF j < r THEN j ELSE j + 1
      BY <1>1, <1>6, <2>2, <2>4
    <2>6. Flow!RemoveAt(InLine(C), r)[j] = InLine(C)[Rank(C, d)]
      <3>1. r \in 1..Len(InLine(C)) /\ j \in 1..Len(InLine(C)) - 1
        BY <1>1, <1>5
      <3>2. QED
        BY <1>5, <2>5, <3>1, RemovedAt
    <2>7. QED
      BY <2>3, <2>6
  <1>8. InLine(D) \in Seq(X) /\ Len(InLine(D)) = n - 1
    BY <1>3, <1>4, LineFacts
  <1>9. Flow!RemoveAt(InLine(C), r) \in Seq(X) /\ Len(Flow!RemoveAt(InLine(C), r)) = n - 1
    BY <1>1, <1>5, RemovedAt
  <1>10. InLine(D) = Flow!RemoveAt(InLine(C), r)
    BY <1>1, <1>7, <1>8, <1>9, SeqEqual
  <1>11. QED
    BY <1>4, <1>10

(* A sequence without its first element.                                   *)
LEMMA RemovedFirst ==
  ASSUME NEW X, NEW s \in Seq(X), s # <<>>
  PROVE  Flow!RemoveAt(s, 1) = Tail(s)
  <1>1. Len(s) \in Nat \ {0} /\ 1 \in 1..Len(s)
    BY EmptySeq
  <1>2. /\ Flow!RemoveAt(s, 1) \in Seq(X) /\ Len(Flow!RemoveAt(s, 1)) = Len(s) - 1
        /\ \A j \in 1..Len(s) - 1 : Flow!RemoveAt(s, 1)[j] = s[j + 1]
    BY <1>1, RemovedAt
  <1>3. /\ Tail(s) \in Seq(X) /\ Len(Tail(s)) = Len(s) - 1
        /\ \A j \in 1..Len(s) - 1 : Tail(s)[j] = s[j + 1]
    BY HeadTailProperties
  <1>4. QED
    BY <1>2, <1>3, SeqEqual

-----------------------------------------------------------------------------
(* The chunks under way.                                                   *)

(* A hand and a mailbox are places of their own.                           *)
LEMMA PlacesDiffer ==
  /\ \A i \in Stages : HandPlace(i) \in 1..2 * LastStage + 2
  /\ \A i \in Inner : BoxPlace(i) \in 1..2 * LastStage + 2
  /\ \A i, j \in Stages : HandPlace(i) = HandPlace(j) => i = j
  /\ \A i, j \in Inner : BoxPlace(i) = BoxPlace(j) => i = j
  /\ \A i \in Stages, j \in Inner : HandPlace(i) # BoxPlace(j)
  BY LastStageAssumption DEF HandPlace, BoxPlace, Stages, Inner

LEMMA CarriedLine == RealChunks => Line(Carried, Offsets)
  <1> SUFFICES ASSUME RealChunks PROVE Line(Carried, Offsets)
    OBVIOUS
  <1> DEFINE P == 1..2 * LastStage + 2
  <1>1. IsFiniteSet(P) /\ IsFiniteSet(Offsets)
    BY LastStageAssumption, DataCntAssumption, FS_Interval DEF Offsets
  <1>2. Carried \subseteq P \X Offsets
    BY PlacesDiffer DEF Carried, RealChunks
  <1>3. IsFiniteSet(Carried)
    BY <1>1, <1>2, FS_Product, FS_Subset
  <1>4. Carried \subseteq Int \X Offsets
    BY <1>2, LastStageAssumption
  <1>5. ASSUME NEW c \in Carried, NEW d \in Carried, c[1] = d[1] PROVE c = d
    <2>1. CASE \E i \in Stages : c = <<HandPlace(i), off[i]>>
      BY <1>5, <2>1, PlacesDiffer DEF Carried
    <2>2. CASE \E i \in Inner : c = <<BoxPlace(i), dataoffset[i]>>
      BY <1>5, <2>2, PlacesDiffer DEF Carried
    <2>3. QED
      BY <2>1, <2>2 DEF Carried
  <1>6. QED
    BY <1>3, <1>4, <1>5 DEF Line

\* a step after which the same hands and mailboxes hold the same chunks
CarriedStill ==
  /\ \A i \in Stages : (Holds(i)' <=> Holds(i)) /\ (Holds(i) => off'[i] = off[i])
  /\ \A i \in Inner : (Boxed(i)' <=> Boxed(i)) /\ (Boxed(i) => dataoffset'[i] = dataoffset[i])

LEMMA KeptCarried == CarriedStill => Carried' = Carried
  BY DEF CarriedStill, Carried

(* A thread lets go of its chunk.                                          *)
LEMMA HandLeaves ==
  ASSUME NEW i \in Stages, Holds(i), ~Holds(i)', off' = off, dataoffset' = dataoffset,
         \A j \in Stages : j # i => (Holds(j)' <=> Holds(j)),
         \A j \in Inner : Boxed(j)' <=> Boxed(j)
  PROVE  /\ <<HandPlace(i), off[i]>> \in Carried
         /\ Carried' = Carried \ {<<HandPlace(i), off[i]>>}
  <1>1. ASSUME NEW j \in Stages PROVE Holds(j)' <=> Holds(j) /\ <<HandPlace(j), off[j]>> # <<HandPlace(i), off[i]>>
    BY PlacesDiffer
  <1>2. \A j \in Inner : <<BoxPlace(j), dataoffset[j]>> # <<HandPlace(i), off[i]>>
    BY PlacesDiffer
  <1>3. QED
    BY <1>1, <1>2 DEF Carried

(* A chunk goes from a hand into the next mailbox ...                      *)
LEMMA HandToBox ==
  ASSUME NEW i \in Workers, Holds(i), ~Holds(i)', off' = off,
         ~Boxed(i + 1), Boxed(i + 1)', dataoffset'[i + 1] = off[i],
         \A j \in Stages : j # i => (Holds(j)' <=> Holds(j)),
         \A j \in Inner : j # i + 1 => (Boxed(j)' <=> Boxed(j)) /\ dataoffset'[j] = dataoffset[j]
  PROVE  /\ <<HandPlace(i), off[i]>> \in Carried
         /\ Carried' = (Carried \ {<<HandPlace(i), off[i]>>}) \cup {<<BoxPlace(i + 1), off[i]>>}
  <1>1. i \in Stages /\ i + 1 \in Inner
    BY StageFacts
  <1>2. ASSUME NEW j \in Stages PROVE Holds(j)' <=> Holds(j) /\ <<HandPlace(j), off[j]>> # <<HandPlace(i), off[i]>>
    BY <1>1, PlacesDiffer
  <1>3. \A j \in Inner : <<BoxPlace(j), dataoffset[j]>> # <<HandPlace(i), off[i]>>
    BY <1>1, PlacesDiffer
  <1>4. QED
    BY <1>1, <1>2, <1>3 DEF Carried

(* ... and from there into the hand of the thread that reads it.           *)
LEMMA BoxToHand ==
  ASSUME NEW i \in Inner, Boxed(i), ~Boxed(i)', dataoffset' = dataoffset,
         ~Holds(i), Holds(i)', off'[i] = dataoffset[i],
         \A j \in Stages : j # i => (Holds(j)' <=> Holds(j)) /\ off'[j] = off[j],
         \A j \in Inner : j # i => (Boxed(j)' <=> Boxed(j))
  PROVE  /\ <<BoxPlace(i), dataoffset[i]>> \in Carried
         /\ Carried' = (Carried \ {<<BoxPlace(i), dataoffset[i]>>}) \cup {<<HandPlace(i), dataoffset[i]>>}
  <1>1. i \in Stages
    BY StageFacts
  <1>2. ASSUME NEW j \in Inner
        PROVE  Boxed(j)' <=> Boxed(j) /\ <<BoxPlace(j), dataoffset[j]>> # <<BoxPlace(i), dataoffset[i]>>
    BY PlacesDiffer
  <1>3. \A j \in Stages : <<HandPlace(j), off[j]>> # <<BoxPlace(i), dataoffset[i]>>
    BY PlacesDiffer
  <1>4. QED
    BY <1>1, <1>2, <1>3 DEF Carried

(* The source takes a chunk up.                                            *)
LEMMA HandTakes ==
  ASSUME ~Holds(0), Holds(0)', dataoffset' = dataoffset,
         \A j \in Stages : j # 0 => (Holds(j)' <=> Holds(j)) /\ off'[j] = off[j],
         \A j \in Inner : Boxed(j)' <=> Boxed(j)
  PROVE  Carried' = Carried \cup {<<HandPlace(0), off'[0]>>}
  <1>1. 0 \in Stages
    BY StageFacts
  <1>2. QED
    BY <1>1 DEF Carried

-----------------------------------------------------------------------------
(* The steps that move a chunk, or work on it; all others leave every      *)
(* chunk where it is.                                                      *)
Moves ==
  \/ PopFree
  \/ \E i \in Inner : ReadCommand(i) /\ cmd[i] = "JOB"
  \/ \E i \in Inner \cap Workers : DropFrame(i)
  \/ \E i \in Workers : PutJob(i) \/ ClientAct(i)
  \/ ReturnChunk

Rests == CarriedStill /\ UNCHANGED <<free, visited>>

LEMMA MovesOrRests == IInv /\ [Next]_vars => Moves \/ Rests
  <1> SUFFICES ASSUME IInv, [Next]_vars PROVE Moves \/ Rests
    OBVIOUS
  <1>0. /\ pc \in [Stages -> ThreadPlaces] /\ newCmd \in [Stages -> Nat]
        /\ cmd \in [Stages -> {"JOB", "STOP"}]
        /\ \A i \in Inner : MailboxTurnAt(i)
    BY DEF IInv, TypeOK, MailboxTurn
  <1> USE <1>0, StageFacts DEF Goto, Holds, Boxed, mailbox, slot
  <1>1. CASE TestExit \/ CheckLive
    BY <1>1 DEF TestExit, CheckLive, Rests, CarriedStill
  <1>2. ASSUME NEW i \in Inner, ReceiveCommand(i) PROVE Rests
    <2>1. newCmd[i] = 1 /\ newCmd' = [newCmd EXCEPT ![i] = 0]
      <3>1. newCmd[i] > 0 /\ newCmd' = [newCmd EXCEPT ![i] = newCmd[i] - 1]
        BY <1>2 DEF ReceiveCommand, Wait
      <3>2. newCmd[i] = 1
        BY <3>1 DEF MailboxTurnAt
      <3>3. QED
        BY <3>1, <3>2
    <2>2. QED
      BY <1>2, <2>1 DEF ReceiveCommand, Rests, CarriedStill
  <1>3. ASSUME NEW i \in Inner, ReadCommand(i), cmd[i] # "JOB" PROVE Rests
    <2>1. /\ pc[i] = "read" /\ pc' = [pc EXCEPT ![i] = AfterRead(i)]
          /\ off' = [off EXCEPT ![i] = dataoffset[i]]
          /\ UNCHANGED <<newCmd, cmd, dataoffset, free, visited>> /\ cmd[i] = "STOP"
      BY <1>3 DEF ReadCommand
    <2>2. off \in [Stages -> Offsets \cup {0}] /\ AfterRead(i) \in {"done", "stopGive"}
      BY <2>1 DEF IInv, TypeOK, AfterRead
    <2>3. QED
      BY <2>1, <2>2 DEF Rests, CarriedStill
  <1>4. ASSUME NEW i \in Workers, SubmitJob(i) \/ AwaitResult(i) PROVE Rests
    BY <1>4 DEF SubmitJob, AwaitResult, Rests, CarriedStill
  <1>5. ASSUME NEW i \in Inner \cap Workers, KeepFrame(i) PROVE Rests
    BY <1>5 DEF KeepFrame, Rests, CarriedStill
  <1>6. ASSUME NEW i \in Workers, WaitNext(i) PROVE Rests
    BY <1>6 DEF WaitNext, Rests, CarriedStill
  <1>7. ASSUME NEW i \in Workers, PutStop(i) PROVE Rests
    <2>1. i \in Int /\ i + 1 \in Inner
      BY LastStageAssumption DEF Workers
    <2>2. ~Boxed(i + 1) /\ ~Boxed(i + 1)'
      BY <1>7, <2>1 DEF MailboxTurnAt, PutStop
    <2>3. \A j \in Inner : j # i + 1 => newCmd'[j] = newCmd[j] /\ cmd'[j] = cmd[j]
      BY <1>7, <2>1 DEF PutStop, Post, Inner, Stages
    <2>4. QED
      BY <1>7, <2>1, <2>2, <2>3 DEF PutStop, Rests, CarriedStill
  <1>8. ASSUME NEW i \in Workers, SubmitStop(i) \/ AwaitStop(i) PROVE Rests
    BY <1>8 DEF SubmitStop, AwaitStop, Rests, CarriedStill
  <1>9. ASSUME NEW i \in Workers, ClientTake(i) \/ ClientAnswer(i) \/ ClientCrash(i) PROVE Rests
    BY <1>9 DEF ClientTake, ClientAnswer, ClientCrash, Rests, CarriedStill
  <1>10. CASE GoLive \/ RequestExit \/ UNCHANGED vars
    BY <1>10 DEF GoLive, RequestExit, vars, Rests, CarriedStill
  <1>11. QED
    BY <1>1, <1>2, <1>3, <1>4, <1>5, <1>6, <1>7, <1>8, <1>9, <1>10
    DEF Moves, Next, Thread, Source, Mailbox, Work, Client, Finished

-----------------------------------------------------------------------------
(* What each moving step does, in terms of hands and mailboxes.            *)
LEMMA PopMoves ==
  ASSUME TypeOK, PopFree
  PROVE  /\ ~Holds(0) /\ Holds(0)' /\ dataoffset' = dataoffset /\ visited' = visited
         /\ \A j \in Stages : j # 0 => (Holds(j)' <=> Holds(j)) /\ off'[j] = off[j]
         /\ \A j \in Inner : Boxed(j)' <=> Boxed(j)
         /\ free # <<>> /\ off'[0] = Head(free) /\ free' = Tail(free)
  BY StageFacts, LastStageAssumption DEF PopFree, Goto, Holds, Boxed, mailbox, TypeOK, Inner

LEMMA ReadMoves ==
  ASSUME TypeOK, MailboxTurn, NEW i \in Inner, ReadCommand(i), cmd[i] = "JOB"
  PROVE  /\ Boxed(i) /\ ~Boxed(i)' /\ dataoffset' = dataoffset
         /\ ~Holds(i) /\ Holds(i)' /\ off'[i] = dataoffset[i]
         /\ \A j \in Stages : j # i => (Holds(j)' <=> Holds(j)) /\ off'[j] = off[j]
         /\ \A j \in Inner : j # i => (Boxed(j)' <=> Boxed(j))
         /\ UNCHANGED <<free, visited>>
  <1>1. i \in Stages
    BY StageFacts
  <1>2. /\ pc[i] = "read" /\ newCmd[i] = 0 /\ newCmd' = newCmd /\ cmd' = cmd
        /\ dataoffset' = dataoffset /\ off'[i] = dataoffset[i] /\ UNCHANGED <<free, visited>>
        /\ \A j \in Stages : j # i => pc'[j] = pc[j] /\ off'[j] = off[j]
        /\ pc'[i] \in {"free", "job"}
    BY <1>1 DEF ReadCommand, Goto, TypeOK, MailboxTurn, MailboxTurnAt, AfterRead
  <1>3. QED
    BY <1>1, <1>2, StageFacts DEF Holds, Boxed

LEMMA PutMoves ==
  ASSUME TypeOK, MailboxTurn, NEW i \in Workers, PutJob(i)
  PROVE  /\ i + 1 \in Inner /\ Holds(i) /\ ~Holds(i)' /\ off' = off
         /\ ~Boxed(i + 1) /\ Boxed(i + 1)' /\ dataoffset'[i + 1] = off[i]
         /\ \A j \in Stages : j # i => (Holds(j)' <=> Holds(j))
         /\ \A j \in Inner : j # i + 1 => (Boxed(j)' <=> Boxed(j)) /\ dataoffset'[j] = dataoffset[j]
         /\ UNCHANGED <<free, visited>>
  <1>1. i \in Int /\ i \in Stages /\ i + 1 \in Stages /\ i + 1 \in Inner /\ i + 1 # i
    BY StageFacts, NextStage, LastStageAssumption DEF Workers
  <1>2. ~Boxed(i + 1)
    <2>1. MailboxTurnAt(i + 1) /\ (i + 1) - 1 = i
      BY <1>1 DEF MailboxTurn
    <2>2. QED
      BY <1>1, <2>1 DEF MailboxTurnAt, PutJob, Goto, Boxed
  <1>3. \A j \in Inner : j # i + 1 => cmd'[j] = cmd[j] /\ newCmd'[j] = newCmd[j]
                                        /\ dataoffset'[j] = dataoffset[j]
    BY <1>1 DEF PutJob, Post, TypeOK, Inner, Stages
  <1>4. cmd'[i + 1] = "JOB" /\ newCmd'[i + 1] > 0 /\ dataoffset'[i + 1] = off[i]
    BY <1>1 DEF PutJob, Post, TypeOK
  <1>5. /\ pc[i] = "put" /\ pc'[i] \in {"test", "recv"} /\ off' = off
        /\ \A j \in Stages : j # i => pc'[j] = pc[j]
        /\ UNCHANGED <<free, visited>>
    BY <1>1 DEF PutJob, Goto, TypeOK
  <1>6. QED
    BY <1>1, <1>2, <1>3, <1>4, <1>5, StageFacts DEF Holds, Boxed

\* a dropped frame, or one that is finished
LEMMA PushMoves ==
  ASSUME TypeOK, NEW i \in Stages,
         \/ i \in Inner \cap Workers /\ DropFrame(i)
         \/ i = LastStage /\ ReturnChunk
  PROVE  /\ Holds(i) /\ ~Holds(i)' /\ off' = off /\ dataoffset' = dataoffset
         /\ \A j \in Stages : j # i => (Holds(j)' <=> Holds(j))
         /\ \A j \in Inner : Boxed(j)' <=> Boxed(j)
         /\ free' = Append(free, off[i])
  <1>1. /\ pc[i] \in {"judge", "free"} /\ pc'[i] = "recv" /\ off' = off
        /\ \A j \in Stages : j # i => pc'[j] = pc[j]
        /\ UNCHANGED <<newCmd, cmd, dataoffset>> /\ free' = Append(free, off[i])
    BY DEF DropFrame, ReturnChunk, Goto, PushFree, mailbox, TypeOK
  <1>2. QED
    BY <1>1, StageFacts DEF Holds, Boxed

\* a client works on the chunk its thread holds
LEMMA ActMoves ==
  ASSUME TypeOK, RealChunks, ClientTurn, NEW i \in Workers, ClientAct(i)
  PROVE  /\ i \in Stages /\ Holds(i) /\ Todo(i) /\ off[i] \in Offsets
         /\ visited' = [visited EXCEPT ![off[i]] = IF i = 0 THEN {0} ELSE @ \cup {i}]
         /\ UNCHANGED <<pc, off, newCmd, cmd, dataoffset, free>>
  <1>1. i \in Stages /\ ClientTurnAt(i)
    BY StageFacts DEF ClientTurn
  <1>2. /\ cpc[i] = "act" /\ UNCHANGED <<pc, off, newCmd, cmd, dataoffset, free>>
        /\ visited' = [visited EXCEPT ![procOff[i]] = IF i = 0 THEN {0} ELSE @ \cup {i}]
    BY DEF ClientAct, ClientGoto, mailbox
  <1>3. pc[i] = "await" /\ procOff[i] = off[i]
    BY <1>1, <1>2 DEF ClientTurnAt
  <1>4. Holds(i) /\ Todo(i)
    BY <1>2, <1>3 DEF Holds, Todo
  <1>5. QED
    BY <1>1, <1>2, <1>3, <1>4 DEF RealChunks

-----------------------------------------------------------------------------
(* The thread of a stage holds a frame that all stages before have worked  *)
(* on, also where its client has died and FrameProgress says nothing.      *)
Passed ==
  \A i \in Inner : Holds(i) => \A s \in 0..i - 1 : s \in visited[off[i]]

LEMMA NextPassed == IInv /\ Passed /\ [Next]_vars => Passed'
  <1> SUFFICES ASSUME IInv, Passed, [Next]_vars, NEW i \in Inner, Holds(i)', NEW s \in 0..i - 1
               PROVE  s \in visited'[off'[i]]
    BY DEF Passed
  <1>0. /\ TypeOK /\ RealChunks /\ MailboxTurn /\ ClientTurn /\ SingleOwner /\ FrameProgress
        /\ i \in Stages /\ i # 0
    BY StageFacts DEF IInv, Owned, Inner
  \* the same chunk, with all that has worked on it
  <1>1. ASSUME Holds(i), off'[i] = off[i], visited[off[i]] \subseteq visited'[off[i]]
        PROVE  s \in visited'[off'[i]]
    BY <1>1 DEF Passed
  <1>2. CASE Rests
    BY <1>0, <1>1, <1>2 DEF Rests, CarriedStill
  <1>3. CASE PopFree
    BY <1>0, <1>1, <1>3, PopMoves
  <1>4. ASSUME NEW j \in Inner, ReadCommand(j), cmd[j] = "JOB" PROVE s \in visited'[off'[i]]
    <2>1. CASE i = j
      BY <1>0, <1>4, <2>1, ReadMoves DEF FrameProgress
    <2>2. CASE i # j
      BY <1>0, <1>1, <1>4, <2>2, ReadMoves
    <2>3. QED
      BY <2>1, <2>2
  <1>5. ASSUME NEW j \in Inner \cap Workers, DropFrame(j) PROVE s \in visited'[off'[i]]
    <2>1. j \in Stages /\ visited' = visited
      BY <1>5, StageFacts DEF DropFrame
    <2>2. Holds(i) /\ off' = off
      BY <1>0, <1>5, <2>1, PushMoves
    <2>3. QED
      BY <1>1, <2>1, <2>2
  <1>6. ASSUME NEW j \in Workers, PutJob(j) PROVE s \in visited'[off'[i]]
    <2>1. Holds(i) /\ off' = off /\ visited' = visited
      BY <1>0, <1>6, PutMoves
    <2>2. QED
      BY <1>1, <2>1
  <1>7. ASSUME NEW j \in Workers, ClientAct(j) PROVE s \in visited'[off'[i]]
    <2>1. /\ j \in Stages /\ Holds(j) /\ off[j] \in Offsets
          /\ visited' = [visited EXCEPT ![off[j]] = IF j = 0 THEN {0} ELSE @ \cup {j}]
          /\ pc' = pc /\ off' = off
      BY <1>0, <1>7, ActMoves
    <2>2. Holds(i)
      BY <2>1 DEF Holds
    <2>3. i # j => off[i] # off[j]
      BY <1>0, <2>1, <2>2 DEF SingleOwner
    <2>4. visited[off[i]] \subseteq visited'[off[i]]
      BY <1>0, <2>1, <2>3 DEF TypeOK
    <2>5. QED
      BY <1>1, <2>1, <2>2, <2>4
  <1>8. CASE ReturnChunk
    <2>1. LastStage \in Stages
      BY StageFacts
    <2>2. Holds(LastStage) /\ ~Holds(LastStage)' /\ off' = off /\ (i # LastStage => Holds(i))
      BY <1>0, <1>8, <2>1, PushMoves
    <2>3. i # LastStage /\ Holds(i) /\ off[i] # off[LastStage]
      BY <1>0, <2>1, <2>2 DEF SingleOwner
    <2>4. visited[off[i]] \subseteq visited'[off[i]]
      BY <1>0, <1>8, <2>3 DEF ReturnChunk, TypeOK
    <2>5. QED
      BY <1>1, <2>2, <2>3, <2>4
  <1>9. QED
    BY <1>2, <1>3, <1>4, <1>5, <1>6, <1>7, <1>8, MovesOrRests DEF Moves

(* All that is under way behind the client at work has been worked on.     *)
LEMMA OlderWorked ==
  ASSUME IInv, Passed, NEW i \in Workers, NEW c \in Carried, c[1] < HandPlace(i)
  PROVE  i \in visited[c[2]]
  <1>1. i \in 0..LastStage - 1 /\ LastStage \in Nat
    BY LastStageAssumption DEF Workers
  <1>2. ASSUME NEW j \in Stages, Holds(j), c = <<HandPlace(j), off[j]>>
        PROVE  i \in visited[c[2]]
    <2>1. j \in Inner /\ i \in 0..j - 1
      BY <1>1, <1>2 DEF HandPlace, Stages, Inner
    <2>2. QED
      BY <1>2, <2>1 DEF Passed
  <1>3. ASSUME NEW j \in Inner, Boxed(j), c = <<BoxPlace(j), dataoffset[j]>>
        PROVE  i \in visited[c[2]]
    <2>1. i \in 0..j - 1
      BY <1>1, <1>3 DEF HandPlace, BoxPlace, Inner
    <2>2. QED
      BY <1>3, <2>1 DEF IInv, FrameProgress
  <1>4. QED
    BY <1>2, <1>3 DEF Carried

LEMMA ConveyorNext == Conveyor' = InLine(Carried')
  BY DEF Conveyor

-----------------------------------------------------------------------------
(* Each step is one of FrameFlow, or none.                                 *)
LEMMA NextFlow == IInv /\ Passed /\ [Next]_vars => [Flow!Next]_(Flow!flowVars)
  <1> SUFFICES ASSUME IInv, Passed, [Next]_vars PROVE Flow!Next \/ UNCHANGED Flow!flowVars
    OBVIOUS
  <1>0. TypeOK /\ RealChunks /\ MailboxTurn /\ ClientTurn /\ SingleOwner /\ FrameProgress
    BY DEF IInv, Owned
  <1>l. Line(Carried, Offsets)
    BY <1>0, CarriedLine
  <1>q. Conveyor \in Seq(Offsets) /\ Len(Conveyor) = Cardinality(Carried)
        /\ \A c \in Carried : Conveyor[Rank(Carried, c)] = c[2]
    BY <1>l, LineFacts DEF Conveyor
  <1>1. CASE Rests
    BY <1>1, KeptCarried, ConveyorNext DEF Rests, Flow!flowVars, Conveyor
  <1>2. CASE PopFree
    <2>1. /\ Carried' = Carried \cup {<<HandPlace(0), Head(free)>>}
          /\ free # <<>> /\ free' = Tail(free) /\ visited' = visited
      BY <1>0, <1>2, PopMoves, HandTakes
    <2>2. Head(free) \in Offsets
      BY <1>0, <2>1 DEF TypeOK
    <2>3. HandPlace(0) \in Int /\ \A c \in Carried : c[1] < HandPlace(0)
      <3>1. ASSUME NEW i \in Stages, Holds(i) PROVE HandPlace(i) < HandPlace(0)
        <4>1. i # 0
          BY <1>0, <1>2, <3>1, PopMoves
        <4>2. QED
          BY <4>1, LastStageAssumption DEF HandPlace, Stages
      <3>2. ASSUME NEW i \in Inner PROVE BoxPlace(i) < HandPlace(0)
        BY LastStageAssumption DEF HandPlace, BoxPlace, Inner
      <3>3. QED
        BY <3>1, <3>2, LastStageAssumption DEF Carried, HandPlace
    <2>4. InLine(Carried') = Append(InLine(Carried), Head(free))
      BY <1>l, <2>1, <2>2, <2>3, JoinLine
    <2>5. Flow!Take
      BY <2>1, <2>4, ConveyorNext DEF Flow!Take, Conveyor
    <2>6. QED
      BY <2>5 DEF Flow!Next
  <1>3. ASSUME NEW i \in Inner, ReadCommand(i), cmd[i] = "JOB" PROVE UNCHANGED Flow!flowVars
    <2> DEFINE c == <<BoxPlace(i), dataoffset[i]>>
               p == HandPlace(i)
    <2>1. /\ c \in Carried /\ Carried' = (Carried \ {c}) \cup {<<p, c[2]>>}
          /\ ~Holds(i) /\ UNCHANGED <<free, visited>>
      BY <1>0, <1>3, ReadMoves, BoxToHand
    <2>2. p \in Int /\ \A d \in Carried : d # c => d[1] # p /\ (d[1] < p <=> d[1] < c[1])
      <3>1. i \in Stages /\ p = c[1] - 1 /\ p \in Int
        BY LastStageAssumption DEF HandPlace, BoxPlace, Stages, Inner
      <3>2. ASSUME NEW d \in Carried PROVE d[1] # p /\ d[1] \in Int
        <4>1. d[1] \in Int
          BY <1>l DEF Line
        <4>2. d[1] # p
          BY <2>1, <3>1, PlacesDiffer DEF Carried
        <4>3. QED
          BY <4>1, <4>2
      <3>3. \A d \in Carried : d # c => d[1] # c[1]
        BY <1>l, <2>1 DEF Line
      <3>4. c[1] \in Int
        BY <1>l, <2>1 DEF Line
      <3>5. ASSUME NEW d \in Carried, d # c PROVE d[1] < p <=> d[1] < c[1]
        <4> HIDE DEF c, p
        <4>1. d[1] \in Int /\ d[1] # p /\ d[1] # c[1] /\ p = c[1] - 1
          BY <3>1, <3>2, <3>3, <3>5
        <4>2. QED
          BY <3>4, <4>1
      <3>6. QED
        BY <3>1, <3>2, <3>5
    <2>3. InLine(Carried') = InLine(Carried)
      BY <1>l, <2>1, <2>2, MoveInLine
    <2>4. QED
      BY <2>1, <2>3, ConveyorNext DEF Flow!flowVars, Conveyor
  <1>4. ASSUME NEW i \in Workers, PutJob(i) PROVE UNCHANGED Flow!flowVars
    <2> DEFINE c == <<HandPlace(i), off[i]>>
               p == BoxPlace(i + 1)
    <2>1. /\ c \in Carried /\ Carried' = (Carried \ {c}) \cup {<<p, c[2]>>}
          /\ ~Boxed(i + 1) /\ i + 1 \in Inner /\ UNCHANGED <<free, visited>>
      BY <1>0, <1>4, PutMoves, HandToBox
    <2>2. p \in Int /\ \A d \in Carried : d # c => d[1] # p /\ (d[1] < p <=> d[1] < c[1])
      <3>1. p = c[1] - 1 /\ p \in Int
        BY LastStageAssumption DEF HandPlace, BoxPlace, Workers
      <3>2. ASSUME NEW d \in Carried PROVE d[1] # p /\ d[1] \in Int
        <4>1. d[1] \in Int
          BY <1>l DEF Line
        <4>2. d[1] # p
          BY <2>1, <3>1, PlacesDiffer DEF Carried
        <4>3. QED
          BY <4>1, <4>2
      <3>3. \A d \in Carried : d # c => d[1] # c[1]
        BY <1>l, <2>1 DEF Line
      <3>4. c[1] \in Int
        BY <1>l, <2>1 DEF Line
      <3>5. ASSUME NEW d \in Carried, d # c PROVE d[1] < p <=> d[1] < c[1]
        <4> HIDE DEF c, p
        <4>1. d[1] \in Int /\ d[1] # p /\ d[1] # c[1] /\ p = c[1] - 1
          BY <3>1, <3>2, <3>3, <3>5
        <4>2. QED
          BY <3>4, <4>1
      <3>6. QED
        BY <3>1, <3>2, <3>5
    <2>3. InLine(Carried') = InLine(Carried)
      BY <1>l, <2>1, <2>2, MoveInLine
    <2>4. QED
      BY <2>1, <2>3, ConveyorNext DEF Flow!flowVars, Conveyor
  <1>5. ASSUME NEW i \in Inner \cap Workers, DropFrame(i) PROVE Flow!Next
    <2> DEFINE c == <<HandPlace(i), off[i]>>
               k == Rank(Carried, c)
    <2>1. i \in Stages /\ pc[i] = "judge" /\ visited' = visited
      BY <1>5, StageFacts DEF DropFrame, Goto
    <2>2. c \in Carried /\ Carried' = Carried \ {c} /\ free' = Append(free, off[i])
      BY <1>0, <1>5, <2>1, PushMoves, HandLeaves
    <2>3. InLine(Carried') = Flow!RemoveAt(InLine(Carried), k)
      BY <1>l, <2>2, LeaveLine
    <2>4. k \in 1..Cardinality(Carried) /\ Conveyor[k] = off[i]
      BY <1>l, <1>q, <2>2, RankOrder
    <2>5. visited[off[i]] = 0..i
      BY <1>0, <2>1 DEF FrameProgress, Worked
    <2>6. i > 0 /\ i \in Flow!Steps
      BY LastStageAssumption DEF Inner, Workers, Flow!Steps
    <2>7. Flow!Drop(k, i)
      BY <2>1, <2>2, <2>3, <2>4, <2>5, <2>6, ConveyorNext DEF Flow!Drop, Conveyor
    <2>8. k \in DOMAIN Conveyor
      BY <1>q, <2>4
    <2>9. QED
      BY <2>6, <2>7, <2>8 DEF Flow!Next
  <1>6. ASSUME NEW i \in Workers, ClientAct(i) PROVE Flow!Next
    <2> DEFINE c == <<HandPlace(i), off[i]>>
               k == Rank(Carried, c)
    <2>1. /\ i \in Stages /\ Holds(i) /\ Todo(i) /\ off[i] \in Offsets
          /\ visited' = [visited EXCEPT ![off[i]] = IF i = 0 THEN {0} ELSE @ \cup {i}]
          /\ UNCHANGED <<pc, off, newCmd, cmd, dataoffset, free>>
      BY <1>0, <1>6, ActMoves
    <2>2. c \in Carried
      BY <2>1 DEF Carried
    <2>3. k \in 1..Cardinality(Carried) /\ Conveyor[k] = off[i]
      BY <1>l, <1>q, <2>2, RankOrder
    <2>4. Carried' = Carried
      <3>1. CarriedStill
        BY <2>1 DEF CarriedStill, Holds, Boxed
      <3>2. QED
        BY <3>1, KeptCarried
    <2>5. i > 0 => visited[off[i]] = 0..i - 1
      BY <1>0, <2>1, LastStageAssumption DEF FrameProgress, Workers, Inner
    <2>6. visited' = [visited EXCEPT ![off[i]] = 0..i]
      <3>1. CASE i = 0
        BY <2>1, <3>1
      <3>2. CASE i # 0
        <4>1. i \in Nat /\ i > 0
          BY <3>2, LastStageAssumption DEF Workers
        <4>2. (0..i - 1) \cup {i} = 0..i
          BY <4>1
        <4>3. QED
          BY <2>1, <2>5, <3>2, <4>1, <4>2
      <3>3. QED
        BY <3>1, <3>2
    <2>7. ASSUME NEW older \in 1..k - 1 PROVE i \in visited[Conveyor[older]]
      <3>1. older \in 1..Cardinality(Carried) /\ Cardinality(Carried) \in Nat /\ ~(k <= older)
        BY <1>l, <2>3, LineFacts
      <3>2. PICK d \in Carried : Rank(Carried, d) = older
        BY <1>l, <3>1, RankTaken
      <3>3. ~(c[1] <= d[1]) /\ c[1] \in Int /\ d[1] \in Int
        BY <1>l, <2>2, <3>1, <3>2, RankOrder DEF Line
      <3>4. i \in visited[d[2]]
        BY <3>3, OlderWorked
      <3>5. QED
        BY <1>q, <3>2, <3>4
    <2>8. Flow!Process(k, i)
      BY <2>1, <2>3, <2>4, <2>5, <2>6, <2>7, ConveyorNext DEF Flow!Process, Conveyor
    <2>9. k \in DOMAIN Conveyor /\ i \in Flow!Steps
      BY <1>q, <2>3 DEF Flow!Steps, Workers
    <2>10. QED
      BY <2>8, <2>9 DEF Flow!Next
  <1>7. CASE ReturnChunk
    <2> DEFINE i == LastStage
               c == <<HandPlace(i), off[i]>>
    <2>1. i \in Stages /\ i \in Inner /\ pc[i] = "free" /\ visited' = [visited EXCEPT ![off[i]] = {}]
      BY <1>7, StageFacts DEF ReturnChunk, Goto
    <2>2. c \in Carried /\ Carried' = Carried \ {c} /\ free' = Append(free, off[i])
      BY <1>0, <1>7, <2>1, PushMoves, HandLeaves
    <2>3. Rank(Carried, c) = 1
      <3>1. HandPlace(i) = 1
        BY LastStageAssumption DEF HandPlace
      <3>2. \A d \in Carried : d[1] \in Int /\ c[1] <= d[1]
        BY <1>l, <3>1, LastStageAssumption DEF Carried, HandPlace, BoxPlace, Stages, Inner
      <3>3. Cardinality(Carried) \in Nat /\ 1 \in 1..Cardinality(Carried)
        BY <1>l, <2>2, RankOrder, LineFacts
      <3>4. PICK d \in Carried : Rank(Carried, d) = 1
        BY <1>l, <3>3, RankTaken
      <3>5. Rank(Carried, c) <= Rank(Carried, d) /\ Rank(Carried, c) \in 1..Cardinality(Carried)
        BY <1>l, <2>2, <3>2, RankOrder
      <3>6. QED
        BY <3>4, <3>5
    <2>4. Conveyor # <<>> /\ Head(Conveyor) = off[i]
      <3>1. 1 \in 1..Len(Conveyor) /\ Conveyor[1] = off[i]
        BY <1>l, <1>q, <2>2, <2>3, RankOrder
      <3>2. QED
        BY <1>q, <3>1
    <2>5. InLine(Carried') = Tail(Conveyor)
      <3>1. InLine(Carried') = Flow!RemoveAt(Conveyor, 1)
        BY <1>l, <2>2, <2>3, LeaveLine DEF Conveyor
      <3>2. QED
        BY <1>q, <2>4, <3>1, RemovedFirst
    <2>6. visited[off[i]] = Flow!Steps
      BY <1>0, <2>1 DEF FrameProgress, Todo, Flow!Steps
    <2>7. Flow!Release
      BY <2>1, <2>2, <2>4, <2>5, <2>6, ConveyorNext DEF Flow!Release
    <2>8. QED
      BY <2>7 DEF Flow!Next
  <1>8. QED
    BY <1>1, <1>2, <1>3, <1>4, <1>5, <1>6, <1>7, MovesOrRests DEF Moves

(* A pipeline that was just started has no chunk under way.                *)
LEMMA InitFlow == Init => Passed /\ Flow!Init
  <1> SUFFICES ASSUME Init PROVE Passed /\ Flow!Init
    OBVIOUS
  <1>1. \A i \in Stages : ~Holds(i)
    BY DEF Init, Holds
  <1>2. \A i \in Inner : ~Boxed(i)
    BY StageFacts DEF Init, ModuleInit, Boxed
  <1>3. Carried = {}
    BY <1>1, <1>2 DEF Carried
  <1>4. Conveyor = <<>>
    <2>1. Line(Carried, Offsets) /\ Cardinality(Carried) = 0
      BY <1>3, FS_EmptySet DEF Line
    <2>2. Conveyor \in Seq(Offsets) /\ Len(Conveyor) = 0
      BY <2>1, LineFacts DEF Conveyor
    <2>3. QED
      BY <2>2, EmptySeq
  <1>5. Passed
    BY <1>1, StageFacts DEF Passed
  <1>6. QED
    BY <1>4, <1>5 DEF Init, DataInit, Offsets, Flow!Init

(* The pipeline keeps the promise of FrameFlow: frames go through the      *)
(* stages in the order they were captured, none overtakes another, and a   *)
(* chunk comes back to the ring once, from a stage that drops its frame or *)
(* from finalization.                                                      *)
THEOREM PipelineIsFlow == Spec => ImplementsFlow
  <1>1. Init => IInv /\ Passed /\ Flow!Init
    BY InitIInv, InitFlow
  <1>2. IInv /\ Passed /\ [Next]_vars
          => (IInv /\ Passed)' /\ [Flow!Next]_(Flow!flowVars)
    BY NextIInv, NextPassed, NextFlow
  <1>3. QED
    BY <1>1, <1>2, PTL DEF Spec, ImplementsFlow, Flow!Spec
=============================================================================
