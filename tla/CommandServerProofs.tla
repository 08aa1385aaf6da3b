------------------------- MODULE CommandServerProofs ------------------------
(***************************************************************************)
(* The order of commands, for a ring of any size and any number of lines.  *)
(* The ring was created as if it were full, so what keeps the order is not *)
(* the ring: it is that positions are counted from a full ring, and that   *)
(* command_ready holds the command thread back.                            *)
(***************************************************************************)
EXTENDS CommandServer, TLAPS

USE MaxCntAssumption, LinesAssumption, EntriesAssumption

(* How many commands were put into the ring, announced, and taken out.     *)
Pushed == Len(kind) - (IF mpc = "push" THEN 1 ELSE 0)
Posted == Len(kind) - (IF mpc \in {"push", "post", "ready"} THEN 1 ELSE 0)
Popped == Len(executed) + (IF cpc = "execute" THEN 1 ELSE 0)

(* The places and counts keep their types; main has room for its own STOP. *)
Places ==
  /\ mpc \in {"serve", "push", "post", "ready", "leave", "destroy", "join", "done", "faulted"}
  /\ cpc \in {"test", "ready", "ring", "locked", "execute", "destroyPipeline", "done"}
  /\ caller \in {"loop", "destroy"} /\ kind \in Seq(AllKinds) /\ executed \in Seq(Entries)
  /\ Len(kind) <= MaxLines + 1
  /\ mpc = "serve" => caller = "loop"
  /\ mpc \in {"leave", "destroy"} \/ caller = "loop" => Len(kind) <= MaxLines
  /\ mpc = "push" => Len(kind) > 0
  /\ used \in Int /\ start \in Slots /\ sem \in Nat /\ ready \in Nat
  /\ buffer \in [Slots -> Entries] /\ current \in Entries

(* The command thread is let through once for each announced command.      *)
Counted ==
  ready + (IF cpc \in {"ring", "locked"} THEN 1 ELSE 0) + Popped = Posted

(* Until all slots have been popped once, command n is in slot n - 1, and  *)
(* a command for which there is no slot is written elsewhere; afterwards   *)
(* no NULL is left.                                                        *)
Placed ==
  /\ used = MaxCnt + Pushed - Popped
  /\ Popped < MaxCnt =>
       /\ start = Popped
       /\ \A s \in Slots : buffer[s] = IF s < Pushed THEN s + 1 ELSE NULL
  /\ Popped >= MaxCnt => \A s \in Slots : buffer[s] # NULL

(* The command being executed is the next one.                             *)
Current == cpc = "execute" /\ Popped <= MaxCnt => current = Popped

(* The inductive invariant; after a fault nothing happens any more.        *)
IInv ==
  /\ FirstCommandsInOrder
  /\ Places
  /\ mpc # "faulted" => Counted /\ Placed /\ Current

(* The invariant holds at the start.                                       *)
LEMMA InitIInv == Init => IInv
  <1> SUFFICES ASSUME Init PROVE IInv
    OBVIOUS
  <1> USE DEF Init, CreateFull
  <1>1. Pushed = 0 /\ Posted = 0 /\ Popped = 0
    BY DEF Pushed, Posted, Popped
  <1>2. Places
    BY DEF Places, Slots, AllKinds, Commands, NULL
  <1>3. Counted /\ Placed /\ Current
    BY <1>1 DEF Counted, Placed, Current, Slots
  <1>4. FirstCommandsInOrder
    BY DEF FirstCommandsInOrder
  <1> QED BY <1>2, <1>3, <1>4 DEF IInv

(* What executing a command does, whatever its text is.                    *)
LEMMA ExecuteFacts ==
  ASSUME ExecuteOther \/ ExecuteStop \/ ExecuteConfig \/ ConfigWrongModules
  PROVE  /\ mpc # "faulted" /\ cpc = "execute" /\ cpc' \in {"test", "destroyPipeline"}
         /\ executed' = Append(executed, current)
         /\ UNCHANGED <<used, start, buffer, sem, ready, mpc, caller, tcpExit, kind, current>>
  BY DEF ExecuteOther, ExecuteStop, ExecuteConfig, ConfigWrongModules, Execute, CommandGoto,
         Alive, ringVars, main

(* Command thread and main keep to their places, and numbers to their      *)
(* ranges.                                                                 *)
LEMMA NextPlaces == IInv /\ [Next]_vars => Places'
  <1> SUFFICES ASSUME Places PROVE [Next]_vars => Places'
    BY DEF IInv
  <1> USE DEF Places, MainGoto, CommandGoto, ringVars, fields, pipeline, command, main
  <1>1. ASSUME ReceiveLine PROVE Places'
    BY <1>1, KindsAssumption DEF ReceiveLine
  <1>2. ASSUME PushCommand PROVE Places'
    <2>1. Len(kind) \in Entries
      BY <1>2 DEF PushCommand, Commands
    <2>2. buffer' \in [Slots -> Entries]
      BY <1>2, <2>1 DEF PushCommand, PushLocked
    <2> QED BY <1>2, <2>2 DEF PushCommand, PushLocked
  <1>3. ASSUME PostRing \/ PostReady PROVE Places'
    BY <1>3 DEF PostRing, PushPost, PostReady
  <1>4. ASSUME LeaveLoop \/ JoinCommandThread PROVE Places'
    BY <1>4 DEF LeaveLoop, JoinCommandThread
  <1>5. ASSUME RaiseExit PROVE Places'
    BY <1>5 DEF RaiseExit, AllKinds
  <1>6. ASSUME TestExit \/ AwaitReady \/ AwaitRing PROVE Places'
    BY <1>6 DEF TestExit, AwaitReady, AwaitRing, PopWait
  <1>7. ASSUME TakeCommand PROVE Places'
    <2>1. Wrap(start + 1) \in Slots
      BY DEF Wrap, Slots
    <2> QED BY <1>7, <2>1 DEF TakeCommand, PopLocked
  <1>8. ASSUME ExecuteOther \/ ExecuteStop \/ ExecuteConfig \/ ConfigWrongModules PROVE Places'
    <2>1. /\ cpc' \in {"test", "destroyPipeline"} /\ executed' = Append(executed, current)
          /\ UNCHANGED <<used, start, buffer, sem, ready, mpc, caller, kind, current>>
      BY <1>8, ExecuteFacts
    <2>2. executed' \in Seq(Entries)
      BY <2>1
    <2> QED BY <2>1, <2>2
  <1>9. ASSUME ConfigFaults \/ FreeFaults \/ DestroyPipeline PROVE Places'
    BY <1>9 DEF ConfigFaults, FreeFaults, DestroyPipeline
  <1>10. ASSUME UNCHANGED vars PROVE Places'
    BY <1>10 DEF vars
  <1> QED
    BY <1>1, <1>2, <1>3, <1>4, <1>5, <1>6, <1>7, <1>8, <1>9, <1>10
    DEF Next, ServeLoop, Shutdown, CommandThread, Pop, Config

(* Who got through command_ready finds a command that is not NULL at the   *)
(* ring's start: the next one, as long as the slots were not all popped.   *)
LEMMA NextTaken ==
  ASSUME IInv, mpc # "faulted", cpc = "locked"
  PROVE  buffer[start] # NULL /\ (Popped < MaxCnt => buffer[start] = Popped + 1)
  <1>1. Popped < Pushed /\ Popped \in Nat /\ Pushed \in Int
    BY DEF IInv, Places, Counted, Popped, Pushed, Posted
  <1>2. CASE Popped < MaxCnt
    <2>1. start = Popped /\ start \in Slots /\ buffer[start] = IF start < Pushed THEN start + 1 ELSE NULL
      BY <1>2 DEF IInv, Places, Placed
    <2> QED BY <1>1, <1>2, <2>1 DEF NULL
  <1>3. CASE Popped >= MaxCnt
    BY <1>1, <1>3 DEF IInv, Places, Placed
  <1> QED BY <1>1, <1>2, <1>3

(* A command is put behind the ones before it, or outside the ring.        *)
LEMMA PushPlaced == IInv /\ PushCommand /\ mpc' # "faulted" => (Counted /\ Placed /\ Current)'
  <1> SUFFICES ASSUME IInv, PushCommand, mpc' # "faulted" PROVE (Counted /\ Placed /\ Current)'
    OBVIOUS
  <1>0. Places /\ Counted /\ Placed /\ Current /\ mpc = "push" /\ mpc' = "post"
    BY DEF IInv, PushCommand, MainGoto
  <1>1. /\ PushLocked(Len(kind)) /\ Len(kind) > 0 /\ Len(kind) \in Nat
        /\ UNCHANGED <<ready, cpc, current, executed, kind>>
    BY <1>0 DEF PushCommand, command, Places
  <1>2. /\ Popped' = Popped /\ Popped \in Nat /\ Pushed = Len(kind) - 1 /\ Pushed \in Nat
        /\ Pushed' = Len(kind) /\ Posted' = Posted
    BY <1>0, <1>1 DEF Popped, Pushed, Posted, Places
  <1>3. Counted'
    BY <1>0, <1>1, <1>2 DEF Counted
  <1>4. Current'
    BY <1>0, <1>1, <1>2 DEF Current
  <1>5. used' = MaxCnt + Pushed' - Popped'
    BY <1>0, <1>1, <1>2 DEF Placed, PushLocked
  <1>6. ASSUME Popped < MaxCnt
        PROVE  start' = Popped /\ \A s \in Slots : buffer'[s] = IF s < Pushed' THEN s + 1 ELSE NULL
    <2>1. start = Popped /\ start' = start
      BY <1>0, <1>1, <1>6 DEF Placed, PushLocked
    <2>2. PushPos = Pushed
      BY <1>0, <1>2, <2>1 DEF PushPos, Wrap, Placed
    <2>3. buffer' = IF Pushed \in Slots THEN [buffer EXCEPT ![Pushed] = Pushed + 1] ELSE buffer
      BY <1>1, <1>2, <2>2 DEF PushLocked
    <2>4. \A s \in Slots : buffer[s] = IF s < Pushed THEN s + 1 ELSE NULL
      BY <1>0, <1>6 DEF Placed
    <2> QED BY <1>0, <1>2, <2>1, <2>3, <2>4 DEF Places, Slots
  <1>7. ASSUME Popped >= MaxCnt PROVE \A s \in Slots : buffer'[s] # NULL
    BY <1>0, <1>1, <1>7 DEF Placed, PushLocked, Places, NULL
  <1> QED BY <1>2, <1>3, <1>4, <1>5, <1>6, <1>7 DEF Placed

(* The command thread takes the next command.                              *)
LEMMA TakePlaced == IInv /\ TakeCommand => (Counted /\ Placed /\ Current)'
  <1> SUFFICES ASSUME IInv, TakeCommand PROVE (Counted /\ Placed /\ Current)'
    OBVIOUS
  <1>0. Places /\ Counted /\ Placed /\ cpc = "locked" /\ mpc # "faulted"
    BY DEF IInv, TakeCommand, CommandGoto, Alive
  <1>1. /\ buffer[start] # NULL
        /\ Popped < MaxCnt => buffer[start] = Popped + 1
    BY <1>0, NextTaken
  <1>2. /\ cpc' = "execute" /\ current' = buffer[start] /\ PopLocked(buffer[start])
        /\ UNCHANGED <<ready, mpc, kind, executed>>
    BY <1>1 DEF TakeCommand, CommandGoto, PopLocked, main
  <1>3. /\ Popped' = Popped + 1 /\ Popped \in Nat /\ Pushed' = Pushed /\ Posted' = Posted
        /\ Pushed \in Int /\ Popped < Pushed
    BY <1>0, <1>2 DEF Popped, Pushed, Posted, Places, Counted
  <1>4. Counted'
    BY <1>0, <1>2, <1>3 DEF Counted, Places
  <1>5. Current'
    BY <1>1, <1>2, <1>3 DEF Current
  <1>6. used' = MaxCnt + Pushed' - Popped'
    BY <1>0, <1>2, <1>3 DEF Placed, PopLocked, Places
  <1>7. ASSUME Popped + 1 < MaxCnt
        PROVE  start' = Popped + 1 /\ \A s \in Slots : buffer'[s] = IF s < Pushed THEN s + 1 ELSE NULL
    BY <1>0, <1>2, <1>3, <1>7 DEF Placed, PopLocked, Wrap
  <1>8. ASSUME Popped + 1 >= MaxCnt PROVE \A s \in Slots : buffer'[s] # NULL
    <2>1. \A s \in Slots : Popped < MaxCnt => s < Pushed
      BY <1>3, <1>8 DEF Slots
    <2> QED BY <1>0, <1>2, <1>3, <2>1 DEF Placed, PopLocked, NULL, Slots
  <1> QED BY <1>3, <1>4, <1>5, <1>6, <1>7, <1>8 DEF Placed

(* Steps that move no command in or out of the ring.                       *)
LEMMA Unmoved ==
  ASSUME IInv, mpc # "faulted", UNCHANGED <<used, start, buffer, current>>,
         Pushed' = Pushed, Popped' = Popped, cpc' = "execute" => cpc = "execute"
  PROVE  Placed' /\ Current'
  BY DEF IInv, Placed, Current

(* The counts go along: a line read is pushed, posted, promised and taken. *)
LEMMA NextCounts ==
  IInv /\ [Next]_vars /\ mpc' # "faulted" => (Counted /\ Placed /\ Current)'
  <1> SUFFICES ASSUME IInv, mpc' # "faulted" PROVE [Next]_vars => (Counted /\ Placed /\ Current)'
    OBVIOUS
  <1> USE DEF MainGoto, CommandGoto, ringVars, fields, command, main
  <1>0. Places /\ (mpc # "faulted" => Counted)
    BY DEF IInv
  <1>1. ASSUME ReceiveLine PROVE (Counted /\ Placed /\ Current)'
    <2>1. Len(kind') = Len(kind) + 1 /\ Len(kind) \in Nat
      BY <1>0, <1>1, KindsAssumption DEF ReceiveLine, Places
    <2>2. /\ mpc = "serve" /\ mpc' = "push" /\ UNCHANGED <<ready, cpc, executed, current, used, start, buffer>>
      BY <1>1 DEF ReceiveLine
    <2>3. Pushed' = Pushed /\ Popped' = Popped /\ Posted' = Posted
      BY <2>1, <2>2 DEF Pushed, Popped, Posted
    <2> QED BY <1>0, <2>2, <2>3, Unmoved DEF Counted
  <1>2. ASSUME PostRing PROVE (Counted /\ Placed /\ Current)'
    <2>1. /\ mpc = "post" /\ mpc' = "ready"
          /\ UNCHANGED <<ready, cpc, executed, current, used, start, buffer, kind>>
      BY <1>2 DEF PostRing, PushPost
    <2>2. Pushed' = Pushed /\ Popped' = Popped /\ Posted' = Posted
      BY <2>1 DEF Pushed, Popped, Posted
    <2> QED BY <1>0, <2>1, <2>2, Unmoved DEF Counted
  <1>3. ASSUME PostReady PROVE (Counted /\ Placed /\ Current)'
    <2>1. /\ mpc = "ready" /\ mpc' \notin {"push", "post", "ready"} /\ ready' = ready + 1
          /\ UNCHANGED <<cpc, executed, current, used, start, buffer, kind>>
      BY <1>3 DEF PostReady
    <2>2. Pushed' = Pushed /\ Popped' = Popped /\ Posted' = Posted + 1
      BY <1>0, <2>1 DEF Pushed, Popped, Posted, Places
    <2>3. Popped \in Nat /\ Posted \in Int /\ ready \in Nat
      BY <1>0 DEF Popped, Posted, Places
    <2> QED BY <1>0, <2>1, <2>2, <2>3, Unmoved DEF Counted
  <1>4. ASSUME LeaveLoop \/ JoinCommandThread PROVE (Counted /\ Placed /\ Current)'
    <2>1. /\ mpc \in {"leave", "join"} /\ mpc' \in {"destroy", "done"}
          /\ UNCHANGED <<ready, cpc, executed, current, used, start, buffer, kind>>
      BY <1>4 DEF LeaveLoop, JoinCommandThread
    <2>2. Pushed' = Pushed /\ Popped' = Popped /\ Posted' = Posted
      BY <2>1 DEF Pushed, Popped, Posted
    <2> QED BY <1>0, <2>1, <2>2, Unmoved DEF Counted
  <1>5. ASSUME RaiseExit PROVE (Counted /\ Placed /\ Current)'
    <2>1. Len(kind') = Len(kind) + 1 /\ Len(kind) \in Nat
      BY <1>0, <1>5 DEF RaiseExit, Places
    <2>2. /\ mpc = "destroy" /\ mpc' = "push" /\ UNCHANGED <<ready, cpc, executed, current, used, start, buffer>>
      BY <1>5 DEF RaiseExit
    <2>3. Pushed' = Pushed /\ Popped' = Popped /\ Posted' = Posted
      BY <2>1, <2>2 DEF Pushed, Popped, Posted
    <2> QED BY <1>0, <2>2, <2>3, Unmoved DEF Counted
  <1>6. ASSUME TestExit \/ AwaitRing PROVE (Counted /\ Placed /\ Current)'
    <2>1. /\ <<cpc, cpc'>> \in {<<"test", "done">>, <<"test", "ready">>, <<"ring", "locked">>}
          /\ mpc # "faulted"
          /\ UNCHANGED <<ready, executed, current, used, start, buffer, kind, mpc>>
      BY <1>6 DEF TestExit, AwaitRing, PopWait, Alive
    <2>2. Pushed' = Pushed /\ Popped' = Popped /\ Posted' = Posted
      BY <2>1 DEF Pushed, Popped, Posted
    <2> QED BY <1>0, <2>1, <2>2, Unmoved DEF Counted
  <1>7. ASSUME AwaitReady PROVE (Counted /\ Placed /\ Current)'
    <2>1. /\ cpc = "ready" /\ cpc' = "ring" /\ ready' = ready - 1 /\ mpc # "faulted"
          /\ UNCHANGED <<executed, current, used, start, buffer, kind, mpc>>
      BY <1>7 DEF AwaitReady, Alive
    <2>2. Pushed' = Pushed /\ Popped' = Popped /\ Posted' = Posted
      BY <2>1 DEF Pushed, Popped, Posted
    <2>3. Popped \in Nat /\ Posted \in Int /\ ready \in Nat
      BY <1>0 DEF Popped, Posted, Places
    <2> QED BY <1>0, <2>1, <2>2, <2>3, Unmoved DEF Counted
  <1>8. ASSUME ExecuteOther \/ ExecuteStop \/ ExecuteConfig \/ ConfigWrongModules
        PROVE  (Counted /\ Placed /\ Current)'
    <2>1. /\ cpc = "execute" /\ cpc' \in {"test", "destroyPipeline"} /\ mpc # "faulted"
          /\ executed' = Append(executed, current)
          /\ UNCHANGED <<ready, current, used, start, buffer, kind, mpc>>
      BY <1>8, ExecuteFacts
    <2>2. Len(executed') = Len(executed) + 1 /\ Len(executed) \in Nat
      BY <1>0, <2>1 DEF Places
    <2>3. Pushed' = Pushed /\ Popped' = Popped /\ Posted' = Posted
      BY <2>1, <2>2 DEF Pushed, Popped, Posted
    <2> QED BY <1>0, <2>1, <2>3, Unmoved DEF Counted
  <1>9. ASSUME DestroyPipeline PROVE (Counted /\ Placed /\ Current)'
    <2>1. /\ cpc = "destroyPipeline" /\ cpc' = "test" /\ mpc # "faulted"
          /\ UNCHANGED <<ready, executed, current, used, start, buffer, kind, mpc>>
      BY <1>9 DEF DestroyPipeline, Alive
    <2>2. Pushed' = Pushed /\ Popped' = Popped /\ Posted' = Posted
      BY <2>1 DEF Pushed, Popped, Posted
    <2> QED BY <1>0, <2>1, <2>2, Unmoved DEF Counted
  <1>10. ASSUME UNCHANGED vars PROVE (Counted /\ Placed /\ Current)'
    <2>1. UNCHANGED <<ready, cpc, executed, current, used, start, buffer, kind, mpc>>
      BY <1>10 DEF vars
    <2>2. Pushed' = Pushed /\ Popped' = Popped /\ Posted' = Posted
      BY <2>1 DEF Pushed, Popped, Posted
    <2> QED BY <1>0, <2>1, <2>2, Unmoved DEF Counted
  <1>11. ~ConfigFaults /\ ~FreeFaults
    BY DEF ConfigFaults, FreeFaults
  <1> QED
    BY <1>1, <1>2, <1>3, <1>4, <1>5, <1>6, <1>7, <1>8, <1>9, <1>10, <1>11, PushPlaced, TakePlaced
    DEF Next, ServeLoop, Shutdown, CommandThread, Pop, Config

(* Only an executed command makes the record of them longer.               *)
LEMMA NextFirstCommands == IInv /\ [Next]_vars => FirstCommandsInOrder'
  <1> SUFFICES ASSUME IInv PROVE [Next]_vars => FirstCommandsInOrder'
    OBVIOUS
  <1>1. ASSUME ExecuteOther \/ ExecuteStop \/ ExecuteConfig \/ ConfigWrongModules
        PROVE  FirstCommandsInOrder'
    <2>1. cpc = "execute" /\ mpc # "faulted" /\ executed' = Append(executed, current)
      BY <1>1, ExecuteFacts
    <2>2. executed \in Seq(Entries) /\ current \in Entries
      BY DEF IInv, Places
    <2>3. Popped = Len(executed) + 1 /\ (Popped <= MaxCnt => current = Popped)
      BY <2>1 DEF Popped, IInv, Current
    <2>4. DOMAIN executed' = 1..Len(executed) + 1 /\ Len(executed) \in Nat
      BY <2>1, <2>2
    <2>5. \A n \in 1..Len(executed) : executed'[n] = executed[n] /\ n \in DOMAIN executed
      BY <2>1, <2>2
    <2>6. executed'[Len(executed) + 1] = current
      BY <2>1, <2>2
    <2> QED BY <2>3, <2>4, <2>5, <2>6 DEF FirstCommandsInOrder, IInv
  <1>2. ASSUME UNCHANGED executed PROVE FirstCommandsInOrder'
    BY <1>2 DEF IInv, FirstCommandsInOrder
  <1> QED
    BY <1>1, <1>2
    DEF Next, ServeLoop, Shutdown, CommandThread, Pop, Config, ReceiveLine, PushCommand, PostRing,
        PostReady, LeaveLoop, RaiseExit, JoinCommandThread, TestExit, AwaitReady, AwaitRing,
        TakeCommand, ConfigFaults, FreeFaults, DestroyPipeline, command, vars

(* The invariant holds in every reachable state.                           *)
LEMMA InvariantHolds == Spec => []IInv
  <1>1. IInv /\ [Next]_vars => IInv'
    BY NextPlaces, NextCounts, NextFirstCommands DEF IInv
  <1> QED BY <1>1, InitIInv, PTL DEF Spec

-----------------------------------------------------------------------------

(* As many commands as the ring has slots are executed in the order they   *)
(* were put, although the ring says it was full from the start.            *)
THEOREM CommandsInOrder == Spec => []FirstCommandsInOrder
  <1>1. IInv => FirstCommandsInOrder
    BY DEF IInv
  <1> QED BY <1>1, InvariantHolds, PTL

(* The command thread never takes a NULL the ring was created with.        *)
THEOREM NoNullTaken == Spec => NoNullCommand
  <1>1. IInv /\ [Next]_vars => [cpc = "locked" /\ cpc' # "locked" => current' # NULL]_vars
    <2> SUFFICES ASSUME IInv, Next, cpc = "locked", cpc' # "locked" PROVE current' # NULL
      OBVIOUS
    <2>1. TakeCommand
      BY ExecuteFacts
      DEF Next, ServeLoop, Shutdown, CommandThread, Pop, Config, ReceiveLine, PushCommand, PostRing,
          PostReady, LeaveLoop, RaiseExit, JoinCommandThread, TestExit, AwaitReady, AwaitRing,
          ConfigFaults, FreeFaults, DestroyPipeline, command, CommandGoto
    <2>2. current' = buffer[start] /\ mpc # "faulted"
      BY <2>1 DEF TakeCommand, PopLocked, CommandGoto, Alive
    <2> QED BY <2>2, NextTaken
  <1> QED BY <1>1, InvariantHolds, PTL DEF Spec, NoNullCommand
=============================================================================
