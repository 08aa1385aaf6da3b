------------------------------ MODULE Capture ------------------------------
(***************************************************************************)
(* Capturing from Spinnaker cameras (tools/spinnaker/src).  With threads   *)
(* (CaptureManager::runThreads, CaptureThread) every camera has a thread   *)
(* that shoots once for each beat of the manager; without                  *)
(* (CaptureManager::run, started by main) one thread shoots all cameras    *)
(* and the user asks for frames from another.  Waiting on a condition      *)
(* variable may end at any time its predicate holds: notifications are not *)
(* modelled, and none is promised.  The cameras are external.              *)
(***************************************************************************)
EXTENDS Integers, FiniteSets

CONSTANTS
  CameraCnt,   \* cameras
  WarmUps,     \* 3 beats for each camera before the first stored frame
  MaxBeats,    \* bound: beats, and frames stored by run
  MaxPresses   \* bound: times the user asks for a frame

ASSUME CaptureAssumption ==
  /\ CameraCnt \in Nat \ {0} /\ WarmUps \in Nat \ {0}
  /\ MaxBeats \in Nat /\ MaxPresses \in Nat

Cameras == 1..CameraCnt
Modes   == {"threads", "stream", "calibrate"}

VARIABLES
  mode,        \* how the program was started
  master,      \* the manager: [pc, step], step counting polls and warm-ups
  thread,      \* a program counter for every camera's thread
  stopper,     \* whoever calls stop, and BeatNo as it was then
  scheduled,   \* CaptureScheduled
  storeFrames, doCapture,
  beat,        \* BeatNo; j in run
  files,       \* how often a camera's file of a beat was saved
  flag,        \* mStoreThisBeat
  presses,     \* calls of storeOnce
  early,       \* those before run has set the flag: they are lost
  shots,       \* cameras shot in this round of run
  stale        \* a file of a stored beat was not shot in its round

shared == <<scheduled, storeFrames, doCapture, beat, files>>
ui     == <<flag, presses, early, shots, stale>>
vars   == <<mode, master, thread, stopper, shared, ui>>

Threaded == mode = "threads"
AllTrue  == [i \in Cameras |-> TRUE]
AllFalse == [i \in Cameras |-> FALSE]

ManagerPlaces ==
  {"poll", "warm", "warming", "armed", "test", "set", "beat", "count", "failed", "ended",
   "begin", "shoot", "store"}
ThreadPlaces == {"none", "born", "test", "wait", "shoot", "store", "clear", "ended"}

(* The places and counts of manager, threads, stop and user keep their     *)
(* types.                                                                  *)
TypeOK ==
  /\ mode \in Modes
  /\ master \in [pc : ManagerPlaces, step : Nat]
  /\ thread \in [Cameras -> ThreadPlaces]
  /\ stopper \in [pc : {"idle", "flags", "store", "join", "done"}, beat : 0..MaxBeats]
  /\ scheduled \in [Cameras -> BOOLEAN] /\ storeFrames \in BOOLEAN /\ doCapture \in BOOLEAN
  /\ flag \in BOOLEAN /\ stale \in BOOLEAN
  /\ beat \in 0..MaxBeats /\ files \in [Cameras \X (0..MaxBeats + 1) -> Nat]
  /\ presses \in 0..MaxPresses /\ early \in 0..presses /\ shots \in SUBSET Cameras

\* the program has begun runThreads, or is about to begin run in a thread
\* while the preview already takes keys; nobody has given mStoreThisBeat a value
Init ==
  /\ mode \in Modes
  /\ master = [pc |-> IF Threaded THEN "poll" ELSE "begin", step |-> 0]
  /\ thread = [i \in Cameras |-> IF Threaded THEN "born" ELSE "none"]
  /\ stopper = [pc |-> "idle", beat |-> 0]
  /\ scheduled = AllTrue /\ storeFrames = FALSE /\ doCapture = TRUE
  /\ beat = 0 /\ files = [f \in Cameras \X (0..MaxBeats + 1) |-> 0]
  /\ flag \in BOOLEAN /\ presses = 0 /\ early = 0 /\ shots = {} /\ stale = FALSE

Save(i) == files' = [files EXCEPT ![<<i, beat>>] = @ + 1]

Move(pc) == master' = [master EXCEPT !.pc = pc]

-----------------------------------------------------------------------------
(* A camera's thread.                                                      *)
Goes(i, from, to) == thread[i] = from /\ thread' = [thread EXCEPT ![i] = to]

ThreadStarts(i) ==
  /\ Goes(i, "born", "test")
  /\ scheduled' = [scheduled EXCEPT ![i] = FALSE]
  /\ UNCHANGED <<mode, master, stopper, storeFrames, doCapture, beat, files, ui>>

TestCapture(i) ==
  /\ Goes(i, "test", IF doCapture THEN "wait" ELSE "ended")
  /\ UNCHANGED <<mode, master, stopper, shared, ui>>

\* variant: the flag is cleared as soon as the thread is awake
WakesAndClears(i) ==
  /\ Goes(i, "wait", "shoot") /\ scheduled[i]
  /\ scheduled' = [scheduled EXCEPT ![i] = FALSE]
  /\ UNCHANGED <<mode, master, stopper, storeFrames, doCapture, beat, files, ui>>

Wakes(i) ==
  /\ Goes(i, "wait", "shoot") /\ scheduled[i]
  /\ UNCHANGED <<mode, master, stopper, shared, ui>>

\* an incomplete image is released and taken again
Shoots(i) ==
  /\ Goes(i, "shoot", IF storeFrames THEN "store" ELSE "clear")
  /\ UNCHANGED <<mode, master, stopper, shared, ui>>

Stores(i) ==
  /\ Goes(i, "store", "clear") /\ Save(i)
  /\ UNCHANGED <<mode, master, stopper, scheduled, storeFrames, doCapture, beat, ui>>

Clears(i) ==
  /\ Goes(i, "clear", "test")
  /\ scheduled' = [scheduled EXCEPT ![i] = FALSE]
  /\ UNCHANGED <<mode, master, stopper, storeFrames, doCapture, beat, files, ui>>

Thread(i) ==
  \/ ThreadStarts(i) \/ TestCapture(i) \/ Wakes(i) \/ Shoots(i) \/ Stores(i) \/ Clears(i)

-----------------------------------------------------------------------------
(* The manager with threads.                                               *)

\* 3 looks for every camera, a second apart; the last one throws
Poll ==
  /\ master.pc = "poll"
  /\ IF scheduled = AllFalse THEN master' = [pc |-> "warm", step |-> 1]
     ELSE IF master.step = 3 * CameraCnt - 1 THEN Move("failed")
     ELSE master' = [master EXCEPT !.step = @ + 1]
  /\ UNCHANGED <<mode, thread, stopper, shared, ui>>

\* the camera of a warm-up: each one in turn, at last the first again
WarmCamera(step) ==
  IF step > CameraCnt * WarmUps THEN 1 ELSE (step - 1) \div WarmUps + 1

WarmUp ==
  /\ master.pc = "warm" /\ Move("warming")
  /\ LET first == (master.step - 1) % WarmUps = 0
     IN  scheduled' = [IF first THEN AllFalse ELSE scheduled
                       EXCEPT ![WarmCamera(master.step)] = TRUE]
  /\ UNCHANGED <<mode, thread, stopper, storeFrames, doCapture, beat, files, ui>>

AwaitWarm ==
  /\ master.pc = "warming" /\ scheduled = AllFalse
  /\ master' = IF master.step = (CameraCnt + 1) * WarmUps THEN [pc |-> "armed", step |-> 0]
               ELSE [pc |-> "warm", step |-> master.step + 1]
  /\ UNCHANGED <<mode, thread, stopper, shared, ui>>

StartStoring ==
  /\ master.pc = "armed" /\ Move("test") /\ storeFrames' = TRUE
  /\ UNCHANGED <<mode, thread, stopper, scheduled, doCapture, beat, files, ui>>

TestBeat ==
  /\ Threaded /\ master.pc = "test" /\ (doCapture => beat < MaxBeats)
  /\ Move(IF doCapture THEN "set" ELSE "ended")
  /\ UNCHANGED <<mode, thread, stopper, shared, ui>>

SetBeat ==
  /\ master.pc = "set" /\ Move("beat") /\ scheduled' = AllTrue
  /\ UNCHANGED <<mode, thread, stopper, storeFrames, doCapture, beat, files, ui>>

\* variant: one camera is enough
AwaitAnyBeat ==
  /\ master.pc = "beat" /\ \E i \in Cameras : ~scheduled[i] /\ Move("count")
  /\ UNCHANGED <<mode, thread, stopper, shared, ui>>

AwaitBeat ==
  /\ master.pc = "beat" /\ scheduled = AllFalse /\ Move("count")
  /\ UNCHANGED <<mode, thread, stopper, shared, ui>>

CountBeat ==
  /\ master.pc = "count" /\ Move("test") /\ beat' = beat + 1
  /\ UNCHANGED <<mode, thread, stopper, scheduled, storeFrames, doCapture, files, ui>>

RunThreads ==
  \/ Poll \/ WarmUp \/ AwaitWarm \/ StartStoring \/ TestBeat \/ SetBeat \/ AwaitBeat \/ CountBeat

\* CaptureManager::stop: the flags, then StoreFrames, then DoCapture, then
\* every thread is joined
Stop ==
  /\ Threaded
  /\ \/ /\ stopper.pc = "idle" /\ stopper' = [pc |-> "flags", beat |-> beat]
        /\ scheduled' = AllFalse /\ UNCHANGED <<storeFrames, doCapture>>
     \/ /\ stopper.pc = "flags" /\ stopper' = [stopper EXCEPT !.pc = "store"]
        /\ storeFrames' = FALSE /\ UNCHANGED <<scheduled, doCapture>>
     \/ /\ stopper.pc = "store" /\ stopper' = [stopper EXCEPT !.pc = "join"]
        /\ doCapture' = FALSE /\ UNCHANGED <<scheduled, storeFrames>>
     \/ /\ stopper.pc = "join" /\ \A i \in Cameras : thread[i] = "ended"
        /\ stopper' = [stopper EXCEPT !.pc = "done"]
        /\ UNCHANGED <<scheduled, storeFrames, doCapture>>
  /\ UNCHANGED <<mode, master, thread, beat, files, ui>>

-----------------------------------------------------------------------------
(* The manager without threads.                                            *)

\* run begins: a request that is there already is written over
BeginRun ==
  /\ master.pc = "begin" /\ Move("test")
  /\ flag' = (mode = "stream") /\ early' = presses
  /\ UNCHANGED <<mode, thread, stopper, shared, presses, shots, stale>>

\* a round begins
TestRound ==
  /\ ~Threaded /\ master.pc = "test" /\ (doCapture => beat < MaxBeats)
  /\ Move(IF doCapture THEN "shoot" ELSE "ended") /\ shots' = {}
  /\ UNCHANGED <<mode, thread, stopper, shared, flag, presses, early, stale>>

\* one camera after another; an incomplete image is taken again
ShootCamera ==
  /\ master.pc = "shoot" /\ Cardinality(shots) < CameraCnt
  /\ shots' = shots \cup {Cardinality(shots) + 1}
  /\ UNCHANGED <<mode, master, thread, stopper, shared, flag, presses, early, stale>>

\* mStoreThisBeat is read when all cameras are shot
TestStore ==
  /\ master.pc = "shoot" /\ Cardinality(shots) = CameraCnt
  /\ Move(IF flag THEN "store" ELSE "test")
  /\ UNCHANGED <<mode, thread, stopper, shared, ui>>

StoreCamera ==
  /\ master.pc = "store"
  /\ \E i \in Cameras :
       /\ files[<<i, beat>>] = 0 /\ \A k \in 1..i - 1 : files[<<k, beat>>] = 1
       /\ Save(i) /\ stale' = (stale \/ i \notin shots)
  /\ UNCHANGED <<mode, master, thread, stopper, scheduled, storeFrames, doCapture, beat,
                 flag, presses, early, shots>>

\* variant: the flag stays up
StoredKeepsFlag ==
  /\ master.pc = "store" /\ \A i \in Cameras : files[<<i, beat>>] = 1
  /\ Move("test") /\ beat' = beat + 1
  /\ UNCHANGED <<mode, thread, stopper, scheduled, storeFrames, doCapture, files, ui>>

\* all are saved: the flag is as it was at the start, whoever set it since
Stored ==
  /\ master.pc = "store" /\ \A i \in Cameras : files[<<i, beat>>] = 1
  /\ Move("test") /\ beat' = beat + 1 /\ flag' = (mode = "stream")
  /\ UNCHANGED <<mode, thread, stopper, scheduled, storeFrames, doCapture, files,
                 presses, early, shots, stale>>

\* Enter in the preview
storeOnce ==
  /\ ~Threaded /\ doCapture /\ presses < MaxPresses
  /\ flag' = TRUE /\ presses' = presses + 1
  /\ UNCHANGED <<mode, master, thread, stopper, shared, early, shots, stale>>

\* Esc: main ends the loop and joins the manager
Quit ==
  /\ ~Threaded /\ doCapture /\ doCapture' = FALSE
  /\ UNCHANGED <<mode, master, thread, stopper, scheduled, storeFrames, beat, files, ui>>

Run == BeginRun \/ TestRound \/ ShootCamera \/ TestStore \/ StoreCamera \/ Stored \/ storeOnce \/ Quit

-----------------------------------------------------------------------------
Next == RunThreads \/ Stop \/ Run \/ \E i \in Cameras : Thread(i)

Spec == Init /\ [][Next]_vars

\* the files of a beat are all there
Complete(b) == \A i \in Cameras : files[<<i, b>>] = 1

(* Every beat the manager has counted has one file of every camera, and no *)
(* file has the number of a later beat; a stop in the middle of a beat may *)
(* spoil that one and what the manager counts after it (a file is missing, *)
(* is written twice or has the next number), but none before.  Without     *)
(* threads this holds to the end, and the images of a number are of one    *)
(* round.                                                                  *)
BeatsComplete ==
  /\ \A b \in 0..(IF stopper.pc = "idle" THEN beat ELSE stopper.beat) - 1 : Complete(b)
  /\ stopper.pc = "idle" => \A i \in Cameras : \A b \in beat..MaxBeats + 1 :
       files[<<i, b>>] <= IF b = beat THEN 1 ELSE 0
  /\ ~stale

(* Before the first stored frame the cameras are woken one by one: no two  *)
(* of them shoot at a time, and no other one than the manager waits for.   *)
OneCameraWarms ==
  storeFrames \/ stopper.pc # "idle" \/ ~Threaded \/ master.pc \in {"poll", "failed"} \/
    \A i \in Cameras : thread[i] \in {"shoot", "store", "clear"} =>
      master.pc = "warming" /\ i = WarmCamera(master.step)

(* In calibration mode no frame is stored that the user did not ask for,   *)
(* and what was asked for is stored unless a frame was being stored then:  *)
(* at least one frame is, or will be, after the first request.  That is    *)
(* true of requests made after run has set the flag: the preview takes     *)
(* keys before (main_acquisition.cpp:182, 193), and what was asked for     *)
(* then is lost, without a frame.                                          *)
FramesOnRequest ==
  mode = "calibrate" =>
    /\ master.pc = "begin" => beat = 0
    /\ master.pc # "begin" =>
         /\ beat + (IF flag THEN 1 ELSE 0) <= presses - early
         /\ presses > early /\ beat = 0 => flag
=============================================================================
