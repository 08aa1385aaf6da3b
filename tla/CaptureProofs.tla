---------------------------- MODULE CaptureProofs ----------------------------
(***************************************************************************)
(* Capture's properties for every number of cameras, warm-ups, beats and   *)
(* requests.                                                               *)
(***************************************************************************)
EXTENDS Capture, FiniteSetTheorems, TLAPS

(* Which of the two managers runs: the other one's places are never taken. *)
OneManager ==
  /\ Threaded => master.pc \notin {"begin", "shoot", "store"}
  /\ ~Threaded => /\ master.pc \in {"begin", "test", "ended", "shoot", "store"}
                  /\ stopper.pc = "idle"
                  /\ \A i \in Cameras : thread[i] = "none"
  /\ master.pc \in {"set", "beat", "count", "shoot", "store"} => beat < MaxBeats

(* A request made since run has set the flag is behind every stored frame  *)
(* and every raised flag.                                                  *)
Requested ==
  mode = "calibrate" =>
    /\ master.pc = "begin" => beat = 0
    /\ master.pc # "begin" =>
         /\ beat + (IF flag THEN 1 ELSE 0) <= presses - early
         /\ presses > early /\ beat = 0 => flag
    /\ master.pc = "store" => flag

(* A thread that is awake has its flag up, and the manager knows which     *)
(* flags are, until the first frame is stored or the user stops.           *)
Warming ==
  Threaded /\ stopper.pc = "idle" /\ ~storeFrames =>
    /\ master.pc \in {"poll", "warm", "warming", "armed", "failed"}
    /\ \A i \in Cameras :
         /\ thread[i] \in {"born", "shoot", "clear"} => scheduled[i]
         /\ thread[i] # "store"
         /\ thread[i] = "born" => master.pc \in {"poll", "failed"}
         /\ scheduled[i] => master.pc \in {"poll", "failed"} \/
                            (master.pc = "warming" /\ i = WarmCamera(master.step))

(* The same while beats are stored; a camera of the beat has its file just *)
(* when it has stored it, whether or not its flag is down yet.             *)
Beating ==
  Threaded /\ stopper.pc = "idle" /\ storeFrames =>
    /\ master.pc \in {"test", "set", "beat", "count", "ended"}
    /\ \A i \in Cameras :
         /\ thread[i] # "born"
         /\ thread[i] \in {"shoot", "store", "clear"} => scheduled[i]
         /\ scheduled[i] => master.pc = "beat"
         /\ files[<<i, beat>>] = IF master.pc = "count" \/ (master.pc = "beat" /\ (~scheduled[i] \/ thread[i] = "clear"))
                             THEN 1 ELSE 0

(* Files are numbered by beats without a gap.                              *)
Numbered ==
  /\ stopper.pc = "idle" =>
       \A i \in Cameras :
         /\ \A b \in 0..beat - 1 : files[<<i, b>>] = 1
         /\ \A b \in beat + 1..MaxBeats + 1 : files[<<i, b>>] = 0
         /\ files[<<i, beat>>] \in {0, 1}
         /\ Threaded /\ ~storeFrames => files[<<i, beat>>] = 0
         /\ ~Threaded /\ master.pc # "store" => files[<<i, beat>>] = 0
  /\ stopper.pc # "idle" =>
       /\ stopper.beat <= beat
       /\ \A i \in Cameras : \A b \in 0..stopper.beat - 1 : files[<<i, b>>] = 1

(* A round shoots the cameras one after another, and all before it stores. *)
Rounds ==
  /\ ~stale
  /\ \E k \in 0..CameraCnt : shots = 1..k
  /\ master.pc = "store" => shots = Cameras

IInv == TypeOK /\ OneManager /\ Requested /\ Warming /\ Beating /\ Numbered /\ Rounds

(* The cameras shot in a round are the first ones.                         *)
LEMMA ShotsCounted ==
  ASSUME NEW k \in 0..CameraCnt, shots = 1..k
  PROVE  Cardinality(shots) = k
  <1>1. Cardinality(1..k) = IF 1 > k THEN 0 ELSE k - 1 + 1
    BY CaptureAssumption, FS_Interval
  <1>2. QED
    BY <1>1, CaptureAssumption

(* No step leaves the types: a beat is begun only while there is room.     *)
LEMMA NextTypeOK ==
  ASSUME TypeOK, OneManager, Rounds, [Next]_vars
  PROVE  TypeOK'
  <1> USE DEF TypeOK, OneManager, ManagerPlaces, ThreadPlaces, AllTrue, AllFalse, Save, shared, ui, Move, Goes
  <1>1. ASSUME NEW i \in Cameras, ThreadStarts(i) PROVE TypeOK'
    BY <1>1, CaptureAssumption DEF ThreadStarts
  <1>2. ASSUME NEW i \in Cameras, TestCapture(i) PROVE TypeOK'
    BY <1>2, CaptureAssumption DEF TestCapture
  <1>3. ASSUME NEW i \in Cameras, Wakes(i) PROVE TypeOK'
    BY <1>3, CaptureAssumption DEF Wakes
  <1>4. ASSUME NEW i \in Cameras, Shoots(i) PROVE TypeOK'
    BY <1>4, CaptureAssumption DEF Shoots
  <1>5. ASSUME NEW i \in Cameras, Stores(i) PROVE TypeOK'
    BY <1>5, CaptureAssumption DEF Stores
  <1>6. ASSUME NEW i \in Cameras, Clears(i) PROVE TypeOK'
    BY <1>6, CaptureAssumption DEF Clears
  <1>7. CASE Poll
    BY <1>7, CaptureAssumption DEF Poll
  <1>8. CASE WarmUp
    BY <1>8, CaptureAssumption DEF WarmUp
  <1>9. CASE AwaitWarm
    BY <1>9, CaptureAssumption DEF AwaitWarm
  <1>10. CASE StartStoring
    BY <1>10, CaptureAssumption DEF StartStoring
  <1>11. CASE TestBeat
    BY <1>11, CaptureAssumption DEF TestBeat
  <1>12. CASE SetBeat
    BY <1>12, CaptureAssumption DEF SetBeat
  <1>13. CASE AwaitBeat
    BY <1>13, CaptureAssumption DEF AwaitBeat
  <1>14. CASE CountBeat
    BY <1>14, CaptureAssumption DEF CountBeat
  <1>15. CASE Stop
    <2>1. stopper' \in [pc : {"idle", "flags", "store", "join", "done"}, beat : 0..MaxBeats]
      BY <1>15 DEF Stop
    <2>2. scheduled' \in [Cameras -> BOOLEAN] /\ storeFrames' \in BOOLEAN /\ doCapture' \in BOOLEAN
      BY <1>15 DEF Stop
    <2>3. QED
      BY <1>15, <2>1, <2>2 DEF Stop
  <1>16. CASE TestRound
    BY <1>16, CaptureAssumption DEF TestRound
  <1>17. CASE ShootCamera
    <2>1. PICK k \in 0..CameraCnt : shots = 1..k
      BY DEF Rounds
    <2>2. Cardinality(shots) = k
      BY <2>1, ShotsCounted
    <2>3. shots' \in SUBSET Cameras
      BY <1>17, <2>1, <2>2, CaptureAssumption DEF ShootCamera, Cameras
    <2>4. QED
      BY <1>17, <2>3 DEF ShootCamera
  <1>18. CASE TestStore
    BY <1>18, CaptureAssumption DEF TestStore
  <1>19. CASE StoreCamera
    <2>1. PICK i \in Cameras : Save(i) /\ stale' = (stale \/ i \notin shots)
      BY <1>19 DEF StoreCamera
    <2>2. stale' \in BOOLEAN
      BY <2>1
    <2>3. files' \in [Cameras \X (0..MaxBeats + 1) -> Nat]
      BY <2>1, CaptureAssumption
    <2>4. QED
      BY <1>19, <2>2, <2>3 DEF StoreCamera
  <1>20. CASE Stored
    <2>1. beat' \in 0..MaxBeats
      BY <1>20, CaptureAssumption DEF Stored
    <2>2. master' \in [pc : ManagerPlaces, step : Nat]
      BY <1>20 DEF Stored
    <2>3. flag' \in BOOLEAN
      BY <1>20 DEF Stored
    <2>4. QED
      BY <1>20, <2>1, <2>2, <2>3 DEF Stored
  <1>21. CASE storeOnce
    BY <1>21, CaptureAssumption DEF storeOnce
  <1>22. CASE Quit
    BY <1>22, CaptureAssumption DEF Quit
  <1>23. CASE UNCHANGED vars
    BY <1>23 DEF vars, shared, ui
  <1>24. CASE BeginRun
    BY <1>24 DEF BeginRun
  <1>25. QED
    BY <1>1, <1>2, <1>3, <1>4, <1>5, <1>6, <1>7, <1>8, <1>9, <1>10, <1>11, <1>12, <1>13, <1>14, <1>15, <1>16, <1>17, <1>18, <1>19, <1>20, <1>21, <1>22, <1>23, <1>24 DEF Next, RunThreads, Run, Thread

(* The two managers stay apart.                                            *)
LEMMA NextOneManager ==
  ASSUME TypeOK, OneManager, [Next]_vars
  PROVE  OneManager'
  <1> USE DEF TypeOK, OneManager, Threaded, shared, ui, Move, Goes
  <1>1. ASSUME NEW i \in Cameras, ThreadStarts(i) PROVE OneManager'
    BY <1>1 DEF ThreadStarts
  <1>2. ASSUME NEW i \in Cameras, TestCapture(i) PROVE OneManager'
    BY <1>2 DEF TestCapture
  <1>3. ASSUME NEW i \in Cameras, Wakes(i) PROVE OneManager'
    BY <1>3 DEF Wakes
  <1>4. ASSUME NEW i \in Cameras, Shoots(i) PROVE OneManager'
    BY <1>4 DEF Shoots
  <1>5. ASSUME NEW i \in Cameras, Stores(i) PROVE OneManager'
    BY <1>5 DEF Stores
  <1>6. ASSUME NEW i \in Cameras, Clears(i) PROVE OneManager'
    BY <1>6 DEF Clears
  <1>7. CASE Poll
    BY <1>7 DEF Poll
  <1>8. CASE WarmUp
    BY <1>8 DEF WarmUp
  <1>9. CASE AwaitWarm
    BY <1>9 DEF AwaitWarm
  <1>10. CASE StartStoring
    BY <1>10 DEF StartStoring
  <1>11. CASE TestBeat
    BY <1>11 DEF TestBeat
  <1>12. CASE SetBeat
    BY <1>12 DEF SetBeat
  <1>13. CASE AwaitBeat
    BY <1>13 DEF AwaitBeat
  <1>14. CASE CountBeat
    BY <1>14 DEF CountBeat
  <1>15. CASE Stop
    BY <1>15 DEF Stop
  <1>16. CASE TestRound
    BY <1>16 DEF TestRound
  <1>17. CASE ShootCamera
    BY <1>17 DEF ShootCamera
  <1>18. CASE TestStore
    BY <1>18 DEF TestStore
  <1>19. CASE StoreCamera
    BY <1>19 DEF StoreCamera
  <1>20. CASE Stored
    BY <1>20 DEF Stored
  <1>21. CASE storeOnce
    BY <1>21 DEF storeOnce
  <1>22. CASE Quit
    BY <1>22 DEF Quit
  <1>23. CASE UNCHANGED vars
    BY <1>23 DEF vars, shared, ui
  <1>24. CASE BeginRun
    BY <1>24 DEF BeginRun
  <1>25. QED
    BY <1>1, <1>2, <1>3, <1>4, <1>5, <1>6, <1>7, <1>8, <1>9, <1>10, <1>11, <1>12, <1>13, <1>14, <1>15, <1>16, <1>17, <1>18, <1>19, <1>20, <1>21, <1>22, <1>23, <1>24 DEF Next, RunThreads, Run, Thread

(* Only storeOnce raises the flag of a calibration, only a stored frame    *)
(* takes it down.                                                          *)
LEMMA NextRequested ==
  ASSUME TypeOK, OneManager, Requested, [Next]_vars
  PROVE  Requested'
  <1> USE DEF TypeOK, OneManager, Requested, Threaded, shared, ui, Move, Goes
  <1>1. ASSUME NEW i \in Cameras, ThreadStarts(i) PROVE Requested'
    BY <1>1 DEF ThreadStarts
  <1>2. ASSUME NEW i \in Cameras, TestCapture(i) PROVE Requested'
    BY <1>2 DEF TestCapture
  <1>3. ASSUME NEW i \in Cameras, Wakes(i) PROVE Requested'
    BY <1>3 DEF Wakes
  <1>4. ASSUME NEW i \in Cameras, Shoots(i) PROVE Requested'
    BY <1>4 DEF Shoots
  <1>5. ASSUME NEW i \in Cameras, Stores(i) PROVE Requested'
    BY <1>5 DEF Stores
  <1>6. ASSUME NEW i \in Cameras, Clears(i) PROVE Requested'
    BY <1>6 DEF Clears
  <1>7. CASE Poll
    BY <1>7 DEF Poll
  <1>8. CASE WarmUp
    BY <1>8 DEF WarmUp
  <1>9. CASE AwaitWarm
    BY <1>9 DEF AwaitWarm
  <1>10. CASE StartStoring
    BY <1>10 DEF StartStoring
  <1>11. CASE TestBeat
    BY <1>11 DEF TestBeat
  <1>12. CASE SetBeat
    BY <1>12 DEF SetBeat
  <1>13. CASE AwaitBeat
    BY <1>13 DEF AwaitBeat
  <1>14. CASE CountBeat
    BY <1>14 DEF CountBeat
  <1>15. CASE Stop
    BY <1>15 DEF Stop
  <1>16. CASE TestRound
    BY <1>16 DEF TestRound
  <1>17. CASE ShootCamera
    BY <1>17 DEF ShootCamera
  <1>18. CASE TestStore
    BY <1>18 DEF TestStore
  <1>19. CASE StoreCamera
    BY <1>19 DEF StoreCamera
  <1>20. CASE Stored
    <2>1. mode' = mode /\ presses' = presses /\ beat' = beat + 1 /\ beat \in Nat /\ master'.pc = "test"
      BY <1>20 DEF Stored
    <2>2. mode = "calibrate" => flag' = FALSE
      BY <1>20 DEF Stored
    <2>3. QED
      BY <1>20, <2>1, <2>2 DEF Stored
  <1>21. CASE storeOnce
    BY <1>21 DEF storeOnce
  <1>22. CASE Quit
    BY <1>22 DEF Quit
  <1>23. CASE UNCHANGED vars
    BY <1>23 DEF vars, shared, ui
  <1>24. CASE BeginRun
    <2>1. mode' = mode /\ presses' = presses /\ beat' = beat /\ early' = presses
      BY <1>24 DEF BeginRun
    <2>2. master.pc = "begin" /\ master'.pc = "test"
      BY <1>24 DEF BeginRun
    <2>3. mode = "calibrate" => flag' = FALSE
      BY <1>24, Zenon DEF BeginRun
    <2>4. mode = "calibrate" => beat = 0
      BY <2>2
    <2>5. presses \in Nat /\ presses - presses = 0 /\ ~(presses > presses)
      BY CaptureAssumption
    <2>6. QED
      BY <2>1, <2>2, <2>3, <2>4, <2>5
  <1>25. QED
    BY <1>1, <1>2, <1>3, <1>4, <1>5, <1>6, <1>7, <1>8, <1>9, <1>10, <1>11, <1>12, <1>13, <1>14, <1>15, <1>16, <1>17, <1>18, <1>19, <1>20, <1>21, <1>22, <1>23, <1>24 DEF Next, RunThreads, Run, Thread

(* Once stop has begun it never seems not to have.                         *)
LEMMA StopLeavesIdle ==
  ASSUME TypeOK, Stop
  PROVE  /\ stopper'.pc # "idle"
         /\ stopper'.beat = IF stopper.pc = "idle" THEN beat ELSE stopper.beat
         /\ UNCHANGED <<mode, master, thread, beat, files>>
  BY DEF TypeOK, Stop

(* A manager that warms up meets no thread awake but the one it has woken. *)
LEMMA NextWarming ==
  ASSUME TypeOK, OneManager, Warming, [Next]_vars
  PROVE  Warming'
  <1> USE DEF TypeOK, OneManager, Warming, Threaded, AllTrue, AllFalse, ManagerPlaces, ThreadPlaces, shared, ui, Move, Goes
  <1>1. ASSUME NEW i \in Cameras, ThreadStarts(i) PROVE Warming'
    BY <1>1 DEF ThreadStarts
  <1>2. ASSUME NEW i \in Cameras, TestCapture(i) PROVE Warming'
    BY <1>2 DEF TestCapture
  <1>3. ASSUME NEW i \in Cameras, Wakes(i) PROVE Warming'
    BY <1>3 DEF Wakes
  <1>4. ASSUME NEW i \in Cameras, Shoots(i) PROVE Warming'
    BY <1>4 DEF Shoots
  <1>5. ASSUME NEW i \in Cameras, Stores(i) PROVE Warming'
    BY <1>5 DEF Stores
  <1>6. ASSUME NEW i \in Cameras, Clears(i) PROVE Warming'
    BY <1>6 DEF Clears
  <1>7. CASE Poll
    BY <1>7 DEF Poll
  <1>8. CASE WarmUp
    BY <1>8 DEF WarmUp
  <1>9. CASE AwaitWarm
    BY <1>9 DEF AwaitWarm
  <1>10. CASE StartStoring
    BY <1>10 DEF StartStoring
  <1>11. CASE TestBeat
    BY <1>11 DEF TestBeat
  <1>12. CASE SetBeat
    BY <1>12 DEF SetBeat
  <1>13. CASE AwaitBeat
    BY <1>13 DEF AwaitBeat
  <1>14. CASE CountBeat
    BY <1>14 DEF CountBeat
  <1>15. CASE Stop
    BY <1>15 DEF Stop
  <1>16. CASE TestRound
    BY <1>16 DEF TestRound
  <1>17. CASE ShootCamera
    BY <1>17 DEF ShootCamera
  <1>18. CASE TestStore
    BY <1>18 DEF TestStore
  <1>19. CASE StoreCamera
    BY <1>19 DEF StoreCamera
  <1>20. CASE Stored
    BY <1>20 DEF Stored
  <1>21. CASE storeOnce
    BY <1>21 DEF storeOnce
  <1>22. CASE Quit
    BY <1>22 DEF Quit
  <1>23. CASE UNCHANGED vars
    BY <1>23 DEF vars, shared, ui
  <1>24. CASE BeginRun
    BY <1>24 DEF BeginRun
  <1>25. QED
    BY <1>1, <1>2, <1>3, <1>4, <1>5, <1>6, <1>7, <1>8, <1>9, <1>10, <1>11, <1>12, <1>13, <1>14, <1>15, <1>16, <1>17, <1>18, <1>19, <1>20, <1>21, <1>22, <1>23, <1>24 DEF Next, RunThreads, Run, Thread

(* A camera stores its file of a beat once, and the manager counts a beat  *)
(* when all flags are down.                                                *)
LEMMA NextBeating ==
  ASSUME TypeOK, OneManager, Warming, Beating, Numbered, [Next]_vars
  PROVE  Beating'
  <1> USE DEF TypeOK, OneManager, Warming, Beating, Numbered, Threaded, AllTrue, AllFalse, ManagerPlaces, ThreadPlaces, Save, shared, ui, Move, Goes
  <1>1. ASSUME NEW i \in Cameras, ThreadStarts(i) PROVE Beating'
    BY <1>1 DEF ThreadStarts
  <1>2. ASSUME NEW i \in Cameras, TestCapture(i) PROVE Beating'
    BY <1>2 DEF TestCapture
  <1>3. ASSUME NEW i \in Cameras, Wakes(i) PROVE Beating'
    BY <1>3 DEF Wakes
  <1>4. ASSUME NEW i \in Cameras, Shoots(i) PROVE Beating'
    BY <1>4 DEF Shoots
  <1>5. ASSUME NEW i \in Cameras, Stores(i) PROVE Beating'
    <2>1. beat \in 0..MaxBeats /\ MaxBeats \in Nat /\ 0..MaxBeats \subseteq 0..MaxBeats + 1
      BY CaptureAssumption
    <2>2. files' = [files EXCEPT ![<<i, beat>>] = files[<<i, beat>>] + 1]
      BY <1>5 DEF Stores
    <2>3. <<i, beat>> \in Cameras \X (0..MaxBeats + 1)
      BY <2>1
    <2>4. ASSUME NEW c \in Cameras
          PROVE  files'[<<c, beat>>] = IF c = i THEN files[<<c, beat>>] + 1 ELSE files[<<c, beat>>]
      BY <2>2, <2>3
    <2>5. QED
      BY <1>5, <2>4 DEF Stores
  <1>6. ASSUME NEW i \in Cameras, Clears(i) PROVE Beating'
    BY <1>6 DEF Clears
  <1>7. CASE Poll
    BY <1>7 DEF Poll
  <1>8. CASE WarmUp
    BY <1>8 DEF WarmUp
  <1>9. CASE AwaitWarm
    BY <1>9 DEF AwaitWarm
  <1>10. CASE StartStoring
    BY <1>10 DEF StartStoring
  <1>11. CASE TestBeat
    BY <1>11 DEF TestBeat
  <1>12. CASE SetBeat
    BY <1>12 DEF SetBeat
  <1>13. CASE AwaitBeat
    BY <1>13 DEF AwaitBeat
  <1>14. CASE CountBeat
    <2>1. beat' = beat + 1 /\ master'.pc = "test" /\ beat \in 0..MaxBeats - 1 /\ MaxBeats \in Nat
      BY <1>14, CaptureAssumption DEF CountBeat
    <2>2. UNCHANGED <<mode, thread, stopper, scheduled, storeFrames, files>> /\ Threaded
      BY <1>14 DEF CountBeat
    <2>3. ASSUME stopper.pc = "idle", NEW i \in Cameras PROVE files[<<i, beat + 1>>] = 0
      <3>1. beat + 1 \in beat + 1..MaxBeats + 1
        BY <2>1
      <3>2. QED
        BY <2>3, <3>1
    <2>4. storeFrames /\ stopper.pc = "idle" => \A i \in Cameras : ~scheduled[i]
      BY <1>14 DEF CountBeat
    <2>5. QED
      BY <2>1, <2>2, <2>3, <2>4
  <1>15. CASE Stop
    BY <1>15, StopLeavesIdle
  <1>16. CASE TestRound
    BY <1>16 DEF TestRound
  <1>17. CASE ShootCamera
    BY <1>17 DEF ShootCamera
  <1>18. CASE TestStore
    BY <1>18 DEF TestStore
  <1>19. CASE StoreCamera
    BY <1>19 DEF StoreCamera
  <1>20. CASE Stored
    BY <1>20 DEF Stored
  <1>21. CASE storeOnce
    BY <1>21 DEF storeOnce
  <1>22. CASE Quit
    BY <1>22 DEF Quit
  <1>23. CASE UNCHANGED vars
    BY <1>23 DEF vars, shared, ui
  <1>24. CASE BeginRun
    BY <1>24 DEF BeginRun
  <1>25. QED
    BY <1>1, <1>2, <1>3, <1>4, <1>5, <1>6, <1>7, <1>8, <1>9, <1>10, <1>11, <1>12, <1>13, <1>14, <1>15, <1>16, <1>17, <1>18, <1>19, <1>20, <1>21, <1>22, <1>23, <1>24 DEF Next, RunThreads, Run, Thread

(* Files get the number of the beat under way, which is counted when it is *)
(* complete.                                                               *)
LEMMA NextNumbered ==
  ASSUME TypeOK, OneManager, Warming, Beating, Numbered, [Next]_vars
  PROVE  Numbered'
  <1> USE DEF TypeOK, OneManager, Warming, Beating, Numbered, Threaded, AllTrue, AllFalse, Save, shared, ui, Move, Goes
  <1>1. ASSUME NEW i \in Cameras, ThreadStarts(i) PROVE Numbered'
    BY <1>1 DEF ThreadStarts
  <1>2. ASSUME NEW i \in Cameras, TestCapture(i) PROVE Numbered'
    BY <1>2 DEF TestCapture
  <1>3. ASSUME NEW i \in Cameras, Wakes(i) PROVE Numbered'
    BY <1>3 DEF Wakes
  <1>4. ASSUME NEW i \in Cameras, Shoots(i) PROVE Numbered'
    BY <1>4 DEF Shoots
  <1>5. ASSUME NEW i \in Cameras, Stores(i) PROVE Numbered'
    BY <1>5 DEF Stores
  <1>6. ASSUME NEW i \in Cameras, Clears(i) PROVE Numbered'
    BY <1>6 DEF Clears
  <1>7. CASE Poll
    BY <1>7 DEF Poll
  <1>8. CASE WarmUp
    BY <1>8 DEF WarmUp
  <1>9. CASE AwaitWarm
    BY <1>9 DEF AwaitWarm
  <1>10. CASE StartStoring
    BY <1>10 DEF StartStoring
  <1>11. CASE TestBeat
    BY <1>11 DEF TestBeat
  <1>12. CASE SetBeat
    BY <1>12 DEF SetBeat
  <1>13. CASE AwaitBeat
    BY <1>13 DEF AwaitBeat
  <1>14. CASE CountBeat
    <2>1. beat' = beat + 1 /\ master'.pc = "test" /\ beat \in 0..MaxBeats - 1 /\ MaxBeats \in Nat
      BY <1>14, CaptureAssumption DEF CountBeat
    <2>2. UNCHANGED <<mode, thread, stopper, scheduled, storeFrames, files>> /\ Threaded
      BY <1>14 DEF CountBeat
    <2>3. stopper.pc = "idle" =>
            \A i \in Cameras : files[<<i, beat>>] = IF storeFrames THEN 1 ELSE 0
      BY <1>14, CaptureAssumption DEF CountBeat
    <2>4. stopper.pc = "idle" => storeFrames
      BY <1>14 DEF CountBeat
    <2>5. ASSUME stopper.pc = "idle", NEW i \in Cameras
          PROVE  /\ \A b \in 0..beat : files[<<i, b>>] = 1
                 /\ \A b \in beat + 2..MaxBeats + 1 : files[<<i, b>>] = 0
                 /\ files[<<i, beat + 1>>] = 0
      <3>1. beat \in Nat /\ beat + 1 \in beat + 1..MaxBeats + 1
        BY <2>1
      <3>2. \A b \in beat + 2..MaxBeats + 1 : b \in beat + 1..MaxBeats + 1
        BY <2>1
      <3>3. \A b \in 0..beat : b = beat \/ b \in 0..beat - 1
        BY <2>1
      <3>4. QED
        BY <2>3, <2>4, <2>5, <3>1, <3>2, <3>3
    <2>6. QED
      BY <2>1, <2>2, <2>4, <2>5
  <1>15. CASE Stop
    <2>1. beat \in Nat /\ stopper.beat \in Nat /\ MaxBeats \in Nat /\ beat <= MaxBeats
      BY CaptureAssumption
    <2>2. stopper'.beat = IF stopper.pc = "idle" THEN beat ELSE stopper.beat
      BY <1>15, StopLeavesIdle
    <2>3. ASSUME NEW i \in Cameras, NEW b \in 0..stopper'.beat - 1 PROVE files[<<i, b>>] = 1
      <3>1. CASE stopper.pc = "idle"
        BY <2>2, <3>1
      <3>2. CASE stopper.pc # "idle"
        BY <2>2, <3>2
      <3>3. QED
        BY <3>1, <3>2
    <2>4. QED
      BY <1>15, <2>1, <2>2, <2>3, StopLeavesIdle
  <1>16. CASE TestRound
    BY <1>16 DEF TestRound
  <1>17. CASE ShootCamera
    BY <1>17 DEF ShootCamera
  <1>18. CASE TestStore
    BY <1>18 DEF TestStore
  <1>19. CASE StoreCamera
    BY <1>19 DEF StoreCamera
  <1>20. CASE Stored
    <2>1. beat' = beat + 1 /\ master'.pc = "test" /\ beat \in 0..MaxBeats - 1 /\ MaxBeats \in Nat
      BY <1>20, CaptureAssumption DEF Stored
    <2>2. UNCHANGED <<mode, thread, stopper, scheduled, storeFrames, files>> /\ ~Threaded /\ stopper.pc = "idle"
      BY <1>20 DEF Stored
    <2>3. \A i \in Cameras : files[<<i, beat>>] = 1
      BY <1>20 DEF Stored
    <2>4. ASSUME NEW i \in Cameras
          PROVE  /\ \A b \in 0..beat : files[<<i, b>>] = 1
                 /\ \A b \in beat + 2..MaxBeats + 1 : files[<<i, b>>] = 0
                 /\ files[<<i, beat + 1>>] = 0
      <3>1. beat \in Nat /\ beat + 1 \in beat + 1..MaxBeats + 1
        BY <2>1
      <3>2. \A b \in beat + 2..MaxBeats + 1 : b \in beat + 1..MaxBeats + 1
        BY <2>1
      <3>3. \A b \in 0..beat : b = beat \/ b \in 0..beat - 1
        BY <2>1
      <3>4. QED
        BY <2>2, <2>3, <3>1, <3>2, <3>3
    <2>5. QED
      BY <2>1, <2>2, <2>4
  <1>21. CASE storeOnce
    BY <1>21 DEF storeOnce
  <1>22. CASE Quit
    BY <1>22 DEF Quit
  <1>23. CASE UNCHANGED vars
    BY <1>23 DEF vars, shared, ui
  <1>24. CASE BeginRun
    BY <1>24 DEF BeginRun
  <1>25. QED
    BY <1>1, <1>2, <1>3, <1>4, <1>5, <1>6, <1>7, <1>8, <1>9, <1>10, <1>11, <1>12, <1>13, <1>14, <1>15, <1>16, <1>17, <1>18, <1>19, <1>20, <1>21, <1>22, <1>23, <1>24 DEF Next, RunThreads, Run, Thread

(* A round stores only when all its cameras are shot.                      *)
LEMMA NextRounds ==
  ASSUME TypeOK, OneManager, Rounds, [Next]_vars
  PROVE  Rounds'
  <1> USE DEF TypeOK, OneManager, Rounds, Threaded, shared, ui, Move, Goes
  <1>1. ASSUME NEW i \in Cameras, ThreadStarts(i) PROVE Rounds'
    BY <1>1 DEF ThreadStarts
  <1>2. ASSUME NEW i \in Cameras, TestCapture(i) PROVE Rounds'
    BY <1>2 DEF TestCapture
  <1>3. ASSUME NEW i \in Cameras, Wakes(i) PROVE Rounds'
    BY <1>3 DEF Wakes
  <1>4. ASSUME NEW i \in Cameras, Shoots(i) PROVE Rounds'
    BY <1>4 DEF Shoots
  <1>5. ASSUME NEW i \in Cameras, Stores(i) PROVE Rounds'
    BY <1>5 DEF Stores
  <1>6. ASSUME NEW i \in Cameras, Clears(i) PROVE Rounds'
    BY <1>6 DEF Clears
  <1>7. CASE Poll
    BY <1>7 DEF Poll
  <1>8. CASE WarmUp
    BY <1>8 DEF WarmUp
  <1>9. CASE AwaitWarm
    BY <1>9 DEF AwaitWarm
  <1>10. CASE StartStoring
    BY <1>10 DEF StartStoring
  <1>11. CASE TestBeat
    BY <1>11 DEF TestBeat
  <1>12. CASE SetBeat
    BY <1>12 DEF SetBeat
  <1>13. CASE AwaitBeat
    BY <1>13 DEF AwaitBeat
  <1>14. CASE CountBeat
    BY <1>14 DEF CountBeat
  <1>15. CASE Stop
    BY <1>15 DEF Stop
  <1>16. CASE TestRound
    <2>1. shots' = 1..0 /\ 0 \in 0..CameraCnt
      BY <1>16, CaptureAssumption DEF TestRound
    <2>2. master'.pc # "store"
      BY <1>16 DEF TestRound
    <2>3. QED
      BY <1>16, <2>1, <2>2 DEF TestRound
  <1>17. CASE ShootCamera
    <2>1. PICK k \in 0..CameraCnt : shots = 1..k
      OBVIOUS
    <2>2. Cardinality(shots) = k
      BY <2>1, ShotsCounted
    <2>3. k < CameraCnt /\ shots' = (1..k) \cup {k + 1} /\ k + 1 \in 0..CameraCnt
      BY <1>17, <2>1, <2>2, CaptureAssumption DEF ShootCamera
    <2>4. shots' = 1..k + 1
      BY <2>3, CaptureAssumption
    <2>5. QED
      BY <1>17, <2>3, <2>4 DEF ShootCamera
  <1>18. CASE TestStore
    <2>1. PICK k \in 0..CameraCnt : shots = 1..k
      OBVIOUS
    <2>2. shots = Cameras
      BY <1>18, <2>1, ShotsCounted DEF TestStore, Cameras
    <2>3. QED
      BY <1>18, <2>2 DEF TestStore
  <1>19. CASE StoreCamera
    <2>1. stale' = FALSE /\ UNCHANGED <<master, shots>>
      BY <1>19 DEF StoreCamera
    <2>2. QED
      BY <2>1
  <1>20. CASE Stored
    BY <1>20 DEF Stored
  <1>21. CASE storeOnce
    BY <1>21 DEF storeOnce
  <1>22. CASE Quit
    BY <1>22 DEF Quit
  <1>23. CASE UNCHANGED vars
    BY <1>23 DEF vars, shared, ui
  <1>24. CASE BeginRun
    BY <1>24 DEF BeginRun
  <1>25. QED
    BY <1>1, <1>2, <1>3, <1>4, <1>5, <1>6, <1>7, <1>8, <1>9, <1>10, <1>11, <1>12, <1>13, <1>14, <1>15, <1>16, <1>17, <1>18, <1>19, <1>20, <1>21, <1>22, <1>23, <1>24 DEF Next, RunThreads, Run, Thread

(* The start of either manager.                                            *)
LEMMA InitIInv == Init => IInv
  <1> SUFFICES ASSUME Init PROVE IInv
    OBVIOUS
  <1> USE CaptureAssumption DEF Init, AllTrue, Threaded, Modes
  <1>1. TypeOK
    <2>1. beat \in 0..MaxBeats /\ presses \in 0..MaxPresses /\ early \in 0..presses
      OBVIOUS
    <2>2. master \in [pc : ManagerPlaces, step : Nat]
      BY DEF ManagerPlaces
    <2>3. thread \in [Cameras -> ThreadPlaces] /\ scheduled \in [Cameras -> BOOLEAN]
      BY DEF ThreadPlaces
    <2>4. files \in [Cameras \X (0..MaxBeats + 1) -> Nat]
      OBVIOUS
    <2>5. stopper \in [pc : {"idle", "flags", "store", "join", "done"}, beat : 0..MaxBeats]
      OBVIOUS
    <2>6. QED
      BY <2>1, <2>2, <2>3, <2>4, <2>5 DEF TypeOK
  <1>2. OneManager
    BY DEF OneManager
  <1>3. Requested
    <2>1. mode = "calibrate" => master.pc = "begin"
      OBVIOUS
    <2>2. beat = 0
      OBVIOUS
    <2>3. QED
      BY <2>1, <2>2 DEF Requested
  <1>4. Warming
    BY DEF Warming
  <1>5. Beating
    BY DEF Beating
  <1>6. Numbered
    BY DEF Numbered
  <1>7. Rounds
    <2>1. shots = 1..0 /\ 0 \in 0..CameraCnt
      OBVIOUS
    <2>2. QED
      BY <2>1 DEF Rounds
  <1>8. QED
    BY <1>1, <1>2, <1>3, <1>4, <1>5, <1>6, <1>7 DEF IInv

(* The invariant is inductive.                                             *)
LEMMA NextIInv == IInv /\ [Next]_vars => IInv'
  BY NextTypeOK, NextOneManager, NextRequested, NextWarming, NextBeating, NextNumbered, NextRounds
  DEF IInv

(* Every reachable state has it.                                           *)
LEMMA InvariantHolds == Spec => []IInv
  BY InitIInv, NextIInv, PTL DEF Spec

(* Manager, camera threads, stop and user keep to their places and counts  *)
(* (captureManager.cpp, captureThread.cpp).                                *)
THEOREM TypeCorrect == Spec => []TypeOK
  <1>1. IInv => TypeOK
    BY DEF IInv
  <1>2. QED
    BY <1>1, InvariantHolds, PTL

(* A beat that runThreads or run has counted has one file of every camera, *)
(* however threads, manager and stop interleave (captureManager.cpp).      *)
THEOREM BeatsAreComplete == Spec => []BeatsComplete
  <1>1. IInv => BeatsComplete
    <2> SUFFICES ASSUME IInv PROVE BeatsComplete
      OBVIOUS
    <2> USE DEF IInv, TypeOK, Numbered, Rounds
    <2>1. beat \in Nat /\ stopper.beat \in Nat /\ MaxBeats \in Nat /\ beat <= MaxBeats
      BY CaptureAssumption
    <2>2. ASSUME NEW b \in 0..(IF stopper.pc = "idle" THEN beat ELSE stopper.beat) - 1, NEW i \in Cameras
          PROVE  files[<<i, b>>] = 1
      <3>1. CASE stopper.pc = "idle"
        BY <3>1
      <3>2. CASE stopper.pc # "idle"
        BY <3>2
      <3>3. QED
        BY <3>1, <3>2
    <2>3. ASSUME stopper.pc = "idle", NEW i \in Cameras, NEW b \in beat..MaxBeats + 1
          PROVE  files[<<i, b>>] <= IF b = beat THEN 1 ELSE 0
      <3>1. b = beat \/ b \in beat + 1..MaxBeats + 1
        BY <2>1
      <3>2. files[<<i, beat>>] <= 1
        BY <2>3
      <3>3. b # beat => files[<<i, b>>] = 0 /\ beat # b
        BY <2>3, <3>1
      <3>4. CASE b = beat
        BY <3>2, <3>4
      <3>5. CASE b # beat
        BY <3>3, <3>5
      <3>6. QED
        BY <3>4, <3>5
    <2>4. QED
      BY <2>2, <2>3 DEF BeatsComplete, Complete
  <1>2. QED
    BY <1>1, InvariantHolds, PTL

(* While warming up no two cameras shoot at a time: the flag that wakes a  *)
(* thread is cleared by it only at its end (captureThread.cpp).            *)
THEOREM CamerasWarmSingly == Spec => []OneCameraWarms
  <1>1. IInv => OneCameraWarms
    BY DEF IInv, TypeOK, Warming, OneCameraWarms, ThreadPlaces
  <1>2. QED
    BY <1>1, InvariantHolds, PTL

(* A calibration stores what was asked for and nothing else, but for       *)
(* requests made while a frame is stored (captureManager.cpp, storeOnce).  *)
THEOREM RequestsAreServed == Spec => []FramesOnRequest
  <1>1. IInv => FramesOnRequest
    BY DEF IInv, Requested, FramesOnRequest
  <1>2. QED
    BY <1>1, InvariantHolds, PTL
=============================================================================
