-------------------------- MODULE ObjectStoreProofs --------------------------
(***************************************************************************)
(* ObjectStore's safety properties for every number of modules, chunks and *)
(* sources, every length of an object and every size of the segment.       *)
(***************************************************************************)
EXTENDS ObjectStore, FiniteSetTheorems, FunctionTheorems, TLAPS

Naming == {"create", "name"}

StoreTypes ==
  /\ free \in Seq(Chunks) /\ flow \in Seq(Chunks)
  /\ visited \in [Chunks -> SUBSET Nat] /\ name \in [Chunks -> Nat]
  /\ store \subseteq Nat /\ created \in Nat /\ current \in Nat
  /\ fpc \in {"connect", "idle"} \cup Naming
  /\ stops \in Nat /\ cexit \in {"no", "ended", "leaving"}

(* A chunk is once in the free list or once under way, a free one without  *)
(* a frame; the first step is the first to work on it.                     *)
Distinct(q) == \A k, l \in DOMAIN q : q[k] = q[l] => k = l
Placed ==
  /\ Distinct(free) /\ Distinct(flow)
  /\ \A k \in DOMAIN free : visited[free[k]] = {} /\ \A l \in DOMAIN flow : free[k] # flow[l]
  /\ \A c \in Chunks : visited[c] # {} => First \in visited[c]

(* After its STOP the first module gets no chunk any more.                 *)
Halted ==
  /\ stops > 0 => \A k \in DOMAIN flow : First \in visited[flow[k]]
  /\ cexit = "leaving" => stops > 0
  /\ fpc = "connect" => \A c \in Chunks : First \notin visited[c]

(* How far the numbering of objects is ahead of the names in chunks.       *)
Numbered ==
  stream =>
    /\ store \subseteq 1..created
    /\ \A c \in Chunks : name[c] <= current
    /\ fpc = "connect" => created = 0 /\ current = 0
    /\ fpc \in {"idle", "create"} => created = current /\ current >= 1
    /\ fpc = "name" => created = current + 1 /\ current >= 1

(* The chunk of the job first_action is at, and its name.                  *)
AtFirst(k) ==
  /\ First \notin visited[flow[k]]
  /\ \A older \in 1..k - 1 : First \in visited[flow[older]]
JobNamed ==
  stream /\ fpc \in Naming => \E k \in DOMAIN flow : AtFirst(k) /\ name[flow[k]] = current

(* Until the collector has ended: the object at hand exists, each chunk    *)
(* under way has an object of its own, and no other chunk has one.         *)
Collecting == stream /\ cexit # "ended"
AtHand  == Collecting /\ First \notin dead /\ fpc # "connect" => {current, created} \subseteq store
Carried ==
  Collecting =>
    /\ \A c \in UnderWay : name[c] \in store /\ name[c] < current
    /\ \A c, d \in UnderWay : name[c] = name[d] => c = d
    /\ \A c \in Chunks : name[c] \in store =>
         c \in UnderWay \/ (fpc \in Naming /\ \E k \in DOMAIN flow : AtFirst(k) /\ flow[k] = c)

IInv ==
  /\ StoreTypes /\ Placed /\ Halted /\ Numbered
  /\ JobNamed /\ AtHand /\ Carried /\ NoObjectLeft

-----------------------------------------------------------------------------
(* A step works on the k-th chunk under way.                               *)
Visit(k, s) ==
  /\ k \in DOMAIN flow /\ s \in 0..Last
  /\ visited[flow[k]] = 0..s - 1
  /\ \A older \in 1..k - 1 : s \in visited[flow[older]]
  /\ visited' = [visited EXCEPT ![flow[k]] = 0..s]
  /\ UNCHANGED <<free, flow>>

(* A step that touches neither chunks nor names nor the set of objects.    *)
Quiet ==
  /\ UNCHANGED <<free, flow, visited, name, store, stream, fpc, created, current>>
  /\ First \in dead => First \in dead'
  /\ \/ UNCHANGED <<cexit, stops>>
     \/ cexit' = "ended" /\ UNCHANGED stops
     \/ /\ stops' = stops + 1 /\ \A k \in DOMAIN flow : stops \in visited[flow[k]]
        /\ cexit' = cexit \/ (cexit = "no" /\ cexit' = "leaving")

(* A job of a step is a visit of its chunk.                                *)
LEMMA JobVisits ==
  ASSUME StoreTypes, NEW k \in DOMAIN flow, NEW s \in 0..Last, Job(k, s)
  PROVE  Visit(k, s)
  BY DEF Job, Flow!Process, Visit

(* The collector, the frames it adds, a death or a STOP are quiet.         *)
LEMMA QuietSteps ==
  ASSUME \/ OpenObject \/ CloseObject \/ CollectorEnds \/ StopStep \/ LastUnlinks
         \/ \E s \in Sources : AddFrame(s)
         \/ \E k \in DOMAIN flow, s \in Middles : MiddleDies(k, s)
  PROVE  Quiet
  <1>1. CASE OpenObject \/ CloseObject \/ CollectorEnds \/ LastUnlinks
    BY <1>1 DEF OpenObject, CloseObject, CollectorEnds, LastUnlinks, chunks, segment, naming,
       gather, Quiet
  <1>2. CASE StopStep
    BY <1>2 DEF StopStep, chunks, segment, naming, Quiet
  <1>3. ASSUME NEW s \in Sources, AddFrame(s)
        PROVE  Quiet
    BY <1>3 DEF AddFrame, PutFrame, Terminates, chunks, naming, Quiet
  <1>4. ASSUME NEW k \in DOMAIN flow, NEW s \in Middles, MiddleDies(k, s)
        PROVE  Quiet
    BY <1>4 DEF MiddleDies, Terminates, chunks, segment, naming, Quiet
  <1>5. QED
    BY <1>1, <1>2, <1>3, <1>4

(* There is a first and a last step.                                       *)
LEMMA StagesAssumed == LastStage \in Nat /\ Last \in Nat /\ Last >= 1 /\ First = 0 /\ DataCnt \in Nat
  BY StageAssumption, CountAssumption DEF Last, First

(* The sets the invariant speaks of, chunk by chunk.                       *)
LEMMA UnderWayChunk ==
  ASSUME NEW c
  PROVE  c \in UnderWay <=> /\ \E k \in DOMAIN flow : flow[k] = c
                            /\ First \in visited[c] /\ Last \notin visited[c]
  BY DEF UnderWay

(* The segment starts without objects, the chunks without names.           *)
LEMMA InitIInv == Init => IInv
  <1> SUFFICES ASSUME Init PROVE IInv
    OBVIOUS
  <1> USE StagesAssumed DEF Init, Flow!Init, Chunks
  <1>1. free \in Seq(Chunks) /\ Len(free) = DataCnt /\ flow = <<>>
    OBVIOUS
  <1>2. StoreTypes
    BY <1>1 DEF StoreTypes, Naming
  <1>3. Placed /\ Halted
    BY <1>1 DEF Placed, Distinct, Halted
  <1>4. Numbered /\ JobNamed /\ AtHand /\ NoObjectLeft
    BY DEF Numbered, JobNamed, AtHand, NoObjectLeft, Collecting, Naming
  <1>5. Carried
    BY <1>1 DEF Carried, UnderWay
  <1>6. QED
    BY <1>2, <1>3, <1>4, <1>5 DEF IInv

(* A quiet step keeps the invariant.                                       *)
LEMMA QuietKeeps ==
  ASSUME IInv, Quiet
  PROVE  IInv'
  <1> USE DEF IInv, Quiet
  <1>1. StoreTypes'
    BY DEF StoreTypes
  <1>2. Placed'
    BY DEF Placed, Distinct
  <1>3. Halted'
    BY StagesAssumed DEF Halted, StoreTypes
  <1>4. Numbered' /\ JobNamed'
    BY DEF Numbered, JobNamed, AtFirst, First
  <1>5. AtHand' /\ (Collecting' => Collecting)
    BY DEF AtHand, Collecting
  <1>6. UnderWay' = UnderWay /\ \A k : AtFirst(k)' <=> AtFirst(k)
    BY DEF UnderWay, AtFirst, First, Last
  <1>7. Carried'
    BY <1>5, <1>6 DEF Carried
  <1>8. NoObjectLeft'
    BY DEF NoObjectLeft, Last
  <1>9. QED
    BY <1>1, <1>2, <1>3, <1>4, <1>5, <1>7, <1>8

(* A visit moves no chunk.                                                 *)
LEMMA VisitEffect ==
  ASSUME StoreTypes, Placed, NEW k, NEW s, Visit(k, s)
  PROVE  /\ flow[k] \in Chunks /\ visited' \in [Chunks -> SUBSET Nat]
         /\ \A c \in Chunks : visited'[c] = IF c = flow[k] THEN 0..s ELSE visited[c]
         /\ Placed'
  <1>1. flow[k] \in Chunks
    BY DEF StoreTypes, Visit
  <1>2. 0..s \in SUBSET Nat
    BY StagesAssumed DEF Visit
  <1>3. /\ visited' \in [Chunks -> SUBSET Nat]
        /\ \A c \in Chunks : visited'[c] = IF c = flow[k] THEN 0..s ELSE visited[c]
    BY <1>1, <1>2 DEF StoreTypes, Visit
  <1>4. \A j \in DOMAIN free : free[j] \in Chunks /\ free[j] # flow[k]
    BY DEF StoreTypes, Placed, Visit
  <1>5. Placed'
    BY <1>3, <1>4, StagesAssumed DEF Placed, Distinct, Visit
  <1>6. QED
    BY <1>1, <1>3, <1>5

(* A visit of a later step than the first leaves the chunk of the job at   *)
(* first_action what it is, and names a chunk under way until the last.    *)
LEMMA LaterVisit ==
  ASSUME StoreTypes, Placed, Halted, NEW k, NEW s, Visit(k, s), s > 0
  PROVE  /\ \A j \in DOMAIN flow : AtFirst(j)' <=> AtFirst(j)
         /\ UnderWay' = IF s = Last THEN UnderWay \ {flow[k]} ELSE UnderWay
         /\ flow[k] \in UnderWay /\ fpc # "connect"
         /\ \A j \in DOMAIN flow : First \in visited[flow[j]] => First \in visited'[flow[j]]
  <1> USE StagesAssumed
  <1>1. First \in visited[flow[k]] /\ Last \notin visited[flow[k]] /\ k \in DOMAIN flow /\ s \in 0..Last
    BY DEF Visit
  <1>2. \A j \in DOMAIN flow : flow[j] \in Chunks
    BY DEF StoreTypes
  <1>3. \A c \in Chunks : /\ First \in visited'[c] <=> First \in visited[c]
                          /\ Last \in visited'[c] <=> Last \in visited[c] \/ (c = flow[k] /\ s = Last)
    BY <1>1, VisitEffect
  <1>4. flow' = flow
    BY DEF Visit
  <1>5. \A j \in DOMAIN flow : AtFirst(j)' <=> AtFirst(j)
    <2>1. ASSUME NEW j \in DOMAIN flow
          PROVE  AtFirst(j)' <=> AtFirst(j)
      <3>1. \A older \in 1..j - 1 : older \in DOMAIN flow
        BY DEF StoreTypes
      <3>2. QED
        BY <1>2, <1>3, <1>4, <3>1 DEF AtFirst
    <2>2. QED
      BY <2>1
  <1>6. UnderWay' = IF s = Last THEN UnderWay \ {flow[k]} ELSE UnderWay
    BY <1>1, <1>2, <1>3, <1>4 DEF UnderWay
  <1>7. flow[k] \in UnderWay
    BY <1>1 DEF UnderWay
  <1>8. QED
    BY <1>1, <1>2, <1>3, <1>5, <1>6, <1>7 DEF Halted

(* A middle module looks the name up and leaves it as it is.               *)
LEMMA MiddleKeeps ==
  ASSUME IInv, NEW k \in DOMAIN flow, NEW s \in Middles, MiddleJob(k, s)
  PROVE  IInv'
  <1> USE DEF IInv
  <1>1. Visit(k, s) /\ s > 0 /\ s # Last
    BY JobVisits, StagesAssumed DEF MiddleJob, Middles, Last
  <1>2. UNCHANGED <<name, store, stream, fpc, created, current, cexit, stops, dead, free, flow>>
    BY <1>1 DEF MiddleJob, segment, naming, Visit
  <1>3. /\ \A j \in DOMAIN flow : AtFirst(j)' <=> AtFirst(j)
        /\ UnderWay' = UnderWay /\ fpc # "connect"
        /\ \A j \in DOMAIN flow : First \in visited[flow[j]] => First \in visited'[flow[j]]
    BY <1>1, LaterVisit
  <1>4. StoreTypes' /\ Placed'
    BY <1>1, <1>2, VisitEffect DEF StoreTypes
  <1>5. Halted'
    BY <1>2, <1>3 DEF Halted, First
  <1>6. Numbered' /\ JobNamed' /\ AtHand'
    BY <1>2, <1>3 DEF Numbered, JobNamed, AtHand, Collecting, First
  <1>7. Carried'
    BY <1>2, <1>3 DEF Carried, Collecting
  <1>8. NoObjectLeft'
    <2>1. \A c \in {flow[j] : j \in DOMAIN flow} : c \in Chunks
      BY DEF StoreTypes
    <2>2. \A c \in Chunks : Last \notin visited[c] => Last \notin visited'[c]
      BY <1>1, VisitEffect, StagesAssumed DEF Visit
    <2>3. QED
      BY <1>2, <2>1, <2>2 DEF NoObjectLeft, Last
  <1>9. QED
    BY <1>4, <1>5, <1>6, <1>7, <1>8

(* The last module frees an object of its own chunk only.                  *)
LEMMA LastKeeps ==
  ASSUME IInv, NEW k \in DOMAIN flow, LastJob(k)
  PROVE  IInv'
  <1> USE DEF IInv
  <1>1. Visit(k, Last) /\ Last > 0
    BY JobVisits, StagesAssumed DEF LastJob
  <1>2. /\ UNCHANGED <<name, stream, fpc, created, current, cexit, stops, dead, free, flow>>
        /\ store' = store \ {name[flow[k]]}
    BY <1>1 DEF LastJob, FreeObject, naming, Visit
  <1>3. /\ \A j \in DOMAIN flow : AtFirst(j)' <=> AtFirst(j)
        /\ UnderWay' = UnderWay \ {flow[k]} /\ flow[k] \in UnderWay /\ fpc # "connect"
        /\ \A j \in DOMAIN flow : First \in visited[flow[j]] => First \in visited'[flow[j]]
    BY <1>1, LaterVisit
  <1>4. StoreTypes' /\ Placed'
    BY <1>1, <1>2, VisitEffect DEF StoreTypes
  <1>5. Halted'
    BY <1>2, <1>3 DEF Halted, First
  <1>6. Numbered' /\ JobNamed'
    BY <1>2, <1>3 DEF Numbered, JobNamed
  <1>7. Collecting => /\ name[flow[k]] < current /\ name[flow[k]] < created
                      /\ {name[flow[k]], current, created} \subseteq Nat
    <2>1. Collecting => name[flow[k]] < current
      BY <1>3 DEF Carried
    <2>2. stream => created = current \/ created = current + 1
      BY <1>3 DEF Numbered, StoreTypes, Naming
    <2>3. {name[flow[k]], current, created} \subseteq Nat
      BY <1>1, VisitEffect DEF StoreTypes
    <2>4. QED
      BY <2>1, <2>2, <2>3 DEF Collecting
  <1>8. AtHand'
    BY <1>2, <1>7 DEF AtHand, Collecting, First
  <1>9. Carried'
    BY <1>2, <1>3 DEF Carried, Collecting, UnderWay
  <1>10. NoObjectLeft'
    <2>1. \A c \in {flow[j] : j \in DOMAIN flow} : c \in Chunks
      BY DEF StoreTypes
    <2>2. \A c \in Chunks : Last \notin visited[c] /\ c # flow[k] => Last \notin visited'[c]
      BY <1>1, VisitEffect, StagesAssumed DEF Visit
    <2>3. QED
      BY <1>2, <2>1, <2>2 DEF NoObjectLeft, Last
  <1>11. QED
    BY <1>4, <1>5, <1>6, <1>8, <1>9, <1>10

(* A chunk taken has no frame and comes behind the others.                 *)
LEMMA TakeKeeps ==
  ASSUME IInv, TakeChunk
  PROVE  IInv'
  <1> USE DEF IInv
  <1>1. /\ UNCHANGED <<name, store, stream, fpc, created, current, cexit, stops, dead, visited>>
        /\ stops = 0 /\ free # <<>> /\ flow' = Append(flow, Head(free)) /\ free' = Tail(free)
    BY DEF TakeChunk, segment, naming, Flow!Take
  <1>2. free \in Seq(Chunks) /\ flow \in Seq(Chunks)
    BY DEF StoreTypes
  <1>3. /\ Head(free) \in Chunks /\ visited[Head(free)] = {} /\ Head(free) = free[1]
        /\ \A j \in DOMAIN free' : j + 1 \in DOMAIN free /\ free'[j] = free[j + 1]
    BY <1>1, <1>2 DEF Placed
  <1>4. /\ DOMAIN flow' = 1..Len(flow) + 1
        /\ \A j \in DOMAIN flow' : flow'[j] = IF j = Len(flow) + 1 THEN Head(free) ELSE flow[j]
        /\ DOMAIN flow = 1..Len(flow) /\ Len(flow) \in Nat
    BY <1>1, <1>2
  <1>5. StoreTypes'
    BY <1>1, <1>2, <1>3 DEF StoreTypes
  <1>6. Placed'
    <2>1. Distinct(flow')
      BY <1>1, <1>2, <1>3, <1>4 DEF Placed, Distinct
    <2>2. Distinct(free')
      <3>1. SUFFICES ASSUME NEW i \in DOMAIN free', NEW j \in DOMAIN free', free'[i] = free'[j]
                     PROVE  i = j
        BY DEF Distinct
      <3>2. i + 1 = j + 1
        BY <1>3, <3>1 DEF Placed, Distinct
      <3>3. i \in Nat /\ j \in Nat
        BY <1>1, <1>2
      <3>4. QED
        BY <3>2, <3>3
    <2>3. ASSUME NEW i \in DOMAIN free'
          PROVE  visited[free'[i]] = {} /\ \A l \in DOMAIN flow' : free'[i] # flow'[l]
      <3>1. i + 1 \in DOMAIN free /\ free'[i] = free[i + 1] /\ i \in Nat /\ i >= 1 /\ 1 \in DOMAIN free
        BY <1>1, <1>2, <1>3
      <3>2. visited[free'[i]] = {} /\ free'[i] # Head(free)
        BY <1>3, <3>1 DEF Placed, Distinct
      <3>3. ASSUME NEW l \in DOMAIN flow'
            PROVE  free'[i] # flow'[l]
        <4>1. CASE l = Len(flow) + 1
          BY <1>4, <3>2, <4>1
        <4>2. CASE l \in DOMAIN flow
          BY <1>4, <3>1, <4>2 DEF Placed
        <4>3. QED
          BY <1>4, <4>1, <4>2
      <3>4. QED
        BY <3>2, <3>3
    <2>4. QED
      BY <1>1, <2>1, <2>2, <2>3 DEF Placed, Chunks, First
  <1>7. Halted'
    BY <1>1 DEF Halted, First, StoreTypes
  <1>8. \A j \in DOMAIN flow : j \in DOMAIN flow' /\ flow'[j] = flow[j] /\ (AtFirst(j)' <=> AtFirst(j))
    BY <1>1, <1>4 DEF AtFirst, First
  <1>9. UnderWay' = UnderWay
    BY <1>1, <1>3, <1>4 DEF UnderWay, First, Last
  <1>10. Numbered' /\ JobNamed' /\ AtHand'
    BY <1>1, <1>8 DEF Numbered, JobNamed, AtHand, Collecting, First
  <1>11. Carried'
    BY <1>1, <1>8, <1>9 DEF Carried, Collecting
  <1>12. NoObjectLeft'
    BY <1>1, <1>8 DEF NoObjectLeft, Last
  <1>13. QED
    BY <1>5, <1>6, <1>7, <1>10, <1>11, <1>12

(* A chunk comes back after the last module's job.                         *)
LEMMA ReturnKeeps ==
  ASSUME IInv, ReturnChunk
  PROVE  IInv'
  <1> USE StagesAssumed DEF IInv
  <1>1. /\ UNCHANGED <<name, store, stream, fpc, created, current, cexit, stops, dead>>
        /\ flow # <<>> /\ visited[Head(flow)] = 0..Last
        /\ visited' = [visited EXCEPT ![Head(flow)] = {}]
        /\ free' = Append(free, Head(flow)) /\ flow' = Tail(flow)
    BY DEF ReturnChunk, segment, naming, Flow!Release, Flow!Steps, Last
  <1>2. free \in Seq(Chunks) /\ flow \in Seq(Chunks)
    BY DEF StoreTypes
  <1>3. /\ Head(flow) \in Chunks /\ Head(flow) = flow[1] /\ 1 \in DOMAIN flow
        /\ \A j \in DOMAIN flow' : j + 1 \in DOMAIN flow /\ flow'[j] = flow[j + 1] /\ j \in Nat /\ j >= 1
        /\ \A j \in DOMAIN flow : j # 1 => j - 1 \in DOMAIN flow' /\ flow'[j - 1] = flow[j]
                                          /\ j \in Nat /\ j >= 1
    BY <1>1, <1>2
  <1>4. /\ visited' \in [Chunks -> SUBSET Nat] /\ visited'[Head(flow)] = {}
        /\ \A c \in Chunks : c # Head(flow) => visited'[c] = visited[c]
    BY <1>1, <1>3 DEF StoreTypes
  <1>5. \A j \in DOMAIN flow' : flow'[j] # Head(flow) /\ flow'[j] \in Chunks
    <2>1. ASSUME NEW j \in DOMAIN flow'
          PROVE  flow'[j] # Head(flow) /\ flow'[j] \in Chunks
      <3>1. j + 1 # 1 /\ j + 1 \in DOMAIN flow /\ flow'[j] = flow[j + 1]
        BY <1>3
      <3>2. QED
        BY <1>2, <1>3, <3>1 DEF Placed, Distinct
    <2>2. QED
      BY <2>1
  <1>6. StoreTypes'
    BY <1>1, <1>2, <1>3, <1>4 DEF StoreTypes
  <1>7. Placed'
    <2>1. /\ DOMAIN free' = 1..Len(free) + 1 /\ DOMAIN free = 1..Len(free) /\ Len(free) \in Nat
          /\ \A j \in DOMAIN free' : free'[j] = IF j = Len(free) + 1 THEN Head(flow) ELSE free[j]
      BY <1>1, <1>2
    <2>2. \A j \in DOMAIN free : free[j] \in Chunks /\ free[j] # Head(flow)
      BY <1>2, <1>3 DEF Placed
    <2>3. Distinct(free')
      BY <2>1, <2>2 DEF Placed, Distinct
    <2>4. Distinct(flow')
      <3>1. SUFFICES ASSUME NEW i \in DOMAIN flow', NEW j \in DOMAIN flow', flow'[i] = flow'[j]
                     PROVE  i = j
        BY DEF Distinct
      <3>2. i + 1 = j + 1 /\ i \in Nat /\ j \in Nat
        BY <1>3, <3>1 DEF Placed, Distinct
      <3>3. QED
        BY <3>2
    <2>5. ASSUME NEW i \in DOMAIN free'
          PROVE  visited'[free'[i]] = {} /\ \A l \in DOMAIN flow' : free'[i] # flow'[l]
      <3>1. CASE i = Len(free) + 1
        BY <1>4, <1>5, <2>1, <3>1
      <3>2. CASE i \in DOMAIN free
        BY <1>3, <1>4, <2>1, <2>2, <3>2 DEF Placed
      <3>3. QED
        BY <2>1, <3>1, <3>2
    <2>6. \A c \in Chunks : visited'[c] # {} => First \in visited'[c]
      BY <1>4 DEF Placed
    <2>7. QED
      BY <2>3, <2>4, <2>5, <2>6 DEF Placed, Chunks, First
  <1>8. \A j \in DOMAIN flow' : visited'[flow'[j]] = visited[flow[j + 1]]
    BY <1>3, <1>4, <1>5
  <1>9. Halted'
    BY <1>1, <1>3, <1>4, <1>8 DEF Halted
  <1>10. ASSUME NEW j \in DOMAIN flow, AtFirst(j)
         PROVE  j # 1 /\ j - 1 \in DOMAIN flow' /\ flow'[j - 1] = flow[j] /\ AtFirst(j - 1)'
    <2>1. j # 1
      BY <1>1, <1>3, <1>10 DEF AtFirst
    <2>2. j - 1 \in DOMAIN flow' /\ flow'[j - 1] = flow[j] /\ j \in Nat /\ j >= 2
      BY <1>3, <2>1
    <2>3. First \notin visited'[flow'[j - 1]]
      BY <1>8, <1>10, <2>2 DEF AtFirst
    <2>4. ASSUME NEW older \in 1..j - 1 - 1
          PROVE  First \in visited'[flow'[older]]
      <3>1. older \in DOMAIN flow' /\ older + 1 \in 1..j - 1
        <4>1. DOMAIN flow' = 1..Len(flow') /\ Len(flow') \in Nat
          BY <1>1, <1>2
        <4>2. QED
          BY <2>2, <4>1
      <3>2. QED
        BY <1>8, <1>10, <3>1 DEF AtFirst
    <2>5. QED
      BY <2>1, <2>2, <2>3, <2>4 DEF AtFirst
  <1>11. UnderWay' = UnderWay
    <2>1. ASSUME NEW c
          PROVE  c \in UnderWay' <=> c \in UnderWay
      <3>1. (\E j \in DOMAIN flow' : flow'[j] = c)
              <=> (\E j \in DOMAIN flow : flow[j] = c /\ c # Head(flow))
        BY <1>3, <1>5
      <3>2. CASE c = Head(flow)
        BY <1>1, <1>4, <3>2 DEF UnderWay
      <3>3. CASE c # Head(flow) /\ c \in Chunks
        BY <1>4, <3>1, <3>3 DEF UnderWay
      <3>4. CASE c \notin Chunks
        BY <1>2, <1>5, <3>4 DEF UnderWay
      <3>5. QED
        BY <3>2, <3>3, <3>4
    <2>2. QED
      BY <2>1
  <1>12. Numbered' /\ AtHand'
    BY <1>1 DEF Numbered, AtHand, Collecting
  <1>13. JobNamed'
    <2>1. SUFFICES ASSUME stream, fpc \in Naming
                   PROVE  \E j \in DOMAIN flow' : AtFirst(j)' /\ name[flow'[j]] = current
      BY <1>1 DEF JobNamed
    <2>2. PICK j \in DOMAIN flow : AtFirst(j) /\ name[flow[j]] = current
      BY <2>1 DEF JobNamed
    <2>3. QED
      BY <1>10, <2>2
  <1>14. Carried'
    <2>1. SUFFICES ASSUME Collecting
                   PROVE  Carried'
      BY <1>1 DEF Carried, Collecting
    <2>2. ASSUME NEW c \in Chunks, name[c] \in store, c \notin UnderWay
          PROVE  fpc \in Naming /\ \E j \in DOMAIN flow' : AtFirst(j)' /\ flow'[j] = c
      <3>1. PICK j \in DOMAIN flow : fpc \in Naming /\ AtFirst(j) /\ flow[j] = c
        BY <2>1, <2>2 DEF Carried
      <3>2. QED
        BY <1>10, <3>1
    <2>3. QED
      BY <1>1, <1>11, <2>1, <2>2 DEF Carried
  <1>15. NoObjectLeft'
    <2>1. ASSUME NEW j \in DOMAIN flow, Last \notin visited[flow[j]]
          PROVE  \E i \in DOMAIN flow' : flow'[i] = flow[j] /\ Last \notin visited'[flow'[i]]
      <3>1. j # 1 /\ flow[j] \in Chunks
        BY <1>1, <1>2, <1>3, <2>1
      <3>2. QED
        BY <1>3, <1>4, <1>5, <2>1, <3>1
    <2>2. QED
      BY <1>1, <2>1 DEF NoObjectLeft
  <1>16. QED
    BY <1>6, <1>7, <1>9, <1>12, <1>13, <1>14, <1>15

(* connect_to_pipeline finds no object and no name.                        *)
LEMMA ConnectKeeps ==
  ASSUME IInv, ConnectFirst
  PROVE  IInv'
  <1> USE StagesAssumed DEF IInv
  <1>1. /\ UNCHANGED <<free, flow, visited, name, stream, cexit, stops>>
        /\ fpc = "connect" /\ fpc' = "idle" /\ First \notin dead
        /\ ~stream => UNCHANGED <<store, created, current>>
        /\ stream => created' = 1 /\ current' = 1
        /\ stream => (store' = store \cup {1} /\ dead' = dead) \/ (store' = store /\ First \in dead')
    BY DEF ConnectFirst, NewObjectWithFramesets, Terminates, chunks, gather
  <1>2. stream => store = {} /\ \A c \in Chunks : name[c] = 0
    BY <1>1 DEF Numbered, StoreTypes
  <1>3. UnderWay = {} /\ UnderWay' = {}
    BY <1>1 DEF UnderWay, Halted, StoreTypes, First, Last
  <1>4. StoreTypes'
    <2>1. CASE stream
      <3>1. store' \subseteq Nat
        <4>1. store' \subseteq store \cup {1}
          BY <1>1, <2>1
        <4>2. QED
          BY <4>1 DEF StoreTypes
      <3>2. QED
        BY <1>1, <2>1, <3>1 DEF StoreTypes
    <2>2. CASE ~stream
      BY <1>1, <2>2 DEF StoreTypes
    <2>3. QED
      BY <2>1, <2>2
  <1>5. Placed' /\ Halted'
    BY <1>1 DEF Placed, Distinct, Halted, First
  <1>6. Numbered' /\ JobNamed' /\ AtHand'
    BY <1>1, <1>2, <1>4 DEF Numbered, JobNamed, AtHand, Collecting, Naming, First, StoreTypes
  <1>7. Carried'
    BY <1>1, <1>2, <1>3 DEF Carried, Collecting
  <1>8. NoObjectLeft'
    BY <1>1, <1>2 DEF NoObjectLeft
  <1>9. QED
    BY <1>4, <1>5, <1>6, <1>7, <1>8

(* The chunk of the job gets the name of the object at hand.               *)
LEMMA TakesObjectKeeps ==
  ASSUME IInv, NEW k \in DOMAIN flow, FirstTakesObject(k)
  PROVE  IInv'
  <1> USE StagesAssumed DEF IInv
  <1>1. /\ UNCHANGED <<free, flow, visited, store, stream, created, current, cexit, stops, dead>>
        /\ fpc = "idle" /\ fpc' = "create" /\ stream /\ cexit = "no" /\ First \notin dead
        /\ name' = [name EXCEPT ![flow[k]] = current]
        /\ visited[flow[k]] = {} /\ \A older \in 1..k - 1 : visited[flow[older]] # {}
    BY DEF FirstTakesObject, Idle, chunks, segment
  <1>2. flow[k] \in Chunks /\ current \in Nat /\ name'[flow[k]] = current
        /\ \A c \in Chunks : c # flow[k] => name'[c] = name[c]
    BY <1>1 DEF StoreTypes
  <1>3. Collecting
    BY <1>1 DEF Collecting
  <1>4. StoreTypes'
    BY <1>1, <1>2 DEF StoreTypes, Naming
  <1>5. Placed' /\ Halted'
    BY <1>1 DEF Placed, Distinct, Halted, First
  <1>6. AtFirst(k)
    <2>1. \A older \in 1..k - 1 : flow[older] \in Chunks
      BY DEF StoreTypes
    <2>2. QED
      BY <1>1, <2>1 DEF AtFirst, Placed
  <1>7. \A j \in DOMAIN flow : AtFirst(j)' <=> AtFirst(j)
    BY <1>1 DEF AtFirst, First
  <1>8. Numbered' /\ JobNamed' /\ AtHand'
    BY <1>1, <1>2, <1>6, <1>7 DEF Numbered, JobNamed, AtHand, Collecting, Naming, First
  <1>9. UnderWay' = UnderWay /\ flow[k] \notin UnderWay /\ UnderWay \subseteq Chunks
    BY <1>1 DEF UnderWay, First, Last, StoreTypes
  <1>10. flow[k] \in Chunks /\ name[flow[k]] \notin store
    BY <1>1, <1>2, <1>3, <1>9 DEF Carried, Naming
  <1>11. Carried'
    <2>1. \A c \in UnderWay : name'[c] = name[c]
      BY <1>2, <1>9
    <2>2. ASSUME NEW c \in Chunks, name'[c] \in store', c \notin UnderWay
          PROVE  \E j \in DOMAIN flow' : AtFirst(j)' /\ flow'[j] = c
      <3>1. c = flow[k]
        BY <1>1, <1>2, <1>3, <2>2 DEF Carried, Naming
      <3>2. QED
        BY <1>1, <1>6, <1>7, <3>1
    <2>3. QED
      BY <1>1, <1>3, <1>9, <2>1, <2>2 DEF Carried, Naming
  <1>12. NoObjectLeft'
    <2>1. SUFFICES ASSUME NEW o \in store, o \notin {current, created}
                   PROVE  \E c \in {flow[j] : j \in DOMAIN flow} : name'[c] = o /\ Last \notin visited[c]
      BY <1>1 DEF NoObjectLeft
    <2>2. PICK c \in {flow[j] : j \in DOMAIN flow} : name[c] = o /\ Last \notin visited[c]
      BY <1>1, <2>1 DEF NoObjectLeft
    <2>3. c # flow[k] /\ c \in Chunks
      BY <1>10, <2>2 DEF StoreTypes
    <2>4. QED
      BY <1>2, <2>2, <2>3
  <1>13. QED
    BY <1>4, <1>5, <1>8, <1>11, <1>12

(* The next object gets a number no chunk carries.                         *)
LEMMA CreatesKeeps ==
  ASSUME IInv, FirstCreates
  PROVE  IInv'
  <1> USE StagesAssumed DEF IInv
  <1>1. /\ UNCHANGED <<free, flow, visited, name, stream, current, cexit, stops>>
        /\ fpc = "create" /\ fpc' = "name" /\ First \notin dead /\ created' = created + 1
        /\ (store' = store \cup {created + 1} /\ dead' = dead) \/ (store' = store /\ First \in dead')
    BY DEF FirstCreates, NewObjectWithFramesets, Terminates, chunks, gather
  <1>2. \A j \in DOMAIN flow : AtFirst(j)' <=> AtFirst(j)
    BY <1>1 DEF AtFirst, First
  <1>3. UnderWay' = UnderWay /\ UnderWay \subseteq Chunks
    BY <1>1 DEF UnderWay, First, Last, StoreTypes
  <1>4. StoreTypes' /\ created \in Nat /\ current \in Nat
    <2>1. created \in Nat /\ current \in Nat /\ store' \subseteq Nat
      <3>1. store' \subseteq store \cup {created + 1}
        BY <1>1
      <3>2. store \subseteq Nat /\ created \in Nat /\ current \in Nat
        BY DEF StoreTypes
      <3>3. QED
        BY <3>1, <3>2
    <2>2. QED
      BY <1>1, <2>1 DEF StoreTypes, Naming
  <1>5. Placed' /\ Halted'
    BY <1>1 DEF Placed, Distinct, Halted, First
  <1>6. stream => created = current /\ \A c \in Chunks : name[c] <= created /\ name[c] \in Nat
    BY <1>1 DEF Numbered, StoreTypes
  <1>7. Numbered' /\ JobNamed' /\ AtHand'
    BY <1>1, <1>2, <1>4 DEF Numbered, JobNamed, AtHand, Collecting, Naming, First
  <1>8. Carried'
    <2>1. stream => \A c \in Chunks : name[c] \in store' => name[c] \in store
      BY <1>1, <1>4, <1>6
    <2>2. store \subseteq store'
      BY <1>1
    <2>3. QED
      BY <1>1, <1>2, <1>3, <2>1, <2>2 DEF Carried, Collecting, Naming
  <1>9. NoObjectLeft'
    BY <1>1, <1>6 DEF NoObjectLeft, Last
  <1>10. QED
    BY <1>4, <1>5, <1>7, <1>8, <1>9

(* A visit of the first step: the chunk is the one at first_action.        *)
LEMMA FirstVisit ==
  ASSUME StoreTypes, Placed, NEW k, Visit(k, First)
  PROVE  /\ flow[k] \in Chunks /\ flow[k] \notin UnderWay
         /\ UnderWay' = UnderWay \cup {flow[k]}
         /\ \A j \in DOMAIN flow : AtFirst(j) => j = k
         /\ AtFirst(k)
         /\ \A c \in Chunks : First \in visited[c] => First \in visited'[c]
         /\ \A c \in Chunks : Last \notin visited[c] => Last \notin visited'[c]
         /\ First \in visited'[flow[k]]
  <1> USE StagesAssumed
  <1>1. k \in DOMAIN flow /\ visited[flow[k]] = {} /\ flow' = flow
        /\ \A older \in 1..k - 1 : First \in visited[flow[older]]
    BY DEF Visit
  <1>2. /\ flow[k] \in Chunks
        /\ \A c \in Chunks : visited'[c] = IF c = flow[k] THEN 0..First ELSE visited[c]
    BY VisitEffect
  <1>3. First \in 0..First /\ Last \notin 0..First
    OBVIOUS
  <1>4. flow[k] \notin UnderWay /\ UnderWay' = UnderWay \cup {flow[k]}
    <2>1. \A c \in {flow[j] : j \in DOMAIN flow} : c \in Chunks
      BY DEF StoreTypes
    <2>2. QED
      BY <1>1, <1>2, <1>3, <2>1 DEF UnderWay
  <1>5. ASSUME NEW j \in DOMAIN flow, AtFirst(j)
        PROVE  j = k
    <2>1. j \in Nat /\ k \in Nat /\ j >= 1 /\ k >= 1
      BY <1>1 DEF StoreTypes
    <2>2. ~(j < k)
      BY <1>1, <1>5, <2>1 DEF AtFirst
    <2>3. ~(k < j)
      BY <1>1, <1>5, <2>1 DEF AtFirst
    <2>4. QED
      BY <2>1, <2>2, <2>3
  <1>6. AtFirst(k)
    BY <1>1 DEF AtFirst
  <1>7. QED
    BY <1>1, <1>2, <1>3, <1>4, <1>5, <1>6

(* The job's chunk goes on with the object that was at hand.               *)
LEMMA NamesKeeps ==
  ASSUME IInv, NEW k \in DOMAIN flow, FirstNames(k)
  PROVE  IInv'
  <1> USE StagesAssumed DEF IInv
  <1>1. /\ UNCHANGED <<name, store, stream, created, cexit, stops, dead>>
        /\ fpc = "name" /\ fpc' = "idle" /\ First \notin dead /\ current' = created
    BY DEF FirstNames, segment
  <1>2. Visit(k, First)
    BY JobVisits DEF FirstNames
  <1>3. UNCHANGED <<free, flow>>
    BY <1>2 DEF Visit
  <1>4. StoreTypes' /\ Placed' /\ created \in Nat /\ current \in Nat
    BY <1>1, <1>2, <1>3, VisitEffect DEF StoreTypes
  <1>5. Halted'
    <2>1. \A j \in DOMAIN flow : flow[j] \in Chunks
      BY DEF StoreTypes
    <2>2. QED
      BY <1>1, <1>2, <1>3, <2>1, FirstVisit DEF Halted, First
  <1>6. Numbered' /\ JobNamed' /\ AtHand'
    BY <1>1, <1>4 DEF Numbered, JobNamed, AtHand, Collecting, Naming, First, StoreTypes
  <1>7. stream => name[flow[k]] = current /\ created = current + 1
    BY <1>1, <1>2, FirstVisit DEF JobNamed, Naming, Numbered
  <1>8. Carried'
    <2>1. SUFFICES ASSUME Collecting
                   PROVE  Carried'
      BY <1>1 DEF Carried, Collecting
    <2>2. current \in store /\ created = current + 1 /\ name[flow[k]] = current
      BY <1>1, <1>7, <2>1 DEF AtHand, Collecting
    <2>3. UnderWay' = UnderWay \cup {flow[k]} /\ UnderWay \subseteq Chunks /\ flow[k] \in Chunks
      <3>1. UnderWay \subseteq Chunks
        BY DEF UnderWay, StoreTypes
      <3>2. QED
        BY <1>2, <3>1, FirstVisit
    <2>4. \A c \in UnderWay : name[c] \in store /\ name[c] < current /\ name[c] \in Nat
      BY <2>1, <2>3 DEF Carried, StoreTypes
    <2>5. \A c, d \in UnderWay' : name[c] = name[d] => c = d
      BY <1>4, <2>1, <2>2, <2>3, <2>4 DEF Carried
    <2>6. ASSUME NEW c \in Chunks, name[c] \in store
          PROVE  c \in UnderWay'
      BY <1>2, <2>1, <2>3, <2>6, FirstVisit DEF Carried
    <2>7. \A c \in UnderWay' : name[c] \in store /\ name[c] < created
      BY <1>4, <2>2, <2>3, <2>4
    <2>8. QED
      BY <1>1, <2>5, <2>6, <2>7 DEF Carried
  <1>9. NoObjectLeft'
    <2>1. \A c \in {flow[j] : j \in DOMAIN flow} : c \in Chunks
      BY DEF StoreTypes
    <2>2. Last \notin visited[flow[k]]
      BY <1>2 DEF Visit
    <2>3. QED
      BY <1>1, <1>2, <1>3, <1>7, <2>1, <2>2, FirstVisit DEF NoObjectLeft, Last
  <1>10. QED
    BY <1>4, <1>5, <1>6, <1>8, <1>9

(* A chunk passed on without a name: only behind the collector's end, or   *)
(* by a first module without one.                                          *)
LEMMA WithoutObjectKeeps ==
  ASSUME IInv, NEW k \in DOMAIN flow, FirstWithoutObject(k) \/ FirstWithoutStream(k)
  PROVE  IInv'
  <1> USE StagesAssumed DEF IInv
  <1>1. /\ UNCHANGED <<name, stream, current, fpc, cexit, stops, dead>>
        /\ fpc = "idle" /\ (stream => cexit # "no" /\ UNCHANGED <<store, created>>)
        /\ visited[flow[k]] = {}
    BY DEF FirstWithoutObject, FirstWithoutStream, Idle, segment, naming
  <1>2. Visit(k, First)
    BY JobVisits DEF FirstWithoutObject, FirstWithoutStream
  <1>3. UNCHANGED <<free, flow>>
    BY <1>2 DEF Visit
  <1>4. StoreTypes' /\ Placed'
    <2>1. store' \subseteq Nat /\ created' \in Nat
      <3>1. CASE FirstWithoutObject(k)
        BY <3>1 DEF FirstWithoutObject, segment, naming, StoreTypes
      <3>2. CASE FirstWithoutStream(k)
        <4>1. created \in Nat /\ created' = created + 1 /\ store' \subseteq store \cup {created + 1}
          BY <3>2 DEF FirstWithoutStream, StoreTypes
        <4>2. QED
          BY <4>1 DEF StoreTypes
      <3>3. QED
        BY <3>1, <3>2
    <2>2. QED
      BY <1>1, <1>2, <1>3, <2>1, VisitEffect DEF StoreTypes
  <1>5. Halted'
    <2>1. \A j \in DOMAIN flow : flow[j] \in Chunks
      BY DEF StoreTypes
    <2>2. QED
      BY <1>1, <1>2, <1>3, <2>1, FirstVisit DEF Halted, First
  <1>6. ~Collecting
    BY <1>1 DEF Collecting, Halted, StoreTypes
  <1>7. Numbered' /\ JobNamed' /\ AtHand' /\ Carried'
    BY <1>1, <1>6 DEF Numbered, JobNamed, AtHand, Carried, Collecting, Naming
  <1>8. NoObjectLeft'
    <2>1. \A c \in {flow[j] : j \in DOMAIN flow} : c \in Chunks
      BY DEF StoreTypes
    <2>2. QED
      BY <1>1, <1>2, <1>3, <2>1, FirstVisit DEF NoObjectLeft, Last
  <1>9. QED
    BY <1>4, <1>5, <1>7, <1>8

-----------------------------------------------------------------------------
(* Every step keeps the invariant.                                         *)
LEMMA NextIInv == IInv /\ [Next]_vars => IInv'
  <1> SUFFICES ASSUME IInv, [Next]_vars PROVE IInv'
    OBVIOUS
  <1>1. CASE ConnectFirst
    BY <1>1, ConnectKeeps
  <1>2. CASE FirstCreates
    BY <1>2, CreatesKeeps
  <1>3. CASE \/ OpenObject \/ CloseObject \/ CollectorEnds \/ StopStep \/ LastUnlinks
             \/ \E s \in Sources : AddFrame(s)
             \/ \E k \in DOMAIN flow, s \in Middles : MiddleDies(k, s)
    BY <1>3, QuietSteps, QuietKeeps
  <1>4. ASSUME NEW k \in DOMAIN flow, FirstWithoutObject(k) \/ FirstWithoutStream(k)
        PROVE  IInv'
    BY <1>4, WithoutObjectKeeps
  <1>5. ASSUME NEW k \in DOMAIN flow, FirstTakesObject(k)
        PROVE  IInv'
    BY <1>5, TakesObjectKeeps
  <1>6. ASSUME NEW k \in DOMAIN flow, FirstNames(k)
        PROVE  IInv'
    BY <1>6, NamesKeeps
  <1>7. ASSUME NEW k \in DOMAIN flow, LastJob(k)
        PROVE  IInv'
    BY <1>7, LastKeeps
  <1>8. ASSUME NEW k \in DOMAIN flow, NEW s \in Middles, MiddleJob(k, s)
        PROVE  IInv'
    BY <1>8, MiddleKeeps
  <1>9. CASE TakeChunk
    BY <1>9, TakeKeeps
  <1>10. CASE ReturnChunk
    BY <1>10, ReturnKeeps
  <1>11. CASE UNCHANGED vars
    <2>1. Quiet
      BY <1>11 DEF vars, chunks, segment, naming, Quiet
    <2>2. QED
      BY <2>1, QuietKeeps
  <1>12. QED
    BY <1>1, <1>2, <1>3, <1>4, <1>5, <1>6, <1>7, <1>8, <1>9, <1>10, <1>11 DEF Next

(* The invariant holds for every number of modules, chunks and sources.    *)
THEOREM StoreInductive == Spec => []IInv
  <1>1. QED
    BY InitIInv, NextIInv, PTL DEF Spec

(* The name a middle looks up is that of an object which exists: the last  *)
(* module's free_object removes only the object of its own chunk, and      *)
(* first_action gives no two chunks under way the same name.               *)
THEOREM NamesAreOfObjects == Spec => []NamedObjectsExist
  <1>1. IInv => NamedObjectsExist
    BY DEF IInv, Carried, Collecting, NamedObjectsExist
  <1>2. QED
    BY <1>1, StoreInductive, PTL

(* No object stays in the segment without a chunk that will have it freed: *)
(* first_action writes a name only over that of an object that is gone.    *)
THEOREM NothingStaysBehind == Spec => []NoObjectLeft
  <1>1. IInv => NoObjectLeft
    BY DEF IInv
  <1>2. QED
    BY <1>1, StoreInductive, PTL

-----------------------------------------------------------------------------
(* The memory of the segment.                                              *)

StoreCounts ==
  /\ capacity \in Nat
  /\ fsets = [o \in Objects |-> fsets[o]] /\ frames \in [Objects -> [Sources -> Nat]]
  /\ open \in Nat /\ got \in [Sources -> Nat] /\ posted \in Nat /\ ready \in Nat /\ lost \in Nat
  /\ stream => created <= MaxObjects

(* The object at hand is with the collector or with first_action, or in    *)
(* one of the semaphores between them; a collector that has ended has none.*)
Turns(b) == IF b THEN 1 ELSE 0
OneTurn ==
  stream =>
    /\ cexit # "ended" => posted + ready + Turns(open # 0) + Turns(fpc \in Naming) = 1
    /\ cexit = "ended" => open = 0 /\ fpc = "idle"
    /\ open # 0 => open = current /\ fpc = "idle"
    /\ fpc = "connect" => ready = 1

(* An object has no more frames than its sources delivered, and none       *)
(* before it is opened.                                                    *)
Growing ==
  stream =>
    /\ \A s \in Sources : got[s] <= Limit
    /\ \A o \in Objects, s \in Sources :
         /\ frames[o][s] <= Limit
         /\ o = open => frames[o][s] <= got[s]
         /\ o > current \/ (o = current /\ posted > 0 /\ cexit # "ended") => frames[o][s] = 0

(* With memory enough every object has all its framesets.                  *)
Ample == stream /\ capacity >= (DataCnt + 1) * FullUnits
Enough ==
  Ample =>
    /\ lost = 0 /\ (First \in dead => ~linked)
    /\ \A o \in store : fsets[o] = SourceCnt

EInv == StoreCounts /\ OneTurn /\ Growing /\ Enough

LEMMA CountsAssumed ==
  /\ DataCnt \in Nat \ {0} /\ SourceCnt \in Nat \ {0} /\ Limit \in Nat \ {0} /\ MaxObjects \in Nat \ {0}
  /\ FullUnits \in Nat /\ FullUnits > SourceCnt /\ FullUnits >= 1
<1>1. DataCnt \in Nat \ {0} /\ SourceCnt \in Nat \ {0} /\ Limit \in Nat \ {0} /\ MaxObjects \in Nat \ {0}
  BY CountAssumption
<1>2. SourceCnt * (1 + Limit) \in Nat /\ SourceCnt * (1 + Limit) >= SourceCnt
  <2>1. SourceCnt * (1 + Limit) = SourceCnt + SourceCnt * Limit
    BY <1>1
  <2>2. SourceCnt * Limit \in Nat
    BY <1>1
  <2>. QED BY <1>1, <2>1, <2>2
<1>. QED BY <1>1, <1>2 DEF FullUnits

\* all units of an object, and their number
Kinds == {<<0, 0>>} \cup (Sources \X (0..Limit))

LEMMA KindsCounted == IsFiniteSet(Kinds) /\ Cardinality(Kinds) = FullUnits
<1>1. IsFiniteSet(Sources) /\ Cardinality(Sources) = SourceCnt
  BY CountsAssumed, FS_Interval DEF Sources
<1>2. IsFiniteSet(0..Limit) /\ Cardinality(0..Limit) = Limit + 1
  BY CountsAssumed, FS_Interval
<1>3. /\ IsFiniteSet(Sources \X (0..Limit))
      /\ Cardinality(Sources \X (0..Limit)) = SourceCnt * (Limit + 1)
  BY <1>1, <1>2, FS_Product
<1>4. <<0, 0>> \notin Sources \X (0..Limit)
  BY DEF Sources
<1>5. /\ IsFiniteSet((Sources \X (0..Limit)) \cup {<<0, 0>>})
      /\ Cardinality((Sources \X (0..Limit)) \cup {<<0, 0>>}) = SourceCnt * (Limit + 1) + 1
  BY <1>3, <1>4, FS_AddElement
<1>6. Kinds = (Sources \X (0..Limit)) \cup {<<0, 0>>}
  BY DEF Kinds
<1>7. SourceCnt * (Limit + 1) + 1 = FullUnits
  BY CountsAssumed DEF FullUnits
<1>. QED BY <1>5, <1>6, <1>7

\* objects with all their framesets take no more than FullUnits each, and less
\* as long as a frame is missing
LEMMA UsedIsBounded ==
  ASSUME StoreCounts, Growing, stream, store \subseteq Objects, IsFiniteSet(store),
         \A o \in store : fsets[o] = SourceCnt
  PROVE  /\ Cardinality(Used) \in Nat /\ Cardinality(Used) <= Cardinality(store) * FullUnits
         /\ \A o \in store, s \in Sources :
              frames[o][s] < Limit => Cardinality(Used) + 1 <= Cardinality(store) * FullUnits
<1> DEFINE all == store \X Kinds
<1>1. IsFiniteSet(all) /\ Cardinality(all) = Cardinality(store) * FullUnits
  BY KindsCounted, FS_Product
<1>2. ASSUME NEW o \in store PROVE Units(o) \subseteq Kinds
  <2>1. fsets[o] = SourceCnt /\ \A s \in Sources : frames[o][s] \in Nat /\ frames[o][s] <= Limit
    BY <1>2 DEF StoreCounts, Growing
  <2>2. <<0, 0>> \in Kinds /\ \A s \in 1..SourceCnt : <<s, 0>> \in Kinds
    BY CountsAssumed DEF Kinds, Sources
  <2>3. ASSUME NEW s \in Sources, NEW n \in 1..frames[o][s] PROVE <<s, n>> \in Kinds
    BY <2>1, CountsAssumed DEF Kinds
  <2>. QED BY <2>1, <2>2, <2>3 DEF Units
<1>3. Used \in SUBSET all
  BY <1>2 DEF Used
<1>4. IsFiniteSet(Used) /\ Cardinality(Used) <= Cardinality(all)
  BY <1>1, <1>3, FS_Subset
<1>5. ASSUME NEW o \in store, NEW s \in Sources, frames[o][s] < Limit
      PROVE  Cardinality(Used) + 1 <= Cardinality(store) * FullUnits
  <2> DEFINE free1 == <<o, <<s, frames[o][s] + 1>>>>
  <2>1. frames[o][s] \in Nat /\ frames[o][s] + 1 \in 0..Limit
    BY <1>5, CountsAssumed DEF StoreCounts
  <2>2. free1 \in all
    BY <2>1 DEF Kinds
  <2>3. free1 \notin Used
    <3>1. <<s, frames[o][s] + 1>> \notin Units(o)
      BY <2>1, CountsAssumed DEF Units, Sources
    <3>. QED BY <3>1 DEF Used
  <2>4. Used \in SUBSET (all \ {free1})
    BY <1>3, <2>3
  <2>5. IsFiniteSet(all \ {free1}) /\ Cardinality(all \ {free1}) = Cardinality(all) - 1
    BY <1>1, <2>2, FS_RemoveElement
  <2>6. Cardinality(Used) <= Cardinality(all) - 1
    BY <2>4, <2>5, FS_Subset
  <2>7. Cardinality(all) \in Nat /\ Cardinality(Used) \in Nat
    BY <1>1, <1>4, FS_CardinalityType
  <2> HIDE DEF all
  <2>. QED BY <1>1, <2>6, <2>7
<1>6. Cardinality(Used) \in Nat
  BY <1>4, FS_CardinalityType
<1>. QED BY <1>1, <1>4, <1>5, <1>6

\* no more objects than chunks and one, and one less when first_action makes one
LEMMA StoreIsBounded ==
  ASSUME IInv, StoreCounts, stream
  PROVE  /\ store \subseteq Objects /\ IsFiniteSet(store)
         /\ Cardinality(store) \in Nat /\ Cardinality(store) <= DataCnt + 1
         /\ fpc = "create" => Cardinality(store) <= DataCnt
         /\ fpc = "connect" => store = {}
<1> USE StagesAssumed
<1> DEFINE names == {name[c] : c \in Chunks}
<1>1. StoreTypes /\ Numbered /\ JobNamed /\ NoObjectLeft
  BY DEF IInv
<1>2. IsFiniteSet(names) /\ Cardinality(names) <= DataCnt
  <2>1. IsFiniteSet(Chunks) /\ Cardinality(Chunks) = DataCnt
    BY FS_Interval DEF Chunks
  <2>2. name \in Surjection(Chunks, names)
    BY <1>1 DEF StoreTypes, Surjection
  <2> HIDE DEF names
  <2>. QED BY <2>1, <2>2, FS_Surjection
<1>3. \A k \in DOMAIN flow : flow[k] \in Chunks
  BY <1>1 DEF StoreTypes
<1>4. store \subseteq names \cup {current, created}
  BY <1>1, <1>3 DEF NoObjectLeft
<1>5. fpc \in {"create", "name"} => current \in names
  BY <1>1, <1>3 DEF JobNamed, Naming
<1>6. fpc \in {"idle", "create"} => current = created
  BY <1>1 DEF Numbered
<1>7. fpc \in {"connect", "idle", "create", "name"}
  BY <1>1 DEF StoreTypes, Naming
<1>8. fpc = "connect" => store = {}
  BY <1>1 DEF Numbered, StoreTypes
<1>9. store \subseteq Objects
  BY <1>1, CountsAssumed DEF Numbered, StoreTypes, StoreCounts, Objects
<1>10. store \subseteq names \cup {created} /\ (fpc = "create" => store \subseteq names)
  BY <1>4, <1>5, <1>6, <1>7, <1>8
<1> HIDE DEF names
<1>11. IsFiniteSet(names \cup {created}) /\ Cardinality(names \cup {created}) <= DataCnt + 1
  <2>1. /\ IsFiniteSet(names \cup {created})
        /\ Cardinality(names \cup {created}) <= Cardinality(names) + 1
    BY <1>2, FS_AddElement, FS_CardinalityType
  <2>. QED BY <1>2, <2>1, FS_CardinalityType
<1>12. IsFiniteSet(store) /\ Cardinality(store) <= DataCnt + 1
  <2>1. IsFiniteSet(store) /\ Cardinality(store) <= Cardinality(names \cup {created})
    BY <1>10, <1>11, FS_Subset
  <2>2. Cardinality(store) \in Nat /\ Cardinality(names \cup {created}) \in Nat
    BY <2>1, <1>11, FS_CardinalityType
  <2>. QED BY <1>11, <2>1, <2>2
<1>13. Cardinality(store) \in Nat
  BY <1>12, FS_CardinalityType
<1>14. ASSUME fpc = "create" PROVE Cardinality(store) <= DataCnt
  <2>1. Cardinality(store) <= Cardinality(names)
    BY <1>2, <1>10, <1>14, FS_Subset
  <2>2. Cardinality(names) \in Nat
    BY <1>2, FS_CardinalityType
  <2>. QED BY <1>2, <1>13, <2>1, <2>2
<1>. QED BY <1>8, <1>9, <1>12, <1>13, <1>14

\* so first_action has room for an object with its framesets, and a source for
\* each frame
LEMMA RoomForAll ==
  ASSUME IInv, EInv, Ample
  PROVE  /\ fpc \in {"connect", "create"} => Room \in Int /\ Room > SourceCnt /\ Room >= 1
         /\ \A o \in store, s \in Sources : frames[o][s] < Limit => Room >= 1
<1>1. StoreCounts /\ Growing /\ Enough /\ stream /\ capacity \in Nat
      /\ capacity >= (DataCnt + 1) * FullUnits
  BY DEF EInv, Ample, StoreCounts
<1>2. \A o \in store : fsets[o] = SourceCnt
  BY <1>1 DEF Enough, Ample
<1>3. /\ store \subseteq Objects /\ IsFiniteSet(store)
      /\ Cardinality(store) \in Nat /\ Cardinality(store) <= DataCnt + 1
      /\ fpc = "create" => Cardinality(store) <= DataCnt
      /\ fpc = "connect" => store = {}
  BY <1>1, StoreIsBounded
<1>4. /\ Cardinality(Used) \in Nat /\ Cardinality(Used) <= Cardinality(store) * FullUnits
      /\ \A o \in store, s \in Sources :
           frames[o][s] < Limit => Cardinality(Used) + 1 <= Cardinality(store) * FullUnits
  BY <1>1, <1>2, <1>3, UsedIsBounded
<1>5. PICK n \in Nat, u \in Nat, full \in Nat, data \in Nat :
        n = Cardinality(store) /\ u = Cardinality(Used) /\ full = FullUnits /\ data = DataCnt
  BY <1>3, <1>4, CountsAssumed
<1>6. n * full <= (data + 1) * full
  BY <1>3, <1>5
<1>7. n <= data => n * full <= data * full
  OBVIOUS
<1>8. (data + 1) * full = data * full + full
  OBVIOUS
<1>9. ASSUME fpc \in {"connect", "create"} PROVE Room \in Int /\ Room > SourceCnt /\ Room >= 1
  <2>1. n <= data
    <3>1. Cardinality({}) = 0
      BY FS_EmptySet
    <3>. QED BY <1>3, <1>5, <1>9, <3>1
  <2>2. u <= data * full
    BY <1>4, <1>5, <1>7, <2>1
  <2>3. capacity - u >= full
    BY <1>1, <1>5, <1>8, <2>2
  <2>. QED BY <1>1, <1>5, <2>3, CountsAssumed DEF Room
<1>10. ASSUME NEW o \in store, NEW s \in Sources, frames[o][s] < Limit PROVE Room >= 1
  <2>1. u + 1 <= n * full
    BY <1>4, <1>5, <1>10
  <2>. QED BY <1>1, <1>5, <1>6, <2>1 DEF Room
<1>. QED BY <1>9, <1>10

LEMMA InitEInv == Init => EInv
<1> SUFFICES ASSUME Init PROVE EInv
  OBVIOUS
<1> USE CountsAssumed DEF Init
<1>1. StoreCounts
  BY CapacityAssumption DEF StoreCounts
<1>2. OneTurn /\ Growing
  BY DEF OneTurn, Turns, Naming, Growing
<1>3. Enough
  BY DEF Enough
<1>. QED BY <1>1, <1>2, <1>3 DEF EInv

(* A step after which the segment holds no more than before.               *)
LEMMA StillKeeps ==
  ASSUME IInv, EInv,
         UNCHANGED <<capacity, fsets, frames, stream, created, current, fpc, open, got, posted, ready, lost>>,
         linked' => linked, store' \subseteq store, First \in dead' => First \in dead,
         cexit' = cexit \/ (cexit = "no" /\ cexit' = "leaving")
  PROVE  EInv'
<1>1. StoreCounts'
  BY DEF EInv, StoreCounts
<1>2. OneTurn'
  BY DEF EInv, OneTurn, Turns, Naming
<1>3. Growing'
  BY DEF EInv, Growing
<1>4. Enough'
  BY DEF EInv, Enough, Ample, FullUnits
<1>. QED BY <1>1, <1>2, <1>3, <1>4 DEF EInv

LEMMA StillSteps ==
  ASSUME IInv, EInv,
         \/ TakeChunk \/ ReturnChunk \/ StopStep \/ LastUnlinks \/ UNCHANGED vars
         \/ \E k \in DOMAIN flow : LastJob(k)
         \/ \E k \in DOMAIN flow, s \in Middles : MiddleJob(k, s) \/ MiddleDies(k, s)
  PROVE  EInv'
<1>1. CASE TakeChunk \/ ReturnChunk \/ UNCHANGED vars
  BY <1>1, StillKeeps DEF TakeChunk, ReturnChunk, vars, segment, naming, gather
<1>2. CASE StopStep \/ LastUnlinks
  BY <1>2, StillKeeps DEF StopStep, LastUnlinks, segment, naming, gather
<1>3. ASSUME NEW k \in DOMAIN flow, LastJob(k) PROVE EInv'
  BY <1>3, StillKeeps DEF LastJob, FreeObject, segment, naming, gather
<1>4. ASSUME NEW k \in DOMAIN flow, NEW s \in Middles, MiddleJob(k, s) PROVE EInv'
  BY <1>4, StillKeeps DEF MiddleJob, segment, naming, gather
<1>5. ASSUME NEW k \in DOMAIN flow, NEW s \in Middles, MiddleDies(k, s) PROVE EInv'
  <2>1. s # First
    BY StagesAssumed DEF Middles
  <2>. QED BY <1>5, <2>1, StillKeeps DEF MiddleDies, Terminates, segment, naming, gather
<1>. QED BY <1>1, <1>2, <1>3, <1>4, <1>5

(* first_action without a collector, or with one that has ended.           *)
LEMMA WithoutObjectCounts ==
  ASSUME IInv, EInv, NEW k \in DOMAIN flow, FirstWithoutObject(k) \/ FirstWithoutStream(k)
  PROVE  EInv'
<1>1. CASE FirstWithoutStream(k)
  <2>1. /\ ~stream /\ ~stream'
        /\ UNCHANGED <<capacity, fsets, frames, stream, open, got, posted, ready, lost>>
    BY <1>1 DEF FirstWithoutStream, gather
  <2>. QED BY <2>1 DEF EInv, StoreCounts, OneTurn, Growing, Enough, Ample
<1>2. CASE FirstWithoutObject(k)
  <2>1. /\ UNCHANGED <<capacity, linked, store, fsets, frames, stream, fpc, created, current,
                       open, got, ready, cexit, lost, dead>>
        /\ stream /\ cexit # "no" /\ posted' = posted + 1 /\ First \notin visited[flow[k]]
    BY <1>2 DEF FirstWithoutObject, Idle, segment, naming
  <2>2. cexit = "ended"
    <3>1. stops = 0
      BY <2>1 DEF IInv, Halted, StoreTypes
    <3>. QED BY <2>1, <3>1 DEF IInv, Halted, StoreTypes
  <2>3. StoreCounts'
    BY <2>1 DEF EInv, StoreCounts
  <2>4. OneTurn' /\ Growing'
    BY <2>1, <2>2 DEF EInv, OneTurn, Growing
  <2>5. Enough'
    BY <2>1 DEF EInv, Enough, Ample, FullUnits
  <2>. QED BY <2>3, <2>4, <2>5 DEF EInv
<1>. QED BY <1>1, <1>2

(* The object at hand goes from the collector to first_action and back.    *)
LEMMA HandedOver ==
  ASSUME IInv, EInv,
         \/ \E k \in DOMAIN flow : FirstTakesObject(k) \/ FirstNames(k)
         \/ OpenObject \/ CloseObject \/ CollectorEnds
  PROVE  EInv'
<1> USE DEF Naming, Turns
<1>0. /\ posted \in Nat /\ ready \in Nat /\ open \in Nat /\ current \in Nat /\ created \in Nat
      /\ StoreCounts /\ OneTurn /\ Growing /\ Enough /\ Numbered
      /\ cexit \in {"no", "ended", "leaving"}
  BY DEF IInv, EInv, StoreCounts, StoreTypes
<1>1. ASSUME NEW k \in DOMAIN flow, FirstTakesObject(k) PROVE EInv'
  <2>1. /\ UNCHANGED <<capacity, linked, store, fsets, frames, stream, created, current,
                       open, got, posted, cexit, lost, dead>>
        /\ stream /\ cexit = "no" /\ ready > 0 /\ ready' = ready - 1 /\ fpc = "idle" /\ fpc' = "create"
    BY <1>1 DEF FirstTakesObject, Idle, segment
  <2>2. StoreCounts'
    BY <1>0, <2>1 DEF StoreCounts
  <2>3. OneTurn'
    BY <1>0, <2>1 DEF OneTurn
  <2>4. Growing'
    BY <1>0, <2>1 DEF Growing
  <2>5. Enough'
    BY <1>0, <2>1 DEF Enough, Ample, FullUnits
  <2>. QED BY <2>2, <2>3, <2>4, <2>5 DEF EInv
<1>2. ASSUME NEW k \in DOMAIN flow, FirstNames(k) PROVE EInv'
  <2>1. /\ UNCHANGED <<capacity, linked, store, fsets, frames, stream, created,
                       open, got, ready, cexit, lost, dead>>
        /\ fpc = "name" /\ fpc' = "idle" /\ current' = created /\ posted' = posted + 1
    BY <1>2 DEF FirstNames, segment
  <2>2. StoreCounts'
    BY <1>0, <2>1 DEF StoreCounts
  <2>3. OneTurn'
    BY <1>0, <2>1 DEF OneTurn
  <2>4. Growing'
    <3>1. stream => created = current + 1 /\ open = 0 /\ cexit # "ended"
      BY <1>0, <2>1 DEF Numbered, OneTurn
    <3>2. stream' = stream /\ got' = got /\ frames' = frames /\ open' = open /\ current' = created
      BY <2>1
    <3>3. ASSUME stream, NEW o \in Objects, NEW s \in Sources, o >= created PROVE frames[o][s] = 0
      <4>1. o > current
        BY <1>0, <3>1, <3>3, CountsAssumed DEF Objects
      <4>. QED BY <1>0, <3>3, <4>1 DEF Growing
    <3>4. \A o \in Objects : o \in Nat \ {0}
      BY CountsAssumed DEF Objects
    <3>. QED BY <1>0, <3>1, <3>2, <3>3, <3>4 DEF Growing
  <2>5. Enough'
    BY <1>0, <2>1 DEF Enough, Ample, FullUnits
  <2>. QED BY <2>2, <2>3, <2>4, <2>5 DEF EInv
<1>3. CASE OpenObject
  <2>1. /\ UNCHANGED <<capacity, linked, store, fsets, frames, stream, fpc, created, current,
                       ready, cexit, lost, dead>>
        /\ stream /\ cexit # "ended" /\ posted > 0 /\ posted' = posted - 1
        /\ open = 0 /\ open' = current /\ got' = [s \in Sources |-> 0]
    BY <1>3 DEF OpenObject, segment, naming
  <2>2. StoreCounts'
    BY <1>0, <2>1 DEF StoreCounts
  <2>3. fpc = "idle" /\ ready = 0 /\ posted = 1 /\ current >= 1
    BY <1>0, <2>1 DEF OneTurn, IInv, StoreTypes, Numbered
  <2>4. OneTurn'
    BY <1>0, <2>1, <2>3 DEF OneTurn
  <2>5. Growing'
    BY <1>0, <2>1, CountsAssumed DEF Growing, Objects
  <2>6. Enough'
    BY <1>0, <2>1 DEF Enough, Ample, FullUnits
  <2>. QED BY <2>2, <2>4, <2>5, <2>6 DEF EInv
<1>4. CASE CloseObject \/ CollectorEnds
  <2>1. /\ UNCHANGED <<capacity, linked, store, fsets, frames, stream, fpc, created, current,
                       got, posted, lost, dead>>
        /\ open # 0 /\ open' = 0 /\ ready' = ready + 1
        /\ cexit' = cexit \/ cexit' = "ended"
    BY <1>4 DEF CloseObject, CollectorEnds, segment, naming
  <2>2. StoreCounts'
    BY <1>0, <2>1 DEF StoreCounts
  <2>3. stream => fpc = "idle" /\ open = current /\ cexit # "ended"
    BY <1>0, <2>1 DEF OneTurn
  <2>4. OneTurn'
    BY <1>0, <2>1, <2>3 DEF OneTurn
  <2>5. Growing'
    <3>1. \A o \in Objects : o # 0
      BY CountsAssumed DEF Objects
    <3>. QED BY <1>0, <2>1, <2>3, <3>1 DEF Growing
  <2>6. Enough'
    BY <1>0, <2>1 DEF Enough, Ample, FullUnits
  <2>. QED BY <2>2, <2>4, <2>5, <2>6 DEF EInv
<1>. QED BY <1>1, <1>2, <1>3, <1>4

(* first_action makes an object, which has all its framesets if it may.    *)
LEMMA CreatesCounts ==
  ASSUME IInv, EInv, ConnectFirst \/ FirstCreates
  PROVE  EInv'
<1> USE DEF Naming, Turns
<1>0. /\ posted \in Nat /\ ready \in Nat /\ open \in Nat /\ current \in Nat /\ created \in Nat
      /\ StoreCounts /\ OneTurn /\ Growing /\ Enough /\ Numbered /\ store \subseteq Nat
  BY DEF IInv, EInv, StoreCounts, StoreTypes
<1>1. /\ UNCHANGED <<capacity, frames, stream, open, got, posted, ready, cexit, lost>>
      /\ fpc \in {"connect", "create"} /\ First \notin dead
      /\ \/ fpc = "connect" /\ fpc' = "idle" /\ (stream => current' = 1)
         \/ fpc = "create" /\ fpc' = "name" /\ current' = current /\ linked' = linked
  BY DEF ConnectFirst, FirstCreates, gather
<1>2. fpc = "connect" /\ stream => created = 0 /\ current = 0 /\ posted = 0 /\ open = 0
  BY <1>0 DEF OneTurn, Numbered
<1>3. stream => created' = created + 1 /\ created' \in Objects /\ NewObjectWithFramesets(created')
  <2>1. CASE ConnectFirst
    BY <2>1, <1>2, CountsAssumed DEF ConnectFirst, Objects
  <2>2. CASE FirstCreates
    BY <2>2, <1>0, CountsAssumed DEF FirstCreates, Objects
  <2>. QED BY <2>1, <2>2
<1>4. fsets' = [o \in Objects |-> fsets'[o]]
  <2>1. fsets' = fsets \/ \E o, n : fsets' = [fsets EXCEPT ![o] = n]
    BY DEF ConnectFirst, FirstCreates, NewObjectWithFramesets
  <2>. QED BY <2>1, <1>0 DEF StoreCounts
<1>5. StoreCounts'
  <2>1. stream => created' <= MaxObjects
    BY <1>3, CountsAssumed DEF Objects
  <2>. QED BY <1>0, <1>1, <1>4, <2>1 DEF StoreCounts
<1>6. OneTurn'
  BY <1>0, <1>1, <1>2 DEF OneTurn
<1>7. Growing'
  <2>1. ASSUME stream
        PROVE  /\ current' >= current
               /\ posted = 0 \/ (fpc = "create" /\ current' = current)
    BY <1>1, <1>2, <2>1, <1>0
  <2>2. \A o \in Objects : o \in Nat
    BY CountsAssumed DEF Objects
  <2>3. stream => current' \in Nat
    BY <1>0, <1>1
  <2>. QED BY <1>0, <1>1, <2>1, <2>2, <2>3 DEF Growing
<1>8. Enough'
  <2> SUFFICES ASSUME Ample PROVE Enough'
    BY <1>1 DEF Enough, Ample, FullUnits
  <2>1. stream /\ Room \in Int /\ Room > SourceCnt /\ Room >= 1
    BY <1>1, RoomForAll DEF Ample
  <2>2. /\ store' = store \cup {created'} /\ dead' = dead
        /\ fsets' = [fsets EXCEPT ![created'] = SourceCnt]
    BY <1>3, <2>1 DEF NewObjectWithFramesets
  <2>3. \A o \in store' : fsets'[o] = SourceCnt
    <3>1. store \subseteq Objects
      BY <1>0, <2>1, StoreIsBounded
    <3>2. fsets = [o \in Objects |-> fsets[o]] /\ \A o \in store : fsets[o] = SourceCnt
      BY <1>0 DEF Enough, StoreCounts
    <3>3. created' \in Objects
      BY <1>3, <2>1
    <3>. QED BY <2>2, <3>1, <3>2, <3>3
  <2>. QED BY <1>0, <1>1, <2>2, <2>3 DEF Enough
<1>. QED BY <1>5, <1>6, <1>7, <1>8 DEF EInv

(* A source adds a frame to the object at hand.                            *)
LEMMA AddFrameCounts ==
  ASSUME IInv, EInv, NEW s \in Sources, AddFrame(s)
  PROVE  EInv'
<1> USE DEF Naming, Turns
<1>0. /\ posted \in Nat /\ ready \in Nat /\ open \in Nat /\ current \in Nat /\ created \in Nat
      /\ StoreCounts /\ OneTurn /\ Growing /\ Enough /\ Numbered /\ AtHand
  BY DEF IInv, EInv, StoreCounts, StoreTypes
<1>1. /\ UNCHANGED <<capacity, linked, store, fsets, stream, fpc, created, current, open, posted, ready, cexit>>
      /\ First \notin dead /\ open > 2 /\ got[s] < Limit /\ got' = [got EXCEPT ![s] = got[s] + 1]
  BY DEF AddFrame, naming
<1>2. \/ linked /\ s <= fsets[open] /\ PutFrame(open, s) /\ dead' = dead
      \/ ~(linked /\ s <= fsets[open]) /\ Terminates(First) /\ frames' = frames /\ lost' = lost
  BY DEF AddFrame
<1>3. /\ lost' \in Nat
      /\ frames' = frames \/ frames' = [frames EXCEPT ![open][s] = frames[open][s] + 1]
  BY <1>0, <1>2 DEF PutFrame, StoreCounts
<1>4. StoreCounts'
  <2>1. got' \in [Sources -> Nat]
    BY <1>0, <1>1 DEF StoreCounts
  <2>2. frames' \in [Objects -> [Sources -> Nat]]
    <3>1. CASE open \in Objects
      <4>1. PICK n \in Nat : n = frames[open][s] + 1
        BY <1>0, <3>1 DEF StoreCounts
      <4>. QED BY <1>0, <1>3, <4>1 DEF StoreCounts
    <3>2. CASE open \notin Objects
      BY <1>0, <1>3, <3>2 DEF StoreCounts
    <3>. QED BY <3>1, <3>2
  <2>. QED BY <1>0, <1>1, <1>3, <2>1, <2>2 DEF StoreCounts
<1>5. OneTurn'
  BY <1>1, <1>0 DEF OneTurn
<1>6. stream => /\ open = current /\ fpc = "idle" /\ posted = 0 /\ cexit # "ended"
                /\ open \in Objects /\ open \in store
  <2>1. stream => open = current /\ fpc = "idle" /\ posted = 0 /\ cexit # "ended" /\ current <= created
    BY <1>0, <1>1 DEF OneTurn, Numbered
  <2>2. stream => open \in Objects
    BY <1>0, <1>1, <2>1, CountsAssumed DEF StoreCounts, Objects
  <2>. QED BY <1>0, <1>1, <2>1, <2>2 DEF AtHand, Collecting
<1>7. Growing'
  <2> SUFFICES ASSUME stream PROVE Growing'
    BY <1>1 DEF Growing
  <2>1. got[s] \in Nat /\ got[s] + 1 <= Limit /\ \A u \in Sources : got[u] \in Nat /\ got[u] <= Limit
    BY <1>0, <1>1, CountsAssumed DEF StoreCounts, Growing
  <2>2. \A u \in Sources : got'[u] = IF u = s THEN got[s] + 1 ELSE got[u]
    BY <1>0, <1>1 DEF StoreCounts
  <2>3. \A o \in Objects, u \in Sources :
          \/ frames'[o][u] = frames[o][u]
          \/ o = open /\ u = s /\ frames'[o][u] = frames[o][u] + 1
    BY <1>0, <1>3, <1>6 DEF StoreCounts
  <2>4. \A o \in Objects, u \in Sources :
          /\ frames[o][u] \in Nat /\ frames[o][u] <= Limit
          /\ o = open => frames[o][u] <= got[u]
          /\ o > current => frames[o][u] = 0
    BY <1>0 DEF Growing, StoreCounts
  <2>5. open = current /\ posted = 0 /\ UNCHANGED <<open, current, posted>> /\ current \in Nat
    BY <1>0, <1>1, <1>6
  <2>6. \A o \in Objects : o \in Nat
    BY CountsAssumed DEF Objects
  <2>7. ASSUME NEW o \in Objects, NEW u \in Sources
        PROVE  /\ frames'[o][u] <= Limit
               /\ o = open' => frames'[o][u] <= got'[u]
               /\ o > current' \/ (o = current' /\ posted' > 0 /\ cexit' # "ended") => frames'[o][u] = 0
    BY <2>1, <2>2, <2>3, <2>4, <2>5, <2>6, CountsAssumed
  <2>8. \A u \in Sources : got'[u] <= Limit
    BY <2>1, <2>2
  <2>. QED BY <2>7, <2>8 DEF Growing
<1>8. Enough'
  <2> SUFFICES ASSUME Ample PROVE Enough'
    BY <1>1 DEF Enough, Ample, FullUnits
  <2>1. open \in store /\ fsets[open] = SourceCnt /\ s <= SourceCnt /\ lost = 0
    BY <1>0, <1>6, CountsAssumed DEF Ample, Enough, Sources
  <2>2. frames[open][s] < Limit
    BY <1>0, <1>1, <1>6, CountsAssumed DEF Growing, StoreCounts, Ample
  <2>3. Room >= 1
    BY <2>1, <2>2, RoomForAll
  <2>4. linked => dead' = dead /\ lost' = lost
    BY <1>2, <2>1, <2>3 DEF PutFrame
  <2>5. ~linked => lost' = lost
    BY <1>2
  <2>. QED BY <1>0, <1>1, <2>1, <2>4, <2>5 DEF Enough
<1>. QED BY <1>4, <1>5, <1>7, <1>8 DEF EInv

LEMMA NextEInv == IInv /\ EInv /\ [Next]_vars => EInv'
<1> SUFFICES ASSUME IInv, EInv, [Next]_vars PROVE EInv'
  OBVIOUS
<1>. QED BY StillSteps, WithoutObjectCounts, HandedOver, CreatesCounts, AddFrameCounts DEF Next

(* A segment for DataCnt + 1 full objects is enough: the objects in it are *)
(* those that chunks name and the one at hand, and the collector fills no  *)
(* object beyond its limit, nor one that first_action has not made.        *)
THEOREM SegmentSuffices == Spec => []EnoughForAll
<1>1. Init => IInv /\ EInv
  BY InitIInv, InitEInv
<1>2. (IInv /\ EInv) /\ [Next]_vars => (IInv /\ EInv)'
  BY NextIInv, NextEInv
<1>3. IInv /\ EInv => EnoughForAll
  BY DEF EInv, Enough, Ample, EnoughForAll
<1>. QED BY <1>1, <1>2, <1>3, PTL DEF Spec
=============================================================================
