---------------------------- MODULE ObjectStore ----------------------------
(***************************************************************************)
(* The objects in the boost segment and the processes that pass their      *)
(* names through the pipeline: the first module's process creates an       *)
(* object, its sources add frames to it, the chunk of a job carries its    *)
(* name, middles look it up, the last module's process frees it and in the *)
(* end unlinks the segment (libstorage/src/storage_interface.cpp and the   *)
(* classes under it, dclprocessor/processor/src/dclprocessor_old.cpp).     *)
(* The chunks move as FrameFlow says, the sources stop adding to an object *)
(* before its name is passed on as Collector shows.  Objects are numbered  *)
(* by creation, a name that was never written is 0; memory is counted in   *)
(* units, one for an object, a frameset or a frame.                        *)
(***************************************************************************)
EXTENDS Integers, Sequences, FiniteSets

CONSTANTS
  LastStage,     \* steps 0 (first), 1..LastStage-2 (middles), LastStage-1 (last)
  DataCnt,       \* chunks
  SourceCnt,     \* sources of the collector
  Limit,         \* OBJECT_DETECTION_FRAME_LIMIT
  Capacities,    \* sizes the segment may have
  PointerUsers,  \* middles whose work follows the pointer get_object returns
  MaxObjects     \* bound: objects created

ASSUME StageAssumption == LastStage \in Nat /\ LastStage >= 2
ASSUME CountAssumption == {DataCnt, SourceCnt, Limit, MaxObjects} \subseteq Nat \ {0}
ASSUME CapacityAssumption == Capacities \subseteq Nat

VARIABLES
  free, flow, visited,  \* the chunks: see FrameFlow
  name,        \* the data of each chunk
  capacity,    \* size of the segment
  linked,      \* the segment can be opened by its name
  store,       \* the objects in the segment
  fsets,       \* the framesets each has: those of the sources 1..fsets[o]
  frames,      \* the frames in each of these
  stream,      \* first has a collector
  fpc,         \* where first_action is
  created,     \* objects numbered so far
  current,     \* collector->data
  open,        \* the object the sources add to, 0 if they wait for one
  got,         \* frames each source has delivered for it
  posted,      \* sem collector->empty_ready
  ready,       \* sem collector->data_ready
  cexit,       \* collector->exit_flag: "no", or raised as its sources have
               \* ended or as first leaves the pipeline
  lost,        \* frames the segment had no room for
  stops,       \* steps whose process has received STOP
  dead         \* steps whose process was ended by an exception or a fault

chunks  == <<free, flow, visited>>
segment == <<capacity, linked, store, fsets, frames>>
naming  == <<fpc, created, current>>
gather  == <<open, got, posted, ready>>
vars    == <<chunks, name, segment, stream, naming, gather, cexit, lost, stops, dead>>

Flow == INSTANCE FrameFlow

First   == 0
Last    == LastStage - 1
Middles == 1..LastStage - 2
Chunks  == 1..DataCnt
Sources == 1..SourceCnt
Objects == 1..MaxObjects

Init ==
  /\ Flow!Init
  /\ name = [c \in Chunks |-> 0]
  /\ capacity \in Capacities /\ linked = FALSE /\ store = {}
  /\ fsets = [o \in Objects |-> 0]
  /\ frames = [o \in Objects |-> [s \in Sources |-> 0]]
  /\ stream \in BOOLEAN
  /\ fpc = "connect" /\ created = 0 /\ current = 0
  /\ open = 0 /\ got = [s \in Sources |-> 0] /\ posted = 0 /\ ready = 1
  /\ cexit = "no" /\ lost = 0 /\ stops = 0 /\ dead = {}

-----------------------------------------------------------------------------
(* The segment (Ipc.h, ObjectDescriptor, Frameset).                        *)

\* what an object takes: itself, its framesets, and the frames of each
Units(o) ==
  {<<0, 0>>} \cup {<<s, 0>> : s \in 1..fsets[o]}
    \cup UNION {{<<s, n>> : n \in 1..frames[o][s]} : s \in Sources}
Used == UNION {{o} \X Units(o) : o \in store}
Room == capacity - Cardinality(Used)

\* findShared, and an object whose framesets and frames can be read by it
Findable(o) == linked /\ o \in store

FreeObject(o) == store' = store \ {o}

\* nobody catches what openSharedMemory or an invalid reference throws
Terminates(step) == dead' = dead \cup {step}

\* a new object with the framesets there is room for; the reference to an
\* object that could not be created is invalid
NewObjectWithFramesets(o) ==
  IF Room >= 1
  THEN /\ store' = store \cup {o}
       /\ fsets' = [fsets EXCEPT ![o] = IF Room > SourceCnt THEN SourceCnt ELSE Room - 1]
       /\ UNCHANGED dead
  ELSE Terminates(First) /\ UNCHANGED <<store, fsets>>

\* an addFrame without room is logged and the frame is gone
PutFrame(o, s) ==
  IF Room >= 1
  THEN frames' = [frames EXCEPT ![o][s] = @ + 1] /\ UNCHANGED lost
  ELSE lost' = lost + 1 /\ UNCHANGED frames

-----------------------------------------------------------------------------
(* The first module's process.                                             *)

\* connect_to_pipeline makes the segment anew
ConnectFirst ==
  /\ First \notin dead
  /\ fpc = "connect" /\ fpc' = "idle"
  /\ linked' = TRUE
  /\ IF stream
     THEN created' = 1 /\ current' = 1 /\ NewObjectWithFramesets(1)
     ELSE UNCHANGED <<created, current, store, fsets, dead>>
  /\ UNCHANGED <<chunks, name, capacity, frames, stream, gather, cexit, lost, stops>>

\* step s does its job on the k-th chunk under way
Job(k, s) == visited[flow[k]] = 0..s - 1 /\ Flow!Process(k, s)

Idle(k) ==
  /\ First \notin dead /\ fpc = "idle"
  /\ visited[flow[k]] = {} /\ \A older \in 1..k - 1 : visited[flow[older]] # {}

\* first_action with a collector that has ended does not write the name
FirstWithoutObject(k) ==
  /\ Idle(k) /\ stream /\ cexit # "no"
  /\ Job(k, First)
  /\ posted' = posted + 1
  /\ UNCHANGED <<name, segment, stream, naming, open, got, ready, cexit, lost, stops, dead>>

\* without a collector the new object's name is not written either
FirstWithoutStream(k) ==
  /\ Idle(k) /\ ~stream
  /\ created < MaxObjects
  /\ Job(k, First)
  /\ created' = created + 1
  /\ store' = IF Room >= 1 THEN store \cup {created + 1} ELSE store
  /\ UNCHANGED <<name, capacity, linked, fsets, frames, stream, fpc, current, gather, cexit, lost, stops, dead>>

FirstTakesObject(k) ==
  /\ Idle(k) /\ stream /\ cexit = "no"
  /\ ready > 0 /\ ready' = ready - 1
  /\ name' = [name EXCEPT ![flow[k]] = current]
  /\ fpc' = "create"
  /\ UNCHANGED <<chunks, segment, stream, created, current, open, got, posted, cexit, lost, stops, dead>>

FirstCreates ==
  /\ First \notin dead
  /\ fpc = "create" /\ fpc' = "name"
  /\ created < MaxObjects /\ created' = created + 1
  /\ NewObjectWithFramesets(created + 1)
  /\ UNCHANGED <<chunks, name, capacity, linked, frames, stream, current, gather, cexit, lost, stops>>

\* variant: the name is written after the next object has been created
FirstNamesNew(k) ==
  /\ First \notin dead
  /\ fpc = "name" /\ fpc' = "idle"
  /\ Job(k, First)
  /\ name' = [name EXCEPT ![flow[k]] = created]
  /\ current' = created
  /\ posted' = posted + 1
  /\ UNCHANGED <<segment, stream, created, open, got, ready, cexit, lost, stops, dead>>

FirstNames(k) ==
  /\ First \notin dead
  /\ fpc = "name" /\ fpc' = "idle"
  /\ Job(k, First)
  /\ current' = created
  /\ posted' = posted + 1
  /\ UNCHANGED <<name, segment, stream, created, open, got, ready, cexit, lost, stops, dead>>

\* the collector hands the current object to its sources ...
OpenObject ==
  /\ First \notin dead /\ stream /\ cexit # "ended"
  /\ posted > 0 /\ posted' = posted - 1
  /\ open = 0 /\ open' = current
  /\ got' = [s \in Sources |-> 0]
  /\ UNCHANGED <<chunks, name, segment, stream, naming, ready, cexit, lost, stops, dead>>

\* ... each of which adds Limit frames, but none to the second object, and
\* also while the pipeline stops; its frameset is taken by its index
AddFrame(s) ==
  /\ First \notin dead
  /\ open > 2 /\ got[s] < Limit
  /\ got' = [got EXCEPT ![s] = @ + 1]
  /\ IF linked /\ s <= fsets[open]
     THEN PutFrame(open, s) /\ UNCHANGED dead
     ELSE Terminates(First) /\ UNCHANGED <<frames, lost>>
  /\ UNCHANGED <<chunks, name, capacity, linked, store, fsets, stream, naming, open, posted, ready, cexit, stops>>

CloseObject ==
  /\ First \notin dead
  /\ open = 2 \/ (open > 2 /\ \A s \in Sources : got[s] = Limit)
  /\ open' = 0
  /\ ready' = ready + 1
  /\ UNCHANGED <<chunks, name, segment, stream, naming, got, posted, cexit, lost, stops, dead>>

\* the end of its only source ends the collector
CollectorEnds ==
  /\ First \notin dead /\ stream /\ SourceCnt = 1
  /\ cexit = "no" /\ cexit' = "ended"
  /\ open # 0 /\ open' = 0
  /\ ready' = ready + 1
  /\ UNCHANGED <<chunks, name, segment, stream, naming, got, posted, lost, stops, dead>>

-----------------------------------------------------------------------------
(* The other processes, the pipeline's ends and its STOP.                  *)

TakeChunk ==
  /\ stops = 0
  /\ Flow!Take
  /\ UNCHANGED <<name, segment, stream, naming, gather, cexit, lost, stops, dead>>

\* variant: a middle also frees the object
MiddleJobFrees(k, s) ==
  /\ s \in Middles \ dead
  /\ Findable(name[flow[k]])
  /\ Job(k, s)
  /\ FreeObject(name[flow[k]])
  /\ UNCHANGED <<name, capacity, linked, fsets, frames, stream, naming, gather, cexit, lost, stops, dead>>

\* get_object returns the address of its local reference: a middle that
\* follows it may as well fault; each then looks the name up to analyze it
MiddleJob(k, s) ==
  /\ s \in Middles \ dead
  /\ Findable(name[flow[k]])
  /\ Job(k, s)
  /\ UNCHANGED <<name, segment, stream, naming, gather, cexit, lost, stops, dead>>

MiddleDies(k, s) ==
  /\ s \in Middles \ dead
  /\ visited[flow[k]] = 0..s - 1
  /\ ~Findable(name[flow[k]]) \/ s \in PointerUsers
  /\ Terminates(s)
  /\ UNCHANGED <<chunks, name, segment, stream, naming, gather, cexit, lost, stops>>

\* variant: the last module leaves the object in the segment
LastJobKeeps(k) ==
  /\ Last \notin dead
  /\ Job(k, Last)
  /\ UNCHANGED <<name, segment, stream, naming, gather, cexit, lost, stops, dead>>

\* a name that is not found is no error here
LastJob(k) ==
  /\ Last \notin dead
  /\ Job(k, Last)
  /\ FreeObject(name[flow[k]])
  /\ UNCHANGED <<name, capacity, linked, fsets, frames, stream, naming, gather, cexit, lost, stops, dead>>

ReturnChunk ==
  /\ Flow!Release
  /\ UNCHANGED <<name, segment, stream, naming, gather, cexit, lost, stops, dead>>

\* STOP follows the last frame from step to step
StopStep ==
  /\ stops < LastStage /\ stops \notin dead
  /\ fpc = "idle"
  /\ \A k \in DOMAIN flow : stops \in visited[flow[k]]
  /\ stops' = stops + 1
  /\ cexit' = IF stops = First /\ stream /\ cexit = "no" THEN "leaving" ELSE cexit
  /\ UNCHANGED <<chunks, name, segment, stream, naming, gather, lost, dead>>

LastUnlinks ==
  /\ stops = LastStage /\ Last \notin dead
  /\ linked /\ linked' = FALSE
  /\ UNCHANGED <<chunks, name, capacity, store, fsets, frames, stream, naming, gather, cexit, lost, stops, dead>>

Next ==
  \/ ConnectFirst \/ FirstCreates \/ OpenObject \/ CloseObject \/ CollectorEnds
  \/ \E s \in Sources : AddFrame(s)
  \/ \E k \in DOMAIN flow :
       \/ FirstWithoutObject(k) \/ FirstWithoutStream(k) \/ FirstTakesObject(k)
       \/ FirstNames(k) \/ LastJob(k)
       \/ \E s \in Middles : MiddleJob(k, s) \/ MiddleDies(k, s)
  \/ TakeChunk \/ ReturnChunk \/ StopStep \/ LastUnlinks

Spec == Init /\ [][Next]_vars

-----------------------------------------------------------------------------
\* frames under way that carry a name and have not come to the last module
UnderWay == {c \in {flow[k] : k \in DOMAIN flow} : First \in visited[c] /\ Last \notin visited[c]}

(* The name in a chunk is the name of an object that exists, from the      *)
(* first module's job until the last one has freed it; only chunks passed  *)
(* on by a collector that has ended, or by a first module without one, may *)
(* hold the name of an earlier object.                                     *)
NamedObjectsExist ==
  \A c \in UnderWay : name[c] \in store \/ cexit = "ended" \/ ~stream

(* An object in the segment is the one being filled, the one just created  *)
(* for the next job, or has its name in a chunk that will come to the last *)
(* module: none stays behind.                                              *)
NoObjectLeft ==
  stream =>
    \A o \in store :
      \/ o \in {current, created}
      \/ \E c \in {flow[k] : k \in DOMAIN flow} : name[c] = o /\ Last \notin visited[c]

(* A segment for DataCnt + 1 full objects is enough, whatever the module   *)
(* that is late: no frame is lost and first never lacks room.              *)
FullUnits == 1 + SourceCnt * (1 + Limit)
EnoughForAll ==
  stream /\ capacity >= (DataCnt + 1) * FullUnits =>
    lost = 0 /\ (First \in dead => ~linked)
=============================================================================
