--------------------------- MODULE CollectorProofs ---------------------------
(***************************************************************************)
(* Collector's safety properties for every list of sources, every length   *)
(* of an object and every number of frames and jobs.                       *)
(***************************************************************************)
EXTENDS Collector, FiniteSetTheorems, TLAPS

B(p)      == IF p THEN 1 ELSE 0
Occ(q, o) == Cardinality({k \in DOMAIN q : q[k] = o})

CPlaces == {"none", "await", "hand", "head", "gather", "offer",
            "count", "decide", "flag", "reap", "last", "done"}
SPlaces == {"none", "start", "loop", "join", "done"}
KPlaces == {"none", "read", "post", "test", "await", "check", "add", "ended"}
PPlaces == {"init", "connect", "idle", "wait", "name", "join", "destroy",
            "joinSource", "done", "faulted"}

(* Types.                                                                  *)
CollectorTypes ==
  /\ N \in Nat \ {0}
  /\ cpc \in CPlaces /\ ci \in Sources /\ cexit \in BOOLEAN
  /\ cname \in Nat /\ cempty \in Nat /\ cready \in Nat
SourceTypes ==
  /\ spc \in [Sources -> SPlaces] /\ cap \in [Sources -> KPlaces]
  /\ live \in [Sources -> BOOLEAN] /\ inobj \in [Sources -> Nat]
  /\ sexit \in [Sources -> BOOLEAN] /\ sname \in [Sources -> Nat]
  /\ sempty \in [Sources -> Nat] /\ sready \in [Sources -> Nat]
  /\ dest \in [Sources -> Seq(Nat)]
ProcessTypes ==
  /\ ppc \in PPlaces /\ pi \in 1..N+1 /\ objects \in Nat /\ handed \in Seq(Nat)
Types == CollectorTypes /\ SourceTypes /\ ProcessTypes

(* The collector has seen its only source end, or has told all of them to. *)
Ending  == {"decide", "head", "flag", "reap", "last", "done"}
Leaving == {"join", "destroy", "joinSource", "done"}
Over    == cexit /\ cpc \in Ending /\ \A s \in Sources : sexit[s]

(* Which places of the two threads go together; an exit flag is raised by  *)
(* the collector's end or by main's leave of the pipeline, that of a       *)
(* source which still captures only when no further object is handed out.  *)
Places ==
  /\ ppc \in {"init", "faulted"} => cpc = "none"
  /\ ppc \notin {"init", "faulted"} => pi \in Sources /\ cpc # "none"
  /\ ppc \in {"destroy", "joinSource", "done"} => cpc = "done"
  /\ cpc \in {"none", "await", "head", "offer", "count", "decide", "last", "done"} => ci = 1
  /\ cpc = "none" => cempty = 0 /\ cready = 0 /\ ~cexit
  /\ cpc \in {"flag", "reap", "last", "done"} => cexit
  /\ cexit => Over \/ ppc \in Leaving

Told(s) == \/ cpc \in {"last", "done"}
           \/ cpc \in {"flag", "reap"} /\ s < ci
           \/ cpc = "reap" /\ s = ci

SourcePlaces(s) ==
  /\ cpc = "none" => sempty[s] = 0 /\ cap[s] = "none"
  /\ spc[s] \in {"none", "start"} => cap[s] = "none"
  /\ spc[s] = "loop" /\ ~Tcp(s) /\ ~sexit[s] => live[s]
  /\ cap[s] = "ended" /\ Tcp(s) => sexit[s]
  /\ Told(s) => sexit[s]
  /\ sexit[s] /\ cap[s] # "ended" => cexit /\ cpc \in Ending \ {"decide"}

(* The object being filled is with one thread only: to be named by main,   *)
(* to be handed out, with the collector or to be taken by the next job.    *)
ObjectToken ==
  cpc # "none" /\ ~Over =>
    cempty + cready + B(ppc = "name")
      + B(cpc \in {"hand", "head", "gather", "offer", "flag", "reap"}) = 1

(* The names the sources have, against the object named last.              *)
Handable(n) == IF n < 2 THEN 0 ELSE n
Names ==
  /\ cname = objects
  /\ ppc \in {"init", "connect", "faulted"} <=> objects = 0
  /\ cempty > 0 \/ cpc \notin {"none", "await"} => cname >= 2
NameOf(s) ==
  ~Over =>
    sname[s] = IF cempty > 0 \/ (cpc = "hand" /\ s >= ci) THEN Handable(cname - 1) ELSE Handable(cname)

(* The same for a source that has not ended: its object is with the        *)
(* collector, handed to it, being filled or reported as full.              *)
Holds(s) ==
  \/ cpc \in {"none", "await", "offer", "count", "decide"}
  \/ cpc = "hand" /\ s >= ci
  \/ cpc = "gather" /\ s < ci
Working == {"read", "post", "check", "add", "ended"}
SourceToken(s) ==
  ~sexit[s] => sempty[s] + sready[s] + B(cap[s] \in Working) + B(Holds(s)) = 1

(* What it has filled: all objects before its own, and its own as far as   *)
(* its count of frames says.                                               *)
InObject(s) ==
  IF cap[s] \in Working THEN inobj[s]
  ELSE IF sname[s] < 3 \/ sempty[s] > 0 THEN 0 ELSE Limit
LastOf(q) == IF q = <<>> THEN 2 ELSE q[Len(q)]

Counting(s) ==
  /\ cap[s] \in {"none", "test", "await"} => inobj[s] = 0
  /\ cap[s] = "none" => sname[s] = IF sempty[s] > 0 THEN 2 ELSE 0
  /\ cap[s] # "none" => sname[s] >= 2
  /\ cap[s] \in Working /\ sname[s] = 2 => cap[s] \in {"read", "post", "ended"} /\ inobj[s] = 0
  /\ cap[s] \in {"read", "post", "ended"} /\ sname[s] >= 3 => inobj[s] \in 1..Limit
  /\ cap[s] = "post" /\ sname[s] >= 3 => inobj[s] = Limit
  /\ cap[s] \in {"check", "add"} => sname[s] >= 3 /\ inobj[s] < Limit
  /\ cap[s] \in {"test", "await"} /\ sempty[s] > 0 => sname[s] >= 3
Filled(s) ==
  /\ sname[s] < 3 => dest[s] = <<>>
  /\ \A k \in DOMAIN dest[s] : dest[s][k] \in 3..sname[s]
  /\ \A o \in Nat : o >= 3 =>
       Occ(dest[s], o) = IF o < sname[s] THEN Limit ELSE IF o = sname[s] THEN InObject(s) ELSE 0
  /\ sname[s] >= 2 =>
       LastOf(dest[s]) = IF sname[s] >= 3 /\ InObject(s) = 0 THEN sname[s] - 1 ELSE sname[s]
Filling(s) == ~sexit[s] => Counting(s) /\ Filled(s)

(* A frame about to be added goes on from the last one; none has gone to   *)
(* the first two objects.                                                  *)
Adding(s) ==
  /\ cap[s] = "add" => /\ sname[s] >= 3 /\ sname[s] \in {LastOf(dest[s]), LastOf(dest[s]) + 1}
                       /\ \A k \in DOMAIN dest[s] : dest[s][k] # 0
  /\ \A k \in DOMAIN dest[s] : dest[s][k] = 0 \/ dest[s][k] >= 3

(* Jobs are numbered like the objects they pass on.                        *)
Jobs ==
  /\ ppc = "idle" /\ ~cexit => Len(handed) = objects - 1
  /\ ppc = "wait" => Len(handed) = objects - 1
  /\ ppc = "name" => Len(handed) = objects
  /\ ppc \in {"init", "connect", "faulted"} => handed = <<>>

IInv ==
  /\ Types /\ Places /\ ObjectToken /\ Names /\ Jobs
  /\ \A s \in Sources : /\ SourcePlaces(s) /\ NameOf(s) /\ SourceToken(s)
                        /\ Filling(s) /\ Adding(s)
  /\ FullObjects /\ FramesInOrder

-----------------------------------------------------------------------------
(* A frame appended is counted for its object only.                        *)
LEMMA OccAppend ==
  ASSUME NEW q \in Seq(Nat), NEW x \in Nat, NEW o \in Nat
  PROVE  /\ Occ(q, o) \in Nat
         /\ Occ(Append(q, x), o) = Occ(q, o) + IF x = o THEN 1 ELSE 0
  <1> DEFINE D == {k \in DOMAIN q : q[k] = o}
             E == {k \in DOMAIN Append(q, x) : Append(q, x)[k] = o}
  <1>1. IsFiniteSet(D) /\ Cardinality(D) \in Nat
    <2>1. IsFiniteSet(1..Len(q))
      BY FS_Interval
    <2>2. D \subseteq 1..Len(q)
      OBVIOUS
    <2>3. QED
      BY <2>1, <2>2, FS_Subset, FS_CardinalityType
  <1>2. E = IF x = o THEN D \cup {Len(q) + 1} ELSE D
    OBVIOUS
  <1>3. Len(q) + 1 \notin D
    OBVIOUS
  <1> HIDE DEF D, E
  <1>4. Cardinality(D \cup {Len(q) + 1}) = Cardinality(D) + 1
    BY <1>1, <1>3, FS_AddElement
  <1>5. Cardinality(E) = Cardinality(D) + IF x = o THEN 1 ELSE 0
    BY <1>1, <1>2, <1>4
  <1>6. QED
    BY <1>1, <1>5 DEF Occ, D, E

(* No frame is counted before the first one.                               *)
LEMMA OccEmpty ==
  ASSUME NEW o \in Nat
  PROVE  Occ(<<>>, o) = 0
  <1>1. {k \in DOMAIN <<>> : <<>>[k] = o} = {}
    OBVIOUS
  <1>2. QED
    BY <1>1, FS_EmptySet DEF Occ

(* The object of the frame appended last.                                  *)
LEMMA LastAppend ==
  ASSUME NEW q \in Seq(Nat), NEW x \in Nat
  PROVE  LastOf(Append(q, x)) = x
  BY DEF LastOf

(* Nothing is captured before collector_init.                              *)
LEMMA InitIInv == Init => IInv
  <1> SUFFICES ASSUME Init PROVE IInv
    OBVIOUS
  <1>1. N \in Nat \ {0} /\ 1 \in Sources
    BY DescriptionsAssumption DEF Init, N, Sources
  <1>2. Types
    <2>1. CollectorTypes
      BY <1>1 DEF Init, CollectorTypes, CPlaces
    <2>2. SourceTypes
      BY DEF Init, SourceTypes, SPlaces, KPlaces
    <2>3. ProcessTypes
      BY <1>1 DEF Init, ProcessTypes, PPlaces
    <2>4. QED
      BY <2>1, <2>2, <2>3 DEF Types
  <1>3. Places /\ ObjectToken /\ Names /\ Jobs
    BY <1>1 DEF Init, Places, ObjectToken, Names, Jobs, Leaving
  <1>4. ASSUME NEW s \in Sources
        PROVE  SourcePlaces(s) /\ NameOf(s) /\ SourceToken(s) /\ Filling(s) /\ Adding(s)
    BY OccEmpty DEF Init, SourcePlaces, NameOf, SourceToken, Filling, Adding, Told, Handable,
       Holds, Working, B,
       Counting, Filled, InObject, LastOf
  <1>5. FullObjects /\ FramesInOrder
    BY DEF Init, FullObjects, FramesInOrder
  <1>6. QED
    BY <1>2, <1>3, <1>4, <1>5 DEF IInv

-----------------------------------------------------------------------------
(* Steps.                                                                  *)
SourceMoves(s) == CaptureStep(s) \/ CaptureFails(s) \/ SourceStep(s)
ProcessMoves   == ProcessStep \/ BeginJob \/ LeavePipeline

(* A step is one of the collector's, a source's or main's thread.          *)
LEMMA Moves ==
  ASSUME [Next]_vars
  PROVE  \/ CollectorStep
         \/ \E s \in Sources : SourceMoves(s)
         \/ ProcessMoves
         \/ UNCHANGED vars
  BY DEF Next, SourceMoves, ProcessMoves

(* The configured list of sources never changes.                           *)
LEMMA ListKept ==
  ASSUME [Next]_vars
  PROVE  desc' = desc /\ N' = N /\ Sources' = Sources
  <1>1. CASE CollectorStep
    BY <1>1 DEF CollectorStep, CGoto, CLoop, AwaitEmpty, HandObject, TestCollectorExit,
       GatherSource, OfferObject, CountEnded, DecideRound, FlagSource, ReapSource, EndCollector,
       N, Sources
  <1>2. ASSUME NEW s \in Sources, SourceMoves(s)
        PROVE  desc' = desc
    BY <1>2 DEF CaptureStep, SourceMoves, SourceStep, SGoto, KGoto, CountFrame, FrameArrives,
       CaptureEnds, EndObject, TestSourceExit, AwaitObject, TestBeforeAdd, AddFrame,
       CaptureFails, StartSource, EndTcpSource, StopCamera, JoinStream
  <1>3. CASE ProcessMoves
    BY <1>3 DEF ProcessMoves, ProcessStep, PGoto, InitSource, StartCollector, ConnectFirst,
       TakeObject, NameObject, JoinCollector, DestroySource, JoinSource, BeginJob,
       LeavePipeline, N, Sources
  <1>4. CASE UNCHANGED vars
    BY <1>4 DEF vars, N, Sources
  <1>5. QED
    BY <1>1, <1>2, <1>3, <1>4, Moves DEF N, Sources

(* No step leaves the types.                                               *)
LEMMA NextTypes ==
  ASSUME Types, Places, [Next]_vars
  PROVE  Types'
  <1>0. N' = N /\ Sources' = Sources
    BY ListKept
  <1>1. CASE CollectorStep
    <2>1. CASE AwaitEmpty
      BY <2>1, <1>0 DEF AwaitEmpty, CGoto, CPlaces, Types, CollectorTypes, SourceTypes,
         ProcessTypes, collector, threads, source, process
    <2>2. CASE HandObject
      <3>1. CollectorTypes'
        BY <2>2, <1>0 DEF HandObject, CLoop, Plus, CPlaces, Sources, Types, CollectorTypes,
           collector
      <3>2. SourceTypes'
        BY <2>2, <1>0 DEF HandObject, CLoop, Plus, Types, SourceTypes, threads, source,
           CollectorTypes
      <3>3. ProcessTypes'
        BY <2>2, <1>0 DEF HandObject, CLoop, Plus, CPlaces, Sources, Types, ProcessTypes,
           process, CollectorTypes
      <3>4. QED
        BY <3>1, <3>2, <3>3 DEF Types
    <2>3. CASE TestCollectorExit
      BY <2>3, <1>0 DEF TestCollectorExit, CGoto, CPlaces, Types, CollectorTypes, SourceTypes,
         ProcessTypes, collector, threads, source, process
    <2>4. CASE GatherSource
      <3>1. CollectorTypes'
        BY <2>4, <1>0 DEF GatherSource, CLoop, Minus, CPlaces, Sources, Types,
           CollectorTypes, collector
      <3>2. SourceTypes'
        BY <2>4, <1>0 DEF GatherSource, CLoop, Minus, Types, SourceTypes, threads, source,
           CollectorTypes
      <3>3. ProcessTypes'
        BY <2>4, <1>0 DEF GatherSource, CLoop, Minus, CPlaces, Sources, Types, ProcessTypes,
           process, CollectorTypes
      <3>4. QED
        BY <3>1, <3>2, <3>3 DEF Types
    <2>5. CASE OfferObject
      BY <2>5, <1>0 DEF OfferObject, CGoto, CPlaces, Types, CollectorTypes, SourceTypes,
         ProcessTypes, collector, threads, source, process
    <2>6. CASE CountEnded
      BY <2>6, <1>0 DEF CountEnded, CGoto, CPlaces, Types, CollectorTypes, SourceTypes,
         ProcessTypes, collector, threads, source, process
    <2>7. CASE DecideRound
      BY <2>7, <1>0 DEF DecideRound, CGoto, CPlaces, Types, CollectorTypes, SourceTypes,
         ProcessTypes, collector, threads, source, process
    <2>8. CASE FlagSource
      BY <2>8, <1>0 DEF FlagSource, CGoto, CPlaces, Sources, Types, CollectorTypes,
         SourceTypes, ProcessTypes, collector, threads, source, process
    <2>9. CASE ReapSource
      <3>1. CollectorTypes'
        BY <2>9, <1>0 DEF ReapSource, Minus, CPlaces, Sources, Types, CollectorTypes,
           collector
      <3>2. SourceTypes'
        BY <2>9, <1>0 DEF ReapSource, Minus, Types, SourceTypes, threads, source,
           CollectorTypes
      <3>3. ProcessTypes'
        BY <2>9, <1>0 DEF ReapSource, Minus, CPlaces, Sources, Types, ProcessTypes, process,
           CollectorTypes
      <3>4. QED
        BY <3>1, <3>2, <3>3 DEF Types
    <2>10. CASE EndCollector
      BY <2>10, <1>0 DEF EndCollector, CGoto, CPlaces, Types, CollectorTypes, SourceTypes,
         ProcessTypes, collector, threads, source, process
    <2>11. QED
      BY <2>1, <2>2, <2>3, <2>4, <2>5, <2>6, <2>7, <2>8, <2>9, <2>10, <1>1 DEF CollectorStep
  <1>2. ASSUME NEW s \in Sources, SourceMoves(s)
        PROVE  Types'
    <2>1. CASE FrameArrives(s)
      BY <2>1, <1>0 DEF FrameArrives, KGoto, KPlaces, Types, CollectorTypes, SourceTypes,
         ProcessTypes, collector, threads, source, process
    <2>2. CASE CaptureEnds(s)
      BY <2>2, <1>0 DEF CaptureEnds, KGoto, KPlaces, Types, CollectorTypes, SourceTypes,
         ProcessTypes, collector, threads, source, process
    <2>3. CASE EndObject(s)
      BY <2>3, <1>0, SMTT(30) DEF EndObject, KGoto, Plus, KPlaces, Types, CollectorTypes, SourceTypes,
         ProcessTypes, collector, threads, source, process
    <2>4. CASE TestSourceExit(s)
      BY <2>4, <1>0 DEF TestSourceExit, KGoto, KPlaces, Types, CollectorTypes, SourceTypes,
         ProcessTypes, collector, threads, source, process
    <2>5. CASE AwaitObject(s)
      BY <2>5, <1>0, SMTT(30) DEF AwaitObject, KGoto, Minus, KPlaces, Types, CollectorTypes,
         SourceTypes, ProcessTypes, collector, threads, source, process
    <2>6. CASE TestBeforeAdd(s)
      <3>1. CollectorTypes'
        BY <2>6, <1>0 DEF TestBeforeAdd, KGoto, CountFrame, KPlaces, Types, CollectorTypes,
           collector
      <3>2. SourceTypes'
        <4>1. CASE sexit[s]
          <5>1. /\ CountFrame(s, 0) /\ cap' = [cap EXCEPT ![s] = "read"]
                /\ UNCHANGED <<spc, live, sexit, sname, sempty, sready>>
            BY <2>6, <4>1 DEF TestBeforeAdd, KGoto, source
          <5>2. QED
            BY <5>1, <1>0 DEF CountFrame, KPlaces, Types, SourceTypes
        <4>2. CASE ~sexit[s]
          BY <2>6, <4>2, <1>0 DEF TestBeforeAdd, KGoto, KPlaces, Types, SourceTypes, source
        <4>3. QED
          BY <4>1, <4>2
      <3>3. ProcessTypes'
        BY <2>6, <1>0 DEF TestBeforeAdd, KGoto, CountFrame, KPlaces, Types, ProcessTypes,
           process, CollectorTypes
      <3>4. QED
        BY <3>1, <3>2, <3>3 DEF Types
    <2>7. CASE AddFrame(s)
      BY <2>7, <1>0, SMTT(30) DEF AddFrame, KGoto, CountFrame, KPlaces, Types, CollectorTypes,
         SourceTypes, ProcessTypes, collector, threads, source, process
    <2>8. CASE CaptureFails(s)
      BY <2>8, <1>0 DEF CaptureFails, KGoto, KPlaces, Types, CollectorTypes, SourceTypes,
         ProcessTypes, collector, threads, source, process
    <2>9. CASE StartSource(s)
      BY <2>9, <1>0, SMTT(30) DEF StartSource, SGoto, Minus, SPlaces, KPlaces, Types, CollectorTypes,
         SourceTypes, ProcessTypes, collector, threads, source, process
    <2>10. CASE EndTcpSource(s)
      BY <2>10, <1>0, SMTT(30) DEF EndTcpSource, SGoto, Plus, SPlaces, Types, CollectorTypes,
         SourceTypes, ProcessTypes, collector, threads, source, process
    <2>11. CASE StopCamera(s)
      BY <2>11, <1>0, SMTT(30) DEF StopCamera, SGoto, Plus, SPlaces, Types, CollectorTypes, SourceTypes,
         ProcessTypes, collector, threads, source, process
    <2>12. CASE JoinStream(s)
      BY <2>12, <1>0 DEF JoinStream, SGoto, SPlaces, Types, CollectorTypes, SourceTypes,
         ProcessTypes, collector, threads, source, process
    <2>13. QED
      BY <2>1, <2>2, <2>3, <2>4, <2>5, <2>6, <2>7, <2>8, <2>9, <2>10, <2>11, <2>12, <1>2 DEF
         SourceMoves, CaptureStep, SourceStep
  <1>3. CASE ProcessMoves
    <2>1. CASE InitSource
      <3>1. CollectorTypes'
        BY <2>1, <1>0 DEF InitSource, PPlaces, Places, Sources, SPlaces, Types,
           CollectorTypes, collector, ProcessTypes
      <3>2. SourceTypes'
        BY <2>1, <1>0 DEF InitSource, Places, Sources, SPlaces, Types, SourceTypes, threads,
           source, CollectorTypes, ProcessTypes
      <3>3. ProcessTypes'
        BY <2>1, <1>0 DEF InitSource, PPlaces, Places, Sources, SPlaces, Types,
           ProcessTypes, process, CollectorTypes
      <3>4. QED
        BY <3>1, <3>2, <3>3 DEF Types
    <2>2. CASE StartCollector
      <3>1. CollectorTypes'
        BY <2>2, <1>0 DEF StartCollector, PGoto, PPlaces, Places, Sources, CPlaces, Types,
           CollectorTypes, collector, ProcessTypes
      <3>2. SourceTypes'
        BY <2>2, <1>0 DEF StartCollector, PGoto, Places, Types, SourceTypes, threads,
           source, CollectorTypes, ProcessTypes
      <3>3. ProcessTypes'
        BY <2>2, <1>0 DEF StartCollector, PGoto, PPlaces, Places, Sources, CPlaces, Types,
           ProcessTypes, process, CollectorTypes
      <3>4. QED
        BY <3>1, <3>2, <3>3 DEF Types
    <2>3. CASE ConnectFirst
      BY <2>3, <1>0 DEF ConnectFirst, PGoto, PPlaces, Places, Sources, Types, CollectorTypes,
         SourceTypes, ProcessTypes, collector, threads, source, process
    <2>4. CASE TakeObject
      <3>1. CollectorTypes'
        BY <2>4, <1>0 DEF TakeObject, PGoto, PPlaces, Places, Sources, Types,
           CollectorTypes, collector, ProcessTypes
      <3>2. SourceTypes'
        BY <2>4, <1>0 DEF TakeObject, PGoto, Places, Types, SourceTypes, threads, source,
           CollectorTypes, ProcessTypes
      <3>3. ProcessTypes'
        BY <2>4, <1>0 DEF TakeObject, PGoto, PPlaces, Places, Sources, Types, ProcessTypes,
           process, CollectorTypes
      <3>4. QED
        BY <3>1, <3>2, <3>3 DEF Types
    <2>5. CASE NameObject
      <3>1. CollectorTypes'
        BY <2>5, <1>0 DEF NameObject, PGoto, PPlaces, Places, Sources, Types,
           CollectorTypes, collector, ProcessTypes
      <3>2. SourceTypes'
        BY <2>5, <1>0 DEF NameObject, PGoto, Places, Types, SourceTypes, threads, source,
           CollectorTypes, ProcessTypes
      <3>3. ProcessTypes'
        BY <2>5, <1>0 DEF NameObject, PGoto, PPlaces, Places, Sources, Types, ProcessTypes,
           process, CollectorTypes
      <3>4. QED
        BY <3>1, <3>2, <3>3 DEF Types
    <2>6. CASE JoinCollector
      BY <2>6, <1>0 DEF JoinCollector, PGoto, PPlaces, Places, Sources, Types, CollectorTypes,
         SourceTypes, ProcessTypes, collector, threads, source, process
    <2>7. CASE DestroySource
      <3>1. CollectorTypes'
        BY <2>7, <1>0 DEF DestroySource, PGoto, Plus, PPlaces, Places, Sources, Types,
           CollectorTypes, collector, ProcessTypes
      <3>2. SourceTypes'
        <4>1. pi \in Sources
          BY <2>7 DEF DestroySource, PGoto, Places
        <4>2. sempty' \in [Sources -> Nat]
          BY <2>7, <4>1 DEF DestroySource, Plus, Types, SourceTypes
        <4>3. QED
          BY <2>7, <4>1, <4>2, <1>0 DEF DestroySource, Types, SourceTypes
      <3>3. ProcessTypes'
        BY <2>7, <1>0 DEF DestroySource, PGoto, Plus, PPlaces, Places, Sources, Types,
           ProcessTypes, process, CollectorTypes
      <3>4. QED
        BY <3>1, <3>2, <3>3 DEF Types
    <2>8. CASE JoinSource
      <3>1. CollectorTypes'
        BY <2>8, <1>0 DEF JoinSource, PPlaces, Places, Sources, Types, CollectorTypes,
           collector, ProcessTypes
      <3>2. SourceTypes'
        BY <2>8, <1>0 DEF JoinSource, Places, Types, SourceTypes, threads, source,
           CollectorTypes, ProcessTypes
      <3>3. ProcessTypes'
        BY <2>8, <1>0 DEF JoinSource, PPlaces, Places, Sources, Types, ProcessTypes,
           process, CollectorTypes
      <3>4. QED
        BY <3>1, <3>2, <3>3 DEF Types
    <2>9. CASE BeginJob
      <3>1. CollectorTypes'
        BY <2>9, <1>0 DEF BeginJob, PPlaces, Places, Sources, Types, CollectorTypes,
           collector, ProcessTypes
      <3>2. SourceTypes'
        BY <2>9, <1>0 DEF BeginJob, Places, Types, SourceTypes, threads, source,
           CollectorTypes, ProcessTypes
      <3>3. ProcessTypes'
        BY <2>9, <1>0 DEF BeginJob, PPlaces, Types, ProcessTypes, process, CollectorTypes
      <3>4. QED
        BY <3>1, <3>2, <3>3 DEF Types
    <2>10. CASE LeavePipeline
      BY <2>10, <1>0 DEF LeavePipeline, PGoto, PPlaces, Places, Sources, Types,
         CollectorTypes, SourceTypes, ProcessTypes, collector, threads, source, process
    <2>11. QED
      BY <2>1, <2>2, <2>3, <2>4, <2>5, <2>6, <2>7, <2>8, <2>9, <2>10, <1>3 DEF ProcessMoves,
         ProcessStep
  <1>4. CASE UNCHANGED vars
    BY <1>0, <1>4 DEF vars, collector, threads, source, process, Types, CollectorTypes,
       SourceTypes, ProcessTypes
  <1>5. QED
    BY <1>1, <1>2, <1>3, <1>4, Moves

(* The part of the state that is a single source.                          *)
Same(r) ==
  /\ spc'[r] = spc[r] /\ cap'[r] = cap[r] /\ live'[r] = live[r] /\ inobj'[r] = inobj[r]
  /\ sexit'[r] = sexit[r] /\ sname'[r] = sname[r] /\ sempty'[r] = sempty[r]
  /\ sready'[r] = sready[r] /\ dest'[r] = dest[r]

(* A step of a source touches neither the other sources nor the collector. *)
LEMMA SourceFrame ==
  ASSUME Types, NEW s \in Sources, SourceMoves(s)
  PROVE  /\ UNCHANGED <<collector, process, sname>>
         /\ sexit[s] => sexit'[s]
         /\ \A r \in Sources \ {s} : Same(r)
  <1>1. CASE FrameArrives(s)
    BY <1>1 DEF FrameArrives, KGoto, source, threads, Same, Types, SourceTypes
  <1>2. CASE CaptureEnds(s)
    BY <1>2 DEF CaptureEnds, KGoto, source, threads, Same, Types, SourceTypes
  <1>3. CASE EndObject(s)
    BY <1>3 DEF EndObject, KGoto, Plus, source, threads, Same, Types, SourceTypes
  <1>4. CASE TestSourceExit(s)
    BY <1>4 DEF TestSourceExit, KGoto, source, threads, Same, Types, SourceTypes
  <1>5. CASE AwaitObject(s)
    BY <1>5 DEF AwaitObject, KGoto, Minus, source, threads, Same, Types, SourceTypes
  <1>6. CASE TestBeforeAdd(s)
    BY <1>6 DEF TestBeforeAdd, KGoto, CountFrame, source, threads, Same, Types, SourceTypes
  <1>7. CASE AddFrame(s)
    BY <1>7 DEF AddFrame, KGoto, CountFrame, source, threads, Same, Types, SourceTypes
  <1>8. CASE CaptureFails(s)
    BY <1>8 DEF CaptureFails, KGoto, source, threads, Same, Types, SourceTypes
  <1>9. CASE StartSource(s)
    BY <1>9 DEF StartSource, SGoto, Minus, source, threads, Same, Types, SourceTypes
  <1>10. CASE EndTcpSource(s)
    BY <1>10 DEF EndTcpSource, SGoto, Plus, source, threads, Same, Types, SourceTypes
  <1>11. CASE StopCamera(s)
    BY <1>11 DEF StopCamera, SGoto, Plus, source, threads, Same, Types, SourceTypes
  <1>12. CASE JoinStream(s)
    BY <1>12 DEF JoinStream, SGoto, source, threads, Same, Types, SourceTypes
  <1>13. QED
    BY <1>1, <1>2, <1>3, <1>4, <1>5, <1>6, <1>7, <1>8, <1>9, <1>10, <1>11, <1>12 DEF
       SourceMoves, CaptureStep, SourceStep

(* Flags are never taken back.                                             *)
LEMMA FlagsStay ==
  ASSUME Types, Places, [Next]_vars, NEW r \in Sources
  PROVE  (cexit => cexit') /\ (sexit[r] => sexit'[r])
  <1>1. CASE CollectorStep
    <2>1. CASE AwaitEmpty
      BY <2>1 DEF AwaitEmpty, CGoto, source, Types, SourceTypes
    <2>2. CASE HandObject
      BY <2>2 DEF HandObject, CLoop, Plus, source, Types, SourceTypes
    <2>3. CASE TestCollectorExit
      BY <2>3 DEF TestCollectorExit, CGoto, source, Types, SourceTypes
    <2>4. CASE GatherSource
      BY <2>4 DEF GatherSource, CLoop, Minus, source, Types, SourceTypes
    <2>5. CASE OfferObject
      BY <2>5 DEF OfferObject, CGoto, source, Types, SourceTypes
    <2>6. CASE CountEnded
      BY <2>6 DEF CountEnded, CGoto, source, Types, SourceTypes
    <2>7. CASE DecideRound
      BY <2>7 DEF DecideRound, CGoto, source, Types, SourceTypes
    <2>8. CASE FlagSource
      BY <2>8 DEF FlagSource, CGoto, source, Types, SourceTypes
    <2>9. CASE ReapSource
      BY <2>9 DEF ReapSource, Minus, source, Types, SourceTypes
    <2>10. CASE EndCollector
      BY <2>10 DEF EndCollector, CGoto, source, Types, SourceTypes
    <2>11. QED
      BY <2>1, <2>2, <2>3, <2>4, <2>5, <2>6, <2>7, <2>8, <2>9, <2>10, <1>1 DEF CollectorStep
  <1>2. ASSUME NEW s \in Sources, SourceMoves(s)
        PROVE  (cexit => cexit') /\ (sexit[r] => sexit'[r])
    BY <1>2, SourceFrame DEF Same, collector
  <1>3. CASE ProcessMoves
    <2>1. CASE InitSource
      BY <2>1 DEF InitSource, collector, source, Types, SourceTypes
    <2>2. CASE StartCollector
      BY <2>2 DEF StartCollector, PGoto, collector, source, Types, SourceTypes
    <2>3. CASE ConnectFirst
      BY <2>3 DEF ConnectFirst, PGoto, collector, source, Types, SourceTypes
    <2>4. CASE TakeObject
      BY <2>4 DEF TakeObject, PGoto, collector, source, Types, SourceTypes
    <2>5. CASE NameObject
      BY <2>5 DEF NameObject, PGoto, collector, source, Types, SourceTypes
    <2>6. CASE JoinCollector
      BY <2>6 DEF JoinCollector, PGoto, collector, source, Types, SourceTypes
    <2>7. CASE DestroySource
      BY <2>7 DEF DestroySource, PGoto, Plus, collector, source, Types, SourceTypes
    <2>8. CASE JoinSource
      BY <2>8 DEF JoinSource, collector, source, Types, SourceTypes
    <2>9. CASE BeginJob
      BY <2>9 DEF BeginJob, collector, source, Types, SourceTypes
    <2>10. CASE LeavePipeline
      BY <2>10 DEF LeavePipeline, PGoto, collector, source, Types, SourceTypes
    <2>11. QED
      BY <2>1, <2>2, <2>3, <2>4, <2>5, <2>6, <2>7, <2>8, <2>9, <2>10, <1>3 DEF ProcessMoves,
         ProcessStep
  <1>4. CASE UNCHANGED vars
    BY <1>4 DEF vars, collector, source
  <1>5. QED
    BY <1>1, <1>2, <1>3, <1>4, Moves

(* No step takes a thread to a place the others exclude.                   *)
LEMMA NextPlaces ==
  ASSUME Types, Places, \A s \in Sources : SourcePlaces(s), [Next]_vars
  PROVE  Places'
  <1>0. desc' = desc /\ N' = N /\ Sources' = Sources
    BY ListKept
  <1>1. CASE CollectorStep
    <2>1. CASE AwaitEmpty
      BY <2>1, <1>0 DEF AwaitEmpty, CGoto, Places, Over, Ending, Leaving, Types,
         CollectorTypes, process, source
    <2>2. CASE HandObject
      BY <2>2, <1>0 DEF HandObject, CLoop, Plus, Sources, Places, Over, Ending, Leaving,
         Types, CollectorTypes, process, source
    <2>3. CASE TestCollectorExit
      BY <2>3, <1>0 DEF TestCollectorExit, CGoto, Places, Over, Ending, Leaving, Types,
         CollectorTypes, process, source
    <2>4. CASE GatherSource
      BY <2>4, <1>0 DEF GatherSource, CLoop, Minus, Sources, Places, Over, Ending, Leaving,
         Types, CollectorTypes, process, source
    <2>5. CASE OfferObject
      BY <2>5, <1>0 DEF OfferObject, CGoto, Places, Over, Ending, Leaving, Types,
         CollectorTypes, process, source
    <2>6. CASE CountEnded
      <3>1. ASSUME cexit', ~cexit
            PROVE  Over'
        <4>1. PICK s \in Sources : (IF sexit[s] THEN 1 ELSE 0) = N
          BY <2>6, <3>1 DEF CountEnded
        <4>2. N = 1 /\ sexit[s]
          BY <4>1 DEF Types, CollectorTypes
        <4>3. \A r \in Sources : sexit[r]
          BY <4>2 DEF Sources
        <4>4. QED
          BY <2>6, <1>0, <3>1, <4>3 DEF CountEnded, CGoto, source, Over, Ending
      <3>2. QED
        BY <2>6, <1>0, <3>1 DEF CountEnded, CGoto, process, source, Places, Over, Ending,
           Types, CollectorTypes
    <2>7. CASE DecideRound
      BY <2>7, <1>0 DEF DecideRound, CGoto, Sources, Places, Over, Ending, Leaving, Types,
         CollectorTypes, process, source
    <2>8. CASE FlagSource
      BY <2>8, <1>0 DEF FlagSource, CGoto, Sources, SourcePlaces, Told, Places, Over, Ending,
         Leaving, Types, CollectorTypes, process, source
    <2>9. CASE ReapSource
      BY <2>9, <1>0 DEF ReapSource, Minus, Sources, SourcePlaces, Told, SourceTypes, Places,
         Over, Ending, Leaving, Types, CollectorTypes, process, source
    <2>10. CASE EndCollector
      BY <2>10, <1>0 DEF EndCollector, CGoto, Places, Over, Ending, Leaving, Types,
         CollectorTypes, process, source
    <2>11. QED
      BY <2>1, <2>2, <2>3, <2>4, <2>5, <2>6, <2>7, <2>8, <2>9, <2>10, <1>1 DEF CollectorStep
  <1>2. ASSUME NEW s \in Sources, SourceMoves(s)
        PROVE  Places'
    <2>1. UNCHANGED <<cpc, ci, cexit, cempty, cready, ppc, pi>> /\ (Over => Over')
      BY <1>0, <1>2, SourceFrame, FlagsStay DEF Over, collector, process
    <2>2. QED
      BY <1>0, <2>1 DEF Places
  <1>3. CASE ProcessMoves
    <2>1. CASE InitSource
      BY <2>1, <1>0 DEF InitSource, Sources, Places, Over, Ending, Leaving, Types,
         CollectorTypes, SourceTypes, ProcessTypes, collector, source
    <2>2. CASE StartCollector
      BY <2>2, <1>0 DEF StartCollector, PGoto, Sources, Places, Over, Ending, Leaving, Types,
         CollectorTypes, SourceTypes, ProcessTypes, collector, source
    <2>3. CASE ConnectFirst
      BY <2>3, <1>0 DEF ConnectFirst, PGoto, Places, Over, Ending, Leaving, Types,
         CollectorTypes, SourceTypes, ProcessTypes, collector, source
    <2>4. CASE TakeObject
      BY <2>4, <1>0 DEF TakeObject, PGoto, Places, Over, Ending, Leaving, Types,
         CollectorTypes, SourceTypes, ProcessTypes, collector, source
    <2>5. CASE NameObject
      BY <2>5, <1>0 DEF NameObject, PGoto, Places, Over, Ending, Leaving, Types,
         CollectorTypes, SourceTypes, ProcessTypes, collector, source
    <2>6. CASE JoinCollector
      BY <2>6, <1>0 DEF JoinCollector, PGoto, Places, Over, Ending, Leaving, Types,
         CollectorTypes, SourceTypes, ProcessTypes, collector, source
    <2>7. CASE DestroySource
      BY <2>7, <1>0 DEF DestroySource, PGoto, Plus, Places, Over, Ending, Leaving, Types,
         CollectorTypes, SourceTypes, ProcessTypes, collector, source
    <2>8. CASE JoinSource
      <3>1. pi' \in Sources
        BY <2>8 DEF JoinSource, Sources, Places, Types, CollectorTypes
      <3>2. /\ UNCHANGED <<cpc, ci, cexit, cempty, cready, sexit>>
            /\ ppc = "joinSource" /\ ppc' \in {"destroy", "done"}
        BY <2>8 DEF JoinSource, collector, source
      <3>3. QED
        BY <1>0, <3>1, <3>2 DEF Places, Over, Leaving
    <2>9. CASE BeginJob
      BY <2>9, <1>0 DEF BeginJob, Places, Over, Ending, Leaving, Types, CollectorTypes,
         SourceTypes, ProcessTypes, collector, source
    <2>10. CASE LeavePipeline
      BY <2>10, <1>0 DEF LeavePipeline, PGoto, Places, Over, Ending, Leaving, Types,
         CollectorTypes, SourceTypes, ProcessTypes, collector, source
    <2>11. QED
      BY <2>1, <2>2, <2>3, <2>4, <2>5, <2>6, <2>7, <2>8, <2>9, <2>10, <1>3 DEF ProcessMoves,
         ProcessStep
  <1>4. CASE UNCHANGED vars
    BY <1>0, <1>4 DEF Places, Over, Ending, Leaving, vars, collector, threads, source, process
  <1>5. QED
    BY <1>1, <1>2, <1>3, <1>4, Moves

(* The end of the collection is final.                                     *)
LEMMA OverStays ==
  ASSUME Types, Places, [Next]_vars, Over
  PROVE  Over'
  <1>0. 1 \in Sources
    BY DEF Sources, Types, CollectorTypes
  <1>1. (\A r \in Sources : sexit'[r]) /\ cexit'
    BY <1>0, FlagsStay DEF Over
  <1>2. Sources' = Sources
    BY ListKept
  <1>3. cpc' \in Ending
    <2>1. CASE CollectorStep
      BY <2>1 DEF Over, Ending, AwaitEmpty, CGoto, TestCollectorExit, CGoto, OfferObject,
         CGoto, CountEnded, CGoto, DecideRound, CGoto, FlagSource, CGoto, ReapSource, Minus,
         EndCollector, CGoto, HandObject, GatherSource, CollectorStep, CLoop
    <2>2. ASSUME NEW s \in Sources, SourceMoves(s)
          PROVE  cpc' \in Ending
      BY <2>2, SourceFrame DEF Over, collector
    <2>3. CASE ProcessMoves
      BY <2>3 DEF Over, Ending, Places, Types, CollectorTypes, ProcessTypes, CPlaces, PPlaces,
         collector, ProcessMoves, ProcessStep, PGoto, InitSource, StartCollector,
         ConnectFirst, TakeObject, NameObject, JoinCollector, DestroySource, JoinSource,
         BeginJob, LeavePipeline
    <2>4. CASE UNCHANGED vars
      BY <2>4 DEF Over, vars, collector
    <2>5. QED
      BY <2>1, <2>2, <2>3, <2>4, Moves
  <1>4. QED
    BY <1>1, <1>2, <1>3 DEF Over

(* With its last source flagged the collector is at its end.               *)
LEMMA ToldIsOver ==
  ASSUME Types, Places, \A s \in Sources : SourcePlaces(s),
         cpc \in {"last", "done"} \/ (cpc = "reap" /\ ci = N)
  PROVE  Over
  <1>1. \A s \in Sources : Told(s)
    BY DEF Told, Sources, Types, CollectorTypes
  <1>2. QED
    BY <1>1 DEF SourcePlaces, Places, Over, Ending

(* The object being filled goes from thread to thread: each semaphore is   *)
(* posted by the one who has it.                                           *)
LEMMA NextObjectToken ==
  ASSUME Types, Places, \A s \in Sources : SourcePlaces(s), ObjectToken, [Next]_vars
  PROVE  ObjectToken'
  <1>0. desc' = desc /\ N' = N /\ Sources' = Sources
    BY ListKept
  <1>1. CASE CollectorStep
    <2>1. CASE AwaitEmpty
      BY <2>1, <1>0, OverStays DEF AwaitEmpty, CGoto, ObjectToken, B, Types, CollectorTypes,
         process
    <2>2. CASE HandObject
      BY <2>2, <1>0, OverStays DEF HandObject, CLoop, Plus, Sources, Places, ObjectToken, B,
         Types, CollectorTypes, process
    <2>3. CASE TestCollectorExit
      BY <2>3, <1>0, OverStays DEF TestCollectorExit, CGoto, ObjectToken, B, Types,
         CollectorTypes, process
    <2>4. CASE GatherSource
      BY <2>4, <1>0, OverStays DEF GatherSource, CLoop, Minus, Sources, Places, ObjectToken,
         B, Types, CollectorTypes, process
    <2>5. CASE OfferObject
      BY <2>5, <1>0, OverStays DEF OfferObject, CGoto, ObjectToken, B, Types, CollectorTypes,
         process
    <2>6. CASE CountEnded
      BY <2>6, <1>0, OverStays DEF CountEnded, CGoto, ObjectToken, B, Types, CollectorTypes,
         process
    <2>7. CASE DecideRound
      BY <2>7, <1>0, OverStays DEF DecideRound, CGoto, Over, Ending, ObjectToken, B, Types,
         CollectorTypes, process
    <2>8. CASE FlagSource
      BY <2>8, <1>0, OverStays DEF FlagSource, CGoto, ObjectToken, B, Types, CollectorTypes,
         process
    <2>9. CASE ReapSource
      BY <2>9, <1>0, OverStays, ToldIsOver DEF ReapSource, Minus, Sources, Places,
         ObjectToken, B, Types, CollectorTypes, process
    <2>10. CASE EndCollector
      BY <2>10, <1>0, OverStays, ToldIsOver DEF EndCollector, CGoto, ObjectToken, B, Types,
         CollectorTypes, process
    <2>11. QED
      BY <2>1, <2>2, <2>3, <2>4, <2>5, <2>6, <2>7, <2>8, <2>9, <2>10, <1>1 DEF CollectorStep
  <1>2. ASSUME NEW s \in Sources, SourceMoves(s)
        PROVE  ObjectToken'
    BY <1>2, SourceFrame, OverStays DEF ObjectToken, B, collector, process
  <1>3. CASE ProcessMoves
    <2>1. CASE InitSource
      BY <2>1, <1>0, OverStays DEF InitSource, collector, ObjectToken, B, Types,
         CollectorTypes, SourceTypes, ProcessTypes, Places
    <2>2. CASE StartCollector
      BY <2>2, <1>0, OverStays DEF StartCollector, PGoto, ObjectToken, B, Types,
         CollectorTypes, SourceTypes, ProcessTypes, Places
    <2>3. CASE ConnectFirst
      BY <2>3, <1>0, OverStays DEF ConnectFirst, PGoto, ObjectToken, B, Types, CollectorTypes,
         SourceTypes, ProcessTypes, Places
    <2>4. CASE TakeObject
      BY <2>4, <1>0, SMTT(30), OverStays DEF TakeObject, PGoto, ObjectToken, B, Types, CollectorTypes,
         SourceTypes, ProcessTypes, Places
    <2>5. CASE NameObject
      BY <2>5, <1>0, SMTT(30), OverStays DEF NameObject, PGoto, ObjectToken, B, Types, CollectorTypes,
         SourceTypes, ProcessTypes, Places
    <2>6. CASE JoinCollector
      BY <2>6, <1>0, OverStays DEF JoinCollector, PGoto, collector, ObjectToken, B, Types,
         CollectorTypes, SourceTypes, ProcessTypes, Places
    <2>7. CASE DestroySource
      BY <2>7, <1>0, OverStays DEF DestroySource, PGoto, Plus, collector, ObjectToken, B,
         Types, CollectorTypes, SourceTypes, ProcessTypes, Places
    <2>8. CASE JoinSource
      BY <2>8, <1>0, OverStays DEF JoinSource, collector, ObjectToken, B, Types,
         CollectorTypes, SourceTypes, ProcessTypes, Places
    <2>9. CASE BeginJob
      BY <2>9, <1>0, OverStays DEF BeginJob, Leaving, ObjectToken, B, Types, CollectorTypes,
         SourceTypes, ProcessTypes, Places
    <2>10. CASE LeavePipeline
      BY <2>10, <1>0, OverStays DEF LeavePipeline, PGoto, ObjectToken, B, Types,
         CollectorTypes, SourceTypes, ProcessTypes, Places
    <2>11. QED
      BY <2>1, <2>2, <2>3, <2>4, <2>5, <2>6, <2>7, <2>8, <2>9, <2>10, <1>3 DEF ProcessMoves,
         ProcessStep
  <1>4. CASE UNCHANGED vars
    BY <1>0, <1>4, OverStays DEF ObjectToken, B, vars, collector, threads, source, process
  <1>5. QED
    BY <1>1, <1>2, <1>3, <1>4, Moves

(* The object named last is the one created last.                          *)
LEMMA NextNames ==
  ASSUME Types, Places, Names, [Next]_vars
  PROVE  Names'
  <1>0. desc' = desc /\ N' = N /\ Sources' = Sources
    BY ListKept
  <1>1. CASE CollectorStep
    <2>1. CASE AwaitEmpty
      BY <2>1, <1>0 DEF AwaitEmpty, CGoto, Names, Types, CollectorTypes, process
    <2>2. CASE HandObject
      BY <2>2, <1>0 DEF HandObject, CLoop, Plus, Names, Types, CollectorTypes, process
    <2>3. CASE TestCollectorExit
      BY <2>3, <1>0 DEF TestCollectorExit, CGoto, Names, Types, CollectorTypes, process
    <2>4. CASE GatherSource
      BY <2>4, <1>0 DEF GatherSource, CLoop, Minus, Names, Types, CollectorTypes, process
    <2>5. CASE OfferObject
      BY <2>5, <1>0 DEF OfferObject, CGoto, Names, Types, CollectorTypes, process
    <2>6. CASE CountEnded
      BY <2>6, <1>0 DEF CountEnded, CGoto, Names, Types, CollectorTypes, process
    <2>7. CASE DecideRound
      BY <2>7, <1>0 DEF DecideRound, CGoto, Names, Types, CollectorTypes, process
    <2>8. CASE FlagSource
      BY <2>8, <1>0 DEF FlagSource, CGoto, Names, Types, CollectorTypes, process
    <2>9. CASE ReapSource
      BY <2>9, <1>0 DEF ReapSource, Minus, Names, Types, CollectorTypes, process
    <2>10. CASE EndCollector
      BY <2>10, <1>0 DEF EndCollector, CGoto, Names, Types, CollectorTypes, process
    <2>11. QED
      BY <2>1, <2>2, <2>3, <2>4, <2>5, <2>6, <2>7, <2>8, <2>9, <2>10, <1>1 DEF CollectorStep
  <1>2. ASSUME NEW s \in Sources, SourceMoves(s)
        PROVE  Names'
    BY <1>2, SourceFrame DEF Names, collector, process
  <1>3. CASE ProcessMoves
    <2>1. CASE InitSource
      BY <2>1, <1>0 DEF InitSource, Names, Types, CollectorTypes, SourceTypes, ProcessTypes,
         Places, collector
    <2>2. CASE StartCollector
      BY <2>2, <1>0 DEF StartCollector, PGoto, Names, Types, CollectorTypes, SourceTypes,
         ProcessTypes, Places, collector
    <2>3. CASE ConnectFirst
      BY <2>3, <1>0 DEF ConnectFirst, PGoto, Names, Types, CollectorTypes, SourceTypes,
         ProcessTypes, Places, collector
    <2>4. CASE TakeObject
      BY <2>4, <1>0 DEF TakeObject, PGoto, Names, Types, CollectorTypes, SourceTypes,
         ProcessTypes, Places, collector
    <2>5. CASE NameObject
      BY <2>5, <1>0 DEF NameObject, PGoto, Names, Types, CollectorTypes, SourceTypes,
         ProcessTypes, Places, collector
    <2>6. CASE JoinCollector
      BY <2>6, <1>0 DEF JoinCollector, PGoto, Names, Types, CollectorTypes, SourceTypes,
         ProcessTypes, Places, collector
    <2>7. CASE DestroySource
      BY <2>7, <1>0 DEF DestroySource, PGoto, Plus, Names, Types, CollectorTypes, SourceTypes,
         ProcessTypes, Places, collector
    <2>8. CASE JoinSource
      BY <2>8, <1>0 DEF JoinSource, Names, Types, CollectorTypes, SourceTypes, ProcessTypes,
         Places, collector
    <2>9. CASE BeginJob
      BY <2>9, <1>0 DEF BeginJob, Leaving, Over, Ending, Names, Types, CollectorTypes,
         SourceTypes, ProcessTypes, Places, collector
    <2>10. CASE LeavePipeline
      BY <2>10, <1>0 DEF LeavePipeline, PGoto, Names, Types, CollectorTypes, SourceTypes,
         ProcessTypes, Places, collector
    <2>11. QED
      BY <2>1, <2>2, <2>3, <2>4, <2>5, <2>6, <2>7, <2>8, <2>9, <2>10, <1>3 DEF ProcessMoves,
         ProcessStep
  <1>4. CASE UNCHANGED vars
    BY <1>0, <1>4 DEF Names, vars, collector, threads, source, process
  <1>5. QED
    BY <1>1, <1>2, <1>3, <1>4, Moves

(* A job takes one object and names the next.                              *)
LEMMA NextJobs ==
  ASSUME Types, Places, Names, Jobs, [Next]_vars
  PROVE  Jobs'
  <1>0. desc' = desc /\ N' = N /\ Sources' = Sources
    BY ListKept
  <1>1. CASE CollectorStep
    <2>1. CASE AwaitEmpty
      BY <2>1, <1>0, FlagsStay DEF AwaitEmpty, CGoto, Jobs, Types, ProcessTypes, process
    <2>2. CASE HandObject
      BY <2>2, <1>0, FlagsStay DEF HandObject, CLoop, Plus, Jobs, Types, ProcessTypes, process
    <2>3. CASE TestCollectorExit
      BY <2>3, <1>0, FlagsStay DEF TestCollectorExit, CGoto, Jobs, Types, ProcessTypes,
         process
    <2>4. CASE GatherSource
      BY <2>4, <1>0, FlagsStay DEF GatherSource, CLoop, Minus, Jobs, Types, ProcessTypes,
         process
    <2>5. CASE OfferObject
      BY <2>5, <1>0, FlagsStay DEF OfferObject, CGoto, Jobs, Types, ProcessTypes, process
    <2>6. CASE CountEnded
      BY <2>6, <1>0, FlagsStay DEF CountEnded, CGoto, Jobs, Types, ProcessTypes, process
    <2>7. CASE DecideRound
      BY <2>7, <1>0, FlagsStay DEF DecideRound, CGoto, Jobs, Types, ProcessTypes, process
    <2>8. CASE FlagSource
      BY <2>8, <1>0, FlagsStay DEF FlagSource, CGoto, Jobs, Types, ProcessTypes, process
    <2>9. CASE ReapSource
      BY <2>9, <1>0, FlagsStay DEF ReapSource, Minus, Jobs, Types, ProcessTypes, process
    <2>10. CASE EndCollector
      BY <2>10, <1>0, FlagsStay DEF EndCollector, CGoto, Jobs, Types, ProcessTypes, process
    <2>11. QED
      BY <2>1, <2>2, <2>3, <2>4, <2>5, <2>6, <2>7, <2>8, <2>9, <2>10, <1>1 DEF CollectorStep
  <1>2. ASSUME NEW s \in Sources, SourceMoves(s)
        PROVE  Jobs'
    BY <1>2, SourceFrame DEF Jobs, collector, process
  <1>3. CASE ProcessMoves
    <2>1. CASE InitSource
      BY <2>1, <1>0, FlagsStay DEF InitSource, Jobs, Types, ProcessTypes, Places, Leaving,
         collector
    <2>2. CASE StartCollector
      BY <2>2, <1>0, FlagsStay DEF StartCollector, PGoto, Jobs, Types, ProcessTypes, Places,
         Leaving, collector
    <2>3. CASE ConnectFirst
      BY <2>3, <1>0, FlagsStay DEF ConnectFirst, PGoto, Jobs, Types, ProcessTypes, Places,
         Leaving, collector
    <2>4. CASE TakeObject
      BY <2>4, <1>0, FlagsStay DEF TakeObject, PGoto, Jobs, Types, ProcessTypes, Places,
         Leaving, collector
    <2>5. CASE NameObject
      BY <2>5, <1>0, FlagsStay DEF NameObject, PGoto, Jobs, Types, ProcessTypes, Places,
         Leaving, collector
    <2>6. CASE JoinCollector
      BY <2>6, <1>0, FlagsStay DEF JoinCollector, PGoto, Jobs, Types, ProcessTypes, Places,
         Leaving, collector
    <2>7. CASE DestroySource
      BY <2>7, <1>0, FlagsStay DEF DestroySource, PGoto, Plus, Jobs, Types, ProcessTypes,
         Places, Leaving, collector
    <2>8. CASE JoinSource
      BY <2>8, <1>0, FlagsStay DEF JoinSource, Jobs, Types, ProcessTypes, Places, Leaving,
         collector
    <2>9. CASE BeginJob
      BY <2>9, <1>0, FlagsStay DEF BeginJob, Jobs, Types, ProcessTypes, Places, Leaving,
         collector
    <2>10. CASE LeavePipeline
      BY <2>10, <1>0, FlagsStay DEF LeavePipeline, PGoto, Jobs, Types, ProcessTypes, Places,
         Leaving, collector
    <2>11. QED
      BY <2>1, <2>2, <2>3, <2>4, <2>5, <2>6, <2>7, <2>8, <2>9, <2>10, <1>3 DEF ProcessMoves,
         ProcessStep
  <1>4. CASE UNCHANGED vars
    BY <1>0, <1>4, FlagsStay DEF Jobs, Types, ProcessTypes, vars, collector, threads, source,
       process
  <1>5. QED
    BY <1>1, <1>2, <1>3, <1>4, Moves

(* A source that captures is not flagged while objects are handed out.     *)
LEMMA NextSourcePlaces ==
  ASSUME Types, Places, NEW r \in Sources, \A s \in Sources : SourcePlaces(s), [Next]_vars
  PROVE  SourcePlaces(r)'
  <1>0. desc' = desc /\ N' = N /\ Sources' = Sources
    BY ListKept
  <1>1. CASE CollectorStep
    <2>1. CASE AwaitEmpty
      BY <2>1, <1>0 DEF AwaitEmpty, CGoto, SourcePlaces, Told, Types, CollectorTypes,
         SourceTypes, ProcessTypes, Places, Tcp, Sources, threads, source, Ending
    <2>2. CASE HandObject
      BY <2>2, <1>0 DEF HandObject, CLoop, Plus, SourcePlaces, Told, Types, CollectorTypes,
         SourceTypes, ProcessTypes, Places, Tcp, Sources, threads, source, Ending
    <2>3. CASE TestCollectorExit
      BY <2>3, <1>0 DEF TestCollectorExit, CGoto, SourcePlaces, Told, Types, CollectorTypes,
         SourceTypes, ProcessTypes, Places, Tcp, Sources, threads, source, Ending
    <2>4. CASE GatherSource
      BY <2>4, <1>0 DEF GatherSource, CLoop, Minus, SourcePlaces, Told, Types, CollectorTypes,
         SourceTypes, ProcessTypes, Places, Tcp, Sources, threads, source, Ending
    <2>5. CASE OfferObject
      BY <2>5, <1>0 DEF OfferObject, CGoto, SourcePlaces, Told, Types, CollectorTypes,
         SourceTypes, ProcessTypes, Places, Tcp, Sources, threads, source, Ending
    <2>6. CASE CountEnded
      BY <2>6, <1>0 DEF CountEnded, CGoto, SourcePlaces, Told, Types, CollectorTypes,
         SourceTypes, ProcessTypes, Places, Tcp, Sources, threads, source, Ending
    <2>7. CASE DecideRound
      BY <2>7, <1>0 DEF DecideRound, CGoto, SourcePlaces, Told, Types, CollectorTypes,
         SourceTypes, ProcessTypes, Places, Tcp, Sources, threads, source, Ending
    <2>8. CASE FlagSource
      BY <2>8, <1>0 DEF FlagSource, CGoto, SourcePlaces, Told, Types, CollectorTypes,
         SourceTypes, ProcessTypes, Places, Tcp, Sources, threads, source, Ending
    <2>9. CASE ReapSource
      <3>1. /\ UNCHANGED <<spc, cap, live, sexit, sempty, cexit, Tcp(r)>>
            /\ cpc = "reap" /\ cpc' \in {"flag", "last"}
        BY <2>9, <1>0 DEF ReapSource, threads, Tcp
      <3>2. Told(r)' => Told(r)
        BY <2>9 DEF ReapSource, Told, Sources, Types, CollectorTypes
      <3>3. QED
        BY <3>1, <3>2 DEF SourcePlaces, Ending
    <2>10. CASE EndCollector
      BY <2>10, <1>0 DEF EndCollector, CGoto, SourcePlaces, Told, Types, CollectorTypes,
         SourceTypes, ProcessTypes, Places, Tcp, Sources, threads, source, Ending
    <2>11. QED
      BY <2>1, <2>2, <2>3, <2>4, <2>5, <2>6, <2>7, <2>8, <2>9, <2>10, <1>1 DEF CollectorStep
  <1>2. ASSUME NEW s \in Sources, SourceMoves(s)
        PROVE  SourcePlaces(r)'
    <2>1. CASE r # s
      BY <1>0, <1>2, <2>1, SourceFrame DEF Same, collector, SourcePlaces, Told, Tcp
    <2>2. CASE r = s
      <3>1. CASE FrameArrives(s)
        BY <3>1, <1>0, <2>2 DEF FrameArrives, KGoto, SourcePlaces, Told, Types,
           CollectorTypes, SourceTypes, ProcessTypes, Tcp, Capturing, Sources, collector,
           source, threads
      <3>2. CASE CaptureEnds(s)
        BY <3>2, <1>0, <2>2 DEF CaptureEnds, KGoto, SourcePlaces, Told, Types,
           CollectorTypes, SourceTypes, ProcessTypes, Tcp, Capturing, Sources, collector,
           source, threads
      <3>3. CASE EndObject(s)
        BY <3>3, <1>0, <2>2 DEF EndObject, KGoto, Plus, SourcePlaces, Told, Types,
           CollectorTypes, SourceTypes, ProcessTypes, Tcp, Capturing, Sources, collector,
           source, threads
      <3>4. CASE TestSourceExit(s)
        BY <3>4, <1>0, <2>2 DEF TestSourceExit, KGoto, SourcePlaces, Told, Types,
           CollectorTypes, SourceTypes, ProcessTypes, Tcp, Capturing, Sources, collector,
           source, threads
      <3>5. CASE AwaitObject(s)
        BY <3>5, <1>0, <2>2 DEF AwaitObject, KGoto, Minus, SourcePlaces, Told, Types,
           CollectorTypes, SourceTypes, ProcessTypes, Tcp, Capturing, Sources, collector,
           source, threads
      <3>6. CASE TestBeforeAdd(s)
        BY <3>6, <1>0, <2>2 DEF TestBeforeAdd, KGoto, CountFrame, SourcePlaces, Told, Types,
           CollectorTypes, SourceTypes, ProcessTypes, Tcp, Capturing, Sources, collector,
           source, threads
      <3>7. CASE AddFrame(s)
        BY <3>7, <1>0, <2>2 DEF AddFrame, KGoto, CountFrame, SourcePlaces, Told, Types,
           CollectorTypes, SourceTypes, ProcessTypes, Tcp, Capturing, Sources, collector,
           source, threads
      <3>8. CASE CaptureFails(s)
        BY <3>8, <1>0, <2>2 DEF CaptureFails, KGoto, SourcePlaces, Told, Types,
           CollectorTypes, SourceTypes, ProcessTypes, Tcp, Capturing, Sources, collector,
           source, threads
      <3>9. CASE StartSource(s)
        <4>1. /\ spc'[r] = "loop" /\ cap'[r] = "read" /\ live'[r] = ~Tcp(r)
              /\ UNCHANGED <<cpc, ci, cexit, sexit>> /\ cap[r] = "none" /\ sempty[r] > 0
          BY <3>9, <2>2 DEF StartSource, SGoto, collector, SourcePlaces, Types, SourceTypes, Tcp
        <4>2. (Told(r)' => Told(r)) /\ (~Tcp(r)' => live'[r])
          BY <1>0, <4>1 DEF Told, Tcp
        <4>3. SourcePlaces(r)
          OBVIOUS
        <4>4. QED
          BY <4>1, <4>2, <4>3 DEF SourcePlaces
      <3>10. CASE EndTcpSource(s)
        BY <3>10, <1>0, <2>2 DEF EndTcpSource, SGoto, Plus, SourcePlaces, Told, Types,
           CollectorTypes, SourceTypes, ProcessTypes, Tcp, Capturing, Sources, collector,
           source, threads
      <3>11. CASE StopCamera(s)
        BY <3>11, <1>0, <2>2 DEF StopCamera, SGoto, Plus, SourcePlaces, Told, Types,
           CollectorTypes, SourceTypes, ProcessTypes, Tcp, Capturing, Sources, collector,
           source, threads
      <3>12. CASE JoinStream(s)
        BY <3>12, <1>0, <2>2 DEF JoinStream, SGoto, SourcePlaces, Told, Types,
           CollectorTypes, SourceTypes, ProcessTypes, Tcp, Capturing, Sources, collector,
           source, threads
      <3>13. QED
        BY <3>1, <3>2, <3>3, <3>4, <3>5, <3>6, <3>7, <3>8, <3>9, <3>10, <3>11, <3>12, <1>2
           DEF SourceMoves, CaptureStep, SourceStep
    <2>3. QED
      BY <2>1, <2>2
  <1>3. CASE ProcessMoves
    <2>1. CASE InitSource
      BY <2>1, <1>0 DEF InitSource, SourcePlaces, Told, Types, CollectorTypes, SourceTypes,
         ProcessTypes, Places, Tcp, Sources, collector, threads, source, Ending
    <2>2. CASE StartCollector
      BY <2>2, <1>0 DEF StartCollector, PGoto, SourcePlaces, Told, Types, CollectorTypes,
         SourceTypes, ProcessTypes, Places, Tcp, Sources, collector, threads, source, Ending
    <2>3. CASE ConnectFirst
      BY <2>3, <1>0 DEF ConnectFirst, PGoto, SourcePlaces, Told, Types, CollectorTypes,
         SourceTypes, ProcessTypes, Places, Tcp, Sources, collector, threads, source, Ending
    <2>4. CASE TakeObject
      BY <2>4, <1>0 DEF TakeObject, PGoto, SourcePlaces, Told, Types, CollectorTypes,
         SourceTypes, ProcessTypes, Places, Tcp, Sources, collector, threads, source, Ending
    <2>5. CASE NameObject
      BY <2>5, <1>0 DEF NameObject, PGoto, SourcePlaces, Told, Types, CollectorTypes,
         SourceTypes, ProcessTypes, Places, Tcp, Sources, collector, threads, source, Ending
    <2>6. CASE JoinCollector
      BY <2>6, <1>0 DEF JoinCollector, PGoto, SourcePlaces, Told, Types, CollectorTypes,
         SourceTypes, ProcessTypes, Places, Tcp, Sources, collector, threads, source, Ending
    <2>7. CASE DestroySource
      BY <2>7, <1>0 DEF DestroySource, PGoto, Plus, SourcePlaces, Told, Types, CollectorTypes,
         SourceTypes, ProcessTypes, Places, Tcp, Sources, collector, threads, source, Ending
    <2>8. CASE JoinSource
      BY <2>8, <1>0 DEF JoinSource, SourcePlaces, Told, Types, CollectorTypes, SourceTypes,
         ProcessTypes, Places, Tcp, Sources, collector, threads, source, Ending
    <2>9. CASE BeginJob
      BY <2>9, <1>0 DEF BeginJob, SourcePlaces, Told, Types, CollectorTypes, SourceTypes,
         ProcessTypes, Places, Tcp, Sources, collector, threads, source, Ending
    <2>10. CASE LeavePipeline
      BY <2>10, <1>0 DEF LeavePipeline, PGoto, SourcePlaces, Told, Types, CollectorTypes,
         SourceTypes, ProcessTypes, Places, Tcp, Sources, collector, threads, source, Ending
    <2>11. QED
      BY <2>1, <2>2, <2>3, <2>4, <2>5, <2>6, <2>7, <2>8, <2>9, <2>10, <1>3 DEF ProcessMoves,
         ProcessStep
  <1>4. CASE UNCHANGED vars
    BY <1>0, <1>4 DEF SourcePlaces, Told, Types, CollectorTypes, SourceTypes, ProcessTypes, Tcp,
       vars, collector, threads, source, process
  <1>5. QED
    BY <1>1, <1>2, <1>3, <1>4, Moves

(* All sources have the object named last, except while it is handed out.  *)
LEMMA NextNameOf ==
  ASSUME Types, Places, \A s \in Sources : SourcePlaces(s), Names, ObjectToken,
         NEW r \in Sources, NameOf(r), [Next]_vars
  PROVE  NameOf(r)'
  <1>0. desc' = desc /\ N' = N /\ Sources' = Sources
    BY ListKept
  <1>1. CASE CollectorStep
    <2>1. CASE AwaitEmpty
      <3>1. (cempty = 1 /\ cempty' = 0 /\ cpc' = "hand" /\ r >= ci' /\ cpc # "hand") \/ Over
        BY <2>1 DEF AwaitEmpty, CGoto, ObjectToken, B, Types, CollectorTypes, Places, Sources
      <3>2. UNCHANGED <<sname, cname>>
        BY <2>1 DEF AwaitEmpty, source
      <3>3. QED
        BY <3>1, <3>2, OverStays DEF NameOf
    <2>2. CASE HandObject
      <3>1. (cempty = 0 /\ cname >= 2 /\ cempty' = 0 /\ cname' = cname) \/ Over
        BY <2>2 DEF HandObject, CLoop, ObjectToken, B, Names, Types, CollectorTypes
      <3>2. /\ cpc = "hand" /\ (cpc' = "hand" => ci' = ci + 1) /\ {ci, r, cname} \subseteq Nat
            /\ sname'[r] = IF r = ci THEN cname ELSE sname[r]
        BY <2>2 DEF HandObject, CLoop, Types, CollectorTypes, SourceTypes, Sources
      <3>3. r # ci => (cpc' = "hand" /\ r >= ci' <=> r >= ci)
        BY <2>2 DEF HandObject, CLoop, Types, CollectorTypes, Sources
      <3>4. CASE r = ci
        BY <3>1, <3>2, <3>4, OverStays DEF NameOf, Handable
      <3>5. CASE r # ci
        BY <3>1, <3>2, <3>3, <3>5, OverStays DEF NameOf
      <3>6. QED
        BY <3>4, <3>5
    <2>3. CASE TestCollectorExit
      BY <2>3, <1>0, OverStays DEF TestCollectorExit, CGoto, NameOf, Handable, Types,
         CollectorTypes, SourceTypes, Names, ObjectToken, B, Places, Sources, source
    <2>4. CASE GatherSource
      BY <2>4, <1>0, OverStays DEF GatherSource, CLoop, Minus, NameOf, Handable, Types,
         CollectorTypes, SourceTypes, Names, ObjectToken, B, Places, Sources, source
    <2>5. CASE OfferObject
      BY <2>5, <1>0, OverStays DEF OfferObject, CGoto, NameOf, Handable, Types,
         CollectorTypes, SourceTypes, Names, ObjectToken, B, Places, Sources, source
    <2>6. CASE CountEnded
      BY <2>6, <1>0, OverStays DEF CountEnded, CGoto, NameOf, Handable, Types, CollectorTypes,
         SourceTypes, Names, ObjectToken, B, Places, Sources, source
    <2>7. CASE DecideRound
      BY <2>7, <1>0, OverStays DEF DecideRound, CGoto, NameOf, Handable, Types,
         CollectorTypes, SourceTypes, Names, ObjectToken, B, Places, Sources, source
    <2>8. CASE FlagSource
      BY <2>8, <1>0, OverStays DEF FlagSource, CGoto, NameOf, Handable, Types, CollectorTypes,
         SourceTypes, Names, ObjectToken, B, Places, Sources, source
    <2>9. CASE ReapSource
      BY <2>9, <1>0, OverStays DEF ReapSource, Minus, NameOf, Handable, Types, CollectorTypes,
         SourceTypes, Names, ObjectToken, B, Places, Sources, source
    <2>10. CASE EndCollector
      BY <2>10, <1>0, OverStays DEF EndCollector, CGoto, NameOf, Handable, Types,
         CollectorTypes, SourceTypes, Names, ObjectToken, B, Places, Sources, source
    <2>11. QED
      BY <2>1, <2>2, <2>3, <2>4, <2>5, <2>6, <2>7, <2>8, <2>9, <2>10, <1>1 DEF CollectorStep
  <1>2. ASSUME NEW s \in Sources, SourceMoves(s)
        PROVE  NameOf(r)'
    BY <1>2, SourceFrame, OverStays DEF NameOf, collector
  <1>3. CASE ProcessMoves
    <2>1. CASE InitSource
      BY <2>1, <1>0, OverStays DEF InitSource, NameOf, Handable, Types, CollectorTypes,
         ProcessTypes, Names, ObjectToken, B, Places, Leaving, source, collector
    <2>2. CASE StartCollector
      BY <2>2, <1>0, OverStays DEF StartCollector, PGoto, NameOf, Handable, Types,
         CollectorTypes, ProcessTypes, Names, ObjectToken, B, Places, Leaving, source,
         collector
    <2>3. CASE ConnectFirst
      BY <2>3, <1>0, OverStays DEF ConnectFirst, PGoto, NameOf, Handable, Types,
         CollectorTypes, ProcessTypes, Names, ObjectToken, B, Places, Leaving, source,
         collector
    <2>4. CASE TakeObject
      BY <2>4, <1>0, OverStays DEF TakeObject, PGoto, NameOf, Handable, Types, CollectorTypes,
         ProcessTypes, Names, ObjectToken, B, Places, Leaving, source, collector
    <2>5. CASE NameObject
      BY <2>5, <1>0, OverStays DEF NameObject, PGoto, NameOf, Handable, Types, CollectorTypes,
         ProcessTypes, Names, ObjectToken, B, Places, Leaving, source, collector
    <2>6. CASE JoinCollector
      BY <2>6, <1>0, OverStays DEF JoinCollector, PGoto, NameOf, Handable, Types,
         CollectorTypes, ProcessTypes, Names, ObjectToken, B, Places, Leaving, source,
         collector
    <2>7. CASE DestroySource
      BY <2>7, <1>0, OverStays DEF DestroySource, PGoto, Plus, NameOf, Handable, Types,
         CollectorTypes, ProcessTypes, Names, ObjectToken, B, Places, Leaving, source,
         collector
    <2>8. CASE JoinSource
      BY <2>8, <1>0, OverStays DEF JoinSource, NameOf, Handable, Types, CollectorTypes,
         ProcessTypes, Names, ObjectToken, B, Places, Leaving, source, collector
    <2>9. CASE BeginJob
      BY <2>9, <1>0, OverStays DEF BeginJob, NameOf, Handable, Types, CollectorTypes,
         ProcessTypes, Names, ObjectToken, B, Places, Leaving, source, collector
    <2>10. CASE LeavePipeline
      BY <2>10, <1>0, OverStays DEF LeavePipeline, PGoto, NameOf, Handable, Types,
         CollectorTypes, ProcessTypes, Names, ObjectToken, B, Places, Leaving, source,
         collector
    <2>11. QED
      BY <2>1, <2>2, <2>3, <2>4, <2>5, <2>6, <2>7, <2>8, <2>9, <2>10, <1>3 DEF ProcessMoves,
         ProcessStep
  <1>4. CASE UNCHANGED vars
    BY <1>0, <1>4, OverStays DEF NameOf, Handable, Types, CollectorTypes, vars, collector,
       threads, source, process
  <1>5. QED
    BY <1>1, <1>2, <1>3, <1>4, Moves

(* A source has an object, has been handed it, or has reported it, once.   *)
LEMMA NextSourceToken ==
  ASSUME Types, Places, \A s \in Sources : SourcePlaces(s),
         NEW r \in Sources, SourceToken(r), [Next]_vars
  PROVE  SourceToken(r)'
  <1>0. desc' = desc /\ N' = N /\ Sources' = Sources
    BY ListKept
  <1>1. CASE CollectorStep
    <2>1. CASE AwaitEmpty
      BY <2>1, <1>0, FlagsStay DEF AwaitEmpty, CGoto, SourceToken, B, Holds, Working, Types,
         CollectorTypes, SourceTypes, ProcessTypes, Places, Sources, threads, source
    <2>2. CASE HandObject
      <3>1. UNCHANGED <<sexit, sready, cap>> /\ cpc = "hand"
        BY <2>2 DEF HandObject, CLoop, threads
      <3>2. sempty'[r] = IF r = ci THEN sempty[r] + 1 ELSE sempty[r]
        BY <2>2 DEF HandObject, Plus, Types, SourceTypes
      <3>3. (Holds(r) <=> r >= ci) /\ (Holds(r)' <=> r >= ci /\ r # ci)
        BY <2>2 DEF HandObject, CLoop, Holds, Types, CollectorTypes, Sources
      <3>4. r >= ci \/ r # ci
        BY DEF Types, CollectorTypes, Sources
      <3>5. QED
        BY <3>1, <3>2, <3>3, <3>4 DEF SourceToken, B, Types, SourceTypes
    <2>3. CASE TestCollectorExit
      BY <2>3, <1>0, FlagsStay DEF TestCollectorExit, CGoto, SourceToken, B, Holds, Working,
         Types, CollectorTypes, SourceTypes, ProcessTypes, Places, Sources, threads, source
    <2>4. CASE GatherSource
      <3>1. UNCHANGED <<sexit, sempty, cap>> /\ cpc = "gather"
        BY <2>4 DEF GatherSource, CLoop, threads
      <3>2. sready'[r] = IF r = ci THEN sready[r] - 1 ELSE sready[r]
        BY <2>4 DEF GatherSource, Minus, Types, SourceTypes
      <3>3. (Holds(r) <=> r < ci) /\ (Holds(r)' <=> (r < ci \/ r = ci))
        BY <2>4 DEF GatherSource, CLoop, Holds, Types, CollectorTypes, Sources
      <3>4. ~(r < ci /\ r = ci)
        BY DEF Types, CollectorTypes, Sources
      <3>5. QED
        BY <3>1, <3>2, <3>3, <3>4 DEF SourceToken, B, Types, SourceTypes
    <2>5. CASE OfferObject
      BY <2>5, <1>0, FlagsStay DEF OfferObject, CGoto, SourceToken, B, Holds, Working, Types,
         CollectorTypes, SourceTypes, ProcessTypes, Places, Sources, threads, source
    <2>6. CASE CountEnded
      BY <2>6, <1>0, FlagsStay DEF CountEnded, CGoto, SourceToken, B, Holds, Working, Types,
         CollectorTypes, SourceTypes, ProcessTypes, Places, Sources, threads, source
    <2>7. CASE DecideRound
      BY <2>7, <1>0, FlagsStay DEF DecideRound, CGoto, SourceToken, B, Holds, Working, Types,
         CollectorTypes, SourceTypes, ProcessTypes, Places, Sources, threads, source
    <2>8. CASE FlagSource
      BY <2>8, <1>0, FlagsStay DEF FlagSource, CGoto, SourceToken, B, Holds, Working, Types,
         CollectorTypes, SourceTypes, ProcessTypes, Places, Sources, threads, source
    <2>9. CASE ReapSource
      BY <2>9, <1>0, FlagsStay DEF ReapSource, Minus, SourcePlaces, Told, SourceToken, B,
         Holds, Working, Types, CollectorTypes, SourceTypes, ProcessTypes, Places, Sources,
         threads, source
    <2>10. CASE EndCollector
      BY <2>10, <1>0, FlagsStay DEF EndCollector, CGoto, SourceToken, B, Holds, Working,
         Types, CollectorTypes, SourceTypes, ProcessTypes, Places, Sources, threads, source
    <2>11. QED
      BY <2>1, <2>2, <2>3, <2>4, <2>5, <2>6, <2>7, <2>8, <2>9, <2>10, <1>1 DEF CollectorStep
  <1>2. ASSUME NEW s \in Sources, SourceMoves(s)
        PROVE  SourceToken(r)'
    <2>1. CASE r # s
      BY <1>0, <1>2, <2>1, SourceFrame DEF Same, collector, SourceToken, B, Holds
    <2>2. CASE r = s
      <3>1. CASE FrameArrives(s)
        BY <3>1, <1>0, <2>2, SourcePlaces(s) DEF FrameArrives, KGoto, SourceToken, B, Holds,
           Working, Types, CollectorTypes, SourceTypes, ProcessTypes, SourcePlaces, Tcp,
           collector, source, threads, Working, KPlaces
      <3>2. CASE CaptureEnds(s)
        BY <3>2, <1>0, <2>2, SourcePlaces(s) DEF CaptureEnds, KGoto, SourceToken, B, Holds,
           Working, Types, CollectorTypes, SourceTypes, ProcessTypes, SourcePlaces, Tcp,
           collector, source, threads, Working, KPlaces
      <3>3. CASE EndObject(s)
        BY <3>3, <1>0, <2>2, SourcePlaces(s) DEF EndObject, KGoto, Plus, SourceToken, B,
           Holds, Working, Types, CollectorTypes, SourceTypes, ProcessTypes, SourcePlaces,
           Tcp, collector, source, threads, Working, KPlaces
      <3>4. CASE TestSourceExit(s)
        BY <3>4, <1>0, <2>2, SourcePlaces(s) DEF TestSourceExit, KGoto, SourceToken, B,
           Holds, Working, Types, CollectorTypes, SourceTypes, ProcessTypes, SourcePlaces,
           Tcp, collector, source, threads, Working, KPlaces
      <3>5. CASE AwaitObject(s)
        BY <3>5, <1>0, <2>2, SourcePlaces(s) DEF AwaitObject, KGoto, Minus, SourceToken, B,
           Holds, Working, Types, CollectorTypes, SourceTypes, ProcessTypes, SourcePlaces,
           Tcp, collector, source, threads, Working, KPlaces
      <3>6. CASE TestBeforeAdd(s)
        BY <3>6, <1>0, <2>2, SourcePlaces(s) DEF TestBeforeAdd, KGoto, CountFrame,
           SourceToken, B, Holds, Working, Types, CollectorTypes, SourceTypes, ProcessTypes,
           SourcePlaces, Tcp, collector, source, threads, Working, KPlaces
      <3>7. CASE AddFrame(s)
        BY <3>7, <1>0, <2>2, SourcePlaces(s) DEF AddFrame, KGoto, CountFrame, SourceToken,
           B, Holds, Working, Types, CollectorTypes, SourceTypes, ProcessTypes,
           SourcePlaces, Tcp, collector, source, threads, Working, KPlaces
      <3>8. CASE CaptureFails(s)
        BY <3>8, <1>0, <2>2, SourcePlaces(s) DEF CaptureFails, KGoto, SourceToken, B, Holds,
           Working, Types, CollectorTypes, SourceTypes, ProcessTypes, SourcePlaces, Tcp,
           collector, source, threads, Working, KPlaces
      <3>9. CASE StartSource(s)
        BY <3>9, <1>0, <2>2, SourcePlaces(s) DEF StartSource, SGoto, Minus, SourceToken, B,
           Holds, Working, Types, CollectorTypes, SourceTypes, ProcessTypes, SourcePlaces,
           Tcp, collector, source, threads, Working, KPlaces
      <3>10. CASE EndTcpSource(s)
        BY <3>10, <1>0, <2>2, SourcePlaces(s) DEF EndTcpSource, SGoto, Plus, SourceToken, B,
           Holds, Working, Types, CollectorTypes, SourceTypes, ProcessTypes, SourcePlaces,
           Tcp, collector, source, threads, Working, KPlaces
      <3>11. CASE StopCamera(s)
        BY <3>11, <1>0, <2>2, SourcePlaces(s) DEF StopCamera, SGoto, Plus, SourceToken, B,
           Holds, Working, Types, CollectorTypes, SourceTypes, ProcessTypes, SourcePlaces,
           Tcp, collector, source, threads, Working, KPlaces
      <3>12. CASE JoinStream(s)
        BY <3>12, <1>0, <2>2, SourcePlaces(s) DEF JoinStream, SGoto, SourceToken, B, Holds,
           Working, Types, CollectorTypes, SourceTypes, ProcessTypes, SourcePlaces, Tcp,
           collector, source, threads, Working, KPlaces
      <3>13. QED
        BY <3>1, <3>2, <3>3, <3>4, <3>5, <3>6, <3>7, <3>8, <3>9, <3>10, <3>11, <3>12, <1>2
           DEF SourceMoves, CaptureStep, SourceStep
    <2>3. QED
      BY <2>1, <2>2
  <1>3. CASE ProcessMoves
    <2>1. CASE InitSource
      BY <2>1, <1>0, FlagsStay DEF InitSource, SourceToken, B, Holds, Working, Types,
         CollectorTypes, SourceTypes, ProcessTypes, Places, collector, threads, source
    <2>2. CASE StartCollector
      BY <2>2, <1>0, FlagsStay DEF StartCollector, PGoto, SourceToken, B, Holds, Working,
         Types, CollectorTypes, SourceTypes, ProcessTypes, Places, collector, threads, source
    <2>3. CASE ConnectFirst
      BY <2>3, <1>0, FlagsStay DEF ConnectFirst, PGoto, SourceToken, B, Holds, Working, Types,
         CollectorTypes, SourceTypes, ProcessTypes, Places, collector, threads, source
    <2>4. CASE TakeObject
      BY <2>4, <1>0, FlagsStay DEF TakeObject, PGoto, SourceToken, B, Holds, Working, Types,
         CollectorTypes, SourceTypes, ProcessTypes, Places, collector, threads, source
    <2>5. CASE NameObject
      BY <2>5, <1>0, FlagsStay DEF NameObject, PGoto, SourceToken, B, Holds, Working, Types,
         CollectorTypes, SourceTypes, ProcessTypes, Places, collector, threads, source
    <2>6. CASE JoinCollector
      BY <2>6, <1>0, FlagsStay DEF JoinCollector, PGoto, SourceToken, B, Holds, Working,
         Types, CollectorTypes, SourceTypes, ProcessTypes, Places, collector, threads, source
    <2>7. CASE DestroySource
      BY <2>7, <1>0, FlagsStay DEF DestroySource, PGoto, Plus, SourceToken, B, Holds, Working,
         Types, CollectorTypes, SourceTypes, ProcessTypes, Places, collector, threads, source
    <2>8. CASE JoinSource
      BY <2>8, <1>0, FlagsStay DEF JoinSource, SourceToken, B, Holds, Working, Types,
         CollectorTypes, SourceTypes, ProcessTypes, Places, collector, threads, source
    <2>9. CASE BeginJob
      BY <2>9, <1>0, FlagsStay DEF BeginJob, SourceToken, B, Holds, Working, Types,
         CollectorTypes, SourceTypes, ProcessTypes, Places, collector, threads, source
    <2>10. CASE LeavePipeline
      BY <2>10, <1>0, FlagsStay DEF LeavePipeline, PGoto, SourceToken, B, Holds, Working,
         Types, CollectorTypes, SourceTypes, ProcessTypes, Places, collector, threads, source
    <2>11. QED
      BY <2>1, <2>2, <2>3, <2>4, <2>5, <2>6, <2>7, <2>8, <2>9, <2>10, <1>3 DEF ProcessMoves,
         ProcessStep
  <1>4. CASE UNCHANGED vars
    BY <1>0, <1>4, FlagsStay DEF SourceToken, B, Holds, Working, Types, CollectorTypes,
       SourceTypes, ProcessTypes, vars, collector, threads, source, process
  <1>5. QED
    BY <1>1, <1>2, <1>3, <1>4, Moves

-----------------------------------------------------------------------------
(* What a source fills depends only on its own part of the state.          *)
LEMMA FillingDepends ==
  ASSUME Types, NEW r \in Sources, Filling(r), sexit[r] => sexit'[r],
         sexit'[r] \/ UNCHANGED <<cap[r], inobj[r], sname[r], sempty[r], dest[r]>>
  PROVE  Filling(r)'
  BY DEF Filling, Counting, Filled, InObject

(* The next object is handed to a source that has filled its last one.     *)
LEMMA FillingHanded ==
  ASSUME Types, Places, Names, NEW r \in Sources, NameOf(r), SourceToken(r), Filling(r),
         HandObject, ci = r
  PROVE  Filling(r)'
  <1>1. SUFFICES ASSUME ~sexit[r]
                 PROVE  Counting(r)' /\ Filled(r)'
    BY DEF HandObject, Filling
  <1>2. /\ sempty[r] = 0 /\ cap[r] \in {"none", "test", "await"}
        /\ sname[r] = Handable(cname - 1) /\ cname >= 2
    <2>1. cpc = "hand" /\ Holds(r) /\ ~Over
      BY DEF HandObject, CLoop, Holds, Over, Ending, Types, CollectorTypes, Sources
    <2>2. sempty[r] = 0 /\ cap[r] \notin Working
      BY <1>1, <2>1 DEF SourceToken, B, Types, SourceTypes
    <2>3. sname[r] = Handable(cname - 1) /\ cname >= 2
      BY <2>1 DEF NameOf, Names, Types, CollectorTypes, Sources
    <2>4. QED
      BY <2>2, <2>3 DEF Working, KPlaces, Types, SourceTypes
  <1>3. /\ UNCHANGED <<cap, inobj, dest>>
        /\ sname'[r] = cname /\ sempty'[r] = 1
    BY <1>2 DEF HandObject, Plus, threads, Types, SourceTypes
  <1>4. cname \in Nat /\ sname[r] \in Nat /\ Limit \in Nat \ {0}
    BY BoundsAssumption DEF Types, CollectorTypes, SourceTypes
  <1>5. CASE cap[r] = "none"
    <2>1. sname[r] = 0 /\ cname = 2 /\ inobj[r] = 0
      BY <1>1, <1>2, <1>4, <1>5 DEF Filling, Counting, Handable
    <2>2. dest[r] = <<>>
      BY <1>1, <2>1 DEF Filling, Filled
    <2>3. Counting(r)'
      BY <1>3, <1>5, <2>1 DEF Counting, Working
    <2>4. Filled(r)'
      BY <1>3, <1>5, <2>1, <2>2, OccEmpty DEF Filled, LastOf
    <2>5. QED
      BY <2>3, <2>4
  <1>6. CASE cap[r] \in {"test", "await"}
    <2>1. sname[r] >= 2 /\ cname = sname[r] + 1 /\ inobj[r] = 0
      BY <1>1, <1>2, <1>4, <1>6 DEF Filling, Counting, Handable
    <2>2. InObject(r) = (IF sname[r] < 3 THEN 0 ELSE Limit) /\ InObject(r)' = 0
      BY <1>2, <1>3, <1>4, <1>6, <2>1 DEF InObject, Working
    <2>3. Counting(r)'
      BY <1>3, <1>4, <1>6, <2>1 DEF Counting, Working
    <2>4. Filled(r)
      BY <1>1 DEF Filling
    <2>5. sname'[r] < 3 => dest'[r] = <<>>
      BY <1>3, <1>4, <2>1
    <2>6. \A k \in DOMAIN dest'[r] : dest'[r][k] \in 3..sname'[r]
      BY <1>3, <1>4, <2>1, <2>4 DEF Filled
    <2>7. ASSUME NEW o \in Nat, o >= 3
          PROVE  Occ(dest'[r], o) =
                   IF o < sname'[r] THEN Limit ELSE IF o = sname'[r] THEN InObject(r)' ELSE 0
      BY <1>3, <1>4, <2>1, <2>2, <2>4, <2>7 DEF Filled
    <2>8. LastOf(dest'[r]) = sname'[r] - 1
      BY <1>3, <1>4, <2>1, <2>2, <2>4 DEF Filled
    <2>9. QED
      BY <1>3, <1>4, <2>1, <2>2, <2>3, <2>5, <2>6, <2>7, <2>8 DEF Filled
  <1>7. QED
    BY <1>2, <1>5, <1>6

(* The frame a source adds is counted for its object.                      *)
LEMMA FillingAdds ==
  ASSUME Types, NEW r \in Sources, Filling(r), AddFrame(r)
  PROVE  Filling(r)'
  <1>1. SUFFICES ASSUME ~sexit[r]
                 PROVE  Counting(r)' /\ Filled(r)'
    BY DEF AddFrame, source, Filling
  <1>2. /\ cap[r] = "add" /\ cap'[r] = "read" /\ UNCHANGED <<sname, sempty>>
        /\ inobj'[r] = inobj[r] + 1 /\ dest'[r] = Append(dest[r], sname[r])
    BY DEF AddFrame, KGoto, CountFrame, source, Types, SourceTypes
  <1>3. sname[r] \in Nat /\ inobj[r] \in Nat /\ Limit \in Nat \ {0} /\ dest[r] \in Seq(Nat)
    BY BoundsAssumption DEF Types, SourceTypes
  <1>4. Counting(r) /\ Filled(r)
    BY <1>1 DEF Filling
  <1>5. sname[r] >= 3 /\ inobj[r] < Limit
    BY <1>2, <1>4 DEF Counting
  <1>6. InObject(r) = inobj[r] /\ InObject(r)' = inobj[r] + 1
    BY <1>2 DEF InObject, Working
  <1>7. Counting(r)'
    BY <1>2, <1>3, <1>5 DEF Counting, Working
  <1>8. \A k \in DOMAIN dest'[r] : dest'[r][k] \in 3..sname'[r]
    <2>1. \A k \in DOMAIN dest[r] : dest[r][k] \in 3..sname[r]
      BY <1>4 DEF Filled
    <2>2. ASSUME NEW k \in DOMAIN Append(dest[r], sname[r])
          PROVE  Append(dest[r], sname[r])[k] \in 3..sname[r]
      BY <1>3, <1>5, <2>1
    <2>3. QED
      BY <1>2, <2>2
  <1>9. ASSUME NEW o \in Nat, o >= 3
        PROVE  Occ(dest'[r], o) =
                 IF o < sname'[r] THEN Limit ELSE IF o = sname'[r] THEN InObject(r)' ELSE 0
    <2>1. Occ(dest'[r], o) = Occ(dest[r], o) + IF sname[r] = o THEN 1 ELSE 0
      <3>1. Occ(Append(dest[r], sname[r]), o) = Occ(dest[r], o) + IF sname[r] = o THEN 1 ELSE 0
        BY <1>3, OccAppend
      <3>2. QED
        BY <1>2, <3>1
    <2>2. Occ(dest[r], o) = IF o < sname[r] THEN Limit ELSE IF o = sname[r] THEN InObject(r) ELSE 0
      BY <1>4, <1>9 DEF Filled
    <2>3. QED
      BY <1>2, <1>3, <1>6, <2>1, <2>2
  <1>10. LastOf(dest'[r]) = sname'[r]
    BY <1>2, <1>3, LastAppend
  <1>11. QED
    BY <1>2, <1>3, <1>5, <1>6, <1>7, <1>8, <1>9, <1>10 DEF Filled

(* An object ends at no frame or at the last one.                          *)
LEMMA Remainder ==
  ASSUME NEW n \in 0..Limit
  PROVE  n % Limit = 0 <=> n = 0 \/ n = Limit
  <1>1. Limit \in Nat \ {0}
    BY BoundsAssumption
  <1>2. n < Limit => n % Limit = n
    BY <1>1
  <1>3. n = Limit => n % Limit = 0
    BY <1>1
  <1>4. QED
    BY <1>1, <1>2, <1>3

(* The other steps of a source leave what it has filled as it is.          *)
LEMMA FillingSource ==
  ASSUME Types, NEW r \in Sources, SourcePlaces(r), SourceToken(r), Filling(r), SourceMoves(r)
  PROVE  Filling(r)'
  <1>1. SUFFICES ASSUME ~sexit'[r], ~AddFrame(r)
                 PROVE  Counting(r)' /\ Filled(r)'
    BY FillingAdds DEF Filling
  <1>2. ~sexit[r] /\ Counting(r) /\ Filled(r)
    BY <1>1, SourceFrame DEF Filling
  <1>3. /\ sname[r] \in Nat /\ inobj[r] \in Nat /\ Limit \in Nat \ {0}
        /\ dest[r] \in Seq(Nat) /\ sempty[r] \in Nat
    BY BoundsAssumption DEF Types, SourceTypes
  <1>4. UNCHANGED sname /\ dest'[r] = dest[r]
    <2>1. CASE FrameArrives(r)
      BY <2>1, <1>1, <1>2 DEF FrameArrives, KGoto, source, Types, SourceTypes
    <2>2. CASE CaptureEnds(r)
      BY <2>2, <1>1, <1>2 DEF CaptureEnds, KGoto, source, Types, SourceTypes
    <2>3. CASE EndObject(r)
      BY <2>3, <1>1, <1>2 DEF EndObject, KGoto, Plus, source, Types, SourceTypes
    <2>4. CASE TestSourceExit(r)
      BY <2>4, <1>1, <1>2 DEF TestSourceExit, KGoto, source, Types, SourceTypes
    <2>5. CASE AwaitObject(r)
      BY <2>5, <1>1, <1>2 DEF AwaitObject, KGoto, Minus, source, Types, SourceTypes
    <2>6. CASE TestBeforeAdd(r)
      BY <2>6, <1>1, <1>2 DEF TestBeforeAdd, KGoto, CountFrame, source, Types, SourceTypes
    <2>7. CASE CaptureFails(r)
      BY <2>7, <1>1, <1>2 DEF CaptureFails, KGoto, source, Types, SourceTypes
    <2>8. CASE StartSource(r)
      BY <2>8, <1>1, <1>2 DEF StartSource, SGoto, Minus, source, Types, SourceTypes
    <2>9. CASE EndTcpSource(r)
      BY <2>9, <1>1, <1>2 DEF EndTcpSource, SGoto, Plus, source, Types, SourceTypes
    <2>10. CASE StopCamera(r)
      BY <2>10, <1>1, <1>2 DEF StopCamera, SGoto, Plus, source, Types, SourceTypes
    <2>11. CASE JoinStream(r)
      BY <2>11, <1>1, <1>2 DEF JoinStream, SGoto, source, Types, SourceTypes
    <2>12. QED
      BY <2>1, <2>2, <2>3, <2>4, <2>5, <2>6, <2>7, <2>8, <2>9, <2>10, <2>11, <1>1 DEF
         SourceMoves, CaptureStep, SourceStep
  <1>5. Counting(r)' /\ InObject(r)' = InObject(r)
    <2>1. CASE FrameArrives(r)
      <3>1. /\ cap[r] = "read" /\ UNCHANGED <<inobj, sname, sempty>>
            /\ cap'[r] = IF inobj[r] % Limit = 0 THEN "post" ELSE "check"
        BY <2>1 DEF FrameArrives, KGoto, source, Types, SourceTypes
      <3>2. inobj[r] \in 0..Limit /\ sname[r] >= 2
        BY <1>2, <1>3, <3>1 DEF Counting, Working
      <3>3. cap'[r] = IF inobj[r] = 0 \/ inobj[r] = Limit THEN "post" ELSE "check"
        BY <3>1, <3>2, Remainder
      <3>4. QED
        BY <1>2, <1>3, <3>1, <3>2, <3>3 DEF Counting, InObject, Working
    <2>2. CASE CaptureEnds(r)
      BY <2>2, <1>1, <1>2, <1>3, <1>4 DEF CaptureEnds, KGoto, Counting, InObject, Working,
         source, threads, Types, SourceTypes, SourceToken, B
    <2>3. CASE EndObject(r)
      BY <2>3, <1>1, <1>2, <1>3, <1>4 DEF EndObject, KGoto, Plus, Counting, InObject, Working,
         source, threads, Types, SourceTypes, SourceToken, B
    <2>4. CASE TestSourceExit(r)
      BY <2>4, <1>1, <1>2, <1>3, <1>4 DEF TestSourceExit, KGoto, Counting, InObject, Working,
         source, threads, Types, SourceTypes, SourceToken, B
    <2>5. CASE AwaitObject(r)
      BY <2>5, <1>1, <1>2, <1>3, <1>4 DEF AwaitObject, KGoto, Minus, Counting, InObject,
         Working, source, threads, Types, SourceTypes, SourceToken, B
    <2>6. CASE TestBeforeAdd(r)
      BY <2>6, <1>1, <1>2, <1>3, <1>4 DEF TestBeforeAdd, KGoto, CountFrame, Counting,
         InObject, Working, source, threads, Types, SourceTypes, SourceToken, B
    <2>7. CASE CaptureFails(r)
      BY <2>7, <1>1, <1>2, <1>3, <1>4 DEF CaptureFails, KGoto, Counting, InObject, Working,
         source, threads, Types, SourceTypes, SourceToken, B
    <2>8. CASE StartSource(r)
      BY <2>8, <1>1, <1>2, <1>3, <1>4, SourcePlaces(r) DEF StartSource, SGoto, Minus,
         SourcePlaces, Counting, InObject, Working, source, threads, Types, SourceTypes,
         SourceToken, B
    <2>9. CASE EndTcpSource(r)
      BY <2>9, <1>1, <1>2, <1>3, <1>4 DEF EndTcpSource, SGoto, Plus, Counting, InObject,
         Working, source, threads, Types, SourceTypes, SourceToken, B
    <2>10. CASE StopCamera(r)
      BY <2>10, <1>1, <1>2, <1>3, <1>4 DEF StopCamera, SGoto, Plus, Counting, InObject,
         Working, source, threads, Types, SourceTypes, SourceToken, B
    <2>11. CASE JoinStream(r)
      BY <2>11, <1>1, <1>2, <1>3, <1>4 DEF JoinStream, SGoto, Counting, InObject, Working,
         source, threads, Types, SourceTypes, SourceToken, B
    <2>12. QED
      BY <2>1, <2>2, <2>3, <2>4, <2>5, <2>6, <2>7, <2>8, <2>9, <2>10, <2>11, <1>1 DEF
         SourceMoves, CaptureStep, SourceStep
  <1>6. QED
    BY <1>2, <1>4, <1>5 DEF Filled

(* No step changes what a source has filled but its own and the hand-out.  *)
LEMMA NextFilling ==
  ASSUME Types, Places, Names, [Next]_vars, NEW r \in Sources,
         SourcePlaces(r), NameOf(r), SourceToken(r), Filling(r)
  PROVE  Filling(r)'
  <1>1. CASE CollectorStep
    <2>1. CASE HandObject /\ ci = r
      BY <2>1, FillingHanded
    <2>2. CASE HandObject /\ ci # r
      BY <2>2, FillingDepends DEF HandObject, Plus, threads, Types, SourceTypes, CollectorTypes
    <2>3. CASE ~HandObject
      <3>1. UNCHANGED <<cap, inobj, sname, sempty, dest>>
        BY <1>1, <2>3 DEF CollectorStep, CGoto, CLoop, AwaitEmpty, HandObject,
           TestCollectorExit, GatherSource, OfferObject, CountEnded, DecideRound,
           FlagSource, ReapSource, EndCollector, threads, source
      <3>2. QED
        BY <3>1, FlagsStay, FillingDepends
    <2>4. QED
      BY <2>1, <2>2, <2>3
  <1>2. ASSUME NEW s \in Sources, SourceMoves(s)
        PROVE  Filling(r)'
    <2>1. CASE s = r
      BY <1>2, <2>1, FillingSource
    <2>2. CASE s # r
      <3>1. Same(r)
        BY <1>2, <2>2, SourceFrame
      <3>2. QED
        BY <3>1, FlagsStay, FillingDepends DEF Same
    <2>3. QED
      BY <2>1, <2>2
  <1>3. CASE ProcessMoves
    <2>1. CASE DestroySource
      <3>1. sexit'[r] \/ sempty'[r] = sempty[r]
        BY <2>1 DEF DestroySource, Plus, Types, SourceTypes
      <3>2. UNCHANGED <<cap, inobj, sname, dest>>
        BY <2>1 DEF DestroySource
      <3>3. QED
        BY <3>1, <3>2, FlagsStay, FillingDepends
    <2>2. CASE ~DestroySource
      <3>1. UNCHANGED <<cap, inobj, sname, sempty, dest>>
        BY <1>3, <2>2 DEF ProcessMoves, ProcessStep, PGoto, InitSource, StartCollector,
           ConnectFirst, TakeObject, NameObject, JoinCollector, DestroySource, JoinSource,
           BeginJob, LeavePipeline, threads, source
      <3>2. QED
        BY <3>1, FlagsStay, FillingDepends
    <2>3. QED
      BY <2>1, <2>2
  <1>4. CASE UNCHANGED vars
    BY <1>4, FlagsStay, FillingDepends DEF vars, threads, source
  <1>5. QED
    BY <1>1, <1>2, <1>3, <1>4, Moves

-----------------------------------------------------------------------------
(* Only two steps append to a source's frames.                             *)
LEMMA FramesKept ==
  ASSUME Types, [Next]_vars, NEW r \in Sources
  PROVE  \/ dest'[r] = dest[r]
         \/ AddFrame(r)
         \/ TestBeforeAdd(r) /\ sexit[r]
  <1>1. CASE CollectorStep
    BY <1>1 DEF CollectorStep, CGoto, CLoop, AwaitEmpty, HandObject, TestCollectorExit,
       GatherSource, OfferObject, CountEnded, DecideRound, FlagSource, ReapSource, EndCollector
  <1>2. ASSUME NEW s \in Sources, SourceMoves(s), s # r
        PROVE  dest'[r] = dest[r]
    BY <1>2, SourceFrame DEF Same
  <1>3. CASE SourceMoves(r)
    <2>1. CASE FrameArrives(r)
      BY <2>1 DEF FrameArrives, KGoto
    <2>2. CASE CaptureEnds(r)
      BY <2>2 DEF CaptureEnds, KGoto
    <2>3. CASE EndObject(r)
      BY <2>3 DEF EndObject, KGoto, Plus
    <2>4. CASE TestSourceExit(r)
      BY <2>4 DEF TestSourceExit, KGoto
    <2>5. CASE AwaitObject(r)
      BY <2>5 DEF AwaitObject, KGoto, Minus
    <2>6. CASE CaptureFails(r)
      BY <2>6 DEF CaptureFails, KGoto
    <2>7. CASE StartSource(r)
      BY <2>7 DEF StartSource, SGoto, Minus
    <2>8. CASE EndTcpSource(r)
      BY <2>8 DEF EndTcpSource, SGoto, Plus
    <2>9. CASE StopCamera(r)
      BY <2>9 DEF StopCamera, SGoto, Plus
    <2>10. CASE JoinStream(r)
      BY <2>10 DEF JoinStream, SGoto
    <2>11. CASE TestBeforeAdd(r)
      BY <2>11 DEF TestBeforeAdd, KGoto, CountFrame
    <2>12. QED
      BY <2>1, <2>2, <2>3, <2>4, <2>5, <2>6, <2>7, <2>8, <2>9, <2>10, <2>11, <1>3 DEF
         SourceMoves, CaptureStep, SourceStep
  <1>4. CASE ProcessMoves
    BY <1>4 DEF ProcessMoves, ProcessStep, PGoto, InitSource, StartCollector, ConnectFirst,
       TakeObject, NameObject, JoinCollector, DestroySource, JoinSource, BeginJob, LeavePipeline
  <1>5. CASE UNCHANGED vars
    BY <1>5 DEF vars
  <1>6. QED
    BY <1>1, <1>2, <1>3, <1>4, <1>5, Moves

(* What these two steps append, and where they leave from.                 *)
LEMMA AppendedFrame ==
  ASSUME Types, NEW r \in Sources
  PROVE  /\ AddFrame(r) => /\ cap[r] = "add" /\ cap'[r] = "read"
                           /\ dest'[r] = Append(dest[r], sname[r]) /\ UNCHANGED <<sexit, handed>>
         /\ TestBeforeAdd(r) /\ sexit[r] => /\ cap[r] = "check" /\ cap'[r] = "read"
                                            /\ dest'[r] = Append(dest[r], 0) /\ UNCHANGED <<sexit, handed>>
  <1>1. ASSUME AddFrame(r)
        PROVE  /\ cap[r] = "add" /\ cap'[r] = "read"
               /\ dest'[r] = Append(dest[r], sname[r]) /\ UNCHANGED <<sexit, handed>>
    BY <1>1 DEF AddFrame, KGoto, CountFrame, source, process, Types, SourceTypes
  <1>2. ASSUME TestBeforeAdd(r), sexit[r]
        PROVE  /\ cap[r] = "check" /\ cap'[r] = "read"
               /\ dest'[r] = Append(dest[r], 0) /\ UNCHANGED <<sexit, handed>>
    BY <1>2 DEF TestBeforeAdd, KGoto, CountFrame, source, process, Types, SourceTypes
  <1>3. QED
    BY <1>1, <1>2

(* A source comes to add a frame from its test of the flag only, and keeps *)
(* its object until it has added it.                                       *)
LEMMA ComesToAdd ==
  ASSUME Types, [Next]_vars, NEW r \in Sources, SourcePlaces(r), SourceToken(r), cap'[r] = "add"
  PROVE  /\ UNCHANGED <<sname[r], dest[r]>>
         /\ cap[r] = "add" \/ (cap[r] = "check" /\ ~sexit[r])
  <1>1. CASE CollectorStep
    <2>1. UNCHANGED <<cap, dest>>
      BY <1>1 DEF CollectorStep, CGoto, CLoop, AwaitEmpty, HandObject, TestCollectorExit,
         GatherSource, OfferObject, CountEnded, DecideRound, FlagSource, ReapSource,
         EndCollector, threads
    <2>2. ~(HandObject /\ ci = r)
      <3>1. SUFFICES ASSUME HandObject, ci = r
                     PROVE  FALSE
        OBVIOUS
      <3>2. cpc = "hand" /\ Holds(r)
        BY <3>1 DEF HandObject, CLoop, Holds, Types, CollectorTypes, Sources
      <3>3. cap[r] = "add"
        BY <2>1
      <3>4. CASE sexit[r]
        BY <3>2, <3>3, <3>4 DEF SourcePlaces, Ending
      <3>5. CASE ~sexit[r]
        BY <3>2, <3>3, <3>5 DEF SourceToken, B, Working, Types, SourceTypes
      <3>6. QED
        BY <3>4, <3>5
    <2>3. CASE HandObject
      BY <2>1, <2>2, <2>3 DEF HandObject, Types, SourceTypes, CollectorTypes
    <2>4. CASE ~HandObject
      BY <1>1, <2>1, <2>4 DEF CollectorStep, CGoto, CLoop, AwaitEmpty, HandObject,
         TestCollectorExit, GatherSource, OfferObject, CountEnded, DecideRound, FlagSource,
         ReapSource, EndCollector, source
    <2>5. QED
      BY <2>1, <2>3, <2>4
  <1>2. ASSUME NEW s \in Sources, SourceMoves(s), s # r
        PROVE  UNCHANGED <<sname[r], dest[r], cap[r]>>
    BY <1>2, SourceFrame DEF Same
  <1>3. CASE SourceMoves(r)
    <2>1. CASE FrameArrives(r)
      BY <2>1 DEF FrameArrives, KGoto, source, threads, Types, SourceTypes
    <2>2. CASE CaptureEnds(r)
      BY <2>2 DEF CaptureEnds, KGoto, source, threads, Types, SourceTypes
    <2>3. CASE EndObject(r)
      BY <2>3 DEF EndObject, KGoto, Plus, source, threads, Types, SourceTypes
    <2>4. CASE TestSourceExit(r)
      BY <2>4 DEF TestSourceExit, KGoto, source, threads, Types, SourceTypes
    <2>5. CASE AwaitObject(r)
      BY <2>5 DEF AwaitObject, KGoto, Minus, source, threads, Types, SourceTypes
    <2>6. CASE TestBeforeAdd(r)
      BY <2>6 DEF TestBeforeAdd, KGoto, CountFrame, source, threads, Types, SourceTypes
    <2>7. CASE AddFrame(r)
      BY <2>7 DEF AddFrame, KGoto, CountFrame, source, threads, Types, SourceTypes
    <2>8. CASE CaptureFails(r)
      BY <2>8 DEF CaptureFails, KGoto, source, threads, Types, SourceTypes
    <2>9. CASE StartSource(r)
      BY <2>9 DEF StartSource, SGoto, Minus, source, threads, Types, SourceTypes
    <2>10. CASE EndTcpSource(r)
      BY <2>10 DEF EndTcpSource, SGoto, Plus, source, threads, Types, SourceTypes
    <2>11. CASE StopCamera(r)
      BY <2>11 DEF StopCamera, SGoto, Plus, source, threads, Types, SourceTypes
    <2>12. CASE JoinStream(r)
      BY <2>12 DEF JoinStream, SGoto, source, threads, Types, SourceTypes
    <2>13. QED
      BY <2>1, <2>2, <2>3, <2>4, <2>5, <2>6, <2>7, <2>8, <2>9, <2>10, <2>11, <2>12, <1>3 DEF
         SourceMoves, CaptureStep, SourceStep
  <1>4. CASE ProcessMoves
    BY <1>4 DEF ProcessMoves, ProcessStep, PGoto, InitSource, StartCollector, ConnectFirst,
       TakeObject, NameObject, JoinCollector, DestroySource, JoinSource, BeginJob,
       LeavePipeline, threads, source
  <1>5. CASE UNCHANGED vars
    BY <1>5 DEF vars, threads, source
  <1>6. QED
    BY <1>1, <1>2, <1>3, <1>4, <1>5, Moves

(* The object a frame is added to follows the one before it.               *)
LEMMA NextAdding ==
  ASSUME Types, [Next]_vars, NEW r \in Sources,
         SourcePlaces(r), SourceToken(r), Filling(r), Adding(r)
  PROVE  Adding(r)'
  <1>1. sname[r] \in Nat /\ dest[r] \in Seq(Nat)
    BY DEF Types, SourceTypes
  <1>2. ASSUME cap'[r] = "add"
        PROVE  /\ sname'[r] >= 3 /\ sname'[r] \in {LastOf(dest'[r]), LastOf(dest'[r]) + 1}
               /\ \A k \in DOMAIN dest'[r] : dest'[r][k] # 0
    <2>1. CASE cap[r] = "add"
      BY <1>2, <2>1, ComesToAdd DEF Adding
    <2>2. CASE cap[r] = "check" /\ ~sexit[r]
      <3>1. Counting(r) /\ Filled(r)
        BY <2>2 DEF Filling
      <3>2. sname[r] >= 3 /\ LastOf(dest[r]) \in {sname[r], sname[r] - 1}
        BY <1>1, <2>2, <3>1 DEF Counting, Filled
      <3>3. \A k \in DOMAIN dest[r] : dest[r][k] # 0
        BY <1>1, <3>1 DEF Filled
      <3>4. QED
        BY <1>1, <1>2, <3>2, <3>3, ComesToAdd
    <2>3. QED
      BY <1>2, <2>1, <2>2, ComesToAdd
  <1>3. \A k \in DOMAIN dest'[r] : dest'[r][k] = 0 \/ dest'[r][k] >= 3
    <2>1. CASE dest'[r] = dest[r]
      BY <2>1 DEF Adding
    <2>2. CASE AddFrame(r)
      <3>1. sname[r] >= 3 /\ dest'[r] = Append(dest[r], sname[r])
        BY <2>2, AppendedFrame DEF Adding
      <3>2. QED
        BY <1>1, <3>1 DEF Adding
    <2>3. CASE TestBeforeAdd(r) /\ sexit[r]
      <3>1. dest'[r] = Append(dest[r], 0)
        BY <2>3, AppendedFrame
      <3>2. QED
        BY <1>1, <3>1 DEF Adding
    <2>4. QED
      BY <2>1, <2>2, <2>3, FramesKept
  <1>4. QED
    BY <1>2, <1>3 DEF Adding

(* FramesInOrder, for one source.                                          *)
InOrder(s) ==
  \A k \in DOMAIN dest[s] :
    LET before == IF k = 1 THEN 2 ELSE dest[s][k-1]
    IN  \/ dest[s][k] = 0 /\ sexit[s]
        \/ dest[s][k] = before + 1
        \/ k > 1 /\ dest[s][k] = before

(* An appended frame keeps the order of the objects.                       *)
LEMMA NextInOrder ==
  ASSUME Types, Places, [Next]_vars, NEW r \in Sources, Adding(r), InOrder(r)
  PROVE  InOrder(r)'
  <1>1. sname[r] \in Nat /\ dest[r] \in Seq(Nat)
    BY DEF Types, SourceTypes
  <1>2. sexit[r] => sexit'[r]
    BY FlagsStay
  <1>3. CASE dest'[r] = dest[r]
    BY <1>2, <1>3 DEF InOrder
  <1>4. ASSUME NEW x \in Nat, dest'[r] = Append(dest[r], x),
               \/ x = 0 /\ sexit[r]
               \/ x >= 3 /\ x \in {LastOf(dest[r]), LastOf(dest[r]) + 1}
        PROVE  InOrder(r)'
    <2>1. SUFFICES ASSUME NEW k \in DOMAIN dest'[r],
                          ~(dest'[r][k] = 0 /\ sexit'[r])
                   PROVE  \/ dest'[r][k] = (IF k = 1 THEN 2 ELSE dest'[r][k-1]) + 1
                          \/ k > 1 /\ dest'[r][k] = (IF k = 1 THEN 2 ELSE dest'[r][k-1])
      BY DEF InOrder
    <2>2. k \in 1..Len(dest[r]) + 1 /\ dest'[r][k] = IF k = Len(dest[r]) + 1 THEN x ELSE dest[r][k]
      BY <1>1, <1>4
    <2>3. k # 1 => dest'[r][k-1] = dest[r][k-1]
      BY <1>1, <1>4, <2>2
    <2>4. CASE k \in DOMAIN dest[r]
      <3>1. dest'[r][k] = dest[r][k] /\ ~(dest[r][k] = 0 /\ sexit[r])
        BY <1>1, <1>2, <2>1, <2>2, <2>4
      <3>2. \/ dest[r][k] = (IF k = 1 THEN 2 ELSE dest[r][k-1]) + 1
            \/ k > 1 /\ dest[r][k] = (IF k = 1 THEN 2 ELSE dest[r][k-1])
        BY <2>4, <3>1 DEF InOrder
      <3>3. CASE k = 1
        BY <3>1, <3>2, <3>3
      <3>4. CASE k # 1
        BY <2>3, <3>1, <3>2, <3>4
      <3>5. QED
        BY <3>3, <3>4
    <2>5. CASE k = Len(dest[r]) + 1
      <3>1. x \in {LastOf(dest[r]), LastOf(dest[r]) + 1} /\ x >= 3
        BY <1>2, <1>4, <2>1, <2>2, <2>5
      <3>2. CASE k = 1
        BY <1>1, <2>2, <2>5, <3>1, <3>2 DEF LastOf
      <3>3. CASE k # 1
        BY <1>1, <2>2, <2>3, <2>5, <3>1, <3>3 DEF LastOf
      <3>4. QED
        BY <3>2, <3>3
    <2>6. QED
      BY <1>1, <2>2, <2>4, <2>5
  <1>5. CASE AddFrame(r)
    BY <1>1, <1>4, <1>5, AppendedFrame DEF Adding
  <1>6. CASE TestBeforeAdd(r) /\ sexit[r]
    BY <1>4, <1>6, AppendedFrame
  <1>7. QED
    BY <1>3, <1>5, <1>6, FramesKept

-----------------------------------------------------------------------------
(* What FullObjects says of one object.                                    *)
FullFrom(s, j) ==
  IF j <= 2 THEN FramesOf(s, j) = 0 ELSE FramesOf(s, j) = Limit \/ sexit[s]

(* No object but the one of a source gets more frames, and that one has    *)
(* not got all of them.                                                    *)
LEMMA FullStays ==
  ASSUME Types, Places, [Next]_vars, NEW r \in Sources, Filling(r), Adding(r),
         NEW j \in Nat \ {0}, FullFrom(r, j)
  PROVE  FullFrom(r, j)'
  <1>1. sname[r] \in Nat /\ dest[r] \in Seq(Nat) /\ Limit \in Nat \ {0}
    BY BoundsAssumption DEF Types, SourceTypes
  <1>2. sexit[r] => sexit'[r]
    BY FlagsStay
  <1>3. CASE dest'[r] = dest[r]
    BY <1>2, <1>3 DEF FullFrom, FramesOf
  <1>4. ASSUME NEW x \in Nat, x # j \/ (j > 2 /\ sexit[r]), dest'[r] = Append(dest[r], x)
        PROVE  FullFrom(r, j)'
    <2>1. CASE x # j
      <3>1. Occ(Append(dest[r], x), j) = Occ(dest[r], j)
        BY <1>1, <2>1, OccAppend
      <3>2. FramesOf(r, j)' = FramesOf(r, j)
        BY <1>4, <3>1 DEF FramesOf, Occ
      <3>3. QED
        BY <1>2, <3>2 DEF FullFrom
    <2>2. CASE j > 2 /\ sexit[r]
      BY <1>2, <2>2 DEF FullFrom
    <2>3. QED
      BY <1>4, <2>1, <2>2
  <1>5. CASE AddFrame(r)
    <2>1. cap[r] = "add" /\ dest'[r] = Append(dest[r], sname[r])
      BY <1>5, AppendedFrame
    <2>2. sname[r] >= 3
      BY <2>1 DEF Adding
    <2>3. ASSUME sname[r] = j, ~sexit[r]
          PROVE  FALSE
      <3>1. Occ(dest[r], j) = inobj[r] /\ inobj[r] < Limit
        BY <1>1, <2>1, <2>2, <2>3 DEF Filling, Counting, Filled, InObject, Working
      <3>2. Occ(dest[r], j) = Limit
        BY <1>1, <2>2, <2>3 DEF FullFrom, FramesOf, Occ
      <3>3. QED
        BY <1>1, <3>1, <3>2
    <2>4. QED
      BY <1>1, <1>4, <2>1, <2>2, <2>3
  <1>6. CASE TestBeforeAdd(r) /\ sexit[r]
    BY <1>4, <1>6, AppendedFrame
  <1>7. QED
    BY <1>3, <1>5, <1>6, FramesKept

(* An object that is taken has been filled by every source.                *)
LEMMA TakenIsFull ==
  ASSUME Types, Places, ObjectToken, Names, TakeObject, NEW r \in Sources,
         SourcePlaces(r), NameOf(r), SourceToken(r), Filling(r), Adding(r)
  PROVE  FullFrom(r, cname)
  <1>1. cname \in Nat \ {0} /\ dest[r] \in Seq(Nat) /\ sname[r] \in Nat /\ Limit \in Nat
    BY BoundsAssumption DEF TakeObject, PGoto, Names, Types, CollectorTypes, SourceTypes
  <1>2. CASE cname <= 2
    <2>1. {k \in DOMAIN dest[r] : dest[r][k] = cname} = {}
      BY <1>1, <1>2 DEF Adding
    <2>2. QED
      BY <1>2, <2>1, FS_EmptySet DEF FullFrom, FramesOf
  <1>3. CASE cname > 2 /\ ~sexit[r]
    <2>1. ~Over /\ cpc \notin {"none", "last", "done"}
      BY <1>3 DEF Over, SourcePlaces, Told, TakeObject, Places
    <2>2. cempty = 0 /\ cpc \in {"await", "count", "decide"}
      BY <2>1 DEF ObjectToken, B, TakeObject, CPlaces, Types, CollectorTypes
    <2>3. sname[r] = cname
      BY <1>1, <1>3, <2>1, <2>2 DEF NameOf, Handable
    <2>4. sempty[r] = 0 /\ cap[r] \notin Working
      BY <1>3, <2>2 DEF SourceToken, Holds, B, Types, SourceTypes
    <2>5. Occ(dest[r], cname) = Limit
      BY <1>1, <1>3, <2>3, <2>4 DEF Filling, Filled, InObject
    <2>6. QED
      BY <1>1, <1>3, <2>5 DEF FullFrom, FramesOf, Occ
  <1>4. CASE cname > 2 /\ sexit[r]
    BY <1>1, <1>4 DEF FullFrom
  <1>5. QED
    BY <1>1, <1>2, <1>3, <1>4

(* Only first_action passes objects on.                                    *)
LEMMA HandedKept ==
  ASSUME [Next]_vars
  PROVE  \/ handed' = handed
         \/ TakeObject
         \/ BeginJob /\ cexit /\ handed' = Append(handed, 0)
  <1>1. CASE CollectorStep
    BY <1>1 DEF CollectorStep, CGoto, CLoop, AwaitEmpty, HandObject, TestCollectorExit,
       GatherSource, OfferObject, CountEnded, DecideRound, FlagSource, ReapSource, EndCollector,
       process
  <1>2. ASSUME NEW s \in Sources, SourceMoves(s)
        PROVE  handed' = handed
    BY <1>2 DEF CaptureStep, SourceMoves, SourceStep, SGoto, KGoto, CountFrame, FrameArrives,
       CaptureEnds, EndObject, TestSourceExit, AwaitObject, TestBeforeAdd, AddFrame,
       CaptureFails, StartSource, EndTcpSource, StopCamera, JoinStream, process
  <1>3. CASE ProcessMoves
    BY <1>3 DEF ProcessMoves, ProcessStep, PGoto, InitSource, StartCollector, ConnectFirst,
       TakeObject, NameObject, JoinCollector, DestroySource, JoinSource, BeginJob, LeavePipeline
  <1>4. CASE UNCHANGED vars
    BY <1>4 DEF vars, process
  <1>5. QED
    BY <1>1, <1>2, <1>3, <1>4, Moves

(* Objects passed on stay full, and the next one is full when it is taken. *)
LEMMA NextFullObjects ==
  ASSUME Types, Places, ObjectToken, Names, Jobs, [Next]_vars, FullObjects,
         \A s \in Sources : SourcePlaces(s) /\ NameOf(s) /\ SourceToken(s) /\ Filling(s) /\ Adding(s)
  PROVE  FullObjects'
  <1>1. handed \in Seq(Nat) /\ cname \in Nat /\ objects \in Nat
    BY DEF Types, CollectorTypes, ProcessTypes
  <1>2. Sources' = Sources /\ 1 \in Sources
    BY ListKept DEF Sources, Types, CollectorTypes
  <1>3. cexit => cexit'
    BY <1>2, FlagsStay
  <1>4. ASSUME NEW j \in DOMAIN handed
        PROVE  IF handed[j] = 0 THEN cexit' ELSE handed[j] = j /\ \A s \in Sources : FullFrom(s, j)'
    <2>1. j \in Nat \ {0}
      BY <1>1
    <2>2. CASE handed[j] = 0
      BY <1>3, <2>2 DEF FullObjects
    <2>3. CASE handed[j] # 0
      <3>1. handed[j] = j /\ \A s \in Sources : FullFrom(s, j)
        BY <2>3 DEF FullObjects, FullFrom
      <3>2. QED
        BY <2>1, <2>3, <3>1, FullStays
    <2>4. QED
      BY <2>2, <2>3
  <1>5. CASE handed' = handed
    BY <1>2, <1>4, <1>5 DEF FullObjects, FullFrom
  <1>6. CASE TakeObject
    <2>1. /\ handed' = Append(handed, cname) /\ Len(handed) + 1 = cname /\ cname > 0
          /\ UNCHANGED <<dest, sexit>>
      BY <1>1, <1>6 DEF TakeObject, PGoto, Jobs, Names, source
    <2>2. ASSUME NEW s \in Sources
          PROVE  FullFrom(s, cname)'
      <3>1. FullFrom(s, cname)
        BY <1>6, TakenIsFull
      <3>2. cname' = cname
        BY <1>6 DEF TakeObject
      <3>3. QED
        BY <2>1, <3>1, <3>2 DEF FullFrom, FramesOf
    <2>3. cname' = cname
      BY <1>6 DEF TakeObject
    <2>4. ASSUME NEW j \in DOMAIN handed'
          PROVE  IF handed'[j] = 0 THEN cexit' ELSE handed'[j] = j /\ \A s \in Sources : FullFrom(s, j)'
      <3>1. CASE j \in DOMAIN handed
        BY <1>1, <1>4, <2>1, <3>1
      <3>2. CASE j \notin DOMAIN handed
        <4>1. j = cname /\ handed'[j] = cname
          BY <1>1, <2>1, <3>2
        <4>2. QED
          BY <1>1, <2>1, <2>2, <2>3, <4>1 DEF FullFrom, FramesOf
      <3>3. QED
        BY <3>1, <3>2
    <2>5. QED
      BY <1>2, <2>4 DEF FullObjects, FullFrom
  <1>7. CASE BeginJob /\ cexit /\ handed' = Append(handed, 0)
    <2>1. ASSUME NEW j \in DOMAIN handed'
          PROVE  IF handed'[j] = 0 THEN cexit' ELSE handed'[j] = j /\ \A s \in Sources : FullFrom(s, j)'
      <3>1. CASE j \in DOMAIN handed
        BY <1>1, <1>4, <1>7, <3>1
      <3>2. CASE j \notin DOMAIN handed
        BY <1>1, <1>3, <1>7, <3>2
      <3>3. QED
        BY <3>1, <3>2
    <2>2. QED
      BY <1>2, <2>1 DEF FullObjects, FullFrom
  <1>8. QED
    BY <1>5, <1>6, <1>7, HandedKept

-----------------------------------------------------------------------------
(* Every step keeps the invariant.                                         *)
LEMMA NextIInv == IInv /\ [Next]_vars => IInv'
  <1> SUFFICES ASSUME IInv, [Next]_vars PROVE IInv'
    OBVIOUS
  <1> USE DEF IInv
  <1>1. Sources' = Sources
    BY ListKept
  <1>2. Types' /\ Places' /\ ObjectToken' /\ Names' /\ Jobs'
    BY NextTypes, NextPlaces, NextObjectToken, NextNames, NextJobs
  <1>3. ASSUME NEW s \in Sources
        PROVE  (SourcePlaces(s) /\ NameOf(s) /\ SourceToken(s) /\ Filling(s) /\ Adding(s))'
    <2>1. SourcePlaces(s)' /\ NameOf(s)' /\ SourceToken(s)'
      BY NextSourcePlaces, NextNameOf, NextSourceToken
    <2>2. Filling(s)' /\ Adding(s)'
      BY NextFilling, NextAdding
    <2>3. QED
      BY <2>1, <2>2
  <1>4. FullObjects'
    BY NextFullObjects
  <1>5. FramesInOrder'
    <2>1. ASSUME NEW s \in Sources
          PROVE  InOrder(s)'
      <3>1. InOrder(s)
        BY DEF FramesInOrder, InOrder
      <3>2. QED
        BY <3>1, NextInOrder
    <2>2. QED
      BY <1>1, <2>1 DEF FramesInOrder, InOrder
  <1>6. QED
    BY <1>1, <1>2, <1>3, <1>4, <1>5

(* The invariant holds for every list of sources.                          *)
THEOREM CollectorInductive == Spec => []IInv
  <1>1. QED
    BY InitIInv, NextIInv, PTL DEF Spec

(* The jobs get the objects in the order of their creation, and from the   *)
(* third on each holds Limit frames of every source that has not ended:    *)
(* collect_data_thread waits for data_ready of all sources before it posts *)
(* its own, and first_action names the next object only then.              *)
THEOREM ObjectsAreFull == Spec => []FullObjects
  <1>1. IInv => FullObjects
    BY DEF IInv
  <1>2. QED
    BY <1>1, CollectorInductive, PTL

(* A source's frames fill the objects one after the other; new_frame_action*)
(* loses the object of a frame only after the source has been told to end. *)
THEOREM FramesFillInOrder == Spec => []FramesInOrder
  <1>1. IInv => FramesInOrder
    BY DEF IInv
  <1>2. QED
    BY <1>1, CollectorInductive, PTL
=============================================================================
