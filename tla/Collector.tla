------------------------------ MODULE Collector ------------------------------
(***************************************************************************)
(* The first module's process: source threads capture frames and add them  *)
(* to the object under assembly, the collector thread closes an object     *)
(* when every source has come to its end and hands the next one out, and   *)
(* first_action, run by pipeline_process for each job, passes a closed     *)
(* object to the pipeline and names a new one (dclprocessor/collector/src/ *)
(* collector.c and source.c, dclprocessor/processor/src/dclprocessor_old   *)
(* .cpp, dclcomponents/first.cpp).  Objects are numbered by creation.      *)
(* sleep() orders nothing and is left out, so are the images.              *)
(***************************************************************************)
EXTENDS Integers, Sequences, FiniteSets

CONSTANTS
  Descriptions,  \* the lists of sources a collector is configured with
  Limit,         \* OBJECT_DETECTION_FRAME_LIMIT: frames of an object
  MaxFrames,     \* bound: frames a source delivers
  MaxJobs        \* bound: jobs the pipeline gives to the first module

ASSUME DescriptionsAssumption ==
  \A d \in Descriptions : d \in Seq({"tcp", "camera"}) /\ d # <<>>
ASSUME BoundsAssumption == Limit \in Nat \ {0} /\ MaxFrames \in Nat /\ MaxJobs \in Nat

VARIABLES
  desc,        \* collector_description: the kind of each source
  cpc, ci,     \* collect_data_thread: where it is, its loop index
  cexit,       \* collector->exit_flag
  cname,       \* collector->data: the object to hand to the sources next
  cempty,      \* sem collector->empty_ready
  cready,      \* sem collector->data_ready
  spc,         \* where each source thread is
  cap,         \* where each capture loop is: a tcp source's own thread, or
               \* the stream thread of its camera
  live,        \* camera->state = STREAM_LIVE
  sexit,       \* source->exit_flag
  sname,       \* source->data: the object it adds frames to, 0 is ""
  sempty,      \* sem source->empty_ready
  sready,      \* sem source->data_ready
  inobj,       \* source->frames_in_object
  ppc, pi,     \* main's thread of the process: where it is, its loop index
  objects,     \* objects created so far
  handed,      \* jobs done: the object passed on, 0 if none was written
  dest         \* per source and frame, the object it was added to, 0 if none

collector == <<cpc, ci, cexit, cname, cempty, cready>>
threads   == <<spc, cap, live, inobj>>
source    == <<sexit, sname, sempty, sready>>
process   == <<ppc, pi, objects, handed>>
vars      == <<desc, collector, threads, source, process, dest>>

N       == Len(desc)
Sources == 1..N
Tcp(s)  == desc[s] = "tcp"

Init ==
  /\ desc \in Descriptions
  /\ cpc = "none" /\ ci = 1 /\ cexit = FALSE /\ cname = 0
  /\ cempty = 0 /\ cready = 0
  /\ spc = [s \in Sources |-> "none"] /\ cap = [s \in Sources |-> "none"]
  /\ live = [s \in Sources |-> FALSE] /\ inobj = [s \in Sources |-> 0]
  /\ sexit = [s \in Sources |-> FALSE] /\ sname = [s \in Sources |-> 0]
  /\ sempty = [s \in Sources |-> 0] /\ sready = [s \in Sources |-> 0]
  /\ ppc = "init" /\ pi = 1 /\ objects = 0 /\ handed = <<>>
  /\ dest = [s \in Sources |-> <<>>]

Plus(f, s)  == [f EXCEPT ![s] = @ + 1]
Minus(f, s) == [f EXCEPT ![s] = @ - 1]

-----------------------------------------------------------------------------
(* collect_data_thread.                                                    *)

\* a fault of main's thread ends the process with all its threads
Alive == ppc # "faulted"

CGoto(from, to) == Alive /\ cpc = from /\ cpc' = to

\* a loop over the sources: step the index, leave for `to` behind the last
CLoop(at, to) ==
  /\ Alive /\ cpc = at
  /\ IF ci < N THEN ci' = ci + 1 /\ cpc' = at ELSE ci' = 1 /\ cpc' = to

AwaitEmpty ==
  /\ CGoto("await", "hand")
  /\ cempty > 0 /\ cempty' = cempty - 1
  /\ UNCHANGED <<desc, ci, cexit, cname, cready, threads, source, process, dest>>

HandObject ==
  /\ CLoop("hand", "head")
  /\ sname' = [sname EXCEPT ![ci] = cname]
  /\ sempty' = Plus(sempty, ci)
  /\ UNCHANGED <<desc, cexit, cname, cempty, cready, threads, sexit, sready, process, dest>>

TestCollectorExit ==
  /\ CGoto("head", IF cexit THEN "flag" ELSE "gather")
  /\ UNCHANGED <<desc, ci, cexit, cname, cempty, cready, threads, source, process, dest>>

\* variant: the object is offered when the first source has ended its part
GatherFirstOnly ==
  /\ CGoto("gather", "offer")
  /\ sready[1] > 0 /\ sready' = Minus(sready, 1)
  /\ UNCHANGED <<desc, ci, cexit, cname, cempty, cready, threads, sexit, sname, sempty, process, dest>>

GatherSource ==
  /\ CLoop("gather", "offer")
  /\ sready[ci] > 0 /\ sready' = Minus(sready, ci)
  /\ UNCHANGED <<desc, cexit, cname, cempty, cready, threads, sexit, sname, sempty, process, dest>>

OfferObject ==
  /\ CGoto("offer", "count")
  /\ cready' = cready + 1
  /\ UNCHANGED <<desc, ci, cexit, cname, cempty, threads, source, process, dest>>

\* cnt starts at 0 again for every source
CountEnded ==
  /\ CGoto("count", "decide")
  /\ cexit' = (cexit \/ \E s \in Sources : (IF sexit[s] THEN 1 ELSE 0) = N)
  /\ UNCHANGED <<desc, ci, cname, cempty, cready, threads, source, process, dest>>

DecideRound ==
  /\ CGoto("decide", IF cexit THEN "head" ELSE "await")
  /\ sexit' = IF cexit THEN [s \in Sources |-> TRUE] ELSE sexit
  /\ UNCHANGED <<desc, ci, cexit, cname, cempty, cready, threads, sname, sempty, sready, process, dest>>

\* behind the loop: flag each source and wait for one more data_ready of it
FlagSource ==
  /\ CGoto("flag", "reap")
  /\ sexit' = [sexit EXCEPT ![ci] = TRUE]
  /\ UNCHANGED <<desc, ci, cexit, cname, cempty, cready, threads, sname, sempty, sready, process, dest>>

ReapSource ==
  /\ Alive /\ cpc = "reap"
  /\ sready[ci] > 0 /\ sready' = Minus(sready, ci)
  /\ IF ci < N THEN ci' = ci + 1 /\ cpc' = "flag" ELSE ci' = 1 /\ cpc' = "last"
  /\ UNCHANGED <<desc, cexit, cname, cempty, cready, threads, sexit, sname, sempty, process, dest>>

EndCollector ==
  /\ CGoto("last", "done")
  /\ cready' = cready + 1
  /\ UNCHANGED <<desc, ci, cexit, cname, cempty, threads, source, process, dest>>

CollectorStep ==
  \/ AwaitEmpty \/ HandObject \/ TestCollectorExit \/ GatherSource \/ OfferObject
  \/ CountEnded \/ DecideRound \/ FlagSource \/ ReapSource \/ EndCollector

-----------------------------------------------------------------------------
(* source_data_thread_tcp, source_data_thread_udp, camera_gvsp_thread and  *)
(* the new_frame_action they call.                                         *)

SGoto(s, from, to) == Alive /\ spc[s] = from /\ spc' = [spc EXCEPT ![s] = to]
KGoto(s, from, to) == Alive /\ cap[s] = from /\ cap' = [cap EXCEPT ![s] = to]

\* a camera is told to start and gets its stream thread
StartSource(s) ==
  /\ SGoto(s, "start", "loop")
  /\ sempty[s] > 0 /\ sempty' = Minus(sempty, s)
  /\ cap' = [cap EXCEPT ![s] = "read"]
  /\ live' = [live EXCEPT ![s] = ~Tcp(s)]
  /\ UNCHANGED <<desc, collector, inobj, sexit, sname, sready, process, dest>>

\* the condition of the capture loop
Capturing(s) == IF Tcp(s) THEN ~sexit[s] ELSE live[s]

\* variant: an object ends one frame too late
FrameArrivesLate(s) ==
  /\ KGoto(s, "read", IF inobj[s] > Limit \/ dest[s] = <<>> THEN "post" ELSE "check")
  /\ Capturing(s)
  /\ Len(dest[s]) < MaxFrames
  /\ UNCHANGED <<desc, collector, spc, live, inobj, source, process, dest>>

\* no object_detection_callback is set: an object ends after Limit frames
FrameArrives(s) ==
  /\ KGoto(s, "read", IF inobj[s] % Limit = 0 THEN "post" ELSE "check")
  /\ Capturing(s)
  /\ Len(dest[s]) < MaxFrames
  /\ UNCHANGED <<desc, collector, spc, live, inobj, source, process, dest>>

\* a socket error: a tcp source raises its flag, a stream thread just returns
CaptureFails(s) ==
  /\ KGoto(s, "read", "ended")
  /\ Capturing(s)
  /\ sexit' = [sexit EXCEPT ![s] = @ \/ Tcp(s)]
  /\ UNCHANGED <<desc, collector, spc, live, inobj, sname, sempty, sready, process, dest>>

CaptureEnds(s) ==
  /\ KGoto(s, "read", "ended")
  /\ ~Capturing(s)
  /\ live' = [live EXCEPT ![s] = FALSE]
  /\ UNCHANGED <<desc, collector, spc, inobj, source, process, dest>>

EndObject(s) ==
  /\ KGoto(s, "post", "test")
  /\ inobj' = [inobj EXCEPT ![s] = 0]
  /\ sready' = Plus(sready, s)
  /\ UNCHANGED <<desc, collector, spc, live, sexit, sname, sempty, process, dest>>

\* variant: a source goes on without waiting for the next object
GoOnWithoutObject(s) ==
  /\ KGoto(s, "test", "check")
  /\ UNCHANGED <<desc, collector, spc, live, inobj, source, process, dest>>

TestSourceExit(s) ==
  /\ KGoto(s, "test", IF sexit[s] THEN "check" ELSE "await")
  /\ UNCHANGED <<desc, collector, spc, live, inobj, source, process, dest>>

AwaitObject(s) ==
  /\ KGoto(s, "await", "check")
  /\ sempty[s] > 0 /\ sempty' = Minus(sempty, s)
  /\ UNCHANGED <<desc, collector, spc, live, inobj, sexit, sname, sready, process, dest>>

CountFrame(s, o) ==
  /\ dest' = [dest EXCEPT ![s] = Append(@, o)]
  /\ inobj' = [inobj EXCEPT ![s] = @ + 1]

TestBeforeAdd(s) ==
  /\ KGoto(s, "check", IF sexit[s] THEN "read" ELSE "add")
  /\ IF sexit[s] THEN CountFrame(s, 0) ELSE UNCHANGED <<dest, inobj>>
  /\ UNCHANGED <<desc, collector, spc, live, source, process>>

\* add_frame_callback: the storage adds the frame to the object of that name
AddFrame(s) ==
  /\ KGoto(s, "add", "read")
  /\ CountFrame(s, sname[s])
  /\ UNCHANGED <<desc, collector, spc, live, source, process>>

EndTcpSource(s) ==
  /\ SGoto(s, "loop", "done")
  /\ Tcp(s) /\ cap[s] = "ended"
  /\ sready' = Plus(sready, s)
  /\ UNCHANGED <<desc, collector, cap, live, inobj, sexit, sname, sempty, process, dest>>

\* variant: a stopped camera does not tell the collector
StopCameraQuietly(s) ==
  /\ SGoto(s, "loop", "join")
  /\ ~Tcp(s) /\ (sexit[s] \/ ~live[s])
  /\ live' = [live EXCEPT ![s] = FALSE]
  /\ sexit' = [sexit EXCEPT ![s] = TRUE]
  /\ UNCHANGED <<desc, collector, cap, inobj, sname, sempty, sready, process, dest>>

\* the watchdog loop ends by the flag or the state
StopCamera(s) ==
  /\ SGoto(s, "loop", "join")
  /\ ~Tcp(s) /\ (sexit[s] \/ ~live[s])
  /\ live' = [live EXCEPT ![s] = FALSE]
  /\ sexit' = [sexit EXCEPT ![s] = TRUE]
  /\ sready' = Plus(sready, s)
  /\ UNCHANGED <<desc, collector, cap, inobj, sname, sempty, process, dest>>

JoinStream(s) ==
  /\ SGoto(s, "join", "done")
  /\ cap[s] = "ended"
  /\ UNCHANGED <<desc, collector, cap, live, inobj, source, process, dest>>

CaptureStep(s) ==
  \/ FrameArrives(s) \/ CaptureEnds(s) \/ EndObject(s) \/ TestSourceExit(s)
  \/ AwaitObject(s) \/ TestBeforeAdd(s) \/ AddFrame(s)

SourceStep(s) == StartSource(s) \/ EndTcpSource(s) \/ StopCamera(s) \/ JoinStream(s)

-----------------------------------------------------------------------------
(* main's thread: collector_init, connect_to_pipeline with first_action,   *)
(* collector_destroy.                                                      *)

PGoto(from, to) == ppc = from /\ ppc' = to

\* source_init; after a failure collector_init writes to a source it has not
InitSource ==
  /\ ppc = "init" /\ pi <= N
  /\ \/ spc' = [spc EXCEPT ![pi] = "start"] /\ pi' = pi + 1 /\ ppc' = "init"
     \/ ppc' = "faulted" /\ UNCHANGED <<spc, pi>>
  /\ UNCHANGED <<desc, collector, cap, live, inobj, source, objects, handed, dest>>

\* data_ready starts at 1
StartCollector ==
  /\ PGoto("init", "connect")
  /\ pi > N /\ pi' = 1
  /\ cpc' = "await" /\ cready' = 1
  /\ UNCHANGED <<desc, ci, cexit, cname, cempty, threads, source, objects, handed, dest>>

\* the first object exists before the first job
ConnectFirst ==
  /\ PGoto("connect", "idle")
  /\ objects' = 1 /\ cname' = 1
  /\ UNCHANGED <<desc, cpc, ci, cexit, cempty, cready, threads, source, pi, handed, dest>>

\* a job: with the collector at its end the data of the job are not written
BeginJob ==
  /\ ppc = "idle"
  /\ Len(handed) < MaxJobs
  /\ IF cexit
     THEN /\ cempty' = cempty + 1 /\ handed' = Append(handed, 0)
          /\ UNCHANGED ppc
     ELSE ppc' = "wait" /\ UNCHANGED <<cempty, handed>>
  /\ UNCHANGED <<desc, cpc, ci, cexit, cname, cready, threads, source, pi, objects, dest>>

TakeObject ==
  /\ PGoto("wait", "name")
  /\ cready > 0 /\ cready' = cready - 1
  /\ handed' = Append(handed, cname)
  /\ UNCHANGED <<desc, cpc, ci, cexit, cname, cempty, threads, source, pi, objects, dest>>

\* variant: the sources go on before they have a new name
NameObjectLate ==
  /\ PGoto("name", "idle")
  /\ objects' = objects + 1
  /\ cname' = IF objects = 1 THEN 2 ELSE objects
  /\ cempty' = cempty + 1
  /\ UNCHANGED <<desc, cpc, ci, cexit, cready, threads, source, pi, handed, dest>>

NameObject ==
  /\ PGoto("name", "idle")
  /\ objects' = objects + 1 /\ cname' = objects + 1
  /\ cempty' = cempty + 1
  /\ UNCHANGED <<desc, cpc, ci, cexit, cready, threads, source, pi, handed, dest>>

\* pipeline_process returns on STOP
LeavePipeline ==
  /\ PGoto("idle", "join")
  /\ cexit' = TRUE
  /\ UNCHANGED <<desc, cpc, ci, cname, cempty, cready, threads, source, pi, objects, handed, dest>>

JoinCollector ==
  /\ PGoto("join", "destroy")
  /\ cpc = "done"
  /\ UNCHANGED <<desc, collector, threads, source, pi, objects, handed, dest>>

\* source_destroy: a stream thread that waits for an object is let go
DestroySource ==
  /\ PGoto("destroy", "joinSource")
  /\ sexit' = [sexit EXCEPT ![pi] = TRUE]
  /\ live' = [live EXCEPT ![pi] = FALSE]
  /\ sempty' = IF Tcp(pi) THEN sempty ELSE Plus(sempty, pi)
  /\ UNCHANGED <<desc, collector, spc, cap, inobj, sname, sready, pi, objects, handed, dest>>

JoinSource ==
  /\ ppc = "joinSource" /\ spc[pi] = "done"
  /\ IF pi < N THEN pi' = pi + 1 /\ ppc' = "destroy" ELSE pi' = pi /\ ppc' = "done"
  /\ UNCHANGED <<desc, collector, threads, source, objects, handed, dest>>

ProcessStep ==
  \/ InitSource \/ StartCollector \/ ConnectFirst \/ TakeObject \/ NameObject
  \/ JoinCollector \/ DestroySource \/ JoinSource

Next ==
  \/ CollectorStep
  \/ \E s \in Sources : CaptureStep(s) \/ SourceStep(s) \/ CaptureFails(s)
  \/ ProcessStep \/ BeginJob \/ LeavePipeline

Spec == Init /\ [][Next]_vars

\* the threads run, and a blocked read comes back: a camera sends or closes
FairSpec ==
  /\ Spec /\ WF_vars(CollectorStep) /\ WF_vars(ProcessStep)
  /\ \A s \in 1..2 : /\ WF_vars(s \in Sources /\ CaptureStep(s))
                     /\ WF_vars(s \in Sources /\ SourceStep(s))

-----------------------------------------------------------------------------
FramesOf(s, o) == Cardinality({k \in DOMAIN dest[s] : dest[s][k] = o})

(* Objects are passed on in the order they were created and none twice; a  *)
(* job gets no object only when the collector is ending.  The first two    *)
(* are empty (data_ready starts at 1, and a source ends an object before   *)
(* its first frame); every later one has Limit frames of every source that *)
(* has not ended.                                                          *)
FullObjects ==
  \A j \in DOMAIN handed :
    IF handed[j] = 0 THEN cexit
    ELSE /\ handed[j] = j
         /\ \A s \in Sources :
              IF j <= 2 THEN FramesOf(s, j) = 0
              ELSE FramesOf(s, j) = Limit \/ sexit[s]

(* The frames of a source fill the objects one after the other, from the   *)
(* third one created (the second is passed on empty) without leaving one   *)
(* out; a frame without an object comes only after the stop of its source. *)
FramesInOrder ==
  \A s \in Sources : \A k \in DOMAIN dest[s] :
    LET before == IF k = 1 THEN 2 ELSE dest[s][k-1]
    IN  \/ dest[s][k] = 0 /\ sexit[s]
        \/ dest[s][k] = before + 1
        \/ k > 1 /\ dest[s][k] = before

(* A raised exit flag ends the collector thread but for these waits: for a *)
(* job that first_action no longer gets; for another data_ready of a tcp   *)
(* source that gave its last one at the end of an object or of itself; and *)
(* for a source that delivers nothing more, as its stream has failed or    *)
(* its camera is silent.  Nobody else's order of steps holds it up.        *)
NoMoreJobs == cpc = "await" /\ cempty = 0
AtItsEnd(s) ==
  /\ cpc \in {"gather", "reap"} /\ Tcp(s)
  /\ spc[s] = "done" \/ cap[s] = "await"
Silent(s) ==
  /\ cpc = "gather"
  /\ \/ cap[s] = "ended" /\ spc[s] = "loop" /\ ~Tcp(s)
     \/ cap[s] = "read" /\ Len(dest[s]) = MaxFrames
Stranded(s) == ci = s /\ sready[s] = 0 /\ (AtItsEnd(s) \/ Silent(s))
StopEndsCollector ==
  cexit ~> (cpc = "done" \/ NoMoreJobs \/ \E s \in Sources : Stranded(s))

(* collector.c:84 "Stop all sources if collector stopping...": once the    *)
(* collector has left its loop to stop the sources, every one of them ends. *)
StopEndsSources == cpc = "flag" ~> (\A s \in Sources : spc[s] = "done")
=============================================================================
