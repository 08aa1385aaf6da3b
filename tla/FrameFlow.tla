----------------------------- MODULE FrameFlow -----------------------------
(***************************************************************************)
(* What the pipeline promises, without its threads, semaphores and client  *)
(* processes: data chunks are taken from a free list, each carries one     *)
(* frame through the steps 0..LastStage-1 in that order, frames do not     *)
(* overtake one another, a step may drop a frame, and the others come back *)
(* to the free list complete and in the order they were taken.             *)
(***************************************************************************)
EXTENDS Naturals, Sequences, SequencesExt

CONSTANTS LastStage, DataCnt

VARIABLES
  free,     \* the free chunks, next to be taken first
  flow,     \* the chunks under way, oldest first
  visited   \* the steps that worked on a chunk's frame

flowVars == <<free, flow, visited>>

Steps == 0..LastStage - 1

Init ==
  /\ free = [k \in 1..DataCnt |-> k]
  /\ flow = <<>>
  /\ visited = [o \in 1..DataCnt |-> {}]

Take ==
  /\ free # <<>>
  /\ flow' = Append(flow, Head(free))
  /\ free' = Tail(free)
  /\ UNCHANGED visited

\* the first step starts a new frame in the chunk, the others add to it
Process(k, s) ==
  LET o == flow[k] IN
    /\ s > 0 => visited[o] = 0..s - 1
    /\ \A older \in 1..k - 1 : s \in visited[flow[older]]
    /\ visited' = [visited EXCEPT ![o] = 0..s]
    /\ UNCHANGED <<free, flow>>

\* a step that has worked on the frame rejects it; the first one cannot
Drop(k, s) ==
  LET o == flow[k] IN
    /\ s > 0
    /\ visited[o] = 0..s
    /\ flow' = RemoveAt(flow, k)
    /\ free' = Append(free, o)
    /\ UNCHANGED visited

Release ==
  /\ flow # <<>>
  /\ visited[Head(flow)] = Steps
  /\ visited' = [visited EXCEPT ![Head(flow)] = {}]
  /\ free' = Append(free, Head(flow))
  /\ flow' = Tail(flow)

Next ==
  \/ Take
  \/ \E k \in DOMAIN flow, s \in Steps : Process(k, s) \/ Drop(k, s)
  \/ Release

Spec == Init /\ [][Next]_flowVars
=============================================================================
