---------------------------- MODULE PipelineFlow ----------------------------
(***************************************************************************)
(* The pipeline implements FrameFlow: read from the finalization module    *)
(* back to the source, the chunks its threads and mailboxes hold are the   *)
(* frames under way, oldest first.                                         *)
(***************************************************************************)
EXTENDS Pipeline, FiniteSets

\* the places a chunk passes, counted from the end: the thread of stage
\* LastStage first, then its mailbox, and so upstream
HandPlace(i) == 2 * (LastStage - i) + 1
BoxPlace(i)  == 2 * (LastStage - i) + 2

\* the chunks under way, each with its place
Carried ==
  {<<HandPlace(i), off[i]>> : i \in {j \in Stages : Holds(j)}}
    \cup {<<BoxPlace(i), dataoffset[i]>> : i \in {j \in Inner : Boxed(j)}}

\* how many are not behind c, and the chunks in the order of their places
Rank(C, c) == Cardinality({d \in C : d[1] <= c[1]})
InLine(C)  == [k \in 1..Cardinality(C) |-> (CHOOSE c \in C : Rank(C, c) = k)[2]]

Conveyor == InLine(Carried)

Flow == INSTANCE FrameFlow WITH flow <- Conveyor

(* Frames go through pipeline.c's threads in the order they were captured, *)
(* each through every step or dropped by one, and every chunk returns to   *)
(* the ring exactly once: the pipeline implements FrameFlow.               *)
ImplementsFlow == Flow!Spec
=============================================================================
