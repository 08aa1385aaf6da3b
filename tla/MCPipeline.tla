----------------------------- MODULE MCPipeline -----------------------------
(* Instances of Pipeline for TLC.                                          *)
EXTENDS PipelineFlow

\* clients answer with success or a dropped frame, or end themselves with -1
AllStatuses == {StatusOk, StatusDrop, StatusStop}
=============================================================================
