-------------------------- MODULE MCPipelineServer --------------------------
(* Instances of PipelineServer for TLC.                                    *)
EXTENDS PipelineServer

AnsweringStatuses == {StatusOk, StatusDrop}

\* every order of the modules
AllOrders == {l \in [1..LastStage + 1 -> Stages] :
                \A j, k \in DOMAIN l : j # k => l[j] # l[k]}

\* the first pipeline of a server, and one after others took slots
FirstOrLater == {0, 2}
=============================================================================
