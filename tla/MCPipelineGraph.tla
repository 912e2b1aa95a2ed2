--------------------------- MODULE MCPipelineGraph ---------------------------
(* Instances of PipelineGraph for TLC: plans of up to three sub-queries. *)
EXTENDS PipelineGraph

\* Both readings of the fan-out's conditional edge, and thresholds that one branch
\* can and cannot reach alone.
Settings == [minSuccessful : {1, 2}, routing : {"joined", "per_task"}]

\* The default threshold, routed as LangGraph does.
PerTask == {[minSuccessful |-> 1, routing |-> "per_task"]}
=============================================================================
