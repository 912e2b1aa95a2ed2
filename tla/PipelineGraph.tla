--------------------------- MODULE PipelineGraph ---------------------------
(***************************************************************************)
(* agents/graph, agents/nodes and agents/engine.py: one execution of the   *)
(* agent DAG, from initial_state to the outcome the engine returns.  The   *)
(* behaviour is either LangGraphPipelineEngine.run (graph = "pipeline") or *)
(* LangGraphPipelineEngine.recheck, which re-enters the same nodes.        *)
(*                                                                         *)
(* LangGraph, which is not under src, runs the graph in supersteps: the    *)
(* active nodes run concurrently on one snapshot, their writes are merged  *)
(* at the end, and their outgoing edges choose the next active nodes.  The *)
(* fan-out is a superstep of one task per sub-query, and the tasks finish  *)
(* in any order.                                                           *)
(*                                                                         *)
(* A sub-query stands for itself, its retrieval outcome and its normalized *)
(* query; texts, payloads and token counts are left out.                   *)
(***************************************************************************)
EXTENDS Naturals, FiniteSets

CONSTANTS
  Branch,   \* the sub-queries a plan may have, at most max_planned_queries
  Setting   \* [minSuccessful, routing]: PipelineSettings.min_successful_retrievals,
            \* and when LangGraph evaluates the router behind the fan-out; see Join

ASSUME GraphAssumption ==
  /\ IsFiniteSet(Branch) /\ Branch # {}
  /\ Setting \subseteq [minSuccessful : Nat \ {0}, routing : {"joined", "per_task"}]

VARIABLES
  setting,     \* the one that is in force
  graph,       \* "pipeline" or "recheck"
  active,      \* the nodes of the present superstep
  plan,        \* the sub-queries of the plan; {} is plan = None
  pending,     \* branches of the fan-out that have not returned
  outcomes,    \* retrieval_outcomes, by sub-query
  normalized,  \* normalized and queries: the usable sub-queries
  analysis,    \* whether analysis is not None
  reason,      \* degradation_reason
  executed,    \* the nodes that ran, as RunMetrics.node_executions lists them
  report,      \* the report document, or NoReport
  result       \* what the engine returned, or NoResult

channels == <<plan, outcomes, normalized, analysis, reason, report>>
graphVars == <<setting, graph, active, pending, channels, executed, result>>

Node == {"ingest", "query_planner", "planner_fallback", "retrieval",
         "normalization", "analysis", "degradation", "report"}
Reason == {"none", "no_plan_produced", "upstream_circuit_open", "all_retrievals_failed",
           "normalization_empty", "analysis_unavailable", "insufficient_retrievals"}

NoReport == [rendered |-> FALSE, degraded |-> FALSE, queries |-> {}]
NoResult == [status |-> "none", reason |-> "none"]

GraphTypeOK ==
  /\ setting \in Setting
  /\ graph \in {"pipeline", "recheck"}
  /\ active \subseteq Node
  /\ plan \subseteq Branch
  /\ pending \subseteq plan
  /\ pending # {} => active = {"retrieval"}
  /\ outcomes \in [Branch -> {"none", "succeeded", "failed", "circuit_open"}]
  /\ normalized \subseteq plan
  /\ analysis \in BOOLEAN
  /\ reason \in Reason
  /\ executed \subseteq Node
  /\ report \in [rendered : BOOLEAN, degraded : BOOLEAN, queries : SUBSET Branch]
  /\ result \in [status : {"none", "completed", "partial", "failed"}, reason : Reason]

\* A recheck starts from a plan of the one stored query; its entry point is the
\* retrieval node.
Init ==
  /\ setting \in Setting
  /\ \/ graph = "pipeline" /\ active = {"ingest"} /\ plan = {}
     \/ graph = "recheck" /\ active = {"retrieval"} /\ \E b \in Branch : plan = {b}
  /\ pending = plan
  /\ outcomes = [b \in Branch |-> "none"]
  /\ normalized = {}
  /\ analysis = FALSE
  /\ reason = "none"
  /\ executed = {}
  /\ report = NoReport
  /\ result = NoResult

Succeeded(branches) == {b \in branches : outcomes[b] = "succeeded"}
Required == IF graph = "recheck" THEN 1 ELSE setting.minSuccessful

-----------------------------------------------------------------------------
(* Planning *)

Ingest ==
  /\ active = {"ingest"}
  /\ active' = {"query_planner"}
  /\ executed' = executed \cup active
  /\ UNCHANGED <<setting, graph, pending, channels, result>>

\* An LLM failure gives no plan; a plan that is too long is cut to the limit.
QueryPlanner ==
  /\ active = {"query_planner"}
  /\ plan' \in SUBSET Branch
  /\ active' = IF plan' = {} THEN {"planner_fallback"} ELSE {"retrieval"}
  /\ pending' = plan'
  /\ executed' = executed \cup active
  /\ UNCHANGED <<setting, graph, outcomes, normalized, analysis, reason, report, result>>

\* A fallback plan has at least one sub-query: without any, RetrievalPlan raises,
\* so route_after_fallback never goes to the degradation node.
PlannerFallback ==
  /\ active = {"planner_fallback"}
  /\ plan' \in (SUBSET Branch) \ {{}}
  /\ active' = {"retrieval"}
  /\ pending' = plan'
  /\ executed' = executed \cup active
  /\ UNCHANGED <<setting, graph, outcomes, normalized, analysis, reason, report, result>>

-----------------------------------------------------------------------------
(* Retrieval *)

\* perform_retrieval catches every classified failure of the LLM and of the search
\* provider, so a branch returns an outcome; what else it raises is a Crash.
Retrieve(b) ==
  /\ active = {"retrieval"}
  /\ b \in pending
  /\ \E o \in {"succeeded", "failed", "circuit_open"} : outcomes' = [outcomes EXCEPT ![b] = o]
  /\ pending' = pending \ {b}
  /\ executed' = executed \cup active
  /\ UNCHANGED <<setting, graph, active, plan, normalized, analysis, reason, report, result>>

\* mutants: the threshold off by one, either way
RouteAfterRetrievalLax(branches) ==
  IF Cardinality(Succeeded(branches)) + 1 < Required
  THEN IF graph = "recheck" THEN "END" ELSE "degradation"
  ELSE "normalization"
RouteAfterRetrievalStrict(branches) ==
  IF Cardinality(Succeeded(branches)) <= Required
  THEN IF graph = "recheck" THEN "END" ELSE "degradation"
  ELSE "normalization"

RouteAfterRetrieval(branches) ==
  IF Cardinality(Succeeded(branches)) < Required
  THEN IF graph = "recheck" THEN "END" ELSE "degradation"
  ELSE "normalization"

\* mutant: the routers run as soon as one branch is back
JoinEarly ==
  /\ active = {"retrieval"}
  /\ pending # plan
  /\ active' = {RouteAfterRetrieval(plan \ pending)} \ {"END"}
  /\ UNCHANGED <<setting, graph, pending, channels, executed, result>>

\* The fan-out joins.  builder.py:82 has the router evaluated once, on the outcomes
\* of all branches ("joined").  LangGraph evaluates the conditional edge of a node
\* for each of its tasks, on a state with the writes of that task alone ("per_task").
Join ==
  /\ active = {"retrieval"}
  /\ pending = {}
  /\ active' = (IF setting.routing = "joined" THEN {RouteAfterRetrieval(plan)}
                ELSE {RouteAfterRetrieval({b}) : b \in plan}) \ {"END"}
  /\ UNCHANGED <<setting, graph, pending, channels, executed, result>>

-----------------------------------------------------------------------------
(* The nodes after the join.  Each writes its own channel. *)

\* A query is usable if at least one of its payloads could be parsed.
Normalization ==
  normalized' \in IF "normalization" \in active THEN SUBSET Succeeded(plan) ELSE {normalized}

\* An LLM failure leaves analysis = None.
Analysis == analysis' \in IF "analysis" \in active THEN BOOLEAN ELSE {analysis}

ClassifyDegradation ==
  IF plan = {} THEN "no_plan_produced"
  ELSE IF \E b \in plan : outcomes[b] = "circuit_open" THEN "upstream_circuit_open"
  ELSE IF Succeeded(plan) = {} THEN "all_retrievals_failed"
  ELSE IF normalized = {} THEN "normalization_empty"
  ELSE IF ~analysis THEN "analysis_unavailable"
  ELSE "insufficient_retrievals"

Degradation == reason' = IF "degradation" \in active THEN ClassifyDegradation ELSE reason

\* With or without the LLM, the node writes a document of the state it reads.
Report ==
  report' = IF "report" \in active
            THEN [rendered |-> TRUE, degraded |-> reason # "none", queries |-> normalized]
            ELSE report

\* mutant: the report is written before the run is classified
EdgeReportFirst(node) ==
  CASE node = "normalization" -> IF normalized' = {} THEN "report" ELSE "analysis"
    [] node = "analysis" -> "report"
    [] node = "report" -> IF reason = "none" /\ ~analysis THEN "degradation" ELSE "END"
    [] node = "degradation" -> IF report.rendered THEN "END" ELSE "report"

\* mutant: a degraded run ends without a report
EdgeForgetsReport(node) ==
  CASE node = "normalization" -> IF normalized' = {} THEN "degradation" ELSE "analysis"
    [] node = "analysis" -> IF analysis' THEN "report" ELSE "degradation"
    [] node = "degradation" -> "END"
    [] node = "report" -> "END"

\* mutant: a run whose analysis failed is sent through normalization again
EdgeRetryAnalysis(node) ==
  CASE node = "normalization" -> IF normalized' = {} THEN "degradation" ELSE "analysis"
    [] node = "analysis" -> IF analysis' THEN "report" ELSE "normalization"
    [] node = "degradation" -> "report"
    [] node = "report" -> "END"

\* builder.py: the edges of both graphs, with route_after_normalization and
\* route_after_analysis on the states their nodes leave.
Edge(node) ==
  CASE node = "normalization" /\ normalized' # {} -> "analysis"
    [] node = "normalization" /\ normalized' = {} ->
         IF graph = "recheck" THEN "END" ELSE "degradation"
    [] node = "analysis" /\ graph = "recheck" -> "END"
    [] node = "analysis" /\ graph = "pipeline" ->
         IF analysis' THEN "report" ELSE "degradation"
    [] node = "degradation" -> "report"
    [] node = "report" -> "END"

Superstep ==
  /\ active # {}
  /\ active \subseteq {"normalization", "analysis", "degradation", "report"}
  /\ Normalization /\ Analysis /\ Degradation /\ Report
  /\ active' = {Edge(node) : node \in active} \ {"END"}
  /\ executed' = executed \cup active
  /\ UNCHANGED <<setting, graph, plan, pending, outcomes, result>>

-----------------------------------------------------------------------------
(* engine.py *)

\* _to_outcome for the pipeline; a recheck is measured by the queries it has.
Return ==
  /\ active = {}
  /\ result = NoResult
  /\ result' =
       IF graph = "recheck"
       THEN IF normalized = {} THEN [status |-> "partial", reason |-> ClassifyDegradation]
            ELSE [status |-> "completed", reason |-> "none"]
       ELSE [status |-> IF ~report.rendered THEN "failed"
                        ELSE IF reason # "none" THEN "partial" ELSE "completed",
             reason |-> reason]
  /\ UNCHANGED <<setting, graph, active, pending, channels, executed>>

\* Any exception a node lets out cancels its siblings and fails the execution; the
\* state it had reached is lost.
Crash ==
  /\ active # {}
  /\ active' = {}
  /\ pending' = {}
  /\ normalized' = {}
  /\ report' = NoReport
  /\ result' = [status |-> "failed", reason |-> "none"]
  /\ executed' = executed \cup active
  /\ UNCHANGED <<setting, graph, plan, outcomes, analysis, reason>>

Next ==
  \/ Ingest \/ QueryPlanner \/ PlannerFallback
  \/ (\E b \in Branch : Retrieve(b)) \/ Join
  \/ Superstep \/ Return \/ Crash

Spec == Init /\ [][Next]_graphVars

\* LangGraph keeps scheduling until no node is active; every node awaits only calls
\* that time out.
FairSpec == Spec /\ WF_graphVars(Next)

-----------------------------------------------------------------------------
(* Properties *)

\* A run reported as completed measured enough, kept something, analysed it, and
\* its report covers all of it (settings.py:194-198, routing.py).
CompletedIsWhole ==
  result.status = "completed" =>
    /\ Cardinality(Succeeded(plan)) >= Required
    /\ normalized # {}
    /\ graph = "pipeline" => analysis /\ ~report.degraded /\ report.queries = normalized

\* Too few retrievals, nothing usable, or no analysis.
Shortfall ==
  \/ Cardinality(Succeeded(plan)) < Required
  \/ "normalization" \in executed /\ normalized = {}
  \/ "analysis" \in executed /\ ~analysis

\* A run is reported as partial only for a cause, and with a reason
\* (run_pipeline.py:79).  Where the router sees one branch at a time, a branch that
\* fell short of the threshold by itself is a cause, too.
PartialHasCause ==
  result.status = "partial" =>
    /\ result.reason # "none"
    /\ \/ Shortfall
       \/ /\ setting.routing = "per_task"
          /\ \E b \in plan : Cardinality(Succeeded({b})) < Required

\* "Below this, the graph routes to the degradation node and the run is reported as
\* 'partial'" (settings.py:197): a run that did not fall short is not partial.
PartialNeedsShortfall == result.status = "partial" => Shortfall

\* The document says "degraded" exactly when the run's status does.
ReportAgrees ==
  graph = "pipeline" /\ result.status \in {"completed", "partial"} =>
    /\ report.rendered
    /\ report.degraded = (result.status = "partial")

\* No execution that raised nothing is reported as failed: all ways through the
\* graph pass the report node.
FailedOnlyByCrash == [][ result' # result /\ result'.status = "failed" => active # {} ]_graphVars

\* Every execution returns an outcome.
RunEnds == <>(result # NoResult)
=============================================================================
