------------------------- MODULE PipelineGraphProofs -------------------------
(***************************************************************************)
(* Theorems of PipelineGraph for every finite set of branches, every       *)
(* threshold and both readings of the fan-out's conditional edge: what an  *)
(* execution is reported as agrees with what it did.                       *)
(*                                                                         *)
(* After the join the graph can only be in eight sets of active nodes      *)
(* (Stage), and what will be said in the end is decided by then: either    *)
(* nothing is short, and no node of the degraded path is or was active, or *)
(* there is a cause, and the reason is recorded before the report that     *)
(* ends the execution reads it.                                            *)
(***************************************************************************)
EXTENDS PipelineGraph, FiniteSetTheorems, TLAPS

USE GraphAssumption

Enough == Cardinality(Succeeded(plan)) >= Required

\* Short at the join, which nothing later changes
JoinCause ==
  \/ Cardinality(Succeeded(plan)) < Required
  \/ /\ setting.routing = "per_task"
     /\ \E b \in plan : Cardinality(Succeeded({b})) < Required

Cause ==
  \/ JoinCause
  \/ "normalization" \in executed /\ normalized = {}
  \/ "analysis" \in executed /\ ~analysis

\* Before the join nothing has been kept or classified.
Planning ==
  /\ active \in {{"ingest"}, {"query_planner"}, {"planner_fallback"}}
  /\ graph = "pipeline" /\ plan = {}
  /\ normalized = {} /\ reason = "none"

Retrieving ==
  /\ active = {"retrieval"} /\ plan # {}
  /\ graph = "recheck" => \E b \in Branch : plan = {b}
  /\ normalized = {} /\ reason = "none"
  /\ \A b \in plan \ pending : outcomes[b] # "none"

Stage ==
  \/ active = {"normalization"} /\ reason = "none" /\ Enough
  \/ active = {"analysis"} /\ reason = "none" /\ Enough /\ normalized # {}
  \/ active = {} /\ graph = "recheck" /\ (normalized = {} => Cause)
  \/ /\ graph = "pipeline"
     /\ \/ active = {"normalization", "degradation"} /\ reason = "none" /\ JoinCause
        \/ active = {"analysis", "report"} /\ reason # "none" /\ JoinCause
        \/ active = {"degradation"} /\ Cause
        \/ active = {"degradation", "report"} /\ reason # "none" /\ Cause
        \/ active = {"report"} /\ reason # "none" /\ Cause
        \/ active = {"report"} /\ reason = "none" /\ Enough /\ normalized # {} /\ analysis
        \/ active = {} /\ reason # "none" /\ Cause /\ report.rendered /\ report.degraded
        \/ /\ active = {} /\ reason = "none" /\ Enough /\ normalized # {} /\ analysis
           /\ report.rendered /\ ~report.degraded /\ report.queries = normalized

Joined ==
  /\ Stage
  /\ plan # {} /\ \A b \in plan : outcomes[b] # "none"

GraphInv ==
  /\ GraphTypeOK
  /\ normalized \subseteq Succeeded(plan)
  /\ result = NoResult => Planning \/ Retrieving \/ Joined
  /\ result # NoResult => active = {}
  /\ CompletedIsWhole /\ PartialHasCause /\ ReportAgrees

LEMMA Counts ==
  /\ Required \in Nat \ {0} \/ ~GraphTypeOK
  /\ \A S \in SUBSET Branch : /\ Cardinality(Succeeded(S)) \in Nat
                              /\ Succeeded(S) # {} => Cardinality(Succeeded(S)) >= 1
                              /\ Succeeded(S) = {} => Cardinality(Succeeded(S)) = 0
                              /\ \A b \in S : Succeeded({b}) \subseteq Succeeded(S)
<1>1. GraphTypeOK => Required \in Nat \ {0}
  BY DEF GraphTypeOK, Required
<1>2. ASSUME NEW S \in SUBSET Branch
      PROVE  /\ Cardinality(Succeeded(S)) \in Nat
             /\ Succeeded(S) # {} => Cardinality(Succeeded(S)) >= 1
             /\ Succeeded(S) = {} => Cardinality(Succeeded(S)) = 0
             /\ \A b \in S : Succeeded({b}) \subseteq Succeeded(S)
  <2>1. IsFiniteSet(Succeeded(S))
    <3>1. Succeeded(S) \in SUBSET Branch
      BY DEF Succeeded
    <3> QED BY <3>1, FS_Subset
  <2>2. \A b \in S : Succeeded({b}) \subseteq Succeeded(S)
    BY DEF Succeeded
  <2> HIDE DEF Succeeded
  <2>3. Cardinality(Succeeded(S)) \in Nat
    BY <2>1, FS_CardinalityType
  <2>4. Cardinality(Succeeded(S)) = 0 <=> Succeeded(S) = {}
    BY <2>1, FS_EmptySet
  <2> QED BY <2>2, <2>3, <2>4
<1> QED BY <1>1, <1>2

LEMMA GraphInvInit == Init => GraphInv
<1> SUFFICES ASSUME Init PROVE GraphInv
  OBVIOUS
<1>1. GraphTypeOK
  BY DEF Init, GraphTypeOK, Node, Reason, NoReport, NoResult
<1>2. Planning \/ Retrieving
  BY DEF Init, Planning, Retrieving
<1>3. CompletedIsWhole /\ PartialHasCause /\ ReportAgrees
  BY DEF Init, CompletedIsWhole, PartialHasCause, ReportAgrees, NoResult
<1> QED BY <1>1, <1>2, <1>3 DEF GraphInv, Init, NoResult

-----------------------------------------------------------------------------
(* Up to the join *)

LEMMA PlanningStep ==
  ASSUME GraphInv, Ingest \/ QueryPlanner \/ PlannerFallback
  PROVE  GraphInv'
<1>1. result = NoResult /\ result' = result /\ Planning
  BY DEF GraphInv, Ingest, QueryPlanner, PlannerFallback, Planning, Retrieving, Joined, Stage
<1>2. GraphTypeOK'
  BY <1>1 DEF GraphInv, GraphTypeOK, Planning, Ingest, QueryPlanner, PlannerFallback, Node, channels
<1>3. (Planning \/ Retrieving)'
  BY <1>1 DEF Ingest, QueryPlanner, PlannerFallback, Planning, Retrieving, channels
<1>4. normalized' = {}
  BY <1>3 DEF Planning, Retrieving
<1>5. (CompletedIsWhole /\ PartialHasCause /\ ReportAgrees)'
  BY <1>1 DEF NoResult, CompletedIsWhole, PartialHasCause, ReportAgrees
<1> QED BY <1>1, <1>2, <1>3, <1>4, <1>5 DEF GraphInv

LEMMA RetrieveStep ==
  ASSUME GraphInv, NEW b \in Branch, Retrieve(b)
  PROVE  GraphInv'
<1>1. result = NoResult /\ result' = result /\ Retrieving
  BY DEF GraphInv, Retrieve, Planning, Retrieving, Joined, Stage
<1>2. PICK o \in {"succeeded", "failed", "circuit_open"} : outcomes' = [outcomes EXCEPT ![b] = o]
  BY DEF Retrieve
<1>3. GraphTypeOK'
  BY <1>1, <1>2 DEF GraphInv, GraphTypeOK, Retrieve, Node
<1>4. Retrieving'
  BY <1>1, <1>2 DEF GraphInv, GraphTypeOK, Retrieve, Retrieving
<1>5. (CompletedIsWhole /\ PartialHasCause /\ ReportAgrees)'
  BY <1>1 DEF NoResult, CompletedIsWhole, PartialHasCause, ReportAgrees
<1> QED BY <1>1, <1>3, <1>4, <1>5 DEF GraphInv, Retrieving

LEMMA Routes ==
  ASSUME GraphTypeOK, NEW branches
  PROVE  /\ Cardinality(Succeeded(branches)) < Required =>
              RouteAfterRetrieval(branches) = IF graph = "recheck" THEN "END" ELSE "degradation"
         /\ ~(Cardinality(Succeeded(branches)) < Required) =>
              RouteAfterRetrieval(branches) = "normalization"
BY DEF RouteAfterRetrieval

LEMMA JoinStage ==
  ASSUME GraphInv, Join, Retrieving
  PROVE  Stage'
<1> DEFINE routes == IF setting.routing = "joined" THEN {RouteAfterRetrieval(plan)}
                     ELSE {RouteAfterRetrieval({b}) : b \in plan}
<1>1. UNCHANGED <<setting, graph, plan, outcomes, normalized, analysis, reason, report, executed>>
  BY DEF Join, channels
<1>2. Required' = Required /\ Succeeded(plan)' = Succeeded(plan)
      /\ \A b : Succeeded({b})' = Succeeded({b})
  BY <1>1 DEF Required, Succeeded
<1>3. active' = routes \ {"END"}
  BY DEF Join
<1>4. (Enough' <=> Enough) /\ (JoinCause' <=> JoinCause) /\ (JoinCause => Cause')
  BY <1>1, <1>2 DEF Enough, JoinCause, Cause
<1>5. GraphTypeOK /\ plan \subseteq Branch /\ plan # {}
  BY DEF GraphInv, GraphTypeOK, Retrieving
<1> DEFINE short == IF graph = "recheck" THEN "END" ELSE "degradation"
\* Either nobody is short, and all routes lead on, or somebody is.
<1>6. \/ routes = {"normalization"} /\ Enough
      \/ JoinCause /\ routes \in {{short}, {short, "normalization"}}
  <2>1. CASE setting.routing = "joined"
    <3>1. routes = {RouteAfterRetrieval(plan)}
      BY <2>1
    <3>2. CASE Enough
      <4>1. ~(Cardinality(Succeeded(plan)) < Required)
        BY <1>5, <3>2, Counts DEF Enough
      <4> QED BY <1>5, <3>1, <3>2, <4>1, Routes
    <3>3. CASE ~Enough
      <4>1. Cardinality(Succeeded(plan)) < Required
        BY <1>5, <3>3, Counts DEF Enough
      <4> QED BY <1>5, <3>1, <4>1, Routes DEF JoinCause
    <3> QED BY <3>2, <3>3
  <2>2. CASE setting.routing # "joined"
    <3>1. routes = {RouteAfterRetrieval({b}) : b \in plan} /\ setting.routing = "per_task"
      BY <1>5, <2>2 DEF GraphTypeOK
    <3>2. \A b \in plan : RouteAfterRetrieval({b}) \in {short, "normalization"}
      BY <1>5, Routes
    <3>3. CASE \A b \in plan : ~(Cardinality(Succeeded({b})) < Required)
      <4>1. routes = {"normalization"}
        BY <1>5, <3>1, <3>3, Routes
      <4>2. PICK b \in plan : TRUE
        BY <1>5
      <4>3. ~(Cardinality(Succeeded({b})) < Required) /\ {b} \in SUBSET Branch
        BY <1>5, <3>3, <4>2
      <4>4. Required = 1 /\ Succeeded({b}) # {}
        <5>1. Cardinality(Succeeded({b})) <= 1
          <6>1. Succeeded({b}) \in SUBSET {b}
            BY DEF Succeeded
          <6>2. IsFiniteSet({b}) /\ Cardinality({b}) = 1
            BY FS_Singleton
          <6> HIDE DEF Succeeded
          <6>3. Cardinality(Succeeded({b})) <= Cardinality({b})
            BY <6>1, <6>2, FS_Subset
          <6> QED BY <6>2, <6>3
        <5>2. Required \in Nat \ {0} /\ Cardinality(Succeeded({b})) \in Nat
              /\ (Succeeded({b}) = {} => Cardinality(Succeeded({b})) = 0)
          BY <1>5, <4>3, Counts
        <5> QED BY <4>3, <5>1, <5>2
      <4>5. Enough
        BY <1>5, <4>2, <4>4, Counts DEF Enough
      <4> QED BY <4>1, <4>5
    <3>4. CASE \E b \in plan : Cardinality(Succeeded({b})) < Required
      <4>1. PICK b \in plan : Cardinality(Succeeded({b})) < Required
        BY <3>4
      <4>2. RouteAfterRetrieval({b}) = short /\ JoinCause
        BY <1>5, <3>1, <4>1, Routes DEF JoinCause
      <4> HIDE DEF short
      <4>3. routes \in {{short}, {short, "normalization"}}
        BY <3>1, <3>2, <4>1, <4>2
      <4> QED BY <4>2, <4>3
    <3> QED BY <3>3, <3>4
  <2> QED BY <2>1, <2>2
<1> HIDE DEF routes
<1>7. reason' = "none"
  BY <1>1 DEF Retrieving
<1>8. CASE routes = {"normalization"} /\ Enough
  <2>1. active' = {"normalization"}
    BY <1>3, <1>8
  <2> QED BY <1>4, <1>7, <1>8, <2>1 DEF Stage
<1>9. CASE JoinCause /\ routes \in {{short}, {short, "normalization"}}
  <2>1. CASE graph = "recheck"
    <3>1. PICK b \in Branch : plan = {b}
      BY <2>1 DEF Retrieving
    <3>2. \A p, q \in routes : p = q
      BY <3>1 DEF routes
    <3>3. active' = {}
      BY <1>3, <1>9, <2>1, <3>2
    <3> QED BY <1>1, <1>4, <1>9, <2>1, <3>3 DEF Stage
  <2>2. CASE graph # "recheck"
    <3>1. graph' = "pipeline"
      BY <1>1, <1>5, <2>2 DEF GraphTypeOK
    <3>2. active' = {"degradation"} \/ active' = {"normalization", "degradation"}
      BY <1>3, <1>9, <2>2
    <3> QED BY <1>4, <1>7, <1>9, <3>1, <3>2 DEF Stage
  <2> QED BY <2>1, <2>2
<1> QED BY <1>6, <1>8, <1>9

LEMMA JoinStep == GraphInv /\ Join => GraphInv'
<1> SUFFICES ASSUME GraphInv, Join PROVE GraphInv'
  OBVIOUS
<1>1. result = NoResult /\ result' = result /\ Retrieving
  BY DEF GraphInv, Join, Planning, Retrieving, Joined, Stage
<1>2. UNCHANGED <<setting, graph, plan, pending, outcomes, normalized, analysis, reason, report, executed>>
  BY DEF Join, channels
<1>3. Stage'
  BY <1>1, JoinStage
<1>4. active' \subseteq Node
  BY <1>3 DEF Stage, Node
<1>5. GraphTypeOK'
  BY <1>1, <1>2, <1>4 DEF GraphInv, GraphTypeOK, Join
<1>6. Joined'
  BY <1>1, <1>2, <1>3 DEF Joined, Retrieving, Join
<1>7. (CompletedIsWhole /\ PartialHasCause /\ ReportAgrees)'
  BY <1>1 DEF NoResult, CompletedIsWhole, PartialHasCause, ReportAgrees
<1>8. (normalized \subseteq Succeeded(plan))'
  BY <1>2 DEF GraphInv, Succeeded
<1> QED BY <1>1, <1>5, <1>6, <1>7, <1>8 DEF GraphInv

-----------------------------------------------------------------------------
(* After the join *)

LEMMA Edges ==
  ASSUME graph \in {"pipeline", "recheck"}
  PROVE  /\ Edge("normalization") =
              IF normalized' # {} THEN "analysis" ELSE IF graph = "recheck" THEN "END" ELSE "degradation"
         /\ Edge("analysis") =
              IF graph = "recheck" THEN "END" ELSE IF analysis' THEN "report" ELSE "degradation"
         /\ Edge("degradation") = "report"
         /\ Edge("report") = "END"
BY DEF Edge

LEMMA ClassifiedNotNone == ClassifyDegradation \in Reason \ {"none"}
BY DEF ClassifyDegradation, Reason

LEMMA SuperstepStage ==
  ASSUME GraphInv, Joined, Superstep
  PROVE  Stage'
<1>1. /\ UNCHANGED <<setting, graph, plan, outcomes>>
      /\ active' = {Edge(node) : node \in active} \ {"END"}
      /\ executed' = executed \cup active
      /\ "normalization" \notin active => normalized' = normalized
      /\ "analysis" \notin active => analysis' = analysis
      /\ reason' = IF "degradation" \in active THEN ClassifyDegradation ELSE reason
      /\ "report" \in active =>
           report' = [rendered |-> TRUE, degraded |-> reason # "none", queries |-> normalized]
      /\ "report" \notin active => report' = report
  BY DEF Superstep, Normalization, Analysis, Degradation, Report
<1>2. graph \in {"pipeline", "recheck"} /\ analysis' \in BOOLEAN
  BY DEF GraphInv, GraphTypeOK, Superstep, Analysis
<1>3. (Enough' <=> Enough) /\ (JoinCause' <=> JoinCause) /\ (JoinCause => Cause')
  BY <1>1 DEF Enough, JoinCause, Cause, Required, Succeeded
<1>4. "normalization" \notin active /\ "analysis" \notin active /\ Cause => Cause'
  BY <1>1, <1>3 DEF Cause
<1>5. active # {} /\ Stage
  BY DEF Joined, Superstep
<1>6. CASE active = {"normalization"} /\ reason = "none" /\ Enough
  <2>1. reason' = "none" /\ (normalized' = {} => Cause')
    BY <1>1, <1>6 DEF Cause
  <2>2. active' = {Edge("normalization")} \ {"END"}
    BY <1>1, <1>6
  <2> QED BY <1>1, <1>2, <1>3, <1>6, <2>1, <2>2, Edges DEF Stage
<1>7. CASE active = {"analysis"} /\ reason = "none" /\ Enough /\ normalized # {}
  <2>1. /\ reason' = "none" /\ normalized' # {} /\ (~analysis' => Cause')
    BY <1>1, <1>7 DEF Cause
  <2>2. active' = {Edge("analysis")} \ {"END"}
    BY <1>1, <1>7
  <2> QED BY <1>1, <1>2, <1>3, <1>7, <2>1, <2>2, Edges DEF Stage
<1>8. CASE active = {"normalization", "degradation"} /\ reason = "none" /\ JoinCause
           /\ graph = "pipeline"
  <2>1. active' = {Edge("normalization"), Edge("degradation")} \ {"END"}
    BY <1>1, <1>8
  <2>2. reason' # "none"
    BY <1>1, <1>8, ClassifiedNotNone
  <2>3. active' \in {{"analysis", "report"}, {"degradation", "report"}}
    BY <1>2, <1>8, <2>1, Edges
  <2> QED BY <1>1, <1>3, <1>8, <2>2, <2>3 DEF Stage
<1>9. CASE active = {"analysis", "report"} /\ reason # "none" /\ JoinCause /\ graph = "pipeline"
  <2>1. active' = {Edge("analysis"), Edge("report")} \ {"END"}
    BY <1>1, <1>9
  <2>2. reason' = reason
    BY <1>1, <1>9
  <2>3. active' \in {{"report"}, {"degradation"}}
    BY <1>2, <1>9, <2>1, Edges
  <2> QED BY <1>1, <1>3, <1>9, <2>2, <2>3 DEF Stage
<1>10. CASE active = {"degradation"} /\ Cause /\ graph = "pipeline"
  <2>1. active' = {"report"}
    BY <1>1, <1>2, <1>10, Edges
  <2>2. reason' # "none"
    BY <1>1, <1>10, ClassifiedNotNone
  <2> QED BY <1>1, <1>4, <1>10, <2>1, <2>2 DEF Stage
<1>11. CASE active = {"degradation", "report"} /\ reason # "none" /\ Cause /\ graph = "pipeline"
  <2>1. active' = {Edge("degradation"), Edge("report")} \ {"END"}
    BY <1>1, <1>11
  <2>2. active' = {"report"}
    BY <1>2, <2>1, Edges
  <2>3. reason' # "none"
    BY <1>1, <1>11, ClassifiedNotNone
  <2> QED BY <1>1, <1>4, <1>11, <2>2, <2>3 DEF Stage
<1>12. CASE active = {"report"} /\ graph = "pipeline"
  <2>1. active' = {}
    BY <1>1, <1>2, <1>12, Edges
  <2>2. /\ reason' = reason /\ normalized' = normalized /\ analysis' = analysis
        /\ report'.rendered /\ report'.degraded = (reason # "none") /\ report'.queries = normalized
    BY <1>1, <1>12
  <2>3. \/ reason # "none" /\ Cause
        \/ reason = "none" /\ Enough /\ normalized # {} /\ analysis
    BY <1>5, <1>12 DEF Stage
  <2> QED BY <1>1, <1>3, <1>4, <1>12, <2>1, <2>2, <2>3 DEF Stage
<1> QED BY <1>5, <1>6, <1>7, <1>8, <1>9, <1>10, <1>11, <1>12 DEF Stage

LEMMA SuperstepStep == GraphInv /\ Superstep => GraphInv'
<1> SUFFICES ASSUME GraphInv, Superstep PROVE GraphInv'
  OBVIOUS
<1>1. result = NoResult /\ result' = result /\ Joined
  <2>1. active # {} /\ active \subseteq {"normalization", "analysis", "degradation", "report"}
    BY DEF Superstep
  <2> QED BY <2>1 DEF GraphInv, Superstep, Planning, Retrieving
<1>2. Stage'
  BY <1>1, SuperstepStage
<1>3. UNCHANGED <<setting, graph, plan, pending, outcomes>>
  BY DEF Superstep
<1>4. (normalized \subseteq Succeeded(plan))'
  BY <1>3 DEF GraphInv, Superstep, Normalization, Succeeded
<1>5. GraphTypeOK'
  <2>1. active' \subseteq Node /\ pending = {}
    BY <1>1, <1>2 DEF GraphInv, GraphTypeOK, Superstep, Stage, Node
  <2>2. normalized' \subseteq plan
    BY <1>3, <1>4 DEF Succeeded
  <2>3. analysis' \in BOOLEAN
    BY DEF GraphInv, GraphTypeOK, Superstep, Analysis
  <2>4. reason' \in Reason
    BY ClassifiedNotNone DEF GraphInv, GraphTypeOK, Superstep, Degradation
  <2>5. report' \in [rendered : BOOLEAN, degraded : BOOLEAN, queries : SUBSET Branch]
    BY DEF GraphInv, GraphTypeOK, Superstep, Report
  <2>6. executed' \subseteq Node
    BY DEF GraphInv, GraphTypeOK, Superstep
  <2> QED BY <1>1, <1>3, <2>1, <2>2, <2>3, <2>4, <2>5, <2>6 DEF GraphInv, GraphTypeOK
<1>6. Joined'
  BY <1>1, <1>2, <1>3 DEF Joined
<1>7. (CompletedIsWhole /\ PartialHasCause /\ ReportAgrees)'
  BY <1>1 DEF NoResult, CompletedIsWhole, PartialHasCause, ReportAgrees
<1> QED BY <1>1, <1>4, <1>5, <1>6, <1>7 DEF GraphInv

-----------------------------------------------------------------------------
(* The end of an execution *)

LEMMA CauseIsShown ==
  ASSUME Cause
  PROVE  \/ Shortfall
         \/ /\ setting.routing = "per_task"
            /\ \E b \in plan : Cardinality(Succeeded({b})) < Required
BY DEF Cause, JoinCause, Shortfall

LEMMA ReturnStep == GraphInv /\ Return => GraphInv'
<1> SUFFICES ASSUME GraphInv, Return PROVE GraphInv'
  OBVIOUS
<1>1. /\ active = {} /\ active' = {} /\ result' # NoResult
      /\ UNCHANGED <<setting, graph, plan, pending, outcomes, normalized, analysis, reason, report, executed>>
  BY DEF Return, channels, NoResult
<1>2. Joined /\ Stage
  BY <1>1 DEF GraphInv, Return, Planning, Retrieving, Joined
<1>3. GraphTypeOK'
  BY <1>1, ClassifiedNotNone DEF GraphInv, GraphTypeOK, Return, Reason
<1>4. /\ Required' = Required /\ Succeeded(plan)' = Succeeded(plan)
      /\ \A b : Succeeded({b})' = Succeeded({b})
      /\ Shortfall' <=> Shortfall
  BY <1>1 DEF Required, Succeeded, Shortfall
<1>5. CASE graph = "recheck"
  <2>1. normalized = {} => Cause
    BY <1>1, <1>2, <1>5 DEF Stage
  <2>2. CASE normalized = {}
    <3>1. result' = [status |-> "partial", reason |-> ClassifyDegradation]
      BY <1>5, <2>2 DEF Return
    <3>2. PartialHasCause'
      BY <1>1, <1>4, <2>1, <2>2, <3>1, CauseIsShown, ClassifiedNotNone DEF PartialHasCause
    <3> QED BY <1>1, <1>3, <1>4, <1>5, <3>1, <3>2
            DEF GraphInv, CompletedIsWhole, ReportAgrees
  <2>3. CASE normalized # {}
    <3>1. result' = [status |-> "completed", reason |-> "none"]
      BY <1>5, <2>3 DEF Return
    <3>2. Enough
      <4>1. plan \in SUBSET Branch /\ Succeeded(plan) # {} /\ Required = 1
        BY <1>5, <2>3 DEF GraphInv, GraphTypeOK, Required
      <4> QED BY <4>1, Counts DEF Enough
    <3>3. CompletedIsWhole'
      BY <1>1, <1>4, <1>5, <2>3, <3>2 DEF CompletedIsWhole, Enough
    <3> QED BY <1>1, <1>3, <1>4, <1>5, <3>1, <3>3
            DEF GraphInv, PartialHasCause, ReportAgrees
  <2> QED BY <2>2, <2>3
<1>6. CASE graph = "pipeline"
  <2>1. \/ reason # "none" /\ Cause /\ report.rendered /\ report.degraded
        \/ /\ reason = "none" /\ Enough /\ normalized # {} /\ analysis
           /\ report.rendered /\ ~report.degraded /\ report.queries = normalized
    BY <1>1, <1>2, <1>6 DEF Stage
  <2>2. result' = [status |-> IF reason # "none" THEN "partial" ELSE "completed", reason |-> reason]
    BY <1>6, <2>1 DEF Return
  <2>3. CASE reason # "none"
    <3>1. PartialHasCause'
      BY <1>1, <1>4, <2>1, <2>2, <2>3, CauseIsShown DEF PartialHasCause
    <3>2. ReportAgrees' /\ CompletedIsWhole'
      BY <1>1, <2>1, <2>2, <2>3 DEF ReportAgrees, CompletedIsWhole, GraphInv, GraphTypeOK
    <3> QED BY <1>1, <1>3, <1>4, <3>1, <3>2 DEF GraphInv
  <2>4. CASE reason = "none"
    <3>1. CompletedIsWhole' /\ ReportAgrees'
      BY <1>1, <1>4, <2>1, <2>2, <2>4 DEF CompletedIsWhole, ReportAgrees, Enough, GraphInv, GraphTypeOK
    <3>2. PartialHasCause'
      BY <2>2, <2>4 DEF PartialHasCause
    <3> QED BY <1>1, <1>3, <1>4, <3>1, <3>2 DEF GraphInv
  <2> QED BY <2>3, <2>4
<1> QED BY <1>5, <1>6 DEF GraphInv, GraphTypeOK

LEMMA CrashStep == GraphInv /\ Crash => GraphInv'
<1> SUFFICES ASSUME GraphInv, Crash PROVE GraphInv'
  OBVIOUS
<1>1. result' = [status |-> "failed", reason |-> "none"] /\ active' = {} /\ normalized' = {}
  BY DEF Crash
<1>2. GraphTypeOK'
  BY <1>1 DEF GraphInv, GraphTypeOK, Crash, NoReport, Reason
<1>3. (CompletedIsWhole /\ PartialHasCause /\ ReportAgrees)'
  BY <1>1 DEF CompletedIsWhole, PartialHasCause, ReportAgrees
<1> QED BY <1>1, <1>2, <1>3 DEF GraphInv, NoResult

LEMMA GraphInvStep == GraphInv /\ [Next]_graphVars => GraphInv'
<1> SUFFICES ASSUME GraphInv, [Next]_graphVars PROVE GraphInv'
  OBVIOUS
<1>1. CASE UNCHANGED graphVars
  <2>1. UNCHANGED <<setting, graph, active, pending, plan, outcomes, normalized, analysis,
                    reason, report, executed, result>>
    BY <1>1 DEF graphVars, channels
  <2>2. /\ Required' = Required /\ Succeeded(plan)' = Succeeded(plan)
        /\ \A b : Succeeded({b})' = Succeeded({b})
    BY <2>1 DEF Required, Succeeded
  <2>3. (CompletedIsWhole <=> CompletedIsWhole') /\ (PartialHasCause <=> PartialHasCause')
        /\ (ReportAgrees <=> ReportAgrees')
    BY <2>1, <2>2 DEF CompletedIsWhole, PartialHasCause, ReportAgrees, Shortfall
  <2>4. (Stage <=> Stage')
    BY <2>1, <2>2 DEF Stage, Cause, JoinCause, Enough
  <2>5. (Planning <=> Planning') /\ (Retrieving <=> Retrieving') /\ (Joined <=> Joined')
    BY <2>1, <2>4 DEF Planning, Retrieving, Joined
  <2>6. GraphTypeOK'
    BY <2>1 DEF GraphInv, GraphTypeOK
  <2> QED BY <2>1, <2>2, <2>3, <2>5, <2>6 DEF GraphInv
<1> QED BY <1>1, PlanningStep, RetrieveStep, JoinStep, SuperstepStep, ReturnStep, CrashStep DEF Next

LEMMA GraphInvHolds == Spec => []GraphInv
BY GraphInvInit, GraphInvStep, PTL DEF Spec

\* The channels and what the engine returns keep their types, and the fan-out runs alone.
THEOREM GraphTypeCorrect == Spec => []GraphTypeOK
<1>1. GraphInv => GraphTypeOK
  BY DEF GraphInv
<1> QED BY <1>1, GraphInvHolds, PTL

\* However many branches there are, whatever the threshold, and whichever branches fail
\* in whichever order: what is reported as completed is.
THEOREM CompletedWhole == Spec => []CompletedIsWhole
<1>1. GraphInv => CompletedIsWhole
  BY DEF GraphInv
<1> QED BY <1>1, GraphInvHolds, PTL

\* No run is partial without a reason and a cause, on any path through the graph.
THEOREM PartialCaused == Spec => []PartialHasCause
<1>1. GraphInv => PartialHasCause
  BY DEF GraphInv
<1> QED BY <1>1, GraphInvHolds, PTL

\* The report says of the run what the run's row says.
THEOREM ReportsAgree == Spec => []ReportAgrees
<1>1. GraphInv => ReportAgrees
  BY DEF GraphInv
<1> QED BY <1>1, GraphInvHolds, PTL

\* All ways through the graph end in a report: only an exception fails a run.
THEOREM OnlyCrashFails == Spec => FailedOnlyByCrash
<1>1. ASSUME GraphInv, [Next]_graphVars, result' # result, result'.status = "failed"
      PROVE  active # {}
  <2>1. CASE Return
    <3>1. active = {} /\ Stage
      BY <1>1, <2>1 DEF GraphInv, Return, Planning, Retrieving, Joined
    <3>2. graph = "pipeline" => report.rendered
      BY <3>1 DEF Stage
    <3> QED BY <1>1, <2>1, <3>2 DEF Return, GraphInv, GraphTypeOK
  <2>2. CASE Crash
    BY <2>2 DEF Crash
  <2> QED BY <1>1, <2>1, <2>2 DEF Next, graphVars, Ingest, QueryPlanner, PlannerFallback,
                                  Retrieve, Join, Superstep
<1>2. GraphInv /\ [Next]_graphVars =>
        [result' # result /\ result'.status = "failed" => active # {}]_graphVars
  BY <1>1
<1> QED BY <1>2, GraphInvHolds, PTL DEF Spec, FailedOnlyByCrash

-----------------------------------------------------------------------------
(* What the use cases may count on *)

\* The analysis was given something to analyse.
Analysed ==
  /\ "analysis" \in active => normalized # {}
  /\ active \cap {"ingest", "query_planner", "planner_fallback", "retrieval", "normalization"} # {}
       => ~analysis
  /\ analysis => normalized # {} \/ result.status = "failed"

LEMMA AnalysedInit == Init => Analysed
BY DEF Init, Analysed

LEMMA AnalysedSuperstep ==
  ASSUME GraphInv, Analysed, Superstep
  PROVE  Analysed'
<1>1. /\ UNCHANGED <<graph, result>>
      /\ active' = {Edge(node) : node \in active} \ {"END"}
      /\ active \subseteq {"normalization", "analysis", "degradation", "report"}
      /\ "normalization" \notin active => normalized' = normalized
      /\ "analysis" \notin active => analysis' = analysis
  BY DEF Superstep, Normalization, Analysis
<1>2. graph \in {"pipeline", "recheck"}
  BY DEF GraphInv, GraphTypeOK
<1>3. ASSUME NEW next \in active'
      PROVE  /\ next \in {"analysis", "degradation", "report"}
             /\ next = "analysis" => normalized' # {} /\ "normalization" \in active
  <2>1. PICK node \in active : next = Edge(node) /\ next # "END"
    BY <1>1
  <2> QED BY <1>1, <1>2, <2>1, Edges
<1>4. ~("normalization" \in active /\ "analysis" \in active)
  <2>1. Joined
    BY DEF GraphInv, Superstep, Planning, Retrieving
  <2> QED BY <2>1 DEF Joined, Stage
<1>5. analysis' => normalized' # {} \/ result'.status = "failed"
  BY <1>1, <1>4 DEF Analysed
<1> QED BY <1>3, <1>5 DEF Analysed

LEMMA AnalysedStep == GraphInv /\ Analysed /\ [Next]_graphVars => Analysed'
<1> SUFFICES ASSUME GraphInv, Analysed, [Next]_graphVars PROVE Analysed'
  OBVIOUS
<1>1. CASE Ingest \/ QueryPlanner \/ PlannerFallback
  BY <1>1 DEF Ingest, QueryPlanner, PlannerFallback, Analysed, channels
<1>2. ASSUME NEW b \in Branch, Retrieve(b) PROVE Analysed'
  BY <1>2 DEF Retrieve, Analysed
<1>3. CASE Join
  <2>1. ~analysis /\ analysis' = analysis /\ UNCHANGED <<normalized, result>>
    BY <1>3 DEF Join, Analysed, channels
  <2>2. \A S : RouteAfterRetrieval(S) \in {"END", "degradation", "normalization"}
    BY DEF RouteAfterRetrieval
  <2>3. "analysis" \notin active'
    BY <1>3, <2>2 DEF Join
  <2> QED BY <2>1, <2>3 DEF Analysed
<1>4. CASE Superstep
  BY <1>4, AnalysedSuperstep
<1>5. CASE Return
  <2>1. result = NoResult /\ active = {} /\ UNCHANGED <<active, normalized, analysis>>
    BY <1>5 DEF Return, channels
  <2> QED BY <2>1 DEF Analysed, NoResult
<1>6. CASE Crash
  BY <1>6 DEF Crash, Analysed
<1>7. CASE UNCHANGED graphVars
  BY <1>7 DEF graphVars, channels, Analysed
<1> QED BY <1>1, <1>2, <1>3, <1>4, <1>5, <1>6, <1>7 DEF Next

\* What the use cases make of an execution depends on its result and on these.
Outcome ==
  /\ graph = "recheck" => \E b \in Branch : plan = {b}
  /\ result # NoResult => result.status \in {"completed", "partial", "failed"}
  /\ result.status = "failed" => normalized = {}
  /\ result.status = "partial" /\ graph = "recheck" => normalized = {}

LEMMA OutcomeInit == Init => Outcome
BY DEF Init, NoResult, Outcome

LEMMA OutcomeStep == GraphInv /\ Outcome /\ [Next]_graphVars => Outcome'
<1> SUFFICES ASSUME GraphInv, Outcome, [Next]_graphVars PROVE Outcome'
  OBVIOUS
<1>1. CASE Crash
  BY <1>1 DEF Crash, Outcome
<1>2. CASE Return
  <2>1. active = {} /\ Stage
    BY <1>2 DEF GraphInv, Return, Planning, Retrieving, Joined
  <2>2. graph = "pipeline" => report.rendered
    BY <2>1 DEF Stage
  <2>3. UNCHANGED <<graph, plan, normalized>> /\ graph \in {"pipeline", "recheck"}
    BY <1>2 DEF Return, channels, GraphInv, GraphTypeOK
  <2>4. /\ result'.status \in {"completed", "partial"}
        /\ graph = "recheck" /\ result'.status = "partial" => normalized = {}
    BY <1>2, <2>2, <2>3 DEF Return
  <2> QED BY <2>3, <2>4 DEF Outcome
<1>3. CASE UNCHANGED graphVars
  BY <1>3 DEF graphVars, channels, Outcome
<1>4. CASE ~Crash /\ ~Return /\ Next
  <2>1. active # {} /\ UNCHANGED <<graph, result>>
    BY <1>4 DEF Next, Ingest, QueryPlanner, PlannerFallback, Retrieve, Join, Superstep
  <2>2. result = NoResult
    BY <2>1 DEF GraphInv
  <2>3. graph = "recheck" => plan' = plan
    BY <1>4, <2>2 DEF Next, Ingest, QueryPlanner, PlannerFallback, Retrieve, Join, Superstep,
                      channels, GraphInv, Planning, Retrieving, Joined, Stage
  <2> QED BY <2>1, <2>2, <2>3 DEF Outcome, NoResult
<1> QED BY <1>1, <1>2, <1>3, <1>4

\* What ResultStore takes the engine to return (Execute and Remeasure) is all that it can
\* return.  A completed run has queries and a failed one has nothing; a run that is handed an
\* analysis is handed what was analysed; a recheck measured its query or has none.
EngineContract ==
  result # NoResult =>
    /\ result.status \in {"completed", "partial", "failed"}
    /\ result.status = "completed" => normalized # {}
    /\ result.status = "failed" => normalized = {}
    /\ analysis /\ result.status # "failed" => normalized # {}
    /\ graph = "recheck" =>
         normalized = IF result.status = "completed" THEN plan ELSE {}

\* The outcome of every execution is one that the use cases are prepared for
\* (run_pipeline.py:65-94, recheck_query.py:54-65).
THEOREM EngineKeepsContract == Spec => []EngineContract
<1>1. ASSUME GraphInv, Analysed, Outcome PROVE EngineContract
  <2>1. SUFFICES ASSUME result # NoResult PROVE EngineContract
    BY DEF EngineContract
  <2>2. result.status \in {"completed", "partial", "failed"}
    BY <1>1, <2>1 DEF Outcome
  <2>3. result.status = "completed" => normalized # {} /\ normalized \subseteq plan
    BY <1>1 DEF GraphInv, GraphTypeOK, CompletedIsWhole
  <2>4. graph = "recheck" => normalized = IF result.status = "completed" THEN plan ELSE {}
    BY <1>1, <2>2, <2>3 DEF Outcome
  <2> QED BY <1>1, <2>2, <2>3, <2>4 DEF EngineContract, Analysed, Outcome
<1> QED BY <1>1, GraphInvInit, GraphInvStep, AnalysedInit, AnalysedStep, OutcomeInit, OutcomeStep,
           PTL DEF Spec

-----------------------------------------------------------------------------
(* How far an execution is from its end *)

\* An upper bound of the steps that are left: one for each branch that is out, one for each
\* node on the longest way through the graph, and the return.
Left ==
  IF result # NoResult THEN 0
  ELSE IF "ingest" \in active THEN 9 + Cardinality(Branch)
  ELSE IF "query_planner" \in active THEN 8 + Cardinality(Branch)
  ELSE IF "planner_fallback" \in active THEN 7 + Cardinality(Branch)
  ELSE IF "retrieval" \in active THEN 6 + Cardinality(pending)
  ELSE IF "normalization" \in active THEN 5
  ELSE IF "analysis" \in active THEN 4
  ELSE IF "degradation" \in active THEN 3
  ELSE IF "report" \in active THEN 2
  ELSE 1

Sizes ==
  /\ Cardinality(Branch) \in Nat /\ IsFiniteSet(pending)
  /\ Cardinality(pending) \in Nat /\ Cardinality(pending) <= Cardinality(Branch)
  /\ Left \in Nat

LEMMA Out == GraphTypeOK => Sizes
<1> SUFFICES ASSUME GraphTypeOK PROVE Sizes
  OBVIOUS
<1>1. pending \subseteq Branch
  BY DEF GraphTypeOK
<1>2. /\ Cardinality(Branch) \in Nat /\ IsFiniteSet(pending) /\ Cardinality(pending) \in Nat
      /\ Cardinality(pending) <= Cardinality(Branch)
  BY <1>1, FS_Subset, FS_CardinalityType
<1> QED BY <1>2 DEF Sizes, Left

\* After a step as before it.
LEMMA OutNext == GraphTypeOK' => Sizes'
BY Out, PTL

LEMMA StepAdvances ==
  ASSUME GraphInv, Next
  PROVE  Left' < Left
<1>1. GraphTypeOK /\ GraphTypeOK'
  BY GraphInvStep DEF GraphInv
<1>2. /\ Cardinality(Branch) \in Nat /\ IsFiniteSet(pending) /\ Cardinality(pending) \in Nat
      /\ Cardinality(pending') \in Nat /\ Cardinality(pending') <= Cardinality(Branch)
      /\ Left \in Nat
  BY <1>1, Out, OutNext DEF Sizes
<1>3. CASE Ingest \/ QueryPlanner \/ PlannerFallback
  BY <1>2, <1>3 DEF Ingest, QueryPlanner, PlannerFallback, Left, GraphInv
<1>4. ASSUME NEW b \in Branch, Retrieve(b) PROVE Left' < Left
  <2>1. Cardinality(pending') = Cardinality(pending) - 1
    BY <1>2, <1>4, FS_RemoveElement DEF Retrieve
  <2> QED BY <1>2, <1>4, <2>1 DEF Retrieve, Left, GraphInv
<1>5. CASE Join
  <2>1. \A S : RouteAfterRetrieval(S) \in {"END", "degradation", "normalization"}
    BY DEF RouteAfterRetrieval
  <2>2. active' \subseteq {"degradation", "normalization"}
    BY <1>5, <2>1 DEF Join
  <2>3. active = {"retrieval"} /\ result = NoResult /\ result' = result
    BY <1>5 DEF Join, GraphInv
  <2> QED BY <1>2, <2>2, <2>3 DEF Left
<1>6. CASE Superstep
  <2>1. /\ active # {} /\ result = NoResult /\ result' = result
        /\ active' = {Edge(node) : node \in active} \ {"END"}
        /\ graph \in {"pipeline", "recheck"}
    BY <1>6 DEF Superstep, GraphInv, GraphTypeOK
  <2>2. Joined /\ Stage
    BY <1>6 DEF GraphInv, Superstep, Planning, Retrieving, Joined
  <2>3. active \in {{"normalization"}, {"analysis"}, {"normalization", "degradation"},
                   {"analysis", "report"}, {"degradation"}, {"degradation", "report"}, {"report"}}
    BY <2>1, <2>2 DEF Stage
  <2>4. /\ active' \subseteq {"analysis", "degradation", "report"}
        /\ "analysis" \in active' => "normalization" \in active
        /\ "degradation" \in active' => "normalization" \in active \/ "analysis" \in active
        /\ "report" \in active' => active # {"report"}
    BY <2>1, <2>3, Edges
  <2> QED BY <2>1, <2>3, <2>4 DEF Left
<1>7. CASE Return
  <2>1. result = NoResult /\ result' # NoResult /\ active = {}
    BY <1>7 DEF Return, NoResult
  <2> QED BY <2>1 DEF Left
<1>8. CASE Crash
  <2>1. result = NoResult /\ result' # NoResult
    BY <1>8 DEF Crash, GraphInv, NoResult
  <2> QED BY <1>2, <2>1 DEF Left
<1> QED BY <1>3, <1>4, <1>5, <1>6, <1>7, <1>8 DEF Next

\* Whatever a plan holds, and whichever nodes are active together, no edge leads back: an
\* execution makes at most nine steps and one for each branch.  RunEnds is this and the
\* scheduling of the nodes (agents/graph/builder.py).
THEOREM RunAdvances == Spec => [](Left \in Nat) /\ [][Left' < Left]_graphVars
<1>1. GraphInv => Left \in Nat
  BY Out DEF GraphInv, Sizes
<1>2. GraphInv /\ [Next]_graphVars => [Left' < Left]_graphVars
  BY StepAdvances
<1> QED BY <1>1, <1>2, GraphInvInit, GraphInvStep, PTL DEF Spec
=============================================================================
