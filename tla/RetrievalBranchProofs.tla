---------------------- MODULE RetrievalBranchProofs ----------------------
(***************************************************************************)
(* What is proved of a branch of the fan-out, for every plan, any calls a  *)
(* model may propose and any number of them: only calls that the gate has  *)
(* passed are made, the model cannot keep a branch from making one, and    *)
(* what is stored as absent was looked for.                                *)
(*                                                                         *)
(* The gate and the fallback are loops over what was proposed or planned;  *)
(* what they keep is an induction over it: LoopRule, with KeepHolds.       *)
(***************************************************************************)
EXTENDS RetrievalBranch, MeasurementProofs, SequenceTheorems

LEMMA WiderSeq ==
  ASSUME NEW S, NEW T, S \subseteq T, NEW s \in Seq(S)
  PROVE  s \in Seq(T)
OBVIOUS

-----------------------------------------------------------------------------
(* The gate *)

LEMMA AcceptedIsClean ==
  ASSUME NEW registry, NEW call \in Call
  PROVE  Verdict(call, registry) = "accepted" <=>
           call.tool \in registry /\ call.decoded /\ call.issues = {}
BY DEF Verdict, OverallReason, Call

LEMMA VerdictIsReason ==
  ASSUME NEW registry, NEW call
  PROVE  Verdict(call, registry) \in
           {"accepted", "unknown_tool", "malformed_arguments", "missing_required_field",
            "unexpected_field", "invalid_field_value"}
BY DEF Verdict, OverallReason

Passed(registry, proposed) ==
  {c \in {proposed[i] : i \in DOMAIN proposed} : Verdict(c, registry) = "accepted"}

\* The invariant of the gate's loop: it keeps what passes, no more than there was, and
\* something if anything does.
KeepHolds(registry, proposed, n, kept) ==
  /\ kept \in Seq(Passed(registry, proposed)) /\ Len(kept) <= n
  /\ kept = << >> => \A i \in 1 .. n : Verdict(proposed[i], registry) # "accepted"

Keeping == INSTANCE LoopRule WITH Start <- << >>, Body <- Keep, Holds <- KeepHolds

LEMMA GateKeeps ==
  ASSUME NEW S, NEW proposed \in Seq(S), NEW registry
  PROVE  KeepHolds(registry, proposed, Len(proposed), Accepted(proposed, registry))
<1>1. KeepHolds(registry, proposed, 0, << >>)
  BY DEF KeepHolds
<1>2. ASSUME NEW kept, NEW i \in 1 .. Len(proposed), KeepHolds(registry, proposed, i - 1, kept)
      PROVE  KeepHolds(registry, proposed, i, Keep(registry, kept, proposed[i]))
  <2>1. 1 .. i = (1 .. i - 1) \cup {i} /\ i \in DOMAIN proposed
    OBVIOUS
  <2>2. kept \in Seq(Passed(registry, proposed))
    BY <1>2 DEF KeepHolds
  <2>3. CASE Verdict(proposed[i], registry) = "accepted"
    <3>1. proposed[i] \in Passed(registry, proposed)
      BY <2>1, <2>3 DEF Passed
    <3>2. Keep(registry, kept, proposed[i]) = Append(kept, proposed[i])
      BY <2>3 DEF Keep
    <3>3. /\ Append(kept, proposed[i]) \in Seq(Passed(registry, proposed))
          /\ Append(kept, proposed[i]) # << >>
          /\ Len(Append(kept, proposed[i])) = Len(kept) + 1
      BY <2>2, <3>1, AppendProperties
    <3>4. Len(kept) \in Nat /\ Len(kept) <= i - 1
      BY <1>2, <2>2 DEF KeepHolds
    <3> QED BY <3>2, <3>3, <3>4 DEF KeepHolds
  <2>4. CASE Verdict(proposed[i], registry) # "accepted"
    BY <1>2, <2>1, <2>4 DEF Keep, KeepHolds
  <2> QED BY <2>3, <2>4
<1>3. Len(proposed) \in Nat
  OBVIOUS
<1>4. KeepHolds(registry, proposed, Len(proposed), Keeping!Loop(registry, proposed))
  BY <1>1, <1>2, <1>3, Keeping!LoopKeeps
<1>5. Keeping!Loop(registry, proposed) = Accepted(proposed, registry)
  BY DEF Keeping!Loop, Accepted
<1> QED BY <1>4, <1>5

\* A call of one of the tools, with arguments that its schema passes
CleanCall(tools) == {c \in Call : c.tool \in tools /\ c.decoded /\ c.issues = {}}

\* What the gate lets through of any proposal.
LEMMA AcceptedIsGated ==
  ASSUME NEW proposed \in Seq(Call), NEW registry
  PROVE  /\ Accepted(proposed, registry) \in Seq(CleanCall(registry))
         /\ Len(Accepted(proposed, registry)) <= Len(proposed)
         /\ Accepted(proposed, registry) = << >> =>
              \A i \in DOMAIN proposed : Verdict(proposed[i], registry) # "accepted"
<1>1. KeepHolds(registry, proposed, Len(proposed), Accepted(proposed, registry))
  BY GateKeeps
<1>2. Passed(registry, proposed) \subseteq CleanCall(registry)
  BY AcceptedIsClean DEF Passed, CleanCall
<1>3. Accepted(proposed, registry) \in Seq(CleanCall(registry))
  BY <1>1, <1>2 DEF KeepHolds
<1> QED BY <1>1, <1>3 DEF KeepHolds

LEMMA ReasonsAreReasons ==
  ASSUME NEW proposed, NEW registry
  PROVE  Reasons(proposed, registry) \subseteq
           {"unknown_tool", "malformed_arguments", "missing_required_field",
            "unexpected_field", "invalid_field_value"}
BY VerdictIsReason DEF Reasons

\* A proposal is a sequence of calls.
LEMMA ProposalsAreCalls ==
  ASSUME NEW proposed \in Proposals(Proposable, MaxCalls)
  PROVE  proposed \in Seq(Call) /\ Len(proposed) <= MaxCalls
<1>1. PICK n \in 0 .. MaxCalls : proposed \in [1 .. n -> Proposable]
  BY DEF Proposals
<1>2. n \in Nat /\ Proposable \subseteq Call
  BY BranchAssumption
<1> QED BY <1>1, <1>2

ToolsOf(kinds) == {kinds[i] : i \in DOMAIN kinds}

\* The fallback passes the same gate, and is empty only if all that was planned is a
\* results page for a text that is an operator.
LEMMA FallbackIsGated ==
  ASSUME NEW kinds \in Seq(Kind), NEW operator \in BOOLEAN, kinds # << >>
  PROVE  /\ FallbackCalls(kinds, operator) \in Seq(CleanCall(ToolsOf(kinds)))
         /\ Len(FallbackCalls(kinds, operator)) <= Len(kinds)
         /\ FallbackCalls(kinds, operator) = << >> => operator /\ ToolsOf(kinds) = {"organic_serp"}
<1> DEFINE call(kind) == [tool |-> kind, decoded |-> TRUE,
                          issues |-> IF operator /\ kind = "organic_serp" THEN {"other"} ELSE {}]
           planned == [i \in DOMAIN kinds |-> call(kinds[i])]
<1>1. \A kind \in Kind : call(kind) \in Call
  BY DEF Call, Issue
<1>2. DOMAIN kinds = 1 .. Len(kinds) /\ Len(kinds) \in Nat \ {0} /\ \A i \in DOMAIN kinds : kinds[i] \in Kind
  OBVIOUS
<1>3. planned \in Seq(Call) /\ DOMAIN planned = DOMAIN kinds
  BY <1>1, <1>2
<1>4. FallbackCalls(kinds, operator) = Accepted(planned, Kind)
  BY DEF FallbackCalls
<1>5. KeepHolds(Kind, planned, Len(planned), Accepted(planned, Kind))
  BY <1>3, GateKeeps
<1>6. Passed(Kind, planned) \subseteq CleanCall(ToolsOf(kinds))
  <2> SUFFICES ASSUME NEW i \in DOMAIN kinds, Verdict(planned[i], Kind) = "accepted"
               PROVE  planned[i] \in CleanCall(ToolsOf(kinds))
    BY <1>3 DEF Passed
  <2>1. planned[i] \in Call /\ planned[i].tool = kinds[i]
    BY <1>1, <1>2
  <2>2. planned[i].decoded /\ planned[i].issues = {}
    BY <2>1, AcceptedIsClean
  <2> QED BY <2>1, <2>2 DEF CleanCall, ToolsOf
<1>7. /\ FallbackCalls(kinds, operator) \in Seq(CleanCall(ToolsOf(kinds)))
      /\ Len(FallbackCalls(kinds, operator)) <= Len(kinds)
  <2>1. Len(planned) = Len(kinds)
    BY <1>2, <1>3
  <2> HIDE DEF planned
  <2> QED BY <1>4, <1>5, <1>6, <2>1 DEF KeepHolds
<1>8. ASSUME FallbackCalls(kinds, operator) = << >>, NEW i \in DOMAIN kinds
      PROVE  operator /\ kinds[i] = "organic_serp"
  <2>1. Verdict(planned[i], Kind) # "accepted"
    <3> HIDE DEF planned
    <3>1. i \in 1 .. Len(planned)
      BY <1>3
    <3> QED BY <1>4, <1>5, <1>8, <3>1 DEF KeepHolds
  <2>2. planned[i] = call(kinds[i]) /\ planned[i] \in Call /\ kinds[i] \in Kind
    BY <1>1, <1>2
  <2>3. planned[i].tool \in Kind /\ planned[i].decoded
    BY <2>2
  <2>4. planned[i].issues # {}
    <3> HIDE DEF planned
    <3> QED BY <2>1, <2>2, <2>3, AcceptedIsClean
  <2> QED BY <2>2, <2>4
<1>9. 1 \in DOMAIN kinds
  BY <1>2
<1> QED BY <1>7, <1>8, <1>9 DEF ToolsOf

-----------------------------------------------------------------------------
(* The inductive invariant *)

OnlyAnOperator == subQuery.operator /\ Registry = {"organic_serp"}

BranchInv ==
  /\ subQuery \in SubQuery
  /\ phase \in {"selecting", "calling", "returned", "raised"}
  /\ attempt \in 0 .. 2 /\ (phase = "selecting" => attempt < 2)
  /\ rejected \subseteq {"unknown_tool", "malformed_arguments", "missing_required_field",
                         "unexpected_field", "invalid_field_value"}
  /\ accepted \in Seq(CleanCall(Registry))
  /\ payloads \in Seq([tool : Registry, echoed : BOOLEAN])
  /\ results \in Nat /\ results <= Len(payloads)
  /\ phase = "selecting" => payloads = << >>
  /\ failure \in {"none", "failed", "circuit_open"}
  /\ outcome \in {"pending", "succeeded", "failed", "circuit_open", "no_usable_call"}
  /\ outcome # "pending" => phase = "returned" /\ (outcome = "succeeded" <=> payloads # << >>)
  /\ phase = "calling" /\ accepted = << >> /\ payloads = << >> /\ failure = "none" => OnlyAnOperator
  /\ outcome = "no_usable_call" => OnlyAnOperator
  /\ \A i \in DOMAIN observations :
       observations[i].status # "unknown" => Made \ {"keyword_metrics"} # {}

\* What a plan offers are tools, and the fallback asks for them only.
LEMMA PlannedFallback ==
  ASSUME subQuery \in SubQuery
  PROVE  /\ Registry \subseteq Kind
         /\ Fallback \in Seq(CleanCall(Registry)) /\ Len(Fallback) <= Len(subQuery.kinds)
         /\ Fallback = << >> => OnlyAnOperator
<1>1. subQuery.kinds \in Seq(Kind) /\ subQuery.kinds # << >> /\ subQuery.operator \in BOOLEAN
  BY BranchAssumption
<1>2. Registry = ToolsOf(subQuery.kinds)
  BY DEF Registry, ToolsOf
<1>3. Registry \subseteq Kind
  BY <1>1 DEF Registry
<1> QED BY <1>1, <1>2, <1>3, FallbackIsGated DEF Fallback, OnlyAnOperator

LEMMA BranchInvInit == BranchInit => BranchInv
BY DEF BranchInit, Init, BranchInv

\* The query, and what rests on it alone, stay as they are unless a step of the branch
\* says so.
LEMMA SameRegistry ==
  ASSUME UNCHANGED subQuery
  PROVE  Registry' = Registry /\ OnlyAnOperator' = OnlyAnOperator /\ Fallback' = Fallback
BY DEF Registry, OnlyAnOperator, Fallback

LEMMA ProposeStep == ASSUME BranchInv, Propose PROVE BranchInv'
<1>1. PICK proposed \in Proposals(Proposable, MaxCalls) :
        /\ rejected' = rejected \cup Reasons(proposed, Registry)
        /\ \/ /\ Accepted(proposed, Registry) = << >>
              /\ Reject
           \/ /\ Accepted(proposed, Registry) # << >>
              /\ accepted' = Accepted(proposed, Registry)
              /\ attempt' = attempt + 1
              /\ phase' = "calling"
  BY DEF Propose
<1>2. UNCHANGED <<subQuery, payloads, failure, outcome, measureVars>> /\ phase = "selecting"
  BY DEF Propose
<1>3. Registry' = Registry /\ OnlyAnOperator' = OnlyAnOperator /\ Made' = Made
  BY <1>2, SameRegistry DEF Made
<1>4. rejected' \subseteq {"unknown_tool", "malformed_arguments", "missing_required_field",
                           "unexpected_field", "invalid_field_value"}
  BY <1>1, ReasonsAreReasons DEF BranchInv
<1>5. attempt \in 0 .. 1 /\ outcome = "pending"
  BY <1>2 DEF BranchInv
<1>6. CASE Accepted(proposed, Registry) = << >> /\ Reject /\ attempt = 0
  BY <1>2, <1>3, <1>4, <1>5, <1>6 DEF BranchInv, Reject, measureVars
<1>7. CASE Accepted(proposed, Registry) = << >> /\ Reject /\ attempt # 0
  <2>1. Fallback \in Seq(CleanCall(Registry)) /\ (Fallback = << >> => OnlyAnOperator)
    BY PlannedFallback DEF BranchInv
  <2>2. phase' = "calling" /\ accepted' = Fallback /\ attempt' = attempt + 1
    BY <1>7 DEF Reject
  <2> QED BY <1>2, <1>3, <1>4, <1>5, <2>1, <2>2 DEF BranchInv, measureVars
<1>8. CASE /\ Accepted(proposed, Registry) # << >>
           /\ accepted' = Accepted(proposed, Registry)
           /\ attempt' = attempt + 1
           /\ phase' = "calling"
  <2>1. Accepted(proposed, Registry) \in Seq(CleanCall(Registry))
    BY ProposalsAreCalls, AcceptedIsGated
  <2> QED BY <1>2, <1>3, <1>4, <1>5, <1>8, <2>1 DEF BranchInv, measureVars
<1> QED BY <1>1, <1>6, <1>7, <1>8

LEMMA LLMFailsStep == ASSUME BranchInv, LLMFails PROVE BranchInv'
<1>1. Registry' = Registry /\ OnlyAnOperator' = OnlyAnOperator /\ Made' = Made
  BY SameRegistry DEF LLMFails, Made
<1>2. Fallback \in Seq(CleanCall(Registry)) /\ (Fallback = << >> => OnlyAnOperator)
  BY PlannedFallback DEF BranchInv
<1> QED BY <1>1, <1>2 DEF BranchInv, LLMFails, measureVars

LEMMA CallToolStep == ASSUME BranchInv, CallTool PROVE BranchInv'
<1> DEFINE Payload == [tool : Registry, echoed : BOOLEAN]
<1>1. Registry' = Registry /\ OnlyAnOperator' = OnlyAnOperator
  BY SameRegistry DEF CallTool
<1>2. accepted \in Seq(CleanCall(Registry)) /\ accepted # << >>
  BY DEF BranchInv, CallTool
<1>3. Tail(accepted) \in Seq(CleanCall(Registry)) /\ Head(accepted).tool \in Registry
  <2>1. Tail(accepted) \in Seq(CleanCall(Registry)) /\ Head(accepted) \in CleanCall(Registry)
    BY <1>2, HeadTailProperties
  <2> QED BY <2>1 DEF CleanCall
<1>4. \/ payloads' = payloads /\ failure' \in {"failed", "circuit_open"}
      \/ failure' = failure /\ \E payload \in Payload : payloads' = Append(payloads, payload)
  BY <1>3 DEF CallTool, Fetch
<1>5. /\ payloads' \in Seq(Payload) /\ Made \subseteq Made' /\ Len(payloads) <= Len(payloads')
      /\ payloads' # << >> \/ failure' # "none"
  <2>1. CASE payloads' = payloads /\ failure' \in {"failed", "circuit_open"}
    <3>1. payloads \in Seq(Payload)
      BY DEF BranchInv
    <3> HIDE DEF Payload
    <3> QED BY <2>1, <3>1 DEF Made
  <2>2. CASE failure' = failure /\ \E payload \in Payload : payloads' = Append(payloads, payload)
    <3>1. PICK payload \in Payload : payloads' = Append(payloads, payload)
      BY <2>2
    <3>2. payloads \in Seq(Payload)
      BY DEF BranchInv
    <3> HIDE DEF Payload
    <3>3. /\ payloads' \in Seq(Payload) /\ payloads' # << >>
          /\ Len(payloads') = Len(payloads) + 1
          /\ \A i \in 1 .. Len(payloads) : payloads'[i] = payloads[i]
      BY <3>1, <3>2, AppendProperties
    <3>4. Made \subseteq Made'
      BY <3>2, <3>3 DEF Made
    <3> QED BY <3>3, <3>4
  <2> QED BY <1>4, <2>1, <2>2
<1>6. /\ accepted' = Tail(accepted) /\ phase = "calling"
      /\ UNCHANGED <<subQuery, phase, attempt, rejected, outcome, measureVars>>
  BY DEF CallTool
<1>7. failure' \in {"none", "failed", "circuit_open"} /\ outcome = "pending"
  BY <1>4, <1>6 DEF BranchInv
<1>8. results' \in Nat /\ results' <= Len(payloads')
  <2>1. results \in Nat /\ results <= Len(payloads) /\ results' = results
    BY <1>6 DEF BranchInv, measureVars
  <2>2. Len(payloads) \in Nat /\ Len(payloads') \in Nat
    <3> HIDE DEF Payload
    <3> QED BY <1>5 DEF BranchInv, Payload
  <2> QED BY <1>5, <2>1, <2>2
<1> QED BY <1>1, <1>3, <1>5, <1>6, <1>7, <1>8 DEF BranchInv, measureVars

LEMMA ReturnOutcomeStep == ASSUME BranchInv, ReturnOutcome PROVE BranchInv'
<1>1. Registry' = Registry /\ OnlyAnOperator' = OnlyAnOperator /\ Made' = Made
  BY SameRegistry DEF ReturnOutcome, Made
<1> QED BY <1>1 DEF BranchInv, ReturnOutcome, measureVars

LEMMA EscapeStep == ASSUME BranchInv, Escape PROVE BranchInv'
<1>1. Registry' = Registry /\ OnlyAnOperator' = OnlyAnOperator /\ Made' = Made
  BY SameRegistry DEF Escape, Made
<1> QED BY <1>1 DEF BranchInv, Escape, localVars, measureVars

\* Only a payload that is not one of keyword metrics can be read as if somebody had looked.
LEMMA SizesDoNotLook ==
  ASSUME NEW payload, payload.tool = "keyword_metrics", NEW o \in Parsed(payload)
  PROVE  o.status = "unknown"
<1>1. KindFor(payload) = "keyword_metrics"
  BY DEF KindFor
<1>2. o \in KeywordMetrics
  BY <1>1 DEF Parsed
<1>3. PICK record \in [volume : VolumeGiven \cup {Missing}, index : IndexGiven \cup {Missing}] :
        o = Observe(<< >>, FALSE, record.volume, record.index)
  BY <1>2, Zenon DEF KeywordMetrics
<1> QED BY <1>3 DEF Observe

LEMMA NormalizePayloadStep ==
  ASSUME BranchInv, MeasureInv, NormalizePayload
  PROVE  BranchInv'
<1>1. UNCHANGED branchVars
  BY DEF NormalizePayload
<1>2. Registry' = Registry /\ OnlyAnOperator' = OnlyAnOperator /\ Made' = Made
  BY <1>1, SameRegistry DEF branchVars, Made
<1>3. \A i \in DOMAIN observations' :
        observations'[i].status # "unknown" => Made \ {"keyword_metrics"} # {}
  <2>1. CASE observations' = observations
    BY <2>1 DEF BranchInv
  <2>2. CASE observations' # observations
    <3>1. PICK o \in Parses : observations' = Append(observations, o)
      BY <2>2 DEF NormalizePayload, NormalizeOutcome, Parses
    <3>2. observations \in Seq(Observation) /\ o \in Observation
      BY ParsesObserve DEF MeasureInv
    <3>3. /\ Len(observations') = Len(observations) + 1 /\ observations' \in Seq(Observation)
          /\ \A i \in 1 .. Len(observations) : observations'[i] = observations[i]
          /\ observations'[Len(observations) + 1] = o
      BY <3>1, <3>2, AppendProperties
    <3>4. o \in Parsed(payloads[results + 1])
      <4>1. Last(observations') = o
        BY <3>3 DEF Last
      <4> QED BY <2>2, <4>1 DEF NormalizePayload
    <3>5. payloads[results + 1].tool \in Made
      <4>1. results \in Nat /\ results < Len(payloads)
        BY MeasurementAssumption DEF MeasureInv, NormalizePayload
      <4>2. results + 1 \in DOMAIN payloads
        BY <4>1 DEF BranchInv
      <4> QED BY <4>2 DEF Made
    <3>6. o.status # "unknown" => Made \ {"keyword_metrics"} # {}
      BY <3>4, <3>5, SizesDoNotLook
    <3>7. \A i \in DOMAIN observations' : i \in DOMAIN observations \/ i = Len(observations) + 1
      BY <3>2, <3>3
    <3>8. \A i \in DOMAIN observations :
            observations[i].status # "unknown" => Made \ {"keyword_metrics"} # {}
      BY DEF BranchInv
    <3> QED BY <3>2, <3>3, <3>6, <3>7, <3>8
  <2> QED BY <2>1, <2>2
<1>4. results' = results + 1 /\ results < Len(payloads)
  BY DEF NormalizePayload, NormalizeOutcome
<1>5. results' \in Nat /\ results' <= Len(payloads)
  <2>1. Len(payloads) \in Nat /\ results \in Nat
    BY DEF BranchInv
  <2> QED BY <1>4, <2>1
<1> QED BY <1>1, <1>2, <1>3, <1>5 DEF BranchInv, branchVars

LEMMA NormalizeQueryStep == ASSUME BranchInv, NormalizeQuery PROVE BranchInv'
<1>1. UNCHANGED branchVars /\ observations' = observations /\ results' = results
  BY DEF NormalizeQuery, Normalize
<1>2. Registry' = Registry /\ OnlyAnOperator' = OnlyAnOperator /\ Made' = Made
  BY <1>1, SameRegistry DEF branchVars, Made
<1> QED BY <1>1, <1>2 DEF BranchInv, branchVars

LEMMA BranchInvStep ==
  ASSUME BranchInv, MeasureInv, [BranchNext]_vars
  PROVE  BranchInv'
<1>1. CASE UNCHANGED vars
  <2>1. Registry' = Registry /\ OnlyAnOperator' = OnlyAnOperator /\ Made' = Made
    BY <1>1, SameRegistry DEF vars, branchVars, Made
  <2> QED BY <1>1, <2>1 DEF vars, branchVars, measureVars, BranchInv
<1> QED BY <1>1, ProposeStep, LLMFailsStep, CallToolStep, ReturnOutcomeStep, EscapeStep,
           NormalizePayloadStep, NormalizeQueryStep DEF BranchNext

-----------------------------------------------------------------------------
(* The theorems *)

\* A branch, with its model, its gate and its guesses at kinds, gives normalization
\* nothing that Measurement does not know: what holds of every measurement holds of it.
LEMMA BranchMeasures == BranchSpec => Spec
<1>1. BranchInit => Init
  BY DEF BranchInit
<1>2. [BranchNext]_vars => [Next]_measureVars
  BY DEF BranchNext, vars, measureVars, Next, Propose, LLMFails, CallTool, ReturnOutcome, Escape,
         NormalizePayload, NormalizeQuery
<1> QED BY <1>1, <1>2, PTL DEF BranchSpec, Spec

\* Of a branch that brought back less than it was asked for, too.
THEOREM BranchUnknownScoresLess == BranchSpec => []UnknownIsNoOpportunity
BY BranchMeasures, UnknownScoresLess, PTL

LEMMA BranchInvariant == BranchSpec => [](BranchInv /\ MeasureInv)
BY BranchInvInit, BranchInvStep, BranchMeasures, MeasureInvariant, PTL DEF BranchSpec

\* At most two proposals, and an outcome that says succeeded exactly when it has results
\* (contracts/retrieval.py:40), whatever the model proposes.
THEOREM BranchTypeCorrect == BranchSpec => []BranchTypeOK
<1>1. ASSUME BranchInv PROVE BranchTypeOK
  <2>1. Registry \subseteq Kind
    BY <1>1, PlannedFallback DEF BranchInv
  <2>2. CleanCall(Registry) \subseteq Call /\ [tool : Registry, echoed : BOOLEAN] \subseteq [tool : Kind, echoed : BOOLEAN]
    BY <2>1 DEF CleanCall
  <2>3. accepted \in Seq(Call) /\ payloads \in Seq([tool : Kind, echoed : BOOLEAN])
    <3>1. accepted \in Seq(CleanCall(Registry)) /\ payloads \in Seq([tool : Registry, echoed : BOOLEAN])
      BY <1>1 DEF BranchInv
    <3> QED BY <2>2, <3>1, WiderSeq
  <2> QED BY <1>1, <2>3 DEF BranchInv, BranchTypeOK
<1> QED BY <1>1, BranchInvariant, PTL

\* No call is made that the gate has not passed, the fallback's included
\* (validation.py:8), for any plan and anything a model may propose.
THEOREM GateHolds == BranchSpec => []OnlyGatedCalls
<1>1. ASSUME BranchInv PROVE OnlyGatedCalls
  <2>1. \A i \in DOMAIN accepted : accepted[i] \in CleanCall(Registry)
    BY <1>1 DEF BranchInv
  <2>2. \A i \in DOMAIN payloads : payloads[i].tool \in Registry
    <3> DEFINE Payload == [tool : Registry, echoed : BOOLEAN]
    <3>1. payloads \in Seq(Payload) /\ \A p \in Payload : p.tool \in Registry
      BY <1>1 DEF BranchInv
    <3> HIDE DEF Payload
    <3> QED BY <3>1
  <2> QED BY <2>1, <2>2 DEF OnlyGatedCalls, CleanCall, Made
<1> QED BY <1>1, BranchInvariant, PTL

\* Whatever the model says and however it fails, a branch returns without having made a
\* call only if the text of its one results page is an operator (retrieval.py:14).
THEOREM ModelNeverStopsBranch == BranchSpec => []ModelCannotStopBranch
<1>1. BranchInv => ModelCannotStopBranch
  BY DEF BranchInv, ModelCannotStopBranch, OnlyAnOperator
<1> QED BY <1>1, BranchInvariant, PTL

\* No query is stored as absent on the strength of its size alone (normalized.py:74).
THEOREM AbsencesWereLookedFor == BranchSpec => []AbsenceWasLookedFor
<1>1. ASSUME BranchInv, MeasureInv, query.made = "query", query.status = "not_visible"
      PROVE  Made \ {"keyword_metrics"} # {}
  <2>1. BestVisibility(observations).status = "not_visible"
    BY <1>1, StoredQuery
  <2>2. \E i \in DOMAIN observations : observations[i].status # "unknown"
    BY <1>1, <2>1, VerdictOnObservations DEF MeasureInv
  <2> QED BY <1>1, <2>2 DEF BranchInv
<1>2. BranchInv /\ MeasureInv => AbsenceWasLookedFor
  BY <1>1 DEF AbsenceWasLookedFor
<1> QED BY <1>2, BranchInvariant, PTL

-----------------------------------------------------------------------------
(* The branch comes to an end *)

\* The calls that one answer of the model, or the plan, can ask for
MostCalls == MaxCalls + Len(subQuery.kinds)

\* The steps that are left at most: proposals, then a call and the reading of what it
\* fetched for each accepted one, the return of the outcome, and the query.
Remaining ==
  CASE phase = "selecting" -> (2 - attempt) + 2 * MostCalls + 2
    [] phase = "calling" -> 2 * Len(accepted) + Len(payloads) + 2
    [] phase = "returned" -> (Len(payloads) - results) + (IF query = Pending THEN 1 ELSE 0)
    [] phase = "raised" -> 0

Numbers ==
  /\ MostCalls \in Nat /\ Len(accepted) \in Nat /\ Len(payloads) \in Nat
  /\ results \in Nat /\ results <= Len(payloads) /\ Remaining \in Nat
  /\ phase = "selecting" => Len(payloads) = 0

LEMMA BranchNumbers == BranchInv => Numbers
<1> SUFFICES ASSUME BranchInv PROVE Numbers
  OBVIOUS
<1>1. subQuery.kinds \in Seq(Kind) /\ MaxCalls \in Nat
  BY BranchAssumption DEF BranchInv
<1>2. MostCalls \in Nat
  BY <1>1 DEF MostCalls
<1>3. Len(accepted) \in Nat
  BY DEF BranchInv
<1>4. Len(payloads) \in Nat /\ (phase = "selecting" => Len(payloads) = 0)
  <2> DEFINE Payload == [tool : Registry, echoed : BOOLEAN]
  <2>1. payloads \in Seq(Payload) /\ (phase = "selecting" => payloads = << >>)
    BY DEF BranchInv
  <2> HIDE DEF Payload
  <2> QED BY <2>1
<1>5. results \in Nat /\ results <= Len(payloads)
  BY DEF BranchInv
<1>6. phase \in {"selecting", "calling", "returned", "raised"} /\ attempt \in 0 .. 2
  BY DEF BranchInv
<1>7. Remaining \in Nat
  BY <1>2, <1>3, <1>4, <1>5, <1>6 DEF Remaining
<1> QED BY <1>2, <1>3, <1>4, <1>5, <1>7 DEF Numbers

\* After a step as before it.
LEMMA BranchNumbersNext == BranchInv' => Numbers'
BY BranchNumbers, PTL

LEMMA BranchStepAdvances ==
  ASSUME BranchInv, MeasureInv, BranchNext
  PROVE  Remaining' < Remaining
<1>1. BranchInv'
  BY BranchInvStep
<1>2. /\ MostCalls \in Nat /\ Len(accepted) \in Nat /\ Len(payloads) \in Nat
      /\ results \in Nat /\ results <= Len(payloads) /\ Remaining \in Nat
      /\ phase = "selecting" => Len(payloads) = 0
  BY BranchNumbers DEF Numbers
<1>3. /\ MostCalls' \in Nat /\ Len(accepted') \in Nat /\ Len(payloads') \in Nat
      /\ results' \in Nat /\ results' <= Len(payloads') /\ Remaining' \in Nat
  BY <1>1, BranchNumbersNext DEF Numbers
<1>4. MostCalls = MaxCalls + Len(subQuery.kinds) /\ MaxCalls \in Nat /\ Len(subQuery.kinds) \in Nat
  BY BranchAssumption DEF MostCalls, BranchInv
<1>5. attempt \in 0 .. 2 /\ (phase = "selecting" => attempt < 2)
  BY DEF BranchInv
<1>6. Len(Fallback) <= MostCalls /\ Len(Fallback) \in Nat
  BY <1>4, PlannedFallback DEF BranchInv
<1>7. CASE Propose
  <2>1. /\ phase = "selecting" /\ UNCHANGED <<subQuery, payloads>> /\ attempt' = attempt + 1
        /\ \/ phase' = "selecting"
           \/ phase' = "calling" /\ Len(accepted') <= MostCalls
    <3>1. PICK proposed \in Proposals(Proposable, MaxCalls) :
             \/ /\ Accepted(proposed, Registry) = << >>
                /\ Reject
             \/ /\ Accepted(proposed, Registry) # << >>
                /\ accepted' = Accepted(proposed, Registry)
                /\ attempt' = attempt + 1
                /\ phase' = "calling"
      BY <1>7 DEF Propose
    <3>2. proposed \in Seq(Call) /\ Len(proposed) <= MaxCalls /\ Len(proposed) \in Nat
      BY ProposalsAreCalls
    <3>3. /\ Len(Accepted(proposed, Registry)) <= Len(proposed)
          /\ Len(Accepted(proposed, Registry)) \in Nat
      BY <3>2, AcceptedIsGated
    <3>4. Len(Accepted(proposed, Registry)) <= MostCalls
      BY <1>4, <3>2, <3>3
    <3> QED BY <1>6, <1>7, <3>1, <3>4 DEF Propose, Reject
  <2>2. MostCalls' = MostCalls
    BY <2>1 DEF MostCalls
  <2> QED BY <1>2, <1>3, <1>5, <2>1, <2>2 DEF Remaining
<1>8. CASE LLMFails
  BY <1>2, <1>3, <1>5, <1>6, <1>8 DEF LLMFails, Remaining
<1>9. CASE CallTool
  <2>1. Len(accepted') = Len(accepted) - 1
    BY <1>9 DEF CallTool, BranchInv
  <2>2. Len(payloads') <= Len(payloads) + 1
    <3> DEFINE Payload == [tool : Registry, echoed : BOOLEAN]
    <3>1. payloads \in Seq(Payload)
      BY DEF BranchInv
    <3>2. payloads' = payloads \/ \E payload : payloads' = Append(payloads, payload)
      BY <1>9 DEF CallTool
    <3> HIDE DEF Payload
    <3> QED BY <3>1, <3>2
  <2>3. phase = "calling" /\ phase' = "calling"
    BY <1>9 DEF CallTool
  <2> QED BY <1>2, <1>3, <2>1, <2>2, <2>3 DEF Remaining
<1>10. CASE ReturnOutcome
  BY <1>2, <1>3, <1>10 DEF ReturnOutcome, Remaining, measureVars
<1>11. CASE Escape
  <2>1. Remaining > 0 /\ Remaining' = 0
    BY <1>2, <1>5, <1>11 DEF Escape, Remaining
  <2> QED BY <2>1
<1>12. CASE NormalizePayload
  <2>1. phase = "returned" /\ phase' = "returned" /\ payloads' = payloads
    BY <1>12 DEF NormalizePayload, BranchInv, branchVars
  <2>2. results' = results + 1 /\ query' = query
    BY <1>12 DEF NormalizePayload, NormalizeOutcome
  <2> QED BY <1>2, <1>3, <2>1, <2>2 DEF Remaining
<1>13. CASE NormalizeQuery
  <2>1. phase = "returned" /\ phase' = "returned" /\ payloads' = payloads /\ results' = results
    BY <1>13 DEF NormalizeQuery, Normalize, BranchInv, branchVars
  <2>2. query = Pending /\ query' # Pending
    <3>1. query = Pending /\ query' \in {Dropped, BuildDiscoveredQuery}
      BY <1>13 DEF NormalizeQuery, Normalize
    <3> QED BY <3>1, MadeOfQuery DEF Pending, Dropped
  <2> QED BY <1>2, <1>3, <2>1, <2>2 DEF Remaining
<1> QED BY <1>7, <1>8, <1>9, <1>10, <1>11, <1>12, <1>13 DEF BranchNext

\* Nothing that a model proposes or a service answers keeps a branch going: every step
\* leaves fewer to be made, so that it can only stop by not being scheduled.  BranchEnds is
\* this and fairness (retrieval.py:145).
THEOREM BranchAdvances == BranchSpec => [](Remaining \in Nat) /\ [][Remaining' < Remaining]_vars
<1>1. BranchInv => Remaining \in Nat
  BY BranchNumbers DEF Numbers
<1>2. BranchInv /\ MeasureInv /\ [BranchNext]_vars => [Remaining' < Remaining]_vars
  BY BranchStepAdvances
<1> QED BY <1>1, <1>2, BranchInvariant, PTL DEF BranchSpec
=============================================================================
