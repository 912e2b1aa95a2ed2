--------------------------- MODULE RetrievalBranch ---------------------------
(***************************************************************************)
(* agents/nodes/retrieval.py composed with the normalization of what it    *)
(* brings: one sub-query, from the plan to the query that is stored.       *)
(*                                                                         *)
(*   model proposes -> gate -> one more proposal -> fallback -> calls ->   *)
(*   payloads -> observations -> DiscoveredQuery                           *)
(*                                                                         *)
(* The branch runs alone: what it shares with other branches, the client   *)
(* and its breaker, decides only whether a call fails, which is free here. *)
(* Tokens, and the rejections that an outcome lists, are left out: nothing *)
(* downstream reads them.                                                  *)
(***************************************************************************)
EXTENDS Measurement, ToolGate

CONSTANTS
  SubQuery,   \* [kinds, operator]: what a plan asks for, and whether its text begins
              \* with a search operator
  Proposable, \* the calls a model may propose
  MaxCalls    \* bound: the calls of one proposal

ASSUME BranchAssumption ==
  /\ \A q \in SubQuery : q.kinds \in Seq(Kind) /\ q.kinds # << >> /\ q.operator \in BOOLEAN
  /\ Proposable \subseteq Call
  /\ MaxCalls \in Nat \ {0}

VARIABLES
  subQuery,   \* sub_query
  phase,      \* "selecting" | "calling" | "returned" | "raised"
  attempt,    \* proposals the model has answered
  rejected,   \* the reasons of the rejections so far, the hints of the next prompt
  accepted,   \* the calls still to be made
  payloads,   \* results: which tool was called, and whether the reply echoes the request
  failure,    \* the class of the last failure, or "none"
  outcome     \* what the branch returned

branchVars == <<subQuery, phase, attempt, rejected, accepted, payloads, failure, outcome>>
localVars == <<attempt, rejected, accepted, failure>>
vars == <<branchVars, measureVars>>

BranchInit ==
  /\ subQuery \in SubQuery
  /\ phase = "selecting"
  /\ attempt = 0
  /\ rejected = {}
  /\ accepted = << >>
  /\ payloads = << >>
  /\ failure = "none"
  /\ outcome = "pending"
  /\ Init

\* The tools offered: deps.tools.subset(sub_query.retrieval_kinds)
Registry == {subQuery.kinds[i] : i \in DOMAIN subQuery.kinds}
Fallback == FallbackCalls(subQuery.kinds, subQuery.operator)

-----------------------------------------------------------------------------
(* _select_tool_calls *)

\* mutant: a corrective prompt starts the two attempts afresh
RejectForever ==
  /\ attempt' = 1 - attempt
  /\ UNCHANGED <<phase, accepted>>

\* mutant: one attempt too many
RejectTwice ==
  /\ attempt' = attempt + 1
  /\ IF attempt < 2
     THEN UNCHANGED <<phase, accepted>>
     ELSE phase' = "calling" /\ accepted' = Fallback

\* Nothing accepted: once more, with hints if there was anything to reject, and then
\* the fallback.
Reject ==
  /\ attempt' = attempt + 1
  /\ IF attempt = 0
     THEN UNCHANGED <<phase, accepted>>
     ELSE phase' = "calling" /\ accepted' = Fallback

Propose ==
  /\ phase = "selecting"
  /\ \E proposed \in Proposals(Proposable, MaxCalls) :
       /\ rejected' = rejected \cup Reasons(proposed, Registry)
       /\ \/ /\ Accepted(proposed, Registry) = << >>
             /\ Reject
          \/ /\ Accepted(proposed, Registry) # << >>
             /\ accepted' = Accepted(proposed, Registry)
             /\ attempt' = attempt + 1
             /\ phase' = "calling"
  /\ UNCHANGED <<subQuery, payloads, failure, outcome, measureVars>>

\* mutant: the failed model counts as one that proposed nothing to do
LLMFailsForGood ==
  /\ phase = "selecting"
  /\ rejected' = {} /\ accepted' = << >>
  /\ phase' = "calling"
  /\ UNCHANGED <<subQuery, attempt, payloads, failure, outcome, measureVars>>

\* An LLMError at either attempt: the rejections of the first are forgotten with it.
LLMFails ==
  /\ phase = "selecting"
  /\ rejected' = {} /\ accepted' = Fallback
  /\ phase' = "calling"
  /\ UNCHANGED <<subQuery, attempt, payloads, failure, outcome, measureVars>>

-----------------------------------------------------------------------------
(* perform_retrieval *)

\* The payload a tool fetches.  Only the request for an AI Overview has something to
\* echo that tells it apart, and whether the reply does is the API's choice.
Fetch(tool) == [tool : {tool}, echoed : IF tool = "ai_overview" THEN BOOLEAN ELSE {FALSE}]

\* A classified failure costs this call only.
CallTool ==
  /\ phase = "calling" /\ accepted # << >>
  /\ accepted' = Tail(accepted)
  /\ \/ /\ \E payload \in Fetch(Head(accepted).tool) : payloads' = Append(payloads, payload)
        /\ UNCHANGED failure
     \/ /\ failure' \in {"failed", "circuit_open"}
        /\ UNCHANGED payloads
  /\ UNCHANGED <<subQuery, phase, attempt, rejected, outcome, measureVars>>

\* The outcome's error and error_type; the locals are gone.
ReturnOutcome ==
  /\ phase = "calling" /\ accepted = << >>
  /\ phase' = "returned"
  /\ outcome' = IF payloads # << >> THEN "succeeded"
                ELSE IF failure # "none" THEN failure
                ELSE "no_usable_call"
  /\ attempt' = 0 /\ rejected' = {} /\ failure' = "none"
  /\ UNCHANGED <<subQuery, accepted, payloads, measureVars>>

\* What is neither an LLMError nor an ExternalServiceError ends the run: see
\* PipelineGraph!Crash.
Escape ==
  /\ phase \in {"selecting", "calling"}
  /\ phase' = "raised"
  /\ UNCHANGED <<subQuery, localVars, payloads, outcome, measureVars>>

-----------------------------------------------------------------------------
(* normalization.py: payloads become observations by the kind they seem to be *)

\* mutant: no endpoint tells keyword metrics from a results page
KindForSerpOnly(payload) ==
  IF payload.tool = "llm_visibility" THEN payload.tool
  ELSE IF payload.tool = "ai_overview" /\ payload.echoed THEN payload.tool
  ELSE IF "organic_serp" \in Registry THEN "organic_serp"
  ELSE Head(subQuery.kinds)

\* _kind_for: by endpoint; both kinds of results page share one, and are told apart by
\* the request that the reply echoes.
KindFor(payload) ==
  IF payload.tool \in {"keyword_metrics", "llm_visibility"} THEN payload.tool
  ELSE IF payload.tool = "ai_overview" /\ payload.echoed THEN payload.tool
  ELSE IF "organic_serp" \in Registry THEN "organic_serp"
  ELSE Head(subQuery.kinds)

\* What a parser can make of a payload.  A parser of another endpoint finds nothing to
\* read in a results page; that of organic results finds them on any, or none.
Parsed(payload) ==
  CASE KindFor(payload) = "organic_serp" -> OrganicSerp
    [] KindFor(payload) = "ai_overview" -> Citations
    [] KindFor(payload) = "llm_visibility" ->
         IF payload.tool = "llm_visibility" THEN Citations ELSE {Observe(<< >>, FALSE, Missing, Missing)}
    [] KindFor(payload) = "keyword_metrics" ->
         IF payload.tool = "keyword_metrics" THEN KeywordMetrics ELSE {Observe(<< >>, FALSE, Missing, Missing)}

\* normalization_node passes over an outcome that did not succeed.
NormalizePayload ==
  /\ outcome = "succeeded" /\ results < Len(payloads)
  /\ NormalizeOutcome
  /\ observations' # observations => Last(observations') \in Parsed(payloads[results + 1])
  /\ UNCHANGED branchVars

NormalizeQuery ==
  /\ outcome = "succeeded" /\ results = Len(payloads)
  /\ Normalize
  /\ UNCHANGED branchVars

BranchNext ==
  \/ Propose \/ LLMFails \/ CallTool \/ ReturnOutcome \/ Escape
  \/ NormalizePayload \/ NormalizeQuery

BranchSpec == BranchInit /\ [][BranchNext]_vars

\* Model and provider are awaited with timeouts, and the rest is a loop that nothing
\* stops.
BranchFairSpec == BranchSpec /\ WF_vars(BranchNext)

-----------------------------------------------------------------------------
(* Properties *)

Made == {payloads[i].tool : i \in DOMAIN payloads}

\* The shape of a branch: two proposals at most, and an outcome that says succeeded
\* exactly when it has results (contracts/retrieval.py:40).
BranchTypeOK ==
  /\ subQuery \in SubQuery
  /\ phase \in {"selecting", "calling", "returned", "raised"}
  /\ attempt \in 0 .. 2 /\ (phase = "selecting" => attempt < 2)
  /\ rejected \subseteq {"unknown_tool", "malformed_arguments", "missing_required_field",
                         "unexpected_field", "invalid_field_value"}
  /\ accepted \in Seq(Call)
  /\ payloads \in Seq([tool : Kind, echoed : BOOLEAN])
  /\ failure \in {"none", "failed", "circuit_open"}
  /\ outcome \in {"pending", "succeeded", "failed", "circuit_open", "no_usable_call"}
  /\ outcome # "pending" => (outcome = "succeeded" <=> payloads # << >>)

\* "Nothing downstream of it ever sees an unvalidated argument" (validation.py:8): a
\* call that is made, the model's or the fallback's, is of a tool the plan asked for and
\* has arguments its schema passes.
OnlyGatedCalls ==
  /\ \A i \in DOMAIN accepted :
       accepted[i].tool \in Registry /\ accepted[i].decoded /\ accepted[i].issues = {}
  /\ Made \subseteq Registry

\* "A model that cannot format arguments is not a reason to return no data"
\* (retrieval.py:14): whatever the model says and however it fails, a branch returns
\* without having made a call only if the text of its one results page is an operator.
ModelCannotStopBranch ==
  outcome = "no_usable_call" => subQuery.operator /\ Registry = {"organic_serp"}

\* "A failed retrieval is not evidence of absence" (normalized.py:74): no query is
\* stored as absent if all that came back was its size.
AbsenceWasLookedFor ==
  query.made = "query" /\ query.status = "not_visible" => Made \ {"keyword_metrics"} # {}

\* A branch ends, with its query if it measured anything.
BranchEnds ==
  <>( \/ phase = "raised"
      \/ phase = "returned" /\ (outcome = "succeeded" => query # Pending) )
=============================================================================
