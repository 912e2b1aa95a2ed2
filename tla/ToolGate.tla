------------------------------ MODULE ToolGate ------------------------------
(***************************************************************************)
(* tools/validation.py, tools/registry.py and the adapter before them,     *)
(* infrastructure/llm/langchain.py: what a model proposes, and which of it *)
(* may run.                                                                *)
(*                                                                         *)
(* A tool is named by the capability it serves, which default_tool_registry*)
(* makes one to one; that registry has a tool for each.  Arguments are     *)
(* reduced to the classes of errors the tool's schema finds in them.       *)
(***************************************************************************)
EXTENDS Naturals, Sequences

Kind == {"organic_serp", "ai_overview", "llm_visibility", "keyword_metrics"}

\* Tool names a model may make up
Invented == {"no_such_tool"}

Issue == {"missing", "extra_forbidden", "other"}

\* A ProposedToolCall.  One that was not decoded has its text in raw_arguments, maybe
\* empty, and no arguments; every schema would find a required field missing in it.
Call == {c \in [tool : Kind \cup Invented, decoded : BOOLEAN, issues : SUBSET Issue] :
           ~c.decoded => c.issues = {"missing"}}

\* mutant: the whole registry is asked, not the one the branch was given
VerdictOfAnyTool(call, registry) ==
  IF call.tool \in Kind /\ call.decoded /\ call.issues = {} THEN "accepted" ELSE "unknown_tool"

\* _overall_reason: what is missing outranks the rest.
OverallReason(issues) ==
  IF "missing" \in issues THEN "missing_required_field"
  ELSE IF "extra_forbidden" \in issues THEN "unexpected_field"
  ELSE "invalid_field_value"

\* validate_tool_call rejects with a reason or accepts.  registry.subset(kinds) holds
\* the tools of the kinds wanted.
Verdict(call, registry) ==
  IF call.tool \notin registry THEN "unknown_tool"
  ELSE IF ~call.decoded THEN "malformed_arguments"
  ELSE IF call.issues = {} THEN "accepted"
  ELSE OverallReason(call.issues)

\* validate_tool_calls: one call after the other, the accepted ones kept.
Keep(registry, accepted, call) ==
  IF Verdict(call, registry) = "accepted" THEN Append(accepted, call) ELSE accepted
Accepted(proposed, registry) ==
  LET kept[i \in 0 .. Len(proposed)] ==
        IF i = 0 THEN << >> ELSE Keep(registry, kept[i - 1], proposed[i])
  IN kept[Len(proposed)]
Reasons(proposed, registry) ==
  {Verdict(proposed[i], registry) : i \in DOMAIN proposed} \ {"accepted"}

\* propose_tool_calls appends what it could not decode to what it could.
Proposals(calls, length) ==
  {p \in UNION {[1 .. n -> calls] : n \in 0 .. length} :
     \A i, j \in DOMAIN p : i < j /\ p[j].decoded => p[i].decoded}

\* _build_fallback_calls: a call with default arguments for every kind planned.  The
\* schema of fetch_organic_serp refuses a query text that is a search operator; the
\* default location and language are taken to be ones the schemas accept.
FallbackCalls(kinds, operator) ==
  LET call(kind) == [tool |-> kind, decoded |-> TRUE,
                     issues |-> IF operator /\ kind = "organic_serp" THEN {"other"} ELSE {}]
  IN Accepted([i \in DOMAIN kinds |-> call(kinds[i])], Kind)
=============================================================================
