# Verification of Sightline

This directory is a TLA+ model of Sightline (`src/sightline`): what its parts do when they run
beside each other, fail, are retried, are cancelled or die, and which promises survive that.
Modules are checked with TLC on small instances; what matters most is proved with TLAPS for
every value of the constants. `PROJECT.json` names the lines each definition stands for.

Source paths below are relative to `src/src/sightline/` unless they start with `tests/` or `README.md`.

## 1. The system

Sightline is an asyncio web service. A client registers a *profile* (a domain), asks for a *run*
(an agent graph plans sub-queries, measures each through the DataForSEO API, scores and analyses
them, writes a report), reads the results, and may *recheck* a single query.

| part | state it keeps | operations | hard behaviour | what makes it correct |
|---|---|---|---|---|
| circuit breaker (`infrastructure/resilience/circuit_breaker.py`) | state, failure count, opening time, probe counters; one instance per process | admit, record success or failure, release | every branch of every run awaits between admit and record; results of an earlier period arrive late; cancellation | counters match their owners; who moves the circuit is known on every edge; a half-open circuit gets out unless cancelled probes hold its slots |
| retry and backoff (`retry.py`, `backoff.py`) | attempt number, delay | attempt, sleep, give up | retries go on while the circuit opens; Retry-After | budgets are kept and spent; never earlier than asked |
| classification (`application/ports/errors.py`, `classifier.py`, `dataforseo/status.py`) | none | reply to error class | two levels of status, overlapping ranges | what is transient is retried, what is ours is not held against the service |
| DataForSEO client (`dataforseo/client.py`, `transport.py`) | per-run metrics | execute | composition order of the above | breaker outside, retries inside, one record each |
| agent graph (`agents/graph`, `agents/nodes`, `agents/engine.py`) | LangGraph channels of one run | nodes, routers, engine result | fan-out and join, failing branches, LLM failures, exceptions | status, reason and report agree with what was measured |
| normalization and scoring (`normalization.py`, `contracts/normalized.py`, `opportunity_scoring.py`) | none | parse, merge, score | missing evidence, malformed values, order of results | the verdict is that of the evidence; absence of evidence is no evidence of absence |
| writing use cases and persistence (`application/use_cases`, `infrastructure/persistence`) | the PostgreSQL tables | register, run, recheck, each in short transactions | requests interleave at every await; rollback; the process dies mid-run; engine results are seconds old when saved; two saves of one row load it and update it in turn | no half-written run, no lost run, no duplicate domain, no measurement written back; status and position of a stored row always fit |
| reading use cases (`get_profile.py`, `list_queries.py`, `list_recommendations.py`) | what has been read so far | three or four statements each, in one READ COMMITTED transaction | every statement sees another state of the tables | a later statement knows what the earlier ones knew |
| tool gate and retrieval node (`tools/`, `agents/nodes/retrieval.py`) | the calls accepted, the payloads | validate proposed calls, repair, fall back, call | a model that is wrong or fails at any attempt; batches accepted in part; calls that fail | only calls that passed are made; the model cannot keep a query from being measured |
| HTTP API, LLM factory, configuration, composition, observability | none of their own | translation, construction | - | not modelled: see section 7 |

Interaction: an HTTP request is one asyncio task. It calls a use case, which opens a transaction,
closes it, calls the engine, and opens another. The engine runs the graph; each retrieval
branch is a task of its own, asks the model which tools to call, passes its answer through the gate and calls the one DataForSEO client, whose one breaker is shared by all
branches of all requests (`composition/container.py:155-173`). Tasks are interrupted only at an
`await`, so the atomic steps of the models are the stretches of code between two awaits that matter.

## 2. The modules

| module | models | state | actions |
|---|---|---|---|
| `CircuitDiagram` | the drawing in the module docstring (`circuit_breaker.py:12-20`), abstract | `mode`, `evidence`, and whether each call is a probe or left over | one per edge and reporter: `ProbeSucceeds`, `Recover` and `ProbeFails` as documented (`DocumentedSpec`), `LateSuccess`, `LateRecover` and `LateFailure` as coded besides (`Spec`) |
| `CircuitBreaker` | `circuit_breaker.py` | the breaker's attributes by their names; `age` is the time since opening; `calls` is what each task is doing; `leaked` counts the probes that were cancelled | `Admit` = `_admit` (closed, first probe, probe, rejected), `RecordSuccess`, `RecordFailure`, `ReleaseProbe`, `Cancel`, `Tick` |
| `ErrorTaxonomy` | `errors.py`, `classifier.py`, `status.py`, `transport.post` | none (operators) | `AttemptResult(reply)` is what one attempt raises or returns |
| `DataForSEOClient` | `client.py`, `retry.py`, `backoff.py`; EXTENDS the two above | phase, attempt, delay of each task; last `ApiCallRecord`, with the reply it ended on | `Start`, `Rejected`, `Succeed`, `Sleep`, `Wake`, `Exhaust`, `FailFast`, `PassThrough`, `CancelCall`, `Elapse` |
| `PipelineGraph` | `agents/graph`, `agents/nodes`, `agents/engine.py`, both graphs | the channels routing depends on, the active nodes, the returned result | `Ingest`, `QueryPlanner`, `PlannerFallback`, `Retrieve`, `Join`, `Superstep` (normalization, analysis, degradation, report), `Return`, `Crash` |
| `Measurement` | `normalization.py`, `contracts/normalized.py`, `opportunity_scoring.py`, value objects | observations so far, the query built | `NormalizeOutcome` (one raw result), `Normalize` |
| `ToolGate` | `tools/validation.py`, `registry.py`, the argument schemas, the LLM adapter's proposals | none (operators) | `Verdict(call, registry)` is `validate_tool_call`, `Accepted` the batch, `FallbackCalls` what the node builds itself |
| `RetrievalBranch` | `retrieval.py`, `_kind_for`; EXTENDS the two above | the branch's locals, its payloads and outcome | `Propose`, `LLMFails` (`_select_tool_calls`), `CallTool`, `ReturnOutcome`, `Escape` (`perform_retrieval`), `NormalizePayload`, `NormalizeQuery` |
| `ResultLedger` | what the stored records promise, abstract | one variable, `ledger` | `Announce`, `Finish`, `Renew` |
| `ResultStore` | `register_profile.py`, `run_pipeline.py`, `recheck_query.py`, unit of work, repositories | the tables; phase and local values of each request | one per transaction step, the save of a recheck among them as its SELECT (`SelectForSave`) and its UPDATE (`CommitSave`); `Exit` (exception, rollback) and `Crash` |
| `ResultReaders` | `get_profile.py`, `list_queries.py`, `list_recommendations.py` and the queries of the repositories; EXTENDS `ResultStore` | how many statements each reader has run, and what it read | one per statement (`GetProfile`, `CountForProfile`, `FindLatest`, `AverageOpportunityScore`, `CountQueries`, `ListQueries`, `ListRecommendations`), `ReaderExit`, `ServiceCrash` |

`MC*` modules give constants their values; `*Proofs` hold the theorems, and `LoopRule` the proof rule of a loop over a sequence
(section 4). What the code computes in a loop (`best_visibility`, `validate_tool_calls`) is a recursive function of the rounds made,
with one operator for the body (`Look`, `Keep`), so that it can be checked and proved about. Composition: `DataForSEOClient`
contains the variables of `CircuitBreaker` and uses its actions, so that what is proved of the breaker holds under the client (`BreakerUnderClient`),
`CircuitBreaker` implements `CircuitDiagram`, `ResultStore` implements `ResultLedger`. `ResultStore`
takes the outcome of an engine call from what `PipelineGraph` shows of it; `PipelineGraph` takes the
outcome of a branch from what `RetrievalBranch` returns, and that takes the end of a call from what `DataForSEOClient` can end in.
`RetrievalBranch` contains the variables of `Measurement` and `ResultReaders` those of `ResultStore`: each uses the other module's actions,
and a lemma carries the theorems over (`BranchMeasures`, `ReadersOnlyRead`);
what `ResultStore` assumes of an engine's outcome is proved of `PipelineGraph` (`EngineKeepsContract`).

Operators whose comment begins with "mutant" are plausible bugs in the code they stand beside. They are not
used by any specification; substituting one shows that the property it is paired with would notice.

### How the abstractions were chosen

- *Breaker.* `calls` labels an admitted task `normal`, `probe` or, once the circuit has changed state,
  `stale`. The code has no such label; only `leaked` and the properties depend on it. `leaked` counts the cancelled probes of the present
  half-open period. The lock is never contended, since nothing is
  awaited under it. The failure counter saturates at `FailureCap`, at or above the threshold, as it is only ever compared with that.
- *Client.* Time is ticks; the same tick ages the breaker and shortens every sleep. `asked` (what is left
  of the server's wait), `made` and `reply` (in the record) and `lateWakes` are history the properties need.
- *Graph.* A sub-query stands for its outcome and its normalized query; a node that calls the LLM chooses freely
  between a result and the failure it handles. A crash is any exception a node lets out.
- *The fan-out's join.* LangGraph is not part of this repository. `builder.py:82` says the router behind `retrieval` is evaluated once, after
  every branch has joined; LangGraph evaluates a conditional edge for each task of the node, each time on a state
  with only that task's writes. A `Setting` holds the reading and the threshold; `pipeline_run` checks both readings,
  so its properties hold whichever is right, and `pipeline_per_task_routing` shows what the second one costs. A plan of one sub-query behaves the same under both.
- *Measurement.* Scores are counted in hundred-thousandths; the logarithm of the demand is a table. Items
  are "own domain or not" and a rank; text, URLs and evidence are left out.
- *Branch.* A tool is named by its capability, which `default_tool_registry` makes one to one. Arguments are the classes of errors
  that the tool's schema finds in them; a model proposes any batch of the calls given. A payload is the tool
  that fetched it and whether the reply echoes the request, which is all that `_kind_for` looks at. The branch runs alone:
  what it shares with others decides only whether a call fails, and a call is free to.
- *Readers.* A statement reads what is committed when it runs. A page is the first one and large enough. The average of scores is
  represented by how many queries it is taken over, as `None` is the only value told apart.
- *Store.* PostgreSQL is external: atomic commit, READ COMMITTED, and a unique index that makes the second
  insert wait for the first one's transaction. A row has three columns: `visibility_status`, `visibility_position`, which a constraint
  ties to it, and `discovered_at`, which tells who measured last. `save` (`repositories/discovered_query.py:34-42`) is a `session.get`, whose
  values the session keeps, and at the commit an UPDATE of the columns that differ from them (`Updated`); between the two another save may commit.
  The columns that are left out (volumes, scores, evidence) are updated in the same way and blend like the three.

## 3. What is checked

| run | instance | properties | shows |
|---|---|---|---|
| `breaker` | 4 tasks, threshold 2, quota 2, with cancellation | `TypeOK`, `SlotAccounting`, `SlotsHaveOwners`, `ImplementsDiagram`, `OnlyLeakedSlotsBlock` | the counters are right, every slot has an owner or was leaked, every history is one of the diagram with its three late edges, and nothing but leaked slots can block a half-open circuit |
| `client_execution` | 2 tasks, 3 attempts, 10 kinds of reply, cancellation | `ClientTypeOK`, `TrafficWhileOpenBounded`, `TransientFailureRetried`, `BlamedOnlyWhenExhausted`, `RetryNotBeforeAsked`, `ExecutionsEnd` | the whole path of a call |
| `pipeline_run` | plans of up to 3 sub-queries, thresholds 1 and 2, both readings of the join, both graphs | `GraphTypeOK`, `CompletedIsWhole`, `PartialHasCause`, `ReportAgrees`, `FailedOnlyByCrash`, `RunEnds` | status, reason and report are those of what happened |
| `result_store` | 7 mixes (`Loads`) of 2 registrations of one domain, 2 runs, 2 rechecks, a summary, 2 listings and a list of recommendations | `StoreTypeOK`, `UniqueDomains`, `AllOrNothing`, `EveryRunLeavesARow`, `PositionIffVisible`, `ReaderTypeOK`, `SummaryGrows`, `UnfilteredListsAgree`, `NoMeasurementReturns`, `ImplementsLedger`, `RequestsEnd` | the records keep the ledger's promise whatever interleaves and wherever it stops; overlapping saves bring nothing old back; a reader's later statements include what its earlier ones knew |
| `measurement` | one sub-query: 8 plans, up to 2 calls a proposal, up to 3 payloads of up to 2 items | `MeasureTypeOK`, `VerdictOfEvidence`, `UnknownIsNoOpportunity`, `BadPayloadContained`, `BranchTypeOK`, `OnlyGatedCalls`, `ModelCannotStopBranch`, `AbsenceWasLookedFor`, `BranchEnds` | from the model's proposals to the stored query: only gated calls, no query given up, and a verdict and score that do not depend on order and never reward missing evidence |

The following runs check what a document or comment says of the code and end in a counterexample.

| run | statement | what the code does |
|---|---|---|
| `breaker_stale_release` | `ProbesWithinQuota` | a 4xx of a call left over from before the outage gives back a slot that a probe holds |
| `breaker_late_results` | `ImplementsDocstring` | the late result of a call admitted while closed counts as a probe's, and closes or opens a half-open circuit |
| `breaker_cancel_leak` | `SlotsComeBack` | a cancelled probe keeps its slot, and the half-open circuit rejects for ever |
| `pipeline_per_task_routing` | `PartialNeedsShortfall` | with LangGraph's routing, one failed branch makes a run with enough successes partial |
| `store_recheck_unknown` | `KnownStaysKnown` | a recheck left with keyword metrics only is "completed" and overwrites a known visibility |
| `recheck_blend` | `SavesOverwrite` | two rechecks load a row before either commits; the second updates only what differs from what it loaded, and the row is what nobody measured |
| `measurement_bad_payload` | `BadPayloadContained` | a competition index of 101 passes the parser and fails the run where the query is built |

Further disagreements that were met while modelling, for which no run was needed, are in `PROJECT.json` under
"findings": for instance what a reader may be told (a
summary with a latest run and a `total_runs` of 0, a filtered page with fewer queries than were counted), a 503 with an HTML body, which is
not retried, the cap on Retry-After, retries that are not counted, a degradation reason
(`insufficient_retrievals`) that no run can be given, the kind of a payload that is guessed and not paired with its call, and a
normalisation of domains that is not idempotent, so that two profiles can be read as one domain.

### Bounds

- *Breaker.* Threshold, reset window and quota of 2 are the least values at which "one more of it" and "enough
  of it" differ; four tasks allow a full quota of probes beside late calls of both earlier periods. The three
  counterexamples need a quota of 1 and three tasks.
- *Client.* Three attempts have a first, a middle and a last one. `Replies` holds one reply of each class
  that the breaker, the retries or the record treat differently, among them a failed task in an Ok envelope, a refusal worded like a rate limit,
  an unknown code and a page of HTML. A Retry-After stays within
  `MaxSeconds`: beyond it the code cuts it, which is a finding, not a property. `RetryNotBeforeAsked` covers
  Retry-After on 429 only, since the code reads it nowhere else.
- *Graph.* With three branches and one or two required successes, every relation of failed, succeeded and required occurs.
- *Store.* Two rivals for a domain, and two rechecks of one row, are the least that can race. A run's rows
  are one row per table, since a recheck touches one query and a commit all. One position (`Rank`) is enough for a blend
  of the columns and for one that the constraint refuses. `Load` bounds which requests are sent together:
  each mix holds one race (`MCResultReaders!Loads`); one of the two
  listings has a filter, of which only `ReaderTypeOK` is claimed. A reader beside two runs takes TLC too long; the proofs about
  readers are for any number of everything.
- *Branch.* `Plans` has capabilities with and without the one that an unmarked results page is taken for, and with and without a text
  that one schema refuses; `Calls` has a clean call of every tool and one for each reason to reject; `MaxCalls` of 2 allows a batch accepted in part.
- *Measurement.* Three results show every pair of kinds with one more before or after; ranks on both sides of
  the ten-position horizon, 0 and the ends of every range are among the values.

`CHECK_DEADLOCK FALSE` stands where executions end: a graph that returned, requests that ended, a query that was built.
Breaker and client never stop.

### Fairness

- `CircuitBreaker!FairSpec`: time passes, and an admitted operation ends, because each attempt has
  HTTP timeouts (`transport.py:82-87`), attempts are bounded, and delays are capped. Admission is not fair: nobody has to call.
- `ClientFairSpec`: time passes, and each attempt is answered or times out; a sleep that is over ends.
- `PipelineGraph!FairSpec`: LangGraph goes on while a node is active, and each node awaits only calls that time out.
- `ResultStore!FairSpec`: the event loop resumes each request whose await is over. Starting a request, `Exit` and `Crash` are not fair.
- `ResultReaders!ServiceFairSpec`: the same for the writers; nothing is claimed of when a reader ends, and nobody waits for one.
- `BranchFairSpec`: the loop of a branch goes on, since model and provider are awaited with timeouts (`config/settings.py`).

## 4. What is proved

All theorems hold for any finite number of tasks or requests and any settings within the ranges of
`config/settings.py:166-200` (`PolicyAssumption`, `CapAssumption`, `CallAssumption`, `RetryAssumption`, `ReplyAssumption`,
`StoreAssumption`, `ReaderAssumption`, `MeasurementAssumption`, `BranchAssumption`; TLC evaluates them in every run of their modules).
Every invariant and action property of the passing runs is stated by a theorem; the five liveness properties are not.

- **Breaker** (`CircuitBreakerProofs`). `BreakerInv == TypeOK /\ SlotAccounting` is inductive: the two halves need each other, since the
  counters' bounds decide which branch of `_record_*` is taken. `TypeCorrect` and `AccountingHolds` follow.
  `BreakerImplementsDiagram` maps each action to an edge or a stutter under that invariant. The diagram says of each edge whose result takes it,
  so the theorem is exact about late ones: beside the documented edges there are `LateSuccess`, `LateRecover` and `LateFailure`, which the code needs
  (`breaker_late_results`), and no others; an open circuit is moved by time alone. It rests on the labels of the calls (`LabelsStep`): none is `normal` outside the
  closed state or `probe` outside the half-open one. `SlotsOwned` shows that taken slots never exceed running
  probes and leaked ones; a slot that is released twice only lowers the count.
- **Client** (`DataForSEOClientProofs`). `BreakerUnderClient` carries the theorems above over to the client, which takes breaker steps only. `BlameNeedsExhaustion` uses that only a spent budget is reported as a
  dependency failure. `TrafficBounded` needs `LateInv`, which relates the late attempts of a task to its attempt
  number, and that the call which opened the circuit is out. `TransientRetried` follows a reply from the first code that is not Ok through the
  ranges, which overlap, to the class of its error (`FirstFailureDecides`, `TransientIsRetryable`), for any set of replies; bodies that are not JSON are
  outside of its claim (a finding). `ClientTypeCorrect` adds `Clocks`, the ranges of delays and of what the server asked. `RetryWaits` shows that
  every sleep is at least as long as `asked` when it begins, and that both lose the same ticks; it assumes that a server names a
  time only with a readable 429 and within the cap, the two things the code cuts (a finding).
- **Store** (`ResultStoreProofs`). `StoreInv == StoreTypeOK /\ DomainsHeld /\ AllOrNothing /\ PositionIffVisible /\ RunsInStep /\ RechecksInStep` is inductive:
  `DomainsHeld` says at most one applicant of a domain holds its row, committed or not; `RunsInStep` ties a run's row and its staged rows to
  the phase of its request; `RechecksInStep` ties a recheck's target, result and loaded row to its phase, and says that no row is by a recheck that has not ended.
  The last is what the save needs (`Updates`): a recheck's `discovered_at` differs from the one it loaded, so that its UPDATE always sets it; every other column is
  its own or the one stored; and if the row is still as loaded, all are its own. `MeasurementsFresh` says so of every change of a row;
  `PositionsPaired`, that the constraint keeps blends from breaking a row in two, whatever the columns become. `StoreTypeCorrect`, `DomainsUnique`, `ResultsWhole`,
  `RunsTraced` and the refinement `StoreImplementsLedger` follow from the same invariant.
- **Readers** (`ResultReadersProofs`). The theorems of the store
  hold beside readers, the refinement included (`ServiceKeepsLedger`). `ReaderInv` says of each reader what it knows after each of its statements:
  that the run it found is announced, that a run it read as completed has its rows, that what it counted is
  still there. It is inductive because the tables only grow (`StoreGrows`: a run never disappears, a row is replaced and not
  removed, a finished run stays finished). That there is a latest run among the announced ones (`LatestIsAnnounced`) rests on
  their number being finite. From it follow `ReaderTypeCorrect`, `SummariesGrow` and `UnfilteredListingsAgree`, the last for any number of runs and rechecks.
  Both are one-sided, as growth is: nothing keeps a later statement from knowing more than an earlier one, and a filter on a column that rechecks renew does not grow.
- **Graph** (`PipelineGraphProofs`). `GraphInv` ties the active nodes to the channels: before the plan (`Planning`), during the fan-out
  (`Retrieving`) and after the join, when only eight sets of nodes can be active (`Stage`) and the causes of a partial run
  are decided (`Cause`). `GraphTypeCorrect`, `CompletedWhole`, `PartialCaused` and `ReportsAgree` are parts of it; `OnlyCrashFails` follows from it
  step by step. They hold for plans of any length, any threshold and both readings of the join.
  `EngineKeepsContract` is the interface to the store: `ResultStore!Execute` and `Remeasure` offer every outcome an execution can have and rest on
  nothing that an execution does not keep. It needs, beside `GraphInv`, that the analysis node is only reached with something to analyse (`Analysed`),
  and what each kind of result says of the kept queries (`Outcome`).
- **Loops** (`LoopRule`), a lemma for the two modules below. `LoopKeeps`: an invariant that holds before the first round, and is kept by the body, holds of what a loop over
  a sequence returns, whatever its length. The induction theorems of the library take an operator that the provers cannot instantiate; here the body and the invariant are
  CONSTANT operators of a module that is instantiated, and the induction is the choice of the first round after which the invariant
  does not hold (`WFMin`). That the recursive function exists at all is proved the same way (`RoundsExist`).
- **Measurement** (`MeasurementProofs`). `LookHolds` is the invariant of the merging loop: the position so far is the best of those
  seen, and `saw` tells whether anything looked. With it `VerdictOnObservations` says what `BestVisibility` returns for any sequence.
  `MeasureInv` is inductive and small: what is observed is typed, and the query is either pending, dropped or the one built of exactly
  these observations, as nothing is observed after that. From the two follow `MeasureTypeCorrect`, `VerdictsAreOfEvidence` and `UnknownScoresLess`.
  `OnlyBadValuesRaise` names the values for which building the query raises;
  `WellFormedContained` is `BadPayloadContained` for services that keep to the ranges of their values, and needs that as a hypothesis: `measurement_bad_payload` has an index of 101.
- **Branch** (`RetrievalBranchProofs`). `KeepHolds` is the invariant of the gate's loop: it keeps calls that pass, and some if any does. `BranchInv` says
  what is accepted and fetched in each phase: only clean calls for planned tools; nothing fetched while selecting; nothing left to call
  without a failure only where the plan was one results page for a text that is an operator; and an observation that looked for the domain only after a
  call of a tool that looks. `BranchTypeCorrect`, `GateHolds`, `ModelNeverStopsBranch` and `AbsencesWereLookedFor` follow, the last with what the
  verdict is made of. The theorems about `Measurement` hold of the branch, whatever it calls and takes a payload for (`BranchUnknownScoresLess`).

*Nothing goes on for ever.* Liveness under fairness, and `ENABLED`, are beyond the prover; what is proved is the part of
it that depends on the code: every step leaves less to be done. `RunAdvances` (`Left`: at most nine steps of a graph and one for each branch) and
`BranchAdvances` (`Remaining`) bound the steps of an execution; `RequestsAdvance` (`StepsLeft`: at most seven for a request)
adds that no request costs another one steps; `ExecutionsAdvance` has a lexicographic order
(attempt, phase, what is left of the sleep), since the power in `BaseDelay` means nothing to the provers, so that no bound of a
delay can be shown. They rule out cycles for every value of the constants. That something is always enabled until the end is checked by TLC, with the five properties.

Only model-checked: `OnlyLeakedSlotsBlock`, `ExecutionsEnd`, `RunEnds`, `RequestsEnd` and `BranchEnds`. The statements of the runs that end in a
counterexample are not theorems, but on the restricted constants that the theorems above name.

## 5. Running

    tlc -workers 2 -config Breaker.cfg MCCircuitBreaker        # and so on, see PROJECT.json
    tlapm CircuitBreakerProofs.tla                               # and so on for LoopRule and *Proofs

Each run takes seconds, `result_store` about a minute.

## 6. Plan

Done: breaker, client, graph, branch with its gate, measurement, ledger, store and readers, each with theorems.

Open, in this order:

1. Fan-out on the real client: branches of `PipelineGraph` as tasks of `DataForSEOClient`, to show what one open circuit does to
   the branches of two runs. The two state spaces multiply, so that needs a coarser client: one that is proved to be implemented by `DataForSEOClient`.
2. Pages: a client that walks through pages beside rechecks, which change the scores that order them.
3. Domains of profiles (`domain/entities/profile.py:16-29`) and of citations; the fallback planner's queries; the resolution of
   the analysis's references (`analysis.py:33-39`).
4. `BaseDelay` by repeated multiplication, a loop for `LoopRule`: then a sleep is bounded by the cap and its jitter for every policy, and
   the order of `ExecutionsAdvance` becomes a number of ticks.
5. A branch as a refinement of what `PipelineGraph!Retrieve` assumes of one, stated like `EngineKeepsContract`.

## 7. Not modelled

- The HTTP API: stateless translation; concurrency of requests is in `ResultStore` and `ResultReaders`.
- The model behind the LLM adapter: the graph sees a value or an `LLMError`, the gate any batch of calls. Prompts are text; the factory is construction.
- Mock transport, fake LLM, demo responders, migrations, logging and tracing: no behaviour the properties depend on.
- Construction at startup (`composition/`): only its result, one client and one engine for all requests, is assumed.
- Wording and layout of the report; tokens and latency metrics; the mapping of the tables' columns, which copies field by field (how a save updates them is modelled).
- JSON shapes of the payloads, evidence, and the domain matching of citations: an item is the profile's own or it is not.
- Pages after the first, and the order of items in a page.
