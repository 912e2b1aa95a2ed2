---------------------------- MODULE Measurement ----------------------------
(***************************************************************************)
(* agents/nodes/normalization.py, agents/contracts/normalized.py and       *)
(* domain/services/opportunity_scoring.py: the raw results of one branch   *)
(* become observations one after the other, and the observations become    *)
(* the query that is stored.                                               *)
(*                                                                         *)
(* A domain of a result is the profile's own or another's.  A score counts *)
(* hundred-thousandths, its rounding to four digits is left out; the       *)
(* logarithm of the demand is a table, DemandOf.                           *)
(***************************************************************************)
EXTENDS Integers, SequencesExt

CONSTANTS
  MaxResults,    \* bound: the results of a branch
  MaxItems,      \* bound: the items of a result
  RankGiven,     \* the rank_absolute an organic item may carry, when it has one
  VolumeGiven,   \* the search_volume of a keyword record, when it has one
  IndexGiven,    \* the competition_index of a keyword record, when it has one
  DemandOf       \* demand_component in thousandths, for the volumes given and for 0

Missing == -1000   \* None

ASSUME MeasurementAssumption ==
  /\ MaxResults \in Nat \ {0} /\ MaxItems \in Nat
  /\ RankGiven \cup VolumeGiven \cup IndexGiven \subseteq Int \ {Missing}
  /\ DemandOf \in [VolumeGiven \cup {0} -> 0 .. 1000]

VARIABLES
  results,       \* how many results were looked at
  observations,  \* those that could be parsed
  query          \* the DiscoveredQuery, or where its making stands

measureVars == <<results, observations, query>>

Status == {"visible", "not_visible", "unknown"}
Pending == [made |-> "pending"]
Dropped == [made |-> "dropped"]   \* no observation: not usable
Raised == [made |-> "raised"]     \* DomainValidationError, which the node lets out

Init ==
  /\ results = 0
  /\ observations = << >>
  /\ query = Pending

-----------------------------------------------------------------------------
(* The parsers *)

Item == [own : BOOLEAN, rank : RankGiven \cup {Missing}]
Items == UNION {[1 .. n -> Item] : n \in 0 .. MaxItems}

\* _observe: the first item of the own domain decides, ranked or not.
Observe(ranked, looked, volume, index) ==
  LET own == {i \in DOMAIN ranked : ranked[i].own} IN
  [status |-> IF ~looked THEN "unknown" ELSE IF own = {} THEN "not_visible" ELSE "visible",
   position |-> IF looked /\ own # {} THEN ranked[Min(own)].rank ELSE Missing,
   volume |-> volume, index |-> index]

OrganicSerp == {Observe(ranked, TRUE, Missing, Missing) : ranked \in Items}

\* parse_ai_overview and parse_llm_visibility: citations have no rank, and no citation
\* at all is missing data.
Citations == {Observe(cited, cited # << >>, Missing, Missing) :
                cited \in {s \in Items : \A i \in DOMAIN s : s[i].rank = Missing}}

KeywordMetrics == {Observe(<< >>, FALSE, record.volume, record.index) :
                     record \in [volume : VolumeGiven \cup {Missing},
                                 index : IndexGiven \cup {Missing}]}

\* normalize_outcome: a result that does not parse is logged and passed over.
NormalizeOutcome ==
  /\ query = Pending
  /\ results < MaxResults
  /\ results' = results + 1
  /\ \/ \E o \in OrganicSerp \cup Citations \cup KeywordMetrics :
          observations' = Append(observations, o)
     \/ UNCHANGED observations
  /\ UNCHANGED query

-----------------------------------------------------------------------------
(* normalized.py: the observations are merged *)

\* The loop of best_visibility, over (best_position, saw_result).
Unseen == [position |-> Missing, saw |-> FALSE]
Look(best, o) ==
  [position |-> IF o.status = "visible" /\ o.position # Missing
                   /\ (best.position = Missing \/ o.position < best.position)
                THEN o.position ELSE best.position,
   saw |-> best.saw \/ o.status # "unknown"]
Looked(obs) ==
  LET best[i \in 0 .. Len(obs)] == IF i = 0 THEN Unseen ELSE Look(best[i - 1], obs[i])
  IN best[Len(obs)]

\* mutant: an unranked citation has no position
BestVisibilityUnranked(obs) ==
  LET best == Looked(obs) IN
  IF ~best.saw THEN [status |-> "unknown", position |-> Missing]
  ELSE IF \E i \in DOMAIN obs : obs[i].status = "visible"
  THEN [status |-> "visible", position |-> best.position]
  ELSE [status |-> "not_visible", position |-> Missing]

\* mutant: the last observation that looked decides
BestVisibilityLast(obs) ==
  LET looked == {i \in DOMAIN obs : obs[i].status # "unknown"}
  IN IF looked = {} THEN [status |-> "unknown", position |-> Missing]
     ELSE [status |-> obs[Max(looked)].status, position |-> obs[Max(looked)].position]

BestVisibility(obs) ==
  LET best == Looked(obs) IN
  IF ~best.saw THEN [status |-> "unknown", position |-> Missing]
  ELSE IF best.position # Missing THEN [status |-> "visible", position |-> best.position]
  ELSE IF \E i \in DOMAIN obs : obs[i].status = "visible"
  THEN [status |-> "visible", position |-> 1]
  ELSE [status |-> "not_visible", position |-> Missing]

FirstGiven(values) ==
  LET given == {i \in DOMAIN values : values[i] # Missing} IN
  IF given = {} THEN Missing ELSE values[Min(given)]

SearchVolume(obs) == FirstGiven([i \in DOMAIN obs |-> obs[i].volume])
CompetitionIndex(obs) == FirstGiven([i \in DOMAIN obs |-> obs[i].index])

\* `x or default` takes 0 for missing, too.
Or(x, default) == IF x \in {Missing, 0} THEN default ELSE x

-----------------------------------------------------------------------------
(* opportunity_scoring.py *)

AtLeastZero(n) == IF n < 0 THEN 0 ELSE n
AtMost(m, n) == IF n > m THEN m ELSE n

\* mutant: nobody looked counts as absent
VisibilityGapOptimist(v) ==
  IF v.status = "visible" THEN AtMost(10, AtLeastZero(v.position - 1)) ELSE 10

\* In tenths: POSITION_HORIZON is 10, and UNKNOWN_VISIBILITY_GAP a half.
VisibilityGap(v) ==
  IF v.status = "not_visible" THEN 10
  ELSE IF v.status = "unknown" THEN 5
  ELSE AtMost(10, AtLeastZero(v.position - 1))

\* mutant: weights that exceed 1, and no clamp
OpportunityScoreOver(volume, difficulty, v) ==
  45 * DemandOf[volume] + 250 * (100 - difficulty) + 4000 * VisibilityGap(v)

\* An OpportunityScore is from 0 to 1.
MaxScore == 100000

\* 0.35 demand + 0.25 attainability + 0.40 gap, clamped
OpportunityScore(volume, difficulty, v) ==
  AtMost(MaxScore, AtLeastZero(35 * DemandOf[volume] + 250 * (100 - difficulty)
                               + 4000 * VisibilityGap(v)))

\* What the value objects and the entity refuse.
Refused(volume, difficulty, v) ==
  \/ volume < 0
  \/ difficulty \notin 0 .. 100
  \/ v.status = "visible" /\ v.position < 1

BuildDiscoveredQuery ==
  LET v == BestVisibility(observations)
      volume == Or(SearchVolume(observations), 0)
      difficulty == Or(CompetitionIndex(observations), 50)
  IN IF Refused(volume, difficulty, v) THEN Raised
     ELSE [made |-> "query", status |-> v.status, position |-> v.position,
           volume |-> volume, difficulty |-> difficulty,
           score |-> OpportunityScore(volume, difficulty, v)]

\* normalization_node: a branch has at least one result (RetrievalOutcome.succeeded).
Normalize ==
  /\ query = Pending
  /\ results > 0
  /\ query' = IF observations = << >> THEN Dropped ELSE BuildDiscoveredQuery
  /\ UNCHANGED <<results, observations>>

Next == NormalizeOutcome \/ Normalize

Spec == Init /\ [][Next]_measureVars

-----------------------------------------------------------------------------
(* Properties *)

Seen == {observations[i] : i \in DOMAIN observations}
Ranks == {o.position : o \in {s \in Seen : s.status = "visible"}} \ {Missing}

\* The shape of a stored query, which the entity and the table's constraints ask for.
MeasureTypeOK ==
  /\ results \in 0 .. MaxResults /\ Len(observations) <= results
  /\ query.made \in {"pending", "dropped", "raised", "query"}
  /\ query.made = "query" =>
       /\ query.status \in Status /\ query.score \in 0 .. MaxScore
       /\ query.status = "visible" <=> query.position \in Nat \ {0}
       /\ query.status # "visible" => query.position = Missing

\* The verdict is that of the set of observations, whatever their order: visible if
\* one found the domain, at the best rank any gives; absent only if one looked; and
\* otherwise unknown (normalized.py:71-74).
VerdictOfEvidence ==
  query.made = "query" =>
    /\ query.status = "visible" <=> \E o \in Seen : o.status = "visible"
    /\ query.status = "unknown" <=> \A o \in Seen : o.status = "unknown"
    /\ query.status = "visible" =>
         IF Ranks = {} THEN query.position = 1
         ELSE query.position \in Ranks /\ \A p \in Ranks : query.position <= p

\* "A retrieval failure must not be laundered into a maximum-opportunity signal"
\* (opportunity_scoring.py:26): a query nobody looked for scores below the same query
\* found absent, and above the same query ranked first.
UnknownIsNoOpportunity ==
  query.made = "query" /\ query.status = "unknown" =>
    LET score(v) == OpportunityScore(query.volume, query.difficulty, v) IN
    /\ query.score < score([status |-> "not_visible", position |-> Missing])
    /\ query.score > score([status |-> "visible", position |-> 1])

\* "One malformed payload degrades one observation. Everything else this branch
\* retrieved is still usable, and the run continues." (normalization.py:274)
BadPayloadContained == query.made # "raised"
=============================================================================
