------------------------- MODULE MeasurementProofs -------------------------
(***************************************************************************)
(* What is proved of the measurement of a sub-query, for any number of     *)
(* results and all values that payloads may hold: what the loop over the   *)
(* observations finds, what a stored query says and how it scores, and     *)
(* which values alone make it raise.                                       *)
(*                                                                         *)
(* The inductive invariant is that a query, once made, is the one that the *)
(* observations make: nothing is observed after it.  The properties follow *)
(* from what BestVisibility says of any sequence of observations, which is *)
(* an induction over that sequence: LoopRule, with LookHolds.              *)
(***************************************************************************)
EXTENDS Measurement, TLAPS

\* The invariant of the loop of best_visibility: whether one of the first n observations
\* looked, and the best rank of those that give one.
LookHolds(c, obs, n, best) ==
  /\ best.saw = \E i \in 1 .. n : obs[i].status # "unknown"
  /\ best.position = Missing => \A i \in 1 .. n : obs[i].position = Missing
  /\ best.position # Missing =>
       /\ \E i \in 1 .. n : obs[i].position = best.position
       /\ \A i \in 1 .. n : obs[i].position # Missing => best.position <= obs[i].position

LookRound(c, best, o) == Look(best, o)

Looking == INSTANCE LoopRule WITH Start <- Unseen, Body <- LookRound, Holds <- LookHolds

LEMMA LeastExists ==
  ASSUME NEW S \in SUBSET Nat, S # {}
  PROVE  Min(S) \in S
<1>1. \E x \in S : \A y \in S : x <= y
  BY Looking!LeastNumber
<1> QED BY <1>1 DEF Min

-----------------------------------------------------------------------------
(* What an observation may hold *)

\* Only what was found can have a rank.
Observation ==
  {o \in [status : Status, position : RankGiven \cup {Missing},
          volume : VolumeGiven \cup {Missing}, index : IndexGiven \cup {Missing}] :
     o.status # "visible" => o.position = Missing}

LEMMA ObserveObserves ==
  ASSUME NEW ranked \in Items, NEW looked \in BOOLEAN,
         NEW volume \in VolumeGiven \cup {Missing}, NEW index \in IndexGiven \cup {Missing}
  PROVE  Observe(ranked, looked, volume, index) \in Observation
<1> DEFINE own == {i \in DOMAIN ranked : ranked[i].own}
<1>1. PICK n \in Nat : ranked \in [1 .. n -> Item]
  BY MeasurementAssumption DEF Items
<1>2. own # {} => ranked[Min(own)].rank \in RankGiven \cup {Missing}
  <2> SUFFICES ASSUME own # {} PROVE ranked[Min(own)].rank \in RankGiven \cup {Missing}
    OBVIOUS
  <2>1. own \in SUBSET Nat /\ own \subseteq 1 .. n
    BY <1>1
  <2> HIDE DEF own
  <2>2. Min(own) \in 1 .. n
    BY <2>1, LeastExists
  <2> QED BY <1>1, <2>2 DEF Item
<1> DEFINE status == IF ~looked THEN "unknown" ELSE IF own = {} THEN "not_visible" ELSE "visible"
           position == IF looked /\ own # {} THEN ranked[Min(own)].rank ELSE Missing
<1>3. /\ status \in Status /\ position \in RankGiven \cup {Missing}
      /\ status # "visible" => position = Missing
  BY <1>2 DEF Status
<1> HIDE DEF status, position
<1>4. [status |-> status, position |-> position, volume |-> volume, index |-> index] \in Observation
  BY <1>3 DEF Observation
<1> QED BY <1>4 DEF Observe, status, position

Parses == OrganicSerp \cup Citations \cup KeywordMetrics

LEMMA ParsesObserve == Parses \subseteq Observation
<1> SUFFICES ASSUME NEW o \in Parses PROVE o \in Observation
  OBVIOUS
<1>1. CASE o \in OrganicSerp
  <2>1. PICK ranked \in Items : o = Observe(ranked, TRUE, Missing, Missing)
    BY <1>1, Zenon DEF OrganicSerp
  <2> QED BY <2>1, ObserveObserves
<1>2. CASE o \in Citations
  <2>1. PICK cited \in Items : o = Observe(cited, cited # << >>, Missing, Missing)
    BY <1>2, Zenon DEF Citations
  <2>2. (cited # << >>) \in BOOLEAN
    OBVIOUS
  <2> QED BY <2>1, <2>2, ObserveObserves
<1>3. CASE o \in KeywordMetrics
  <2>1. PICK record \in [volume : VolumeGiven \cup {Missing}, index : IndexGiven \cup {Missing}] :
          o = Observe(<< >>, FALSE, record.volume, record.index)
    BY <1>3, Zenon DEF KeywordMetrics
  <2>2. << >> \in Items
    <3>1. << >> \in [1 .. 0 -> Item]
      OBVIOUS
    <3>2. 0 \in 0 .. MaxItems
      BY MeasurementAssumption
    <3> QED BY <3>1, <3>2, Zenon DEF Items
  <2> QED BY <2>1, <2>2, ObserveObserves
<1> QED BY <1>1, <1>2, <1>3 DEF Parses

LEMMA FirstGivenIsGiven ==
  ASSUME NEW n \in Nat, NEW values, DOMAIN values = 1 .. n
  PROVE  FirstGiven(values) = Missing \/ \E i \in 1 .. n : FirstGiven(values) = values[i]
<1> DEFINE given == {i \in DOMAIN values : values[i] # Missing}
<1>1. given \in SUBSET Nat
  OBVIOUS
<1>2. given # {} => Min(given) \in given
  <2> HIDE DEF given
  <2> QED BY <1>1, LeastExists
<1> QED BY <1>2 DEF FirstGiven

\* A size that is given is one that an observation gives.
LEMMA SizesAreGiven ==
  ASSUME NEW obs \in Seq(Observation)
  PROVE  /\ SearchVolume(obs) = Missing \/ \E i \in DOMAIN obs : SearchVolume(obs) = obs[i].volume
         /\ CompetitionIndex(obs) = Missing
              \/ \E i \in DOMAIN obs : CompetitionIndex(obs) = obs[i].index
<1>1. DOMAIN obs = 1 .. Len(obs) /\ Len(obs) \in Nat
  OBVIOUS
<1>2. SearchVolume(obs) = Missing \/ \E i \in DOMAIN obs : SearchVolume(obs) = obs[i].volume
  <2> DEFINE volumes == [i \in DOMAIN obs |-> obs[i].volume]
  <2>1. \/ FirstGiven(volumes) = Missing
        \/ \E i \in 1 .. Len(obs) : FirstGiven(volumes) = volumes[i]
    BY <1>1, FirstGivenIsGiven
  <2> QED BY <1>1, <2>1 DEF SearchVolume
<1>3. CompetitionIndex(obs) = Missing \/ \E i \in DOMAIN obs : CompetitionIndex(obs) = obs[i].index
  <2> DEFINE indices == [i \in DOMAIN obs |-> obs[i].index]
  <2>1. \/ FirstGiven(indices) = Missing
        \/ \E i \in 1 .. Len(obs) : FirstGiven(indices) = indices[i]
    BY <1>1, FirstGivenIsGiven
  <2> QED BY <1>1, <2>1 DEF CompetitionIndex
<1> QED BY <1>2, <1>3

-----------------------------------------------------------------------------
(* What the loop over the observations finds *)

LEMMA LookKeeps ==
  ASSUME NEW obs \in Seq(Observation), NEW c, NEW best, NEW i \in 1 .. Len(obs),
         LookHolds(c, obs, i - 1, best)
  PROVE  LookHolds(c, obs, i, Look(best, obs[i]))
<1> DEFINE o == obs[i]
           now == Look(best, o)
<1>1. \A j \in 1 .. Len(obs) : /\ obs[j].position \in Int
                               /\ obs[j].status # "visible" => obs[j].position = Missing
  BY MeasurementAssumption DEF Observation, Missing
<1>2. 1 .. i = (1 .. i - 1) \cup {i}
  OBVIOUS
<1>3. /\ now.saw = (best.saw \/ o.status # "unknown")
      /\ now.position = IF o.position # Missing
                             /\ (best.position = Missing \/ o.position < best.position)
                        THEN o.position ELSE best.position
  BY <1>1 DEF Look
<1> HIDE DEF now
<1>4. now.saw = \E j \in 1 .. i : obs[j].status # "unknown"
  BY <1>2, <1>3 DEF LookHolds
<1>5. now.position = Missing => \A j \in 1 .. i : obs[j].position = Missing
  BY <1>2, <1>3 DEF LookHolds
<1>6. now.position # Missing => \E j \in 1 .. i : obs[j].position = now.position
  BY <1>2, <1>3 DEF LookHolds
<1>7. now.position # Missing =>
        \A j \in 1 .. i : obs[j].position # Missing => now.position <= obs[j].position
  <2> SUFFICES ASSUME now.position # Missing, NEW j \in 1 .. i, obs[j].position # Missing
               PROVE  now.position <= obs[j].position
    OBVIOUS
  <2>1. CASE best.position = Missing
    BY <1>1, <1>2, <1>3, <2>1 DEF LookHolds
  <2>2. CASE best.position # Missing
    <3>1. best.position \in Int /\ o.position \in Int
      BY <1>1, <2>2 DEF LookHolds
    <3> QED BY <1>1, <1>2, <1>3, <2>2, <3>1 DEF LookHolds
  <2> QED BY <2>1, <2>2
<1> QED BY <1>4, <1>5, <1>6, <1>7 DEF LookHolds, now

LEMMA LookedFinds ==
  ASSUME NEW obs \in Seq(Observation)
  PROVE  LookHolds({}, obs, Len(obs), Looked(obs))
<1>1. LookHolds({}, obs, 0, Unseen)
  BY DEF LookHolds, Unseen
<1>2. \A v : \A i \in 1 .. Len(obs) :
        LookHolds({}, obs, i - 1, v) => LookHolds({}, obs, i, LookRound({}, v, obs[i]))
  BY LookKeeps DEF LookRound
<1>3. Len(obs) \in Nat
  OBVIOUS
<1>4. LookHolds({}, obs, Len(obs), Looking!Loop({}, obs))
  BY <1>1, <1>2, <1>3, Looking!LoopKeeps
<1>5. Looking!Loop({}, obs) = Looked(obs)
  BY DEF Looking!Loop, Looked, LookRound
<1> QED BY <1>4, <1>5

\* The verdict on any sequence of observations: visible if one is, at the best rank that
\* one gives; unknown if none looked.
LEMMA VerdictOnObservations ==
  ASSUME NEW obs \in Seq(Observation)
  PROVE  LET v == BestVisibility(obs) IN
         /\ v = [status |-> v.status, position |-> v.position] /\ v.status \in Status
         /\ v.status = "visible" <=> \E i \in DOMAIN obs : obs[i].status = "visible"
         /\ v.status = "unknown" <=> \A i \in DOMAIN obs : obs[i].status = "unknown"
         /\ v.status # "visible" => v.position = Missing
         /\ v.status = "visible" =>
              \/ v.position = 1 /\ \A i \in DOMAIN obs : obs[i].position = Missing
              \/ /\ v.position # Missing
                 /\ \E i \in DOMAIN obs : obs[i].position = v.position
                 /\ \A i \in DOMAIN obs :
                      obs[i].position # Missing => v.position <= obs[i].position
<1> DEFINE best == Looked(obs)
           v == BestVisibility(obs)
           found == \E i \in DOMAIN obs : obs[i].status = "visible"
<1>1. DOMAIN obs = 1 .. Len(obs)
  OBVIOUS
<1>2. \A i \in DOMAIN obs : /\ obs[i].status \in Status
                            /\ obs[i].status # "visible" => obs[i].position = Missing
  BY DEF Observation
<1>3. LookHolds({}, obs, Len(obs), best)
  BY LookedFinds
<1>4. v = IF ~best.saw THEN [status |-> "unknown", position |-> Missing]
          ELSE IF best.position # Missing THEN [status |-> "visible", position |-> best.position]
          ELSE IF found THEN [status |-> "visible", position |-> 1]
          ELSE [status |-> "not_visible", position |-> Missing]
  BY DEF BestVisibility
<1> HIDE DEF best, v
<1>5. CASE ~best.saw
  BY <1>1, <1>2, <1>3, <1>4, <1>5 DEF LookHolds, Status, v
<1>6. CASE best.saw /\ best.position # Missing
  BY <1>1, <1>2, <1>3, <1>4, <1>6 DEF LookHolds, Status, v
<1>7. CASE best.saw /\ best.position = Missing /\ found
  BY <1>1, <1>2, <1>3, <1>4, <1>7 DEF LookHolds, Status, v, Missing
<1>8. CASE best.saw /\ best.position = Missing /\ ~found
  BY <1>1, <1>2, <1>3, <1>4, <1>8 DEF LookHolds, Status, v
<1>9. best.saw \in BOOLEAN
  BY <1>3 DEF LookHolds
<1> QED BY <1>5, <1>6, <1>7, <1>8, <1>9

-----------------------------------------------------------------------------
(* The score *)

\* Whatever the demand and the difficulty, a query nobody looked for scores between the
\* same query ranked first and the same query found absent.
LEMMA UnknownIsBetween ==
  ASSUME NEW volume \in VolumeGiven \cup {0}, NEW difficulty \in 0 .. 100, NEW p
  PROVE  LET score(v) == OpportunityScore(volume, difficulty, v)
             unknown == [status |-> "unknown", position |-> p]
         IN /\ score(unknown) < score([status |-> "not_visible", position |-> Missing])
            /\ score(unknown) > score([status |-> "visible", position |-> 1])
<1>1. DemandOf[volume] \in 0 .. 1000
  BY MeasurementAssumption
<1>2. /\ VisibilityGap([status |-> "unknown", position |-> p]) = 5
      /\ VisibilityGap([status |-> "not_visible", position |-> Missing]) = 10
      /\ VisibilityGap([status |-> "visible", position |-> 1]) = 0
  BY DEF VisibilityGap, AtLeastZero, AtMost
<1> DEFINE d == DemandOf[volume]
           score(gap) == AtMost(MaxScore, AtLeastZero(35 * d + 250 * (100 - difficulty) + 4000 * gap))
<1>3. score(0) < score(5) /\ score(5) < score(10)
  <2>1. d \in 0 .. 1000
    BY <1>1
  <2> HIDE DEF d
  <2> QED BY <2>1 DEF AtLeastZero, AtMost, MaxScore
<1> QED BY <1>2, <1>3 DEF OpportunityScore

LEMMA Clamped ==
  ASSUME NEW m \in Nat, NEW n \in Int
  PROVE  AtMost(m, AtLeastZero(n)) \in 0 .. m
BY DEF AtMost, AtLeastZero

\* The score is a number from 0 to 100.
LEMMA ScoreInRange ==
  ASSUME NEW volume \in VolumeGiven \cup {0}, NEW difficulty \in 0 .. 100,
         NEW v, v.status \in Status, v.status = "visible" => v.position \in Int
  PROVE  OpportunityScore(volume, difficulty, v) \in 0 .. MaxScore
<1>1. DemandOf[volume] \in 0 .. 1000
  BY MeasurementAssumption
<1>2. VisibilityGap(v) \in 0 .. 10
  <2>1. CASE v.status = "visible"
    <3>1. v.position - 1 \in Int
      BY <2>1
    <3>2. AtMost(10, AtLeastZero(v.position - 1)) \in 0 .. 10
      BY <3>1, Clamped
    <3> QED BY <2>1, <3>2 DEF VisibilityGap
  <2> QED BY <2>1 DEF VisibilityGap, Status
<1> DEFINE n == 35 * DemandOf[volume] + 250 * (100 - difficulty) + 4000 * VisibilityGap(v)
<1>3. n \in Int
  <2>1. \A d, m, g \in Int : 35 * d + 250 * (100 - m) + 4000 * g \in Int
    OBVIOUS
  <2>2. DemandOf[volume] \in Int /\ difficulty \in Int /\ VisibilityGap(v) \in Int
    BY <1>1, <1>2
  <2> HIDE DEF n
  <2>3. n = 35 * DemandOf[volume] + 250 * (100 - difficulty) + 4000 * VisibilityGap(v)
    BY DEF n
  <2> QED BY <2>1, <2>2, <2>3
<1> HIDE DEF n
<1>4. MaxScore \in Nat
  BY DEF MaxScore
<1>5. AtMost(MaxScore, AtLeastZero(n)) \in 0 .. MaxScore
  BY <1>3, <1>4, Clamped
<1> QED BY <1>5 DEF OpportunityScore, n

-----------------------------------------------------------------------------
(* The query that observations make *)

LEMMA QueryOfObservations ==
  ASSUME NEW obs \in Seq(Observation), observations = obs,
         NEW q, q = BuildDiscoveredQuery, q.made = "query"
  PROVE  LET v == BestVisibility(obs) IN
         /\ q.status = v.status /\ q.position = v.position
         /\ q.volume \in VolumeGiven \cup {0} /\ q.difficulty \in 0 .. 100
         /\ q.score = OpportunityScore(q.volume, q.difficulty, v)
         /\ ~Refused(q.volume, q.difficulty, v)
<1> DEFINE v == BestVisibility(obs)
           volume == Or(SearchVolume(obs), 0)
           difficulty == Or(CompetitionIndex(obs), 50)
<1>1. volume \in VolumeGiven \cup {0}
  BY SizesAreGiven DEF Or, Observation
<1> HIDE DEF v, volume, difficulty
<1>2. q = IF Refused(volume, difficulty, v) THEN Raised
          ELSE [made |-> "query", status |-> v.status, position |-> v.position,
                volume |-> volume, difficulty |-> difficulty,
                score |-> OpportunityScore(volume, difficulty, v)]
  BY DEF BuildDiscoveredQuery, v, volume, difficulty
<1>3. ~Refused(volume, difficulty, v)
  BY <1>2 DEF Raised
<1>4. difficulty \in 0 .. 100
  BY <1>3 DEF Refused
<1> QED BY <1>1, <1>2, <1>3, <1>4 DEF v

\* A value that no volume, index or rank may have
BadValue(o) ==
  \/ o.volume # Missing /\ o.volume < 0
  \/ o.index # Missing /\ o.index \notin 0 .. 100
  \/ o.position # Missing /\ o.position < 1

\* Only such a value makes the query raise.
LEMMA RaisedByBadValue ==
  ASSUME NEW obs \in Seq(Observation), observations = obs, BuildDiscoveredQuery = Raised
  PROVE  \E i \in DOMAIN obs : BadValue(obs[i])
<1> DEFINE v == BestVisibility(obs)
           volume == Or(SearchVolume(obs), 0)
           difficulty == Or(CompetitionIndex(obs), 50)
<1>1. Refused(volume, difficulty, v)
  BY DEF BuildDiscoveredQuery, Raised
<1>2. CASE volume < 0
  BY <1>2, SizesAreGiven DEF Or, BadValue, Missing
<1>3. CASE difficulty \notin 0 .. 100
  <2> DEFINE index == CompetitionIndex(obs)
  <2>1. index # Missing /\ difficulty = index
    BY <1>3 DEF Or
  <2>2. PICK i \in DOMAIN obs : index = obs[i].index
    BY <2>1, SizesAreGiven
  <2> QED BY <1>3, <2>1, <2>2 DEF BadValue
<1>4. CASE v.status = "visible" /\ v.position < 1
  <2>1. v.position # 1
    BY <1>4
  <2>2. \E i \in DOMAIN obs : obs[i].position = v.position /\ v.position # Missing
    BY <1>4, <2>1, VerdictOnObservations
  <2> QED BY <1>4, <2>2 DEF BadValue
<1> HIDE DEF v, volume, difficulty
<1> QED BY <1>1, <1>2, <1>3, <1>4 DEF Refused

-----------------------------------------------------------------------------
(* The inductive invariant: nothing is observed after the query is made. *)

MeasureInv ==
  /\ results \in 0 .. MaxResults /\ Len(observations) <= results
  /\ observations \in Seq(Observation)
  /\ query \in {Pending, Dropped, BuildDiscoveredQuery}

LEMMA MeasureInvInit == Init => MeasureInv
BY MeasurementAssumption DEF Init, MeasureInv

LEMMA MeasureInvStep == ASSUME MeasureInv, [Next]_measureVars PROVE MeasureInv'
<1>1. CASE NormalizeOutcome
  <2>1. observations' = observations \/ \E o \in Observation : observations' = Append(observations, o)
    BY <1>1, ParsesObserve DEF NormalizeOutcome, Parses
  <2>2. observations' \in Seq(Observation) /\ Len(observations') <= Len(observations) + 1
    BY <2>1 DEF MeasureInv
  <2>3. results' \in 0 .. MaxResults /\ results' = results + 1 /\ query' = Pending
    BY <1>1, MeasurementAssumption DEF NormalizeOutcome, MeasureInv
  <2> QED BY <2>2, <2>3 DEF MeasureInv
<1>2. CASE Normalize
  <2>1. observations' = observations /\ results' = results
    BY <1>2 DEF Normalize
  <2>2. BuildDiscoveredQuery' = BuildDiscoveredQuery
    BY <2>1 DEF BuildDiscoveredQuery
  <2>3. query' \in {Dropped, BuildDiscoveredQuery}
    BY <1>2 DEF Normalize
  <2> QED BY <2>1, <2>2, <2>3 DEF MeasureInv
<1>3. CASE UNCHANGED measureVars
  <2>1. BuildDiscoveredQuery' = BuildDiscoveredQuery
    BY <1>3 DEF measureVars, BuildDiscoveredQuery
  <2> QED BY <1>3, <2>1 DEF measureVars, MeasureInv
<1> QED BY <1>1, <1>2, <1>3 DEF Next

LEMMA MeasureInvariant == Spec => []MeasureInv
BY MeasureInvInit, MeasureInvStep, PTL DEF Spec

\* What a stored query says, in a state of the invariant.
LEMMA StoredQuery ==
  ASSUME MeasureInv, query.made = "query"
  PROVE  LET v == BestVisibility(observations) IN
         /\ query.status = v.status /\ query.position = v.position
         /\ query.volume \in VolumeGiven \cup {0} /\ query.difficulty \in 0 .. 100
         /\ query.score = OpportunityScore(query.volume, query.difficulty, v)
         /\ ~Refused(query.volume, query.difficulty, v)
<1>1. query = BuildDiscoveredQuery /\ observations \in Seq(Observation)
  BY DEF MeasureInv, Pending, Dropped
<1> QED BY <1>1, QueryOfObservations

LEMMA MadeOfQuery == BuildDiscoveredQuery.made \in {"raised", "query"}
BY DEF BuildDiscoveredQuery, Raised

-----------------------------------------------------------------------------
(* The theorems *)

\* Whatever the payloads hold, what is stored has the shape that entity and table ask
\* for: a score from 0 to 1, and a position exactly when visible (normalization.py:286).
THEOREM MeasureTypeCorrect == Spec => []MeasureTypeOK
<1>1. ASSUME MeasureInv PROVE MeasureTypeOK
  <2>1. results \in 0 .. MaxResults /\ Len(observations) <= results
    BY <1>1 DEF MeasureInv
  <2>2. query.made \in {"pending", "dropped", "raised", "query"}
    BY <1>1, MadeOfQuery DEF MeasureInv, Pending, Dropped
  <2>3. ASSUME query.made = "query"
        PROVE  /\ query.status \in Status /\ query.score \in 0 .. MaxScore
               /\ query.status = "visible" <=> query.position \in Nat \ {0}
               /\ query.status # "visible" => query.position = Missing
    <3> DEFINE v == BestVisibility(observations)
    <3>1. /\ query.status = v.status /\ query.position = v.position
          /\ query.volume \in VolumeGiven \cup {0} /\ query.difficulty \in 0 .. 100
          /\ query.score = OpportunityScore(query.volume, query.difficulty, v)
          /\ ~Refused(query.volume, query.difficulty, v)
      BY <1>1, <2>3, StoredQuery
    <3>2. /\ v.status \in Status
          /\ v.status # "visible" => v.position = Missing
          /\ v.status = "visible" =>
               v.position = 1 \/ \E i \in DOMAIN observations : observations[i].position = v.position
      BY <1>1, VerdictOnObservations DEF MeasureInv
    <3>3. v.status = "visible" => v.position \in Int
      BY <1>1, <3>2, MeasurementAssumption DEF MeasureInv, Observation, Missing
    <3> HIDE DEF v
    <3>4. query.score \in 0 .. MaxScore
      BY <3>1, <3>2, <3>3, ScoreInRange
    <3>5. v.status = "visible" => v.position >= 1
      BY <3>1, <3>3 DEF Refused
    <3>6. Missing \notin Nat
      BY DEF Missing
    <3> QED BY <3>1, <3>2, <3>3, <3>4, <3>5, <3>6
  <2> QED BY <2>1, <2>2, <2>3 DEF MeasureTypeOK
<1> QED BY <1>1, MeasureInvariant, PTL

\* The loop of best_visibility, over any number of observations in any order, comes to the
\* verdict of the set of them (normalized.py:68).
THEOREM VerdictsAreOfEvidence == Spec => []VerdictOfEvidence
<1>1. ASSUME MeasureInv PROVE VerdictOfEvidence
  <2> SUFFICES ASSUME query.made = "query"
               PROVE  /\ query.status = "visible" <=> \E o \in Seen : o.status = "visible"
                      /\ query.status = "unknown" <=> \A o \in Seen : o.status = "unknown"
                      /\ query.status = "visible" =>
                           IF Ranks = {} THEN query.position = 1
                           ELSE query.position \in Ranks /\ \A p \in Ranks : query.position <= p
    BY DEF VerdictOfEvidence
  <2> DEFINE v == BestVisibility(observations)
  <2>1. query.status = v.status /\ query.position = v.position
    BY <1>1, StoredQuery
  <2>2. /\ v.status = "visible" <=> \E i \in DOMAIN observations : observations[i].status = "visible"
        /\ v.status = "unknown" <=> \A i \in DOMAIN observations : observations[i].status = "unknown"
        /\ v.status = "visible" =>
             \/ v.position = 1 /\ \A i \in DOMAIN observations : observations[i].position = Missing
             \/ /\ v.position # Missing
                /\ \E i \in DOMAIN observations : observations[i].position = v.position
                /\ \A i \in DOMAIN observations :
                     observations[i].position # Missing => v.position <= observations[i].position
    BY <1>1, VerdictOnObservations DEF MeasureInv
  <2> HIDE DEF v
  <2>3. \A p : p \in Ranks <=> \E i \in DOMAIN observations :
                                 observations[i].position = p /\ p # Missing
    <3>1. \A i \in DOMAIN observations :
            observations[i].status # "visible" => observations[i].position = Missing
      BY <1>1 DEF MeasureInv, Observation
    <3> QED BY <3>1 DEF Ranks, Seen
  <2>4. query.status = "visible" =>
          IF Ranks = {} THEN query.position = 1
          ELSE query.position \in Ranks /\ \A p \in Ranks : query.position <= p
    BY <2>1, <2>2, <2>3
  <2>5. /\ query.status = "visible" <=> \E o \in Seen : o.status = "visible"
        /\ query.status = "unknown" <=> \A o \in Seen : o.status = "unknown"
    BY <2>1, <2>2 DEF Seen
  <2> QED BY <2>4, <2>5
<1> QED BY <1>1, MeasureInvariant, PTL

\* However many results there are and whatever they say: no failed retrieval is
\* laundered into an opportunity (opportunity_scoring.py:26).
THEOREM UnknownScoresLess == Spec => []UnknownIsNoOpportunity
<1>1. ASSUME MeasureInv, query.made = "query", query.status = "unknown"
      PROVE  LET score(v) == OpportunityScore(query.volume, query.difficulty, v) IN
             /\ query.score < score([status |-> "not_visible", position |-> Missing])
             /\ query.score > score([status |-> "visible", position |-> 1])
  <2> DEFINE v == BestVisibility(observations)
  <2>1. /\ query.status = v.status
        /\ query.volume \in VolumeGiven \cup {0} /\ query.difficulty \in 0 .. 100
        /\ query.score = OpportunityScore(query.volume, query.difficulty, v)
    BY <1>1, StoredQuery
  <2>2. v = [status |-> v.status, position |-> v.position]
    BY <1>1, VerdictOnObservations DEF MeasureInv
  <2> HIDE DEF v
  <2>3. v = [status |-> "unknown", position |-> v.position]
    BY <1>1, <2>1, <2>2
  <2> QED BY <2>1, <2>3, UnknownIsBetween
<1>2. MeasureInv => UnknownIsNoOpportunity
  BY <1>1 DEF UnknownIsNoOpportunity
<1> QED BY <1>2, MeasureInvariant, PTL

\* Which payloads stop a run: only one with a volume below 0, an index outside of 0-100 or
\* a rank below 1, values that the parsers let through (normalization.py:194).
RaisedHasCulprit == query.made = "raised" => \E o \in Seen : BadValue(o)

THEOREM OnlyBadValuesRaise == Spec => []RaisedHasCulprit
<1>1. ASSUME MeasureInv, query.made = "raised" PROVE \E o \in Seen : BadValue(o)
  <2>1. query = BuildDiscoveredQuery
    BY <1>1 DEF MeasureInv, Pending, Dropped
  <2>2. BuildDiscoveredQuery = Raised
    BY <1>1, <2>1 DEF BuildDiscoveredQuery
  <2>3. \E i \in DOMAIN observations : BadValue(observations[i])
    BY <1>1, <2>2, RaisedByBadValue DEF MeasureInv
  <2> QED BY <2>3 DEF Seen
<1>2. MeasureInv => RaisedHasCulprit
  BY <1>1 DEF RaisedHasCulprit
<1> QED BY <1>2, MeasureInvariant, PTL

\* A service that keeps to the documented ranges of its values never makes the node raise.
THEOREM WellFormedContained ==
  ASSUME VolumeGiven \subseteq Nat, IndexGiven \subseteq 0 .. 100, RankGiven \subseteq Nat \ {0}
  PROVE  Spec => []BadPayloadContained
<1>1. ASSUME NEW o \in Observation PROVE ~BadValue(o)
  <2>1. /\ o.volume # Missing => o.volume \in Nat
        /\ o.index # Missing => o.index \in 0 .. 100
        /\ o.position # Missing => o.position \in Nat \ {0}
    BY DEF Observation
  <2> QED BY <2>1 DEF BadValue
<1>2. ASSUME MeasureInv, RaisedHasCulprit PROVE BadPayloadContained
  BY <1>1, <1>2 DEF MeasureInv, RaisedHasCulprit, Seen, BadPayloadContained
<1> QED BY <1>2, MeasureInvariant, OnlyBadValuesRaise, PTL
=============================================================================
