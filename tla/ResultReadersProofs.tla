------------------------- MODULE ResultReadersProofs -------------------------
(***************************************************************************)
(* Theorems of ResultReaders for any number of writers and readers and any *)
(* stop of any of them: the writers behave as if they were alone, and what *)
(* a reader is told later includes what it was told before.                *)
(*                                                                         *)
(* What one statement saw is still true when the next one runs, because    *)
(* the tables only grow: runs are added, end once and stay ended, and the  *)
(* rows of an ended run stay as they are (StoreGrows).  The invariant is   *)
(* what each reader knows after each of its statements.                    *)
(***************************************************************************)
EXTENDS ResultReaders, ResultStoreProofs, FiniteSetTheorems

USE ReaderAssumption

-----------------------------------------------------------------------------
(* The writers beside readers *)

LEMMA ServiceStepIsStoreStep == [ServiceNext]_serviceVars => [Next]_storeVars
<1> SUFFICES ASSUME [ServiceNext]_serviceVars PROVE [Next]_storeVars
  OBVIOUS
<1>1. CASE Write
  BY <1>1 DEF Write, Next
<1>2. CASE ServiceCrash
  BY <1>2 DEF ServiceCrash, Next
<1>3. CASE \E q \in Reader : Read(q) \/ ReaderExit(q)
  BY <1>3 DEF Read, ReaderExit, GetProfile, CountForProfile, FindLatest,
              AverageOpportunityScore, CountQueries, ListQueries, ListRecommendations, Reads
<1>4. CASE UNCHANGED serviceVars
  BY <1>4 DEF serviceVars
<1> QED BY <1>1, <1>2, <1>3, <1>4 DEF ServiceNext

\* Readers take nothing away from the writers: whatever is proved of ResultStore, its
\* refinement of the ledger included, holds beside them.
LEMMA ReadersOnlyRead == ServiceSpec => Spec
<1>1. ServiceInit => Init
  BY DEF ServiceInit
<1> QED BY <1>1, ServiceStepIsStoreStep, PTL DEF ServiceSpec, Spec

\* Beside readers, too, the records keep the promise of ResultLedger.
THEOREM ServiceKeepsLedger == ServiceSpec => ImplementsLedger
BY ReadersOnlyRead, StoreImplementsLedger, PTL

-----------------------------------------------------------------------------
(* The tables grow *)

LEMMA StoreGrows ==
  ASSUME StoreInv, [Next]_storeVars, NEW r \in Run
  PROVE  /\ runs[r] # "absent" => runs'[r] # "absent"
         /\ runs[r] \in Terminal => runs'[r] = runs[r] /\ rows'[r] = rows[r]
         /\ rows[r] # {} => runs[r] \in Terminal /\ rows'[r] = rows[r]
<1>1. rows[r] # {} => runs[r] \in Terminal
  <2>1. runs[r] \in Terminal \cup {"absent", "running"}
    BY DEF StoreInv, StoreTypeOK
  <2>2. answer[r].status \in Terminal \cup {"none"}
    BY DEF StoreInv, StoreTypeOK
  <2>3. rows[r] # {} => runs[r] = answer[r].status
    BY DEF StoreInv, AllOrNothing
  <2> QED BY <2>1, <2>2, <2>3 DEF Terminal
<1>2. CASE \E s \in Run : RunPipeline(s)
  <2>1. PICK s \in Run : RunPipeline(s)
    BY <1>2
  <2>2. CASE s # r
    BY <1>1, <2>1, <2>2, RunFrame
  <2>3. CASE s = r
    <3>1. runs[r] \notin Terminal
      BY <2>1, <2>3 DEF RunPipeline, AnnounceRun, Execute, RecordOutcome, AddMany, CommitRun,
                         Goes, Ends, StoreInv, RunsInStep, Terminal
    <3>2. runs'[r] # "absent"  \/ runs'[r] = runs[r]
      <4>1. StoreInv'
        BY <2>1, StoreInvRun
      <4>2. phase'[r] # "idle"
        BY <2>1, <2>3 DEF RunPipeline, AnnounceRun, Execute, RecordOutcome, AddMany, CommitRun,
                          Goes, Ends, StoreInv, StoreTypeOK, Request, Ended
      <4> QED BY <4>1, <4>2 DEF StoreInv, RunsInStep
    <3> QED BY <1>1, <3>1, <3>2
  <2> QED BY <2>2, <2>3
<1>3. CASE \E k \in Recheck : RecheckQuery(k)
  BY <1>1, <1>3, RecheckFrame
<1>4. CASE \E a \in Applicant : Register(a)
  BY <1>1, <1>4, RegisterFrame
<1>5. CASE (\E q \in Request : Exit(q)) \/ Crash \/ UNCHANGED storeVars
  BY <1>1, <1>5 DEF Exit, Crash, storeVars, database
<1> QED BY <1>2, <1>3, <1>4, <1>5 DEF Next

\* What an engine may answer: see Execute.
AnswersSound ==
  \A r \in Run :
    /\ answer[r].status = "completed" => "queries" \in answer[r].tables
    /\ answer[r].status \in {"none", "failed"} => answer[r].tables = {}

LEMMA AnswersSoundStep ==
  ASSUME StoreInv, AnswersSound, [Next]_storeVars
  PROVE  AnswersSound'
<1>1. CASE \E r \in Run : Execute(r)
  BY <1>1 DEF Execute, AnswersSound, StoreInv, StoreTypeOK, Terminal
<1>2. CASE UNCHANGED answer
  BY <1>2 DEF AnswersSound
<1> QED BY <1>1, <1>2 DEF Next, Register, CheckDomain, InsertProfile, CommitProfile,
  RunPipeline, AnnounceRun, RecordOutcome, AddMany, CommitRun, RecheckQuery, ReadQuery,
  Remeasure, ReturnUntouched, SelectForSave, CommitSave, Exit, Crash, storeVars, database

\* What a run that ended leaves for readers.
LEMMA EndedRuns ==
  ASSUME StoreInv, AnswersSound, NEW r \in Run
  PROVE  /\ runs[r] = "completed" => "queries" \in rows[r]
         /\ "recommendations" \in rows[r] => runs[r] \in {"completed", "partial"}
         /\ "queries" \in rows[r] <=> r \in Measured
BY DEF StoreInv, StoreTypeOK, AllOrNothing, Measured, Terminal, AnswersSound

\* Of a finite set of runs, one was started last.
LEMMA LatestIsAnnounced == Latest \in Announced \cup {"none"} /\ (Latest = "none" <=> Announced = {})
<1> DEFINE later(r) == {s \in Announced : StartedAt[r] < StartedAt[s]}
           laters == {later(r) : r \in Announced}
<1>1. CASE Announced = {}
  BY <1>1 DEF Latest
<1>2. CASE Announced # {}
  <2>1. Announced \subseteq Run
    BY DEF Announced
  <2>2. ASSUME NEW r \in Announced PROVE later(r) \in FiniteSubsetsOf(Run)
    <3>1. later(r) \in SUBSET Run
      BY <2>1
    <3>2. IsFiniteSet(later(r))
      BY <3>1, FS_Subset
    <3> QED BY <3>1, <3>2 DEF FiniteSubsetsOf
  <2>3. PICK T \in laters : \A U \in laters : ~(<<U, T>> \in StrictSubsetOrdering(Run))
    <3>1. laters \subseteq FiniteSubsetsOf(Run) /\ laters # {}
      <4> HIDE DEF later
      <4> QED BY <1>2, <2>2
    <3>2. IsWellFoundedOn(StrictSubsetOrdering(Run), FiniteSubsetsOf(Run))
      BY FS_StrictSubsetOrderingWellFounded
    <3> HIDE DEF laters
    <3> QED BY <3>1, <3>2, WFMin
  <2>4. PICK r \in Announced : T = later(r)
    BY <2>3
  <2>5. \A s \in Announced : StartedAt[s] <= StartedAt[r]
    <3> SUFFICES ASSUME NEW s \in Announced, ~(StartedAt[s] <= StartedAt[r]) PROVE FALSE
      OBVIOUS
    <3>1. s \in later(r) /\ s \notin later(s) /\ later(s) \subseteq later(r)
      BY <2>1
    <3>2. <<later(s), T>> \in StrictSubsetOrdering(Run)
      BY <2>1, <2>4, <3>1 DEF StrictSubsetOrdering
    <3> QED BY <2>3, <3>2
  <2>6. Latest \in Announced
    BY <1>2, <2>5 DEF Latest
  <2> QED BY <1>2, <2>1, <2>6
<1> QED BY <1>1, <1>2

-----------------------------------------------------------------------------
(* What readers know *)

Seen == [total : Nat, latest : Run \cup {"none"},
         status : Terminal \cup {"none", "running"}, shown : Nat]

\* At any time: what was read is there.
WithinBounds(q) ==
  /\ at[q] \in 0 .. 4 \cup {Gone}
  /\ at[q] # Gone => at[q] <= Len(Statements(q))
  /\ seen[q] \in Seen
  /\ at[q] \in {0, 1, Gone} => seen[q] = Unread
  /\ seen[q].total <= Cardinality(Announced)
  /\ seen[q].latest \in Announced \cup {"none"}
  /\ seen[q].shown <= Cardinality(Run)
  /\ seen[q].status = "completed" => seen[q].latest \in Measured

\* A summary, before and after it knows the latest run and the average
SummaryKnows(q) ==
  /\ at[q] \in {3, 4} /\ seen[q].latest = "none" => seen[q].total = 0
  /\ at[q] = 4 /\ seen[q].status = "completed" => seen[q].shown > 0

\* A listing, when it knows the run, the count and the page
ListingKnows(q) ==
  /\ at[q] \in {2, 3} => seen[q].latest # "none"
  /\ Filter[q] = "any" =>
       /\ seen[q].total > 0 => seen[q].latest \in Measured /\ seen[q].total = 1
       /\ at[q] \in {3, 4} /\ seen[q].status = "completed" => seen[q].total = 1
       /\ at[q] = 4 => seen[q].shown >= seen[q].total

\* Advice, when it knows the run and what is recommended
AdviceKnows(q) ==
  /\ at[q] = 2 => seen[q].latest # "none"
  /\ seen[q].shown > 0 =>
       seen[q].latest \in Run /\ runs[seen[q].latest] \in {"completed", "partial"}

Knows(q) ==
  /\ WithinBounds(q)
  /\ q \in Summary => SummaryKnows(q)
  /\ q \in Listing => ListingKnows(q)
  /\ q \in Advice => AdviceKnows(q)

ReaderInv ==
  /\ StoreInv /\ AnswersSound
  /\ sent \in Load
  /\ at \in [Reader -> Nat] /\ DOMAIN seen = Reader
  /\ \A q \in Reader : Knows(q)

LEMMA Finite ==
  /\ IsFiniteSet(Announced) /\ Cardinality(Announced) \in Nat
  /\ Cardinality(Measured) \in 0 .. Cardinality(Run) /\ Cardinality(Run) \in Nat
  /\ Announced # {} => Cardinality(Announced) > 0
  /\ Announced = {} => Cardinality(Announced) = 0
  /\ Measured # {} => Cardinality(Measured) > 0
<1>1. Announced \in SUBSET Run /\ Measured \in SUBSET Run
  BY DEF Announced, Measured
<1>2. IsFiniteSet(Announced) /\ IsFiniteSet(Measured) /\ Cardinality(Measured) <= Cardinality(Run)
  BY <1>1, FS_Subset
<1> QED BY <1>2, FS_CardinalityType, FS_EmptySet

\* Nothing a reader knows is undone by a step it takes no part in.
LEMMA KnowsStays ==
  ASSUME StoreInv, AnswersSound, [Next]_storeVars, NEW q \in Reader, Knows(q),
         at'[q] = at[q], seen'[q] = seen[q]
  PROVE  Knows(q)'
<1>1. Announced \subseteq Announced'
  BY StoreGrows DEF Announced
<1>2. Cardinality(Announced) <= Cardinality(Announced')
  <2>1. Announced' \in SUBSET Run
    BY DEF Announced
  <2> QED BY <1>1, <2>1, FS_Subset
<1>3. Measured \subseteq Measured'
  <2>1. StoreInv' /\ AnswersSound'
    BY StoreInvStep, AnswersSoundStep
  <2>2. ASSUME NEW r \in Run, r \in Measured PROVE r \in Measured'
    <3>1. "queries" \in rows[r]
      BY <2>2, EndedRuns
    <3>2. "queries" \in rows'[r]
      BY <3>1, StoreGrows
    <3> QED BY <2>1, <3>2 DEF Measured, StoreInv, StoreTypeOK
  <2> QED BY <2>2 DEF Measured
<1>4. Cardinality(Announced) \in Nat /\ Cardinality(Announced') \in Nat
  <2>1. Announced' \in SUBSET Run
    BY DEF Announced
  <2> QED BY <2>1, Finite, FS_Subset, FS_CardinalityType
<1>5. WithinBounds(q)'
  <2>1. Statements(q)' = Statements(q)
    BY DEF Statements
  <2>2. seen[q].total \in Nat
    BY DEF Knows, WithinBounds, Seen
  <2> QED BY <1>1, <1>2, <1>3, <1>4, <2>1, <2>2 DEF Knows, WithinBounds, Seen, Unread, Terminal
<1>6. q \in Summary => SummaryKnows(q)'
  BY DEF Knows, SummaryKnows
<1>7. q \in Listing => ListingKnows(q)'
  BY <1>3 DEF Knows, ListingKnows
<1>8. q \in Advice => AdviceKnows(q)'
  BY StoreGrows DEF Knows, AdviceKnows, Terminal
<1> QED BY <1>5, <1>6, <1>7, <1>8 DEF Knows

-----------------------------------------------------------------------------
(* The statements *)

\* Where in its use case each statement stands.
LEMMA Places ==
  ASSUME NEW q \in Reader, WithinBounds(q), at[q] + 1 \in DOMAIN Statements(q)
  PROVE  /\ at[q] \in 0 .. 3
         /\ Statements(q)[at[q] + 1] = "get" => at[q] = 0
         /\ Statements(q)[at[q] + 1] = "count_for_profile" => q \in Summary /\ at[q] = 1
         /\ Statements(q)[at[q] + 1] = "find_latest" =>
              IF q \in Summary THEN at[q] = 2 ELSE at[q] = 1
         /\ Statements(q)[at[q] + 1] = "average" => q \in Summary /\ at[q] = 3
         /\ Statements(q)[at[q] + 1] = "count" => q \in Listing /\ at[q] = 2
         /\ Statements(q)[at[q] + 1] = "page" => q \in Listing /\ at[q] = 3
         /\ Statements(q)[at[q] + 1] = "recommendations" => q \in Advice /\ at[q] = 2
BY DEF Statements, WithinBounds, Reader, Gone

LEMMA Lengths ==
  \A q \in Reader :
    /\ q \in Summary => q \notin Listing /\ q \notin Advice /\ Len(Statements(q)) = 4
    /\ q \in Listing => q \notin Summary /\ q \notin Advice /\ Len(Statements(q)) = 4
    /\ q \in Advice => q \notin Summary /\ q \notin Listing /\ Len(Statements(q)) = 3
BY DEF Statements, Reader

LEMMA AfterGet ==
  ASSUME ReaderInv, NEW q \in Reader, GetProfile(q)
  PROVE  Knows(q)'
<1>1. at[q] = 0
  <2>1. at[q] + 1 \in DOMAIN Statements(q) /\ Statements(q)[at[q] + 1] = "get"
    BY DEF GetProfile, Reads
  <2> QED BY <2>1, Places DEF ReaderInv, Knows
<1>2. at'[q] = 1 /\ seen'[q] = Unread
  BY <1>1 DEF GetProfile, Reads, ReaderInv
<1>3. Unread \in Seen
  BY DEF Unread, Seen
<1>4. Cardinality(Announced') \in Nat /\ Cardinality(Run) \in Nat
  <2>1. Announced' = Announced
    BY DEF GetProfile, Reads, Announced, storeVars, database
  <2> QED BY <2>1, Finite
<1> QED BY <1>2, <1>3, <1>4, Lengths DEF Knows, WithinBounds, SummaryKnows, ListingKnows,
           AdviceKnows, Unread, Gone, Statements

LEMMA AfterCountForProfile ==
  ASSUME ReaderInv, NEW q \in Reader, CountForProfile(q)
  PROVE  Knows(q)'
<1> DEFINE what == [seen[q] EXCEPT !.total = Cardinality(Announced)]
<1>1. q \in Summary /\ at[q] = 1 /\ Knows(q)
  <2>1. /\ at[q] + 1 \in DOMAIN Statements(q)
        /\ Statements(q)[at[q] + 1] = "count_for_profile"
    BY DEF CountForProfile, Reads
  <2> QED BY <2>1, Places DEF ReaderInv, Knows
<1>2. at'[q] = 2 /\ seen'[q] = what /\ Announced' = Announced /\ Measured' = Measured
  BY <1>1 DEF CountForProfile, Reads, ReaderInv, Announced, Measured, storeVars, database
<1>3. /\ what \in Seen /\ what.total = Cardinality(Announced) /\ what.latest = "none"
      /\ what.status = "none" /\ what.shown = 0
  BY <1>1, Finite DEF Knows, WithinBounds, Unread, Seen
<1> QED BY <1>1, <1>2, <1>3, Finite, Lengths DEF Knows, WithinBounds, SummaryKnows, Gone, Statements

LEMMA AfterFindLatest ==
  ASSUME ReaderInv, NEW q \in Reader, FindLatest(q)
  PROVE  Knows(q)'
<1> DEFINE status == IF Latest = "none" THEN "none" ELSE runs[Latest]
           what == [seen[q] EXCEPT !.latest = Latest, !.status = status]
<1>1. (IF q \in Summary THEN at[q] = 2 ELSE at[q] = 1) /\ Knows(q)
  <2>1. at[q] + 1 \in DOMAIN Statements(q) /\ Statements(q)[at[q] + 1] = "find_latest"
    BY DEF FindLatest, Reads
  <2> QED BY <2>1, Places DEF ReaderInv, Knows
<1>2. /\ at'[q] = IF q \in Summary \/ Latest # "none" THEN at[q] + 1 ELSE Len(Statements(q))
      /\ seen'[q] = what /\ Announced' = Announced /\ Measured' = Measured
      /\ UNCHANGED storeVars
  BY DEF FindLatest, Reads, ReaderInv, Announced, Measured, storeVars, database
<1>3. Latest \in Announced \cup {"none"} /\ (Latest = "none" <=> Announced = {})
  BY LatestIsAnnounced
<1>4. Announced \subseteq Run
  BY DEF Announced
<1>5. status \in Terminal \cup {"none", "running"} /\ (status = "completed" => Latest \in Measured)
      /\ (Latest = "none" => status = "none")
  BY <1>3, <1>4, EndedRuns DEF Announced, ReaderInv, StoreInv, StoreTypeOK
<1>6. seen[q] \in Seen /\ (q \notin Summary => seen[q] = Unread)
  BY <1>1 DEF Knows, WithinBounds
<1>7. /\ what \in Seen /\ what.latest = Latest /\ what.status = status
      /\ what.total = seen[q].total /\ what.shown = seen[q].shown
  BY <1>3, <1>4, <1>5, <1>6 DEF Seen
<1> HIDE DEF status, what
<1>8. WithinBounds(q)'
  BY <1>1, <1>2, <1>3, <1>5, <1>7, Lengths DEF Knows, WithinBounds, Gone, Statements
<1>9. q \in Summary => SummaryKnows(q)'
  BY <1>1, <1>2, <1>3, <1>7, Finite DEF Knows, WithinBounds, SummaryKnows, Seen
<1>10. q \notin Summary => what.total = 0 /\ what.shown = 0
  BY <1>6, <1>7 DEF Unread
<1>11. q \in Listing => ListingKnows(q)'
  <2> SUFFICES ASSUME q \in Listing PROVE ListingKnows(q)'
    OBVIOUS
  <2>0. q \notin Summary /\ Len(Statements(q)) = 4
    BY Lengths
  <2>1. at'[q] \in {2, 4} /\ (at'[q] = 2 <=> Latest # "none")
    <3>1. at[q] = 1 /\ at'[q] = IF Latest # "none" THEN 2 ELSE 4
      BY <1>1, <1>2, <2>0
    <3> QED BY ONLY <3>1
  <2>2. what.total = 0 /\ what.shown = 0
    BY <1>10, <2>0
  <2>3. at'[q] = 4 => what.status # "completed"
    BY <1>5, <1>7, <2>1
  <2>4. what.latest = Latest
    BY <1>7
  <2>5. seen'[q] = what
    BY <1>2
  <2> QED BY ONLY <2>1, <2>2, <2>3, <2>4, <2>5 DEF ListingKnows
<1>12. q \in Advice => AdviceKnows(q)'
  <2> SUFFICES ASSUME q \in Advice PROVE AdviceKnows(q)'
    OBVIOUS
  <2>0. q \notin Summary /\ Len(Statements(q)) = 3
    BY Lengths
  <2>1. at'[q] = 2 => Latest # "none"
    BY ONLY <1>1, <1>2, <2>0
  <2>2. what.shown = 0
    BY <1>10, <2>0
  <2> QED BY <1>2, <1>7, <2>1, <2>2 DEF AdviceKnows
<1> QED BY <1>8, <1>9, <1>11, <1>12 DEF Knows

LEMMA AfterAverage ==
  ASSUME ReaderInv, NEW q \in Reader, AverageOpportunityScore(q)
  PROVE  Knows(q)'
<1> DEFINE what == [seen[q] EXCEPT !.shown = Cardinality(Measured)]
<1>1. q \in Summary /\ at[q] = 3 /\ Knows(q)
  <2>1. at[q] + 1 \in DOMAIN Statements(q) /\ Statements(q)[at[q] + 1] = "average"
    BY DEF AverageOpportunityScore, Reads
  <2> QED BY <2>1, Places DEF ReaderInv, Knows
<1>2. at'[q] = 4 /\ seen'[q] = what /\ Announced' = Announced /\ Measured' = Measured
  BY <1>1 DEF AverageOpportunityScore, Reads, ReaderInv, Announced, Measured, storeVars, database
<1>3. /\ what \in Seen /\ what.total = seen[q].total /\ what.latest = seen[q].latest
      /\ what.status = seen[q].status /\ what.shown = Cardinality(Measured)
  BY <1>1, Finite DEF Knows, WithinBounds, Seen
\* The run it knows as completed has queries to average over.
<1>4. what.status = "completed" => what.shown > 0
  BY <1>1, <1>3, Finite DEF Knows, WithinBounds
<1> QED BY <1>1, <1>2, <1>3, <1>4, Finite, Lengths DEF Knows, WithinBounds, SummaryKnows, Gone, Statements

LEMMA MatchingOne ==
  ASSUME StoreInv, AnswersSound, NEW r \in Run, NEW filter
  PROVE  /\ Cardinality(Matching(r, filter)) \in {0, 1}
         /\ filter = "any" => (Cardinality(Matching(r, filter)) = 1 <=> r \in Measured)
<1>1. Cardinality({}) = 0 /\ Cardinality({stored[r]}) = 1
  BY FS_EmptySet, FS_Singleton
<1> QED BY <1>1, EndedRuns DEF Matching

LEMMA AfterCount ==
  ASSUME ReaderInv, NEW q \in Reader, CountQueries(q)
  PROVE  Knows(q)'
<1> DEFINE count == Cardinality(Matching(seen[q].latest, Filter[q]))
           what == [seen[q] EXCEPT !.total = count]
<1>1. q \in Listing /\ at[q] = 2 /\ Knows(q)
  <2>1. at[q] + 1 \in DOMAIN Statements(q) /\ Statements(q)[at[q] + 1] = "count"
    BY DEF CountQueries, Reads
  <2> QED BY <2>1, Places DEF ReaderInv, Knows
<1>2. at'[q] = 3 /\ seen'[q] = what /\ Announced' = Announced /\ Measured' = Measured
  BY <1>1 DEF CountQueries, Reads, ReaderInv, Announced, Measured, storeVars, database
<1>3. seen[q].latest \in Announced /\ Announced \subseteq Run
  BY <1>1 DEF Knows, WithinBounds, ListingKnows, Announced
<1>4. /\ count \in {0, 1}
      /\ Filter[q] = "any" => (count = 1 <=> seen[q].latest \in Measured)
  BY <1>3, MatchingOne DEF ReaderInv
<1> HIDE DEF count
<1>5. /\ what \in Seen /\ what.total = count /\ what.latest = seen[q].latest
      /\ what.status = seen[q].status /\ what.shown = seen[q].shown
  BY <1>1, <1>4 DEF Knows, WithinBounds, Seen
<1> HIDE DEF what
<1>6. count <= Cardinality(Announced)
  BY <1>3, <1>4, Finite
<1>7. WithinBounds(q)'
  BY <1>1, <1>2, <1>5, <1>6, Lengths DEF Knows, WithinBounds, Gone, Statements
<1>8. ListingKnows(q)'
  <2>1. what.status = "completed" => what.latest \in Measured
    BY <1>1, <1>5 DEF Knows, WithinBounds
  <2>2. what.latest # "none"
    BY <1>3, <1>5
  <2> QED BY <1>2, <1>4, <1>5, <2>1, <2>2 DEF ListingKnows
<1> QED BY <1>1, <1>7, <1>8, Lengths DEF Knows

LEMMA AfterPage ==
  ASSUME ReaderInv, NEW q \in Reader, ListQueries(q)
  PROVE  Knows(q)'
<1> DEFINE page == Cardinality(Matching(seen[q].latest, Filter[q]))
           what == [seen[q] EXCEPT !.shown = page]
<1>1. q \in Listing /\ at[q] = 3 /\ Knows(q)
  <2>1. at[q] + 1 \in DOMAIN Statements(q) /\ Statements(q)[at[q] + 1] = "page"
    BY DEF ListQueries, Reads
  <2> QED BY <2>1, Places DEF ReaderInv, Knows
<1>2. at'[q] = 4 /\ seen'[q] = what /\ Announced' = Announced /\ Measured' = Measured
  BY <1>1 DEF ListQueries, Reads, ReaderInv, Announced, Measured, storeVars, database
<1>3. seen[q].latest \in Announced /\ Announced \subseteq Run
  BY <1>1 DEF Knows, WithinBounds, ListingKnows, Announced
<1>4. /\ page \in {0, 1}
      /\ Filter[q] = "any" => (page = 1 <=> seen[q].latest \in Measured)
  BY <1>3, MatchingOne DEF ReaderInv
<1> HIDE DEF page
<1>5. /\ what \in Seen /\ what.total = seen[q].total /\ what.latest = seen[q].latest
      /\ what.status = seen[q].status /\ what.shown = page
  BY <1>1, <1>4 DEF Knows, WithinBounds, Seen
<1> HIDE DEF what
\* The page is not empty, so there is a run.
<1>6. page <= Cardinality(Run)
  <2>1. Cardinality(Announced) <= Cardinality(Run)
    BY <1>3, FS_Subset
  <2> QED BY <1>3, <1>4, <2>1, Finite
<1>7. WithinBounds(q)'
  BY <1>1, <1>2, <1>4, <1>5, <1>6, Lengths DEF Knows, WithinBounds, Gone, Statements
\* What was counted is still there.
<1>8. ListingKnows(q)'
  <2> SUFFICES ASSUME Filter[q] = "any" PROVE ListingKnows(q)'
    BY <1>2 DEF ListingKnows
  <2>1. seen[q].total \in Nat
    BY <1>1 DEF Knows, WithinBounds, Seen
  <2>2. seen[q].total > 0 => seen[q].latest \in Measured /\ seen[q].total = 1
    BY <1>1 DEF Knows, ListingKnows
  <2>3. what.shown >= what.total
    BY <1>4, <1>5, <2>1, <2>2
  <2>4. what.status = "completed" => what.total = 1
    BY <1>1, <1>5 DEF Knows, ListingKnows
  <2> QED BY <1>2, <1>5, <2>2, <2>3, <2>4 DEF ListingKnows
<1> QED BY <1>1, <1>7, <1>8, Lengths DEF Knows

LEMMA AfterRecommendations ==
  ASSUME ReaderInv, NEW q \in Reader, ListRecommendations(q)
  PROVE  Knows(q)'
<1> DEFINE of == rows[seen[q].latest] \cap {"recommendations"}
           shown == Cardinality(of)
           what == [seen[q] EXCEPT !.shown = shown]
<1>1. q \in Advice /\ at[q] = 2 /\ Knows(q)
  <2>1. at[q] + 1 \in DOMAIN Statements(q) /\ Statements(q)[at[q] + 1] = "recommendations"
    BY DEF ListRecommendations, Reads
  <2> QED BY <2>1, Places DEF ReaderInv, Knows
<1>2. /\ at'[q] = 3 /\ seen'[q] = what /\ Announced' = Announced /\ Measured' = Measured
      /\ runs' = runs
  BY <1>1 DEF ListRecommendations, Reads, ReaderInv, Announced, Measured, storeVars, database
<1>3. seen[q].latest \in Announced /\ Announced \subseteq Run
  BY <1>1 DEF Knows, WithinBounds, AdviceKnows, Announced
<1>4. shown \in {0, 1} /\ (shown = 1 => "recommendations" \in rows[seen[q].latest])
  <2>1. CASE "recommendations" \in rows[seen[q].latest]
    <3>1. of = {"recommendations"}
      BY <2>1
    <3> HIDE DEF of
    <3> QED BY <2>1, <3>1, FS_Singleton
  <2>2. CASE "recommendations" \notin rows[seen[q].latest]
    <3>1. of = {}
      BY <2>2
    <3> HIDE DEF of
    <3> QED BY <3>1, FS_EmptySet
  <2> QED BY <2>1, <2>2
<1> HIDE DEF shown
<1>5. /\ what \in Seen /\ what.total = seen[q].total /\ what.latest = seen[q].latest
      /\ what.status = seen[q].status /\ what.shown = shown
  BY <1>1, <1>4 DEF Knows, WithinBounds, Seen
<1> HIDE DEF what
<1>6. shown <= Cardinality(Run)
  <2>1. Cardinality(Announced) <= Cardinality(Run)
    BY <1>3, FS_Subset
  <2> QED BY <1>3, <1>4, <2>1, Finite
<1>7. WithinBounds(q)'
  BY <1>1, <1>2, <1>4, <1>5, <1>6, Lengths DEF Knows, WithinBounds, Gone, Statements
<1>8. AdviceKnows(q)'
  <2>1. shown > 0 => runs[seen[q].latest] \in {"completed", "partial"}
    BY <1>3, <1>4, EndedRuns DEF ReaderInv
  <2> QED BY <1>2, <1>3, <1>5, <2>1 DEF AdviceKnows
<1> QED BY <1>1, <1>7, <1>8, Lengths DEF Knows

-----------------------------------------------------------------------------
(* The invariant *)

LEMMA ReaderInvInit == ServiceInit => ReaderInv
<1> SUFFICES ASSUME ServiceInit PROVE ReaderInv
  OBVIOUS
<1>1. StoreInv /\ AnswersSound
  BY StoreInvInit DEF ServiceInit, Init, AnswersSound, NoAnswer
<1>2. ASSUME NEW q \in Reader PROVE Knows(q)
  <2>1. at[q] = 0 /\ seen[q] = Unread /\ Unread \in Seen
    BY DEF ServiceInit, Unread, Seen
  <2> QED BY <2>1, Finite, Lengths DEF Knows, WithinBounds, SummaryKnows, ListingKnows,
             AdviceKnows, Unread, Gone, Statements
<1> QED BY <1>1, <1>2 DEF ReaderInv, ServiceInit

\* A reader that is dismissed has read nothing.
LEMMA AfterDismiss ==
  ASSUME NEW q \in Reader, at'[q] = Gone, seen'[q] = Unread
  PROVE  Knows(q)'
<1>1. Cardinality(Announced') \in Nat /\ Cardinality(Run) \in Nat
  <2>1. Announced' \in SUBSET Run
    BY DEF Announced
  <2> QED BY <2>1, Finite, FS_Subset, FS_CardinalityType
<1>2. Unread \in Seen
  BY DEF Unread, Seen
<1> QED BY <1>1, <1>2 DEF Knows, WithinBounds, SummaryKnows, ListingKnows, AdviceKnows,
           Unread, Gone

\* A statement of one reader is none of another.
LEMMA ReadFrame ==
  ASSUME ReaderInv, NEW q \in Reader, Read(q)
  PROVE  /\ \A p \in Reader \ {q} : at'[p] = at[p] /\ seen'[p] = seen[p]
         /\ at' \in [Reader -> Nat] /\ DOMAIN seen' = Reader
         /\ sent' = sent
<1>1. Len(Statements(q)) \in Nat
  BY Lengths DEF Reader
<1> QED BY <1>1 DEF Read, GetProfile, CountForProfile, FindLatest, AverageOpportunityScore,
           CountQueries, ListQueries, ListRecommendations, Reads, ReaderInv

LEMMA ReaderInvStep == ReaderInv /\ [ServiceNext]_serviceVars => ReaderInv'
<1> SUFFICES ASSUME ReaderInv, [ServiceNext]_serviceVars PROVE ReaderInv'
  OBVIOUS
<1>1. [Next]_storeVars
  BY ServiceStepIsStoreStep
<1>2. StoreInv' /\ AnswersSound'
  BY <1>1, StoreInvStep, AnswersSoundStep DEF ReaderInv
<1>3. ASSUME NEW q \in Reader, at'[q] = at[q], seen'[q] = seen[q] PROVE Knows(q)'
  BY <1>1, <1>3, KnowsStays DEF ReaderInv
<1>4. CASE Write \/ UNCHANGED serviceVars
  BY <1>2, <1>3, <1>4 DEF Write, readerVars, serviceVars, ReaderInv
<1>5. CASE ServiceCrash \/ \E q \in Reader : ReaderExit(q)
  <2>1. PICK readers \in SUBSET Reader : Dismiss(readers) /\ sent' = sent
    BY <1>5 DEF ServiceCrash, ReaderExit
  <2>2. ASSUME NEW q \in Reader PROVE Knows(q)'
    BY <1>3, <2>1, AfterDismiss DEF Dismiss
  <2> QED BY <1>2, <2>1, <2>2 DEF Dismiss, ReaderInv, Gone
<1>6. CASE \E q \in Reader : Read(q)
  <2>1. PICK q \in Reader : Read(q)
    BY <1>6
  <2>2. Knows(q)'
    BY <2>1, AfterGet, AfterCountForProfile, AfterFindLatest, AfterAverage, AfterCount,
       AfterPage, AfterRecommendations DEF Read
  <2>3. \A p \in Reader : Knows(p)'
    BY <1>3, <2>1, <2>2, ReadFrame
  <2> QED BY <1>2, <2>1, <2>3, ReadFrame DEF ReaderInv
<1> QED BY <1>4, <1>5, <1>6 DEF ServiceNext

LEMMA ReaderInvHolds == ServiceSpec => []ReaderInv
BY ReaderInvInit, ReaderInvStep, PTL DEF ServiceSpec

\* No reader counts runs, or is told of one, that are not in the tables.
THEOREM ReaderTypeCorrect == ServiceSpec => []ReaderTypeOK
<1>1. ReaderInv => ReaderTypeOK
  <2> SUFFICES ASSUME ReaderInv PROVE ReaderTypeOK
    OBVIOUS
  <2>1. at \in [Reader -> 0 .. 4 \cup {Gone}]
    BY DEF ReaderInv, Knows, WithinBounds
  <2>2. ASSUME NEW q \in Reader PROVE seen[q] \in Seen
    BY DEF ReaderInv, Knows, WithinBounds
  <2> QED BY <2>1, <2>2, Finite DEF ReaderInv, Knows, WithinBounds, Seen, ReaderTypeOK
<1> QED BY <1>1, ReaderInvHolds, PTL

\* However many runs and rechecks commit between the statements of a summary, it finds
\* the run it has counted, and an average over the queries of the run it has shown as
\* completed.  Nothing is said of what is committed after a statement and only seen by a
\* later one: total_runs may be 0 beside a latest run (get_profile.py:21).
THEOREM SummariesGrow == ServiceSpec => []SummaryGrows
<1>1. ReaderInv => SummaryGrows
  BY Lengths DEF ReaderInv, Knows, WithinBounds, SummaryKnows, SummaryGrows, Answered, Reader, Seen
<1> QED BY <1>1, ReaderInvHolds, PTL

\* Without a filter a page never shows less than was counted, and advice is never of a run
\* that goes on.  A page with a filter may: a recheck takes its query out of it.
THEOREM UnfilteredListingsAgree == ServiceSpec => []UnfilteredListsAgree
<1>1. ReaderInv => UnfilteredListsAgree
  BY Lengths DEF ReaderInv, Knows, WithinBounds, ListingKnows, AdviceKnows, UnfilteredListsAgree, Answered,
                 Reader, Seen
<1> QED BY <1>1, ReaderInvHolds, PTL
=============================================================================
