--------------------------- MODULE ResultReaders ---------------------------
(***************************************************************************)
(* application/use_cases/get_profile.py, list_queries.py and               *)
(* list_recommendations.py beside the writers of ResultStore: a reader is  *)
(* one transaction of several statements, and each of them sees what is    *)
(* committed when it runs.                                                 *)
(*                                                                         *)
(* All runs are of the one profile that is read.  A page is the first one, *)
(* and large enough.                                                       *)
(***************************************************************************)
EXTENDS ResultStore, Sequences

CONSTANTS
  Summary,    \* requests GET /profiles/{uuid}
  Listing,    \* requests GET /profiles/{uuid}/queries
  Advice,     \* requests GET /profiles/{uuid}/recommendations
  Filter,     \* the visibility_status each listing asks for, or "any"
  StartedAt,  \* started_at of each run, equal ones in the order of their uuids
  Load        \* bound: the sets of requests that clients may send together

Reader == Summary \cup Listing \cup Advice

ASSUME ReaderAssumption ==
  /\ Summary \cap Listing = {} /\ Summary \cap Advice = {} /\ Listing \cap Advice = {}
  /\ Filter \in [Listing -> {"any", "visible", "not_visible", "unknown"}]
  /\ StartedAt \in [Run -> Nat]
  /\ \A r, s \in Run : StartedAt[r] = StartedAt[s] => r = s
  /\ IsFiniteSet(Run) /\ "none" \notin Run
  /\ Load \subseteq SUBSET (Request \cup Reader)

VARIABLES
  sent,   \* the requests of this behaviour
  at,     \* how many statements each reader has run, or Gone
  seen    \* what it has read: its answer, when it has run them all

readerVars == <<at, seen>>
serviceVars == <<storeVars, sent, readerVars>>

Gone == 9   \* ended by an exception
Unread == [total |-> 0, latest |-> "none", status |-> "none", shown |-> 0]

ServiceInit ==
  /\ Init
  /\ sent \in Load
  /\ at = [q \in Reader |-> 0]
  /\ seen = [q \in Reader |-> Unread]

-----------------------------------------------------------------------------
(* What the tables say *)

Announced == {r \in Run : runs[r] # "absent"}
Measured == {r \in Run : stored[r] # Unmeasured}

\* find_latest_for_profile
Latest ==
  IF Announced = {} THEN "none"
  ELSE CHOOSE r \in Announced : \A s \in Announced : StartedAt[s] <= StartedAt[r]

\* _filtered
Matching(r, filter) ==
  IF "queries" \in rows[r] /\ filter \in {"any", stored[r].status} THEN {stored[r]} ELSE {}

-----------------------------------------------------------------------------
(* The use cases *)

\* mutants: the average before the run it should cover, the count after it, and the
\* page before the count
AverageFirst(q) ==
  IF q \in Summary THEN <<"get", "count_for_profile", "average", "find_latest">>
  ELSE IF q \in Listing THEN <<"get", "find_latest", "count", "page">>
  ELSE <<"get", "find_latest", "recommendations">>
PageFirst(q) ==
  IF q \in Summary THEN <<"get", "count_for_profile", "find_latest", "average">>
  ELSE IF q \in Listing THEN <<"get", "find_latest", "page", "count">>
  ELSE <<"get", "find_latest", "recommendations">>

Statements(q) ==
  IF q \in Summary THEN <<"get", "count_for_profile", "find_latest", "average">>
  ELSE IF q \in Listing THEN <<"get", "find_latest", "count", "page">>
  ELSE <<"get", "find_latest", "recommendations">>

Answered(q) == at[q] = Len(Statements(q))

\* A statement whose turn it is; on = FALSE if the use case returns after it.
Reads(q, statement, on, what) ==
  /\ q \in sent
  /\ at[q] + 1 \in DOMAIN Statements(q)
  /\ Statements(q)[at[q] + 1] = statement
  /\ at' = [at EXCEPT ![q] = IF on THEN @ + 1 ELSE Len(Statements(q))]
  /\ seen' = [seen EXCEPT ![q] = what]
  /\ UNCHANGED <<storeVars, sent>>

\* A profile that is not there is a 404 and nothing else: a reader comes later.
GetProfile(q) ==
  /\ profiles # {}
  /\ Reads(q, "get", TRUE, Unread)

\* mutant: the runs are counted in a join with their queries
CountJoined(q) ==
  Reads(q, "count_for_profile", TRUE,
        [seen[q] EXCEPT !.total = Cardinality(Announced) + Cardinality(Measured)])

CountForProfile(q) ==
  Reads(q, "count_for_profile", TRUE, [seen[q] EXCEPT !.total = Cardinality(Announced)])

\* Without any run the lists are empty, and nothing more is read.
FindLatest(q) ==
  Reads(q, "find_latest", q \in Summary \/ Latest # "none",
        [seen[q] EXCEPT !.latest = Latest,
                        !.status = IF Latest = "none" THEN "none" ELSE runs[Latest]])

\* The average over all queries of the profile, which is None if there are none
AverageOpportunityScore(q) ==
  Reads(q, "average", TRUE, [seen[q] EXCEPT !.shown = Cardinality(Measured)])

\* list_for_run of the queries: two statements
CountQueries(q) ==
  Reads(q, "count", TRUE,
        [seen[q] EXCEPT !.total = Cardinality(Matching(seen[q].latest, Filter[q]))])

ListQueries(q) ==
  Reads(q, "page", TRUE,
        [seen[q] EXCEPT !.shown = Cardinality(Matching(seen[q].latest, Filter[q]))])

ListRecommendations(q) ==
  Reads(q, "recommendations", TRUE,
        [seen[q] EXCEPT !.shown = Cardinality(rows[seen[q].latest] \cap {"recommendations"})])

Read(q) ==
  \/ GetProfile(q) \/ CountForProfile(q) \/ FindLatest(q) \/ AverageOpportunityScore(q)
  \/ CountQueries(q) \/ ListQueries(q) \/ ListRecommendations(q)

Reading(q) == at[q] \in 1 .. Len(Statements(q)) - 1

Dismiss(readers) ==
  /\ at' = [q \in Reader |-> IF q \in readers THEN Gone ELSE at[q]]
  /\ seen' = [q \in Reader |-> IF q \in readers THEN Unread ELSE seen[q]]

\* An exception in a reader, which has nothing to roll back
ReaderExit(q) ==
  /\ Reading(q)
  /\ Dismiss({q})
  /\ UNCHANGED <<storeVars, sent>>

\* Crash of ResultStore ends the readers with the writers.
ServiceCrash ==
  /\ Crash
  /\ Dismiss({q \in Reader : Reading(q)})
  /\ UNCHANGED sent

Write ==
  /\ \/ \E a \in Applicant \cap sent : Register(a)
     \/ \E r \in Run \cap sent : RunPipeline(r)
     \/ \E k \in Recheck \cap sent : RecheckQuery(k)
     \/ \E q \in Request : Exit(q)
  /\ UNCHANGED <<sent, readerVars>>

ServiceNext ==
  \/ Write \/ ServiceCrash
  \/ \E q \in Reader : Read(q) \/ ReaderExit(q)

ServiceSpec == ServiceInit /\ [][ServiceNext]_serviceVars
\* The writers' fairness; nobody waits for a reader.
ServiceFairSpec == ServiceSpec /\ Fairness

-----------------------------------------------------------------------------
(* Properties *)

\* A reader has read of nothing that is not there.
ReaderTypeOK ==
  /\ sent \in Load
  /\ at \in [Reader -> 0 .. 4 \cup {Gone}]
  /\ \A q \in Reader :
       /\ at[q] # Gone => at[q] <= Len(Statements(q))
       /\ seen[q].total \in 0 .. Cardinality(Announced)
       /\ seen[q].latest \in Announced \cup {"none"}
       /\ seen[q].status \in Terminal \cup {"none", "running"}
       /\ seen[q].shown \in 0 .. Cardinality(Run)

\* A summary's later statements know what its earlier ones knew: one that finds no latest
\* run has counted none, and one whose latest run is shown as completed has an average
\* (get_profile.py:20-23).  The other way round it may be at odds with itself: a run
\* announced after the count is the latest run of a profile whose total_runs is 0, and a
\* run that ended after find_latest has an average though it is shown as running.
SummaryGrows ==
  \A q \in Summary : Answered(q) =>
    /\ seen[q].latest = "none" => seen[q].total = 0
    /\ seen[q].status = "completed" => seen[q].shown > 0

\* A listing that asks for any visibility shows at least as many queries as it counts, and
\* those of a run it read as completed, though rechecks and runs commit between its
\* statements.  One with a filter may show fewer: a recheck renews the very column it
\* filters by (repositories/discovered_query.py:64).  And whoever is shown
\* recommendations finds the run that they are of finished.
UnfilteredListsAgree ==
  /\ \A q \in Listing : Answered(q) /\ Filter[q] = "any" =>
       /\ seen[q].shown >= seen[q].total
       /\ seen[q].status = "completed" => seen[q].total = 1
  /\ \A q \in Advice : seen[q].shown > 0 => runs[seen[q].latest] \in {"completed", "partial"}
=============================================================================
