---------------------------- MODULE ResultStore ----------------------------
(***************************************************************************)
(* application/use_cases and infrastructure/persistence: the requests that *)
(* write to the database.  register_profile, run_pipeline and              *)
(* recheck_query each own their transactions and hold none while the       *)
(* engine works, so any two requests may interleave at any await.          *)
(*                                                                         *)
(* The database is PostgreSQL, which is not under src: a commit is atomic, *)
(* a statement sees what is committed (READ COMMITTED), and an insert that *)
(* meets an uncommitted row with the same unique key waits for its end.    *)
(*                                                                         *)
(* A run's queries are one row, enough for a recheck, which renews a       *)
(* single row.  Of the row's columns three are kept: visibility_status,    *)
(* visibility_position and, as who measured last, discovered_at; volumes,  *)
(* scores and evidence are saved in the same way.                          *)
(***************************************************************************)
EXTENDS Naturals, FiniteSets

CONSTANTS
  Applicant,   \* requests POST /profiles
  Domain,      \* the normalized domain of each
  Run,         \* requests POST /profiles/{uuid}/run, each with its run
  Recheck,     \* requests POST /queries/{uuid}/recheck
  Rank         \* the positions at which a domain may be found

Request == Applicant \cup Run \cup Recheck

ASSUME StoreAssumption ==
  /\ Applicant \cap Run = {} /\ Applicant \cap Recheck = {} /\ Run \cap Recheck = {}
  /\ DOMAIN Domain = Applicant
  /\ "run" \notin Recheck
  /\ Rank \subseteq Nat \ {0}

VARIABLES
  profiles,   \* table profiles: the applicants whose row is committed
  runs,       \* table pipeline_runs: the status of each row, or "absent"
  rows,       \* the result tables in which each run has its rows
  stored,     \* table discovered_queries: the columns of the run's row
  phase,      \* where each request is
  staged,     \* the tables a run's session holds uncommitted rows for
  answer,     \* what the engine returned for each run
  target,     \* the run whose query row a recheck is for
  before,     \* the row as a recheck has read it before measuring
  loaded,     \* the row as save has read it, to compare with at the flush
  after       \* what the engine returned for each recheck

database == <<profiles, runs, rows, stored>>
storeVars == <<database, phase, staged, answer, target, before, loaded, after>>

Table == {"queries", "insights", "recommendations"}
Terminal == {"completed", "partial", "failed"}
\* A row, NULL as position 0, and the rows the constraint position_present_iff_visible
\* admits; DiscoveredQuery's constructor asks the same of what is measured.
Row == [by : {"run"} \cup Recheck, status : {"visible", "not_visible", "unknown"},
        position : Rank \cup {0}]
Paired(row) == row.status = "visible" <=> row.position # 0
Measurement == {m \in Row : Paired(m)}
Unmeasured == [by |-> "nobody", status |-> "none", position |-> 0]
NoAnswer == [status |-> "none", tables |-> {}]
NoOutcome == [status |-> "none", query |-> Unmeasured]

InFlight == {"checked", "inserted", "executing", "answered", "writing",
             "measuring", "measured", "loaded"}
Ended == {"returned", "raised"}   \* with an answer, or without one

StoreTypeOK ==
  /\ profiles \subseteq Applicant
  /\ runs \in [Run -> Terminal \cup {"absent", "running"}]
  /\ rows \in [Run -> SUBSET Table]
  /\ stored \in [Run -> Row \cup {Unmeasured}]
  /\ \A r \in Run : stored[r] # Unmeasured <=> "queries" \in rows[r]
  /\ phase \in [Request -> InFlight \cup Ended \cup {"idle"}]
  /\ staged \in [Run -> SUBSET (Table \cup {"run"})]
  /\ answer \in [Run -> [status : Terminal \cup {"none"}, tables : SUBSET Table]]
  /\ target \in [Recheck -> Run \cup {"none"}]
  /\ before \in [Recheck -> Row \cup {Unmeasured}]
  /\ loaded \in [Recheck -> Row \cup {Unmeasured}]
  /\ after \in [Recheck -> [status : Terminal \cup {"none"}, query : Row \cup {Unmeasured}]]

Init ==
  /\ profiles = {}
  /\ runs = [r \in Run |-> "absent"]
  /\ rows = [r \in Run |-> {}]
  /\ stored = [r \in Run |-> Unmeasured]
  /\ phase = [q \in Request |-> "idle"]
  /\ staged = [r \in Run |-> {}]
  /\ answer = [r \in Run |-> NoAnswer]
  /\ target = [k \in Recheck |-> "none"]
  /\ before = [k \in Recheck |-> Unmeasured]
  /\ loaded = [k \in Recheck |-> Unmeasured]
  /\ after = [k \in Recheck |-> NoOutcome]

Goes(q, from, to) == phase[q] = from /\ phase' = [phase EXCEPT ![q] = to]

\* The last transaction of a request has ended; __aexit__ may still fail or be cancelled.
Ends(q, from) == \E to \in Ended : Goes(q, from, to)

-----------------------------------------------------------------------------
(* register_profile.py, repositories/profile.py: check, insert, commit *)

Rivals(a) == {b \in Applicant : Domain[b] = Domain[a]} \ {a}

CheckDomain(a) ==
  /\ phase[a] = "idle"
  /\ phase' = [phase EXCEPT ![a] = IF Rivals(a) \cap profiles # {} THEN "raised" ELSE "checked"]
  /\ UNCHANGED <<database, staged, answer, target, before, loaded, after>>

\* mutant: no unique constraint on profiles.domain
InsertUnconstrained(a) ==
  /\ Goes(a, "checked", "inserted")
  /\ UNCHANGED <<database, staged, answer, target, before, loaded, after>>

\* mutant: the row is locked by whoever has checked the domain
InsertLocked(a) ==
  /\ phase[a] = "checked"
  /\ \A b \in Rivals(a) : phase[b] \notin {"checked", "inserted"}
  /\ phase' = [phase EXCEPT ![a] = IF Rivals(a) \cap profiles # {} THEN "raised" ELSE "inserted"]
  /\ UNCHANGED <<database, staged, answer, target, before, loaded, after>>

\* The flush: it waits while a rival's row is uncommitted, and the collision with a
\* committed one is raised as DuplicateProfileError.
InsertProfile(a) ==
  /\ phase[a] = "checked"
  /\ \A b \in Rivals(a) : phase[b] # "inserted"
  /\ phase' = [phase EXCEPT ![a] = IF Rivals(a) \cap profiles # {} THEN "raised" ELSE "inserted"]
  /\ UNCHANGED <<database, staged, answer, target, before, loaded, after>>

CommitProfile(a) ==
  /\ Ends(a, "inserted")
  /\ profiles' = profiles \cup {a}
  /\ UNCHANGED <<runs, rows, stored, staged, answer, target, before, loaded, after>>

-----------------------------------------------------------------------------
(* run_pipeline.py *)

\* mutant: the run is added and its transaction is not committed
AnnounceUncommitted(r) ==
  /\ profiles # {}
  /\ Goes(r, "idle", "executing")
  /\ UNCHANGED <<database, staged, answer, target, before, loaded, after>>

\* The profile is read, and the run's row is committed before the engine starts.
AnnounceRun(r) ==
  /\ profiles # {}
  /\ Goes(r, "idle", "executing")
  /\ runs' = [runs EXCEPT ![r] = "running"]
  /\ UNCHANGED <<profiles, rows, stored, staged, answer, target, before, loaded, after>>

\* engine.run returns an outcome for every failure of the graph (PipelineGraph):
\* a completed run has queries, a failed one has nothing, and insights and
\* recommendations come from analysing queries.
Execute(r) ==
  /\ Goes(r, "executing", "answered")
  /\ \E s \in Terminal, T \in SUBSET Table :
       /\ s = "completed" => "queries" \in T
       /\ s = "failed" => T = {}
       /\ T # {} => "queries" \in T
       /\ answer' = [answer EXCEPT ![r] = [status |-> s, tables |-> T]]
  /\ UNCHANGED <<database, staged, target, before, loaded, after>>

\* The last transaction: the row is read again, it must still be running
\* (PipelineRun._require_running), and the outcome is recorded on it.
RecordOutcome(r) ==
  /\ phase[r] = "answered"
  /\ IF runs[r] = "running"
     THEN /\ phase' = [phase EXCEPT ![r] = "writing"]
          /\ staged' = [staged EXCEPT ![r] = {"run"}]
     ELSE /\ phase' = [phase EXCEPT ![r] = "raised"]
          /\ UNCHANGED staged
  /\ UNCHANGED <<database, answer, target, before, loaded, after>>

\* add_many, once for each table the outcome has rows for, in the order of Place; the
\* flush of the commit sends them one statement after the other.
Place == [queries |-> 1, insights |-> 2, recommendations |-> 3]
AddMany(r) ==
  /\ phase[r] = "writing"
  /\ \E t \in answer[r].tables \ staged[r] :
       /\ \A u \in answer[r].tables \ staged[r] : Place[t] <= Place[u]
       /\ staged' = [staged EXCEPT ![r] = @ \cup {t}]
  /\ UNCHANGED <<database, phase, answer, target, before, loaded, after>>

\* mutant: the commit does not wait for the last table
CommitEarly(r) ==
  /\ Ends(r, "writing")
  /\ "queries" \in staged[r] \/ answer[r].tables = {}
  /\ runs' = [runs EXCEPT ![r] = answer[r].status]
  /\ rows' = [rows EXCEPT ![r] = staged[r] \ {"run"}]
  /\ stored' \in IF "queries" \in staged[r]
                 THEN {[stored EXCEPT ![r] = m] : m \in {n \in Measurement : n.by = "run"}}
                 ELSE {stored}
  /\ staged' = [staged EXCEPT ![r] = {}]
  /\ UNCHANGED <<profiles, answer, target, before, loaded, after>>

CommitRun(r) ==
  /\ Ends(r, "writing")
  /\ staged[r] = {"run"} \cup answer[r].tables
  /\ runs' = [runs EXCEPT ![r] = answer[r].status]
  /\ rows' = [rows EXCEPT ![r] = staged[r] \ {"run"}]
  /\ stored' \in IF "queries" \in staged[r]
                 THEN {[stored EXCEPT ![r] = m] : m \in {n \in Measurement : n.by = "run"}}
                 ELSE {stored}
  /\ staged' = [staged EXCEPT ![r] = {}]
  /\ UNCHANGED <<profiles, answer, target, before, loaded, after>>

-----------------------------------------------------------------------------
(* recheck_query.py *)

\* The query is read in a transaction that ends before the engine starts.
ReadQuery(k) ==
  /\ Goes(k, "idle", "measuring")
  /\ \E r \in Run :
       /\ "queries" \in rows[r]
       /\ target' = [target EXCEPT ![k] = r]
       /\ before' = [before EXCEPT ![k] = stored[r]]
  /\ UNCHANGED <<database, staged, answer, loaded, after>>

\* engine.recheck: a completed one has a fresh measurement, of unknown visibility if
\* only keyword metrics came back; any other returns the query it was given.
Remeasure(k) ==
  /\ Goes(k, "measuring", "measured")
  /\ \E o \in [status : {"completed"}, query : {m \in Measurement : m.by = k}]
              \cup [status : {"partial", "failed"}, query : {before[k]}] :
       after' = [after EXCEPT ![k] = o]
  /\ UNCHANGED <<database, staged, answer, target, before, loaded>>

\* A degraded recheck opens no second transaction.
ReturnUntouched(k) ==
  /\ after[k].status # "completed"
  /\ Ends(k, "measured")
  /\ UNCHANGED <<database, staged, answer, target, before, loaded, after>>

\* mutant: the query that came back is saved whatever the status
SelectAlways(k) ==
  /\ Goes(k, "measured", "loaded")
  /\ loaded' = [loaded EXCEPT ![k] = stored[target[k]]]
  /\ UNCHANGED <<database, staged, answer, target, before, after>>

\* save: session.get, and the fresh values are copied onto what it returned.
SelectForSave(k) ==
  /\ after[k].status = "completed"
  /\ Goes(k, "measured", "loaded")
  /\ loaded' = [loaded EXCEPT ![k] = stored[target[k]]]
  /\ UNCHANGED <<database, staged, answer, target, before, after>>

\* An UPDATE sets the columns whose value is not the one that was loaded; the others
\* keep what the row has by now.
Column(new, old, now) == IF new # old THEN new ELSE now
Updated(new, old, now) ==
  [by |-> Column(new.by, old.by, now.by),
   status |-> Column(new.status, old.status, now.status),
   position |-> Column(new.position, old.position, now.position)]

\* mutant: no constraint position_present_iff_visible
CommitUnchecked(k) ==
  /\ Ends(k, "loaded")
  /\ stored' = [stored EXCEPT ![target[k]] = Updated(after[k].query, loaded[k], @)]
  /\ UNCHANGED <<profiles, runs, rows, staged, answer, target, before, loaded, after>>

\* The commit flushes the UPDATE; a row that the constraint refuses makes it raise.
CommitSave(k) ==
  /\ phase[k] = "loaded"
  /\ LET row == Updated(after[k].query, loaded[k], stored[target[k]])
     IN  IF Paired(row)
         THEN Ends(k, "loaded") /\ stored' = [stored EXCEPT ![target[k]] = row]
         ELSE Goes(k, "loaded", "raised") /\ UNCHANGED stored
  /\ UNCHANGED <<profiles, runs, rows, staged, answer, target, before, loaded, after>>

-----------------------------------------------------------------------------
(* unit_of_work.py, and what can stop a request *)

Stop(requests) ==
  /\ phase' = [q \in Request |-> IF q \in requests THEN "raised" ELSE phase[q]]
  /\ staged' = [r \in Run |-> IF r \in requests THEN {} ELSE staged[r]]

\* mutant: leaving the unit of work keeps what was flushed
ExitKeepsWork(q) ==
  /\ phase[q] \in InFlight
  /\ Stop({q})
  /\ rows' = [r \in Run |-> IF r = q THEN rows[r] \cup (staged[r] \ {"run"}) ELSE rows[r]]
  /\ UNCHANGED <<profiles, runs, stored, answer, target, before, loaded, after>>

\* An exception at any await of a request (a lost connection, a cancelled request,
\* an error no layer classifies): __aexit__ rolls its transaction back.
Exit(q) ==
  /\ phase[q] \in InFlight
  /\ Stop({q})
  /\ UNCHANGED <<database, answer, target, before, loaded, after>>

\* The process dies, and a new one starts without any request.
Crash ==
  /\ \E q \in Request : phase[q] \in InFlight
  /\ Stop({q \in Request : phase[q] \in InFlight})
  /\ UNCHANGED <<database, answer, target, before, loaded, after>>

-----------------------------------------------------------------------------
Register(a) == CheckDomain(a) \/ InsertProfile(a) \/ CommitProfile(a)
RunPipeline(r) ==
  AnnounceRun(r) \/ Execute(r) \/ RecordOutcome(r) \/ AddMany(r) \/ CommitRun(r)
RecheckQuery(k) ==
  ReadQuery(k) \/ Remeasure(k) \/ ReturnUntouched(k) \/ SelectForSave(k) \/ CommitSave(k)

Next ==
  \/ \E a \in Applicant : Register(a)
  \/ \E r \in Run : RunPipeline(r)
  \/ \E k \in Recheck : RecheckQuery(k)
  \/ \E q \in Request : Exit(q)
  \/ Crash

Spec == Init /\ [][Next]_storeVars

\* The event loop resumes every request whose await is over: database calls and
\* calls of the engine end (RunEnds of PipelineGraph).  Nobody has to send a request.
Fairness ==
  /\ \A a \in Applicant : WF_storeVars(phase[a] # "idle" /\ Register(a))
  /\ \A r \in Run : WF_storeVars(phase[r] # "idle" /\ RunPipeline(r))
  /\ \A k \in Recheck : WF_storeVars(phase[k] # "idle" /\ RecheckQuery(k))

FairSpec == Spec /\ Fairness

-----------------------------------------------------------------------------
(* Properties *)

\* Two requests that both found the domain free do not both get a profile
\* (register_profile.py:33-35).
UniqueDomains == \A a \in profiles, b \in profiles : Domain[a] = Domain[b] => a = b

\* A run's results are those the engine returned, all of them and with its status, or
\* there are none and the run still counts as running (run_pipeline.py:9-10).
AllOrNothing ==
  \A r \in Run :
    \/ runs[r] \in {"absent", "running"} /\ rows[r] = {}
    \/ runs[r] = answer[r].status /\ rows[r] = answer[r].tables

\* The graph never runs for a run without a row, and a request that was answered left
\* a finished one: whatever was lost can be seen as running (run_pipeline.py:5-8).
EveryRunLeavesARow ==
  \A r \in Run :
    /\ answer[r] # NoAnswer \/ phase[r] = "executing" => runs[r] # "absent"
    /\ phase[r] = "returned" => runs[r] \in Terminal

\* Whatever columns concurrent rechecks update, a stored row has a position exactly if
\* the domain is visible (models/discovered_query.py:58-63).
PositionIffVisible == \A r \in Run : stored[r] # Unmeasured => Paired(stored[r])

\* A row changes when its run commits, or when a completed recheck does: then each column
\* is as it was or as that recheck has just measured it, and all are its own unless
\* another commit came between its SELECT and its UPDATE.  In particular no recheck
\* writes back what it had read, and a degraded one writes nothing
\* (recheck_query.py:54-60).
NoMeasurementReturns ==
  [][ \A r \in Run : stored'[r] # stored[r] =>
        \/ stored[r] = Unmeasured /\ phase[r] = "writing"
        \/ \E k \in Recheck :
             /\ target[k] = r /\ phase[k] = "loaded" /\ after[k].status = "completed"
             /\ stored'[r].by = k /\ after[k].query.by = k
             /\ stored'[r].status \in {stored[r].status, after[k].query.status}
             /\ stored'[r].position \in {stored[r].position, after[k].query.position}
             /\ stored[r] = loaded[k] => stored'[r] = after[k].query ]_storeVars

\* The records keep the promise of ResultLedger.
Ledger == INSTANCE ResultLedger WITH
  ledger <- [r \in Run |-> [status |-> runs[r], results |-> rows[r], measurement |-> stored[r]]]
ImplementsLedger == Ledger!LedgerSpec

\* Every request that was begun ends: none waits for another's row for ever.
RequestsEnd == \A q \in Request : phase[q] # "idle" ~> phase[q] \in Ended

\* "Overwriting a good measurement with an unmeasurable one would destroy information"
\* (recheck_query.py:55; README.md:401): known visibility stays known.
KnownStaysKnown ==
  [][ \A r \in Run : stored[r].status \in {"visible", "not_visible"} =>
                       stored'[r].status \in {"visible", "not_visible"} ]_storeVars

\* "Overwrite a query's measurements" (ports/repositories.py:71), "writes the fresh
\* measurements back onto the existing row" (recheck_query.py:4-5): once a recheck has
\* saved, the row is what it measured.
SavesOverwrite ==
  [][ \A k \in Recheck : phase[k] = "loaded" /\ phase'[k] = "returned" =>
                          stored'[target[k]] = after[k].query ]_storeVars
=============================================================================
