--------------------------- MODULE ResultLedger ---------------------------
(***************************************************************************)
(* What the persisted records of runs promise their readers, whatever      *)
(* requests are in flight and wherever they stop: a run is announced, then *)
(* it ends once, with all its results at the same moment; afterwards only  *)
(* the measurement of its query may be renewed.                            *)
(* (application/use_cases/run_pipeline.py:3-10, unit_of_work.py:3-8,       *)
(* use_cases/recheck_query.py:3-6.)                                        *)
(***************************************************************************)
CONSTANTS
  Run,          \* the runs that may be requested
  Table,        \* the tables of results: queries, insights, recommendations
  Measurement,  \* what a query row may say
  Unmeasured    \* what is said where there is no row

VARIABLE ledger   \* for each run, its status, its results and its measurement
ledgerVars == <<ledger>>

Terminal == {"completed", "partial", "failed"}

Absent == [status |-> "absent", results |-> {}, measurement |-> Unmeasured]
Running == [status |-> "running", results |-> {}, measurement |-> Unmeasured]

LedgerInit == ledger = [r \in Run |-> Absent]

Announce(r) ==
  /\ ledger[r] = Absent
  /\ ledger' = [ledger EXCEPT ![r] = Running]

\* Without query rows there is nothing to measure.
Finish(r) ==
  /\ ledger[r] = Running
  /\ \E s \in Terminal, T \in SUBSET Table, m \in Measurement \cup {Unmeasured} :
       /\ "queries" \in T <=> m # Unmeasured
       /\ ledger' = [ledger EXCEPT ![r] = [status |-> s, results |-> T, measurement |-> m]]

Renew(r) ==
  /\ ledger[r].status \in Terminal
  /\ "queries" \in ledger[r].results
  /\ \E m \in Measurement : ledger' = [ledger EXCEPT ![r].measurement = m]

LedgerNext == \E r \in Run : Announce(r) \/ Finish(r) \/ Renew(r)

LedgerSpec == LedgerInit /\ [][LedgerNext]_ledgerVars
=============================================================================
