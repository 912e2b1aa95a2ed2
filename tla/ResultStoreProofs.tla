------------------------- MODULE ResultStoreProofs -------------------------
(***************************************************************************)
(* Theorems of ResultStore for any number of applicants, runs and rechecks *)
(* and any stop of any of them: what is stored is whole, domains stay      *)
(* unique, and the records keep the promise of ResultLedger.               *)
(*                                                                         *)
(* What each request still has to do must follow from where it is, so the  *)
(* invariants are strengthened with one condition on the requests in       *)
(* flight for each of the three use cases.                                 *)
(***************************************************************************)
EXTENDS ResultStore, FiniteSetTheorems, TLAPS

\* An uncommitted profile row already keeps its domain from rivals.
DomainsHeld ==
  \A a \in Applicant, b \in Applicant :
    /\ a \in profiles \/ phase[a] = "inserted"
    /\ b \in profiles \/ phase[b] = "inserted"
    /\ Domain[a] = Domain[b]
    => a = b

\* The status of a run in flight, and what its session has staged.
RunsInStep ==
  \A r \in Run :
    /\ phase[r] = "idle" <=> runs[r] = "absent"
    /\ phase[r] \in {"executing", "answered", "writing"} => runs[r] = "running"
    /\ phase[r] = "returned" => runs[r] \in Terminal
    /\ answer[r] # NoAnswer => phase[r] \notin {"idle", "executing"}
    /\ phase[r] \in {"answered", "writing"} => answer[r].status \in Terminal
    /\ phase[r] = "writing" => staged[r] \subseteq answer[r].tables \cup {"run"}

\* A recheck in flight is for a stored query of a finished run, and it is not yet who
\* measured any row.
RechecksInStep ==
  \A k \in Recheck :
    /\ phase[k] \in {"measuring", "measured", "loaded"} =>
         /\ target[k] \in Run
         /\ "queries" \in rows[target[k]]
         /\ runs[target[k]] \in Terminal
         /\ before[k] \in Measurement
    /\ phase[k] \in {"measured", "loaded"} =>
         /\ after[k].query \in Measurement
         /\ after[k].status = "completed" => after[k].query.by = k
    /\ phase[k] = "loaded" =>
         /\ after[k].status = "completed"
         /\ loaded[k] \in Measurement /\ loaded[k].by # k
    /\ phase[k] \notin Ended =>
         \A r \in Run : stored[r] # Unmeasured => stored[r].by # k

StoreInv == /\ StoreTypeOK /\ DomainsHeld /\ AllOrNothing /\ PositionIffVisible
            /\ RunsInStep /\ RechecksInStep

USE StoreAssumption

LEMMA StoreInvInit == Init => StoreInv
<1> SUFFICES ASSUME Init PROVE StoreInv
  OBVIOUS
<1>1. StoreTypeOK
  BY DEF Init, StoreTypeOK, NoAnswer, NoOutcome, Unmeasured, Row, Table, Request
<1>2. DomainsHeld /\ AllOrNothing /\ PositionIffVisible /\ RunsInStep /\ RechecksInStep
  BY DEF Init, DomainsHeld, AllOrNothing, PositionIffVisible, RunsInStep, RechecksInStep, NoAnswer, Request
<1> QED BY <1>1, <1>2 DEF StoreInv

\* What a registration leaves alone.
LEMMA RegisterFrame ==
  ASSUME StoreInv, NEW a \in Applicant, Register(a)
  PROVE  /\ AllOrNothing' /\ PositionIffVisible' /\ RunsInStep' /\ RechecksInStep'
         /\ UNCHANGED <<runs, rows, stored, staged, answer, target, before, loaded, after>>
         /\ \E p \in InFlight \cup Ended : phase' = [phase EXCEPT ![a] = p]
<1>1. UNCHANGED <<runs, rows, stored, staged, answer, target, before, loaded, after>>
  BY DEF Register, CheckDomain, InsertProfile, CommitProfile, database
<1>2. \E p \in InFlight \cup Ended : phase' = [phase EXCEPT ![a] = p]
  BY DEF Register, CheckDomain, InsertProfile, CommitProfile, Goes, Ends, InFlight, Ended
<1>3. \A q \in Run \cup Recheck : phase'[q] = phase[q]
  BY <1>2 DEF StoreInv, StoreTypeOK, Request
<1>4. AllOrNothing' /\ PositionIffVisible' /\ RunsInStep' /\ RechecksInStep'
  BY <1>1, <1>3 DEF StoreInv, AllOrNothing, PositionIffVisible, RunsInStep, RechecksInStep
<1> QED BY <1>1, <1>2, <1>4

LEMMA StoreInvRegister ==
  ASSUME StoreInv, NEW a \in Applicant, Register(a)
  PROVE  StoreInv'
<1>1. AllOrNothing' /\ PositionIffVisible' /\ RunsInStep' /\ RechecksInStep'
  BY RegisterFrame
<1>2. profiles' \subseteq Applicant
  BY DEF Register, CheckDomain, InsertProfile, CommitProfile, database, StoreInv, StoreTypeOK
<1>3. StoreTypeOK'
  BY <1>2, RegisterFrame DEF StoreInv, StoreTypeOK, Request
<1>4. DomainsHeld'
  <2> USE DEF StoreInv, StoreTypeOK, DomainsHeld, Request
  <2>1. CASE CheckDomain(a)
    BY <2>1 DEF CheckDomain, database
  <2>2. CASE InsertProfile(a)
    BY <2>2 DEF InsertProfile, Rivals, database
  <2>3. CASE CommitProfile(a)
    BY <2>3 DEF CommitProfile, Ends, Goes, Ended
  <2> QED BY <2>1, <2>2, <2>3 DEF Register
<1> QED BY <1>1, <1>3, <1>4 DEF StoreInv

\* What a step of a run leaves alone: the phases of all other requests, and every
\* other run's rows.
LEMMA RunFrame ==
  ASSUME StoreInv, NEW r \in Run, RunPipeline(r)
  PROVE  /\ UNCHANGED <<profiles, target, before, loaded, after>>
         /\ \A q \in Request \ {r} : phase'[q] = phase[q]
         /\ \A s \in Run \ {r} : /\ runs'[s] = runs[s] /\ rows'[s] = rows[s]
                                 /\ stored'[s] = stored[s] /\ answer'[s] = answer[s]
                                 /\ staged'[s] = staged[s]
<1> USE DEF StoreInv, StoreTypeOK, database, Goes, Ends
<1>1. CASE AnnounceRun(r)
  BY <1>1 DEF AnnounceRun
<1>2. CASE Execute(r)
  BY <1>2 DEF Execute
<1>3. CASE RecordOutcome(r)
  BY <1>3 DEF RecordOutcome
<1>4. CASE AddMany(r)
  BY <1>4 DEF AddMany
<1>5. CASE CommitRun(r)
  BY <1>5 DEF CommitRun
<1> QED BY <1>1, <1>2, <1>3, <1>4, <1>5 DEF RunPipeline

LEMMA RowsAreStored ==
  /\ Measurement \subseteq Row
  /\ \A row \in Row : row # Unmeasured /\ (row \in Measurement <=> Paired(row))
BY DEF Measurement, Row, Unmeasured

\* A row that a run writes is one it has measured.
LEMMA RunStores ==
  ASSUME StoreInv, NEW r \in Run, RunPipeline(r)
  PROVE  \A s \in Run : \/ stored'[s] = stored[s]
                        \/ stored'[s] \in Measurement /\ stored'[s].by = "run"
<1>1. CASE CommitRun(r)
  BY <1>1 DEF CommitRun, StoreInv, StoreTypeOK
<1>2. CASE stored' = stored
  BY <1>2
<1> QED BY <1>1, <1>2 DEF RunPipeline, AnnounceRun, Execute, RecordOutcome, AddMany, database

\* Each step of a run keeps the types.
LEMMA TypeRun ==
  ASSUME StoreInv, NEW r \in Run, RunPipeline(r)
  PROVE  StoreTypeOK'
<1> USE DEF StoreInv, StoreTypeOK, database, Goes, Ends, Request, InFlight, Ended
<1>1. CASE AnnounceRun(r)
  BY <1>1 DEF AnnounceRun
<1>2. CASE Execute(r)
  BY <1>2 DEF Execute, NoAnswer
<1>3. CASE RecordOutcome(r)
  <2>1. phase' \in [Request -> InFlight \cup Ended \cup {"idle"}]
    BY <1>3 DEF RecordOutcome
  <2>2. staged' \in [Run -> SUBSET (Table \cup {"run"})]
    BY <1>3 DEF RecordOutcome
  <2> QED BY <1>3, <2>1, <2>2 DEF RecordOutcome
<1>4. CASE AddMany(r)
  <2>1. staged' \in [Run -> SUBSET (Table \cup {"run"})]
    BY <1>4 DEF AddMany
  <2> QED BY <1>4, <2>1 DEF AddMany
<1>5. CASE CommitRun(r)
  <2>1. answer[r].status \in Terminal /\ staged[r] \ {"run"} \subseteq Table
    BY <1>5 DEF CommitRun, RunsInStep, Table
  <2>2. ASSUME NEW m \in Measurement PROVE m # Unmeasured /\ m \in Row
    BY RowsAreStored
  <2>3. stored' \in [Run -> Row \cup {Unmeasured}]
    BY <1>5, <2>2 DEF CommitRun
  <2>4. rows[r] = {} /\ stored[r] = Unmeasured
    BY <1>5 DEF CommitRun, RunsInStep, AllOrNothing, Terminal
  <2>5. stored'[r] # Unmeasured <=> "queries" \in rows'[r]
    BY <1>5, <2>2, <2>4 DEF CommitRun
  <2>6. \A s \in Run : stored'[s] # Unmeasured <=> "queries" \in rows'[s]
    BY <2>5, RunFrame
  <2>7. /\ runs' \in [Run -> Terminal \cup {"absent", "running"}]
        /\ rows' \in [Run -> SUBSET Table]
        /\ staged' \in [Run -> SUBSET (Table \cup {"run"})]
    BY <1>5, <2>1 DEF CommitRun
  <2>8. phase' \in [Request -> InFlight \cup Ended \cup {"idle"}]
    BY <1>5 DEF CommitRun
  <2>9. UNCHANGED <<profiles, answer, target, before, loaded, after>>
    BY <1>5 DEF CommitRun
  <2> QED BY <2>3, <2>6, <2>7, <2>8, <2>9
<1> QED BY <1>1, <1>2, <1>3, <1>4, <1>5 DEF RunPipeline

\* The condition on the run that makes the step.
LEMMA RunsInStepRun ==
  ASSUME StoreInv, NEW r \in Run, RunPipeline(r)
  PROVE  AllOrNothing' /\ RunsInStep'
<1> USE DEF StoreInv, StoreTypeOK, database, Goes, Ends, Request, InFlight, Ended,
            AllOrNothing, RunsInStep
<1>1. CASE AnnounceRun(r)
  BY <1>1 DEF AnnounceRun, Terminal
<1>2. CASE Execute(r)
  BY <1>2 DEF Execute, NoAnswer, Terminal
<1>3. CASE RecordOutcome(r)
  BY <1>3 DEF RecordOutcome, Terminal
<1>4. CASE AddMany(r)
  BY <1>4 DEF AddMany, Terminal
<1>5. CASE CommitRun(r)
  <2>1. rows'[r] = answer'[r].tables /\ runs'[r] = answer'[r].status
    BY <1>5 DEF CommitRun, Table
  <2>2. AllOrNothing'
    BY <2>1, RunFrame
  <2>3. RunsInStep'
    BY <1>5, <2>1, RunFrame DEF CommitRun, Terminal
  <2> QED BY <2>2, <2>3
<1> QED BY <1>1, <1>2, <1>3, <1>4, <1>5 DEF RunPipeline

LEMMA StoreInvRun ==
  ASSUME StoreInv, NEW r \in Run, RunPipeline(r)
  PROVE  StoreInv'
<1>1. StoreTypeOK' /\ AllOrNothing' /\ RunsInStep'
  BY TypeRun, RunsInStepRun
<1>2. DomainsHeld'
  BY RunFrame DEF StoreInv, DomainsHeld, Request
<1>3. PositionIffVisible'
  BY RunStores, RowsAreStored DEF StoreInv, PositionIffVisible
\* The run a recheck is for is finished, so the step is not of that run.
<1>4. RechecksInStep'
  <2>1. phase[r] \in {"idle", "executing", "answered", "writing"}
    BY DEF RunPipeline, AnnounceRun, Execute, RecordOutcome, AddMany, CommitRun, Goes, Ends
  <2>2. runs[r] \notin Terminal
    BY <2>1 DEF StoreInv, RunsInStep, Terminal
  <2>3. ASSUME NEW k \in Recheck PROVE phase'[k] = phase[k] /\ k # "run"
    BY RunFrame DEF Request
  <2>4. ASSUME NEW k \in Recheck, phase'[k] \notin Ended, NEW s \in Run, stored'[s] # Unmeasured
        PROVE  stored'[s].by # k
    BY <2>3, <2>4, RunStores DEF StoreInv, RechecksInStep
  <2>5. ASSUME NEW k \in Recheck, phase[k] \in {"measuring", "measured", "loaded"}
        PROVE  rows'[target[k]] = rows[target[k]] /\ runs'[target[k]] = runs[target[k]]
    BY <2>2, <2>5, RunFrame DEF StoreInv, RechecksInStep
  <2> QED BY <2>3, <2>4, <2>5, RunFrame DEF StoreInv, RechecksInStep
<1> QED BY <1>1, <1>2, <1>3, <1>4 DEF StoreInv

\* The case of a recheck.
LEMMA RecheckFrame ==
  ASSUME StoreInv, NEW k \in Recheck, RecheckQuery(k)
  PROVE  /\ UNCHANGED <<profiles, runs, rows, staged, answer>>
         /\ \A q \in Request \ {k} : phase'[q] = phase[q]
         /\ \A h \in Recheck \ {k} : /\ target'[h] = target[h] /\ before'[h] = before[h]
                                     /\ loaded'[h] = loaded[h] /\ after'[h] = after[h]
<1> USE DEF StoreInv, StoreTypeOK, database, Goes, Ends
<1>1. CASE ReadQuery(k)
  BY <1>1 DEF ReadQuery
<1>2. CASE Remeasure(k)
  BY <1>2 DEF Remeasure
<1>3. CASE ReturnUntouched(k)
  BY <1>3 DEF ReturnUntouched
<1>4. CASE SelectForSave(k)
  BY <1>4 DEF SelectForSave
<1>5. CASE CommitSave(k)
  BY <1>5 DEF CommitSave
<1> QED BY <1>1, <1>2, <1>3, <1>4, <1>5 DEF RecheckQuery

\* The row that the UPDATE of a recheck would leave
NewRow(k) == Updated(after[k].query, loaded[k], stored[target[k]])

\* It is the recheck's, column by column what it measured or what is there, and exactly
\* what it measured if nobody else has committed since its SELECT.
LEMMA Updates ==
  ASSUME StoreInv, NEW k \in Recheck, phase[k] = "loaded"
  PROVE  /\ NewRow(k) \in Row /\ NewRow(k).by = k
         /\ NewRow(k).status \in {stored[target[k]].status, after[k].query.status}
         /\ NewRow(k).position \in {stored[target[k]].position, after[k].query.position}
         /\ stored[target[k]] = loaded[k] => NewRow(k) = after[k].query
<1> DEFINE new == after[k].query
           old == loaded[k]
           now == stored[target[k]]
<1>1. /\ target[k] \in Run /\ "queries" \in rows[target[k]]
      /\ new \in Measurement /\ new.by = k
      /\ old \in Measurement /\ old.by # k
  BY DEF StoreInv, RechecksInStep
<1>2. now \in Row
  BY <1>1 DEF StoreInv, StoreTypeOK
<1>3. new \in Row /\ old \in Row
  BY <1>1, RowsAreStored
<1>4. NewRow(k) = Updated(new, old, now)
  BY DEF NewRow
<1> HIDE DEF new, old, now
<1>5. /\ Updated(new, old, now) \in Row /\ Updated(new, old, now).by = k
      /\ Updated(new, old, now).status \in {now.status, new.status}
      /\ Updated(new, old, now).position \in {now.position, new.position}
  BY <1>1, <1>2, <1>3 DEF Updated, Column, Row
<1>6. Updated(new, now, now) = new
  BY <1>2, <1>3 DEF Updated, Column, Row
<1> QED BY <1>4, <1>5, <1>6 DEF new, old, now

\* A recheck leaves the rows as they were or, saving, its target with NewRow.
LEMMA Saved ==
  ASSUME StoreInv, NEW k \in Recheck, RecheckQuery(k)
  PROVE  \/ stored' = stored
         \/ /\ phase[k] = "loaded" /\ phase'[k] \in Ended
            /\ after[k].status = "completed" /\ after[k].query.by = k
            /\ target[k] \in Run /\ "queries" \in rows[target[k]]
            /\ runs[target[k]] \in Terminal
            /\ NewRow(k) \in Measurement
            /\ stored' = [stored EXCEPT ![target[k]] = NewRow(k)]
<1>1. CASE CommitSave(k) /\ stored' # stored
  <2>1. phase[k] = "loaded" /\ Paired(NewRow(k)) /\ Ends(k, "loaded")
        /\ stored' = [stored EXCEPT ![target[k]] = NewRow(k)]
    BY <1>1 DEF CommitSave, NewRow
  <2>2. phase'[k] \in Ended
    BY <2>1 DEF Ends, Goes, StoreInv, StoreTypeOK, Request
  <2>3. NewRow(k) \in Measurement
    BY <2>1, Updates, RowsAreStored
  <2> QED BY <2>1, <2>2, <2>3 DEF StoreInv, RechecksInStep
<1>2. CASE stored' = stored
  BY <1>2
<1> QED BY <1>1, <1>2 DEF RecheckQuery, ReadQuery, Remeasure, ReturnUntouched, SelectForSave, database

Outcome == [status : Terminal \cup {"none"}, query : Row \cup {Unmeasured}]

LEMMA Remeasured ==
  ASSUME StoreInv, NEW k \in Recheck, Remeasure(k)
  PROVE  /\ after' \in [Recheck -> Outcome]
         /\ after'[k].query \in Measurement
         /\ after'[k].status = "completed" => after'[k].query.by = k
<1>1. before[k] \in Measurement
  BY DEF Remeasure, Goes, StoreInv, RechecksInStep
<1>2. PICK o \in [status : {"completed"}, query : {m \in Measurement : m.by = k}]
                 \cup [status : {"partial", "failed"}, query : {before[k]}] :
        after' = [after EXCEPT ![k] = o]
  BY DEF Remeasure
<1>3. o.query \in Measurement /\ (o.status = "completed" => o.query.by = k)
  BY <1>1, <1>2
<1>4. o \in Outcome
  BY <1>2, <1>3, RowsAreStored DEF Outcome, Terminal
<1>5. after \in [Recheck -> Outcome]
  BY DEF StoreInv, StoreTypeOK, Outcome
<1>6. after'[k] = o /\ after' \in [Recheck -> Outcome]
  BY <1>2, <1>4, <1>5
<1> QED BY <1>3, <1>6

LEMMA TypeRecheck ==
  ASSUME StoreInv, NEW k \in Recheck, RecheckQuery(k)
  PROVE  StoreTypeOK'
<1>1. stored' \in [Run -> Row \cup {Unmeasured}]
  BY Saved, RowsAreStored DEF StoreInv, StoreTypeOK
<1>2. \A r \in Run : stored'[r] # Unmeasured <=> "queries" \in rows'[r]
  BY Saved, RecheckFrame, RowsAreStored DEF StoreInv, StoreTypeOK
<1>3. phase' \in [Request -> InFlight \cup Ended \cup {"idle"}]
  BY DEF RecheckQuery, ReadQuery, Remeasure, ReturnUntouched, SelectForSave, CommitSave,
         Goes, Ends, StoreInv, StoreTypeOK, InFlight, Ended
<1>4. /\ target' \in [Recheck -> Run \cup {"none"}]
      /\ before' \in [Recheck -> Row \cup {Unmeasured}]
  BY DEF RecheckQuery, ReadQuery, Remeasure, ReturnUntouched, SelectForSave, CommitSave,
         StoreInv, StoreTypeOK
<1>5. loaded' \in [Recheck -> Row \cup {Unmeasured}]
  <2>1. CASE SelectForSave(k)
    <3>1. target[k] \in Run
      BY <2>1 DEF SelectForSave, Goes, StoreInv, RechecksInStep
    <3> QED BY <2>1, <3>1 DEF SelectForSave, StoreInv, StoreTypeOK
  <2> QED BY <2>1 DEF RecheckQuery, ReadQuery, Remeasure, ReturnUntouched, CommitSave,
                      StoreInv, StoreTypeOK
<1>6. after' \in [Recheck -> Outcome]
  <2>1. after \in [Recheck -> Outcome]
    BY DEF StoreInv, StoreTypeOK, Outcome
  <2>2. CASE Remeasure(k)
    BY <2>2, Remeasured
  <2>3. CASE after' = after
    BY <2>1, <2>3
  <2> QED BY <2>2, <2>3 DEF RecheckQuery, ReadQuery, ReturnUntouched, SelectForSave, CommitSave
<1> QED BY <1>1, <1>2, <1>3, <1>4, <1>5, <1>6, RecheckFrame DEF StoreInv, StoreTypeOK, Outcome

\* The condition on the recheck that makes the step.
LEMMA OneRecheckInStep ==
  ASSUME StoreInv, NEW k \in Recheck, RecheckQuery(k), phase'[k] \notin Ended
  PROVE  /\ target'[k] \in Run /\ "queries" \in rows[target'[k]]
         /\ runs[target'[k]] \in Terminal /\ before'[k] \in Measurement
         /\ phase'[k] \in {"measured", "loaded"} =>
              /\ after'[k].query \in Measurement
              /\ after'[k].status = "completed" => after'[k].query.by = k
         /\ phase'[k] = "loaded" =>
              /\ after'[k].status = "completed"
              /\ loaded'[k] \in Measurement /\ loaded'[k].by # k
<1> USE DEF Goes, Ends, Ended, Request
<1>1. CASE ReadQuery(k)
  <2>1. PICK r \in Run : /\ "queries" \in rows[r]
                         /\ target' = [target EXCEPT ![k] = r]
                         /\ before' = [before EXCEPT ![k] = stored[r]]
    BY <1>1 DEF ReadQuery
  <2>2. stored[r] \in Measurement
    BY <2>1, RowsAreStored DEF StoreInv, StoreTypeOK, PositionIffVisible
  <2>3. runs[r] \in Terminal
    BY <2>1 DEF StoreInv, StoreTypeOK, AllOrNothing, Terminal
  <2>4. target'[k] = r /\ before'[k] = stored[r] /\ phase'[k] = "measuring"
    BY <1>1, <2>1 DEF ReadQuery, StoreInv, StoreTypeOK
  <2> QED BY <2>1, <2>2, <2>3, <2>4
<1>2. CASE Remeasure(k)
  <2>1. phase[k] = "measuring" /\ phase'[k] = "measured" /\ UNCHANGED <<target, before>>
    BY <1>2 DEF Remeasure, StoreInv, StoreTypeOK
  <2> QED BY <1>2, <2>1, Remeasured DEF StoreInv, RechecksInStep
<1>3. CASE SelectForSave(k)
  <2>1. /\ phase[k] = "measured" /\ phase'[k] = "loaded" /\ UNCHANGED <<target, before, after>>
        /\ loaded'[k] = stored[target[k]] /\ after[k].status = "completed"
    BY <1>3 DEF SelectForSave, StoreInv, StoreTypeOK
  <2>2. target[k] \in Run /\ "queries" \in rows[target[k]]
    BY <2>1 DEF StoreInv, RechecksInStep
  <2>3. stored[target[k]] # Unmeasured
    BY <2>2 DEF StoreInv, StoreTypeOK
  <2>4. stored[target[k]] \in Measurement
    BY <2>2, <2>3, RowsAreStored DEF StoreInv, StoreTypeOK, PositionIffVisible
  <2>5. stored[target[k]].by # k
    BY <2>1, <2>2, <2>3 DEF StoreInv, RechecksInStep
  <2> QED BY <2>1, <2>4, <2>5 DEF StoreInv, RechecksInStep
<1>4. CASE ReturnUntouched(k) \/ CommitSave(k)
  BY <1>4 DEF ReturnUntouched, CommitSave, StoreInv, StoreTypeOK
<1> QED BY <1>1, <1>2, <1>3, <1>4 DEF RecheckQuery

LEMMA RechecksInStepRecheck ==
  ASSUME StoreInv, NEW k \in Recheck, RecheckQuery(k)
  PROVE  RechecksInStep'
<1>1. phase[k] \notin Ended
  BY DEF RecheckQuery, ReadQuery, Remeasure, ReturnUntouched, SelectForSave, CommitSave, Goes, Ends, Ended
<1>2. ASSUME NEW h \in Recheck, phase'[h] \notin Ended, NEW r \in Run, stored'[r] # Unmeasured
      PROVE  stored'[r].by # h
  <2>1. h # k => phase'[h] = phase[h]
    BY RecheckFrame DEF Request
  <2>2. phase[h] \notin Ended
    BY <1>1, <1>2, <2>1
  <2>3. stored[r] # Unmeasured => stored[r].by # h
    BY <2>2 DEF StoreInv, RechecksInStep
  <2>4. CASE stored' = stored
    BY <1>2, <2>3, <2>4
  <2>5. CASE stored' # stored
    <3>1. /\ phase[k] = "loaded" /\ phase'[k] \in Ended /\ target[k] \in Run
          /\ stored' = [stored EXCEPT ![target[k]] = NewRow(k)]
      BY <2>5, Saved
    <3>2. NewRow(k).by = k /\ h # k
      BY <1>2, <3>1, Updates
    <3>3. stored'[r] = stored[r] \/ stored'[r] = NewRow(k)
      BY <3>1 DEF StoreInv, StoreTypeOK
    <3> QED BY <1>2, <2>3, <3>2, <3>3
  <2> QED BY <2>4, <2>5
<1>3. ASSUME NEW h \in Recheck, h # k
      PROVE  /\ phase'[h] = phase[h] /\ target'[h] = target[h] /\ before'[h] = before[h]
             /\ loaded'[h] = loaded[h] /\ after'[h] = after[h]
  BY <1>3, RecheckFrame DEF Request
<1>4. rows' = rows /\ runs' = runs
  BY RecheckFrame
<1>5. "measuring" \notin Ended /\ "measured" \notin Ended /\ "loaded" \notin Ended
  BY DEF Ended
<1> QED BY <1>2, <1>3, <1>4, <1>5, OneRecheckInStep DEF StoreInv, RechecksInStep

LEMMA StoreInvRecheck ==
  ASSUME StoreInv, NEW k \in Recheck, RecheckQuery(k)
  PROVE  StoreInv'
<1>1. DomainsHeld' /\ AllOrNothing' /\ RunsInStep'
  BY RecheckFrame DEF StoreInv, DomainsHeld, AllOrNothing, RunsInStep, Request
<1>2. PositionIffVisible'
  BY Saved, RowsAreStored DEF StoreInv, StoreTypeOK, PositionIffVisible
<1> QED BY <1>1, <1>2, TypeRecheck, RechecksInStepRecheck DEF StoreInv

\* Stopping requests in flight, one or all, is harmless: their sessions are gone.
LEMMA StoreInvStop ==
  ASSUME StoreInv, NEW S \in SUBSET {q \in Request : phase[q] \in InFlight}, Stop(S),
         UNCHANGED <<database, answer, target, before, loaded, after>>
  PROVE  StoreInv'
<1> USE DEF StoreInv, Stop, database
<1>1. StoreTypeOK'
  BY DEF StoreTypeOK, Ended
<1>2. DomainsHeld'
  BY DEF DomainsHeld, Request
<1>3. AllOrNothing' /\ PositionIffVisible' /\ RunsInStep'
  BY DEF StoreTypeOK, AllOrNothing, PositionIffVisible, RunsInStep, Request, InFlight
<1>4. RechecksInStep'
  <2>1. \A k \in Recheck : phase'[k] = phase[k] \/ phase'[k] = "raised"
    BY DEF Request
  <2> QED BY <2>1 DEF RechecksInStep, Ended
<1> QED BY <1>1, <1>2, <1>3, <1>4

LEMMA StoreInvStep == StoreInv /\ [Next]_storeVars => StoreInv'
<1> SUFFICES ASSUME StoreInv, [Next]_storeVars PROVE StoreInv'
  OBVIOUS
<1>1. CASE \E a \in Applicant : Register(a)
  BY <1>1, StoreInvRegister
<1>2. CASE \E r \in Run : RunPipeline(r)
  BY <1>2, StoreInvRun
<1>3. CASE \E k \in Recheck : RecheckQuery(k)
  BY <1>3, StoreInvRecheck
<1>4. CASE \E q \in Request : Exit(q)
  BY <1>4, StoreInvStop DEF Exit
<1>5. CASE Crash
  BY <1>5, StoreInvStop DEF Crash
<1>6. CASE UNCHANGED storeVars
  BY <1>6 DEF storeVars, database, StoreInv, StoreTypeOK, DomainsHeld, AllOrNothing,
              PositionIffVisible, RunsInStep, RechecksInStep
<1> QED BY <1>1, <1>2, <1>3, <1>4, <1>5, <1>6 DEF Next

LEMMA StoreInvHolds == Spec => []StoreInv
BY StoreInvInit, StoreInvStep, PTL DEF Spec

\* Each table and each request's locals stay what the code declares, a query row
\* always has a measurement, whoever is interrupted.
THEOREM StoreTypeCorrect == Spec => []StoreTypeOK
<1>1. StoreInv => StoreTypeOK
  BY DEF StoreInv
<1> QED BY <1>1, StoreInvHolds, PTL

\* No interleaving of registrations gives one domain two profiles.
THEOREM DomainsUnique == Spec => []UniqueDomains
<1>1. StoreInv => UniqueDomains
  BY DEF StoreInv, StoreTypeOK, DomainsHeld, UniqueDomains
<1> QED BY <1>1, StoreInvHolds, PTL

\* Whatever stops a run's request, its results are stored whole or not at all.
THEOREM ResultsWhole == Spec => []AllOrNothing
<1>1. StoreInv => AllOrNothing
  BY DEF StoreInv
<1> QED BY <1>1, StoreInvHolds, PTL

\* No execution of the graph is without a trace in the table of runs.
THEOREM RunsTraced == Spec => []EveryRunLeavesARow
<1>1. StoreInv => EveryRunLeavesARow
  BY DEF StoreInv, RunsInStep, EveryRunLeavesARow, Terminal
<1> QED BY <1>1, StoreInvHolds, PTL

\* No blend of the columns of several rechecks has a position without being visible.
THEOREM PositionsPaired == Spec => []PositionIffVisible
<1>1. StoreInv => PositionIffVisible
  BY DEF StoreInv
<1> QED BY <1>1, StoreInvHolds, PTL

\* No interleaving of rechecks brings an old measurement back: whatever others have
\* committed since its SELECT, each column a recheck leaves is what it has just measured
\* or what was stored when it committed, and without such a commit it leaves its own.
THEOREM MeasurementsFresh == Spec => NoMeasurementReturns
<1> DEFINE Saves(k, r) ==
      /\ target[k] = r /\ phase[k] = "loaded" /\ after[k].status = "completed"
      /\ stored'[r].by = k /\ after[k].query.by = k
      /\ stored'[r].status \in {stored[r].status, after[k].query.status}
      /\ stored'[r].position \in {stored[r].position, after[k].query.position}
      /\ stored[r] = loaded[k] => stored'[r] = after[k].query
<1>1. ASSUME StoreInv, [Next]_storeVars, NEW r \in Run, stored'[r] # stored[r]
      PROVE  \/ stored[r] = Unmeasured /\ phase[r] = "writing"
             \/ \E k \in Recheck : Saves(k, r)
  <2>1. CASE \E s \in Run : RunPipeline(s)
    <3>1. PICK s \in Run : RunPipeline(s)
      BY <2>1
    <3>2. s = r
      BY <3>1, <1>1, RunFrame
    <3>3. CommitRun(r)
      BY <1>1, <3>1, <3>2 DEF RunPipeline, AnnounceRun, Execute, RecordOutcome, AddMany, database
    <3>4. phase[r] = "writing" /\ rows[r] = {}
      BY <3>3, <1>1 DEF CommitRun, Ends, Goes, StoreInv, RunsInStep, AllOrNothing, Terminal
    <3> QED BY <3>4, <1>1 DEF StoreInv, StoreTypeOK
  <2>2. CASE \E k \in Recheck : RecheckQuery(k)
    <3>1. PICK k \in Recheck : RecheckQuery(k)
      BY <2>2
    <3>2. /\ phase[k] = "loaded" /\ target[k] \in Run
          /\ after[k].status = "completed" /\ after[k].query.by = k
          /\ stored' = [stored EXCEPT ![target[k]] = NewRow(k)]
      BY <1>1, <3>1, Saved
    <3>3. target[k] = r /\ stored'[r] = NewRow(k)
      BY <1>1, <3>2 DEF StoreInv, StoreTypeOK
    <3>4. Saves(k, r)
      BY <1>1, <3>2, <3>3, Updates
    <3> QED BY <3>4
  <2>3. CASE \E a \in Applicant : Register(a)
    BY <2>3, <1>1, RegisterFrame
  <2>4. CASE (\E q \in Request : Exit(q)) \/ Crash \/ UNCHANGED storeVars
    BY <1>1, <2>4 DEF Exit, Crash, storeVars, database
  <2> QED BY <2>1, <2>2, <2>3, <2>4, <1>1 DEF Next
<1> DEFINE Fresh == \A r \in Run : stored'[r] # stored[r] =>
                      \/ stored[r] = Unmeasured /\ phase[r] = "writing"
                      \/ \E k \in Recheck : Saves(k, r)
<1>2. StoreInv /\ [Next]_storeVars => Fresh
  BY <1>1
<1> QED BY <1>2, StoreInvHolds, PTL DEF Spec, NoMeasurementReturns

-----------------------------------------------------------------------------
(* Refinement of the ledger *)

LEMMA LedgerAtInit == Init => Ledger!LedgerInit
BY DEF Init, Ledger!LedgerInit, Ledger!Absent

LEMMA LedgerRun ==
  ASSUME StoreInv, NEW r \in Run, RunPipeline(r)
  PROVE  [Ledger!LedgerNext]_Ledger!ledgerVars
<1> DEFINE entry(s) == [status |-> runs[s], results |-> rows[s], measurement |-> stored[s]]
           ledger == [s \in Run |-> entry(s)]
<1>1. CASE AnnounceRun(r)
  <2>1. runs[r] = "absent" /\ rows[r] = {} /\ stored[r] = Unmeasured
    BY <1>1 DEF AnnounceRun, Goes, StoreInv, StoreTypeOK, RunsInStep, AllOrNothing, Terminal
  <2>2. ledger' = [ledger EXCEPT ![r] = Ledger!Running]
    BY <1>1, <2>1 DEF AnnounceRun, Ledger!Running, StoreInv, StoreTypeOK
  <2>3. ledger[r] = Ledger!Absent
    BY <2>1 DEF Ledger!Absent
  <2> QED BY <2>2, <2>3 DEF Ledger!ledgerVars, Ledger!LedgerNext, Ledger!Announce
<1>2. CASE CommitRun(r)
  <2>1. runs[r] = "running" /\ rows[r] = {} /\ stored[r] = Unmeasured
    BY <1>2 DEF CommitRun, Ends, Goes, StoreInv, StoreTypeOK, RunsInStep, AllOrNothing, Terminal
  <2>2. StoreTypeOK' /\ RunsInStep /\ StoreTypeOK
    BY TypeRun DEF StoreInv
  <2>3. runs'[r] \in Ledger!Terminal
    BY <1>2, <2>2 DEF CommitRun, Ends, Goes, RunsInStep, StoreTypeOK, Terminal, Ledger!Terminal
  <2>4. /\ rows'[r] \in SUBSET Table /\ stored'[r] \in Measurement \cup {Unmeasured}
        /\ "queries" \in rows'[r] <=> stored'[r] # Unmeasured
    BY <2>1, <2>2, RunStores DEF StoreTypeOK
  <2>5. ledger' = [ledger EXCEPT ![r] = entry(r)']
    <3>1. \A s \in Run \ {r} : entry(s)' = entry(s)
      BY RunFrame
    <3> QED BY <3>1
  <2>6. ledger[r] = Ledger!Running
    BY <2>1 DEF Ledger!Running
  <2>7. \E s \in Ledger!Terminal, T \in SUBSET Table, m \in Measurement \cup {Unmeasured} :
          /\ "queries" \in T <=> m # Unmeasured
          /\ ledger' = [ledger EXCEPT ![r] = [status |-> s, results |-> T, measurement |-> m]]
    <3> USE <2>3, <2>4, <2>5
    <3> WITNESS runs'[r] \in Ledger!Terminal, rows'[r] \in SUBSET Table,
                stored'[r] \in Measurement \cup {Unmeasured}
    <3> QED OBVIOUS
  <2>8. Ledger!Finish(r)
    BY <2>6, <2>7 DEF Ledger!Finish
  <2> QED BY <2>8 DEF Ledger!LedgerNext
<1>3. CASE Execute(r) \/ RecordOutcome(r) \/ AddMany(r)
  BY <1>3 DEF Execute, RecordOutcome, AddMany, database, Ledger!ledgerVars
<1> QED BY <1>1, <1>2, <1>3 DEF RunPipeline

LEMMA LedgerRecheck ==
  ASSUME StoreInv, NEW k \in Recheck, RecheckQuery(k)
  PROVE  [Ledger!LedgerNext]_Ledger!ledgerVars
<1> DEFINE ledger == [s \in Run |->
             [status |-> runs[s], results |-> rows[s], measurement |-> stored[s]]]
           t == target[k]
<1>1. CASE stored' # stored
  <2>1. /\ t \in Run /\ NewRow(k) \in Measurement
        /\ "queries" \in rows[t] /\ runs[t] \in Terminal
        /\ stored' = [stored EXCEPT ![t] = NewRow(k)]
    BY <1>1, Saved
  <2>2. ledger' = [ledger EXCEPT ![t].measurement = NewRow(k)]
    BY <2>1, RecheckFrame DEF StoreInv, StoreTypeOK
  <2> QED BY <2>1, <2>2 DEF Ledger!ledgerVars, Ledger!LedgerNext, Ledger!Renew, Terminal, Ledger!Terminal
<1>2. CASE UNCHANGED stored
  BY <1>2, RecheckFrame DEF Ledger!ledgerVars
<1> QED BY <1>1, <1>2

LEMMA LedgerStep == StoreInv /\ [Next]_storeVars => [Ledger!LedgerNext]_Ledger!ledgerVars
<1> SUFFICES ASSUME StoreInv, [Next]_storeVars PROVE [Ledger!LedgerNext]_Ledger!ledgerVars
  OBVIOUS
<1>1. CASE \E r \in Run : RunPipeline(r)
  BY <1>1, LedgerRun
<1>2. CASE \E k \in Recheck : RecheckQuery(k)
  BY <1>2, LedgerRecheck
<1>3. CASE \E a \in Applicant : Register(a)
  BY <1>3, RegisterFrame DEF Ledger!ledgerVars
<1>4. CASE (\E q \in Request : Exit(q)) \/ Crash \/ UNCHANGED storeVars
  BY <1>4 DEF Exit, Crash, storeVars, database, Ledger!ledgerVars
<1> QED BY <1>1, <1>2, <1>3, <1>4 DEF Next

\* Readers of the records see every run announced, finished once and whole, and then
\* only re-measured, however requests interleave and wherever they stop.
THEOREM StoreImplementsLedger == Spec => ImplementsLedger
BY LedgerAtInit, LedgerStep, StoreInvHolds, PTL DEF Spec, ImplementsLedger, Ledger!LedgerSpec

-----------------------------------------------------------------------------
(* How far each request is from its end *)

\* An upper bound of the steps a request has left, one for each table to be written included.
Missing(r) == answer[r].tables \ staged[r]

StepsLeft(q) ==
  IF phase[q] = "writing" THEN 1 + Cardinality(Missing(q))
  ELSE IF phase[q] = "idle" THEN 7
  ELSE IF phase[q] = "executing" THEN 6
  ELSE IF phase[q] = "answered" THEN 5
  ELSE IF phase[q] = "measuring" THEN 3
  ELSE IF phase[q] \in {"checked", "measured"} THEN 2
  ELSE IF phase[q] \in {"inserted", "loaded"} THEN 1
  ELSE 0

LEMMA TablesOfSession ==
  \A S \in SUBSET Table : /\ IsFiniteSet(S) /\ Cardinality(S) \in 0 .. 3
                         /\ \A t \in S : Cardinality(S \ {t}) = Cardinality(S) - 1
<1>1. IsFiniteSet(Table) /\ Cardinality(Table) = 3
  <2>1. IsFiniteSet({}) /\ Cardinality({}) = 0
    BY FS_EmptySet
  <2>2. IsFiniteSet({"queries"}) /\ Cardinality({"queries"}) = 1
    BY FS_Singleton
  <2>3. IsFiniteSet({"queries", "insights"}) /\ Cardinality({"queries", "insights"}) = 2
    <3>1. {"queries", "insights"} = {"queries"} \cup {"insights"} /\ "insights" \notin {"queries"}
      OBVIOUS
    <3> QED BY ONLY <2>2, <3>1, FS_AddElement
  <2>4. Table = {"queries", "insights"} \cup {"recommendations"}
    BY DEF Table
  <2>5. "recommendations" \notin {"queries", "insights"}
    OBVIOUS
  <2> QED BY ONLY <2>3, <2>4, <2>5, FS_AddElement
<1>2. ASSUME NEW S \in SUBSET Table
      PROVE  /\ IsFiniteSet(S) /\ Cardinality(S) \in 0 .. 3
             /\ \A t \in S : Cardinality(S \ {t}) = Cardinality(S) - 1
  <2>1. IsFiniteSet(S) /\ Cardinality(S) <= 3
    BY <1>1, FS_Subset
  <2>2. Cardinality(S) \in Nat
    BY <2>1, FS_CardinalityType
  <2> QED BY <2>1, <2>2, FS_RemoveElement
<1> QED BY <1>2

\* Only a run's request writes results.
OnlyRunsWrite == \A q \in Applicant \cup Recheck : phase[q] # "writing"

Bounded == \A q \in Request : StepsLeft(q) \in 0 .. 7

LEMMA StepsBounded == StoreTypeOK /\ OnlyRunsWrite => Bounded
<1> SUFFICES ASSUME StoreTypeOK, OnlyRunsWrite, NEW q \in Request PROVE StepsLeft(q) \in 0 .. 7
  BY DEF Bounded
<1>1. phase[q] \in InFlight \cup Ended \cup {"idle"}
  BY DEF StoreTypeOK
<1>2. phase[q] = "writing" => 1 + Cardinality(Missing(q)) \in 1 .. 4
  <2>1. phase[q] = "writing" => q \in Run
    BY DEF OnlyRunsWrite, Request
  <2>2. q \in Run => Cardinality(Missing(q)) \in 0 .. 3
    BY TablesOfSession DEF StoreTypeOK, Missing
  <2> QED BY <2>1, <2>2
<1> QED BY <1>1, <1>2 DEF StepsLeft, InFlight, Ended

\* After a step as before it.
LEMMA StepsBoundedNext == StoreTypeOK' /\ OnlyRunsWrite' => Bounded'
BY StepsBounded, PTL

\* One request goes on, the others stay where they are.
Advances(q) ==
  /\ StepsLeft(q)' < StepsLeft(q)
  /\ \A p \in Request \ {q} : phase'[p] = phase[p] /\ StepsLeft(p)' = StepsLeft(p)

LEMMA RegisterAdvances ==
  ASSUME StoreInv, OnlyRunsWrite, NEW a \in Applicant, Register(a)
  PROVE  Advances(a) /\ phase'[a] # "writing"
<1>1. /\ \A p \in Request \ {a} : phase'[p] = phase[p]
      /\ UNCHANGED <<answer, staged>>
  BY RegisterFrame DEF StoreInv, StoreTypeOK
<1>2. \A p \in Request \ {a} : StepsLeft(p)' = StepsLeft(p)
  BY <1>1 DEF StepsLeft, Missing
<1>3. \/ phase[a] = "idle" /\ phase'[a] \in {"checked", "raised"}
      \/ phase[a] = "checked" /\ phase'[a] \in {"inserted", "raised"}
      \/ phase[a] = "inserted" /\ phase'[a] \in Ended
  BY DEF Register, CheckDomain, InsertProfile, CommitProfile, Goes, Ends, StoreInv, StoreTypeOK, Request
<1>4. StepsLeft(a)' < StepsLeft(a) /\ phase'[a] # "writing"
  BY <1>3 DEF StepsLeft, Ended
<1> QED BY <1>1, <1>2, <1>4 DEF Advances

LEMMA RecheckAdvances ==
  ASSUME StoreInv, OnlyRunsWrite, NEW k \in Recheck, RecheckQuery(k)
  PROVE  Advances(k) /\ phase'[k] # "writing"
<1>1. (\A p \in Request \ {k} : phase'[p] = phase[p]) /\ UNCHANGED <<answer, staged>>
  BY RecheckFrame
<1>2. \A p \in Request \ {k} : StepsLeft(p)' = StepsLeft(p)
  BY <1>1 DEF StepsLeft, Missing
<1>3. \/ phase[k] = "idle" /\ phase'[k] = "measuring"
      \/ phase[k] = "measuring" /\ phase'[k] = "measured"
      \/ phase[k] = "measured" /\ phase'[k] \in Ended \cup {"loaded"}
      \/ phase[k] = "loaded" /\ phase'[k] \in Ended
  BY DEF RecheckQuery, ReadQuery, Remeasure, ReturnUntouched, SelectForSave, CommitSave,
         Goes, Ends, Ended, StoreInv, StoreTypeOK, Request
<1>4. StepsLeft(k)' < StepsLeft(k) /\ phase'[k] # "writing"
  BY <1>3 DEF StepsLeft, Ended
<1> QED BY <1>1, <1>2, <1>4 DEF Advances

LEMMA RunRequestAdvances ==
  ASSUME StoreInv, OnlyRunsWrite, StoreTypeOK', NEW r \in Run, RunPipeline(r)
  PROVE  Advances(r)
<1>1. /\ \A p \in Request \ {r} : phase'[p] = phase[p]
      /\ \A p \in Run \ {r} : answer'[p] = answer[p] /\ staged'[p] = staged[p]
  BY RunFrame
<1>2. ASSUME NEW p \in Request \ {r} PROVE StepsLeft(p)' = StepsLeft(p)
  <2>1. phase'[p] = phase[p]
    BY <1>1
  <2>2. CASE p \in Run
    BY <1>1, <2>1, <2>2 DEF StepsLeft, Missing
  <2>3. CASE p \notin Run
    <3>1. phase[p] # "writing"
      BY <2>3 DEF OnlyRunsWrite, Request
    <3> QED BY <2>1, <3>1 DEF StepsLeft
  <2> QED BY <2>2, <2>3
<1>3. /\ Missing(r) \in SUBSET Table /\ Missing(r)' \in SUBSET Table
      /\ Cardinality(Missing(r)) \in 0 .. 3 /\ Cardinality(Missing(r)') \in 0 .. 3
  BY TablesOfSession DEF StoreInv, StoreTypeOK, Missing
<1>4. ASSUME AddMany(r) PROVE StepsLeft(r)' < StepsLeft(r)
  <2>1. PICK t \in Missing(r) : staged' = [staged EXCEPT ![r] = @ \cup {t}]
    BY <1>4 DEF AddMany, Missing
  <2>2. phase[r] = "writing" /\ phase'[r] = "writing" /\ Missing(r)' = Missing(r) \ {t}
    BY <1>4, <2>1 DEF AddMany, StoreInv, StoreTypeOK, Missing
  <2>3. Cardinality(Missing(r)') = Cardinality(Missing(r)) - 1
    BY <1>3, <2>1, <2>2, TablesOfSession
  <2>4. StepsLeft(r) = 1 + Cardinality(Missing(r)) /\ StepsLeft(r)' = 1 + Cardinality(Missing(r)')
    BY <2>2 DEF StepsLeft
  <2> QED BY <1>3, <2>3, <2>4
<1>5. ASSUME AnnounceRun(r) \/ Execute(r) \/ RecordOutcome(r) \/ CommitRun(r)
      PROVE  StepsLeft(r)' < StepsLeft(r)
  <2>1. \/ phase[r] = "idle" /\ phase'[r] = "executing"
        \/ phase[r] = "executing" /\ phase'[r] = "answered"
        \/ phase[r] = "answered" /\ phase'[r] \in {"writing", "raised"}
        \/ phase[r] = "writing" /\ phase'[r] \in Ended
    BY <1>5 DEF AnnounceRun, Execute, RecordOutcome, CommitRun, Goes, Ends, StoreInv, StoreTypeOK, Request
  <2>2. /\ phase[r] = "writing" => StepsLeft(r) = 1 + Cardinality(Missing(r))
        /\ phase'[r] = "writing" => StepsLeft(r)' = 1 + Cardinality(Missing(r)')
    BY DEF StepsLeft
  <2> QED BY <1>3, <2>1, <2>2 DEF StepsLeft, Ended
<1>6. StepsLeft(r)' < StepsLeft(r)
  BY <1>4, <1>5 DEF RunPipeline
<1> QED BY <1>1, <1>2, <1>6 DEF Advances

\* An exception or the death of the process ends requests and leaves the others alone.
LEMMA StopAdvances ==
  ASSUME StoreInv, OnlyRunsWrite, NEW S \in SUBSET {q \in Request : phase[q] \in InFlight}, Stop(S),
         UNCHANGED answer
  PROVE  /\ \A q \in S : StepsLeft(q)' < StepsLeft(q)
         /\ \A q \in Request \ S : StepsLeft(q)' = StepsLeft(q)
         /\ OnlyRunsWrite'
<1>1. ASSUME NEW q \in S PROVE StepsLeft(q)' < StepsLeft(q)
  <2>1. phase'[q] = "raised" /\ phase[q] \in InFlight
    BY DEF Stop
  <2>2. StepsLeft(q)' = 0
    BY <2>1 DEF StepsLeft, Ended
  <2>3. phase[q] = "writing" => 1 + Cardinality(Missing(q)) > 0
    <3>1. phase[q] = "writing" => q \in Run
      BY DEF OnlyRunsWrite, Request
    <3>2. q \in Run => Cardinality(Missing(q)) \in 0 .. 3
      BY TablesOfSession DEF StoreInv, StoreTypeOK, Missing
    <3> QED BY <3>1, <3>2
  <2>4. StepsLeft(q) > 0
    BY <2>1, <2>3 DEF StepsLeft, InFlight
  <2> QED BY <2>2, <2>4
<1>2. ASSUME NEW q \in Request \ S PROVE StepsLeft(q)' = StepsLeft(q)
  <2>1. phase'[q] = phase[q] /\ (q \in Run => staged'[q] = staged[q])
    BY DEF Stop
  <2>2. phase[q] = "writing" => q \in Run
    BY DEF OnlyRunsWrite, Request
  <2> QED BY <2>1, <2>2 DEF StepsLeft, Missing
<1>3. OnlyRunsWrite'
  BY DEF OnlyRunsWrite, Stop, Request
<1> QED BY <1>1, <1>2, <1>3

LEMMA RequestStep ==
  ASSUME StoreInv, OnlyRunsWrite, Next
  PROVE  /\ OnlyRunsWrite'
         /\ \E q \in Request : StepsLeft(q)' < StepsLeft(q)
         /\ \A q \in Request : StepsLeft(q)' <= StepsLeft(q)
<1>1. StoreTypeOK /\ StoreTypeOK'
  BY StoreInvStep DEF StoreInv
<1>2. \A q \in Request : StepsLeft(q) \in Int
  BY <1>1, StepsBounded DEF Bounded
<1>3. ASSUME NEW q \in Request, Advances(q), OnlyRunsWrite'
      PROVE  /\ \E p \in Request : StepsLeft(p)' < StepsLeft(p)
             /\ \A p \in Request : StepsLeft(p)' <= StepsLeft(p)
  <2>1. \A p \in Request : StepsLeft(p) \in Int /\ StepsLeft(p)' \in Int
    BY <1>1, <1>2, <1>3, StepsBoundedNext DEF Bounded
  <2> QED BY <1>3, <2>1 DEF Advances
<1>4. ASSUME NEW a \in Applicant, Register(a) PROVE a \in Request /\ Advances(a) /\ OnlyRunsWrite'
  BY <1>4, RegisterAdvances DEF Advances, OnlyRunsWrite, Request
<1>5. ASSUME NEW r \in Run, RunPipeline(r) PROVE r \in Request /\ Advances(r) /\ OnlyRunsWrite'
  BY <1>1, <1>5, RunRequestAdvances DEF Advances, OnlyRunsWrite, Request
<1>6. ASSUME NEW k \in Recheck, RecheckQuery(k) PROVE k \in Request /\ Advances(k) /\ OnlyRunsWrite'
  BY <1>6, RecheckAdvances DEF Advances, OnlyRunsWrite, Request
<1>7. ASSUME NEW S \in SUBSET {q \in Request : phase[q] \in InFlight}, S # {}, Stop(S), UNCHANGED answer
      PROVE  /\ OnlyRunsWrite'
             /\ \E q \in Request : StepsLeft(q)' < StepsLeft(q)
             /\ \A q \in Request : StepsLeft(q)' <= StepsLeft(q)
  <2>1. OnlyRunsWrite'
    BY <1>7, StopAdvances
  <2>2. \A p \in Request : StepsLeft(p) \in Int /\ StepsLeft(p)' \in Int
    BY <1>1, <1>2, <2>1, StepsBoundedNext DEF Bounded
  <2>3. /\ \A q \in S : StepsLeft(q)' < StepsLeft(q)
        /\ \A q \in Request \ S : StepsLeft(q)' = StepsLeft(q)
    BY <1>7, StopAdvances
  <2> QED BY <1>7, <2>1, <2>2, <2>3
<1>8. CASE Crash
  BY <1>7, <1>8 DEF Crash
<1>9. ASSUME NEW q \in Request, Exit(q) PROVE {q} \in SUBSET {p \in Request : phase[p] \in InFlight} /\ Stop({q}) /\ UNCHANGED answer
  BY <1>9 DEF Exit
<1> QED BY <1>3, <1>4, <1>5, <1>6, <1>7, <1>8, <1>9 DEF Next

\* Each step is one of the at most seven that some request has, and leaves no request more
\* of them than it had: nobody repeats work, or makes another do so, when an insert collides,
\* a transaction is rolled back or the process dies.  RequestsEnd is this and the event
\* loop's resuming whoever waited (application/use_cases).
THEOREM RequestsAdvance ==
  Spec => /\ []Bounded
          /\ [][ /\ \E q \in Request : StepsLeft(q)' < StepsLeft(q)
                 /\ \A q \in Request : StepsLeft(q)' <= StepsLeft(q) ]_storeVars
<1> DEFINE Forward == /\ \E q \in Request : StepsLeft(q)' < StepsLeft(q)
                      /\ \A q \in Request : StepsLeft(q)' <= StepsLeft(q)
<1>1. Init => OnlyRunsWrite
  BY DEF Init, OnlyRunsWrite, Request
<1>2. StoreInv /\ OnlyRunsWrite /\ [Next]_storeVars => OnlyRunsWrite' /\ [Forward]_storeVars
  <2>1. UNCHANGED storeVars /\ OnlyRunsWrite => OnlyRunsWrite'
    BY DEF storeVars, OnlyRunsWrite
  <2> QED BY <2>1, RequestStep
<1>3. StoreInv /\ OnlyRunsWrite => Bounded
  BY StepsBounded DEF StoreInv
<1> QED BY <1>1, <1>2, <1>3, StoreInvInit, StoreInvStep, PTL DEF Spec
=============================================================================
