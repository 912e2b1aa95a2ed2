------------------------ MODULE CircuitBreakerProofs ------------------------
(***************************************************************************)
(* What holds of the circuit breaker for every set of tasks and every      *)
(* policy: the accounting of its counters, that its history is one of the  *)
(* diagram of its documentation with the three edges for late results, and *)
(* that a slot is only ever held by a probe, running or cancelled.         *)
(***************************************************************************)
EXTENDS CircuitBreaker, FiniteSetTheorems, TLAPS

USE PolicyAssumption, CapAssumption, CallAssumption

BreakerInv == TypeOK /\ SlotAccounting

\* Each action that touches the counters preserves their accounting.
LEMMA InvInit == Init => BreakerInv
BY DEF Init, BreakerInv, TypeOK, SlotAccounting, CircuitState

LEMMA InvAdmit ==
  ASSUME BreakerInv, NEW c \in Call, Admit(c)
  PROVE  BreakerInv'
<1> USE DEF BreakerInv, TypeOK, SlotAccounting, CircuitState
<1>1. CASE AdmitWhileClosed(c)
  BY <1>1 DEF AdmitWhileClosed, SamePeriod, breakerVars
<1>2. CASE AdmitFirstProbe(c)
  BY <1>2 DEF AdmitFirstProbe, NewPeriod
<1>3. CASE AdmitProbe(c)
  BY <1>3 DEF AdmitProbe, SamePeriod
<1>4. CASE Reject(c)
  BY <1>4 DEF Reject, vars
<1> QED BY <1>1, <1>2, <1>3, <1>4 DEF Admit

LEMMA InvFinish ==
  ASSUME BreakerInv, NEW c \in Call, Finish(c)
  PROVE  BreakerInv'
<1> USE DEF BreakerInv, TypeOK, SlotAccounting, CircuitState
<1>1. CASE RecordSuccess(c)
  BY <1>1 DEF RecordSuccess, Close, NewPeriod, SamePeriod, SlotsAfterRelease
<1>2. CASE RecordFailure(c)
  BY <1>2 DEF RecordFailure, CountFailure, Open, NewPeriod, SamePeriod
<1>3. CASE ReleaseProbe(c)
  BY <1>3 DEF ReleaseProbe, SamePeriod, SlotsAfterRelease
<1>4. CASE Cancel(c)
  BY <1>4 DEF Cancel, breakerVars
<1> QED BY <1>1, <1>2, <1>3, <1>4 DEF Finish

LEMMA InvStep == BreakerInv /\ [Next]_vars => BreakerInv'
<1> SUFFICES ASSUME BreakerInv, [Next]_vars PROVE BreakerInv'
  OBVIOUS
<1>1. CASE Tick
  BY <1>1 DEF Tick, BreakerInv, TypeOK, SlotAccounting
<1>2. CASE \E c \in Call : Admit(c) \/ Finish(c)
  BY <1>2, InvAdmit, InvFinish
<1>3. CASE UNCHANGED vars
  BY <1>3 DEF vars, BreakerInv, TypeOK, SlotAccounting
<1> QED BY <1>1, <1>2, <1>3 DEF Next

\* The breaker's variables keep their types: the saturated counters stay in
\* range and no slot count goes below zero, in whatever order results arrive.
THEOREM TypeCorrect == Spec => []TypeOK
<1>1. BreakerInv => TypeOK
  BY DEF BreakerInv
<1> QED BY <1>1, InvInit, InvStep, PTL DEF Spec

\* The quota bounds the slots, and no state sits on enough evidence to leave it.
THEOREM AccountingHolds == Spec => []SlotAccounting
<1>1. BreakerInv => SlotAccounting
  BY DEF BreakerInv
<1> QED BY <1>1, InvInit, InvStep, PTL DEF Spec

-----------------------------------------------------------------------------
(* Refinement of the diagram *)

LEMMA DiagramInit == Init => Diagram!Init
BY DEF Init, Diagram!Init, Evidence

LEMMA DiagramAdmit ==
  ASSUME BreakerInv, NEW c \in Call, Admit(c)
  PROVE  Diagram!Admit(c) \/ Diagram!StartProbing(c) \/ UNCHANGED Diagram!diagramVars
<1> USE DEF Evidence, Diagram!Becomes
<1>1. CASE AdmitWhileClosed(c)
  BY <1>1 DEF AdmitWhileClosed, SamePeriod, breakerVars, Diagram!Admit
<1>2. CASE AdmitFirstProbe(c)
  BY <1>2 DEF AdmitFirstProbe, NewPeriod, BreakerInv, TypeOK, Diagram!StartProbing, Diagram!Enter
<1>3. CASE AdmitProbe(c)
  BY <1>3 DEF AdmitProbe, SamePeriod, Diagram!Admit
<1>4. CASE Reject(c)
  BY <1>4 DEF Reject, vars, Diagram!diagramVars
<1> QED BY <1>1, <1>2, <1>3, <1>4 DEF Admit

\* In a half-open circuit whoever reports is a probe or left over: a normal call
\* was admitted by a closed circuit, in this very period.
LabelsOfPeriod ==
  /\ \A c \in Call : calls[c] = "normal" => state = "closed"
  /\ \A c \in Call : calls[c] = "probe" => state = "half_open"

LEMMA LabelsStep ==
  ASSUME BreakerInv, LabelsOfPeriod, [Next]_vars
  PROVE  LabelsOfPeriod'
<1> USE DEF BreakerInv, TypeOK, LabelsOfPeriod
<1>1. CASE Tick
  BY <1>1 DEF Tick
<1>2. ASSUME NEW c \in Call, Admit(c) PROVE LabelsOfPeriod'
  <2>1. CASE AdmitWhileClosed(c)
    BY <2>1 DEF AdmitWhileClosed, SamePeriod, breakerVars
  <2>2. CASE AdmitFirstProbe(c)
    BY <2>2 DEF AdmitFirstProbe, NewPeriod
  <2>3. CASE AdmitProbe(c)
    BY <2>3 DEF AdmitProbe, SamePeriod
  <2>4. CASE Reject(c)
    BY <2>4 DEF Reject, vars
  <2> QED BY <1>2, <2>1, <2>2, <2>3, <2>4 DEF Admit
<1>3. ASSUME NEW c \in Call, Finish(c) PROVE LabelsOfPeriod'
  <2>1. CASE NewPeriod(c, "idle")
    BY <2>1 DEF NewPeriod
  <2>2. CASE calls' = [calls EXCEPT ![c] = "idle"] /\ state' = state
    BY <2>2
  <2>3. \/ NewPeriod(c, "idle")
        \/ calls' = [calls EXCEPT ![c] = "idle"] /\ state' = state
    BY <1>3 DEF Finish, RecordSuccess, RecordFailure, ReleaseProbe, Cancel, Open, Close,
                SamePeriod, breakerVars
  <2> QED BY <2>1, <2>2, <2>3
<1>4. CASE UNCHANGED vars
  BY <1>4 DEF vars
<1> QED BY <1>1, <1>2, <1>3, <1>4 DEF Next

LEMMA DiagramSuccess ==
  ASSUME BreakerInv, LabelsOfPeriod, NEW c \in Call, RecordSuccess(c)
  PROVE  Diagram!Next
<1> USE DEF BreakerInv, TypeOK, SlotAccounting, CircuitState, Evidence
<1>1. CASE state = "half_open" /\ halfOpenSuccesses + 1 >= HalfOpenSuccesses
  <2>1. Diagram!SuccessCloses(c)
    BY <1>1 DEF RecordSuccess, Close, NewPeriod, Diagram!SuccessCloses, Diagram!Enter
  <2>2. Diagram!Recover(c) \/ Diagram!LateRecover(c)
    BY <1>1, <2>1 DEF RecordSuccess, LabelsOfPeriod, Diagram!Recover, Diagram!LateRecover
  <2> QED BY <2>2 DEF Diagram!Next, Diagram!DocumentedNext, Diagram!Documented
<1>2. CASE state = "half_open" /\ halfOpenSuccesses + 1 < HalfOpenSuccesses
  <2>1. Diagram!SuccessCounts(c)
    BY <1>2 DEF RecordSuccess, SamePeriod, Diagram!SuccessCounts, Diagram!Gather, Diagram!Becomes
  <2>2. Diagram!ProbeSucceeds(c) \/ Diagram!LateSuccess(c)
    BY <1>2, <2>1 DEF RecordSuccess, LabelsOfPeriod, Diagram!ProbeSucceeds, Diagram!LateSuccess
  <2> QED BY <2>2 DEF Diagram!Next, Diagram!DocumentedNext, Diagram!Documented
<1>3. CASE state = "closed"
  <2>1. Diagram!WhileClosed(c)
    BY <1>3 DEF RecordSuccess, SamePeriod, Diagram!WhileClosed, Diagram!Becomes
  <2> QED BY <2>1 DEF Diagram!Next, Diagram!DocumentedNext, Diagram!Documented
<1>4. CASE state = "open"
  <2>1. Diagram!EndWithoutEvidence(c)
    BY <1>4 DEF RecordSuccess, SamePeriod, Diagram!EndWithoutEvidence, Diagram!Becomes
  <2> QED BY <2>1 DEF Diagram!Next, Diagram!DocumentedNext, Diagram!Documented
<1> QED BY <1>1, <1>2, <1>3, <1>4

LEMMA DiagramFailure ==
  ASSUME BreakerInv, LabelsOfPeriod, NEW c \in Call, RecordFailure(c)
  PROVE  Diagram!Next
<1> USE DEF BreakerInv, TypeOK, SlotAccounting, CircuitState, Evidence
<1>1. CASE state = "half_open"
  <2>1. Diagram!FailureReopens(c)
    BY <1>1 DEF RecordFailure, Open, NewPeriod, Diagram!FailureReopens, Diagram!Enter
  <2>2. Diagram!ProbeFails(c) \/ Diagram!LateFailure(c)
    BY <1>1, <2>1 DEF RecordFailure, LabelsOfPeriod, Diagram!ProbeFails, Diagram!LateFailure
  <2> QED BY <2>2 DEF Diagram!Next, Diagram!DocumentedNext, Diagram!Documented
<1>2. CASE state = "closed" /\ CountFailure >= FailureThreshold
  <2>1. consecutiveFailures + 1 = FailureThreshold
    BY <1>2 DEF CountFailure
  <2>2. Open(c)
    BY <1>2, <2>1 DEF RecordFailure, CountFailure
  <2>3. Diagram!Enter("open", c, "idle")
    BY <2>2 DEF Open, NewPeriod, Diagram!Enter
  <2>4. Diagram!WhileClosed(c)
    BY <1>2, <2>1, <2>3 DEF RecordFailure, Diagram!WhileClosed
  <2> QED BY <2>4 DEF Diagram!Next, Diagram!DocumentedNext, Diagram!Documented
<1>3. CASE state = "closed" /\ ~ (CountFailure >= FailureThreshold)
  <2>1. CountFailure = consecutiveFailures + 1
    BY <1>3 DEF CountFailure
  <2>2. Diagram!WhileClosed(c)
    BY <1>3, <2>1 DEF RecordFailure, SamePeriod, Diagram!WhileClosed, Diagram!Gather,
                      Diagram!Becomes
  <2> QED BY <2>2 DEF Diagram!Next, Diagram!DocumentedNext, Diagram!Documented
<1>4. CASE state = "open"
  <2>1. Diagram!EndWithoutEvidence(c)
    BY <1>4 DEF RecordFailure, SamePeriod, Diagram!EndWithoutEvidence, Diagram!Becomes
  <2> QED BY <2>1 DEF Diagram!Next, Diagram!DocumentedNext, Diagram!Documented
<1> QED BY <1>1, <1>2, <1>3, <1>4

LEMMA DiagramStep ==
  ASSUME BreakerInv, LabelsOfPeriod, [Next]_vars
  PROVE  [Diagram!Next]_Diagram!diagramVars
<1>1. CASE Tick
  <2>1. Diagram!Wait
    BY <1>1 DEF Tick, BreakerInv, TypeOK, Diagram!Wait, Evidence
  <2> QED BY <2>1 DEF Diagram!Next, Diagram!DocumentedNext
<1>2. ASSUME NEW c \in Call, Admit(c)
      PROVE  [Diagram!Next]_Diagram!diagramVars
  BY <1>2, DiagramAdmit DEF Diagram!Next, Diagram!DocumentedNext, Diagram!Documented
<1>3. ASSUME NEW c \in Call, Finish(c)
      PROVE  [Diagram!Next]_Diagram!diagramVars
  <2>1. CASE RecordSuccess(c)
    BY <2>1, DiagramSuccess
  <2>2. CASE RecordFailure(c)
    BY <2>2, DiagramFailure
  <2>3. CASE ReleaseProbe(c) \/ Cancel(c)
    <3>1. Diagram!EndWithoutEvidence(c)
      BY <2>3 DEF ReleaseProbe, Cancel, SamePeriod, breakerVars, Evidence,
                  Diagram!EndWithoutEvidence, Diagram!Becomes
    <3> QED BY <3>1 DEF Diagram!Next, Diagram!DocumentedNext, Diagram!Documented
  <2> QED BY <1>3, <2>1, <2>2, <2>3 DEF Finish
<1>4. CASE UNCHANGED vars
  BY <1>4 DEF vars, Diagram!diagramVars, Evidence
<1> QED BY <1>1, <1>2, <1>3, <1>4 DEF Next

\* Nothing moves the circuit but what the diagram of its documentation draws and
\* late results in a half-open circuit, for every number of tasks and every order
\* of their results and cancellations.
THEOREM BreakerImplementsDiagram == Spec => ImplementsDiagram
<1>1. Init => LabelsOfPeriod
  BY DEF Init, LabelsOfPeriod
<1>2. BreakerInv /\ LabelsOfPeriod /\ [Next]_vars => [Diagram!Next]_Diagram!diagramVars
  BY DiagramStep
<1>3. BreakerInv /\ LabelsOfPeriod /\ [Next]_vars => LabelsOfPeriod'
  BY LabelsStep
<1> QED BY <1>1, <1>2, <1>3, InvInit, InvStep, DiagramInit, PTL
        DEF Spec, ImplementsDiagram, Diagram!Spec

-----------------------------------------------------------------------------
(* Every taken slot has an owner *)

LEMMA ProbesFinite ==
  /\ IsFiniteSet(Probes) /\ Cardinality(Probes) \in Nat
  /\ IsFiniteSet(Probes') /\ Cardinality(Probes') \in Nat
<1>1. Probes \subseteq Call /\ Probes' \subseteq Call
  BY DEF Probes
<1> QED BY <1>1, FS_Subset, FS_CardinalityType

\* A task that ends takes at most itself from the probes.
LEMMA ProbesAfterEnd ==
  ASSUME TypeOK, NEW c \in Call, calls' = [calls EXCEPT ![c] = "idle"]
  PROVE  Cardinality(Probes') = IF calls[c] = "probe" THEN Cardinality(Probes) - 1
                                                      ELSE Cardinality(Probes)
<1>1. Probes' = Probes \ {c}
  BY DEF Probes, TypeOK
<1>2. Cardinality(Probes \ {c}) = IF c \in Probes THEN Cardinality(Probes) - 1
                                                 ELSE Cardinality(Probes)
  BY ProbesFinite, FS_RemoveElement
<1>3. c \in Probes <=> calls[c] = "probe"
  BY DEF Probes
<1> QED BY <1>1, <1>2, <1>3

LEMMA OwnersAdmit ==
  ASSUME BreakerInv, SlotsHaveOwners, NEW c \in Call, Admit(c)
  PROVE  SlotsHaveOwners'
<1> USE DEF SlotsHaveOwners
<1>1. CASE AdmitWhileClosed(c)
  <2>1. Probes' = Probes
    BY <1>1 DEF AdmitWhileClosed, SamePeriod, Probes, BreakerInv, TypeOK
  <2> QED BY <1>1, <2>1 DEF AdmitWhileClosed, SamePeriod, breakerVars
<1>2. CASE AdmitFirstProbe(c)
  <2>1. Probes' = {c}
    BY <1>2 DEF AdmitFirstProbe, NewPeriod, Probes, BreakerInv, TypeOK
  <2>2. Cardinality(Probes') = 1
    BY <2>1, FS_Singleton
  <2> QED BY <1>2, <2>2 DEF AdmitFirstProbe, NewPeriod
<1>3. CASE AdmitProbe(c)
  <2>1. c \notin Probes /\ Probes' = Probes \cup {c}
    BY <1>3 DEF AdmitProbe, SamePeriod, Probes, BreakerInv, TypeOK
  <2>2. Cardinality(Probes') = Cardinality(Probes) + 1
    BY <2>1, ProbesFinite, FS_AddElement
  <2> QED BY <1>3, <2>2, ProbesFinite DEF AdmitProbe, SamePeriod, BreakerInv, TypeOK
<1>4. CASE Reject(c)
  BY <1>4 DEF Reject, vars, Probes
<1> QED BY <1>1, <1>2, <1>3, <1>4 DEF Admit

LEMMA OwnersFinish ==
  ASSUME BreakerInv, SlotsHaveOwners, NEW c \in Call, Finish(c)
  PROVE  SlotsHaveOwners'
<1> USE ProbesFinite DEF SlotsHaveOwners
<1>t. TypeOK /\ halfOpenInFlight \in Nat /\ leaked \in Nat
  BY DEF BreakerInv, TypeOK
<1>1. CASE halfOpenInFlight' = 0 /\ leaked' \in Nat
  BY <1>1
<1>2. CASE SamePeriod(c, "idle") /\ halfOpenInFlight' = SlotsAfterRelease(halfOpenInFlight)
  <2>1. calls' = [calls EXCEPT ![c] = "idle"] /\ leaked' = leaked
    BY <1>2 DEF SamePeriod
  <2>2. Cardinality(Probes') = IF calls[c] = "probe" THEN Cardinality(Probes) - 1
                                                     ELSE Cardinality(Probes)
    BY ONLY <1>t, <2>1, ProbesAfterEnd, c \in Call
  <2> QED BY <1>2, <1>t, <2>1, <2>2 DEF SlotsAfterRelease
<1>3. CASE Cancel(c)
  <2>1. /\ calls' = [calls EXCEPT ![c] = "idle"]
        /\ leaked' = IF calls[c] = "probe" THEN leaked + 1 ELSE leaked
        /\ halfOpenInFlight' = halfOpenInFlight
    BY <1>3 DEF Cancel, breakerVars
  <2>2. Cardinality(Probes') = IF calls[c] = "probe" THEN Cardinality(Probes) - 1
                                                     ELSE Cardinality(Probes)
    BY ONLY <1>t, <2>1, ProbesAfterEnd, c \in Call
  <2> QED BY <1>t, <2>1, <2>2
<1>4. \/ halfOpenInFlight' = 0 /\ leaked' \in Nat
      \/ SamePeriod(c, "idle") /\ halfOpenInFlight' = SlotsAfterRelease(halfOpenInFlight)
      \/ Cancel(c)
  BY DEF Finish, RecordSuccess, RecordFailure, ReleaseProbe, Open, Close, NewPeriod, SamePeriod,
         SlotsAfterRelease, BreakerInv, TypeOK, SlotAccounting
<1> QED BY <1>1, <1>2, <1>3, <1>4

LEMMA OwnersStep ==
  ASSUME BreakerInv, SlotsHaveOwners, [Next]_vars
  PROVE  SlotsHaveOwners'
<1>1. CASE Tick
  BY <1>1 DEF Tick, SlotsHaveOwners, Probes
<1>2. CASE \E c \in Call : Admit(c) \/ Finish(c)
  BY <1>2, OwnersAdmit, OwnersFinish
<1>3. CASE UNCHANGED vars
  BY <1>3 DEF vars, SlotsHaveOwners, Probes
<1> QED BY <1>1, <1>2, <1>3 DEF Next

\* A slot that is counted as taken belongs to a probe of the present half-open
\* period, running or cancelled, late results of earlier periods notwithstanding:
\* where no task is cancelled, a full circuit is waiting for running probes.
THEOREM SlotsOwned == Spec => []SlotsHaveOwners
<1>1. Init => SlotsHaveOwners
  BY ProbesFinite DEF Init, SlotsHaveOwners
<1>2. BreakerInv /\ SlotsHaveOwners /\ [Next]_vars => SlotsHaveOwners'
  BY OwnersStep
<1> QED BY <1>1, <1>2, InvInit, InvStep, PTL DEF Spec
=============================================================================
