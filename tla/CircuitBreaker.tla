--------------------------- MODULE CircuitBreaker ---------------------------
(***************************************************************************)
(* infrastructure/resilience/circuit_breaker.py: one breaker shared by all *)
(* retrieval branches of all runs of the process.                          *)
(*                                                                         *)
(* A member of Call is a task that calls CircuitBreaker.execute over and   *)
(* over.  execute is two atomic steps with the guarded operation awaited   *)
(* between them: _admit, and the _record_* / _release_probe that the       *)
(* outcome selects.  No critical section holds an await, so the asyncio    *)
(* lock is never contended and each of them is one action.                 *)
(***************************************************************************)
EXTENDS Naturals, FiniteSets

CONSTANTS
  Call,               \* tasks that share the breaker
  FailureThreshold,   \* CircuitBreakerPolicy.failure_threshold
  ResetSeconds,       \* CircuitBreakerPolicy.reset_seconds, in clock ticks
  HalfOpenSuccesses,  \* CircuitBreakerPolicy.half_open_successes
  FailureCap,         \* bound: consecutiveFailures saturates here
  MayCancel           \* whether a task can be cancelled inside its operation

ASSUME PolicyAssumption ==   \* the ge=1 / gt=0 of config/settings.py:182-184
  /\ FailureThreshold \in Nat \ {0}
  /\ ResetSeconds \in Nat \ {0}
  /\ HalfOpenSuccesses \in Nat \ {0}

\* The counter is only ever compared with the threshold, so saturating at or
\* above the threshold changes no decision.
ASSUME CapAssumption == FailureCap \in Nat /\ FailureCap >= FailureThreshold

ASSUME CallAssumption == IsFiniteSet(Call) /\ MayCancel \in BOOLEAN

VARIABLES
  state,                \* _state
  consecutiveFailures,  \* _consecutive_failures
  age,                  \* clock() - _opened_at, saturated at ResetSeconds
  halfOpenSuccesses,    \* _half_open_successes
  halfOpenInFlight,     \* _half_open_in_flight
  calls,                \* what each task is doing; see TypeOK
  leaked                \* history: probes of this half-open period that were cancelled

breakerVars == <<state, consecutiveFailures, age, halfOpenSuccesses, halfOpenInFlight>>
vars == <<state, consecutiveFailures, age, halfOpenSuccesses, halfOpenInFlight, calls, leaked>>

CircuitState == {"closed", "open", "half_open"}

(***************************************************************************)
(* A task is idle, or inside an operation it was admitted for under the    *)
(* breaker's present period: "normal" if the circuit is closed, "probe" if *)
(* it is half open.  A call admitted under an earlier period is "stale".   *)
(* The code keeps no such label and treats all three alike; the label and  *)
(* leaked are there for the properties.                                    *)
(***************************************************************************)
TypeOK ==
  /\ state \in CircuitState
  /\ consecutiveFailures \in 0 .. FailureCap
  /\ age \in 0 .. ResetSeconds
  /\ halfOpenSuccesses \in Nat
  /\ halfOpenInFlight \in Nat
  /\ calls \in [Call -> {"idle", "normal", "probe", "stale"}]
  /\ leaked \in Nat

Running == {c \in Call : calls[c] # "idle"}
Probes == {c \in Call : calls[c] = "probe"}

Init ==
  /\ state = "closed"
  /\ consecutiveFailures = 0
  /\ age = 0
  /\ halfOpenSuccesses = 0
  /\ halfOpenInFlight = 0
  /\ calls = [c \in Call |-> "idle"]
  /\ leaked = 0

-----------------------------------------------------------------------------
(* Helpers *)

\* A new period starts with c doing `doing`; whoever else runs is left over.
NewPeriod(c, doing) ==
  /\ calls' = [d \in Call |-> IF d = c THEN doing
                              ELSE IF calls[d] = "idle" THEN "idle" ELSE "stale"]
  /\ leaked' = 0

SamePeriod(c, doing) == calls' = [calls EXCEPT ![c] = doing] /\ UNCHANGED leaked

UnclampedRelease(n) == n - 1
SlotsAfterRelease(n) == IF n > 0 THEN n - 1 ELSE 0

\* _open: consecutive_failures is kept, and with it goes the call that tripped it.
Open(c) ==
  /\ state' = "open"
  /\ age' = 0
  /\ halfOpenSuccesses' = 0
  /\ halfOpenInFlight' = 0
  /\ NewPeriod(c, "idle")

Close(c) ==
  /\ state' = "closed"
  /\ consecutiveFailures' = 0
  /\ age' = 0
  /\ halfOpenSuccesses' = 0
  /\ halfOpenInFlight' = 0
  /\ NewPeriod(c, "idle")

-----------------------------------------------------------------------------
(* _admit *)

AdmitWhileClosed(c) ==
  /\ calls[c] = "idle"
  /\ state = "closed"
  /\ SamePeriod(c, "normal")
  /\ UNCHANGED breakerVars

\* The first call after the reset window turns the circuit half open and takes
\* the first slot: there always is one, the quota being at least 1.
AdmitFirstProbe(c) ==
  /\ calls[c] = "idle"
  /\ state = "open"
  /\ age >= ResetSeconds
  /\ state' = "half_open"
  /\ halfOpenSuccesses' = 0
  /\ halfOpenInFlight' = 1
  /\ NewPeriod(c, "probe")
  /\ UNCHANGED <<consecutiveFailures, age>>

\* mutant: the quota compared with >, one probe too many
AdmitProbePastQuota(c) ==
  /\ calls[c] = "idle"
  /\ state = "half_open"
  /\ ~ (halfOpenInFlight > HalfOpenSuccesses)
  /\ halfOpenInFlight' = halfOpenInFlight + 1
  /\ SamePeriod(c, "probe")
  /\ UNCHANGED <<state, consecutiveFailures, age, halfOpenSuccesses>>

AdmitProbe(c) ==
  /\ calls[c] = "idle"
  /\ state = "half_open"
  /\ halfOpenInFlight < HalfOpenSuccesses
  /\ halfOpenInFlight' = halfOpenInFlight + 1
  /\ SamePeriod(c, "probe")
  /\ UNCHANGED <<state, consecutiveFailures, age, halfOpenSuccesses>>

\* CircuitOpenError: the operation is not invoked and nothing changes.
Reject(c) ==
  /\ calls[c] = "idle"
  /\ \/ state = "open" /\ age < ResetSeconds
     \/ state = "half_open" /\ halfOpenInFlight >= HalfOpenSuccesses
  /\ UNCHANGED vars

Admit(c) == AdmitWhileClosed(c) \/ AdmitFirstProbe(c) \/ AdmitProbe(c) \/ Reject(c)

-----------------------------------------------------------------------------
(* The operation returned or raised. *)

RecordSuccess(c) ==
  /\ calls[c] # "idle"
  /\ \/ /\ state = "half_open"
        /\ halfOpenSuccesses + 1 >= HalfOpenSuccesses
        /\ Close(c)
     \/ /\ state = "half_open"
        /\ halfOpenSuccesses + 1 < HalfOpenSuccesses
        /\ halfOpenSuccesses' = halfOpenSuccesses + 1
        /\ halfOpenInFlight' = SlotsAfterRelease(halfOpenInFlight)
        /\ SamePeriod(c, "idle")
        /\ UNCHANGED <<state, consecutiveFailures, age>>
     \/ /\ state # "half_open"     \* closed, or a late result on an open circuit
        /\ consecutiveFailures' = 0
        /\ SamePeriod(c, "idle")
        /\ UNCHANGED <<state, age, halfOpenSuccesses, halfOpenInFlight>>

CountFailure == IF consecutiveFailures < FailureCap
                THEN consecutiveFailures + 1 ELSE consecutiveFailures

\* mutant: without the CLOSED guard, a late failure re-opens an open circuit
RecordFailureReopens(c) ==
  /\ calls[c] # "idle"
  /\ \/ state = "half_open" /\ Open(c) /\ UNCHANGED consecutiveFailures
     \/ /\ state # "half_open"
        /\ consecutiveFailures' = CountFailure
        /\ IF CountFailure >= FailureThreshold
           THEN Open(c)
           ELSE /\ SamePeriod(c, "idle")
                /\ UNCHANGED <<state, age, halfOpenSuccesses, halfOpenInFlight>>

RecordFailure(c) ==
  /\ calls[c] # "idle"
  /\ \/ /\ state = "half_open"
        /\ Open(c)
        /\ UNCHANGED consecutiveFailures
     \/ /\ state = "closed"
        /\ CountFailure >= FailureThreshold
        /\ consecutiveFailures' = CountFailure
        /\ Open(c)
     \/ /\ state # "half_open"     \* below the threshold, or the circuit is open already
        /\ state = "closed" => CountFailure < FailureThreshold
        /\ consecutiveFailures' = CountFailure
        /\ SamePeriod(c, "idle")
        /\ UNCHANGED <<state, age, halfOpenSuccesses, halfOpenInFlight>>

\* mutant: a failure that does not count against the breaker keeps its slot
ReleaseNothing(c) ==
  /\ calls[c] # "idle"
  /\ SamePeriod(c, "idle")
  /\ UNCHANGED breakerVars

\* A failure that says nothing about the dependency only gives its slot back.
ReleaseProbe(c) ==
  /\ calls[c] # "idle"
  /\ halfOpenInFlight' = IF state = "half_open"
                         THEN SlotsAfterRelease(halfOpenInFlight)
                         ELSE halfOpenInFlight
  /\ SamePeriod(c, "idle")
  /\ UNCHANGED <<state, consecutiveFailures, age, halfOpenSuccesses>>

\* CancelledError is no Exception: the `except Exception` of execute lets it by,
\* and no bookkeeping runs.
Cancel(c) ==
  /\ MayCancel
  /\ calls[c] # "idle"
  /\ calls' = [calls EXCEPT ![c] = "idle"]
  /\ leaked' = IF calls[c] = "probe" THEN leaked + 1 ELSE leaked
  /\ UNCHANGED breakerVars

\* The monotonic clock; the breaker reads it only while the circuit is open.
Tick ==
  /\ state = "open"
  /\ age < ResetSeconds
  /\ age' = age + 1
  /\ UNCHANGED <<state, consecutiveFailures, halfOpenSuccesses, halfOpenInFlight, calls, leaked>>

-----------------------------------------------------------------------------
Finish(c) == RecordSuccess(c) \/ RecordFailure(c) \/ ReleaseProbe(c) \/ Cancel(c)

Next == Tick \/ \E c \in Call : Admit(c) \/ Finish(c)

Spec == Init /\ [][Next]_vars

(***************************************************************************)
(* Time passes, and every admitted operation ends: each attempt is bounded *)
(* by the HTTP client's timeouts, the attempts by max_attempts and the     *)
(* delays between them by backoff_max_seconds.  Nothing obliges a task to  *)
(* call again, so admission is not fair.                                   *)
(***************************************************************************)
FairSpec == Spec /\ WF_vars(Tick) /\ \A c \in Call : WF_vars(Finish(c))

-----------------------------------------------------------------------------
(* Properties *)

\* Slots are taken only while half open and never beyond the quota; a half-open
\* circuit never sits on enough successes to close; and a closed circuit never
\* sits on enough failures to open, whatever late results it was told.
SlotAccounting ==
  /\ halfOpenInFlight <= HalfOpenSuccesses
  /\ state # "half_open" => halfOpenInFlight = 0 /\ halfOpenSuccesses = 0
  /\ halfOpenSuccesses < HalfOpenSuccesses
  /\ state = "closed" => consecutiveFailures < FailureThreshold

\* The diagram of the module docstring with the evidence each edge needs, and
\* the edges it leaves out: the result of a call admitted while closed counts as
\* a probe's if it arrives while half open.  Nothing else moves the circuit: a
\* late result neither re-opens an open circuit (which would push its recovery
\* deadline out) nor closes one, and the failures that open it are consecutive.
Evidence == IF state = "closed" THEN consecutiveFailures
            ELSE IF state = "open" THEN age ELSE halfOpenSuccesses
Diagram == INSTANCE CircuitDiagram WITH mode <- state, evidence <- Evidence
ImplementsDiagram == Diagram!Spec

\* "half_open_successes probes succeed", "any probe fails" (circuit_breaker.py:18,
\* 20): only a probe closes or re-opens a half-open circuit.
ImplementsDocstring == Diagram!DocumentedSpec

\* Every slot counted as taken is held by a probe of this half-open period, one
\* that is still running or one that was cancelled.
SlotsHaveOwners == halfOpenInFlight <= Cardinality(Probes) + leaked

\* A half-open circuit at its quota gets a slot back or leaves the state.
SlotsComeBack ==
  (state = "half_open" /\ halfOpenInFlight >= HalfOpenSuccesses)
    ~> (state # "half_open" \/ halfOpenInFlight < HalfOpenSuccesses)

\* It does, unless as many probes of this period were cancelled as there are
\* slots: nothing else can leave a half-open circuit rejecting for ever.
OnlyLeakedSlotsBlock ==
  (state = "half_open" /\ halfOpenInFlight >= HalfOpenSuccesses)
    ~> \/ state # "half_open"
       \/ halfOpenInFlight < HalfOpenSuccesses
       \/ leaked >= HalfOpenSuccesses

\* "a limited number of probes" (circuit_breaker.py:9), "lets one request
\* through" (README.md:251): no more probes at once than the quota.
ProbesWithinQuota == Cardinality(Probes) <= HalfOpenSuccesses
=============================================================================
