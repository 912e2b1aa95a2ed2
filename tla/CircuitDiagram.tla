--------------------------- MODULE CircuitDiagram ---------------------------
(***************************************************************************)
(* The circuit breaker as its documentation draws it                       *)
(* (infrastructure/resilience/circuit_breaker.py:12-20): three states and, *)
(* on every edge, how much evidence the edge needs and whose.  One number  *)
(* suffices, because each state collects one kind of evidence: consecutive *)
(* failures while closed, seconds waited while open, successes of probes   *)
(* while half open.  How many probes may run at once is left open.         *)
(*                                                                         *)
(* A probe is a call admitted while half open.  A call that was admitted   *)
(* in an earlier state and is still running is stale; its result is late.  *)
(* DocumentedSpec gives a late result no say in a half-open circuit, as    *)
(* the diagram says; Spec adds the three edges the code has besides.       *)
(***************************************************************************)
EXTENDS Naturals

CONSTANTS Call, FailureThreshold, ResetSeconds, HalfOpenSuccesses

VARIABLES
  mode,
  evidence,
  calls      \* per call: "idle", "normal", "probe" or "stale"

diagramVars == <<mode, evidence, calls>>

Init == mode = "closed" /\ evidence = 0 /\ calls = [c \in Call |-> "idle"]

-----------------------------------------------------------------------------
\* A new state begins with c doing `doing`; whoever else runs is left over.
Enter(m, c, doing) ==
  /\ mode' = m
  /\ evidence' = 0
  /\ calls' = [d \in Call |-> IF d = c THEN doing
                              ELSE IF calls[d] = "idle" THEN "idle" ELSE "stale"]

Becomes(c, doing) == calls' = [calls EXCEPT ![c] = doing] /\ UNCHANGED mode

\* c reports one more piece of the evidence of which `needed` leave the state.
Gather(c, needed) ==
  /\ evidence + 1 < needed
  /\ evidence' = evidence + 1
  /\ Becomes(c, "idle")

\* A call may end and count for nothing in any state.
EndWithoutEvidence(c) == calls[c] # "idle" /\ Becomes(c, "idle") /\ UNCHANGED evidence

Admit(c) ==
  /\ calls[c] = "idle"
  /\ \/ mode = "closed" /\ Becomes(c, "normal")
     \/ mode = "half_open" /\ Becomes(c, "probe")
  /\ UNCHANGED evidence

WhileClosed(c) ==
  /\ mode = "closed"
  /\ calls[c] # "idle"
  /\ \/ Gather(c, FailureThreshold)                                \* a failure
     \/ Becomes(c, "idle") /\ evidence' = 0                        \* a success
     \/ evidence + 1 = FailureThreshold /\ Enter("open", c, "idle")

Wait ==
  /\ mode = "open"
  /\ evidence < ResetSeconds
  /\ evidence' = evidence + 1
  /\ UNCHANGED <<mode, calls>>

StartProbing(c) ==
  /\ mode = "open"
  /\ evidence = ResetSeconds
  /\ calls[c] = "idle"
  /\ Enter("half_open", c, "probe")

\* The three edges out of the half-open state, for a result of c.
SuccessCounts(c) == mode = "half_open" /\ Gather(c, HalfOpenSuccesses)
SuccessCloses(c) ==
  mode = "half_open" /\ evidence + 1 = HalfOpenSuccesses /\ Enter("closed", c, "idle")
FailureReopens(c) == mode = "half_open" /\ Enter("open", c, "idle")

ProbeSucceeds(c) == calls[c] = "probe" /\ SuccessCounts(c)
Recover(c) == calls[c] = "probe" /\ SuccessCloses(c)
ProbeFails(c) == calls[c] = "probe" /\ FailureReopens(c)

\* Not in the documentation: the code asks nobody when they were admitted.
LateSuccess(c) == calls[c] = "stale" /\ SuccessCounts(c)
LateRecover(c) == calls[c] = "stale" /\ SuccessCloses(c)
LateFailure(c) == calls[c] = "stale" /\ FailureReopens(c)

-----------------------------------------------------------------------------
Documented(c) ==
  \/ Admit(c) \/ EndWithoutEvidence(c) \/ WhileClosed(c) \/ StartProbing(c)
  \/ ProbeSucceeds(c) \/ Recover(c) \/ ProbeFails(c)

DocumentedNext == Wait \/ \E c \in Call : Documented(c)

Next ==
  \/ DocumentedNext
  \/ \E c \in Call : LateSuccess(c) \/ LateRecover(c) \/ LateFailure(c)

DocumentedSpec == Init /\ [][DocumentedNext]_diagramVars
Spec == Init /\ [][Next]_diagramVars
=============================================================================
