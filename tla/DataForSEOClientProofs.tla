----------------------- MODULE DataForSEOClientProofs -----------------------
(***************************************************************************)
(* What holds of the client for every set of tasks, every retry budget and *)
(* every breaker policy: what is proved of the breaker alone holds of it   *)
(* with retries inside; it blames the dependency only when a budget is     *)
(* spent; an open circuit bounds the traffic that is still to come; and    *)
(* what may pass is tried again until the budget is spent.                 *)
(***************************************************************************)
EXTENDS DataForSEOClient, CircuitBreakerProofs

USE RetryAssumption

-----------------------------------------------------------------------------
(* Every step of the client is one of the breaker or leaves it alone *)

LEMMA ReportIsFinish ==
  ASSUME NEW c \in Call, NEW error, Report(c, error)
  PROVE  Finish(c)
BY DEF Report, Finish

LEMMA ExecutionStep ==
  ASSUME NEW c \in Call, Execution(c)
  PROVE  Finish(c) \/ UNCHANGED vars
<1>1. CASE Succeed(c)
  BY <1>1 DEF Succeed, Finish
<1>2. CASE Sleep(c) \/ Wake(c)
  BY <1>2 DEF Sleep, Wake
<1>3. CASE Exhaust(c)
  BY <1>3, ReportIsFinish DEF Exhaust
<1>4. CASE FailFast(c)
  <2>1. PICK reply \in Reply : Report(c, AttemptResult(reply))
    BY <1>4 DEF FailFast
  <2> QED BY <2>1, ReportIsFinish
<1>5. CASE PassThrough(c)
  BY <1>5, ReportIsFinish DEF PassThrough
<1>6. CASE CancelCall(c)
  BY <1>6 DEF CancelCall, Finish
<1> QED BY <1>1, <1>2, <1>3, <1>4, <1>5, <1>6 DEF Execution

LEMMA ClientStep == [ClientNext]_clientVars => [Next]_vars
<1> SUFFICES ASSUME [ClientNext]_clientVars PROVE [Next]_vars
  OBVIOUS
<1>1. CASE Elapse
  BY <1>1 DEF Elapse, Next
<1>2. ASSUME NEW c \in Call, Start(c) PROVE Next
  BY <1>2 DEF Start, Next, Admit
<1>3. ASSUME NEW c \in Call, Rejected(c) PROVE Next
  BY <1>3 DEF Rejected, Next, Admit
<1>4. ASSUME NEW c \in Call, Execution(c) PROVE [Next]_vars
  BY <1>4, ExecutionStep DEF Next
<1>5. CASE UNCHANGED clientVars
  BY <1>5 DEF clientVars
<1> QED BY <1>1, <1>2, <1>3, <1>4, <1>5 DEF ClientNext

LEMMA ClientIsBreaker == ClientSpec => Spec
<1>1. ClientInit => Init
  BY DEF ClientInit
<1> QED BY <1>1, ClientStep, PTL DEF ClientSpec, Spec

\* What is proved of the breaker alone holds of it with retries inside: its counters keep
\* their bounds, a taken slot has a probe, and nothing but probes' and late results moves
\* a half-open circuit, whenever a retry ends.
THEOREM BreakerUnderClient ==
  ClientSpec => []TypeOK /\ []SlotAccounting /\ []SlotsHaveOwners /\ ImplementsDiagram
BY ClientIsBreaker, TypeCorrect, AccountingHolds, SlotsOwned, BreakerImplementsDiagram, PTL

-----------------------------------------------------------------------------
(* Who is blamed *)

LEMMA NonRetryableIsNoDependencyFailure ==
  ASSUME NEW error \in NonRetryableError \cup {Unclassified}
  PROVE  ~ IsDependencyFailure(error)
BY DEF NonRetryableError, Unclassified, IsDependencyFailure, RetryableError

LEMMA SuccessBlamesNobody ==
  ASSUME BreakerInv, NEW c \in Call, RecordSuccess(c)
  PROVE  ~ Blame
BY DEF BreakerInv, TypeOK, CircuitState, RecordSuccess, Close, Blame

LEMMA ReleaseBlamesNobody ==
  ASSUME BreakerInv, NEW c \in Call, ReleaseProbe(c) \/ Cancel(c)
  PROVE  ~ Blame
BY DEF BreakerInv, TypeOK, ReleaseProbe, Cancel, breakerVars, Blame

LEMMA AdmissionBlamesNobody ==
  ASSUME BreakerInv, NEW c \in Call, Admit(c)
  PROVE  ~ Blame
BY DEF BreakerInv, TypeOK, Admit, AdmitWhileClosed, AdmitFirstProbe, AdmitProbe,
       Reject, breakerVars, vars, Blame

LEMMA BlameStep ==
  ASSUME BreakerInv, ClientNext, Blame
  PROVE  \E c \in Call : Exhaust(c)
<1>1. CASE Elapse
  BY <1>1 DEF Elapse, Tick, vars, Blame, BreakerInv, TypeOK
<1>2. ASSUME NEW c \in Call, Start(c) \/ Rejected(c) PROVE FALSE
  BY <1>2, AdmissionBlamesNobody DEF Start, Rejected, Admit
<1>3. ASSUME NEW c \in Call, Execution(c) PROVE Exhaust(c)
  <2>1. CASE Succeed(c)
    BY <2>1, SuccessBlamesNobody DEF Succeed
  <2>2. CASE Sleep(c) \/ Wake(c)
    BY <2>2 DEF Sleep, Wake, vars, Blame, BreakerInv, TypeOK
  <2>3. CASE FailFast(c)
    <3>1. PICK reply \in Reply : /\ AttemptResult(reply) \in NonRetryableError
                                /\ Report(c, AttemptResult(reply))
      BY <2>3 DEF FailFast
    <3>2. ReleaseProbe(c)
      BY <3>1, NonRetryableIsNoDependencyFailure DEF Report
    <3> QED BY <3>2, ReleaseBlamesNobody
  <2>4. CASE PassThrough(c)
    <3>1. ReleaseProbe(c)
      BY <2>4, NonRetryableIsNoDependencyFailure DEF PassThrough, Report
    <3> QED BY <3>1, ReleaseBlamesNobody
  <2>5. CASE CancelCall(c)
    BY <2>5, ReleaseBlamesNobody DEF CancelCall
  <2> QED BY <1>3, <2>1, <2>2, <2>3, <2>4, <2>5 DEF Execution
<1> QED BY <1>1, <1>2, <1>3 DEF ClientNext

-----------------------------------------------------------------------------
(* The retry budget *)

Phases ==
  /\ phase \in [Call -> {"idle", "attempting", "sleeping"}]
  /\ attempt \in [Call -> 0 .. MaxAttempts]
  /\ calls \in [Call -> {"idle", "normal", "probe", "stale"}]
  /\ \A c \in Call : /\ calls[c] = "idle" <=> phase[c] = "idle"
                     /\ attempt[c] = 0 <=> phase[c] = "idle"
                     /\ phase[c] = "sleeping" => attempt[c] < MaxAttempts

\* A task admitted by the breaker starts running; nobody else starts or stops.
LEMMA AdmittedRuns ==
  ASSUME Phases, NEW c \in Call,
         AdmitWhileClosed(c) \/ AdmitFirstProbe(c) \/ AdmitProbe(c)
  PROVE  /\ calls' \in [Call -> {"idle", "normal", "probe", "stale"}]
         /\ calls[c] = "idle" /\ calls'[c] # "idle"
         /\ \A d \in Call \ {c} : calls'[d] = "idle" <=> calls[d] = "idle"
BY DEF Phases, AdmitWhileClosed, AdmitFirstProbe, AdmitProbe, SamePeriod, NewPeriod

\* A task that reports to the breaker stops running; nobody else starts or stops.
LEMMA FinishedStops ==
  ASSUME Phases, NEW c \in Call, Finish(c)
  PROVE  /\ calls' \in [Call -> {"idle", "normal", "probe", "stale"}]
         /\ calls'[c] = "idle"
         /\ \A d \in Call \ {c} : calls'[d] = "idle" <=> calls[d] = "idle"
BY DEF Phases, Finish, RecordSuccess, RecordFailure, ReleaseProbe, Cancel,
       Open, Close, SamePeriod, NewPeriod

\* The steps that end an execution leave the task idle and the others alone.
Ends(c) == Finish(c) /\ Leave(c)

LEMMA EndingSteps ==
  ASSUME NEW c \in Call, Execution(c)
  PROVE  Sleep(c) \/ Wake(c) \/ (Ends(c) /\ PeriodOfLateWakes)
<1>1. CASE Succeed(c)
  BY <1>1 DEF Succeed, Finish, Ends, Leave
<1>2. CASE Exhaust(c)
  BY <1>2, ReportIsFinish DEF Exhaust, Ends, Leave
<1>3. CASE FailFast(c)
  <2>1. PICK reply \in Reply : Report(c, AttemptResult(reply))
    BY <1>3 DEF FailFast
  <2> QED BY <1>3, <2>1, ReportIsFinish DEF FailFast, Ends, Leave
<1>4. CASE PassThrough(c)
  BY <1>4, ReportIsFinish DEF PassThrough, Ends, Leave
<1>5. CASE CancelCall(c)
  BY <1>5 DEF CancelCall, Finish, Ends, Leave
<1> QED BY <1>1, <1>2, <1>3, <1>4, <1>5 DEF Execution

LEMMA PhasesStep == Phases /\ [ClientNext]_clientVars => Phases'
<1> SUFFICES ASSUME Phases, [ClientNext]_clientVars PROVE Phases'
  OBVIOUS
<1>1. CASE Elapse
  BY <1>1 DEF Elapse, Tick, vars, Phases
<1>2. ASSUME NEW c \in Call, Start(c) PROVE Phases'
  BY <1>2, AdmittedRuns DEF Start, Phases
<1>3. ASSUME NEW c \in Call, Rejected(c) PROVE Phases'
  BY <1>3 DEF Rejected, Reject, vars, retryVars, Phases
<1>4. ASSUME NEW c \in Call, Sleep(c) PROVE Phases'
  BY <1>4 DEF Sleep, MayRetry, vars, Phases
<1>5. ASSUME NEW c \in Call, Wake(c) PROVE Phases'
  BY <1>5 DEF Wake, vars, Phases
<1>6. ASSUME NEW c \in Call, Ends(c) PROVE Phases'
  BY <1>6, FinishedStops DEF Ends, Leave, Phases
<1>7. CASE UNCHANGED clientVars
  BY <1>7 DEF clientVars, vars, Phases
<1> QED BY <1>1, <1>2, <1>3, <1>4, <1>5, <1>6, <1>7, EndingSteps DEF ClientNext

LEMMA PhasesInit == ClientInit => Phases
BY DEF ClientInit, Init, Phases

LEMMA BreakerInvStep == BreakerInv /\ [ClientNext]_clientVars => BreakerInv'
BY ClientStep, InvStep

\* No 4xx, contract violation, bug of ours or cancellation counts against the
\* dependency: only an execution that spent all its attempts does.
THEOREM BlameNeedsExhaustion == ClientSpec => BlamedOnlyWhenExhausted
<1>1. ASSUME NEW c \in Call, Phases, Exhaust(c) PROVE BudgetSpent
  BY <1>1 DEF Exhaust, Leave, RecordCall, Phases, BudgetSpent
<1>2. BreakerInv /\ Phases /\ [ClientNext]_clientVars => [Blame => BudgetSpent]_clientVars
  BY <1>1, BlameStep
<1>3. ClientInit => BreakerInv /\ Phases
  BY InvInit, PhasesInit DEF ClientInit
<1> QED BY <1>2, <1>3, BreakerInvStep, PhasesStep, PTL DEF ClientSpec, BlamedOnlyWhenExhausted

-----------------------------------------------------------------------------
(* Traffic while the circuit is open *)

LateInv ==
  /\ lateWakes \in [Call -> Nat]
  /\ state # "open" => \A c \in Call : lateWakes[c] = 0
  /\ \A c \in Call : lateWakes[c] <= MaxAttempts - 1
  /\ \A c \in Call : phase[c] # "idle" => lateWakes[c] < attempt[c]
  /\ state = "open" => \E c \in Call : phase[c] = "idle" /\ lateWakes[c] = 0

LEMMA LateInit == ClientInit => LateInv
BY DEF ClientInit, Init, LateInv

\* What a task's leaving does to the state: it may open the circuit, which only
\* the task itself then is certain to be idle for.
LEMMA LateEnds ==
  ASSUME LateInv, Phases, NEW c \in Call, Ends(c), PeriodOfLateWakes
  PROVE  LateInv'
<1>1. phase'[c] = "idle" /\ \A d \in Call \ {c} : phase'[d] = phase[d] /\ attempt'[d] = attempt[d]
  BY DEF Ends, Leave, Phases
<1>2. CASE state' = state
  BY <1>1, <1>2 DEF PeriodOfLateWakes, LateInv, Phases
<1>3. CASE state' # state
  <2>1. lateWakes' = [d \in Call |-> 0]
    BY <1>3 DEF PeriodOfLateWakes
  <2>2. \A d \in Call : phase'[d] # "idle" => attempt'[d] > 0
    BY <1>1 DEF Phases
  <2> QED BY <1>1, <2>1, <2>2 DEF LateInv
<1> QED BY <1>2, <1>3

LEMMA LateStart ==
  ASSUME LateInv, Phases, NEW c \in Call, Start(c)
  PROVE  LateInv'
<1>1. phase'[c] = "attempting" /\ attempt'[c] = 1
  BY DEF Start, Phases
<1>2. \A d \in Call \ {c} : phase'[d] = phase[d] /\ attempt'[d] = attempt[d]
  BY DEF Start, Phases
<1>3. state' # "open" /\ (state = state' => state # "open")
  BY DEF Start, AdmitWhileClosed, AdmitFirstProbe, AdmitProbe, breakerVars
<1>4. lateWakes' = [d \in Call |-> 0]
  BY <1>3 DEF Start, PeriodOfLateWakes, LateInv
<1>5. \A d \in Call : phase'[d] # "idle" => attempt'[d] > 0
  BY <1>1, <1>2 DEF Phases
<1> QED BY <1>3, <1>4, <1>5 DEF LateInv

LEMMA LateStep == LateInv /\ Phases /\ [ClientNext]_clientVars => LateInv'
<1> SUFFICES ASSUME LateInv, Phases, [ClientNext]_clientVars PROVE LateInv'
  OBVIOUS
<1>1. CASE Elapse
  BY <1>1 DEF Elapse, Tick, vars, LateInv
<1>2. ASSUME NEW c \in Call, Rejected(c) PROVE LateInv'
  BY <1>2 DEF Rejected, Reject, vars, retryVars, LateInv
<1>3. ASSUME NEW c \in Call, Sleep(c) PROVE LateInv'
  BY <1>3 DEF Sleep, vars, LateInv, Phases
<1>4. ASSUME NEW c \in Call, Wake(c) PROVE LateInv'
  BY <1>4 DEF Wake, vars, LateInv, Phases
<1>5. CASE UNCHANGED clientVars
  BY <1>5 DEF clientVars, vars, LateInv
<1> QED BY <1>1, <1>2, <1>3, <1>4, <1>5, LateStart, LateEnds, EndingSteps DEF ClientNext

\* An open circuit is followed by at most MaxAttempts - 1 attempts of each task
\* that was still running, and by none of the task that opened it.
THEOREM TrafficBounded == ClientSpec => []TrafficWhileOpenBounded
<1>1. LateInv => TrafficWhileOpenBounded
  BY DEF LateInv, TrafficWhileOpenBounded
<1> QED BY <1>1, LateInit, LateStep, PhasesInit, PhasesStep, PTL DEF ClientSpec

-----------------------------------------------------------------------------
(* What is retried *)

\* A 429 or a 5xx with a JSON body is worth another attempt.
LEMMA TransientStatusIsRetryable ==
  ASSUME NEW s, s = 429 \/ s \in 500 .. 599
  PROVE  ClassifyStatus(s) \in {"RateLimitedError", "UpstreamServerError"}
<1>1. CASE s = 429
  <2>1. s \notin 200 .. 299 /\ s \notin RETRYABLE_CLIENT_STATUS \ {429}
        /\ s \notin AUTH_STATUS /\ s # 404
        /\ s \notin (400 .. 499) \ (RETRYABLE_CLIENT_STATUS \cup AUTH_STATUS \cup {404})
    BY <1>1 DEF RETRYABLE_CLIENT_STATUS, AUTH_STATUS
  <2> QED BY <2>1, <1>1 DEF ClassifyStatus
<1>2. CASE s \in 500 .. 599
  <2>1. s \notin 200 .. 299 /\ s # 429 /\ s \notin RETRYABLE_CLIENT_STATUS \ {429}
        /\ s \notin AUTH_STATUS /\ s # 404
        /\ s \notin (400 .. 499) \ (RETRYABLE_CLIENT_STATUS \cup AUTH_STATUS \cup {404})
    BY <1>2 DEF RETRYABLE_CLIENT_STATUS, AUTH_STATUS
  <2> QED BY <2>1 DEF ClassifyStatus
<1> QED BY <1>1, <1>2

LEMMA SuccessStatus ==
  ASSUME NEW s \in 200 .. 299
  PROVE  ClassifyStatus(s) = None
<1>1. s # 429 /\ s \notin RETRYABLE_CLIENT_STATUS \ {429} /\ s \notin AUTH_STATUS /\ s # 404
      /\ s \notin (400 .. 499) \ (RETRYABLE_CLIENT_STATUS \cup AUTH_STATUS \cup {404})
  BY DEF RETRYABLE_CLIENT_STATUS, AUTH_STATUS
<1> QED BY <1>1 DEF ClassifyStatus

\* So is a code that reports a rate limit, a server error or a task in progress, whatever
\* other range it falls into.
LEMMA TransientCodeIsRetryable ==
  ASSUME NEW t \in [code : Int, limited : BOOLEAN], t.code # StatusOk, TransientCode(t)
  PROVE  ClassifyCode(t) \in {"RateLimitedError", "UpstreamServerError"}
<1>1. CASE t.limited \/ t.code = 42900
  BY <1>1 DEF TransientCode, ClassifyCode
<1>2. CASE ~ (t.limited \/ t.code = 42900)
  <2>1. t.code \in InProgressRange \/ t.code \in ServerRange
    BY <1>2 DEF TransientCode
  <2> QED BY <1>2, <2>1 DEF TransientCode, ClassifyCode
<1> QED BY <1>1, <1>2

LEMMA ElementOf ==
  ASSUME NEW S, NEW q \in Seq(S), NEW i \in DOMAIN q
  PROVE  q[i] \in S
OBVIOUS

\* The first code that is not Ok decides for the body.
LEMMA FirstFailureDecides ==
  ASSUME NEW codes \in Seq([code : Int, limited : BOOLEAN]), NEW i \in DOMAIN codes,
         \A j \in 1 .. (i - 1) : codes[j].code = StatusOk,
         ClassifyCode(codes[i]) # None
  PROVE  ClassifyPayload(codes) = ClassifyCode(codes[i])
<1> DEFINE failing == {k \in DOMAIN codes : ClassifyCode(codes[k]) # None}
<1>1. i \in failing /\ failing \subseteq Nat
  OBVIOUS
<1>2. ASSUME NEW k \in failing PROVE i <= k
  <2>1. k \in 1 .. Len(codes) /\ i \in 1 .. Len(codes) /\ Len(codes) \in Nat
    BY <1>2
  <2>2. codes[k].code # StatusOk
    BY <1>2 DEF ClassifyCode
  <2>3. k \notin 1 .. (i - 1)
    BY <2>2
  <2> QED BY <2>1, <2>3
<1> DEFINE first == CHOOSE k \in failing : \A j \in failing : k <= j
<1>3. first \in failing /\ \A j \in failing : first <= j
  BY <1>1, <1>2
<1>4. first = i
  BY <1>1, <1>2, <1>3
<1>5. ClassifyPayload(codes) = ClassifyCode(codes[first])
  BY <1>1 DEF ClassifyPayload
<1> QED BY <1>4, <1>5

LEMMA TransientIsRetryable ==
  ASSUME NEW r \in Reply, TransientReply(r)
  PROVE  AttemptResult(r) \in RetryableError
<1>1. CASE r.exception \in {"timeout", "connect"}
  BY <1>1 DEF AttemptResult, None, ClassifyTransportException, TransportException, RetryableError
<1>2. CASE r.exception = None /\ r.json /\ (r.status = 429 \/ r.status \in 500 .. 599)
  <2>1. ClassifyStatus(r.status) \in {"RateLimitedError", "UpstreamServerError"}
    BY <1>2, TransientStatusIsRetryable
  <2> QED BY <1>2, <2>1 DEF AttemptResult, RetryableError, None
<1>3. CASE r.exception = None /\ r.json /\ ~ (r.status = 429 \/ r.status \in 500 .. 599)
  <2>1. PICK i \in DOMAIN r.codes : /\ \A j \in 1 .. (i - 1) : r.codes[j].code = StatusOk
                                    /\ r.codes[i].code # StatusOk
                                    /\ TransientCode(r.codes[i])
    BY <1>3 DEF TransientReply, None
  <2>2. r.status \in 200 .. 299
    BY <1>3 DEF TransientReply, None
  <2>c. r.codes \in Seq([code : Int, limited : BOOLEAN])
    BY ReplyAssumption
  <2>3. r.codes[i] \in [code : Int, limited : BOOLEAN]
    BY <2>c, <2>1, ElementOf, Zenon
  <2>4. ClassifyCode(r.codes[i]) \in {"RateLimitedError", "UpstreamServerError"}
    BY <2>1, <2>3, TransientCodeIsRetryable
  <2>5. ClassifyCode(r.codes[i]) # None
    BY <2>4 DEF None
  <2>6. ClassifyPayload(r.codes) = ClassifyCode(r.codes[i])
    BY <2>c, <2>1, <2>5, FirstFailureDecides
  <2>7. ClassifyStatus(r.status) = None
    BY <2>2, SuccessStatus
  <2>8. AttemptResult(r) = ClassifyPayload(r.codes)
    BY <1>3, <2>7 DEF AttemptResult
  <2> QED BY <2>4, <2>6, <2>8 DEF RetryableError
<1> QED BY <1>1, <1>2, <1>3 DEF TransientReply

\* No execution ends on a timeout, a 429, a 5xx or a transient code in the body before
\* it has spent its attempts, whatever else the service may reply.
THEOREM TransientRetried == ClientSpec => []TransientFailureRetried
<1>1. RetryableError \cap (NonRetryableError \cup {None}) = {}
  BY DEF RetryableError, NonRetryableError, None
<1>2. ~ TransientReply(NoReply)
  BY DEF NoReply, Raised, TransientReply, None
<1>3. ClientInit => TransientFailureRetried
  BY <1>2 DEF ClientInit, NoRecord, TransientFailureRetried
<1>4. TransientFailureRetried /\ [ClientNext]_clientVars => TransientFailureRetried'
  <2> SUFFICES ASSUME TransientFailureRetried, [ClientNext]_clientVars
               PROVE  TransientFailureRetried'
    OBVIOUS
  <2> USE DEF TransientFailureRetried, RecordCall
  <2>1. CASE UNCHANGED record
    BY <2>1
  <2>2. ASSUME NEW c \in Call, Rejected(c) PROVE TransientFailureRetried'
    BY <2>2, <1>2 DEF Rejected
  <2>3. ASSUME NEW c \in Call, Succeed(c) PROVE TransientFailureRetried'
    <3>1. PICK r \in Reply : AttemptResult(r) = None /\ record'.reply = r
      BY <2>3 DEF Succeed
    <3> QED BY <3>1, <1>1, TransientIsRetryable
  <2>4. ASSUME NEW c \in Call, Exhaust(c) PROVE TransientFailureRetried'
    BY <2>4 DEF Exhaust
  <2>5. ASSUME NEW c \in Call, FailFast(c) PROVE TransientFailureRetried'
    <3>1. PICK r \in Reply : AttemptResult(r) \in NonRetryableError /\ record'.reply = r
      BY <2>5 DEF FailFast
    <3> QED BY <3>1, <1>1, TransientIsRetryable
  <2>6. Elapse \/ UNCHANGED clientVars \/ (\E c \in Call :
          Start(c) \/ Sleep(c) \/ Wake(c) \/ PassThrough(c) \/ CancelCall(c)) => UNCHANGED record
    BY DEF Elapse, clientVars, Start, Sleep, Wake, PassThrough, CancelCall
  <2> QED BY <2>1, <2>2, <2>3, <2>4, <2>5, <2>6 DEF ClientNext, Execution
<1> QED BY <1>3, <1>4, PTL DEF ClientSpec

-----------------------------------------------------------------------------
(* Sleeps and records *)

\* A delay is a natural number and, where the service named a time, not less than it,
\* up to the cap.
LEMMA Delays ==
  ASSUME NEW n, NEW hint \in Nat \cup {NoHint}, NEW d \in DelayFor(n, hint)
  PROVE  /\ d \in Nat
         /\ hint # NoHint /\ hint <= MaxSeconds => hint <= d
<1>1. d \in Nat
  BY DEF DelayFor, AtLeastZero
<1>2. ASSUME hint # NoHint, hint <= MaxSeconds PROVE hint <= d
  <2>1. hint \in Nat /\ AtMost(hint, MaxSeconds) = hint
    BY <1>2 DEF AtMost
  <2>2. \E s \in hint .. (hint + Jitter(hint)) : d = AtLeastZero(s)
    BY <1>2, <2>1 DEF DelayFor
  <2> QED BY <2>1, <2>2 DEF AtLeastZero
<1> QED BY <1>1, <1>2

Clocks ==
  /\ delay \in [Call -> Nat] /\ asked \in [Call -> Nat]
  /\ record \in Record

LEMMA ClocksEnds ==
  ASSUME Clocks, NEW c \in Call, Leave(c), record' \in Record
  PROVE  Clocks'
BY DEF Clocks, Leave

LEMMA HintOf ==
  ASSUME NEW reply \in Reply
  PROVE  /\ Hint(reply) \in Nat \cup {NoHint} /\ reply.retryAfter \in Nat \cup {NoHint}
         /\ AtLeastZero(reply.retryAfter) \in Nat
BY ReplyAssumption DEF Hint, AtLeastZero, NoHint

\* What a task does when it goes to sleep.
LEMMA SleepStep ==
  ASSUME NEW c \in Call, Sleep(c)
  PROVE  \E r \in Reply, d \in Nat :
           /\ delay' = [delay EXCEPT ![c] = d]
           /\ asked' = [asked EXCEPT ![c] = AtLeastZero(r.retryAfter)]
           /\ record' = record
           /\ Hint(r) # NoHint /\ Hint(r) <= MaxSeconds => Hint(r) <= d
<1>1. PICK r \in Reply :
        /\ \E d \in DelayFor(attempt[c], Hint(r)) : delay' = [delay EXCEPT ![c] = d]
        /\ asked' = [asked EXCEPT ![c] = AtLeastZero(r.retryAfter)]
        /\ record' = record
  BY DEF Sleep
<1>2. Hint(r) \in Nat \cup {NoHint}
  BY HintOf
<1>3. PICK d \in DelayFor(attempt[c], Hint(r)) : delay' = [delay EXCEPT ![c] = d]
  BY <1>1
<1>4. d \in Nat
  BY <1>2, Delays, Zenon
<1>5. ASSUME Hint(r) # NoHint, Hint(r) <= MaxSeconds PROVE Hint(r) <= d
  BY <1>2, <1>5, Delays, Zenon
<1> QED BY <1>1, <1>3, <1>4, <1>5

LEMMA RecordStep ==
  ASSUME Clocks, Phases, ClientNext
  PROVE  record' \in Record
<1> USE ReplyAssumption DEF Clocks, Record, RecordCall, AttemptsReported, ExternalServiceError
<1>1. ASSUME NEW c \in Call, Rejected(c) PROVE record' \in Record
  BY <1>1 DEF Rejected, NonRetryableError, None
<1>2. ASSUME NEW c \in Call, Succeed(c) PROVE record' \in Record
  BY <1>2 DEF Succeed, Phases, None
<1>3. ASSUME NEW c \in Call, Exhaust(c) PROVE record' \in Record
  BY <1>3 DEF Exhaust, Phases
<1>4. ASSUME NEW c \in Call, FailFast(c) PROVE record' \in Record
  BY <1>4 DEF FailFast, Phases, NonRetryableError, None
<1>5. Elapse \/ (\E c \in Call : Start(c) \/ Sleep(c) \/ Wake(c) \/ PassThrough(c) \/ CancelCall(c))
        => UNCHANGED record
  BY DEF Elapse, Start, Sleep, Wake, PassThrough, CancelCall
<1> QED BY <1>1, <1>2, <1>3, <1>4, <1>5 DEF ClientNext, Execution

LEMMA ClocksStep == Clocks /\ Phases /\ [ClientNext]_clientVars => Clocks'
<1> SUFFICES ASSUME Clocks, Phases, [ClientNext]_clientVars PROVE Clocks'
  OBVIOUS
<1>1. CASE Elapse
  BY <1>1 DEF Elapse, Clocks
<1>2. ASSUME NEW c \in Call, Start(c) PROVE Clocks'
  BY <1>2 DEF Start, Clocks
<1>3. ASSUME NEW c \in Call, Rejected(c) PROVE Clocks'
  BY <1>3, RecordStep DEF Rejected, retryVars, Clocks, ClientNext
<1>4. ASSUME NEW c \in Call, Sleep(c) PROVE Clocks'
  BY <1>4, SleepStep, HintOf DEF Clocks
<1>5. ASSUME NEW c \in Call, Wake(c) PROVE Clocks'
  BY <1>5 DEF Wake, Clocks
<1>6. ASSUME NEW c \in Call, Execution(c), Ends(c) PROVE Clocks'
  BY <1>6, RecordStep, ClocksEnds DEF Ends, ClientNext
<1>7. CASE UNCHANGED clientVars
  BY <1>7 DEF clientVars, Clocks
<1> QED BY <1>1, <1>2, <1>3, <1>4, <1>5, <1>6, <1>7, EndingSteps DEF ClientNext

LEMMA ClocksInit == ClientInit => Clocks
BY DEF ClientInit, Clocks, Record, NoRecord, None

\* What each task and the record of calls hold is of its type, for every policy of
\* retries and of the breaker.
THEOREM ClientTypeCorrect == ClientSpec => []ClientTypeOK
<1>1. Phases /\ Clocks /\ LateInv => ClientTypeOK
  BY DEF Phases, Clocks, LateInv, ClientTypeOK
<1> QED BY <1>1, ClocksInit, ClocksStep, LateInit, LateStep, PhasesInit, PhasesStep, PTL
        DEF ClientSpec

\* Where a service that names a time does so with a readable 429 and within the cap, no
\* task tries again before that time, whatever the jitter.
THEOREM RetryWaits ==
  ASSUME \A r \in Reply : r.retryAfter > 0 =>
           r.exception = None /\ r.json /\ r.status = 429 /\ r.retryAfter <= MaxSeconds
  PROVE  ClientSpec => RetryNotBeforeAsked
<1> DEFINE Waits == \A c \in Call : asked[c] <= delay[c]
<1>1. ASSUME NEW c \in Call, Clocks, Waits, Sleep(c) PROVE Waits'
  <2>1. PICK r \in Reply, d \in Nat :
          /\ delay' = [delay EXCEPT ![c] = d]
          /\ asked' = [asked EXCEPT ![c] = AtLeastZero(r.retryAfter)]
          /\ Hint(r) # NoHint /\ Hint(r) <= MaxSeconds => Hint(r) <= d
    BY <1>1, SleepStep
  <2>2. AtLeastZero(r.retryAfter) <= d
    <3>1. CASE r.retryAfter > 0
      BY <2>1, <3>1, HintOf DEF Hint, AtLeastZero, NoHint
    <3>2. CASE ~(r.retryAfter > 0)
      BY <3>2, HintOf DEF AtLeastZero, NoHint
    <3> QED BY <3>1, <3>2
  <2> QED BY <1>1, <2>1, <2>2 DEF Clocks
<1>2. ASSUME Clocks, Phases, Waits, [ClientNext]_clientVars PROVE Waits'
  <2>1. CASE Elapse
    BY <1>2, <2>1 DEF Elapse, Clocks
  <2>2. ASSUME NEW c \in Call, Start(c) \/ Rejected(c) PROVE Waits'
    BY <1>2, <2>2 DEF Start, Rejected, retryVars
  <2>3. ASSUME NEW c \in Call, Wake(c) PROVE Waits'
    BY <1>2, <2>3 DEF Wake, Clocks
  <2>4. ASSUME NEW c \in Call, Ends(c) PROVE Waits'
    BY <1>2, <2>4 DEF Ends, Leave, Clocks
  <2>5. CASE UNCHANGED clientVars
    BY <1>2, <2>5 DEF clientVars
  <2> QED BY <1>1, <1>2, <2>1, <2>2, <2>3, <2>4, <2>5, EndingSteps DEF ClientNext
\* A task wakes when its delay is over, and so is what it was asked to wait.
<1>3. ASSUME Clocks, Phases, Waits, [ClientNext]_clientVars, NEW c \in Call,
             phase[c] = "sleeping", phase'[c] = "attempting"
      PROVE  asked[c] = 0
  <2>1. Wake(c)
    <3>1. ASSUME NEW d \in Call, Start(d) PROVE d # c
      BY <1>3, <3>1 DEF Start, AdmitWhileClosed, AdmitFirstProbe, AdmitProbe, Phases
    <3>2. ASSUME NEW d \in Call, Start(d) \/ Rejected(d) PROVE FALSE
      BY <1>3, <3>1, <3>2 DEF Start, Rejected, retryVars, Phases
    <3>3. ASSUME NEW d \in Call, Sleep(d) \/ Ends(d) PROVE FALSE
      BY <1>3, <3>3 DEF Sleep, Ends, Leave, Phases
    <3>4. ASSUME NEW d \in Call, Wake(d) PROVE d = c
      BY <1>3, <3>4 DEF Wake, Phases
    <3>5. ~ Elapse /\ ~ UNCHANGED clientVars
      BY <1>3 DEF Elapse, clientVars, Phases
    <3> QED BY <1>3, <3>2, <3>3, <3>4, <3>5, EndingSteps DEF ClientNext
  <2> QED BY <1>3, <2>1 DEF Wake, Clocks
<1>4. ClientInit => Waits
  BY DEF ClientInit
<1>5. Clocks /\ Phases /\ Waits /\ [ClientNext]_clientVars =>
        [\A c \in Call : phase[c] = "sleeping" /\ phase'[c] = "attempting" => asked[c] = 0]_clientVars
  BY <1>3
<1>6. Clocks /\ Phases /\ Waits /\ [ClientNext]_clientVars => Waits'
  BY <1>2
<1> HIDE DEF Waits
<1> QED BY <1>4, <1>5, <1>6, ClocksInit, ClocksStep, PhasesInit, PhasesStep, PTL
        DEF ClientSpec, RetryNotBeforeAsked

-----------------------------------------------------------------------------
(* How far an execution is from its end *)

\* An execution of c is over, or is further by an attempt, by a sleep that was begun, or by
\* a tick.  Attempts are at most MaxAttempts and delays are natural numbers (ClientTypeOK),
\* so that none can go on like this for ever.
GoesOn(c) ==
  \/ phase'[c] = "idle"
  \/ attempt'[c] > attempt[c]
  \/ attempt'[c] = attempt[c] /\ phase[c] = "attempting" /\ phase'[c] = "sleeping"
  \/ attempt'[c] = attempt[c] /\ phase'[c] = phase[c] /\ delay'[c] < delay[c]

Place(c) == <<phase[c], attempt[c], delay[c]>>

\* Nothing happens to an execution but what takes it nearer to its end: no reply, no
\* other task and nothing that the breaker does in between has it start over or sleep
\* longer.  ExecutionsEnd is this and the timeout of each attempt (retry.py:84-152).
THEOREM ExecutionsAdvance ==
  ClientSpec => [][ \A c \in Call : phase[c] # "idle" /\ Place(c)' # Place(c) => GoesOn(c) ]_clientVars
<1>1. ASSUME Clocks, Phases, ClientNext, NEW c \in Call, phase[c] # "idle", Place(c)' # Place(c)
      PROVE  GoesOn(c)
  <2> USE DEF Place
  <2>1. CASE Elapse
    <3>1. phase' = phase /\ attempt' = attempt
      BY <2>1 DEF Elapse
    <3>2. delay[c] \in Nat /\ delay'[c] = IF delay[c] > 0 THEN delay[c] - 1 ELSE 0
      BY <1>1, <2>1 DEF Elapse, Clocks
    <3> QED BY <1>1, <3>1, <3>2 DEF GoesOn
  <2>2. ASSUME NEW d \in Call, Start(d) PROVE FALSE
    <3>1. d # c
      BY <1>1, <2>2 DEF Start, AdmitWhileClosed, AdmitFirstProbe, AdmitProbe, Phases
    <3> QED BY <1>1, <2>2, <3>1 DEF Start, Phases
  <2>3. ASSUME NEW d \in Call, Rejected(d) PROVE FALSE
    BY <1>1, <2>3 DEF Rejected, retryVars
  <2>4. ASSUME NEW d \in Call, Sleep(d) PROVE GoesOn(c)
    <3>1. PICK s \in Nat : delay' = [delay EXCEPT ![d] = s]
      BY <2>4, SleepStep
    <3>2. d = c
      BY <1>1, <2>4, <3>1 DEF Sleep, Clocks, Phases
    <3> QED BY <1>1, <2>4, <3>2 DEF Sleep, Phases, GoesOn
  <2>5. ASSUME NEW d \in Call, Wake(d) PROVE GoesOn(c)
    <3>1. d = c
      BY <1>1, <2>5 DEF Wake, Phases
    <3> QED BY <1>1, <2>5, <3>1 DEF Wake, Phases, GoesOn
  <2>6. ASSUME NEW d \in Call, Ends(d) PROVE GoesOn(c)
    <3>1. d = c
      BY <1>1, <2>6 DEF Ends, Leave, Phases, Clocks
    <3> QED BY <1>1, <2>6, <3>1 DEF Ends, Leave, Phases, GoesOn
  <2> QED BY <1>1, <2>1, <2>2, <2>3, <2>4, <2>5, <2>6, EndingSteps DEF ClientNext
<1>2. Clocks /\ Phases /\ [ClientNext]_clientVars =>
        [\A c \in Call : phase[c] # "idle" /\ Place(c)' # Place(c) => GoesOn(c)]_clientVars
  BY <1>1
<1> QED BY <1>2, ClocksInit, ClocksStep, PhasesInit, PhasesStep, PTL DEF ClientSpec
=============================================================================
