-------------------------- MODULE DataForSEOClient --------------------------
(***************************************************************************)
(* infrastructure/dataforseo/client.py with resilience/retry.py and        *)
(* resilience/backoff.py: the path of every external call,                 *)
(*                                                                         *)
(*    circuit breaker -> retry executor -> one attempt                     *)
(*                                                                         *)
(* A task of Call runs DataForSEOClient.execute over and over.  Within one *)
(* execution it is attempting (awaiting an HTTP reply) or sleeping between *)
(* attempts; other tasks run at every await.  The variables of             *)
(* CircuitBreaker are the one breaker all tasks share, and each step here  *)
(* that starts or ends an execution is a step of it.                       *)
(***************************************************************************)
EXTENDS CircuitBreaker, ErrorTaxonomy

CONSTANTS
  MaxAttempts,        \* RetryPolicy.max_attempts
  InitialSeconds,     \* BackoffPolicy.initial_seconds
  Multiplier,         \* BackoffPolicy.multiplier
  MaxSeconds,         \* BackoffPolicy.max_seconds
  JitterPercent,      \* 100 * BackoffPolicy.jitter_ratio
  Reply               \* the replies the service may give; see ErrorTaxonomy

ASSUME RetryAssumption ==    \* config/settings.py:171-178
  /\ MaxAttempts \in Nat \ {0}
  /\ InitialSeconds \in Nat \ {0}
  /\ Multiplier \in Nat \ {0, 1}
  /\ MaxSeconds \in Nat \ {0}
  /\ JitterPercent \in 0 .. 100

ASSUME ReplyAssumption ==
  \A r \in Reply : /\ r.retryAfter \in Nat \cup {NoHint}
                   /\ r.status \in Nat
                   /\ r.codes \in Seq([code : Int, limited : BOOLEAN])

VARIABLES
  phase,     \* "idle", "attempting" or "sleeping"
  attempt,   \* the attempt of the present execution, 0 when idle
  delay,     \* what is left of the present sleep
  asked,     \* what is left of the wait the server asked for
  record,    \* the ApiCallRecord last appended to the run's metrics
  lateWakes  \* per task: attempts it began since the circuit opened, while open

retryVars == <<phase, attempt, delay, asked>>
clientVars == <<vars, phase, attempt, delay, asked, record, lateWakes>>

(***************************************************************************)
(* ApiCallRecord: error is None for a success; attempts is what the client *)
(* reports.  Two fields are the model's own: made, the attempts really     *)
(* made, and reply, the one that ended the execution, if there was one.    *)
(***************************************************************************)
NoReply == Raised("no reply")
Record == [error : ExternalServiceError \cup {None}, attempts : Nat, made : Nat,
           reply : Reply \cup {NoReply}]
NoRecord == [error |-> None, attempts |-> 0, made |-> 0, reply |-> NoReply]

ClientTypeOK ==
  /\ phase \in [Call -> {"idle", "attempting", "sleeping"}]
  /\ attempt \in [Call -> 0 .. MaxAttempts]
  /\ delay \in [Call -> Nat]
  /\ asked \in [Call -> Nat]
  /\ record \in Record
  /\ lateWakes \in [Call -> 0 .. MaxAttempts]
  /\ \A c \in Call : calls[c] = "idle" <=> phase[c] = "idle"

ClientInit ==
  /\ Init
  /\ phase = [c \in Call |-> "idle"]
  /\ attempt = [c \in Call |-> 0]
  /\ delay = [c \in Call |-> 0]
  /\ asked = [c \in Call |-> 0]
  /\ record = NoRecord
  /\ lateWakes = [c \in Call |-> 0]

-----------------------------------------------------------------------------
(* backoff.py *)

AtMost(x, limit) == IF x < limit THEN x ELSE limit
AtLeastZero(x) == IF x < 0 THEN 0 ELSE x
BaseDelay(n) == AtMost(InitialSeconds * Multiplier ^ (n - 1), MaxSeconds)
Jitter(d) == (d * JitterPercent) \div 100

\* mutant: jitter in both directions, with or without Retry-After
DelayForBothWays(n, hint) ==
  LET d == IF hint = NoHint THEN BaseDelay(n) ELSE AtMost(hint, MaxSeconds)
  IN  {AtLeastZero(s) : s \in (d - Jitter(d)) .. (d + Jitter(d))}

\* The delays that may be drawn after attempt n failed with this Retry-After.
DelayFor(n, hint) ==
  LET d == IF hint = NoHint THEN BaseDelay(n) ELSE AtMost(hint, MaxSeconds)
      soonest == IF hint = NoHint THEN d - Jitter(d) ELSE d
  IN  {AtLeastZero(s) : s \in soonest .. (d + Jitter(d))}

-----------------------------------------------------------------------------
(* One execution *)

\* The count starts over whenever the circuit changes state.
PeriodOfLateWakes ==
  lateWakes' = IF state' = state THEN lateWakes ELSE [d \in Call |-> 0]

Start(c) ==
  /\ AdmitWhileClosed(c) \/ AdmitFirstProbe(c) \/ AdmitProbe(c)
  /\ phase' = [phase EXCEPT ![c] = "attempting"]
  /\ attempt' = [attempt EXCEPT ![c] = 1]
  /\ PeriodOfLateWakes
  /\ UNCHANGED <<delay, asked, record>>

\* _record_call: the attribute `attempts` of the error, or 1 if it has none.
AttemptsReported(error, made) ==
  IF error \in {None, "RetryExhaustedError"} THEN made ELSE 1

RecordCall(error, made, reply) ==
  record' = [error |-> error, attempts |-> AttemptsReported(error, made),
             made |-> made, reply |-> reply]

Rejected(c) ==
  /\ Reject(c)
  /\ RecordCall("CircuitOpenError", 0, NoReply)
  /\ UNCHANGED <<retryVars, lateWakes>>

Leave(c) ==
  /\ phase' = [phase EXCEPT ![c] = "idle"]
  /\ attempt' = [attempt EXCEPT ![c] = 0]
  /\ delay' = [delay EXCEPT ![c] = 0]
  /\ asked' = [asked EXCEPT ![c] = 0]
  /\ PeriodOfLateWakes

Succeed(c) ==
  /\ phase[c] = "attempting"
  /\ \E reply \in Reply :
       /\ AttemptResult(reply) = None
       /\ RecordCall(None, attempt[c], reply)
  /\ RecordSuccess(c)
  /\ Leave(c)

\* mutant: one retry too many
MayRetryOnceMore(c) == attempt[c] <= MaxAttempts
MayRetry(c) == attempt[c] < MaxAttempts

\* The Retry-After handed to the backoff policy: only a RateLimitedError has one,
\* and only the classifier of the HTTP status fills it in.
Hint(reply) == IF reply.exception = None /\ reply.json /\ reply.status = 429
               THEN reply.retryAfter ELSE NoHint

\* mutant: the breaker inside the retry loop, told of every failed attempt
SleepAndBlame(c) ==
  /\ phase[c] = "attempting"
  /\ MayRetry(c)
  /\ \E reply \in Reply :
       /\ AttemptResult(reply) \in RetryableError
       /\ \E d \in DelayFor(attempt[c], Hint(reply)) :
            delay' = [delay EXCEPT ![c] = d]
       /\ asked' = [asked EXCEPT ![c] = AtLeastZero(reply.retryAfter)]
  /\ phase' = [phase EXCEPT ![c] = "sleeping"]
  /\ consecutiveFailures' = CountFailure
  /\ UNCHANGED <<state, age, halfOpenSuccesses, halfOpenInFlight, calls, leaked>>
  /\ UNCHANGED <<attempt, record, lateWakes>>

Sleep(c) ==
  /\ phase[c] = "attempting"
  /\ MayRetry(c)
  /\ \E reply \in Reply :
       /\ AttemptResult(reply) \in RetryableError
       /\ \E d \in DelayFor(attempt[c], Hint(reply)) :
            delay' = [delay EXCEPT ![c] = d]
       /\ asked' = [asked EXCEPT ![c] = AtLeastZero(reply.retryAfter)]
  /\ phase' = [phase EXCEPT ![c] = "sleeping"]
  /\ UNCHANGED <<vars, attempt, record, lateWakes>>

\* mutant: the attempts are not counted
WakeAfresh(c) ==
  /\ phase[c] = "sleeping"
  /\ delay[c] = 0
  /\ phase' = [phase EXCEPT ![c] = "attempting"]
  /\ asked' = [asked EXCEPT ![c] = 0]
  /\ UNCHANGED <<vars, attempt, delay, record, lateWakes>>

Wake(c) ==
  /\ phase[c] = "sleeping"
  /\ delay[c] = 0
  /\ phase' = [phase EXCEPT ![c] = "attempting"]
  /\ attempt' = [attempt EXCEPT ![c] = @ + 1]
  /\ asked' = [asked EXCEPT ![c] = 0]
  /\ lateWakes' = IF state = "open" THEN [lateWakes EXCEPT ![c] = @ + 1] ELSE lateWakes
  /\ UNCHANGED <<vars, delay, record>>

\* What CircuitBreaker.execute does with an exception.
Report(c, error) ==
  IF IsDependencyFailure(error) THEN RecordFailure(c) ELSE ReleaseProbe(c)

Exhaust(c) ==
  /\ phase[c] = "attempting"
  /\ attempt[c] = MaxAttempts
  /\ \E reply \in Reply :
       /\ AttemptResult(reply) \in RetryableError
       /\ RecordCall("RetryExhaustedError", attempt[c], reply)
  /\ Report(c, "RetryExhaustedError")
  /\ Leave(c)

FailFast(c) ==
  /\ phase[c] = "attempting"
  /\ \E reply \in Reply :
       /\ AttemptResult(reply) \in NonRetryableError
       /\ RecordCall(AttemptResult(reply), attempt[c], reply)
       /\ Report(c, AttemptResult(reply))
  /\ Leave(c)

\* An exception outside the taxonomy passes through; it is not recorded.
PassThrough(c) ==
  /\ phase[c] = "attempting"
  /\ \E reply \in Reply : AttemptResult(reply) = Unclassified
  /\ Report(c, Unclassified)
  /\ Leave(c)
  /\ UNCHANGED record

\* Cancellation, at either await, is not recorded either.
CancelCall(c) ==
  /\ Cancel(c)
  /\ Leave(c)
  /\ UNCHANGED record

\* A tick of the clock, for the breaker's window and for every sleep.
Elapse ==
  /\ IF state = "open" /\ age < ResetSeconds THEN Tick ELSE UNCHANGED vars
  /\ delay' = [c \in Call |-> IF delay[c] > 0 THEN delay[c] - 1 ELSE 0]
  /\ asked' = [c \in Call |-> IF asked[c] > 0 THEN asked[c] - 1 ELSE 0]
  /\ UNCHANGED <<phase, attempt, record, lateWakes>>
-----------------------------------------------------------------------------
Execution(c) ==
  \/ Succeed(c) \/ Sleep(c) \/ Wake(c) \/ Exhaust(c) \/ FailFast(c)
  \/ PassThrough(c) \/ CancelCall(c)

ClientNext == Elapse \/ \E c \in Call : Start(c) \/ Rejected(c) \/ Execution(c)

ClientSpec == ClientInit /\ [][ClientNext]_clientVars

\* Time passes; every attempt is answered or times out (DATAFORSEO_TIMEOUT_SECONDS
\* bounds it); a sleep that is over ends.
ClientFairSpec ==
  ClientSpec /\ WF_clientVars(Elapse) /\ \A c \in Call : WF_clientVars(Execution(c))

-----------------------------------------------------------------------------
(* Properties *)

\* The dependency is blamed only by an execution that spent its whole budget: no
\* 4xx, contract violation or bug of ours opens the circuit or brings it closer
\* to opening (circuit_breaker.py:72-78).
Blame == (state' = "open" /\ state # "open") \/ consecutiveFailures' > consecutiveFailures
BudgetSpent == \E c \in Call : /\ attempt[c] = MaxAttempts
                              /\ phase'[c] = "idle"
                              /\ record'.error = "RetryExhaustedError"
BlamedOnlyWhenExhausted == [][Blame => BudgetSpent]_clientVars

\* What an open circuit still lets through are the retries of executions that
\* were admitted before it opened: no task begins more than MaxAttempts - 1
\* attempts, and the one that opened the circuit none.
TrafficWhileOpenBounded ==
  state = "open" => /\ \A c \in Call : lateWakes[c] <= MaxAttempts - 1
                    /\ \E c \in Call : lateWakes[c] = 0

\* "a retry can never happen sooner than the server asked" (README.md:243-244)
RetryNotBeforeAsked ==
  [][ \A c \in Call : phase[c] = "sleeping" /\ phase'[c] = "attempting"
                       => asked[c] = 0 ]_clientVars

\* What says that another attempt may do better: a timeout or a connection error,
\* a 429 or a 5xx, or under a 2xx a first code other than Ok that reports a rate
\* limit, by number or in words, a server error or a task that is not ready.
TransientCode(t) ==
  /\ t.code # Malformed
  /\ t.limited \/ t.code = 42900 \/ t.code \in InProgressRange \/ t.code \in ServerRange

TransientReply(reply) ==
  \/ reply.exception \in {"timeout", "connect"}
  \/ /\ reply.exception = None
     /\ reply.json
     /\ \/ reply.status = 429 \/ reply.status \in 500 .. 599
        \/ /\ reply.status \in 200 .. 299
           /\ \E i \in DOMAIN reply.codes :
                /\ \A j \in 1 .. (i - 1) : reply.codes[j].code = StatusOk
                /\ reply.codes[i].code # StatusOk
                /\ TransientCode(reply.codes[i])

\* "Timeouts, connection errors, 429s and 5xx get retried" (README.md:239), and "one
\* decision regardless of how the failure was expressed" (status.py:9-10): an
\* execution that ends on such a reply has spent its attempts.  A body that is not
\* JSON is left out: it is a contract error under any status (transport.py:108).
TransientFailureRetried == TransientReply(record.reply) => record.made = MaxAttempts

\* Every execution ends, however its attempts are answered.
ExecutionsEnd == \A c \in Call : phase[c] # "idle" ~> phase[c] = "idle"
=============================================================================
