--------------------------- MODULE ErrorTaxonomy ---------------------------
(***************************************************************************)
(* What one attempt at a DataForSEO call comes to.  The taxonomy of        *)
(* application/ports/errors.py, and the decision procedures that map a     *)
(* reply of the service onto it: the transport's own check of the body,    *)
(* then infrastructure/resilience/classifier.py for the HTTP status, then  *)
(* infrastructure/dataforseo/status.py for the status codes in the body.   *)
(*                                                                         *)
(* An error is its class name; None is success; Unclassified stands for    *)
(* every exception outside the taxonomy.  Wording and excerpts are left    *)
(* out.                                                                    *)
(***************************************************************************)
EXTENDS Integers, Sequences

None == "None"
Unclassified == "Unclassified"

RetryableError == {"TransientNetworkError", "RateLimitedError", "UpstreamServerError"}

\* CircuitOpenError derives from NonRetryableError, whatever the tree in the
\* module docstring shows.
NonRetryableError ==
  {"AuthenticationError", "BadRequestError", "ResourceNotFoundError",
   "UpstreamContractError", "CircuitOpenError"}

ExternalServiceError == RetryableError \cup NonRetryableError \cup {"RetryExhaustedError"}

\* What the circuit breaker counts.
IsDependencyFailure(error) == error \in RetryableError \cup {"RetryExhaustedError"}

-----------------------------------------------------------------------------
(***************************************************************************)
(* A reply is an exception raised by the HTTP client, or an answer: its    *)
(* status, whether its body is a JSON object, the seconds its Retry-After  *)
(* asks for (NoHint without a readable header, 0 for a past date), and the *)
(* status codes in the body, envelope first and then one per task.  A code *)
(* is [code, limited], limited when its message speaks of a rate limit.  A *)
(* missing or non-integer code is Malformed, whatever its message says.    *)
(***************************************************************************)
NoHint == -1
Malformed == -1

Raised(exception) ==
  [exception |-> exception, status |-> 0, json |-> FALSE, retryAfter |-> NoHint, codes |-> <<>>]

Answer(status, json, retryAfter, codes) ==
  [exception |-> None, status |-> status, json |-> json,
   retryAfter |-> retryAfter, codes |-> codes]

-----------------------------------------------------------------------------
(* classifier.py *)

TransportException ==
  {"timeout", "remote_protocol", "connect", "read", "write", "pool", "unsupported_protocol"}
RequestException == {"invalid_url", "too_many_redirects"}

\* UnsupportedProtocol is a TransportError of httpx, so the earlier test takes
\* it and the later one, which names it, never sees it.
ClassifyTransportException(exception) ==
  IF exception \in TransportException THEN "TransientNetworkError"
  ELSE IF exception \in RequestException THEN "BadRequestError"
  ELSE Unclassified

RETRYABLE_CLIENT_STATUS == {408, 425, 429}
AUTH_STATUS == {401, 403}

ClassifyStatus(status) ==
  CASE status \in 200 .. 299 -> None
    [] status = 429 -> "RateLimitedError"
    [] status \in RETRYABLE_CLIENT_STATUS \ {429} -> "TransientNetworkError"
    [] status \in AUTH_STATUS -> "AuthenticationError"
    [] status = 404 -> "ResourceNotFoundError"
    [] status \in (400 .. 499) \ (RETRYABLE_CLIENT_STATUS \cup AUTH_STATUS \cup {404})
         -> "BadRequestError"
    [] OTHER -> "UpstreamServerError"

-----------------------------------------------------------------------------
(* status.py *)

StatusOk == 20000
InProgressRange == 30000 .. 39999
AuthRange == 40100 .. 40299
ClientRange == 40000 .. 49999
ServerRange == 50000 .. 59999

\* mutant: the message is looked at only where no range decides
ClassifyCodeByRange(t) ==
  IF t.code = StatusOk THEN None
  ELSE IF t.code = Malformed THEN "UpstreamContractError"
  ELSE IF t.code \in InProgressRange \/ t.code \in ServerRange THEN "UpstreamServerError"
  ELSE IF t.code \in AuthRange THEN "AuthenticationError"
  ELSE IF t.limited \/ t.code = 42900 THEN "RateLimitedError"
  ELSE IF t.code \in ClientRange THEN "BadRequestError"
  ELSE "UpstreamContractError"

\* The rate-limit test comes before the ranges: an account that is out of
\* credits and says "limit exceeded" is rate limited, not refused.
ClassifyCode(t) ==
  IF t.code = StatusOk THEN None
  ELSE IF t.code = Malformed THEN "UpstreamContractError"
  ELSE IF t.limited \/ t.code = 42900 THEN "RateLimitedError"
  ELSE IF t.code \in InProgressRange \/ t.code \in ServerRange THEN "UpstreamServerError"
  ELSE IF t.code \in AuthRange THEN "AuthenticationError"
  ELSE IF t.code \in ClientRange THEN "BadRequestError"
  ELSE "UpstreamContractError"

\* The first code that is not Ok decides; an envelope that is Ok must carry a task.
ClassifyPayload(codes) ==
  LET failing == {i \in DOMAIN codes : ClassifyCode(codes[i]) # None}
  IN  IF failing # {}
      THEN ClassifyCode(codes[CHOOSE i \in failing : \A j \in failing : i <= j])
      ELSE IF Len(codes) < 2 THEN "UpstreamContractError" ELSE None

-----------------------------------------------------------------------------
(* client.py, _attempt: transport.post reads the body before anyone looks at *)
(* the status, so a body that is not a JSON object decides by itself.        *)

AttemptResult(reply) ==
  IF reply.exception # None THEN ClassifyTransportException(reply.exception)
  ELSE IF ~reply.json THEN "UpstreamContractError"
  ELSE IF ClassifyStatus(reply.status) # None THEN ClassifyStatus(reply.status)
  ELSE ClassifyPayload(reply.codes)
=============================================================================
