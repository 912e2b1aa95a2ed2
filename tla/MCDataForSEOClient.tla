------------------------- MODULE MCDataForSEOClient -------------------------
(* Instances of DataForSEOClient for TLC: which replies the service may give. *)
EXTENDS DataForSEOClient

Ok == [code |-> 20000, limited |-> FALSE]
Says(code) == [code |-> code, limited |-> FALSE]
Plain(status) == Answer(status, TRUE, NoHint, <<>>)
Body(codes) == Answer(200, TRUE, NoHint, codes)

\* One reply of every class of the taxonomy, at each level that can express it: a
\* task that failed under an envelope that is Ok, a refusal (40203) in the words of a
\* rate limit, a code of no known range, a gateway's page of HTML.  A Retry-After
\* never exceeds MaxSeconds and comes with a 429.
Replies ==
  { Body(<<Ok, Ok>>),
    Body(<<Ok, Says(50000)>>), Body(<<[code |-> 40203, limited |-> TRUE]>>),
    Body(<<Says(60000)>>), Plain(503), Plain(401),
    Answer(429, TRUE, MaxSeconds, <<>>), Answer(503, FALSE, NoHint, <<>>),
    Raised("timeout"), Raised("bug") }
=============================================================================
