-------------------------- MODULE MCResultReaders --------------------------
EXTENDS ResultReaders, TLC
CONSTANTS a1, a2, r1, r2, k1, k2, s1, l1, l2, v1
\* two applications for one domain
TwoApplicants == a1 :> "d" @@ a2 :> "d"

Filters == l1 :> "any" @@ l2 :> "visible"
\* The run with the later started_at may be announced, and end, before the other.
Starts == r1 :> 1 @@ r2 :> 2

\* Two applications; two rechecks of one query; two runs; and readers beside them.
Loads == {{a1, a2, r1}, {a1, r1, k1, k2}, {a1, r1, r2},
          {a1, r1, s1}, {a1, r1, v1}, {a1, r1, k1, l1}, {a1, r1, k1, l2}}
=============================================================================
