------------------------- MODULE MCRetrievalBranch -------------------------
EXTENDS RetrievalBranch, TLC
\* log10(1 + v) / log10(100001), in thousandths
Demand == 0 :> 0 @@ 100 :> 401 @@ 100000 :> 1000
\* an index outside of 0-100, as a malformed payload may have
OutOfRange == {30, 101}

\* Plans with and without the capability that an unmarked results page is taken for,
\* in orders that differ in what it is taken for otherwise.
Plans == [kinds : {<<"organic_serp", "ai_overview", "keyword_metrics">>,
                   <<"keyword_metrics", "ai_overview">>, <<"llm_visibility", "ai_overview">>,
                   <<"organic_serp">>},
          operator : BOOLEAN]

\* A clean call of every tool, and calls that are wrong in every way.
Calls == [tool : Kind \cup Invented, decoded : {TRUE}, issues : {{}}]
         \cup [tool : {"organic_serp"}, decoded : {TRUE},
               issues : {{"missing", "other"}, {"extra_forbidden", "other"}, {"other"}}]
         \cup [tool : {"ai_overview"}, decoded : {FALSE}, issues : {{"missing"}}]
=============================================================================
