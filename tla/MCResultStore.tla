---------------------------- MODULE MCResultStore ----------------------------
EXTENDS ResultStore, TLC
CONSTANT a1
\* One profile is enough beside the rechecks of one run.
OneApplicant == a1 :> "d"
=============================================================================
