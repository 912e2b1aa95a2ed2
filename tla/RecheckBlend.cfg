SPECIFICATION Spec
CONSTANTS
  a1 = a1
  Applicant = {a1}
  Domain <- OneApplicant
  Run = {r1}
  Recheck = {k1, k2}
  Rank = {1}
CHECK_DEADLOCK FALSE
PROPERTIES SavesOverwrite
