CONSTANTS
  Requests = {q1, q2}
  q1 = q1
  q2 = q2
  MaxRuns = 2
  Analyses <- MCAnalyses
  Texts <- MCTexts
SPECIFICATION FairSpec
CHECK_DEADLOCK FALSE
INVARIANTS
  TypeOK
  ShownDescribesSelected
  SilenceHasCause
PROPERTIES
  RequestEnds
