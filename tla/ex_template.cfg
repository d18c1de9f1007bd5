CONSTANTS
  Requests = {q1}
  q1 = q1
  MaxRuns = 2
  Analyses <- MCAnalyses
  Texts <- MCTexts
SPECIFICATION Spec
CHECK_DEADLOCK FALSE
INVARIANT CommittedIsExplained
