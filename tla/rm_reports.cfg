CONSTANTS
  c1 = c1
  c2 = c2
  Cases = {c1, c2}
  Analyses <- MCAnalyses
  MaxRuns = 2
  PageSize = 1
SPECIFICATION Spec
SYMMETRY Symmetry
INVARIANTS
  TypeOK
  SummaryLosesNoCase
  DetailIsCoherent
  ReadersShowSelected
