CONSTANTS
  l1 = l1
  l2 = l2
  l3 = l3
  LinkIds = {l1, l2, l3}
  Foreign <- MCForeign
  Outages <- MCOutages
  Transactions <- MCTransactions
SPECIFICATION FairSpec
CHECK_DEADLOCK FALSE
INVARIANTS
  TypeOK
  SuccessNamesOurLink
  RailVerdictIsEvidence
PROPERTIES
  PortImplemented
  CallsEnd
