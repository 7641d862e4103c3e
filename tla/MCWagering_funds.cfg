CONSTANTS
  NONE = NONE
  w1 = w1
  w2 = w2
  Calls = {c1, c2, c3}
  Workers = {p1}
  Auditors = {a1}
  WalletIds = {w1}
  MaxMinor = 4
  Requests <- FundsRequests
  Openings <- FundsOpenings
SPECIFICATION Spec
SYMMETRY Symmetry
INVARIANT TypeOK
INVARIANT LedgerChain
INVARIANT EventsCarryVersions
INVARIANT ReconciliationConsistent
PROPERTY FundsDecide
PROPERTY MovementsAreVersions
