CONSTANTS
  NONE = NONE
  w1 = w1
  w2 = w2
  Calls = {c1, c2, c3}
  Workers = {p1}
  Auditors = {}
  WalletIds = {w1, w2}
  MaxMinor = 4
  Requests <- ReferenceRequests
  Openings <- TwoWallets
SPECIFICATION Spec
SYMMETRY Symmetry
INVARIANTS ReferencesSound AnswersAgree RefusalsAreReal
PROPERTY SerialSpec
