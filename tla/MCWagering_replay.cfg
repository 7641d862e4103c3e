CONSTANTS
  NONE = NONE
  w1 = w1
  w2 = w2
  Calls = {c1, c2}
  Workers = {}
  Auditors = {}
  WalletIds = {w1, w2}
  MaxMinor = 4
  Requests <- SameKeyRequests
  Openings <- TwoWallets
SPECIFICATION Spec
SYMMETRY Symmetry
INVARIANT ReplayHasSamePayload
