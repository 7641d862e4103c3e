CONSTANTS
  NONE = NONE
  w1 = w1
  w2 = w2
  Calls = {c1, c2}
  Workers = {p1}
  Auditors = {a1}
  WalletIds = {w1}
  MaxMinor = 4
  Requests <- ReversalRequests
  Openings <- ReversalOpenings
SPECIFICATION FairSpec
PROPERTY EveryCallAnswered
