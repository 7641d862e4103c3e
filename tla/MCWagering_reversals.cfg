CONSTANTS
  NONE = NONE
  w1 = w1
  w2 = w2
  Calls = {c1, c2, c3, c4}
  Workers = {p1, p2}
  Auditors = {}
  WalletIds = {w1}
  MaxMinor = 4
  Requests <- ReversalRequests
  Openings <- ReversalOpenings
SPECIFICATION Spec
SYMMETRY Symmetry
INVARIANT OneMovementPerOperation
INVARIANT OutcomeAnnouncedOnce
INVARIANT ReversalsExclusive
INVARIANT SnapshotIsCurrent
INVARIANT SafetyNetsUnused
PROPERTY TerminalIsFinal
