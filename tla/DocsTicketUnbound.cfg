\* A docs-only ticket whose scope was changed after it was digested.
CONSTANTS
  q1 = q1  x = x  y = y  r1 = r1  r2 = r2  candidate = candidate  other = other
  Garbled = Garbled
  NoMulti = NoMulti
  NoFile = NoFile
  Selected = candidate
  Requests <- MCDocs
  Candidates = {}
  Readiness = {}
  Indexes = {}
  Times <- MCTimes
  MaxWrites = 3
  MaxCalls = 1
  MaxTime = 1
SPECIFICATION GatesSpec
INVARIANTS DocsTicketIsBound
CHECK_DEADLOCK FALSE
