\* One call of each command over files that change three times.
CONSTANTS
  q1 = q1  x = x  y = y  r1 = r1  r2 = r2  candidate = candidate  other = other
  Garbled = Garbled
  NoMulti = NoMulti
  NoFile = NoFile
  Selected = candidate
  Requests <- MCRequests
  Candidates <- MCCandidates
  Readiness <- MCReadiness
  Indexes <- MCIndexes
  Times <- MCTimes
  MaxWrites = 3
  MaxCalls = 1
  MaxTime = 1
SPECIFICATION GatesSpec
ACTION_CONSTRAINT Apart
INVARIANTS AcceptedWasApproved AcceptedPlanCanMerge EveryObstacleNamed
CHECK_DEADLOCK FALSE
