\* A brief is edited, linted and compiled; tickets come and go; a pair is written.
CONSTANTS
  cmd1 = cmd1  v1 = v1  v2 = v2  k1 = k1  k2 = k2
  Paths <- MCPaths
  Commands = {cmd1}
  Hosts = {}
  Claims = {}
  FullRSI = FullRSI
  Objectives = {"goal"}
  Obligations = {"o1", "o2", "requested", "verified", "reviewed"}
  TicketIds = {k1, k2}
  Never = Never
  Garbled = Garbled
  NoTicket = NoTicket
  Draft <- MCDraft
  MaxTickets = 2
  MaxTime = 1
  Versions = {v1, v2}
  NoFile = NoFile
  Cut = Cut
  MaxCommands = 3
  NoName = NoName
  Source = "brief"
  Goal = "goal"
  Report = "report"
  Requested = "requested"
  Verified = "verified"
  Reviewed = "reviewed"
  PublicIds = {"t1", "t2", "o1", "o2"}
  Clean <- MCClean
  Briefs <- MCBriefs
  Lines <- MCLines
  Overrides <- MCOverrides
  Slips <- MCSlips
  NoContract = NoContract
  MaxChanges = 2
SPECIFICATION ContractsSpec
INVARIANTS PairInvariant LintForetellsCompile DeclaredWritesAreAllowed NothingIsDropped BaselineHidesWhatWasAccepted LintAgreesWithValidate
PROPERTIES AllowLost AllowGained
SYMMETRY MCSymmetry
CHECK_DEADLOCK FALSE
