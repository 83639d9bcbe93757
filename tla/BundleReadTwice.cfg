\* Two tasks that read the same source.
CONSTANTS
  in1 = in1  out1 = out1  src1 = src1  obj1 = obj1  ob1 = ob1  k1 = k1  key1 = key1  n1 = n1
  Paths = {in1, out1}
  Commands = {}
  Hosts = {}
  Claims = {}
  FullRSI = FullRSI
  Objectives = {obj1}
  Obligations = {ob1}
  TicketIds = {k1}
  Never = Never
  Garbled = Garbled
  NoTicket = NoTicket
  MaxTasks = 2
  MaxEffects = 2
  Sources = {src1}
  Outputs = {}
  Empty = Empty
  NoFile = NoFile
  Launches <- MCReadTwice
  MaxAttempts = 1
  MaxTime = 0
  MaxEdits = 0
  Keys = {key1}
  NoKey = NoKey
  Options <- MCNoOptions
  Partial = Partial
  MaxExports = 1
  MaxCompiles = 0
SPECIFICATION BundleSpec
INVARIANTS VerifiedRunIsPackaged
CHECK_DEADLOCK FALSE
