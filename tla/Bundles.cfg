\* One export beside two runs under one run id, an edit and a compile.
CONSTANTS
  in1 = in1  out1 = out1  src1 = src1  obj1 = obj1  ob1 = ob1  k1 = k1  key1 = key1  n1 = n1
  Paths = {in1, out1}
  Commands = {}
  Hosts = {}
  Claims = {}
  FullRSI = FullRSI
  Objectives = {obj1}
  Obligations = {ob1}
  TicketIds = {k1}
  Never = Never
  Garbled = Garbled
  NoTicket = NoTicket
  MaxTasks = 1
  MaxEffects = 2
  Sources = {src1}
  Outputs = {}
  Empty = Empty
  NoFile = NoFile
  Launches <- MCTwoContracts
  MaxAttempts = 2
  MaxTime = 0
  MaxEdits = 1
  Keys = {key1}
  NoKey = NoKey
  Options <- MCOptions
  Partial = Partial
  MaxExports = 1
  MaxCompiles = 1
SPECIFICATION BundleSpec
ACTION_CONSTRAINT Together
INVARIANTS AcceptedBundleIsOneRun QuietExportVerifies MissesOnlyWhatChanged
CHECK_DEADLOCK FALSE
