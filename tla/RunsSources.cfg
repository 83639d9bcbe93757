\* A statement of REFERENCE.md the code does not keep.
CONSTANTS
  in1 = in1  out1 = out1  cmd1 = cmd1  host1 = host1
  src1 = src1  src2 = src2  prn1 = prn1  obj1 = obj1
  ob1 = ob1  ob2 = ob2  k1 = k1  k2 = k2
  Paths = {in1, out1}
  Commands = {cmd1}
  Hosts = {host1}
  Claims = {}
  FullRSI = FullRSI
  Objectives = {obj1}
  Obligations = {ob1, ob2}
  TicketIds = {k1, k2}
  Never = Never
  Garbled = Garbled
  NoTicket = NoTicket
  MaxTasks = 3
  MaxEffects = 2
  Sources = {src1, src2}
  Outputs = {prn1}
  Empty = Empty
  NoFile = NoFile
  Launches <- MCOneLaunch
  MaxAttempts = 1
  MaxTime = 0
  MaxEdits = 1
SPECIFICATION Spec
INVARIANTS SourcesMayChange
CHECK_DEADLOCK FALSE
