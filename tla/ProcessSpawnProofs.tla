------------------------- MODULE ProcessSpawnProofs -------------------------
(***************************************************************************)
(* One process.spawn, for every timeout, scale of the clock, width of a    *)
(* Duration and length of time.                                            *)
(***************************************************************************)
EXTENDS ProcessSpawn, TLAPS

\* The deadline as the caller meant it has passed, or does not fit a Duration.
Due == now >= timeout * Second \/ timeout * Second >= Half

SpawnTypes ==
  /\ now \in Nat /\ timeout \in Nat \ {0}
  /\ allowed \in BOOLEAN /\ expired \in BOOLEAN /\ code \in BOOLEAN
  /\ captures \in 0..Len(Streams)

\* What is known at each place in executeProcess.
StageKnown ==
  /\ pc \in {"start", "running", "capture", "returned"}
  /\ pc # "returned" => result = "none"
  /\ pc \in {"start", "running"} => captures = 0
  /\ pc = "start" => command = "none" /\ holder = "none" /\ ~expired
  /\ pc = "capture" => code /\ ~expired /\ captures < Len(Streams)
  /\ pc \in {"capture", "returned"} => command # "running" /\ holder # "open"

\* What a result says of the deadline and of the command.
ResultTells ==
  /\ expired => Due
  /\ result = "timed out" => expired
  /\ result = "ok" => code /\ ~expired /\ captures = Len(Streams)

SpawnInvariant == SpawnTypes /\ StageKnown /\ ResultTells

-----------------------------------------------------------------------------
\* A number of seconds that fits a Duration is what its product says.
LEMMA DurationExact ==
  ASSUME NEW secs \in Nat, secs * Second < Half
  PROVE  Duration(secs) = secs * Second
<1>1. secs * Second \in Nat /\ Half \in Nat \ {0}
  BY DurationAssumption
<1>2. \A d \in Nat, h \in Nat \ {0} : d < h => (d + h) % (2 * h) = d + h
  OBVIOUS
<1>3. (secs * Second + Half) % (2 * Half) = secs * Second + Half
  BY <1>1, <1>2
<1> QED
  BY <1>1, <1>3 DEF Duration

\* A Duration that has run out leaves nothing of the seconds that were meant.
LEMMA DurationDue ==
  ASSUME SpawnTypes, now >= Duration(timeout) \/ Duration(timeout) <= 0
  PROVE  Due
<1>1. timeout * Second \in Nat /\ timeout * Second > 0 /\ Half \in Nat /\ timeout \in Nat /\ now \in Nat
  BY DurationAssumption DEF SpawnTypes
<1>2. CASE timeout * Second < Half
  BY <1>1, <1>2, DurationExact DEF Due
<1>3. CASE ~(timeout * Second < Half)
  BY <1>1, <1>3 DEF Due
<1> QED
  BY <1>2, <1>3

\* SpawnInvariant is inductive: in whatever order the command, its descendant,
\* the deadline and the kill come (adapter.go:72-102).
THEOREM SpawnInvariantHolds == Spec => []SpawnInvariant
<1>0. Len(Streams) = 2
  BY DEF Streams
<1>1. Init => SpawnInvariant
  <2> SUFFICES ASSUME Init PROVE SpawnInvariant
    OBVIOUS
  <2>1. SpawnTypes
    <3>1. now \in Nat /\ timeout \in Nat \ {0} /\ captures \in 0..Len(Streams)
      BY <1>0, TimeoutsAssumption DEF Init
    <3>2. allowed \in BOOLEAN /\ expired \in BOOLEAN /\ code \in BOOLEAN
      BY Zenon DEF Init
    <3> QED
      BY <3>1, <3>2 DEF SpawnTypes
  <2>2. StageKnown
    BY DEF Init, StageKnown
  <2>3. ResultTells
    BY DEF Init, ResultTells
  <2> QED
    BY <2>1, <2>2, <2>3 DEF SpawnInvariant
<1>2. SpawnInvariant /\ [Next]_vars => SpawnInvariant'
  <2> SUFFICES ASSUME SpawnInvariant, [Next]_vars PROVE SpawnInvariant'
    OBVIOUS
  <2> USE DEF SpawnInvariant
  <2>1. timeout' = timeout /\ now' \in Nat /\ now' >= now /\ now \in Nat
    <3>1. timeout' = timeout /\ (now' = now \/ now' = now + 1)
      BY Zenon DEF Next, Execute, Refuse, Start, AfterRun, Capture, Expire, Kill, CommandExits,
                   CommandForks, HolderCloses, Tick, vars
    <3> QED
      BY <3>1 DEF SpawnTypes
  <2>2. Due => Due'
    <3>1. timeout * Second \in Nat
      BY DurationAssumption DEF SpawnTypes
    <3> QED
      BY <2>1, <3>1 DEF Due
  <2>3. CASE Refuse
    BY <2>1, <2>2, <2>3 DEF Refuse, Return, SpawnTypes, StageKnown, ResultTells
  <2>4. CASE Start
    <3>1. AtOnce => Due
      BY DurationDue DEF AtOnce
    <3> QED
      BY <2>1, <2>2, <2>4, <3>1 DEF Start, Return, SpawnTypes, StageKnown, ResultTells
  <2>5. CASE AfterRun
    <3>1. /\ pc = "running" /\ UNCHANGED <<allowed, expired, command, code, holder, captures>>
          /\ command # "running" /\ holder # "open"
          /\ \/ pc' = "returned" /\ result' = "timed out" /\ expired
             \/ pc' = "returned" /\ result' = "failed"
             \/ pc' = "capture" /\ result' = result /\ ~expired /\ code /\ captures = 0
      BY <2>5 DEF AfterRun, RunReturns, Return, StageKnown
    <3>2. SpawnTypes'
      BY <2>1, <3>1 DEF SpawnTypes
    <3>3. StageKnown'
      <4>1. captures = 0 => captures < Len(Streams)
        BY <1>0
      <4> QED
        BY <3>1, <4>1, Zenon DEF StageKnown
    <3>4. ResultTells'
      BY <2>2, <3>1 DEF StageKnown, ResultTells
    <3> QED
      BY <3>2, <3>3, <3>4
  <2>6. CASE Capture
    <3>1. /\ pc = "capture" /\ UNCHANGED <<allowed, expired, command, code, holder>>
          /\ \/ captures' = captures + 1 /\ captures' = 2 /\ pc' = "returned" /\ result' = "ok"
             \/ captures' = captures + 1 /\ captures' # 2 /\ UNCHANGED <<pc, result>>
             \/ captures' = captures /\ pc' = "returned" /\ result' = "failed"
      BY <1>0, <2>6 DEF Capture, Captured, Return
    <3>2. captures \in 0..1 /\ captures' \in 0..2
      BY <1>0, <3>1 DEF SpawnTypes, StageKnown
    <3>3. SpawnTypes'
      BY <1>0, <2>1, <3>1, <3>2 DEF SpawnTypes
    <3>4. StageKnown'
      BY <1>0, <3>1, <3>2 DEF StageKnown
    <3>5. ResultTells'
      BY <1>0, <2>2, <3>1 DEF StageKnown, ResultTells
    <3> QED
      BY <3>3, <3>4, <3>5
  <2>7. CASE Expire
    <3>1. Due
      BY <2>7, DurationDue DEF Expire
    <3> QED
      BY <2>1, <2>2, <2>7, <3>1 DEF Expire, SpawnTypes, StageKnown, ResultTells
  <2>8. CASE Kill
    BY <2>1, <2>2, <2>8 DEF Kill, Watched, SpawnTypes, StageKnown, ResultTells
  <2>9. CASE CommandExits \/ CommandForks \/ HolderCloses
    <3>1. /\ UNCHANGED <<pc, allowed, expired, captures, result>> /\ code' \in BOOLEAN
          /\ pc # "start" /\ pc # "capture" /\ result # "ok"
          /\ (command # "running" => command' # "running") /\ (holder' = "open" => holder = "open" \/ command = "running")
      BY <2>9 DEF CommandExits, CommandForks, HolderCloses, SpawnTypes, StageKnown, ResultTells
    <3> QED
      BY <2>1, <2>2, <3>1 DEF SpawnTypes, StageKnown, ResultTells
  <2>10. CASE Tick
    BY <2>1, <2>2, <2>10 DEF Tick, SpawnTypes, StageKnown, ResultTells
  <2>11. CASE UNCHANGED vars
    BY <2>1, <2>2, <2>11 DEF vars, SpawnTypes, StageKnown, ResultTells
  <2> QED
    BY <2>3, <2>4, <2>5, <2>6, <2>7, <2>8, <2>9, <2>10, <2>11 DEF Next, Execute
<1> QED
  BY <1>1, <1>2, PTL DEF Spec

\* No timeout is reported before its seconds are over, unless their product does
\* not fit a Duration (adapter.go:72-89).
THEOREM NothingTimesOutEarly == Spec => []NeverEarly
<1>1. SpawnInvariant => NeverEarly
  BY DEF SpawnInvariant, ResultTells, Due, NeverEarly
<1> QED
  BY <1>1, SpawnInvariantHolds, PTL

\* When a side effect is over nothing writes to its captures any more, and a
\* success is one (adapter.go:86-102).
THEOREM NothingRunsOn == Spec => []NothingLeftRunning
<1>1. SpawnInvariant => NothingLeftRunning
  BY DEF SpawnInvariant, StageKnown, ResultTells, NothingLeftRunning
<1> QED
  BY <1>1, SpawnInvariantHolds, PTL
=============================================================================
