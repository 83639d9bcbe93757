----------------------------- MODULE RunsProofs -----------------------------
(***************************************************************************)
(* What holds of every run, for every set of contracts, revocation lists   *)
(* and allowlists Execute may be given and every bound on time, launches   *)
(* and edits; and what Runs says of Execute, however it is called, edited  *)
(* around, interrupted and killed: it implements the governed run, and the *)
(* pack it publishes tells one story.                                      *)
(***************************************************************************)
EXTENDS Runs, PolicyProofs, FiniteSetTheorems

-----------------------------------------------------------------------------
(* Sequences. *)

\* A function on 1..n is a sequence of length n.
LEMMA FunctionIsSeq ==
  ASSUME NEW S, NEW n \in Nat, NEW f \in [1..n -> S]
  PROVE  f \in Seq(S) /\ Len(f) = n
<1>1. f \in Seq(S)
  BY SeqDef
<1> QED
  BY <1>1

\* Such a function added to a sequence keeps what was there and follows it.
LEMMA Extended ==
  ASSUME NEW S, NEW l \in Seq(S), NEW n \in Nat, NEW f \in [1..n -> S]
  PROVE  /\ l \o f \in Seq(S)
         /\ Len(l \o f) = Len(l) + n
         /\ \A i \in 1..Len(l) : (l \o f)[i] = l[i]
         /\ \A i \in 1..n : (l \o f)[Len(l) + i] = f[i]
<1>1. f \in Seq(S) /\ Len(f) = n
  BY FunctionIsSeq
<1>2. l \o f \in Seq(S)
  BY <1>1
<1>3. Len(l \o f) = Len(l) + n
  BY <1>1
<1>4. \A i \in 1..Len(l) : (l \o f)[i] = l[i]
  BY <1>1
<1>5. \A i \in 1..n : (l \o f)[Len(l) + i] = f[i]
  BY <1>1
<1> QED
  BY <1>2, <1>3, <1>4, <1>5

-----------------------------------------------------------------------------
(* The pieces a contract is made of. *)

\* A task of a contract is a task record, and its side effects are effects.
LEMMA TaskType ==
  ASSUME NEW c \in Contracts, NEW t \in TaskIds(c)
  PROVE  /\ t \in Nat \ {0} /\ t <= Len(c.tasks) /\ c.tasks[t] \in Tasks
         /\ EffectsOf(c, t) \in Seq(Effects)
         /\ Deps(c, t) \in SUBSET Nat
         /\ Kind(c, t) \in Kinds
         /\ \A n \in DOMAIN EffectsOf(c, t) : n \in Nat \ {0} /\ EffectsOf(c, t)[n] \in Effects
<1>1. c.tasks \in Seq(Tasks)
  BY DEF Contracts
<1>2. t \in 1..Len(c.tasks) /\ c.tasks[t] \in Tasks
  BY <1>1 DEF TaskIds
<1>3. EffectsOf(c, t) \in Seq(Effects) /\ Deps(c, t) \in SUBSET Nat /\ Kind(c, t) \in Kinds
  BY <1>2 DEF Tasks, EffectsOf, Deps, Kind
<1> QED
  BY <1>1, <1>2, <1>3

\* The tasks of a contract are numbered from 1.
LEMMA TaskIdsInterval ==
  ASSUME NEW c \in Contracts
  PROVE  TaskIds(c) = 1..Len(c.tasks) /\ Len(c.tasks) \in Nat
BY DEF Contracts, TaskIds

\* A contract has finitely many tasks.
LEMMA TasksBounded ==
  ASSUME NEW l \in Launches, NEW t \in TaskIds(l.contract)
  PROVE  t <= MaxTasks /\ Len(EffectsOf(l.contract, t)) <= MaxEffects
<1>1. l.contract \in Contracts /\ Len(l.contract.tasks) <= MaxTasks
  BY LaunchesAssumption
<1>2. t \in 1..Len(l.contract.tasks) /\ Len(l.contract.tasks) \in Nat
  BY <1>1, TaskIdsInterval
<1> QED
  BY <1>1, <1>2, LaunchesAssumption, BoundsAssumption

-----------------------------------------------------------------------------
(* Policy evaluation. *)

\* Each side effect gets a verdict with a reason and perhaps a ticket.
LEMMA EvaluateActionType ==
  ASSUME NEW c \in Contracts, NEW t, NEW e, NEW time, NEW revokedIds
  PROVE  EvaluateAction(c, t, e, time, revokedIds) \in
           [verdict : {"allow", "deny"}, reason : DecisionReasons,
            ticket : TicketIds \cup {NoTicket}]
<1>1. TicketVerdict(c, t, e, time, revokedIds) \in
        [verdict : {"allow", "deny"}, reason : DecisionReasons,
         ticket : TicketIds \cup {NoTicket}]
  <2>1. CASE Matching(c, t, e) = {}
    BY <2>1 DEF TicketVerdict, Deny, DecisionReasons
  <2>2. CASE Matching(c, t, e) # {}
    <3>1. FirstMatching(c, t, e).id \in TicketIds
      BY <2>2, FirstMatchingMatches DEF Tickets
    <3>2. TicketStatus(FirstMatching(c, t, e), time) \in {"valid", "invalid", "expired"}
      BY DEF TicketStatus
    <3> QED
      BY <2>2, <3>1, <3>2 DEF TicketVerdict, Allow, Deny, DecisionReasons
  <2> QED
    BY <2>1, <2>2
<1>2. \A scope, p : ScopeVerdict(scope, p) \in
        [verdict : {"allow", "deny"}, reason : DecisionReasons,
         ticket : TicketIds \cup {NoTicket}]
  BY DEF ScopeVerdict, Allow, Deny, DecisionReasons
<1> QED
  BY <1>1, <1>2 DEF EvaluateAction

\* EvaluateTask gives one decision per declared side effect, in their order.
LEMMA EvaluateTaskType ==
  ASSUME NEW c \in Contracts, NEW t \in TaskIds(c), NEW time \in Nat, NEW revokedIds
  PROVE  /\ EvaluateTask(c, t, time, revokedIds) \in Seq(Decisions)
         /\ DOMAIN EvaluateTask(c, t, time, revokedIds) = DOMAIN EffectsOf(c, t)
         /\ Len(EvaluateTask(c, t, time, revokedIds)) = Len(EffectsOf(c, t))
         /\ \A n \in DOMAIN EffectsOf(c, t) :
              LET d == EvaluateTask(c, t, time, revokedIds)[n]
                  v == EvaluateAction(c, t, EffectsOf(c, t)[n], time, revokedIds)
              IN /\ d.task = t /\ d.n = n /\ d.effect = EffectsOf(c, t)[n]
                 /\ d.verdict = v.verdict /\ d.at = time
<1> DEFINE ds == EvaluateTask(c, t, time, revokedIds)
<1>1. EffectsOf(c, t) \in Seq(Effects) /\ t \in Nat
  BY TaskType
<1>2. \A n \in DOMAIN EffectsOf(c, t) :
        /\ EvaluateAction(c, t, EffectsOf(c, t)[n], time, revokedIds) \in
             [verdict : {"allow", "deny"}, reason : DecisionReasons,
              ticket : TicketIds \cup {NoTicket}]
        /\ n \in Nat /\ EffectsOf(c, t)[n] \in Effects
  BY <1>1, EvaluateActionType
<1>3. ds = [n \in 1..Len(EffectsOf(c, t)) |-> ds[n]]
  BY <1>1 DEF EvaluateTask
<1>4. \A n \in 1..Len(EffectsOf(c, t)) : ds[n] \in Decisions
  BY <1>1, <1>2 DEF EvaluateTask, Decisions
<1>5. ds \in [1..Len(EffectsOf(c, t)) -> Decisions] /\ Len(EffectsOf(c, t)) \in Nat
  BY <1>1, <1>3, <1>4
<1>6. ds \in Seq(Decisions)
  BY <1>5, SeqDef
<1> QED
  BY <1>1, <1>5, <1>6 DEF EvaluateTask

-----------------------------------------------------------------------------
(* The recorder. *)

\* emit appends one event.
LEMMA EmitType ==
  ASSUME NEW l \in Seq(Events), NEW type \in EventTypes, NEW t \in Nat, NEW ok \in BOOLEAN
  PROVE  /\ Emit(l, type, t, ok) \in Seq(Events)
         /\ Len(Emit(l, type, t, ok)) = Len(l) + 1
         /\ \A i \in 1..Len(l) : Emit(l, type, t, ok)[i] = l[i]
         /\ Emit(l, type, t, ok)[Len(l) + 1] = Event(l, type, t, ok)
<1>1. Event(l, type, t, ok) \in Events
  <2>1. <<>> \in Seq(EventDecisions)
    OBVIOUS
  <2> QED
    BY <2>1 DEF Event, Events
<1> QED
  BY <1>1 DEF Emit

\* emitPolicyDecision, once for every decision of a task.
LEMMA EmitDecisionsType ==
  ASSUME NEW l \in Seq(Events), NEW ds \in Seq(Decisions)
  PROVE  /\ EmitDecisions(l, ds) \in Seq(Events)
         /\ Len(EmitDecisions(l, ds)) = Len(l) + Len(ds)
         /\ \A i \in 1..Len(l) : EmitDecisions(l, ds)[i] = l[i]
         /\ \A i \in 1..Len(ds) :
              LET e == EmitDecisions(l, ds)[Len(l) + i] IN
              /\ e.type = "policy_decided" /\ e.task = ds[i].task
              /\ e.decision[1].n = ds[i].n /\ e.ok = (ds[i].verdict # "deny")
<1> DEFINE E(i) == [type |-> "policy_decided", seq |-> Len(l) + i, prev |-> Len(l) + i - 1,
                    task |-> ds[i].task, ok |-> ds[i].verdict # "deny",
                    decision |-> <<[n |-> ds[i].n, effect |-> ds[i].effect,
                                    ticket |-> ds[i].ticket]>>,
                    artifacts |-> {}]
           more == [i \in 1..Len(ds) |-> E(i)]
<1>1. \A i \in 1..Len(ds) : E(i) \in Events
  <2>1. SUFFICES ASSUME NEW i \in 1..Len(ds) PROVE E(i) \in Events
    OBVIOUS
  <2>2. ds[i] \in Decisions
    BY <2>1
  <2>3. [n |-> ds[i].n, effect |-> ds[i].effect, ticket |-> ds[i].ticket] \in EventDecisions
    BY <2>2 DEF Decisions, EventDecisions
  <2>4. <<[n |-> ds[i].n, effect |-> ds[i].effect, ticket |-> ds[i].ticket]>> \in Seq(EventDecisions)
    BY <2>3
  <2>5. ds[i].task \in Nat /\ Len(l) + i \in Nat /\ Len(l) + i - 1 \in Nat
    BY <2>2 DEF Decisions
  <2> QED
    BY <2>4, <2>5 DEF Events, EventTypes
<1>2. \A i \in 1..Len(ds) : more[i] = E(i)
  OBVIOUS
<1>3. EmitDecisions(l, ds) = l \o more
  BY DEF EmitDecisions
<1>4. \A i \in 1..Len(ds) : LET e == E(i) IN
        /\ e.type = "policy_decided" /\ e.task = ds[i].task
        /\ e.decision[1].n = ds[i].n /\ e.ok = (ds[i].verdict # "deny")
  OBVIOUS
<1> HIDE DEF E
<1>5. more \in [1..Len(ds) -> Events] /\ Len(ds) \in Nat
  BY <1>1
<1> HIDE DEF more
<1>6. l \o more \in Seq(Events)
  BY <1>5, Extended
<1>7. Len(l \o more) = Len(l) + Len(ds)
  BY <1>5, Extended
<1>8. \A i \in 1..Len(l) : (l \o more)[i] = l[i]
  BY <1>5, Extended
<1>9. \A i \in 1..Len(ds) : (l \o more)[Len(l) + i] = E(i)
  BY <1>2, <1>5, Extended
<1> QED
  BY <1>3, <1>6, <1>7, <1>8, <1>9, <1>4

\* The artifact events of a task, and its task_finished.
LEMMA EmitArtifactsType ==
  ASSUME NEW l \in Seq(Events), NEW t \in Nat, NEW arts \in Seq(Artifacts)
  PROVE  /\ EmitArtifacts(l, t, arts) \in Seq(Events)
         /\ Len(EmitArtifacts(l, t, arts)) = Len(l) + Len(arts)
         /\ \A i \in 1..Len(l) : EmitArtifacts(l, t, arts)[i] = l[i]
         /\ \A i \in 1..Len(arts) : EmitArtifacts(l, t, arts)[Len(l) + i].type = "artifact_recorded"
<1> DEFINE E(i) == [type |-> "artifact_recorded", seq |-> Len(l) + i,
                    prev |-> Len(l) + i - 1, task |-> t, ok |-> TRUE,
                    decision |-> <<>>, artifacts |-> {arts[i].id}]
           more == [i \in 1..Len(arts) |-> E(i)]
<1>1. \A i \in 1..Len(arts) : E(i) \in Events
  <2>1. SUFFICES ASSUME NEW i \in 1..Len(arts) PROVE E(i) \in Events
    OBVIOUS
  <2>2. arts[i] \in Artifacts
    BY <2>1
  <2>3. Len(l) + i \in Nat /\ Len(l) + i - 1 \in Nat /\ <<>> \in Seq(EventDecisions)
    OBVIOUS
  <2> QED
    BY <2>2, <2>3 DEF Artifacts, Events, EventTypes
<1>2. \A i \in 1..Len(arts) : more[i] = E(i)
  OBVIOUS
<1>3. EmitArtifacts(l, t, arts) = l \o more
  BY DEF EmitArtifacts
<1>4. \A i \in 1..Len(arts) : E(i).type = "artifact_recorded"
  OBVIOUS
<1> HIDE DEF E
<1>5. more \in [1..Len(arts) -> Events] /\ Len(arts) \in Nat
  BY <1>1
<1> HIDE DEF more
<1>6. l \o more \in Seq(Events)
  BY <1>5, Extended
<1>7. Len(l \o more) = Len(l) + Len(arts)
  BY <1>5, Extended
<1>8. \A i \in 1..Len(l) : (l \o more)[i] = l[i]
  BY <1>5, Extended
<1>9. \A i \in 1..Len(arts) : (l \o more)[Len(l) + i] = E(i)
  BY <1>2, <1>5, Extended
<1> QED
  BY <1>3, <1>6, <1>7, <1>8, <1>9, <1>4

\* What is left of a ledger is a ledger file.
LEMMA FlushedType ==
  ASSUME NEW l \in Seq(Events)
  PROVE  Flushed(l) \subseteq LedgerFiles
<1>1. \A k \in 0..Len(l) : SubSeq(l, 1, k) \in Seq(Events)
  <2>1. SUFFICES ASSUME NEW k \in 0..Len(l) PROVE SubSeq(l, 1, k) \in Seq(Events)
    OBVIOUS
  <2>2. \A i \in 1..k : l[i] \in Events
    OBVIOUS
  <2> QED
    BY <2>2, SubSeqProperties
<1> QED
  BY <1>1 DEF Flushed, LedgerFiles

-----------------------------------------------------------------------------
(* The closure matrix. *)

\* closure.Evaluate makes a matrix.
LEMMA EvaluateClosureType ==
  ASSUME NEW c \in Contracts, NEW run, NEW st,
         NEW arts \in Seq(Artifacts), NEW ds \in Seq(Decisions)
  PROVE  EvaluateClosure(c, run, st, arts, ds) \in Matrices
<1>1. \A o \in c.obligations : ClosureRow(c, o, run, st, arts, ds) \in ClosureRows
  <2>1. SUFFICES ASSUME NEW o \in c.obligations
                 PROVE  ClosureRow(c, o, run, st, arts, ds) \in ClosureRows
    OBVIOUS
  <2>2. Claimants(c, o) \in SUBSET Nat /\ o \in Obligations
    <3>1. Claimants(c, o) \in SUBSET Nat
      BY TaskIdsInterval DEF Claimants
    <3>2. o \in Obligations
      BY DEF Contracts
    <3> QED
      BY <3>1, <3>2
  <2>3. ArtifactIdsOf(arts, Claimants(c, o)) \in SUBSET ArtifactIds
    <3>1. \A i \in DOMAIN arts : arts[i] \in Artifacts
      OBVIOUS
    <3> QED
      BY <3>1 DEF ArtifactIdsOf, Artifacts
  <2>4. DecisionIdsOf(ds, Claimants(c, o)) \in SUBSET (Nat \X Nat)
    <3>1. \A i \in DOMAIN ds : ds[i] \in Decisions
      OBVIOUS
    <3> QED
      BY <3>1 DEF DecisionIdsOf, Decisions
  <2>5. RowStatus(c, o, run, st) \in {"open", "closed"}
    BY DEF RowStatus
  <2> QED
    BY <2>2, <2>3, <2>4, <2>5 DEF ClosureRow, ClosureRows
<1>2. MatrixStatus(c, run, st) \in {"accepted", "rejected"}
  BY DEF MatrixStatus
<1> QED
  BY <1>1, <1>2 DEF EvaluateClosure, Matrices

-----------------------------------------------------------------------------
(* Type correctness. *)

\* A fresh run has no records.
LEMMA InitType == Init => TypeOK
<1> SUFFICES ASSUME Init PROVE TypeOK
  OBVIOUS
<1>1. PICK l \in Launches : contract = l.contract /\ revoked = l.revoked /\ allow = l.allow
  BY DEF Init
<1>2. InputsTypeOK
  BY <1>1, LaunchesAssumption DEF InputsTypeOK
<1>3. ControlTypeOK
  <2>1. status \in [TaskIds(contract) -> TaskStatuses]
    BY DEF Init, TaskStatuses
  <2>2. attempts \in 0..MaxAttempts /\ now \in Nat
    BY BoundsAssumption DEF Init
  <2>3. pc \in Locations /\ outcome \in Outcomes
    BY DEF Init, Locations, Outcomes
  <2>4. completed \in Nat /\ cursor \in Nat \ {0} /\ action \in Nat \ {0}
    BY DEF Init
  <2>5. progress \in BOOLEAN
    BY Zenon DEF Init
  <2> QED
    BY <2>1, <2>2, <2>3, <2>4, <2>5 DEF ControlTypeOK
<1>4. RecordsTypeOK
  BY DEF Init, RecordsTypeOK
<1>5. FilesTypeOK
  BY DEF Init, FilesTypeOK, Files, Contents, NoLedger, LedgerFiles
<1> QED
  BY <1>2, <1>3, <1>4, <1>5 DEF TypeOK

\* A call of Execute, refused or not, starts from fresh records.
LEMMA ArgumentsType ==
  ASSUME TypeOK, NEW l \in Launches, Arguments(l), pc' \in Locations, outcome' \in Outcomes
  PROVE  TypeOK'
<1>1. InputsTypeOK'
  BY LaunchesAssumption DEF Arguments, InputsTypeOK
<1>2. ControlTypeOK'
  <2>1. status' \in [TaskIds(contract') -> TaskStatuses]
    BY DEF Arguments, TaskStatuses
  <2>2. attempts' \in 0..MaxAttempts /\ now' \in Nat
    BY BoundsAssumption DEF Arguments, TypeOK, ControlTypeOK
  <2>3. completed' \in Nat /\ cursor' \in Nat \ {0} /\ action' \in Nat \ {0}
    BY DEF Arguments
  <2>4. progress' \in BOOLEAN
    BY Zenon DEF Arguments
  <2> QED
    BY <2>1, <2>2, <2>3, <2>4 DEF ControlTypeOK
<1>3. RecordsTypeOK'
  BY DEF Arguments, RecordsTypeOK
<1>4. FilesTypeOK'
  BY DEF TypeOK, FilesTypeOK, Arguments, dirVars
<1> QED
  BY <1>1, <1>2, <1>3, <1>4 DEF TypeOK

\* writeInputSnapshot keeps the types.
LEMMA SnapshotType == TypeOK /\ Snapshot => TypeOK'
<1> SUFFICES ASSUME TypeOK, Snapshot PROVE TypeOK'
  OBVIOUS
<1> USE DEF TypeOK, launchVars, sweepVars, taskVars, recordVars, envVars
<1>1. InputsTypeOK' /\ ControlTypeOK'
  BY DEF InputsTypeOK, ControlTypeOK, Snapshot, Return, Locations, Outcomes
<1> DEFINE p == contract.reads[Len(snapshots) + 1]
<1>2. contract.reads \in Seq(Paths) /\ snapshots \in Seq(Snapshots)
  BY DEF InputsTypeOK, RecordsTypeOK, Contracts
<1>3. p \in Paths
  BY <1>2 DEF Snapshot
<1>4. workspace[p] \in Contents \cup {NoFile}
  BY <1>3 DEF FilesTypeOK, Files
<1>5. [path |-> p, digest |-> workspace[p]] \in Snapshots
  BY <1>3, <1>4 DEF Snapshots
<1>6. RecordsTypeOK'
  <2>1. snapshots' \in Seq(Snapshots)
    BY <1>2, <1>5 DEF Snapshot
  <2> QED
    BY <2>1 DEF RecordsTypeOK, Snapshot
<1>7. FilesTypeOK'
  BY <1>4 DEF FilesTypeOK, Snapshot
<1> QED
  BY <1>1, <1>6, <1>7

\* So does opening the ledger with run_started.
LEMMA OpenLedgerType == TypeOK /\ OpenLedger => TypeOK'
<1> SUFFICES ASSUME TypeOK, OpenLedger PROVE TypeOK'
  OBVIOUS
<1> USE DEF TypeOK, launchVars, sweepVars, taskVars, envVars
<1>1. InputsTypeOK' /\ ControlTypeOK'
  BY DEF InputsTypeOK, ControlTypeOK, OpenLedger, Locations
<1>2. Emit(<<>>, "run_started", 0, TRUE) \in Seq(Events)
  <2>1. <<>> \in Seq(Events) /\ "run_started" \in EventTypes /\ 0 \in Nat
    BY DEF EventTypes
  <2> QED
    BY <2>1, EmitType
<1>3. RecordsTypeOK'
  BY <1>2 DEF RecordsTypeOK, OpenLedger
<1>4. FilesTypeOK'
  BY DEF FilesTypeOK, OpenLedger, NoLedger, LedgerFiles
<1> QED
  BY <1>1, <1>3, <1>4

\* So does passing over a task.
LEMMA PassOverType == TypeOK /\ PassOver => TypeOK'
BY DEF TypeOK, InputsTypeOK, ControlTypeOK, RecordsTypeOK, FilesTypeOK, PassOver,
       launchVars, taskVars, recordVars, dirVars, envVars

\* The task the sweep is at is a task of the contract.
LEMMA FailTaskType ==
  ASSUME TypeOK, cursor \in TaskIds(contract),
         NEW l \in Seq(Events), NEW phase \in Phases, FailTask(l, phase)
  PROVE  /\ pc' \in Locations /\ status' \in [TaskIds(contract) -> TaskStatuses]
         /\ ledger' \in Seq(Events) /\ failures' \in Seq(Failures)
<1>1. cursor \in Nat
  BY DEF TypeOK, ControlTypeOK
<1>2. Emit(l, "task_finished", cursor, FALSE) \in Seq(Events)
  BY <1>1, EmitType DEF EventTypes
<1>3. [event |-> Len(l) + 1, task |-> cursor, phase |-> phase] \in Failures
  BY <1>1 DEF Failures
<1>4. failures' \in Seq(Failures)
  BY <1>3 DEF FailTask, TypeOK, RecordsTypeOK
<1>5. status' \in [TaskIds(contract) -> TaskStatuses]
  BY DEF FailTask, TypeOK, ControlTypeOK, TaskStatuses
<1> QED
  BY <1>2, <1>4, <1>5 DEF FailTask, Locations

\* So does starting one, whatever the policy decides.
LEMMA StartTaskType == TypeOK /\ StartTask => TypeOK'
<1> SUFFICES ASSUME TypeOK, StartTask PROVE TypeOK'
  OBVIOUS
<1> DEFINE ds    == EvaluateTask(contract, cursor, now, revoked)
           begun == EmitDecisions(Emit(ledger, "task_started", cursor, TRUE), ds)
<1>1. /\ contract \in Contracts /\ cursor \in TaskIds(contract) /\ cursor \in Nat
      /\ now \in Nat /\ ledger \in Seq(Events)
  BY DEF TypeOK, InputsTypeOK, ControlTypeOK, RecordsTypeOK, StartTask
<1>2. ds \in Seq(Decisions)
  BY <1>1, EvaluateTaskType
<1>3. Emit(ledger, "task_started", cursor, TRUE) \in Seq(Events)
  BY <1>1, EmitType DEF EventTypes
<1>4. begun \in Seq(Events)
  BY <1>2, <1>3, EmitDecisionsType
<1>5. /\ pc' \in Locations /\ status' \in [TaskIds(contract) -> TaskStatuses]
      /\ ledger' \in Seq(Events) /\ failures' \in Seq(Failures)
  <2>1. CASE Denied(ds) # {}
    <3>1. FailTask(begun, "policy")
      BY <2>1 DEF StartTask
    <3> QED
      BY <1>1, <1>4, <3>1, FailTaskType DEF Phases
  <2>2. CASE Denied(ds) = {}
    BY <1>4, <2>2 DEF StartTask, TypeOK, ControlTypeOK, RecordsTypeOK, Locations
  <2> QED
    BY <2>1, <2>2
<1> USE DEF TypeOK, launchVars, dirVars, envVars
<1>6. InputsTypeOK'
  BY DEF InputsTypeOK, StartTask
<1>7. ControlTypeOK'
  BY <1>5 DEF ControlTypeOK, StartTask
<1>8. RecordsTypeOK'
  BY <1>2, <1>5 DEF RecordsTypeOK, StartTask
<1>9. FilesTypeOK'
  BY DEF FilesTypeOK, StartTask
<1> QED
  BY <1>6, <1>7, <1>8, <1>9

\* So does the end of a sweep.
LEMMA EndSweepType == TypeOK /\ EndSweep => TypeOK'
<1> SUFFICES ASSUME TypeOK, EndSweep PROVE TypeOK'
  OBVIOUS
<1>1. ledgerFile' \in LedgerFiles
  BY FlushedType DEF TypeOK, RecordsTypeOK, FilesTypeOK, EndSweep
<1> USE DEF TypeOK, launchVars, taskVars, recordVars, envVars
<1>2. InputsTypeOK' /\ RecordsTypeOK'
  BY DEF InputsTypeOK, RecordsTypeOK, EndSweep
<1>3. ControlTypeOK'
  <2>1. progress' \in BOOLEAN
    BY Zenon DEF ControlTypeOK, EndSweep
  <2>2. cursor' \in Nat \ {0}
    BY DEF ControlTypeOK, EndSweep
  <2>3. pc' \in Locations /\ outcome' \in Outcomes
    BY DEF ControlTypeOK, EndSweep, Return, Locations, Outcomes
  <2> QED
    BY <2>1, <2>2, <2>3 DEF ControlTypeOK, EndSweep
<1>4. FilesTypeOK'
  BY <1>1 DEF FilesTypeOK, EndSweep
<1> QED
  BY <1>2, <1>3, <1>4

\* A task that succeeds: its artifacts get their events, its status is final.
LEMMA CompleteTaskType ==
  ASSUME TypeOK, cursor \in TaskIds(contract), CompleteTask
  PROVE  /\ artifacts' \in Seq(Artifacts) /\ ledger' \in Seq(Events)
         /\ status' \in [TaskIds(contract) -> TaskStatuses]
         /\ completed' \in Nat /\ cursor' \in Nat \ {0} /\ pc' \in Locations
<1>1. /\ ledger \in Seq(Events) /\ pending \in Seq(Artifacts) /\ artifacts \in Seq(Artifacts)
      /\ cursor \in Nat \ {0} /\ completed \in Nat
      /\ status \in [TaskIds(contract) -> TaskStatuses]
  BY DEF TypeOK, ControlTypeOK, RecordsTypeOK
<1> DEFINE recorded == EmitArtifacts(ledger, cursor, pending)
           more == [i \in 1..Len(pending) |-> [pending[i] EXCEPT !.event = Len(ledger) + i]]
<1>2. recorded \in Seq(Events)
  BY <1>1, EmitArtifactsType
<1>3. artifacts' \in Seq(Artifacts)
  <2>1. \A i \in 1..Len(pending) : pending[i] \in Artifacts /\ Len(ledger) + i \in Nat
    BY <1>1
  <2>2. \A i \in 1..Len(pending) : [pending[i] EXCEPT !.event = Len(ledger) + i] \in Artifacts
    BY <2>1 DEF Artifacts
  <2>3. more \in [1..Len(pending) -> Artifacts] /\ Len(pending) \in Nat
    BY <1>1, <2>2
  <2>4. artifacts' = artifacts \o more
    BY DEF CompleteTask
  <2> HIDE DEF more
  <2> QED
    BY <1>1, <2>3, <2>4, Extended
<1>4. ledger' \in Seq(Events)
  <2> DEFINE last == [Event(recorded, "task_finished", cursor, TRUE) EXCEPT
                        !.artifacts = {pending[i].id : i \in DOMAIN pending}]
  <2>1. \A i \in DOMAIN pending : pending[i] \in Artifacts
    BY <1>1
  <2>2. {pending[i].id : i \in DOMAIN pending} \in SUBSET ArtifactIds
    BY <2>1 DEF Artifacts
  <2>3. Len(recorded) \in Nat /\ Len(recorded) + 1 \in Nat /\ <<>> \in Seq(EventDecisions)
    BY <1>2
  <2>4. last \in Events
    BY <1>1, <2>2, <2>3 DEF Event, Events, EventTypes
  <2>5. ledger' = Append(recorded, last)
    BY DEF CompleteTask
  <2> QED
    BY <1>2, <2>4, <2>5
<1>5. /\ status' \in [TaskIds(contract) -> TaskStatuses]
      /\ completed' \in Nat /\ cursor' \in Nat \ {0} /\ pc' \in Locations
  BY <1>1 DEF CompleteTask, TaskStatuses, Locations
<1> QED
  BY <1>3, <1>4, <1>5

\* A task of an adapter kind that completes keeps the types.
LEMMA FinishActionsType ==
  ASSUME TypeOK, cursor \in TaskIds(contract), FinishActions
  PROVE  TypeOK'
<1>1. /\ artifacts' \in Seq(Artifacts) /\ ledger' \in Seq(Events)
      /\ status' \in [TaskIds(contract) -> TaskStatuses]
      /\ completed' \in Nat /\ cursor' \in Nat \ {0} /\ pc' \in Locations
  BY CompleteTaskType DEF FinishActions
<1> USE DEF TypeOK, FinishActions, launchVars, taskVars, dirVars, envVars
<1>2. InputsTypeOK' /\ FilesTypeOK'
  BY DEF InputsTypeOK, FilesTypeOK
<1>3. ControlTypeOK' /\ RecordsTypeOK'
  BY <1>1 DEF ControlTypeOK, RecordsTypeOK
<1> QED
  BY <1>2, <1>3

\* So does a verify, review or evaluate task, passing or failing.
LEMMA CheckType ==
  ASSUME TypeOK, cursor \in TaskIds(contract), Check
  PROVE  TypeOK'
<1>1. /\ artifacts' \in Seq(Artifacts) /\ ledger' \in Seq(Events)
      /\ status' \in [TaskIds(contract) -> TaskStatuses] /\ failures' \in Seq(Failures)
      /\ completed' \in Nat /\ cursor' \in Nat \ {0} /\ pc' \in Locations
  <2>1. CASE CheckPasses
    BY <2>1, CompleteTaskType DEF Check, TypeOK, RecordsTypeOK
  <2>2. CASE ~CheckPasses
    <3>1. FailTask(ledger, "execution") /\ ledger \in Seq(Events) /\ "execution" \in Phases
      BY <2>2 DEF Check, TypeOK, RecordsTypeOK, Phases
    <3> QED
      BY <2>2, <3>1, FailTaskType DEF Check, TypeOK, ControlTypeOK, RecordsTypeOK
  <2> QED
    BY <2>1, <2>2
<1> USE DEF TypeOK, Check, launchVars, taskVars, dirVars, envVars
<1>2. InputsTypeOK' /\ FilesTypeOK'
  BY DEF InputsTypeOK, FilesTypeOK
<1>3. ControlTypeOK' /\ RecordsTypeOK'
  BY <1>1 DEF ControlTypeOK, RecordsTypeOK
<1> QED
  BY <1>2, <1>3

\* What the four kinds of adapter call have in common.
LEMMA SucceededType ==
  ASSUME TypeOK, NEW arts \in Seq(Artifacts), Succeeded(arts), ActingUnchanged,
         cursor \in TaskIds(contract), workspace' \in [Files -> Contents \cup {NoFile}]
  PROVE  TypeOK'
<1>1. pending' \in Seq(Artifacts) /\ action' \in Nat \ {0}
  BY DEF Succeeded, TypeOK, RecordsTypeOK, ControlTypeOK
<1>2. performed' \in SUBSET (Nat \X Nat)
  BY DEF ActingUnchanged, TypeOK, RecordsTypeOK, ControlTypeOK
<1> USE DEF TypeOK, Succeeded, ActingUnchanged, launchVars, dirVars, envVars
<1>3. InputsTypeOK' /\ FilesTypeOK'
  BY DEF InputsTypeOK, FilesTypeOK
<1>4. ControlTypeOK' /\ RecordsTypeOK'
  BY <1>1, <1>2 DEF ControlTypeOK, RecordsTypeOK
<1> QED
  BY <1>3, <1>4

\* A side effect that fails keeps the types.
LEMMA ActionFailedType ==
  ASSUME TypeOK, ActionFailed, ActingUnchanged,
         cursor \in TaskIds(contract), workspace' \in [Files -> Contents \cup {NoFile}]
  PROVE  TypeOK'
<1>1. /\ pc' \in Locations /\ status' \in [TaskIds(contract) -> TaskStatuses]
      /\ ledger' \in Seq(Events) /\ failures' \in Seq(Failures)
  <2>1. FailTask(ledger, "adapter") /\ ledger \in Seq(Events) /\ "adapter" \in Phases
    BY DEF ActionFailed, TypeOK, RecordsTypeOK, Phases
  <2> QED
    BY <2>1, FailTaskType
<1>2. performed' \in SUBSET (Nat \X Nat)
  BY DEF ActingUnchanged, TypeOK, RecordsTypeOK, ControlTypeOK
<1> USE DEF TypeOK, ActionFailed, ActingUnchanged, launchVars, dirVars, envVars
<1>3. InputsTypeOK' /\ FilesTypeOK'
  BY DEF InputsTypeOK, FilesTypeOK
<1>4. ControlTypeOK' /\ RecordsTypeOK'
  BY <1>1, <1>2 DEF ControlTypeOK, RecordsTypeOK
<1> QED
  BY <1>3, <1>4

\* A file effect is about a workspace path; an artifact of it is an artifact.
LEMMA ActingArtifact ==
  ASSUME TypeOK, cursor \in TaskIds(contract), action \in DOMAIN EffectsOf(contract, cursor)
  PROVE  /\ Effect \in Effects
         /\ Effect.type \in {"file.write", "file.read"} => Effect.res \in Paths
         /\ \A stream \in {"stdout", "stderr"} : Capture(stream) \in ProcessPaths
         /\ \A stream \in Streams, file \in Files, digest \in Contents :
              Artifact(stream, file, digest) \in Artifacts
<1>1. contract \in Contracts /\ cursor \in Nat \ {0} /\ cursor <= MaxTasks
  BY TaskIdsInterval, BoundsAssumption DEF TypeOK, InputsTypeOK
<1>2. Effect \in Effects
  BY <1>1, TaskType DEF Effect
<1>3. action \in 1..MaxEffects
  BY <1>1, TaskType, BoundsAssumption DEF TypeOK, InputsTypeOK
<1>4. \A stream \in {"stdout", "stderr"} : Capture(stream) \in ProcessPaths
  BY <1>1, <1>3, BoundsAssumption DEF Capture, ProcessPaths
<1>5. \A stream \in Streams, file \in Files, digest \in Contents :
        Artifact(stream, file, digest) \in Artifacts
  BY <1>1, <1>3 DEF Artifact, Artifacts, ArtifactIds
<1>6. Effect.type \in {"file.write", "file.read"} => Effect.res \in Paths
  BY <1>2 DEF Effects
<1> QED
  BY <1>2, <1>4, <1>5, <1>6

\* So does file.write.
LEMMA WriteFileType ==
  ASSUME TypeOK, cursor \in TaskIds(contract), WriteFile
  PROVE  TypeOK'
<1>1. /\ Effect.res \in Paths /\ Effect.res \in Files
      /\ \A digest \in Contents : Artifact("artifact", Effect.res, digest) \in Artifacts
  BY ActingArtifact DEF WriteFile, Acting, Streams, Files
<1>2. DemoText(contract, cursor) \in Contents /\ Empty \in Contents
  BY TaskIdsInterval DEF TypeOK, InputsTypeOK, Contracts, DemoText, Texts, Contents
<1>3. workspace' \in [Files -> Contents \cup {NoFile}]
  BY <1>2 DEF WriteFile, TypeOK, FilesTypeOK
<1>4. CASE ActionFailed
  BY <1>3, <1>4, ActionFailedType DEF WriteFile
<1>5. CASE Succeeded(<<Artifact("artifact", Effect.res, DemoText(contract, cursor))>>)
  <2>1. <<Artifact("artifact", Effect.res, DemoText(contract, cursor))>> \in Seq(Artifacts)
    BY <1>1, <1>2
  <2> QED
    BY <1>3, <1>5, <2>1, SucceededType DEF WriteFile
<1> QED
  BY <1>4, <1>5 DEF WriteFile

\* So does file.read.
LEMMA ReadFileType ==
  ASSUME TypeOK, cursor \in TaskIds(contract), ReadFile
  PROVE  TypeOK'
<1>1. /\ Effect.res \in Paths /\ Effect.res \in Files
      /\ \A digest \in Contents : Artifact("read", Effect.res, digest) \in Artifacts
  BY ActingArtifact DEF ReadFile, Acting, Streams, Files
<1>2. workspace' \in [Files -> Contents \cup {NoFile}]
  BY DEF ReadFile, TypeOK, FilesTypeOK
<1>3. CASE workspace[Effect.res] = NoFile
  BY <1>2, <1>3, ActionFailedType DEF ReadFile
<1>4. CASE workspace[Effect.res] # NoFile
  <2>1. workspace[Effect.res] \in Contents
    BY <1>1, <1>4 DEF TypeOK, FilesTypeOK
  <2>2. <<Artifact("read", Effect.res, workspace[Effect.res])>> \in Seq(Artifacts)
    BY <1>1, <2>1
  <2> QED
    BY <1>2, <1>4, <2>2, SucceededType DEF ReadFile
<1> QED
  BY <1>3, <1>4

\* So does process.spawn.
LEMMA SpawnProcessType ==
  ASSUME TypeOK, cursor \in TaskIds(contract), SpawnProcess
  PROVE  TypeOK'
<1>1. \A stream \in {"stdout", "stderr"} : Capture(stream) \in Files
  BY ActingArtifact DEF SpawnProcess, Acting, Files
<1>2. \A left \in LeftByCommand : left \in [Files -> Contents \cup {NoFile}]
  BY DEF LeftByCommand, TypeOK, FilesTypeOK, Contents
<1>3. CASE ActionFailed
  <2>1. workspace' \in [Files -> Contents \cup {NoFile}]
    BY <1>2, <1>3 DEF SpawnProcess, TypeOK, FilesTypeOK, Contents
  <2> QED
    BY <1>3, <2>1, ActionFailedType DEF SpawnProcess
<1>4. ASSUME NEW left \in LeftByCommand, NEW out \in Outputs, NEW err \in Outputs,
             workspace' = [left EXCEPT ![Capture("stdout")] = out, ![Capture("stderr")] = err],
             Succeeded(<<Artifact("stdout", Capture("stdout"), out),
                         Artifact("stderr", Capture("stderr"), err)>>)
      PROVE  TypeOK'
  <2>1. out \in Contents /\ err \in Contents
    BY DEF Contents
  <2>2. workspace' \in [Files -> Contents \cup {NoFile}]
    BY <1>2, <1>4, <2>1
  <2>3. /\ Artifact("stdout", Capture("stdout"), out) \in Artifacts
        /\ Artifact("stderr", Capture("stderr"), err) \in Artifacts
    BY <1>1, <2>1, ActingArtifact DEF SpawnProcess, Acting, Streams
  <2>4. <<Artifact("stdout", Capture("stdout"), out),
          Artifact("stderr", Capture("stderr"), err)>> \in Seq(Artifacts)
    BY <2>3
  <2> QED
    BY <1>4, <2>2, <2>4, SucceededType DEF SpawnProcess
<1> QED
  BY <1>3, <1>4 DEF SpawnProcess

\* So do the side effects the default adapter refuses.
LEMMA NoAdapterType ==
  ASSUME TypeOK, cursor \in TaskIds(contract), NoAdapter
  PROVE  TypeOK'
<1>1. workspace' \in [Files -> Contents \cup {NoFile}]
  BY DEF NoAdapter, TypeOK, FilesTypeOK
<1> QED
  BY <1>1, ActionFailedType DEF NoAdapter

\* Testing the required obligations keeps the types.
LEMMA CloseType == TypeOK /\ Close => TypeOK'
<1> SUFFICES ASSUME TypeOK, Close PROVE TypeOK'
  OBVIOUS
<1>1. ledgerFile' \in LedgerFiles
  BY FlushedType DEF TypeOK, RecordsTypeOK, FilesTypeOK, Close
<1> USE DEF TypeOK, launchVars, sweepVars, taskVars, recordVars, envVars
<1>2. InputsTypeOK' /\ RecordsTypeOK'
  BY DEF InputsTypeOK, RecordsTypeOK, Close
<1>3. ControlTypeOK'
  BY DEF ControlTypeOK, Close, Return, Locations, Outcomes
<1>4. FilesTypeOK'
  BY <1>1 DEF FilesTypeOK, Close
<1> QED
  BY <1>2, <1>3, <1>4

\* So does run_finished and the flush.
LEMMA FinishType == TypeOK /\ Finish => TypeOK'
<1> SUFFICES ASSUME TypeOK, Finish PROVE TypeOK'
  OBVIOUS
<1>1. ledger' \in Seq(Events)
  <2>1. /\ ledger \in Seq(Events) /\ "run_finished" \in EventTypes /\ 0 \in Nat
        /\ (failures = <<>>) \in BOOLEAN
    BY DEF TypeOK, RecordsTypeOK, EventTypes
  <2> QED
    BY <2>1, EmitType DEF Finish
<1>2. ledgerFile' \in LedgerFiles
  BY <1>1 DEF Finish, LedgerFiles
<1> USE DEF TypeOK, launchVars, sweepVars, taskVars, envVars
<1>3. InputsTypeOK' /\ ControlTypeOK'
  BY DEF InputsTypeOK, ControlTypeOK, Finish, Locations
<1>4. RecordsTypeOK' /\ FilesTypeOK'
  BY <1>1, <1>2 DEF RecordsTypeOK, FilesTypeOK, Finish
<1> QED
  BY <1>3, <1>4

\* So does writing the evidence pack.
LEMMA PublishType == TypeOK /\ Publish => TypeOK'
<1> SUFFICES ASSUME TypeOK, Publish PROVE TypeOK'
  OBVIOUS
<1>1. RunStatus \in {"success", "failed"}
  BY DEF RunStatus
<1>2. EvaluateClosure(contract, RunStatus, status, artifacts, decisions) \in Matrices
  BY EvaluateClosureType DEF TypeOK, InputsTypeOK, RecordsTypeOK
<1>3. packFile' \in Packs
  BY <1>1, <1>2 DEF Publish, Packs, TypeOK, InputsTypeOK, RecordsTypeOK, FilesTypeOK, LedgerFiles
<1> USE DEF TypeOK, launchVars, sweepVars, taskVars, recordVars, envVars
<1>4. InputsTypeOK' /\ RecordsTypeOK'
  BY DEF InputsTypeOK, RecordsTypeOK, Publish
<1>5. ControlTypeOK'
  BY <1>1 DEF ControlTypeOK, Publish, Return, Locations, Outcomes
<1>6. FilesTypeOK'
  BY <1>3 DEF FilesTypeOK, Publish
<1> QED
  BY <1>4, <1>5, <1>6

\* A write cut short leaves files a reader may find.
LEMMA AbortType ==
  ASSUME TypeOK, NEW how \in Outcomes, pc # "idle", Abort(how)
  PROVE  TypeOK'
<1>1. /\ ledgerFile' \in LedgerFiles
      /\ packFile' \in Packs \cup {NoFile, Empty}
      /\ snapFiles' \in [Paths -> Contents \cup {NoFile}]
  <2>1. CASE pc = "snapshot"
    BY <2>1 DEF Abort, CutShort, TypeOK, FilesTypeOK, Contents
  <2>2. CASE pc \in {"sweep", "act", "close", "finish"}
    BY <2>2, FlushedType DEF Abort, CutShort, TypeOK, RecordsTypeOK, FilesTypeOK
  <2>3. CASE pc = "publish"
    BY <2>3 DEF Abort, CutShort, TypeOK, FilesTypeOK
  <2> QED
    BY <2>1, <2>2, <2>3 DEF TypeOK, ControlTypeOK, Locations
<1> USE DEF TypeOK, Abort, launchVars, sweepVars, taskVars, recordVars, envVars
<1>2. InputsTypeOK' /\ RecordsTypeOK'
  BY DEF InputsTypeOK, RecordsTypeOK
<1>3. ControlTypeOK'
  BY DEF ControlTypeOK, Return, Locations
<1>4. FilesTypeOK'
  BY <1>1 DEF FilesTypeOK
<1> QED
  BY <1>2, <1>3, <1>4

\* Time and the edits of the user keep the types.
LEMMA EnvironmentType == TypeOK /\ (Tick \/ Edit) => TypeOK'
<1> SUFFICES ASSUME TypeOK, Tick \/ Edit PROVE TypeOK'
  OBVIOUS
<1>1. now' \in Nat
  BY DEF Tick, Edit, TypeOK, ControlTypeOK
<1>2. /\ workspace' \in [Files -> Contents \cup {NoFile}]
      /\ edited' \subseteq Paths \X {"during", "after"}
  BY DEF Tick, Edit, TypeOK, FilesTypeOK, Contents
<1> USE DEF TypeOK, EnvUnchanged, launchVars, sweepVars, taskVars, recordVars, dirVars
<1>3. InputsTypeOK' /\ RecordsTypeOK'
  BY DEF InputsTypeOK, RecordsTypeOK, Tick, Edit
<1>4. ControlTypeOK' /\ FilesTypeOK'
  BY <1>1, <1>2 DEF ControlTypeOK, FilesTypeOK, Tick, Edit
<1> QED
  BY <1>3, <1>4

-----------------------------------------------------------------------------
(* Records only grow. *)

Within(s, r) == Len(s) <= Len(r) /\ \A i \in 1..Len(s) : r[i] = s[i]

\* What was there is still there, at the same place.
LEMMA WithinAt ==
  ASSUME NEW S, NEW s \in Seq(S), NEW r \in Seq(S), Within(s, r)
  PROVE  \A i \in DOMAIN s : i \in DOMAIN r /\ r[i] = s[i]
BY DEF Within

\* emit, emitPolicyDecision and the artifact events extend the ledger.
LEMMA WithinTransitive ==
  ASSUME NEW S, NEW s \in Seq(S), NEW r \in Seq(S), NEW q \in Seq(S), Within(s, r), Within(r, q)
  PROVE  Within(s, q)
BY DEF Within

\* A decision or an allow event, once there, stays.
LEMMA AllowsKept ==
  ASSUME TypeOK, TypeOK', contract' = contract, revoked' = revoked,
         Within(decisions, decisions'), Within(ledger, ledger')
  PROVE  \A t, n : /\ AllowDecided(t, n) => AllowDecided(t, n)'
                   /\ AllowRecorded(t, n) => AllowRecorded(t, n)'
<1>1. /\ \A i \in DOMAIN decisions : i \in DOMAIN decisions' /\ decisions'[i] = decisions[i]
      /\ \A i \in DOMAIN ledger : i \in DOMAIN ledger' /\ ledger'[i] = ledger[i]
  <2>1. /\ decisions \in Seq(Decisions) /\ decisions' \in Seq(Decisions)
        /\ ledger \in Seq(Events) /\ ledger' \in Seq(Events)
    BY DEF TypeOK, RecordsTypeOK
  <2> QED
    BY <2>1, WithinAt
<1>2. \A t, e, at : Entitled(t, e, at) => Entitled(t, e, at)'
  BY DEF Entitled
<1>3. ASSUME NEW t, NEW n, AllowDecided(t, n) PROVE AllowDecided(t, n)'
  <2>1. PICK i \in DOMAIN decisions :
          /\ decisions[i].task = t /\ decisions[i].n = n /\ decisions[i].verdict = "allow"
          /\ decisions[i].effect = EffectsOf(contract, t)[n]
          /\ Entitled(t, decisions[i].effect, decisions[i].at)
    BY <1>3 DEF AllowDecided
  <2>2. Entitled(t, decisions[i].effect, decisions[i].at)'
    BY <1>1, <1>2, <2>1 DEF Entitled
  <2> QED
    BY <1>1, <2>1, <2>2 DEF AllowDecided
<1>4. ASSUME NEW t, NEW n, AllowRecorded(t, n) PROVE AllowRecorded(t, n)'
  BY <1>1, <1>4 DEF AllowRecorded
<1> QED
  BY <1>3, <1>4

\* A justified allow decision among those collected is one the task may act on.
LEMMA AllowFound ==
  ASSUME contract' = contract, revoked' = revoked,
         NEW t, NEW n, NEW i \in DOMAIN decisions', NEW d, decisions'[i] = d,
         d.task = t, d.n = n, d.verdict = "allow",
         d.effect = EffectsOf(contract, t)[n], Entitled(t, d.effect, d.at)
  PROVE  AllowDecided(t, n)'
<1>1. \A e, at : Entitled(t, e, at) => Entitled(t, e, at)'
  BY DEF Entitled
<1>2. Entitled(t, d.effect, d.at)'
  BY <1>1 DEF Entitled
<1> QED
  BY <1>2 DEF AllowDecided

\* Dependencies stay first when every new task_started comes after they succeeded.
LEMMA OrderKept ==
  ASSUME RunInvariant, TypeOK', contract' = contract, Within(ledger, ledger'),
         \A i \in DOMAIN ledger' :
           i > Len(ledger) /\ ledger'[i].type = "task_started" =>
             \A d \in Deps(contract, ledger'[i].task) :
               d \in TaskIds(contract) /\ status[d] = "success"
  PROVE  DependenciesFirst'
<1>1. ledger \in Seq(Events) /\ ledger' \in Seq(Events)
  BY DEF RunInvariant, TypeOK, RecordsTypeOK
<1>2. SUFFICES ASSUME NEW i \in DOMAIN ledger', ledger'[i].type = "task_started",
                      NEW d \in Deps(contract, ledger'[i].task)
               PROVE  \E j \in 1..(i - 1) : /\ ledger'[j].type = "task_finished"
                                            /\ ledger'[j].task = d
                                            /\ ledger'[j].ok
  BY DEF DependenciesFirst
<1>3. CASE i <= Len(ledger)
  <2>1. i \in DOMAIN ledger /\ ledger'[i] = ledger[i]
    BY <1>1, <1>3 DEF Within
  <2>2. PICK j \in 1..(i - 1) : /\ ledger[j].type = "task_finished"
                                /\ ledger[j].task = d
                                /\ ledger[j].ok
    BY <1>2, <2>1 DEF RunInvariant, DependenciesFirst
  <2>3. ledger'[j] = ledger[j]
    BY <1>1, <1>3, <2>2 DEF Within
  <2> QED
    BY <2>2, <2>3
<1>4. CASE i > Len(ledger)
  <2>1. d \in TaskIds(contract) /\ status[d] = "success"
    BY <1>2, <1>4
  <2>2. PICK j \in DOMAIN ledger : /\ ledger[j].type = "task_finished"
                                   /\ ledger[j].task = d
                                   /\ ledger[j].ok
    BY <2>1 DEF RunInvariant, SuccessRecorded
  <2>3. ledger'[j] = ledger[j] /\ j \in 1..(i - 1)
    BY <1>1, <1>4, <2>2 DEF Within
  <2> QED
    BY <2>2, <2>3
<1> QED
  BY <1>1, <1>3, <1>4

\* Every success stays recorded when each new one is.
LEMMA SuccessKept ==
  ASSUME RunInvariant, TypeOK', contract' = contract, Within(ledger, ledger'),
         \A t \in TaskIds(contract) : status'[t] = "success" =>
           \/ status[t] = "success"
           \/ \E j \in DOMAIN ledger' : /\ ledger'[j].type = "task_finished"
                                        /\ ledger'[j].task = t
                                        /\ ledger'[j].ok
  PROVE  SuccessRecorded'
<1>1. ledger \in Seq(Events) /\ ledger' \in Seq(Events)
  BY DEF RunInvariant, TypeOK, RecordsTypeOK
<1>2. \A j \in DOMAIN ledger : j \in DOMAIN ledger' /\ ledger'[j] = ledger[j]
  BY <1>1 DEF Within
<1> QED
  BY <1>2 DEF RunInvariant, SuccessRecorded

\* A step that adds nothing to the records of the run.
LEMMA QuietStep ==
  ASSUME RunInvariant, TypeOK',
         UNCHANGED <<contract, revoked, status, completed, cursor, progress,
                     ledger, decisions, performed>>,
         pc' \in {pc, "idle", "close", "finish", "publish"}, pc' # "idle" => pc # "idle",
         outcome' # "stalled"
  PROVE  RunInvariant'
<1> USE DEF RunInvariant
<1>1. Within(decisions, decisions') /\ Within(ledger, ledger')
  BY DEF TypeOK, RecordsTypeOK, Within
<1>2. WhileActing' /\ EffectsAuthorized'
  BY <1>1, AllowsKept DEF WhileActing, EffectsAuthorized
<1>3. BeforeEvents' /\ CompletedCounts' /\ SuccessRecorded' /\ ValidUnderway' /\ DependenciesFirst'
  BY DEF BeforeEvents, CompletedCounts, SuccessRecorded, ValidUnderway, DependenciesFirst
<1>4. WhileSweeping'
  BY DEF WhileSweeping, DepsComplete
<1>5. NeverStalls'
  BY DEF NeverStalls
<1> QED
  BY <1>2, <1>3, <1>4, <1>5

-----------------------------------------------------------------------------
(* Every step keeps the invariant. *)

\* An allow decision was justified when it was taken.
LEMMA AllowJustified ==
  ASSUME contract \in Contracts, NEW t, NEW e, NEW time \in Nat,
         EvaluateAction(contract, t, e, time, revoked).verdict = "allow"
  PROVE  Entitled(t, e, time)
<1>1. CASE e.type = "file.write"
  BY <1>1 DEF EvaluateAction, ScopeVerdict, Deny, Entitled
<1>2. CASE e.type = "file.read"
  BY <1>2 DEF EvaluateAction, ScopeVerdict, Deny, Entitled
<1>3. CASE e.type # "file.write" /\ e.type # "file.read"
  <2> DEFINE k == FirstMatching(contract, t, e)
  <2>1. TicketVerdict(contract, t, e, time, revoked).verdict = "allow"
    BY <1>3 DEF EvaluateAction
  <2>2. /\ Matching(contract, t, e) # {}
        /\ TicketStatus(k, time) = "valid"
        /\ k.id \notin revoked
    BY <2>1 DEF TicketVerdict, Deny
  <2>3. PICK i \in DOMAIN contract.approvals :
          /\ k = contract.approvals[i]
          /\ contract.approvals[i] \in Tickets
          /\ contract.approvals[i].approved
          /\ contract.approvals[i].task = t /\ contract.approvals[i].effect = e
    BY <2>2, FirstMatchingMatches
  <2>4. k.expires \in Nat \cup {Never, Garbled}
    BY <2>3 DEF Tickets, Expiries
  <2>5. k.expires = Never \/ (k.expires \in Nat /\ k.expires > time)
    BY <2>2, <2>4 DEF TicketStatus
  <2> QED
    BY <1>3, <2>2, <2>3, <2>5 DEF Entitled
<1> QED
  BY <1>1, <1>2, <1>3

\* Before the first call nothing has been done.
LEMMA InitInvariant == Init => RunInvariant
<1> SUFFICES ASSUME Init PROVE RunInvariant
  OBVIOUS
<1>1. TypeOK
  BY InitType
<1>2. CompletedCounts
  <2>1. {t \in TaskIds(contract) : status[t] = "success"} = {}
    BY DEF Init
  <2> QED
    BY <2>1, FS_EmptySet DEF CompletedCounts, Init
<1>3. BeforeEvents /\ WhileActing /\ WhileSweeping /\ ValidUnderway
  BY DEF Init, BeforeEvents, WhileActing, WhileSweeping, ValidUnderway
<1>4. SuccessRecorded /\ EffectsAuthorized /\ DependenciesFirst /\ NeverStalls
  BY DEF Init, SuccessRecorded, EffectsAuthorized, DependenciesFirst, NeverStalls
<1> QED
  BY <1>1, <1>2, <1>3, <1>4 DEF RunInvariant

\* A call starts from nothing.
LEMMA CallInvariant ==
  ASSUME RunInvariant, NEW l \in Launches, Refuse(l) \/ Launch(l)
  PROVE  RunInvariant'
<1>1. Arguments(l)
  BY DEF Refuse, Launch
<1>2. /\ pc' \in {"idle", "snapshot"} /\ outcome' \in Outcomes \ {"stalled"}
      /\ pc' # "idle" => Valid(l.contract)
  BY DEF Refuse, Launch, Outcomes
<1>3. TypeOK'
  BY <1>1, <1>2, ArgumentsType DEF RunInvariant, Locations
<1>4. CompletedCounts'
  <2>1. {t \in TaskIds(contract') : status'[t] = "success"} = {}
    BY <1>1 DEF Arguments
  <2> QED
    BY <1>1, <2>1, FS_EmptySet DEF CompletedCounts, Arguments
<1>5. BeforeEvents' /\ ValidUnderway'
  BY <1>1, <1>2 DEF Arguments, BeforeEvents, ValidUnderway
<1>6. WhileActing' /\ WhileSweeping'
  BY <1>2 DEF WhileActing, WhileSweeping
<1>7. SuccessRecorded' /\ EffectsAuthorized' /\ DependenciesFirst'
  BY <1>1 DEF Arguments, SuccessRecorded, EffectsAuthorized, DependenciesFirst
<1>8. NeverStalls'
  BY <1>2 DEF NeverStalls
<1> QED
  BY <1>3, <1>4, <1>5, <1>6, <1>7, <1>8 DEF RunInvariant

\* The first event concerns no task.
LEMMA OpenLedgerInvariant == RunInvariant /\ OpenLedger => RunInvariant'
<1> SUFFICES ASSUME RunInvariant, OpenLedger PROVE RunInvariant'
  OBVIOUS
<1> USE DEF RunInvariant, OpenLedger, launchVars, sweepVars, taskVars
<1>1. TypeOK'
  BY OpenLedgerType
<1>2. /\ ledger = <<>> /\ performed = {} /\ cursor = 1
      /\ \A t \in TaskIds(contract) : status[t] = "pending"
  BY DEF BeforeEvents
<1> DEFINE e == Event(<<>>, "run_started", 0, TRUE)
<1>3. ledger' = <<e>> /\ e.type = "run_started"
  BY DEF Emit, Event
<1> HIDE DEF e
<1>4. DependenciesFirst'
  <2>1. DOMAIN <<e>> = {1} /\ <<e>>[1] = e
    OBVIOUS
  <2>2. DOMAIN ledger' = {1} /\ ledger'[1] = e
    BY <1>3, <2>1, Zenon
  <2> QED
    BY <1>3, <2>2 DEF DependenciesFirst
<1>5. SuccessRecorded' /\ EffectsAuthorized'
  BY <1>2 DEF SuccessRecorded, EffectsAuthorized
<1>6. BeforeEvents' /\ WhileActing' /\ CompletedCounts' /\ ValidUnderway' /\ NeverStalls'
  BY DEF BeforeEvents, WhileActing, CompletedCounts, ValidUnderway, NeverStalls
<1>7. WhileSweeping'
  BY <1>2, TaskIdsInterval DEF WhileSweeping, TypeOK, InputsTypeOK
<1> QED
  BY <1>1, <1>4, <1>5, <1>6, <1>7

\* A task passed over has succeeded or waits for another.
LEMMA PassOverInvariant == RunInvariant /\ PassOver => RunInvariant'
<1> SUFFICES ASSUME RunInvariant, PassOver PROVE RunInvariant'
  OBVIOUS
<1> USE DEF RunInvariant, PassOver, launchVars, taskVars, recordVars
<1>1. TypeOK'
  BY PassOverType
<1>2. Within(decisions, decisions') /\ Within(ledger, ledger')
  BY DEF TypeOK, RecordsTypeOK, Within
<1>3. EffectsAuthorized'
  BY <1>1, <1>2, AllowsKept DEF EffectsAuthorized
<1>4. BeforeEvents' /\ WhileActing' /\ CompletedCounts' /\ ValidUnderway' /\ NeverStalls'
  BY DEF BeforeEvents, WhileActing, CompletedCounts, ValidUnderway, NeverStalls
<1>5. SuccessRecorded' /\ DependenciesFirst'
  BY DEF SuccessRecorded, DependenciesFirst
<1>6. WhileSweeping'
  <2>1. SUFFICES ASSUME ~progress, NEW t \in TaskIds(contract), t < cursor + 1
                 PROVE  status[t] = "success" \/ ~DepsComplete(t)
    BY DEF WhileSweeping, DepsComplete
  <2>2. t = cursor \/ t < cursor
    BY <2>1, TaskIdsInterval DEF TypeOK, InputsTypeOK, ControlTypeOK
  <2> QED
    BY <2>1, <2>2 DEF WhileSweeping
<1> QED
  BY <1>1, <1>3, <1>4, <1>5, <1>6

\* A failing task: whatever was recorded stays, and nothing succeeds by it.
LEMMA FailTaskInvariant ==
  ASSUME RunInvariant, TypeOK', pc # "idle",
         cursor \in TaskIds(contract), status[cursor] # "success",
         NEW l \in Seq(Events), Within(ledger, l), NEW phase, FailTask(l, phase),
         UNCHANGED <<contract, revoked, cursor, completed, outcome>>,
         Within(decisions, decisions'),
         \A x \in performed' :
           x \in performed \/ (AllowDecided(x[1], x[2]) /\ AllowRecorded(x[1], x[2])),
         \A i \in DOMAIN l : i > Len(ledger) /\ l[i].type = "task_started" =>
           \A d \in Deps(contract, l[i].task) : d \in TaskIds(contract) /\ status[d] = "success"
  PROVE  RunInvariant'
<1> DEFINE last == Event(l, "task_finished", cursor, FALSE)
<1>1. /\ ledger \in Seq(Events) /\ ledger' \in Seq(Events) /\ cursor \in Nat
      /\ status \in [TaskIds(contract) -> TaskStatuses]
  BY DEF RunInvariant, TypeOK, RecordsTypeOK, ControlTypeOK
<1>2. /\ Len(ledger') = Len(l) + 1
      /\ \A i \in 1..Len(l) : ledger'[i] = l[i]
      /\ ledger'[Len(l) + 1] = last
  <2>1. ledger' = Emit(l, "task_finished", cursor, FALSE)
    BY DEF FailTask
  <2>2. "task_finished" \in EventTypes
    BY DEF EventTypes
  <2> QED
    BY <1>1, <2>1, <2>2, EmitType
<1>3. Within(l, ledger')
  BY <1>2 DEF Within
<1>4. Within(ledger, ledger')
  BY <1>1, <1>3, WithinTransitive
<1>5. pc' = "finish" /\ status' = [status EXCEPT ![cursor] = "failed"]
  BY DEF FailTask
<1>6. \A t \in TaskIds(contract) : status'[t] = "success" <=> status[t] = "success"
  BY <1>1, <1>5
<1>7. CompletedCounts'
  BY <1>6 DEF RunInvariant, CompletedCounts
<1>8. SuccessRecorded'
  BY <1>4, <1>6, SuccessKept
<1>9. DependenciesFirst'
  <2>1. ASSUME NEW i \in DOMAIN ledger', i > Len(ledger), ledger'[i].type = "task_started"
        PROVE  \A d \in Deps(contract, ledger'[i].task) :
                 d \in TaskIds(contract) /\ status[d] = "success"
    <3>1. i \in 1..(Len(l) + 1) /\ Len(l) \in Nat
      BY <1>1, <1>2
    <3>2. last.type = "task_finished"
      BY DEF Event
    <3>3. i # Len(l) + 1
      BY <1>2, <2>1, <3>2
    <3>4. i \in DOMAIN l /\ ledger'[i] = l[i]
      BY <1>2, <3>1, <3>3
    <3> QED
      BY <2>1, <3>4
  <2> QED
    BY <1>4, <2>1, OrderKept
<1>10. EffectsAuthorized'
  BY <1>4, AllowsKept DEF RunInvariant, EffectsAuthorized
<1>11. BeforeEvents' /\ WhileActing' /\ WhileSweeping' /\ ValidUnderway' /\ NeverStalls'
  BY <1>5 DEF RunInvariant, BeforeEvents, WhileActing, WhileSweeping, ValidUnderway, NeverStalls
<1> QED
  BY <1>7, <1>8, <1>9, <1>10, <1>11 DEF RunInvariant

\* A succeeding task: it is counted and recorded.
LEMMA CompleteTaskInvariant ==
  ASSUME RunInvariant, TypeOK', pc = "act", CompleteTask,
         UNCHANGED <<contract, revoked, progress, decisions, performed, outcome>>
  PROVE  RunInvariant'
<1>1. /\ ledger \in Seq(Events) /\ ledger' \in Seq(Events) /\ pending \in Seq(Artifacts)
      /\ contract \in Contracts /\ cursor \in Nat
      /\ status \in [TaskIds(contract) -> TaskStatuses]
  BY DEF RunInvariant, TypeOK, InputsTypeOK, RecordsTypeOK, ControlTypeOK
<1>2. cursor \in TaskIds(contract) /\ status[cursor] # "success" /\ progress
  BY DEF RunInvariant, WhileActing
<1> DEFINE recorded == EmitArtifacts(ledger, cursor, pending)
           last == [Event(recorded, "task_finished", cursor, TRUE) EXCEPT
                      !.artifacts = {pending[i].id : i \in DOMAIN pending}]
<1>3. /\ recorded \in Seq(Events) /\ Len(recorded) = Len(ledger) + Len(pending)
      /\ \A i \in 1..Len(ledger) : recorded[i] = ledger[i]
      /\ \A i \in 1..Len(pending) : recorded[Len(ledger) + i].type = "artifact_recorded"
  BY <1>1, EmitArtifactsType
<1>4. last.type = "task_finished" /\ last.task = cursor /\ last.ok
  BY Zenon DEF Event
<1>5. ledger' = Append(recorded, last)
  BY DEF CompleteTask
<1> HIDE DEF recorded, last
<1>6. /\ Len(ledger') = Len(recorded) + 1
      /\ \A i \in 1..Len(recorded) : ledger'[i] = recorded[i]
      /\ ledger'[Len(recorded) + 1] = last
  BY <1>3, <1>5
<1>7. Within(ledger, ledger') /\ Within(decisions, decisions')
  <2>1. Within(ledger, recorded)
    BY <1>1, <1>3 DEF Within
  <2>2. Within(recorded, ledger')
    BY <1>3, <1>6 DEF Within
  <2>3. Within(ledger, ledger')
    BY <1>1, <1>3, <2>1, <2>2, WithinTransitive
  <2> QED
    BY <2>3 DEF RunInvariant, TypeOK, RecordsTypeOK, Within
<1>8. /\ pc' = "sweep" /\ status' = [status EXCEPT ![cursor] = "success"]
      /\ completed' = completed + 1
  BY DEF CompleteTask
<1>9. CompletedCounts'
  <2> DEFINE S == {t \in TaskIds(contract) : status[t] = "success"}
  <2>1. {t \in TaskIds(contract) : status'[t] = "success"} = S \cup {cursor}
    BY <1>1, <1>2, <1>8
  <2>2. cursor \notin S
    BY <1>2
  <2>3. IsFiniteSet(TaskIds(contract))
    <3>1. TaskIds(contract) = 1..Len(contract.tasks) /\ Len(contract.tasks) \in Int
      BY <1>1, TaskIdsInterval
    <3>2. IsFiniteSet(1..Len(contract.tasks))
      BY <3>1, FS_Interval
    <3> QED
      BY <3>1, <3>2
  <2>4. IsFiniteSet(S)
    BY <2>3, FS_Subset
  <2>5. Cardinality(S \cup {cursor}) = Cardinality(S) + 1
    BY <2>2, <2>4, FS_AddElement
  <2> QED
    BY <1>8, <2>1, <2>5 DEF RunInvariant, CompletedCounts
<1>10. SuccessRecorded'
  <2>1. Len(recorded) + 1 \in DOMAIN ledger'
    BY <1>1, <1>3, <1>6
  <2>2. \A t \in TaskIds(contract) : status'[t] = "success" =>
           \/ status[t] = "success"
           \/ \E j \in DOMAIN ledger' : /\ ledger'[j].type = "task_finished"
                                        /\ ledger'[j].task = t
                                        /\ ledger'[j].ok
    BY <1>1, <1>4, <1>6, <1>8, <2>1
  <2> QED
    BY <1>7, <2>2, SuccessKept
<1>11. DependenciesFirst'
  <2>1. \A i \in DOMAIN ledger' : i > Len(ledger) => ledger'[i].type # "task_started"
    <3>1. SUFFICES ASSUME NEW i \in DOMAIN ledger', i > Len(ledger)
                   PROVE  ledger'[i].type # "task_started"
      OBVIOUS
    <3>2. /\ i \in 1..(Len(recorded) + 1)
          /\ Len(ledger) \in Nat /\ Len(pending) \in Nat /\ Len(recorded) \in Nat
      BY <1>1, <1>3, <1>6
    <3>3. CASE i = Len(recorded) + 1
      BY <1>4, <1>6, <3>3
    <3>4. CASE i <= Len(recorded)
      <4>1. i - Len(ledger) \in 1..Len(pending) /\ Len(ledger) + (i - Len(ledger)) = i
        BY <1>3, <3>1, <3>2, <3>4
      <4>2. ledger'[i] = recorded[i] /\ recorded[i].type = "artifact_recorded"
        BY <1>3, <1>6, <3>2, <3>4, <4>1
      <4> QED
        BY <4>2
    <3>5. i = Len(recorded) + 1 \/ i <= Len(recorded)
      BY <3>2
    <3> QED
      BY <3>3, <3>4, <3>5
  <2> QED
    BY <1>7, <2>1, OrderKept
<1>12. EffectsAuthorized'
  BY <1>7, AllowsKept DEF RunInvariant, EffectsAuthorized
<1>13. BeforeEvents' /\ WhileActing' /\ WhileSweeping' /\ ValidUnderway' /\ NeverStalls'
  BY <1>2, <1>8 DEF RunInvariant, BeforeEvents, WhileActing, WhileSweeping, ValidUnderway, NeverStalls
<1> QED
  BY <1>9, <1>10, <1>11, <1>12, <1>13 DEF RunInvariant

\* A task starts after its dependencies, with a decision on each side effect.
LEMMA StartTaskInvariant == RunInvariant /\ StartTask => RunInvariant'
<1> SUFFICES ASSUME RunInvariant, StartTask PROVE RunInvariant'
  OBVIOUS
<1> DEFINE ds      == EvaluateTask(contract, cursor, now, revoked)
           started == Emit(ledger, "task_started", cursor, TRUE)
           begun   == EmitDecisions(started, ds)
<1>1. /\ contract \in Contracts /\ cursor \in TaskIds(contract) /\ cursor \in Nat /\ now \in Nat
      /\ ledger \in Seq(Events) /\ decisions \in Seq(Decisions)
      /\ status[cursor] # "success" /\ DepsComplete(cursor) /\ pc = "sweep"
  BY DEF RunInvariant, TypeOK, InputsTypeOK, ControlTypeOK, RecordsTypeOK, StartTask
<1>2. TypeOK'
  BY StartTaskType DEF RunInvariant
<1>3. /\ ds \in Seq(Decisions) /\ DOMAIN ds = DOMAIN EffectsOf(contract, cursor)
      /\ \A n \in DOMAIN EffectsOf(contract, cursor) :
           LET v == EvaluateAction(contract, cursor, EffectsOf(contract, cursor)[n], now, revoked)
           IN /\ ds[n].task = cursor /\ ds[n].n = n
              /\ ds[n].effect = EffectsOf(contract, cursor)[n]
              /\ ds[n].verdict = v.verdict /\ ds[n].at = now
  BY <1>1, EvaluateTaskType
<1>4. /\ started \in Seq(Events) /\ Len(started) = Len(ledger) + 1
      /\ \A i \in 1..Len(ledger) : started[i] = ledger[i]
      /\ started[Len(ledger) + 1] = Event(ledger, "task_started", cursor, TRUE)
  BY <1>1, EmitType DEF EventTypes
<1> HIDE DEF ds, started
<1>5. started[Len(ledger) + 1].task = cursor
  BY <1>4 DEF Event
<1>6. /\ begun \in Seq(Events) /\ Len(begun) = Len(started) + Len(ds)
      /\ \A i \in 1..Len(started) : begun[i] = started[i]
      /\ \A i \in 1..Len(ds) :
           /\ begun[Len(started) + i].type = "policy_decided"
           /\ begun[Len(started) + i].task = ds[i].task
           /\ begun[Len(started) + i].decision[1].n = ds[i].n
           /\ begun[Len(started) + i].ok = (ds[i].verdict # "deny")
  <2>1. ds \in Seq(Decisions) /\ started \in Seq(Events)
    BY <1>3, <1>4
  <2>2. /\ EmitDecisions(started, ds) \in Seq(Events)
        /\ Len(EmitDecisions(started, ds)) = Len(started) + Len(ds)
        /\ \A i \in 1..Len(started) : EmitDecisions(started, ds)[i] = started[i]
    BY <2>1, EmitDecisionsType
  <2>3. \A i \in 1..Len(ds) :
          LET e == EmitDecisions(started, ds)[Len(started) + i] IN
          /\ e.type = "policy_decided" /\ e.task = ds[i].task
          /\ e.decision[1].n = ds[i].n /\ e.ok = (ds[i].verdict # "deny")
    BY <2>1, EmitDecisionsType
  <2> QED
    BY <2>2, <2>3 DEF begun
<1>7. UNCHANGED <<contract, revoked, cursor, completed, outcome, performed>>
      /\ decisions' = decisions \o ds /\ progress'
  BY Zenon DEF StartTask, launchVars, ds
<1>8. /\ Denied(ds) # {} => FailTask(begun, "policy")
      /\ Denied(ds) = {} => ledger' = begun /\ pc' = "act" /\ status' = status
  BY DEF StartTask, ds, started
<1> HIDE DEF begun
<1>9. Within(ledger, begun)
  <2>1. Within(ledger, started)
    BY <1>1, <1>4 DEF Within
  <2>2. Within(started, begun)
    BY <1>3, <1>4, <1>6 DEF Within
  <2> QED
    BY <1>1, <1>4, <1>6, <2>1, <2>2, WithinTransitive
<1>10. /\ Len(decisions \o ds) = Len(decisions) + Len(ds)
       /\ \A i \in 1..Len(decisions) : (decisions \o ds)[i] = decisions[i]
       /\ \A i \in 1..Len(ds) : (decisions \o ds)[Len(decisions) + i] = ds[i]
  <2>1. ds \in [1..Len(ds) -> Decisions] /\ Len(ds) \in Nat
    BY <1>3
  <2> QED
    BY <1>1, <2>1, Extended
<1>11. Within(decisions, decisions')
  BY <1>1, <1>3, <1>7, <1>10 DEF Within
<1>12. \A i \in DOMAIN begun : i > Len(ledger) /\ begun[i].type = "task_started" =>
         \A d \in Deps(contract, begun[i].task) : d \in TaskIds(contract) /\ status[d] = "success"
  <2>1. SUFFICES ASSUME NEW i \in DOMAIN begun, i > Len(ledger), begun[i].type = "task_started"
                 PROVE  begun[i].task = cursor
    <3>1. Valid(contract)
      BY <1>1 DEF RunInvariant, ValidUnderway
    <3>2. \A d \in Deps(contract, cursor) : d \in TaskIds(contract) /\ status[d] = "success"
      BY <1>1, <3>1 DEF Valid, DepsComplete
    <3> QED
      BY <3>2
  <2>2. /\ i \in 1..(Len(started) + Len(ds)) /\ Len(started) \in Nat /\ Len(ds) \in Nat
        /\ Len(ledger) \in Nat
    BY <1>1, <1>3, <1>4, <1>6
  <2>3. CASE i > Len(started)
    <3>1. i - Len(started) \in 1..Len(ds) /\ Len(started) + (i - Len(started)) = i
      BY <2>2, <2>3
    <3>2. begun[i].type = "policy_decided"
      BY <1>6, <3>1
    <3> QED
      BY <2>1, <3>2
  <2>4. CASE i <= Len(started)
    <3>1. i = Len(ledger) + 1 /\ i \in 1..Len(started)
      BY <1>4, <2>1, <2>2, <2>4
    <3> QED
      BY <1>5, <1>6, <3>1
  <2> QED
    BY <2>2, <2>3, <2>4
<1>13. CASE Denied(ds) # {}
  <2>1. \A x \in performed' : x \in performed
    BY <1>7
  <2> QED
    BY <1>1, <1>2, <1>6, <1>7, <1>8, <1>9, <1>11, <1>12, <1>13, <2>1, FailTaskInvariant
<1>14. CASE Denied(ds) = {}
  <2>1. ledger' = begun /\ pc' = "act" /\ status' = status
    BY <1>8, <1>14
  <2>2. Within(ledger, ledger')
    BY <1>9, <2>1
  <2>3. DependenciesFirst'
    BY <1>2, <1>7, <1>12, <2>1, <2>2, OrderKept
  <2>4. SuccessRecorded'
    BY <1>2, <1>7, <2>1, <2>2, SuccessKept
  <2>5. EffectsAuthorized'
    BY <1>2, <1>7, <1>11, <2>2, AllowsKept DEF RunInvariant, EffectsAuthorized
  <2>6. ASSUME NEW n \in DOMAIN EffectsOf(contract, cursor)
        PROVE  AllowDecided(cursor, n)' /\ AllowRecorded(cursor, n)'
    <3>1. n \in 1..Len(ds) /\ Len(ds) \in Nat
      BY <1>3
    <3>2. ds[n] \in Decisions
      BY <1>3, <3>1
    <3>3. ds[n].verdict = "allow"
      BY <1>3, <1>14, <3>2 DEF Denied, Decisions
    <3>4. Entitled(cursor, ds[n].effect, ds[n].at)
      BY <1>1, <1>3, <3>3, AllowJustified
    <3>6. decisions'[Len(decisions) + n] = ds[n] /\ Len(decisions) + n \in DOMAIN decisions'
      <4>1. Len(decisions) \in Nat /\ decisions' \in Seq(Decisions)
            /\ Len(decisions') = Len(decisions) + Len(ds)
        BY <1>1, <1>2, <1>7, <1>10 DEF TypeOK, RecordsTypeOK
      <4>2. Len(decisions) + n \in 1..Len(decisions')
        BY <3>1, <4>1
      <4> QED
        BY <1>7, <1>10, <3>1, <4>1, <4>2
    <3>7. AllowDecided(cursor, n)'
      <4>1. ASSUME NEW t, t = cursor, NEW d, d = ds[n], NEW i, i = Len(decisions) + n
            PROVE  AllowDecided(t, n)'
        <5>1. /\ i \in DOMAIN decisions' /\ decisions'[i] = d
              /\ d.task = t /\ d.n = n /\ d.verdict = "allow"
              /\ d.effect = EffectsOf(contract, t)[n] /\ Entitled(t, d.effect, d.at)
          BY <1>3, <3>1, <3>3, <3>4, <3>6, <4>1
        <5> QED
          BY <1>7, <5>1, AllowFound
      <4> QED
        BY <1>7, <4>1
    <3>8. Len(started) + n \in DOMAIN ledger'
      BY <1>4, <1>6, <2>1, <3>1
    <3>9. AllowRecorded(cursor, n)'
      <4>1. /\ begun[Len(started) + n].type = "policy_decided"
            /\ begun[Len(started) + n].task = ds[n].task
            /\ begun[Len(started) + n].decision[1].n = ds[n].n
            /\ begun[Len(started) + n].ok = (ds[n].verdict # "deny")
        BY <1>6, <3>1
      <4>2. ds[n].task = cursor /\ ds[n].n = n
        BY <1>3, <3>1
      <4>3. /\ ledger'[Len(started) + n].type = "policy_decided"
            /\ ledger'[Len(started) + n].task = cursor'
            /\ ledger'[Len(started) + n].decision[1].n = n
            /\ ledger'[Len(started) + n].ok
        BY <1>7, <2>1, <3>3, <4>1, <4>2
      <4> QED
        BY <3>8, <4>3 DEF AllowRecorded
    <3> QED
      BY <3>7, <3>9
  <2>7. WhileActing'
    BY <1>1, <1>7, <2>1, <2>6 DEF WhileActing
  <2>8. CompletedCounts' /\ NeverStalls'
    BY <1>7, <2>1 DEF RunInvariant, CompletedCounts, NeverStalls
  <2>9. BeforeEvents' /\ WhileSweeping' /\ ValidUnderway'
    BY <1>1, <1>7, <2>1 DEF RunInvariant, BeforeEvents, WhileSweeping, ValidUnderway
  <2> QED
    BY <1>2, <2>3, <2>4, <2>5, <2>7, <2>8, <2>9 DEF RunInvariant
<1> QED
  BY <1>13, <1>14

\* A sweep over a valid contract that starts no task has nothing left to start.
LEMMA SweepMakesProgress ==
  ASSUME RunInvariant, pc = "sweep", cursor = Len(contract.tasks) + 1, ~progress
  PROVE  completed = Len(contract.tasks)
<1>1. /\ TaskIds(contract) = 1..Len(contract.tasks) /\ Len(contract.tasks) \in Nat
      /\ Valid(contract)
  BY TaskIdsInterval DEF RunInvariant, TypeOK, InputsTypeOK, ValidUnderway
<1> DEFINE S == {t \in TaskIds(contract) : status[t] # "success"}
<1>2. \A t \in S : Deps(contract, t) \cap S # {}
  <2>1. SUFFICES ASSUME NEW t \in S PROVE Deps(contract, t) \cap S # {}
    OBVIOUS
  <2>2. ~DepsComplete(t)
    BY <1>1, <2>1 DEF RunInvariant, WhileSweeping
  <2>3. PICK d \in Deps(contract, t) : status[d] # "success"
    BY <2>2 DEF DepsComplete
  <2>4. d \in TaskIds(contract)
    BY <1>1, <2>1, <2>3 DEF Valid
  <2> QED
    BY <2>3, <2>4
<1>3. S = {}
  BY <1>1, <1>2 DEF Valid, HasCycle
<1>4. {t \in TaskIds(contract) : status[t] = "success"} = 1..Len(contract.tasks)
  BY <1>1, <1>3
<1>5. Cardinality(1..Len(contract.tasks)) = Len(contract.tasks)
  BY <1>1, FS_Interval
<1> QED
  BY <1>4, <1>5 DEF RunInvariant, CompletedCounts

\* A sweep that started nothing has passed over every task.
LEMMA EndSweepInvariant == RunInvariant /\ EndSweep => RunInvariant'
<1> SUFFICES ASSUME RunInvariant, EndSweep PROVE RunInvariant'
  OBVIOUS
<1>1. TypeOK'
  BY EndSweepType DEF RunInvariant
<1>2. UNCHANGED <<contract, revoked, completed, status, performed, ledger, decisions>>
      /\ pc = "sweep" /\ cursor = Len(contract.tasks) + 1
  BY DEF EndSweep, launchVars, taskVars, recordVars
<1>3. CASE completed = Len(contract.tasks)
  <2>1. pc' = "close" /\ UNCHANGED <<cursor, progress, outcome>>
    BY <1>3 DEF EndSweep
  <2> QED
    BY <1>1, <1>2, <2>1, QuietStep DEF RunInvariant, NeverStalls
<1>4. CASE completed # Len(contract.tasks)
  <2>1. progress
    BY <1>2, <1>4, SweepMakesProgress
  <2>2. cursor' = 1 /\ pc' = pc /\ outcome' = outcome
    BY <1>4, <2>1 DEF EndSweep
  <2>3. Within(decisions, decisions') /\ Within(ledger, ledger')
    BY <1>2 DEF RunInvariant, TypeOK, RecordsTypeOK, Within
  <2>4. EffectsAuthorized'
    BY <1>1, <1>2, <2>3, AllowsKept DEF RunInvariant, EffectsAuthorized
  <2>5. WhileSweeping'
    BY <1>1, <2>2, TaskIdsInterval DEF WhileSweeping, TypeOK, InputsTypeOK
  <2>6. /\ BeforeEvents' /\ WhileActing' /\ CompletedCounts' /\ ValidUnderway' /\ NeverStalls'
        /\ SuccessRecorded' /\ DependenciesFirst'
    BY <1>2, <2>2 DEF RunInvariant, BeforeEvents, WhileActing, CompletedCounts, ValidUnderway,
                      NeverStalls, SuccessRecorded, DependenciesFirst
  <2> QED
    BY <1>1, <2>4, <2>5, <2>6 DEF RunInvariant
<1> QED
  BY <1>3, <1>4
\* ExecuteAction is called for the side effect at hand, and succeeds or fails.
LEMMA ActingInvariant ==
  ASSUME RunInvariant, TypeOK', pc = "act", action \in DOMAIN EffectsOf(contract, cursor),
         ActingUnchanged,
         UNCHANGED <<pc, status, ledger>> \/ FailTask(ledger, "adapter")
  PROVE  RunInvariant'
<1>1. /\ UNCHANGED <<contract, revoked, cursor, progress, completed, decisions, outcome>>
      /\ performed' = performed \cup {<<cursor, action>>}
  BY DEF ActingUnchanged, launchVars
<1>2. /\ cursor \in TaskIds(contract) /\ status[cursor] # "success" /\ progress
      /\ AllowDecided(cursor, action) /\ AllowRecorded(cursor, action)
  BY DEF RunInvariant, WhileActing
<1>3. \A x \in performed' :
        x \in performed \/ (AllowDecided(x[1], x[2]) /\ AllowRecorded(x[1], x[2]))
  BY <1>1, <1>2
<1>4. ledger \in Seq(Events) /\ decisions \in Seq(Decisions)
  BY DEF RunInvariant, TypeOK, RecordsTypeOK
<1>5. Within(decisions, decisions') /\ Within(ledger, ledger)
  BY <1>1, <1>4 DEF Within
<1>6. CASE FailTask(ledger, "adapter")
  <2>1. \A i \in DOMAIN ledger : ~(i > Len(ledger))
    BY <1>4
  <2> QED
    BY <1>1, <1>2, <1>3, <1>4, <1>5, <1>6, <2>1, FailTaskInvariant
<1>7. CASE UNCHANGED <<pc, status, ledger>>
  <2>1. Within(ledger, ledger')
    BY <1>4, <1>7 DEF Within
  <2>2. EffectsAuthorized'
    BY <1>1, <1>3, <1>5, <2>1, AllowsKept DEF RunInvariant, EffectsAuthorized
  <2>3. WhileActing'
    BY <1>1, <1>5, <1>7, <2>1, AllowsKept DEF RunInvariant, WhileActing
  <2>4. /\ BeforeEvents' /\ WhileSweeping' /\ CompletedCounts' /\ SuccessRecorded'
        /\ ValidUnderway' /\ DependenciesFirst' /\ NeverStalls'
    BY <1>1, <1>7 DEF RunInvariant, BeforeEvents, WhileSweeping, CompletedCounts,
                      SuccessRecorded, ValidUnderway, DependenciesFirst, NeverStalls
  <2> QED
    BY <2>2, <2>3, <2>4 DEF RunInvariant
<1> QED
  BY <1>6, <1>7

\* The four ways to carry out a side effect are steps of ActingInvariant.
LEMMA AdapterInvariant ==
  ASSUME RunInvariant, WriteFile \/ ReadFile \/ SpawnProcess \/ NoAdapter
  PROVE  RunInvariant'
<1>1. pc = "act" /\ action \in DOMAIN EffectsOf(contract, cursor)
  BY DEF WriteFile, ReadFile, SpawnProcess, NoAdapter, Acting
<1>2. cursor \in TaskIds(contract) /\ TypeOK
  BY <1>1 DEF RunInvariant, WhileActing
<1>3. TypeOK'
  BY <1>2, WriteFileType, ReadFileType, SpawnProcessType, NoAdapterType
<1>4. ActingUnchanged
  BY DEF WriteFile, ReadFile, SpawnProcess, NoAdapter
<1>5. ActionFailed \/ \E as : Succeeded(as)
  BY Zenon DEF WriteFile, ReadFile, SpawnProcess, NoAdapter
<1>6. UNCHANGED <<pc, status, ledger>> \/ FailTask(ledger, "adapter")
  BY <1>5 DEF ActionFailed, Succeeded
<1> QED
  BY <1>1, <1>3, <1>4, <1>6, ActingInvariant

\* A task whose side effects are all done succeeds.
LEMMA FinishActionsInvariant == RunInvariant /\ FinishActions => RunInvariant'
<1> SUFFICES ASSUME RunInvariant, FinishActions PROVE RunInvariant'
  OBVIOUS
<1>1. pc = "act" /\ cursor \in TaskIds(contract) /\ TypeOK
  BY DEF FinishActions, RunInvariant, WhileActing
<1>2. TypeOK'
  BY <1>1, FinishActionsType
<1>3. CompleteTask /\ UNCHANGED <<contract, revoked, progress, decisions, performed, outcome>>
  BY DEF FinishActions, launchVars, taskVars
<1> QED
  BY <1>1, <1>2, <1>3, CompleteTaskInvariant

\* A check task succeeds or fails.
LEMMA CheckInvariant == RunInvariant /\ Check => RunInvariant'
<1> SUFFICES ASSUME RunInvariant, Check PROVE RunInvariant'
  OBVIOUS
<1>1. /\ pc = "act" /\ cursor \in TaskIds(contract) /\ status[cursor] # "success" /\ TypeOK
      /\ ledger \in Seq(Events) /\ decisions \in Seq(Decisions)
  BY DEF Check, RunInvariant, WhileActing, TypeOK, RecordsTypeOK
<1>2. TypeOK'
  BY <1>1, CheckType
<1>3. UNCHANGED <<contract, revoked, progress, decisions, performed, outcome>>
  BY DEF Check, launchVars, taskVars
<1>4. CASE CheckPasses
  <2>1. CompleteTask
    BY <1>4 DEF Check
  <2> QED
    BY <1>1, <1>2, <1>3, <2>1, CompleteTaskInvariant
<1>5. CASE ~CheckPasses
  <2>1. FailTask(ledger, "execution") /\ UNCHANGED <<completed, cursor>>
    BY <1>5 DEF Check
  <2>2. Within(decisions, decisions') /\ Within(ledger, ledger)
    BY <1>1, <1>3 DEF Within
  <2>3. \A i \in DOMAIN ledger : ~(i > Len(ledger))
    BY <1>1
  <2>4. \A x \in performed' : x \in performed
    BY <1>3
  <2> QED
    BY <1>1, <1>2, <1>3, <2>1, <2>2, <2>3, <2>4, FailTaskInvariant
<1> QED
  BY <1>4, <1>5

\* run_finished concerns no task.
LEMMA FinishInvariant == RunInvariant /\ Finish => RunInvariant'
<1> SUFFICES ASSUME RunInvariant, Finish PROVE RunInvariant'
  OBVIOUS
<1>1. TypeOK' /\ ledger \in Seq(Events) /\ decisions \in Seq(Decisions)
  BY FinishType DEF RunInvariant, TypeOK, RecordsTypeOK
<1>2. /\ UNCHANGED <<contract, revoked, cursor, progress, completed, status, decisions,
                     performed, outcome>>
      /\ pc = "finish" /\ pc' = "publish"
      /\ ledger' = Emit(ledger, "run_finished", 0, failures = <<>>)
  BY DEF Finish, launchVars, sweepVars, taskVars
<1> DEFINE last == Event(ledger, "run_finished", 0, failures = <<>>)
<1>3. last.type = "run_finished"
  BY DEF Event
<1>4. ledger' = Append(ledger, last)
  BY <1>2 DEF Emit
<1> HIDE DEF last
<1>5. /\ Len(ledger') = Len(ledger) + 1
      /\ \A i \in 1..Len(ledger) : ledger'[i] = ledger[i]
      /\ ledger'[Len(ledger) + 1] = last
  BY <1>1, <1>4
<1>6. Within(ledger, ledger') /\ Within(decisions, decisions')
  BY <1>1, <1>2, <1>5 DEF Within
<1>7. DependenciesFirst'
  <2>1. \A i \in DOMAIN ledger' : i > Len(ledger) => ledger'[i] = last
    BY <1>1, <1>5
  <2>2. \A i \in DOMAIN ledger' : ~(i > Len(ledger) /\ ledger'[i].type = "task_started")
    BY <1>3, <2>1
  <2> QED
    BY <1>1, <1>2, <1>6, <2>2, OrderKept
<1>8. SuccessRecorded'
  BY <1>1, <1>2, <1>6, SuccessKept
<1>9. EffectsAuthorized'
  BY <1>1, <1>2, <1>6, AllowsKept DEF RunInvariant, EffectsAuthorized
<1>10. /\ BeforeEvents' /\ WhileActing' /\ WhileSweeping' /\ CompletedCounts'
       /\ ValidUnderway' /\ NeverStalls'
  BY <1>2 DEF RunInvariant, BeforeEvents, WhileActing, WhileSweeping, CompletedCounts,
              ValidUnderway, NeverStalls
<1> QED
  BY <1>1, <1>7, <1>8, <1>9, <1>10 DEF RunInvariant

\* Steps that record nothing.
LEMMA OtherStepsInvariant ==
  ASSUME RunInvariant, Snapshot \/ Close \/ Publish \/ IOError \/ Crash \/ Tick \/ Edit
  PROVE  RunInvariant'
<1> USE DEF launchVars, sweepVars, taskVars, recordVars
<1>1. TypeOK /\ outcome # "stalled"
  BY DEF RunInvariant, NeverStalls
<1>2. CASE Snapshot
  <2>1. /\ UNCHANGED <<contract, revoked, status, completed, cursor, progress,
                       ledger, decisions, performed>>
        /\ pc' \in {pc, "idle"} /\ pc # "idle" /\ outcome' \in {outcome, "unreadable"}
    BY <1>2 DEF Snapshot, Return
  <2> QED
    BY <1>1, <1>2, <2>1, SnapshotType, QuietStep
<1>3. CASE Close
  <2>1. /\ UNCHANGED <<contract, revoked, status, completed, cursor, progress,
                       ledger, decisions, performed>>
        /\ pc' \in {"finish", "idle"} /\ pc # "idle" /\ outcome' \in {outcome, "unsatisfied"}
    BY <1>3 DEF Close, Return
  <2> QED
    BY <1>1, <1>3, <2>1, CloseType, QuietStep
<1>4. CASE Publish
  <2>1. /\ UNCHANGED <<contract, revoked, status, completed, cursor, progress,
                       ledger, decisions, performed>>
        /\ pc' = "idle" /\ outcome' \in {"success", "failed"}
    BY <1>4 DEF Publish, Return, RunStatus
  <2> QED
    BY <1>1, <1>4, <2>1, PublishType, QuietStep
<1>5. CASE IOError \/ Crash
  <2>1. PICK how \in {"error", "crashed"} : Abort(how) /\ pc # "idle"
    BY <1>5 DEF IOError, Crash
  <2>2. /\ UNCHANGED <<contract, revoked, status, completed, cursor, progress,
                       ledger, decisions, performed>>
        /\ pc' = "idle" /\ outcome' \in {"error", "crashed"}
    BY <2>1 DEF Abort, Return
  <2>3. TypeOK'
    BY <1>1, <2>1, AbortType DEF Outcomes
  <2> QED
    BY <1>1, <2>2, <2>3, QuietStep
<1>6. CASE Tick \/ Edit
  <2>1. /\ UNCHANGED <<contract, revoked, status, completed, cursor, progress,
                       ledger, decisions, performed>>
        /\ pc' = pc /\ outcome' = outcome
    BY <1>6 DEF Tick, Edit, EnvUnchanged
  <2> QED
    BY <1>1, <1>6, <2>1, EnvironmentType, QuietStep
<1> QED
  BY <1>2, <1>3, <1>4, <1>5, <1>6

\* A step that changes nothing changes nothing of the invariant.
LEMMA StutterInvariant == RunInvariant /\ UNCHANGED vars => RunInvariant'
<1> SUFFICES ASSUME RunInvariant, UNCHANGED vars PROVE RunInvariant'
  OBVIOUS
<1>1. /\ UNCHANGED <<contract, revoked, allow, attempts>>
      /\ UNCHANGED <<cursor, progress, completed, status>>
      /\ UNCHANGED <<action, pending, performed>>
      /\ UNCHANGED <<ledger, decisions, artifacts, failures>>
      /\ UNCHANGED <<ledgerFile, packFile, snapFiles>>
      /\ UNCHANGED <<now, edited, snapshots, pc, outcome, workspace>>
  BY DEF vars, launchVars, sweepVars, taskVars, recordVars, dirVars, envVars
<1>2. TypeOK'
  BY <1>1 DEF RunInvariant, TypeOK, InputsTypeOK, ControlTypeOK, RecordsTypeOK, FilesTypeOK
<1> QED
  BY <1>1, <1>2, QuietStep DEF RunInvariant, NeverStalls

-----------------------------------------------------------------------------
(* Theorems. *)

\* RunInvariant is inductive, hence holds of every run: whatever contracts,
\* revocation lists and allowlists Execute is called with, however time passes,
\* files are edited, writes fail and the process dies (executor.go:22-214).
THEOREM RunInvariantHolds == Spec => []RunInvariant
<1>1. Init => RunInvariant
  BY InitInvariant
<1>2. RunInvariant /\ [Next]_vars => RunInvariant'
  <2> SUFFICES ASSUME RunInvariant, [Next]_vars PROVE RunInvariant'
    OBVIOUS
  <2>1. CASE Call
    BY <2>1, CallInvariant DEF Call
  <2>2. CASE OpenLedger
    BY <2>2, OpenLedgerInvariant
  <2>3. CASE PassOver
    BY <2>3, PassOverInvariant
  <2>4. CASE StartTask
    BY <2>4, StartTaskInvariant
  <2>5. CASE EndSweep
    BY <2>5, EndSweepInvariant
  <2>6. CASE WriteFile \/ ReadFile \/ SpawnProcess \/ NoAdapter
    BY <2>6, AdapterInvariant
  <2>7. CASE FinishActions
    BY <2>7, FinishActionsInvariant
  <2>8. CASE Check
    BY <2>8, CheckInvariant
  <2>9. CASE Finish
    BY <2>9, FinishInvariant
  <2>10. CASE Snapshot \/ Close \/ Publish \/ IOError \/ Crash \/ Tick \/ Edit
    BY <2>10, OtherStepsInvariant
  <2>11. CASE UNCHANGED vars
    BY <2>11, StutterInvariant
  <2> QED
    BY <2>1, <2>2, <2>3, <2>4, <2>5, <2>6, <2>7, <2>8, <2>9, <2>10, <2>11 DEF Next, Step
<1> QED
  BY <1>1, <1>2, PTL DEF Spec

\* Every variable keeps its type through every run (executor.go:22-214).
THEOREM TypeCorrect == Spec => []TypeOK
<1>1. RunInvariant => TypeOK
  BY DEF RunInvariant
<1> QED
  BY <1>1, RunInvariantHolds, PTL

\* No side effect is asked of the adapter without an allow decision that was
\* justified when it was taken and stands in the ledger (executor.go:111-133).
THEOREM EffectsAreAuthorized == Spec => []EffectsAuthorized
<1>1. RunInvariant => EffectsAuthorized
  BY DEF RunInvariant
<1> QED
  BY <1>1, RunInvariantHolds, PTL

\* No validated contract brings Execute to "task graph made no progress":
\* the acyclicity Validate checks is what the sweep needs (executor.go:159-161).
THEOREM RunNeverStalls == Spec => []NeverStalls
<1>1. RunInvariant => NeverStalls
  BY DEF RunInvariant
<1> QED
  BY <1>1, RunInvariantHolds, PTL

-----------------------------------------------------------------------------
(* The verdict of an evaluate task. *)

\* What a step adds to the ledger holds no success of a task.
AddsNoSuccess(l) ==
  /\ l \in Seq(Events) /\ Within(ledger, l)
  /\ \A i \in DOMAIN l : i > Len(ledger) => ~(l[i].type = "task_finished" /\ l[i].ok)

\* Successes stay in order when each new one is of a task that had not succeeded
\* and is asked for only when it may be.
LEMMA VerdictsKept ==
  ASSUME RunInvariant, EvaluatedAfterClaims, contract' = contract,
         ledger' \in Seq(Events), Within(ledger, ledger'),
         \A i \in DOMAIN ledger' :
           i > Len(ledger) /\ ledger'[i].type = "task_finished" /\ ledger'[i].ok =>
             /\ status[ledger'[i].task] # "success"
             /\ (Kind(contract, ledger'[i].task) = "evaluate" => RequiredSatisfied)
  PROVE  EvaluatedAfterClaims'
<1>1. ledger \in Seq(Events)
  BY DEF RunInvariant, TypeOK, RecordsTypeOK
<1>2. SUFFICES ASSUME NEW i \in DOMAIN ledger', ledger'[i].type = "task_finished", ledger'[i].ok,
                      Kind(contract, ledger'[i].task) = "evaluate", NEW o \in contract.required
               PROVE  \E j \in 1..(i - 1) :
                        /\ ledger'[j].type = "task_finished"
                        /\ ledger'[j].task \in Claimants(contract, o) \ {ledger'[i].task}
                        /\ ledger'[j].ok
  BY DEF EvaluatedAfterClaims
<1>3. CASE i <= Len(ledger)
  <2>1. i \in DOMAIN ledger /\ ledger'[i] = ledger[i]
    BY <1>1, <1>3 DEF Within
  <2>2. PICK j \in 1..(i - 1) : /\ ledger[j].type = "task_finished"
                                /\ ledger[j].task \in Claimants(contract, o) \ {ledger[i].task}
                                /\ ledger[j].ok
    BY <1>2, <2>1 DEF EvaluatedAfterClaims
  <2>3. ledger'[j] = ledger[j]
    BY <1>1, <1>3, <2>2 DEF Within
  <2> QED
    BY <2>1, <2>2, <2>3
<1>4. CASE i > Len(ledger)
  <2>1. status[ledger'[i].task] # "success" /\ RequiredSatisfied
    BY <1>2, <1>4
  <2>2. PICK t \in Claimants(contract, o) : status[t] = "success"
    BY <2>1 DEF RequiredSatisfied
  <2>3. t \in TaskIds(contract) /\ t # ledger'[i].task
    BY <2>1, <2>2 DEF Claimants
  <2>4. PICK j \in DOMAIN ledger : /\ ledger[j].type = "task_finished"
                                   /\ ledger[j].task = t
                                   /\ ledger[j].ok
    BY <2>2, <2>3 DEF RunInvariant, SuccessRecorded
  <2>5. ledger'[j] = ledger[j] /\ j \in 1..(i - 1)
    BY <1>1, <1>4, <2>4 DEF Within
  <2> QED
    BY <2>2, <2>3, <2>4, <2>5
<1> QED
  BY <1>1, <1>3, <1>4

\* A step that records no success.
LEMMA NoVerdict ==
  ASSUME RunInvariant, EvaluatedAfterClaims, contract' = contract, AddsNoSuccess(ledger')
  PROVE  EvaluatedAfterClaims'
<1>1. ledger' \in Seq(Events) /\ Within(ledger, ledger')
  BY DEF AddsNoSuccess
<1>2. \A i \in DOMAIN ledger' :
        ~(i > Len(ledger) /\ ledger'[i].type = "task_finished" /\ ledger'[i].ok)
  BY DEF AddsNoSuccess
<1> QED
  BY <1>1, <1>2, VerdictsKept

\* What was recorded before adds nothing.
LEMMA SameLedgerAdds == RunInvariant => AddsNoSuccess(ledger)
BY DEF RunInvariant, TypeOK, RecordsTypeOK, AddsNoSuccess, Within

\* One event that is no success adds none.
LEMMA EventAdds ==
  ASSUME RunInvariant, NEW l, AddsNoSuccess(l),
         NEW type \in EventTypes, NEW t \in Nat, NEW ok \in BOOLEAN,
         ~(type = "task_finished" /\ ok)
  PROVE  AddsNoSuccess(Emit(l, type, t, ok))
<1> DEFINE m == Emit(l, type, t, ok)
<1>1. /\ l \in Seq(Events) /\ Within(ledger, l) /\ ledger \in Seq(Events)
      /\ \A i \in DOMAIN l : i > Len(ledger) => ~(l[i].type = "task_finished" /\ l[i].ok)
  BY DEF AddsNoSuccess, RunInvariant, TypeOK, RecordsTypeOK
<1>2. /\ m \in Seq(Events) /\ Len(m) = Len(l) + 1
      /\ \A i \in 1..Len(l) : m[i] = l[i]
      /\ m[Len(l) + 1] = Event(l, type, t, ok)
  BY <1>1, EmitType
<1>3. Event(l, type, t, ok).type = type /\ Event(l, type, t, ok).ok = ok
  BY DEF Event
<1> HIDE DEF m
<1>4. Within(ledger, m)
  <2>1. Within(l, m)
    BY <1>1, <1>2 DEF Within
  <2> QED
    BY <1>1, <1>2, <2>1, WithinTransitive
<1>5. ASSUME NEW i \in DOMAIN m, i > Len(ledger) PROVE ~(m[i].type = "task_finished" /\ m[i].ok)
  <2>1. i \in 1..(Len(l) + 1) /\ Len(l) \in Nat
    BY <1>1, <1>2
  <2>2. CASE i = Len(l) + 1
    BY <1>2, <1>3, <2>2
  <2>3. CASE i # Len(l) + 1
    <3>1. i \in DOMAIN l /\ m[i] = l[i]
      BY <1>1, <1>2, <2>1, <2>3
    <3> QED
      BY <1>1, <1>5, <3>1
  <2> QED
    BY <2>2, <2>3
<1>6. AddsNoSuccess(m)
  BY <1>2, <1>4, <1>5 DEF AddsNoSuccess
<1> QED
  BY <1>6 DEF m

\* Nor do the decisions of a task.
LEMMA DecisionsAdd ==
  ASSUME RunInvariant, NEW l, AddsNoSuccess(l), NEW ds \in Seq(Decisions)
  PROVE  AddsNoSuccess(EmitDecisions(l, ds))
<1> DEFINE m == EmitDecisions(l, ds)
<1>1. /\ l \in Seq(Events) /\ Within(ledger, l) /\ ledger \in Seq(Events)
      /\ \A i \in DOMAIN l : i > Len(ledger) => ~(l[i].type = "task_finished" /\ l[i].ok)
      /\ Len(ds) \in Nat
  BY DEF AddsNoSuccess, RunInvariant, TypeOK, RecordsTypeOK
<1>2. /\ m \in Seq(Events) /\ Len(m) = Len(l) + Len(ds)
      /\ \A i \in 1..Len(l) : m[i] = l[i]
      /\ \A i \in 1..Len(ds) : m[Len(l) + i].type = "policy_decided"
  BY <1>1, EmitDecisionsType
<1> HIDE DEF m
<1>3. Within(ledger, m)
  <2>1. Within(l, m)
    BY <1>1, <1>2 DEF Within
  <2> QED
    BY <1>1, <1>2, <2>1, WithinTransitive
<1>4. ASSUME NEW i \in DOMAIN m, i > Len(ledger) PROVE ~(m[i].type = "task_finished" /\ m[i].ok)
  <2>1. i \in 1..(Len(l) + Len(ds)) /\ Len(l) \in Nat
    BY <1>1, <1>2
  <2>2. CASE i > Len(l)
    <3>1. i - Len(l) \in 1..Len(ds) /\ Len(l) + (i - Len(l)) = i
      BY <1>1, <2>1, <2>2
    <3>2. m[i].type = "policy_decided"
      BY <1>2, <3>1
    <3> QED
      BY <3>2
  <2>3. CASE i <= Len(l)
    <3>1. i \in DOMAIN l /\ m[i] = l[i]
      BY <1>1, <1>2, <2>1, <2>3
    <3> QED
      BY <1>1, <1>4, <3>1
  <2> QED
    BY <2>1, <2>2, <2>3
<1>5. AddsNoSuccess(m)
  BY <1>2, <1>3, <1>4 DEF AddsNoSuccess
<1> QED
  BY <1>5 DEF m

\* A task that fails records no success.
LEMMA FailureAdds ==
  ASSUME RunInvariant, EvaluatedAfterClaims, contract' = contract, cursor \in TaskIds(contract),
         NEW l, AddsNoSuccess(l), NEW phase, FailTask(l, phase)
  PROVE  EvaluatedAfterClaims'
<1>1. ledger' = Emit(l, "task_finished", cursor, FALSE)
  BY DEF FailTask
<1>2. cursor \in Nat /\ "task_finished" \in EventTypes
  BY DEF RunInvariant, TypeOK, ControlTypeOK, EventTypes
<1>3. AddsNoSuccess(ledger')
  BY <1>1, <1>2, EventAdds
<1> QED
  BY <1>3, NoVerdict

\* The task that succeeds is recorded; when it judges, it may.
LEMMA CompleteTaskVerdict ==
  ASSUME RunInvariant, EvaluatedAfterClaims, pc = "act", CompleteTask, contract' = contract,
         Kind(contract, cursor) = "evaluate" => RequiredSatisfied
  PROVE  EvaluatedAfterClaims'
<1>1. /\ ledger \in Seq(Events) /\ pending \in Seq(Artifacts) /\ cursor \in Nat
      /\ Len(ledger) \in Nat /\ Len(pending) \in Nat
      /\ cursor \in TaskIds(contract) /\ status[cursor] # "success"
  BY DEF RunInvariant, TypeOK, RecordsTypeOK, ControlTypeOK, WhileActing
<1> DEFINE recorded == EmitArtifacts(ledger, cursor, pending)
           last == [Event(recorded, "task_finished", cursor, TRUE) EXCEPT
                      !.artifacts = {pending[i].id : i \in DOMAIN pending}]
<1>2. /\ recorded \in Seq(Events) /\ Len(recorded) = Len(ledger) + Len(pending)
      /\ \A i \in 1..Len(ledger) : recorded[i] = ledger[i]
      /\ \A i \in 1..Len(pending) : recorded[Len(ledger) + i].type = "artifact_recorded"
  BY <1>1, EmitArtifactsType
<1>3. last.type = "task_finished" /\ last.task = cursor /\ last.ok
  BY Zenon DEF Event
<1>4. ledger' = Append(recorded, last)
  BY DEF CompleteTask
<1> HIDE DEF recorded, last
<1>5. /\ Len(ledger') = Len(recorded) + 1 /\ DOMAIN ledger' = 1..(Len(recorded) + 1)
      /\ \A i \in 1..Len(recorded) : ledger'[i] = recorded[i]
      /\ ledger'[Len(recorded) + 1] = last
  BY <1>2, <1>4
<1>6. Within(ledger, ledger')
  BY <1>1, <1>2, <1>5 DEF Within
<1>7. ASSUME NEW i \in DOMAIN ledger', i > Len(ledger), ledger'[i].type = "task_finished"
      PROVE  ledger'[i].task = cursor
  <2>1. i \in 1..(Len(recorded) + 1) /\ Len(recorded) = Len(ledger) + Len(pending)
    BY <1>2, <1>5
  <2>2. CASE i = Len(recorded) + 1
    BY <1>3, <1>5, <2>2
  <2>3. CASE i # Len(recorded) + 1
    <3>1. i \in 1..Len(recorded)
      BY <1>1, <2>1, <2>3
    <3> DEFINE k == i - Len(ledger)
    <3>2. k \in 1..Len(pending) /\ Len(ledger) + k = i
      BY <1>1, <1>7, <2>1, <3>1
    <3>3. ledger'[i] = recorded[i] /\ recorded[i].type = "artifact_recorded"
      BY <1>2, <1>5, <3>1, <3>2
    <3>4. ledger'[i].type # "task_finished"
      BY <3>3
    <3> QED
      BY <1>7, <3>4
  <2> QED
    BY <2>2, <2>3
<1>8. ledger' \in Seq(Events)
  BY <1>1, CompleteTaskType DEF RunInvariant
<1> QED
  BY <1>1, <1>6, <1>7, <1>8, VerdictsKept

\* No step but a new call takes an evaluate task's success from behind what it judged.
LEMMA VerdictsInOrder ==
  RunInvariant /\ EvaluatedAfterClaims /\ [Next]_vars => EvaluatedAfterClaims'
<1> SUFFICES ASSUME RunInvariant, EvaluatedAfterClaims, [Next]_vars PROVE EvaluatedAfterClaims'
  OBVIOUS
<1> USE DEF launchVars, sweepVars, taskVars, recordVars
<1>1. CASE Call
  <2>1. PICK l \in Launches : Arguments(l)
    BY <1>1 DEF Call, Refuse, Launch
  <2>2. DOMAIN ledger' = {}
    BY <2>1 DEF Arguments
  <2> QED
    BY <2>2 DEF EvaluatedAfterClaims
<1>2. ASSUME contract' = contract, ledger' = ledger PROVE EvaluatedAfterClaims'
  BY <1>2 DEF EvaluatedAfterClaims
<1>3. CASE OpenLedger \/ Finish
  <2>1. ledger = <<>> \/ Finish
    BY <1>3 DEF OpenLedger, RunInvariant, BeforeEvents
  <2>2. /\ contract' = contract
        /\ \E type \in {"run_started", "run_finished"}, ok \in BOOLEAN :
             ledger' = Emit(ledger, type, 0, ok)
    BY <1>3, <2>1, Zenon DEF OpenLedger, Finish
  <2>3. AddsNoSuccess(ledger')
    BY <2>2, SameLedgerAdds, EventAdds DEF EventTypes
  <2> QED
    BY <2>2, <2>3, NoVerdict
<1>4. CASE Snapshot \/ PassOver \/ EndSweep \/ Close \/ Publish
  BY <1>2, <1>4 DEF Snapshot, PassOver, EndSweep, Close, Publish
<1>5. CASE StartTask
  <2> DEFINE ds      == EvaluateTask(contract, cursor, now, revoked)
             started == Emit(ledger, "task_started", cursor, TRUE)
  <2>1. /\ contract \in Contracts /\ cursor \in TaskIds(contract) /\ cursor \in Nat /\ now \in Nat
        /\ contract' = contract
    BY <1>5 DEF RunInvariant, TypeOK, InputsTypeOK, ControlTypeOK, StartTask
  <2>2. ds \in Seq(Decisions)
    BY <2>1, EvaluateTaskType
  <2>3. AddsNoSuccess(started)
    BY <2>1, SameLedgerAdds, EventAdds DEF EventTypes
  <2>4. AddsNoSuccess(EmitDecisions(started, ds))
    BY <2>2, <2>3, DecisionsAdd
  <2>5. FailTask(EmitDecisions(started, ds), "policy") \/ ledger' = EmitDecisions(started, ds)
    BY <1>5 DEF StartTask
  <2> QED
    BY <2>1, <2>4, <2>5, FailureAdds, NoVerdict
<1>6. ASSUME NEW phase, FailTask(ledger, phase), contract' = contract, pc = "act"
      PROVE  EvaluatedAfterClaims'
  BY <1>6, SameLedgerAdds, FailureAdds DEF RunInvariant, WhileActing
<1>7. CASE WriteFile \/ ReadFile \/ SpawnProcess \/ NoAdapter
  <2>1. contract' = contract /\ pc = "act"
    BY <1>7 DEF WriteFile, ReadFile, SpawnProcess, NoAdapter, Acting, ActingUnchanged
  <2>2. ActionFailed \/ \E as : Succeeded(as)
    BY <1>7, Zenon DEF WriteFile, ReadFile, SpawnProcess, NoAdapter
  <2>3. ledger' = ledger \/ FailTask(ledger, "adapter")
    BY <2>2 DEF ActionFailed, Succeeded
  <2> QED
    BY <1>2, <1>6, <2>1, <2>3
<1>8. CASE FinishActions
  <2>1. /\ CompleteTask /\ pc = "act" /\ contract' = contract
        /\ Kind(contract, cursor) # "evaluate"
    BY <1>8 DEF FinishActions, AdapterKinds
  <2> QED
    BY <2>1, CompleteTaskVerdict
<1>9. CASE Check
  <2>1. contract' = contract /\ pc = "act"
    BY <1>9 DEF Check
  <2>2. CASE CheckPasses
    <3>1. Kind(contract, cursor) = "evaluate" => RequiredSatisfied
      BY <2>2 DEF CheckPasses
    <3>2. CompleteTask
      BY <1>9, <2>2 DEF Check
    <3> QED
      BY <2>1, <3>1, <3>2, CompleteTaskVerdict
  <2>3. CASE ~CheckPasses
    BY <1>6, <1>9, <2>1, <2>3 DEF Check
  <2> QED
    BY <2>2, <2>3
<1>10. CASE IOError \/ Crash
  BY <1>2, <1>10 DEF IOError, Crash, Abort
<1>11. CASE Tick \/ Edit
  BY <1>2, <1>11 DEF Tick, Edit, EnvUnchanged
<1>12. CASE UNCHANGED vars
  BY <1>2, <1>12 DEF vars
<1> QED
  BY <1>1, <1>3, <1>4, <1>5, <1>7, <1>8, <1>9, <1>10, <1>11, <1>12 DEF Next, Step

\* In the ledger a task's start follows the successful finish of every task it
\* depends on, and an evaluate task's success that of another task for every
\* required obligation (executor.go:96-107, 311-313, 450-468).
THEOREM TasksComeInOrder == Spec => []TasksInOrder
<1>1. Init => EvaluatedAfterClaims
  BY DEF Init, EvaluatedAfterClaims
<1>2. RunInvariant => DependenciesFirst
  BY DEF RunInvariant
<1>3. Spec => [](RunInvariant /\ EvaluatedAfterClaims)
  BY <1>1, RunInvariantHolds, VerdictsInOrder, PTL DEF Spec
<1>4. RunInvariant /\ EvaluatedAfterClaims => TasksInOrder
  BY <1>2 DEF TasksInOrder
<1> QED
  BY <1>3, <1>4, PTL

-----------------------------------------------------------------------------
(* After a failure. *)

\* A task that failed leaves only the end of the run to come.
FailureEnds == RunFailed => pc \in {"finish", "publish", "idle"}

\* No step but a new call leads back from a failure.
LEMMA FailureEndsKept == TypeOK /\ FailureEnds /\ [Next]_vars => FailureEnds'
<1> SUFFICES ASSUME TypeOK, FailureEnds, [Next]_vars PROVE FailureEnds'
  OBVIOUS
<1> USE DEF launchVars, sweepVars, taskVars
<1>1. status \in [TaskIds(contract) -> TaskStatuses]
  BY DEF TypeOK, ControlTypeOK
<1>2. ASSUME NEW l, FailTask(l, "policy") \/ FailTask(l, "adapter") \/ FailTask(l, "execution")
      PROVE  FailureEnds'
  BY <1>2 DEF FailTask, FailureEnds
<1>3. CASE Call
  <2>1. PICK l \in Launches : Arguments(l)
    BY <1>3 DEF Call, Refuse, Launch
  <2>2. ~RunFailed'
    BY <2>1 DEF Arguments, RunFailed
  <2> QED
    BY <2>2 DEF FailureEnds
<1>4. CASE CompleteTask /\ contract' = contract /\ pc = "act"
  <2>1. status' = [status EXCEPT ![cursor] = "success"]
    BY <1>4 DEF CompleteTask
  <2>2. ~RunFailed
    BY <1>4 DEF FailureEnds
  <2> QED
    BY <1>1, <1>4, <2>1, <2>2 DEF RunFailed, FailureEnds
<1>5. ASSUME contract' = contract, status' = status,
             pc' = pc \/ pc' \in {"finish", "publish", "idle"} \/ pc \notin {"finish", "publish", "idle"}
      PROVE  FailureEnds'
  BY <1>5 DEF FailureEnds, RunFailed
<1>6. CASE Snapshot \/ OpenLedger \/ PassOver \/ EndSweep \/ Close \/ Finish \/ Publish
  BY <1>5, <1>6 DEF Snapshot, OpenLedger, PassOver, EndSweep, Close, Finish, Publish, Return
<1>7. CASE StartTask
  BY <1>2, <1>5, <1>7 DEF StartTask
<1>8. CASE WriteFile \/ ReadFile \/ SpawnProcess \/ NoAdapter
  <2>1. contract' = contract
    BY <1>8 DEF WriteFile, ReadFile, SpawnProcess, NoAdapter, ActingUnchanged
  <2>2. ActionFailed \/ \E as : Succeeded(as)
    BY <1>8, Zenon DEF WriteFile, ReadFile, SpawnProcess, NoAdapter
  <2> QED
    BY <1>2, <1>5, <2>1, <2>2 DEF ActionFailed, Succeeded
<1>9. CASE FinishActions
  BY <1>4, <1>9 DEF FinishActions
<1>10. CASE Check
  BY <1>2, <1>4, <1>10 DEF Check
<1>11. CASE IOError \/ Crash
  BY <1>5, <1>11 DEF IOError, Crash, Abort, Return
<1>12. CASE Tick \/ Edit
  BY <1>5, <1>12 DEF Tick, Edit, EnvUnchanged
<1>13. CASE UNCHANGED vars
  BY <1>5, <1>13 DEF vars
<1> QED
  BY <1>3, <1>6, <1>7, <1>8, <1>9, <1>10, <1>11, <1>12, <1>13 DEF Next, Step

\* Once a task of a run has failed the adapter is not called again in it
\* (executor.go:96-167).
THEOREM NothingIsDoneAfterFailure == Spec => NothingAfterFailure
<1>1. Init => FailureEnds
  BY DEF Init, FailureEnds, RunFailed
<1>2. Spec => []FailureEnds
  BY <1>1, FailureEndsKept, TypeCorrect, PTL DEF Spec
<1>3. TypeOK /\ FailureEnds /\ [Next]_vars =>
        [RunFailed /\ contract' = contract /\ attempts' = attempts => performed' = performed]_vars
  <2> SUFFICES ASSUME TypeOK, FailureEnds, Next, RunFailed, attempts' = attempts
               PROVE  performed' = performed
    OBVIOUS
  <2> USE DEF launchVars, sweepVars, taskVars
  <2>1. pc \in {"finish", "publish", "idle"}
    BY DEF FailureEnds
  <2>2. CASE Call
    <3>1. attempts' = attempts + 1 /\ attempts \in Nat
      BY <2>2, BoundsAssumption DEF Call, Refuse, Launch, Arguments, TypeOK, ControlTypeOK
    <3> QED
      BY <3>1
  <2>3. CASE Step
    <3>1. Finish \/ Publish
      BY <2>1, <2>3 DEF Step, Snapshot, OpenLedger, PassOver, StartTask, EndSweep, WriteFile, ReadFile,
                       SpawnProcess, NoAdapter, Acting, FinishActions, Check, Close
    <3> QED
      BY <3>1 DEF Finish, Publish
  <2>4. CASE IOError \/ Crash \/ Tick \/ Edit
    BY <2>4 DEF IOError, Crash, Abort, Tick, Edit, EnvUnchanged
  <2> QED
    BY <2>2, <2>3, <2>4 DEF Next
<1> QED
  BY <1>2, <1>3, TypeCorrect, PTL DEF Spec, NothingAfterFailure
-----------------------------------------------------------------------------
(* What Execute is to the world. *)

Done == {t \in TaskIds(contract) : status[t] = "success"}

Verdict == IF Delivered THEN packFile.closure.status ELSE "none"

-----------------------------------------------------------------------------
(* The steps of the governed run, said of Execute. *)

\* The initial states map to initial states.
LEMMA InitMaps == Init => Gov!GovInit
<1> SUFFICES ASSUME Init PROVE Gov!GovInit
  OBVIOUS
<1>1. PICK l \in Launches : contract = l.contract
  BY DEF Init
<1>2. pc = "idle" /\ ~Delivered /\ GrantedTasks = {} /\ performed = {}
  BY DEF Init, Delivered, GrantedTasks
<1>3. {t \in TaskIds(contract) : status[t] = "success"} = {}
  BY DEF Init
<1> QED
  BY <1>1, <1>2, <1>3 DEF Gov!GovInit, Gov!TaskIds, TaskIds

\* What changes none of the six mapped values is a stutter.
LEMMA StutterMaps ==
  ASSUME UNCHANGED <<contract, performed>>, GrantedTasks' = GrantedTasks, Done' = Done,
         (pc = "idle") <=> (pc' = "idle"), Verdict' = Verdict
  PROVE  UNCHANGED Gov!govVars
  BY DEF Gov!govVars, Done, Verdict, Gov!TaskIds, TaskIds

\* A call, refused or not, begins.
LEMMA BeginMaps ==
  ASSUME pc = "idle", contract' \in {l.contract : l \in Launches}, GrantedTasks' = {},
         performed' = {}, Done' = {}, Verdict' = "none"
  PROVE  Gov!Begin
  BY DEF Gov!Begin, Done, Verdict

\* What adds a task to the granted ones is its grant.
LEMMA GrantMaps ==
  ASSUME pc # "idle", pc' # "idle", UNCHANGED <<contract, performed>>, Done' = Done,
         Verdict' = Verdict, NEW t, t \notin GrantedTasks, Deps(contract, t) \subseteq Done,
         GrantedTasks \subseteq Done, GrantedTasks' = GrantedTasks \cup {t}
  PROVE  Gov!Grant(t)
  BY DEF Gov!Grant, Gov!Deps, Deps, Done, Verdict

\* What adds a side effect to those performed carries it out.
LEMMA CarryOutMaps ==
  ASSUME pc # "idle", pc' # "idle", contract' = contract, Done' = Done, Verdict' = Verdict,
         GrantedTasks' = GrantedTasks, NEW t \in GrantedTasks \ Done, NEW n,
         performed' = performed \cup {<<t, n>>}
  PROVE  Gov!CarryOut(t, n)
  BY DEF Gov!CarryOut, Done, Verdict

\* What adds a task to those done is its success.
LEMMA SucceedMaps ==
  ASSUME pc # "idle", pc' # "idle", UNCHANGED <<contract, performed>>, Verdict' = Verdict,
         GrantedTasks' = GrantedTasks, NEW t \in GrantedTasks \ Done, Done' = Done \cup {t},
         Kind(contract, t) \in AdapterKinds =>
           \A n \in DOMAIN EffectsOf(contract, t) : <<t, n>> \in performed
  PROVE  Gov!Succeed(t)
  BY DEF Gov!Succeed, Gov!Kind, Gov!AdapterKinds, Gov!EffectsOf, Kind, AdapterKinds, EffectsOf,
         Done, Verdict

\* A return with the verdict of the abstract run delivers.
LEMMA DeliverMaps ==
  ASSUME pc # "idle", pc' = "idle", UNCHANGED <<contract, performed>>, Done' = Done,
         GrantedTasks' = GrantedTasks,
         Verdict' = IF /\ Done = TaskIds(contract)
                       /\ \A o \in contract.required : Claimants(contract, o) # {}
                    THEN "accepted" ELSE "rejected"
  PROVE  Gov!Deliver
  BY DEF Gov!Deliver, Gov!TaskIds, Gov!Claimants, TaskIds, Claimants, Done, Verdict

\* A return that leaves the verdict alone gives up.
LEMMA GiveUpMaps ==
  ASSUME pc # "idle", pc' = "idle", UNCHANGED <<contract, performed>>, Done' = Done,
         GrantedTasks' = GrantedTasks, Verdict' = Verdict
  PROVE  Gov!GiveUp
  BY DEF Gov!GiveUp, Done, Verdict

-----------------------------------------------------------------------------
(* What relates the ledger, the status of the tasks and the side effects. *)

Begun(t) == \E i \in DOMAIN ledger : ledger[i].type = "task_started" /\ ledger[i].task = t

DecidedOn(t) == {i \in DOMAIN ledger : ledger[i].type = "policy_decided" /\ ledger[i].task = t}

Granted(t) == Begun(t) /\ \A i \in DecidedOn(t) : ledger[i].ok

\* Until a task fails, what was begun was granted, and has succeeded or is under way.
GrantsInOrder ==
  pc \in {"snapshot", "sweep", "act"} =>
    \A t \in TaskIds(contract) :
      IF status[t] = "success" \/ (pc = "act" /\ t = cursor)
      THEN Granted(t)
      ELSE ~Begun(t) /\ DecidedOn(t) = {}

\* The adapter takes the side effects of a task one after the other.
ActedInOrder ==
  pc = "act" => \A n \in 1..(action - 1) : <<cursor, n>> \in performed

\* A failure is on record if and only if a task has not succeeded at the end.
FailuresTell ==
  /\ pc \in {"snapshot", "sweep", "act"} => failures = <<>>
  /\ pc \in {"close", "finish", "publish"} => (failures = <<>> <=> Done = TaskIds(contract))

Progress == GrantsInOrder /\ ActedInOrder /\ FailuresTell

\* The granted tasks, in the terms of Begun and DecidedOn.
LEMMA GrantedIsBegun ==
  /\ GrantedTasks = {t \in TaskIds(contract) : Granted(t)}
  /\ GrantedTasks' = {t \in TaskIds(contract') : Granted(t)'}
  BY DEF GrantedTasks, Granted, Begun, DecidedOn

\* Events of another kind or task change nothing of what was begun and decided.
LEMMA OtherEvents ==
  ASSUME ledger \in Seq(Events), ledger' \in Seq(Events), Len(ledger) <= Len(ledger'),
         \A i \in 1..Len(ledger) : ledger'[i] = ledger[i], NEW t,
         \A i \in 1..Len(ledger') : i > Len(ledger) =>
           ledger'[i].task # t \/ ledger'[i].type \notin {"task_started", "policy_decided"}
  PROVE  /\ Begun(t)' <=> Begun(t)
         /\ DecidedOn(t)' = DecidedOn(t)
         /\ \A i \in DecidedOn(t) : ledger'[i] = ledger[i]
<1>1. /\ DOMAIN ledger = 1..Len(ledger) /\ DOMAIN ledger' = 1..Len(ledger')
      /\ Len(ledger) \in Nat /\ Len(ledger') \in Nat
  OBVIOUS
<1>2. \A i \in DOMAIN ledger : i \in DOMAIN ledger' /\ ledger'[i] = ledger[i]
  BY <1>1
<1>3. \A i \in DOMAIN ledger' : i \in DOMAIN ledger \/ (ledger'[i].task # t \/ ledger'[i].type \notin {"task_started", "policy_decided"})
  BY <1>1
<1> QED
  BY <1>2, <1>3 DEF Begun, DecidedOn

-----------------------------------------------------------------------------
(* Steps that write nothing into the ledger. *)

\* The mapped sets depend on the contract, the statuses and the ledger.
LEMMA SameMaps ==
  ASSUME UNCHANGED <<contract, status, ledger>>
  PROVE  GrantedTasks' = GrantedTasks /\ Done' = Done
  BY DEF GrantedTasks, Done

\* There is no verdict while Execute runs, nor after it gave up.
LEMMA NoVerdictUnderway ==
  /\ pc # "idle" => Verdict = "none"
  /\ outcome \notin {"success", "failed"} => Verdict = "none"
  BY DEF Verdict, Delivered

\* Progress does not see the steps that record nothing.
LEMMA QuietKeepsProgress ==
  ASSUME Progress, UNCHANGED <<contract, status, ledger, performed, failures>>,
         \/ pc' = pc /\ (pc = "act" => cursor' = cursor /\ action' = action)
         \/ pc' = "idle"
         \/ pc = "close" /\ pc' = "finish"
         \/ pc = "sweep" /\ pc' = "close" /\ Done = TaskIds(contract)
  PROVE  Progress'
<1>1. \A t : (Begun(t)' <=> Begun(t)) /\ DecidedOn(t)' = DecidedOn(t)
  BY DEF Begun, DecidedOn
<1>2. GrantsInOrder'
  BY <1>1 DEF Progress, GrantsInOrder, Granted
<1>3. ActedInOrder'
  BY DEF Progress, ActedInOrder
<1>4. FailuresTell'
  BY SameMaps DEF Progress, FailuresTell
<1> QED
  BY <1>2, <1>3, <1>4 DEF Progress

\* Steps that record nothing stutter or give up.
LEMMA QuietStepMaps ==
  ASSUME UNCHANGED <<contract, status, ledger, performed>>,
         \/ pc # "idle" /\ pc' # "idle"
         \/ pc # "idle" /\ pc' = "idle" /\ outcome' \notin {"success", "failed"}
         \/ pc = "idle" /\ pc' = "idle" /\ UNCHANGED <<outcome, packFile>>
  PROVE  Gov!GiveUp \/ UNCHANGED Gov!govVars
<1>1. GrantedTasks' = GrantedTasks /\ Done' = Done
  BY SameMaps
<1>2. CASE pc # "idle" /\ pc' # "idle"
  <2>1. Verdict' = Verdict
    BY <1>2, NoVerdictUnderway DEF Verdict, Delivered
  <2> QED
    BY <1>1, <1>2, <2>1, StutterMaps
<1>3. CASE pc # "idle" /\ pc' = "idle" /\ outcome' \notin {"success", "failed"}
  <2>1. Verdict' = Verdict
    BY <1>3 DEF Verdict, Delivered
  <2> QED
    BY <1>1, <1>3, <2>1, GiveUpMaps
<1>4. CASE pc = "idle" /\ pc' = "idle" /\ UNCHANGED <<outcome, packFile>>
  <2>1. Verdict' = Verdict
    BY <1>4 DEF Verdict, Delivered
  <2> QED
    BY <1>1, <1>4, <2>1, StutterMaps
<1> QED
  BY <1>2, <1>3, <1>4

\* When as many tasks have succeeded as there are, all have.
LEMMA AllSucceeded ==
  ASSUME RunInvariant, completed = Len(contract.tasks)
  PROVE  Done = TaskIds(contract)
<1>1. TaskIds(contract) = 1..Len(contract.tasks) /\ Len(contract.tasks) \in Nat
  BY TaskIdsInterval DEF RunInvariant, TypeOK, InputsTypeOK
<1>2. IsFiniteSet(1..Len(contract.tasks)) /\ Cardinality(1..Len(contract.tasks)) = Len(contract.tasks)
  BY <1>1, FS_Interval
<1>3. Done \subseteq 1..Len(contract.tasks)
  BY <1>1 DEF Done
<1>4. Cardinality(Done) = Len(contract.tasks)
  BY DEF RunInvariant, CompletedCounts, Done
<1> QED
  BY <1>1, <1>2, <1>3, <1>4, FS_Subset

Maps == Gov!GovNext \/ UNCHANGED Gov!govVars

\* The steps that record nothing, one by one.
LEMMA QuietSteps ==
  ASSUME RunInvariant, Progress,
         \/ Snapshot \/ PassOver \/ EndSweep \/ Close \/ IOError \/ Crash \/ Tick \/ Edit
         \/ UNCHANGED vars
  PROVE  Progress' /\ Maps
<1> USE DEF launchVars, sweepVars, taskVars, recordVars, dirVars
<1>1. SUFFICES /\ UNCHANGED <<contract, status, ledger, performed, failures>>
               /\ \/ pc' = pc /\ (pc = "act" => cursor' = cursor /\ action' = action)
                  \/ pc' = "idle"
                  \/ pc = "close" /\ pc' = "finish"
                  \/ pc = "sweep" /\ pc' = "close" /\ Done = TaskIds(contract)
               /\ \/ pc # "idle" /\ pc' # "idle"
                  \/ pc # "idle" /\ pc' = "idle" /\ outcome' \notin {"success", "failed"}
                  \/ pc = "idle" /\ pc' = "idle" /\ UNCHANGED <<outcome, packFile>>
  BY QuietKeepsProgress, QuietStepMaps DEF Maps, Gov!GovNext
<1>2. CASE Snapshot
  BY <1>2 DEF Snapshot, Return
<1>3. CASE PassOver
  BY <1>3 DEF PassOver
<1>4. CASE EndSweep
  BY <1>4, AllSucceeded DEF EndSweep, Return
<1>5. CASE Close
  BY <1>5 DEF Close, Return
<1>6. CASE IOError \/ Crash
  BY <1>6 DEF IOError, Crash, Abort, Return
<1>7. CASE Tick \/ Edit
  BY <1>7 DEF Tick, Edit, EnvUnchanged
<1>8. CASE UNCHANGED vars
  BY <1>8 DEF vars
<1> QED
  BY <1>2, <1>3, <1>4, <1>5, <1>6, <1>7, <1>8

-----------------------------------------------------------------------------
(* The other steps. *)

\* A call begins a governed run.
LEMMA CallStep ==
  ASSUME Call PROVE Progress' /\ Maps
<1>1. PICK l \in Launches : /\ Arguments(l) /\ pc' \in {"idle", "snapshot"}
                            /\ outcome' \in {"refused", "unreadable", "running"}
  BY DEF Call, Refuse, Launch
<1>2. /\ pc = "idle" /\ contract' = l.contract /\ performed' = {} /\ ledger' = <<>> /\ failures' = <<>>
      /\ status' = [t \in TaskIds(l.contract) |-> "pending"]
  BY <1>1 DEF Arguments
<1>3. GrantedTasks' = {} /\ Done' = {} /\ Verdict' = "none"
  BY <1>1, <1>2, NoVerdictUnderway DEF GrantedTasks, Done, Verdict, Delivered
<1>4. Gov!Begin
  BY <1>2, <1>3, BeginMaps
<1>5. \A t : ~Begun(t)' /\ DecidedOn(t)' = {}
  BY <1>2 DEF Begun, DecidedOn
<1>6. Progress'
  BY <1>1, <1>2, <1>5 DEF Progress, GrantsInOrder, ActedInOrder, FailuresTell, Granted
<1> QED
  BY <1>4, <1>6 DEF Maps, Gov!GovNext

\* run_started grants nothing.
LEMMA OpenLedgerStep ==
  ASSUME RunInvariant, Progress, OpenLedger PROVE Progress' /\ Maps
<1>1. /\ UNCHANGED <<contract, status, performed, failures>> /\ pc = "snapshot" /\ pc' = "sweep"
      /\ ledger' = <<Event(<<>>, "run_started", 0, TRUE)>> /\ ledger = <<>>
      /\ \A t \in TaskIds(contract) : status[t] # "success"
  BY DEF OpenLedger, Emit, launchVars, sweepVars, taskVars, RunInvariant, BeforeEvents
<1>2. \A t : /\ ~Begun(t) /\ ~Begun(t)' /\ DecidedOn(t)' = {}
  BY <1>1 DEF Begun, DecidedOn, Event
<1>3. GrantedTasks = {} /\ GrantedTasks' = {} /\ Done' = Done
  BY <1>1, <1>2, GrantedIsBegun DEF Done, Granted
<1>4. UNCHANGED Gov!govVars
  <2>1. Verdict = "none" /\ Verdict' = "none"
    BY <1>1, NoVerdictUnderway DEF Verdict, Delivered
  <2> QED
    BY <1>1, <1>3, <2>1, StutterMaps
<1>5. Progress'
  BY <1>1, <1>2, <1>3 DEF Progress, GrantsInOrder, ActedInOrder, FailuresTell
<1> QED
  BY <1>4, <1>5 DEF Maps

\* A task that fails takes nothing from what was done, and is on record.
LEMMA FailTaskProgress ==
  ASSUME RunInvariant, Progress, NEW l, NEW phase, FailTask(l, phase), contract' = contract,
         cursor \in TaskIds(contract), status[cursor] # "success"
  PROVE  Progress' /\ Done' = Done /\ pc' = "finish"
<1>1. status \in [TaskIds(contract) -> TaskStatuses] /\ failures \in Seq(Failures)
  BY DEF RunInvariant, TypeOK, ControlTypeOK, RecordsTypeOK
<1>2. /\ status' = [status EXCEPT ![cursor] = "failed"] /\ pc' = "finish"
      /\ failures' = Append(failures, [event |-> Len(l) + 1, task |-> cursor, phase |-> phase])
  BY DEF FailTask
<1>3. failures' # <<>>
  <2> DEFINE last == [event |-> Len(l) + 1, task |-> cursor, phase |-> phase]
  <2>1. failures' = Append(failures, last)
    BY <1>2
  <2> HIDE DEF last
  <2> QED
    BY <1>1, <2>1
<1>4. Done' = Done /\ cursor \notin Done'
  BY <1>1, <1>2 DEF Done
<1> QED
  BY <1>2, <1>3, <1>4 DEF Progress, GrantsInOrder, ActedInOrder, FailuresTell

\* task_finished grants nothing.
LEMMA FailTaskGrants ==
  ASSUME RunInvariant, RunInvariant', contract' = contract, NEW phase, FailTask(ledger, phase),
         cursor \in TaskIds(contract)
  PROVE  GrantedTasks' = GrantedTasks
<1>1. ledger \in Seq(Events) /\ ledger' \in Seq(Events)
  BY DEF RunInvariant, TypeOK, RecordsTypeOK
<1> DEFINE last == Event(ledger, "task_finished", cursor, FALSE)
<1>2. last.type = "task_finished" /\ ledger' = Append(ledger, last)
  BY DEF Event, FailTask, Emit
<1> HIDE DEF last
<1>3. /\ Len(ledger') = Len(ledger) + 1 /\ ledger'[Len(ledger) + 1] = last
      /\ \A i \in 1..Len(ledger) : ledger'[i] = ledger[i]
  BY <1>1, <1>2
<1>4. ASSUME NEW t PROVE /\ Begun(t)' <=> Begun(t)
                         /\ DecidedOn(t)' = DecidedOn(t)
                         /\ \A i \in DecidedOn(t) : ledger'[i] = ledger[i]
  <2>1. \A i \in 1..Len(ledger') : i > Len(ledger) => ledger'[i].type \notin {"task_started", "policy_decided"}
    BY <1>1, <1>2, <1>3
  <2>2. Len(ledger) <= Len(ledger')
    BY <1>1, <1>3
  <2> QED
    BY <1>1, <1>3, <2>1, <2>2, OtherEvents
<1>5. \A t : Granted(t)' <=> Granted(t)
  BY <1>4 DEF Granted
<1> QED
  BY <1>5, GrantedIsBegun

\* The adapter carries out a side effect of a granted task, and may fail it.
LEMMA ActingStep ==
  ASSUME RunInvariant, RunInvariant', Progress, WriteFile \/ ReadFile \/ SpawnProcess \/ NoAdapter
  PROVE  Progress' /\ Maps
<1>1. /\ pc = "act" /\ action \in DOMAIN EffectsOf(contract, cursor)
      /\ contract' = contract /\ cursor' = cursor /\ performed' = performed \cup {<<cursor, action>>}
  BY DEF WriteFile, ReadFile, SpawnProcess, NoAdapter, Acting, ActingUnchanged, launchVars
<1>2. /\ cursor \in TaskIds(contract) /\ status[cursor] # "success" /\ action \in Nat \ {0}
  BY <1>1 DEF RunInvariant, WhileActing, TypeOK, ControlTypeOK
<1>3. ActionFailed \/ \E as : Succeeded(as)
  BY Zenon DEF WriteFile, ReadFile, SpawnProcess, NoAdapter
<1>4. cursor \in GrantedTasks \ Done
  BY <1>1, <1>2, GrantedIsBegun DEF Progress, GrantsInOrder, Done
<1>5. Progress' /\ Done' = Done /\ GrantedTasks' = GrantedTasks /\ pc' # "idle"
  <2>1. CASE ActionFailed
    BY <1>1, <1>2, <2>1, FailTaskProgress, FailTaskGrants DEF ActionFailed
  <2>2. CASE \E as : Succeeded(as)
    <3>1. UNCHANGED <<pc, status, ledger, failures>> /\ action' = action + 1
      BY <2>2 DEF Succeeded
    <3>2. GrantsInOrder'
      <4>1. \A t : (Begun(t)' <=> Begun(t)) /\ DecidedOn(t)' = DecidedOn(t)
        BY <3>1 DEF Begun, DecidedOn
      <4> QED
        BY <1>1, <3>1, <4>1 DEF Progress, GrantsInOrder, Granted
    <3>3. ActedInOrder'
      <4>1. \A n \in 1..(action' - 1) : n \in 1..(action - 1) \/ n = action
        BY <1>2, <3>1
      <4> QED
        BY <1>1, <4>1 DEF Progress, ActedInOrder
    <3>4. FailuresTell' /\ Done' = Done /\ GrantedTasks' = GrantedTasks
      BY <1>1, <3>1, SameMaps DEF Progress, FailuresTell
    <3> QED
      BY <1>1, <3>1, <3>2, <3>3, <3>4 DEF Progress
  <2> QED
    BY <1>3, <2>1, <2>2
<1>6. Verdict' = Verdict
  BY <1>1, <1>5, NoVerdictUnderway DEF Verdict, Delivered
<1>7. Gov!CarryOut(cursor, action)
  BY <1>1, <1>4, <1>5, <1>6, CarryOutMaps
<1>8. cursor \in Gov!TaskIds(contract) /\ action \in DOMAIN Gov!EffectsOf(contract, cursor)
  BY <1>1, <1>2 DEF Gov!TaskIds, TaskIds, Gov!EffectsOf, EffectsOf
<1> QED
  BY <1>5, <1>7, <1>8 DEF Maps, Gov!GovNext

\* A task that starts is granted when none of its decisions is a denial.
LEMMA StartTaskStep ==
  ASSUME RunInvariant, RunInvariant', Progress, StartTask PROVE Progress' /\ Maps
<1> DEFINE ds    == EvaluateTask(contract, cursor, now, revoked)
           first == Emit(ledger, "task_started", cursor, TRUE)
           begun == EmitDecisions(first, ds)
<1>1. /\ pc = "sweep" /\ cursor \in TaskIds(contract) /\ status[cursor] # "success"
      /\ DepsComplete(cursor) /\ action' = 1
      /\ UNCHANGED <<contract, cursor, performed>>
      /\ IF Denied(ds) # {}
         THEN FailTask(begun, "policy")
         ELSE ledger' = begun /\ pc' = "act" /\ UNCHANGED <<status, failures>>
  BY DEF StartTask, launchVars
<1>2. /\ contract \in Contracts /\ now \in Nat /\ ledger \in Seq(Events) /\ ledger' \in Seq(Events)
      /\ Valid(contract) /\ cursor \in Nat
  BY <1>1, TaskIdsInterval DEF RunInvariant, TypeOK, InputsTypeOK, ControlTypeOK, RecordsTypeOK, ValidUnderway
<1>3. /\ ds \in Seq(Decisions)
      /\ \A n \in DOMAIN ds : ds[n].task = cursor
  BY <1>1, <1>2, EvaluateTaskType
<1>4. /\ first \in Seq(Events) /\ Len(first) = Len(ledger) + 1
      /\ \A i \in 1..Len(ledger) : first[i] = ledger[i]
      /\ first[Len(ledger) + 1].type = "task_started" /\ first[Len(ledger) + 1].task = cursor
  <2>1. "task_started" \in EventTypes
    BY DEF EventTypes
  <2>2. /\ first \in Seq(Events) /\ Len(first) = Len(ledger) + 1
        /\ \A i \in 1..Len(ledger) : first[i] = ledger[i]
        /\ first[Len(ledger) + 1] = Event(ledger, "task_started", cursor, TRUE)
    BY <1>2, <2>1, EmitType
  <2> HIDE DEF first
  <2> QED
    BY <2>2 DEF Event
<1> HIDE DEF first, ds
<1>0. begun = EmitDecisions(first, ds)
  OBVIOUS
<1> HIDE DEF begun
<1>5. /\ begun \in Seq(Events) /\ Len(begun) = Len(first) + Len(ds)
      /\ \A i \in 1..Len(first) : begun[i] = first[i]
      /\ \A i \in 1..Len(ds) : /\ begun[Len(first) + i].type = "policy_decided"
                               /\ begun[Len(first) + i].task = ds[i].task
                               /\ begun[Len(first) + i].ok = (ds[i].verdict # "deny")
  <2>1. first \in Seq(Events) /\ ds \in Seq(Decisions)
    BY <1>3, <1>4
  <2>2. /\ EmitDecisions(first, ds) \in Seq(Events)
        /\ Len(EmitDecisions(first, ds)) = Len(first) + Len(ds)
        /\ \A i \in 1..Len(first) : EmitDecisions(first, ds)[i] = first[i]
        /\ \A i \in 1..Len(ds) :
             LET e == EmitDecisions(first, ds)[Len(first) + i] IN
             /\ e.type = "policy_decided" /\ e.task = ds[i].task
             /\ e.decision[1].n = ds[i].n /\ e.ok = (ds[i].verdict # "deny")
    BY <2>1, EmitDecisionsType
  <2> QED
    BY <1>0, <2>2
<1>6. Len(ledger) \in Nat /\ Len(ds) \in Nat /\ DOMAIN ds = 1..Len(ds)
  BY <1>2, <1>3
<1>7. /\ Len(ledger') >= Len(begun) /\ \A i \in 1..Len(begun) : ledger'[i] = begun[i]
      /\ \A i \in 1..Len(ledger') : i > Len(begun) => ledger'[i].type = "task_finished"
  <2>1. CASE Denied(ds) = {}
    BY <1>1, <1>5, <2>1
  <2>2. CASE Denied(ds) # {}
    <3> DEFINE last == Event(begun, "task_finished", cursor, FALSE)
    <3>1. last.type = "task_finished" /\ ledger' = Append(begun, last)
      BY <1>1, <2>2 DEF FailTask, Emit, Event
    <3> HIDE DEF last
    <3> QED
      BY <1>5, <3>1
  <2> QED
    BY <2>1, <2>2
<1>8. /\ Len(ledger) <= Len(ledger') /\ \A i \in 1..Len(ledger) : ledger'[i] = ledger[i]
      /\ Len(ledger) + 1 \in DOMAIN ledger'
      /\ ledger'[Len(ledger) + 1].type = "task_started" /\ ledger'[Len(ledger) + 1].task = cursor
  <2>1. /\ Len(ledger) <= Len(ledger') /\ Len(ledger) + 1 \in DOMAIN ledger'
        /\ Len(ledger) + 1 \in 1..Len(first) /\ Len(ledger) + 1 \in 1..Len(begun)
        /\ 1..Len(ledger) \subseteq 1..Len(first) /\ 1..Len(first) \subseteq 1..Len(begun)
    BY <1>2, <1>4, <1>5, <1>6, <1>7
  <2>2. \A i \in 1..Len(first) : ledger'[i] = first[i]
    BY <1>5, <1>7, <2>1
  <2> QED
    BY <1>4, <2>1, <2>2
<1>9. ASSUME NEW n \in DOMAIN ds
      PROVE  /\ Len(ledger) + 1 + n \in DOMAIN ledger'
             /\ ledger'[Len(ledger) + 1 + n].type = "policy_decided"
             /\ ledger'[Len(ledger) + 1 + n].task = cursor
             /\ ledger'[Len(ledger) + 1 + n].ok = (ds[n].verdict # "deny")
  <2>1. /\ Len(first) + n = Len(ledger) + 1 + n /\ n \in 1..Len(ds)
        /\ Len(first) + n \in 1..Len(begun) /\ Len(first) + n \in DOMAIN ledger'
    BY <1>2, <1>4, <1>5, <1>6, <1>7
  <2>2. ledger'[Len(first) + n] = begun[Len(first) + n]
    BY <1>7, <2>1
  <2> QED
    BY <1>3, <1>5, <2>1, <2>2
<1>10. ASSUME NEW i \in DOMAIN ledger', i > Len(ledger)
       PROVE  \/ i = Len(ledger) + 1
              \/ \E n \in DOMAIN ds : i = Len(ledger) + 1 + n
              \/ ledger'[i].type = "task_finished"
  <2>1. i \in 1..Len(ledger') /\ Len(ledger') \in Nat
    BY <1>2, <1>10
  <2>2. CASE i > Len(begun)
    BY <1>7, <2>1, <2>2
  <2>3. CASE ~(i > Len(begun)) /\ i # Len(ledger) + 1
    <3>1. i - (Len(ledger) + 1) \in DOMAIN ds /\ i = Len(ledger) + 1 + (i - (Len(ledger) + 1))
      BY <1>4, <1>5, <1>6, <1>10, <2>1, <2>3
    <3> QED
      BY <3>1
  <2> QED
    BY <2>2, <2>3
<1>11. ASSUME NEW t \in TaskIds(contract), t # cursor
       PROVE  /\ Begun(t)' <=> Begun(t)
              /\ DecidedOn(t)' = DecidedOn(t)
              /\ Granted(t)' <=> Granted(t)
  <2>1. \A i \in 1..Len(ledger') : i > Len(ledger) =>
          ledger'[i].task # t \/ ledger'[i].type \notin {"task_started", "policy_decided"}
    <3>1. SUFFICES ASSUME NEW i \in DOMAIN ledger', i > Len(ledger)
                   PROVE  ledger'[i].task # t \/ ledger'[i].type \notin {"task_started", "policy_decided"}
      BY <1>2
    <3> QED
      BY <1>8, <1>9, <1>10, <1>11, <3>1
  <2>2. /\ Begun(t)' <=> Begun(t)
        /\ DecidedOn(t)' = DecidedOn(t)
        /\ \A i \in DecidedOn(t) : ledger'[i] = ledger[i]
    BY <1>2, <1>8, <2>1, OtherEvents
  <2> QED
    BY <2>2 DEF Granted
<1>12. Begun(cursor)'
  BY <1>1, <1>8 DEF Begun
<1>13. ~Begun(cursor) /\ DecidedOn(cursor) = {} /\ ~Granted(cursor)
  BY <1>1 DEF Progress, GrantsInOrder, Granted
<1>14. Verdict = "none" /\ Verdict' = "none" /\ pc # "idle" /\ pc' # "idle"
  <2>1. pc' \in {"act", "finish"}
    BY <1>1 DEF FailTask
  <2> QED
    BY <1>1, <2>1, NoVerdictUnderway DEF Verdict, Delivered
<1>15. CASE Denied(ds) # {}
  <2>1. Progress' /\ Done' = Done
    BY <1>1, <1>15, FailTaskProgress
  <2>2. ~Granted(cursor)'
    <3>1. PICK n \in DOMAIN ds : ds[n].verdict = "deny"
      BY <1>15 DEF Denied
    <3>2. Len(ledger) + 1 + n \in DecidedOn(cursor)' /\ ~ledger'[Len(ledger) + 1 + n].ok
      BY <1>1, <1>9, <3>1 DEF DecidedOn
    <3> QED
      BY <1>1, <3>2 DEF Granted
  <2>3. \A t \in TaskIds(contract) : Granted(t)' <=> Granted(t)
    BY <1>1, <1>11, <1>13, <2>2 DEF Granted
  <2>4. GrantedTasks' = GrantedTasks
    BY <1>1, <2>3, GrantedIsBegun
  <2> QED
    BY <1>1, <1>14, <2>1, <2>4, StutterMaps DEF Maps
<1>16. CASE Denied(ds) = {}
  <2>1. ledger' = begun /\ pc' = "act" /\ UNCHANGED <<status, failures>>
    BY <1>1, <1>16
  <2>2. Granted(cursor)'
    <3>1. ASSUME NEW i \in DecidedOn(cursor)' PROVE ledger'[i].ok
      <4>1. i \in DOMAIN ledger' /\ ledger'[i].type = "policy_decided" /\ ledger'[i].task = cursor
        BY <1>1, <3>1 DEF DecidedOn
      <4>2. CASE i > Len(ledger)
        <5>1. PICK n \in DOMAIN ds : i = Len(ledger) + 1 + n
          BY <1>8, <1>10, <4>1, <4>2
        <5>2. ds[n].verdict # "deny"
          BY <1>16 DEF Denied
        <5> QED
          BY <1>9, <5>1, <5>2
      <4>3. CASE ~(i > Len(ledger))
        <5>1. i \in DOMAIN ledger /\ ledger'[i] = ledger[i]
          BY <1>2, <1>6, <1>8, <4>1, <4>3
        <5> QED
          BY <1>13, <4>1, <5>1 DEF DecidedOn
      <4> QED
        BY <4>2, <4>3
    <3> QED
      BY <1>1, <1>12, <3>1 DEF Granted
  <2>3. GrantedTasks' = GrantedTasks \cup {cursor} /\ cursor \notin GrantedTasks /\ Done' = Done
    BY <1>1, <1>11, <1>13, <2>1, <2>2, GrantedIsBegun DEF Done
  <2>4. GrantedTasks \subseteq Done
    BY <1>1, GrantedIsBegun DEF Progress, GrantsInOrder, Granted, Done
  <2>5. Deps(contract, cursor) \subseteq Done
    BY <1>1, <1>2 DEF DepsComplete, Valid, Done
  <2>6. Gov!Grant(cursor)
    BY <1>1, <1>14, <2>3, <2>4, <2>5, GrantMaps
  <2>7. cursor \in Gov!TaskIds(contract)
    BY <1>1 DEF Gov!TaskIds, TaskIds
  <2>8. GrantsInOrder'
    BY <1>1, <1>11, <2>1, <2>2 DEF Progress, GrantsInOrder
  <2>9. ActedInOrder'
    <3>1. 1..(1 - 1) = {}
      OBVIOUS
    <3> QED
      BY <1>1, <3>1 DEF ActedInOrder
  <2>10. FailuresTell'
    BY <1>1, <2>1 DEF Progress, FailuresTell
  <2> QED
    BY <2>6, <2>7, <2>8, <2>9, <2>10 DEF Maps, Gov!GovNext, Progress
<1> QED
  BY <1>15, <1>16

\* What a task that succeeds records is neither a start nor a decision.
LEMMA CompleteTaskProgress ==
  ASSUME RunInvariant, RunInvariant', Progress, pc = "act", CompleteTask,
         UNCHANGED <<contract, failures>>
  PROVE  /\ Progress' /\ GrantedTasks' = GrantedTasks /\ pc' = "sweep"
         /\ cursor \in GrantedTasks \ Done /\ Done' = Done \cup {cursor}
<1>1. /\ ledger \in Seq(Events) /\ ledger' \in Seq(Events) /\ pending \in Seq(Artifacts)
      /\ status \in [TaskIds(contract) -> TaskStatuses]
      /\ cursor \in TaskIds(contract) /\ cursor \in Nat /\ status[cursor] # "success"
  BY DEF RunInvariant, TypeOK, RecordsTypeOK, ControlTypeOK, WhileActing
<1> DEFINE recorded == EmitArtifacts(ledger, cursor, pending)
           last == [Event(recorded, "task_finished", cursor, TRUE) EXCEPT
                      !.artifacts = {pending[i].id : i \in DOMAIN pending}]
<1>2. /\ recorded \in Seq(Events) /\ Len(recorded) = Len(ledger) + Len(pending)
      /\ \A i \in 1..Len(ledger) : recorded[i] = ledger[i]
      /\ \A i \in 1..Len(pending) : recorded[Len(ledger) + i].type = "artifact_recorded"
  BY <1>1, EmitArtifactsType
<1>3. last.type = "task_finished"
  BY Zenon DEF Event
<1>4. /\ ledger' = Append(recorded, last) /\ pc' = "sweep"
      /\ status' = [status EXCEPT ![cursor] = "success"]
  BY DEF CompleteTask
<1> HIDE DEF recorded, last
<1>5. /\ Len(ledger') = Len(recorded) + 1
      /\ \A i \in 1..Len(recorded) : ledger'[i] = recorded[i]
      /\ ledger'[Len(recorded) + 1] = last
  BY <1>2, <1>4
<1>6. Len(ledger) \in Nat /\ Len(pending) \in Nat
  BY <1>1
<1>7. Len(ledger) <= Len(ledger') /\ \A i \in 1..Len(ledger) : ledger'[i] = ledger[i]
  BY <1>2, <1>5, <1>6
<1>8. ASSUME NEW i \in 1..Len(ledger'), i > Len(ledger)
      PROVE  ledger'[i].type \notin {"task_started", "policy_decided"}
  <2>1. CASE i = Len(recorded) + 1
    BY <1>3, <1>5, <2>1
  <2>2. CASE i # Len(recorded) + 1
    <3>1. /\ i - Len(ledger) \in 1..Len(pending) /\ i = Len(ledger) + (i - Len(ledger))
          /\ i \in 1..Len(recorded)
      BY <1>2, <1>5, <1>6, <1>8, <2>2
    <3>2. recorded[i].type = "artifact_recorded"
      BY <1>2, <3>1
    <3> QED
      BY <1>5, <3>1, <3>2
  <2> QED
    BY <2>1, <2>2
<1>9. \A t : /\ Begun(t)' <=> Begun(t)
             /\ DecidedOn(t)' = DecidedOn(t)
             /\ \A i \in DecidedOn(t) : ledger'[i] = ledger[i]
  BY <1>1, <1>7, <1>8, OtherEvents
<1>10. \A t : Granted(t)' <=> Granted(t)
  BY <1>9 DEF Granted
<1>11. GrantedTasks' = GrantedTasks
  BY <1>10, GrantedIsBegun
<1>12. Granted(cursor)
  BY <1>1 DEF Progress, GrantsInOrder
<1>13. cursor \in GrantedTasks \ Done /\ Done' = Done \cup {cursor}
  BY <1>1, <1>4, <1>12, GrantedIsBegun DEF Done
<1>14. GrantsInOrder'
  <2>1. ASSUME NEW t \in TaskIds(contract), t # cursor PROVE status'[t] = status[t]
    BY <1>1, <1>4, <2>1
  <2>2. status'[cursor] = "success"
    BY <1>1, <1>4
  <2> QED
    BY <1>4, <1>9, <1>10, <1>12, <2>1, <2>2 DEF Progress, GrantsInOrder
<1>15. ActedInOrder' /\ FailuresTell'
  BY <1>4 DEF Progress, ActedInOrder, FailuresTell
<1> QED
  BY <1>4, <1>11, <1>13, <1>14, <1>15 DEF Progress

\* A task succeeds with every side effect done, or its check fails.
LEMMA CompleteStep ==
  ASSUME RunInvariant, RunInvariant', Progress, FinishActions \/ Check PROVE Progress' /\ Maps
<1>1. pc = "act" /\ UNCHANGED <<contract, performed>>
  BY DEF FinishActions, Check, launchVars, taskVars
<1>2. /\ cursor \in TaskIds(contract) /\ status[cursor] # "success"
      /\ contract \in Contracts /\ AdapterKinds \cap CheckKinds = {}
  BY <1>1 DEF RunInvariant, WhileActing, TypeOK, InputsTypeOK, AdapterKinds, CheckKinds
<1>3. CASE CompleteTask /\ failures' = failures /\
           (Kind(contract, cursor) \in AdapterKinds => action = Len(EffectsOf(contract, cursor)) + 1)
  <2>1. /\ Progress' /\ GrantedTasks' = GrantedTasks /\ pc' = "sweep"
        /\ cursor \in GrantedTasks \ Done /\ Done' = Done \cup {cursor}
    BY <1>1, <1>3, CompleteTaskProgress
  <2>2. Verdict' = Verdict
    BY <1>1, <2>1, NoVerdictUnderway DEF Verdict, Delivered
  <2>3. ASSUME Kind(contract, cursor) \in AdapterKinds, NEW n \in DOMAIN EffectsOf(contract, cursor)
        PROVE  <<cursor, n>> \in performed
    <3>1. EffectsOf(contract, cursor) \in Seq(Effects)
      BY <1>2, TaskType
    <3>2. n \in 1..(action - 1)
      BY <1>3, <2>3, <3>1
    <3> QED
      BY <1>1, <3>2 DEF Progress, ActedInOrder
  <2>4. PICK t \in TaskIds(contract) : t = cursor
    BY <1>2
  <2>5. /\ t \in GrantedTasks \ Done /\ Done' = Done \cup {t}
        /\ Kind(contract, t) \in AdapterKinds =>
             \A n \in DOMAIN EffectsOf(contract, t) : <<t, n>> \in performed
    BY <2>1, <2>3, <2>4
  <2>6. Gov!Succeed(t)
    BY <1>1, <2>1, <2>2, <2>5, SucceedMaps
  <2>7. t \in Gov!TaskIds(contract)
    BY <2>4 DEF Gov!TaskIds, TaskIds
  <2> QED
    BY <2>1, <2>6, <2>7 DEF Maps, Gov!GovNext
<1>4. CASE FailTask(ledger, "execution")
  <2>1. Progress' /\ Done' = Done /\ pc' = "finish" /\ GrantedTasks' = GrantedTasks
    BY <1>1, <1>2, <1>4, FailTaskProgress, FailTaskGrants
  <2>2. Verdict' = Verdict
    BY <1>1, <2>1, NoVerdictUnderway DEF Verdict, Delivered
  <2> QED
    BY <1>1, <2>1, <2>2, StutterMaps DEF Maps
<1> QED
  BY <1>2, <1>3, <1>4 DEF FinishActions, Check

\* run_finished grants nothing.
LEMMA FinishStep ==
  ASSUME RunInvariant, RunInvariant', Progress, Finish PROVE Progress' /\ Maps
<1>1. /\ ledger \in Seq(Events) /\ ledger' \in Seq(Events)
      /\ UNCHANGED <<contract, status, performed, failures>> /\ pc = "finish" /\ pc' = "publish"
  BY DEF Finish, launchVars, sweepVars, taskVars, RunInvariant, TypeOK, RecordsTypeOK
<1> DEFINE last == Event(ledger, "run_finished", 0, failures = <<>>)
<1>2. last.type = "run_finished" /\ ledger' = Append(ledger, last)
  BY DEF Event, Finish, Emit
<1> HIDE DEF last
<1>3. /\ Len(ledger') = Len(ledger) + 1 /\ ledger'[Len(ledger) + 1] = last
      /\ \A i \in 1..Len(ledger) : ledger'[i] = ledger[i]
  BY <1>1, <1>2
<1>4. \A i \in 1..Len(ledger') : i > Len(ledger) => ledger'[i].type \notin {"task_started", "policy_decided"}
  BY <1>1, <1>2, <1>3
<1>5. \A t : /\ Begun(t)' <=> Begun(t)
             /\ DecidedOn(t)' = DecidedOn(t)
             /\ \A i \in DecidedOn(t) : ledger'[i] = ledger[i]
  <2>1. Len(ledger) <= Len(ledger')
    BY <1>1, <1>3
  <2> QED
    BY <1>1, <1>3, <1>4, <2>1, OtherEvents
<1>6. GrantedTasks' = GrantedTasks /\ Done' = Done
  BY <1>1, <1>5, GrantedIsBegun DEF Granted, Done
<1>7. Verdict' = Verdict
  BY <1>1, NoVerdictUnderway DEF Verdict, Delivered
<1>8. Progress'
  BY <1>1, <1>6 DEF Progress, GrantsInOrder, ActedInOrder, FailuresTell
<1> QED
  BY <1>1, <1>6, <1>7, <1>8, StutterMaps DEF Maps

\* The verdict of the closure matrix is the one the abstract run gives.
LEMMA PublishStep ==
  ASSUME RunInvariant, Progress, Publish PROVE Progress' /\ Maps
<1>1. /\ UNCHANGED <<contract, status, ledger, performed, failures>> /\ pc = "publish" /\ pc' = "idle"
      /\ outcome' = RunStatus /\ RunStatus \in {"success", "failed"}
      /\ packFile'.closure.status = MatrixStatus(contract, RunStatus, status)
  BY DEF Publish, Return, RunStatus, EvaluateClosure, launchVars, sweepVars, taskVars, recordVars
<1>2. Verdict' = MatrixStatus(contract, RunStatus, status)
  BY <1>1 DEF Verdict, Delivered
<1>3. RunStatus = "success" <=> Done = TaskIds(contract)
  BY <1>1 DEF Progress, FailuresTell, RunStatus
<1>4. \A o : Claimants(contract, o) \subseteq TaskIds(contract)
  BY DEF Claimants
<1>5. ASSUME Done = TaskIds(contract), NEW o
      PROVE  RowStatus(contract, o, RunStatus, status) = "closed" <=> Claimants(contract, o) # {}
  BY <1>3, <1>4, <1>5 DEF RowStatus, Done
<1>6. Verdict' = IF /\ Done = TaskIds(contract)
                    /\ \A o \in contract.required : Claimants(contract, o) # {}
                 THEN "accepted" ELSE "rejected"
  BY <1>2, <1>3, <1>5 DEF MatrixStatus
<1>7. GrantedTasks' = GrantedTasks /\ Done' = Done
  BY <1>1, SameMaps
<1>8. Gov!Deliver
  BY <1>1, <1>6, <1>7, DeliverMaps
<1>9. Progress'
  BY <1>1, QuietKeepsProgress
<1> QED
  BY <1>8, <1>9 DEF Maps, Gov!GovNext

-----------------------------------------------------------------------------
\* Every step keeps Progress, and is one of the governed run or none of it.
LEMMA ProgressKept ==
  RunInvariant /\ RunInvariant' /\ Progress /\ [Next]_vars => Progress' /\ Maps
<1> SUFFICES ASSUME RunInvariant, RunInvariant', Progress, [Next]_vars PROVE Progress' /\ Maps
  OBVIOUS
<1>1. CASE Call
  BY <1>1, CallStep
<1>2. CASE OpenLedger
  BY <1>2, OpenLedgerStep
<1>3. CASE StartTask
  BY <1>3, StartTaskStep
<1>4. CASE WriteFile \/ ReadFile \/ SpawnProcess \/ NoAdapter
  BY <1>4, ActingStep
<1>5. CASE FinishActions \/ Check
  BY <1>5, CompleteStep
<1>6. CASE Finish
  BY <1>6, FinishStep
<1>7. CASE Publish
  BY <1>7, PublishStep
<1>8. CASE \/ Snapshot \/ PassOver \/ EndSweep \/ Close \/ IOError \/ Crash \/ Tick \/ Edit
           \/ UNCHANGED vars
  BY <1>8, QuietSteps
<1> QED
  BY <1>1, <1>2, <1>3, <1>4, <1>5, <1>6, <1>7, <1>8 DEF Next, Step

\* What was begun was granted and what was granted is on record, at any time.
LEMMA ProgressHolds == Spec => []Progress
<1>1. Init => Progress
  BY DEF Init, Progress, GrantsInOrder, ActedInOrder, FailuresTell
<1> QED
  BY <1>1, ProgressKept, RunInvariantHolds, PTL DEF Spec

\* Execute, whatever the sweep, the adapter and the closure evaluator do and
\* wherever a write fails or the process dies, implements the governed run:
\* its side effects are carried out for granted tasks only, and the verdict of
\* its closure matrix is that of GovernedRun (executor.go:22-214).
THEOREM ExecuteImplementsGovernedRun == Spec => ImplementsGovernedRun
<1>1. Init => Gov!GovInit
  BY InitMaps
<1>2. Maps => [Gov!GovNext]_(Gov!govVars)
  BY DEF Maps
<1> QED
  BY <1>1, <1>2, ProgressKept, ProgressHolds, RunInvariantHolds, PTL
     DEF Spec, ImplementsGovernedRun, Gov!GovSpec

-----------------------------------------------------------------------------
(* The story an evidence pack tells. *)

FailedEvents(l) == {i \in DOMAIN l : l[i].type = "task_finished" /\ ~l[i].ok}

FailureEvents == {failures[i].event : i \in DOMAIN failures}

\* The artifacts of a side effect, among those of the run or of the task under way.
Among(x, arts) == \E i \in DOMAIN arts : arts[i].id.task = x[1] /\ arts[i].id.n = x[2]

FailuresListed == pc # "idle" => FailureEvents = FailedEvents(ledger)

NoFailureSatisfies == pc \in {"finish", "publish"} /\ failures = <<>> => RequiredSatisfied

LedgerClosed ==
  pc = "publish" =>
    /\ ledgerFile.lines = ledger
    /\ ledger[Len(ledger)].type = "run_finished"
    /\ ledger[Len(ledger)].ok = (failures = <<>>)

\* What was carried out for a task that has not failed has artifacts.
ActionsAccounted ==
  pc # "idle" =>
    \A x \in performed :
      /\ x[1] \in TaskIds(contract)
      /\ \/ status[x[1]] = "failed"
         \/ Among(x, artifacts)
         \/ pc = "act" /\ x[1] = cursor /\ Among(x, pending)

Story ==
  /\ FailuresListed /\ NoFailureSatisfies /\ LedgerClosed /\ ActionsAccounted
  /\ PackTellsOneStory /\ EffectsAccounted

\* Events other than a failing task_finished are no failures.
LEMMA FailedEventsKept ==
  ASSUME NEW l \in Seq(Events), NEW m \in Seq(Events), Len(l) <= Len(m),
         \A i \in 1..Len(l) : m[i] = l[i],
         \A i \in 1..Len(m) : i > Len(l) => m[i].type # "task_finished" \/ m[i].ok
  PROVE  FailedEvents(m) = FailedEvents(l)
<1>1. /\ DOMAIN l = 1..Len(l) /\ DOMAIN m = 1..Len(m) /\ Len(l) \in Nat /\ Len(m) \in Nat
  OBVIOUS
<1>2. \A i \in DOMAIN l : i \in DOMAIN m /\ m[i] = l[i]
  BY <1>1
<1>3. \A i \in DOMAIN m : i \in DOMAIN l \/ m[i].type # "task_finished" \/ m[i].ok
  BY <1>1
<1> QED
  BY <1>2, <1>3 DEF FailedEvents

\* A failing task puts its failure and its last event on record together.
LEMMA FailureRecorded ==
  ASSUME RunInvariant, FailuresListed, pc # "idle", NEW l \in Seq(Events),
         FailedEvents(l) = FailedEvents(ledger), NEW phase, FailTask(l, phase)
  PROVE  FailuresListed' /\ failures' # <<>>
<1>1. failures \in Seq(Failures) /\ Len(l) \in Nat /\ Len(failures) \in Nat
  BY DEF RunInvariant, TypeOK, RecordsTypeOK
<1> DEFINE last == Event(l, "task_finished", cursor, FALSE)
           new == [event |-> Len(l) + 1, task |-> cursor, phase |-> phase]
<1>2. /\ last.type = "task_finished" /\ ~last.ok /\ new.event = Len(l) + 1
      /\ ledger' = Append(l, last) /\ failures' = Append(failures, new)
  BY DEF FailTask, Emit, Event
<1> HIDE DEF last, new
<1>3. /\ DOMAIN ledger' = 1..(Len(l) + 1) /\ ledger'[Len(l) + 1] = last
      /\ \A i \in 1..Len(l) : ledger'[i] = l[i]
  BY <1>2
<1>4. /\ DOMAIN failures' = 1..(Len(failures) + 1) /\ failures'[Len(failures) + 1] = new
      /\ \A i \in 1..Len(failures) : failures'[i] = failures[i]
      /\ failures' # <<>>
  BY <1>1, <1>2
<1>5. FailedEvents(ledger') = FailedEvents(l) \cup {Len(l) + 1}
  <2>1. DOMAIN l = 1..Len(l) /\ DOMAIN ledger' = DOMAIN l \cup {Len(l) + 1} /\ Len(l) + 1 \notin DOMAIN l
    BY <1>1, <1>3
  <2> QED
    BY <1>2, <1>3, <2>1 DEF FailedEvents
<1>6. FailureEvents' = FailureEvents \cup {Len(l) + 1}
  <2>1. DOMAIN failures = 1..Len(failures) /\ DOMAIN failures' = DOMAIN failures \cup {Len(failures) + 1}
    BY <1>1, <1>4
  <2> QED
    BY <1>2, <1>4, <2>1 DEF FailureEvents
<1> QED
  BY <1>4, <1>5, <1>6 DEF FailuresListed

\* Artifacts added to a sequence leave those that were there.
LEMMA AmongKept ==
  ASSUME NEW arts \in Seq(Artifacts), NEW n \in Nat, NEW more \in [1..n -> Artifacts], NEW x
  PROVE  /\ Among(x, arts) => Among(x, arts \o more)
         /\ (\E i \in 1..n : more[i].id.task = x[1] /\ more[i].id.n = x[2]) => Among(x, arts \o more)
<1> DEFINE all == arts \o more
<1>1. all \in Seq(Artifacts) /\ Len(all) = Len(arts) + n
  BY Extended
<1>2. \A i \in 1..Len(arts) : all[i] = arts[i]
  BY Extended
<1>0. \A i \in 1..n : all[Len(arts) + i] = more[i]
  BY Extended
<1> HIDE DEF all
<1>3. DOMAIN arts = 1..Len(arts) /\ DOMAIN all = 1..(Len(arts) + n) /\ Len(arts) \in Nat
  <2>1. DOMAIN all = 1..Len(all)
    BY <1>1
  <2> QED
    BY <1>1, <2>1
<1>4. \A i \in DOMAIN arts : i \in DOMAIN all /\ all[i] = arts[i]
  BY <1>2, <1>3
<1>5. \A i \in 1..n : Len(arts) + i \in DOMAIN all /\ all[Len(arts) + i] = more[i]
  BY <1>0, <1>3
<1>6. /\ Among(x, arts) => Among(x, all)
      /\ (\E i \in 1..n : more[i].id.task = x[1] /\ more[i].id.n = x[2]) => Among(x, all)
  BY <1>4, <1>5 DEF Among
<1> QED
  BY <1>6 DEF all

-----------------------------------------------------------------------------
(* The steps. *)

\* What was delivered stays what it was until the next call.
LEMMA DeliveryKept ==
  ASSUME Story, UNCHANGED <<performed, status, packFile>>, pc' = "idle" => pc = "idle" /\ outcome' = outcome
  PROVE  PackTellsOneStory' /\ EffectsAccounted'
  BY DEF Story, PackTellsOneStory, EffectsAccounted, Delivered

\* Without a delivery there is no pack to speak of.
LEMMA NothingDelivered ==
  ASSUME pc' # "idle" \/ outcome' \notin {"success", "failed"}
  PROVE  PackTellsOneStory' /\ EffectsAccounted'
  BY DEF PackTellsOneStory, EffectsAccounted, Delivered

\* A call starts a new story.
LEMMA CallStory == Call => Story'
<1> SUFFICES ASSUME Call PROVE Story'
  OBVIOUS
<1>1. PICK l \in Launches : /\ Arguments(l) /\ pc' \in {"idle", "snapshot"}
                            /\ outcome' \in {"refused", "unreadable", "running"}
  BY DEF Call, Refuse, Launch
<1>2. performed' = {} /\ ledger' = <<>> /\ failures' = <<>>
  BY <1>1 DEF Arguments
<1>3. FailureEvents' = {} /\ FailedEvents(ledger') = {}
  BY <1>2 DEF FailureEvents, FailedEvents
<1> QED
  BY <1>1, <1>2, <1>3, NothingDelivered
     DEF Story, FailuresListed, NoFailureSatisfies, LedgerClosed, ActionsAccounted

\* Steps that touch none of what the pack will hold.
LEMMA QuietStory ==
  ASSUME Story, Snapshot \/ PassOver \/ EndSweep \/ Close \/ IOError \/ Crash \/ Tick \/ Edit \/ UNCHANGED vars
  PROVE  Story'
<1> USE DEF launchVars, sweepVars, taskVars, recordVars, dirVars
<1>1. /\ UNCHANGED <<contract, status, ledger, failures, artifacts, pending, performed>>
      /\ \/ pc' = "idle" /\ outcome' \notin {"success", "failed"}
         \/ /\ pc' # "idle" /\ pc # "idle"
            /\ pc' = "publish" => pc = "publish" /\ ledgerFile' = ledgerFile
            /\ pc' = "finish" => pc = "finish" \/ RequiredSatisfied
            /\ pc = "act" => pc' = "act" /\ cursor' = cursor
         \/ pc' = "idle" /\ pc = "idle" /\ UNCHANGED <<outcome, packFile>>
  <2>1. CASE Snapshot
    BY <2>1 DEF Snapshot, Return
  <2>2. CASE PassOver
    BY <2>2 DEF PassOver
  <2>3. CASE EndSweep
    BY <2>3 DEF EndSweep, Return
  <2>4. CASE Close
    BY <2>4 DEF Close, Return
  <2>5. CASE IOError \/ Crash
    BY <2>5 DEF IOError, Crash, Abort, Return
  <2>6. CASE Tick \/ Edit
    BY <2>6 DEF Tick, Edit, EnvUnchanged
  <2>7. CASE UNCHANGED vars
    BY <2>7 DEF vars
  <2> QED
    BY <2>1, <2>2, <2>3, <2>4, <2>5, <2>6, <2>7
<1>2. FailureEvents' = FailureEvents /\ FailedEvents(ledger') = FailedEvents(ledger)
  BY <1>1 DEF FailureEvents
<1>3. RequiredSatisfied' <=> RequiredSatisfied
  BY <1>1 DEF RequiredSatisfied
<1>4. FailuresListed' /\ NoFailureSatisfies' /\ LedgerClosed'
  BY <1>1, <1>2, <1>3 DEF Story, FailuresListed, NoFailureSatisfies, LedgerClosed
<1>5. ActionsAccounted'
  BY <1>1 DEF Story, ActionsAccounted
<1>6. PackTellsOneStory' /\ EffectsAccounted'
  BY <1>1, DeliveryKept, NothingDelivered
<1> QED
  BY <1>4, <1>5, <1>6 DEF Story

\* run_started is no failure.
LEMMA OpenLedgerStory ==
  ASSUME RunInvariant, Story, OpenLedger PROVE Story'
<1>1. /\ UNCHANGED <<contract, status, failures, artifacts, pending, performed>>
      /\ ledger' = <<Event(<<>>, "run_started", 0, TRUE)>> /\ pc = "snapshot" /\ pc' = "sweep"
      /\ ledger = <<>> /\ performed = {}
  BY DEF OpenLedger, Emit, launchVars, sweepVars, taskVars, RunInvariant, BeforeEvents
<1>2. FailedEvents(ledger') = {} /\ FailedEvents(ledger) = {} /\ FailureEvents' = FailureEvents
  BY <1>1 DEF FailedEvents, Event, FailureEvents
<1> QED
  BY <1>1, <1>2, NothingDelivered
     DEF Story, FailuresListed, NoFailureSatisfies, LedgerClosed, ActionsAccounted

\* run_finished says whether anything failed.
LEMMA FinishStory ==
  ASSUME RunInvariant, RunInvariant', Story, Finish PROVE Story'
<1>1. /\ ledger \in Seq(Events) /\ ledger' \in Seq(Events)
      /\ UNCHANGED <<contract, status, failures, artifacts, pending, performed>>
      /\ pc = "finish" /\ pc' = "publish" /\ ledgerFile'.lines = ledger'
  BY DEF Finish, launchVars, sweepVars, taskVars, RunInvariant, TypeOK, RecordsTypeOK
<1> DEFINE last == Event(ledger, "run_finished", 0, failures = <<>>)
<1>2. last.type = "run_finished" /\ last.ok = (failures = <<>>) /\ ledger' = Append(ledger, last)
  BY DEF Event, Finish, Emit
<1> HIDE DEF last
<1>3. /\ Len(ledger') = Len(ledger) + 1 /\ ledger'[Len(ledger')] = last /\ Len(ledger) <= Len(ledger')
      /\ \A i \in 1..Len(ledger) : ledger'[i] = ledger[i]
      /\ \A i \in 1..Len(ledger') : i > Len(ledger) => ledger'[i] = last
  BY <1>1, <1>2
<1>4. FailedEvents(ledger') = FailedEvents(ledger)
  BY <1>1, <1>2, <1>3, FailedEventsKept
<1>5. FailureEvents' = FailureEvents /\ (RequiredSatisfied' <=> RequiredSatisfied)
  BY <1>1 DEF FailureEvents, RequiredSatisfied
<1>6. FailuresListed' /\ NoFailureSatisfies' /\ ActionsAccounted'
  BY <1>1, <1>4, <1>5 DEF Story, FailuresListed, NoFailureSatisfies, ActionsAccounted
<1>7. LedgerClosed'
  BY <1>1, <1>2, <1>3 DEF LedgerClosed
<1> QED
  BY <1>1, <1>6, <1>7, NothingDelivered DEF Story

\* The pack takes over what the run has gathered.
LEMMA PublishStory ==
  ASSUME Story, Publish PROVE Story'
<1>1. /\ pc = "publish" /\ pc' = "idle" /\ outcome' = RunStatus
      /\ UNCHANGED <<contract, status, ledger, ledgerFile, failures, artifacts, performed>>
      /\ packFile'.ledger = ledgerFile.lines /\ packFile'.status = RunStatus
      /\ packFile'.failures = failures /\ packFile'.artifacts = artifacts
      /\ packFile'.closure.status = MatrixStatus(contract, RunStatus, status)
  BY DEF Publish, Return, EvaluateClosure, launchVars, sweepVars, taskVars, recordVars
<1>2. packFile'.ledger = ledger /\ FailureEvents = FailedEvents(ledger)
      /\ ledger[Len(ledger)].type = "run_finished" /\ ledger[Len(ledger)].ok = (failures = <<>>)
  BY <1>1 DEF Story, LedgerClosed, FailuresListed
<1>3. (MatrixStatus(contract, RunStatus, status) = "accepted") = (RunStatus = "success")
  BY <1>1 DEF Story, NoFailureSatisfies, RequiredSatisfied, MatrixStatus, RowStatus, RunStatus
<1>4. (RunStatus = "success") = (failures = <<>>)
  BY DEF RunStatus
<1>5. PackTellsOneStory'
  BY <1>1, <1>2, <1>3, <1>4 DEF PackTellsOneStory, FailureEvents, FailedEvents
<1>6. EffectsAccounted'
  BY <1>1 DEF Story, ActionsAccounted, EffectsAccounted, Among
<1> QED
  BY <1>1, <1>5, <1>6 DEF Story, FailuresListed, NoFailureSatisfies, LedgerClosed, ActionsAccounted

\* A task that starts appends its start and a decision for each side effect.
LEMMA StartEvents ==
  ASSUME RunInvariant, pc = "sweep", cursor \in TaskIds(contract), NEW begun,
         begun = EmitDecisions(Emit(ledger, "task_started", cursor, TRUE),
                               EvaluateTask(contract, cursor, now, revoked))
  PROVE  begun \in Seq(Events) /\ FailedEvents(begun) = FailedEvents(ledger)
<1> DEFINE ds    == EvaluateTask(contract, cursor, now, revoked)
           first == Emit(ledger, "task_started", cursor, TRUE)
<1>1. contract \in Contracts /\ now \in Nat /\ ledger \in Seq(Events) /\ cursor \in Nat
  BY DEF RunInvariant, TypeOK, InputsTypeOK, ControlTypeOK, RecordsTypeOK
<1>2. ds \in Seq(Decisions)
  BY <1>1, EvaluateTaskType
<1>3. /\ first \in Seq(Events) /\ Len(first) = Len(ledger) + 1
      /\ \A i \in 1..Len(ledger) : first[i] = ledger[i]
      /\ first[Len(ledger) + 1].type = "task_started"
  <2>1. "task_started" \in EventTypes
    BY DEF EventTypes
  <2>2. /\ first \in Seq(Events) /\ Len(first) = Len(ledger) + 1
        /\ \A i \in 1..Len(ledger) : first[i] = ledger[i]
        /\ first[Len(ledger) + 1] = Event(ledger, "task_started", cursor, TRUE)
    BY <1>1, <2>1, EmitType
  <2> HIDE DEF first
  <2> QED
    BY <2>2 DEF Event
<1> HIDE DEF first, ds
<1>4. begun = EmitDecisions(first, ds)
  BY DEF first, ds
<1>5. /\ begun \in Seq(Events) /\ Len(begun) = Len(first) + Len(ds)
      /\ \A i \in 1..Len(first) : begun[i] = first[i]
      /\ \A i \in 1..Len(ds) : begun[Len(first) + i].type = "policy_decided"
  <2>1. /\ EmitDecisions(first, ds) \in Seq(Events)
        /\ Len(EmitDecisions(first, ds)) = Len(first) + Len(ds)
        /\ \A i \in 1..Len(first) : EmitDecisions(first, ds)[i] = first[i]
        /\ \A i \in 1..Len(ds) :
             LET e == EmitDecisions(first, ds)[Len(first) + i] IN
             /\ e.type = "policy_decided" /\ e.task = ds[i].task
             /\ e.decision[1].n = ds[i].n /\ e.ok = (ds[i].verdict # "deny")
    BY <1>2, <1>3, EmitDecisionsType
  <2> QED
    BY <1>4, <2>1
<1>6. FailedEvents(first) = FailedEvents(ledger)
  <2>1. Len(ledger) \in Nat
    BY <1>1
  <2>2. Len(ledger) <= Len(first) /\ \A i \in 1..Len(first) : i > Len(ledger) => first[i].type # "task_finished"
    BY <1>3, <2>1
  <2> QED
    BY <1>1, <1>3, <2>2, FailedEventsKept
<1>7. FailedEvents(begun) = FailedEvents(first)
  <2>1. Len(first) \in Nat /\ Len(ds) \in Nat /\ Len(begun) = Len(first) + Len(ds)
    <3>1. Len(first) \in Nat
      BY <1>3
    <3>2. Len(ds) \in Nat
      BY <1>2
    <3> QED
      BY <1>5, <3>1, <3>2
  <2>2. ASSUME NEW i \in 1..Len(begun), i > Len(first) PROVE begun[i].type = "policy_decided"
    <3>1. \A a, b \in Nat : \A k \in 1..(a + b) : k > a => k - a \in 1..b /\ a + (k - a) = k
      OBVIOUS
    <3>2. i \in 1..(Len(first) + Len(ds))
      BY <2>1
    <3>3. i - Len(first) \in 1..Len(ds) /\ Len(first) + (i - Len(first)) = i
      BY <2>1, <2>2, <3>1, <3>2
    <3> QED
      BY <1>5, <3>3
  <2>3. Len(first) <= Len(begun)
    <3>1. \A a, b \in Nat : a <= a + b
      OBVIOUS
    <3>2. Len(first) <= Len(first) + Len(ds)
      BY <2>1, <3>1
    <3> QED
      BY <2>1, <3>2
  <2>4. \A i \in 1..Len(begun) : i > Len(first) => begun[i].type # "task_finished"
    BY <2>2
  <2> QED
    BY <1>3, <1>5, <2>3, <2>4, FailedEventsKept
<1> QED
  BY <1>5, <1>6, <1>7

\* A task that starts has done nothing yet, and may fail for a denial.
LEMMA StartTaskStory ==
  ASSUME RunInvariant, FailureEnds, Story, StartTask PROVE Story'
<1> DEFINE ds    == EvaluateTask(contract, cursor, now, revoked)
           begun == EmitDecisions(Emit(ledger, "task_started", cursor, TRUE), ds)
<1>1. /\ pc = "sweep" /\ cursor \in TaskIds(contract)
      /\ UNCHANGED <<contract, cursor, performed, artifacts>>
      /\ IF Denied(ds) # {}
         THEN FailTask(begun, "policy")
         ELSE ledger' = begun /\ pc' = "act" /\ UNCHANGED <<status, failures>>
  BY DEF StartTask, launchVars
<1>2. begun \in Seq(Events) /\ FailedEvents(begun) = FailedEvents(ledger)
  BY <1>1, StartEvents
<1> HIDE DEF ds, begun
<1>3. /\ FailureEvents = FailedEvents(ledger)
      /\ \A x \in performed : /\ x[1] \in TaskIds(contract)
                              /\ status[x[1]] = "failed" \/ Among(x, artifacts)
  BY <1>1 DEF Story, FailuresListed, ActionsAccounted
<1>4. status \in [TaskIds(contract) -> TaskStatuses]
  BY DEF RunInvariant, TypeOK, ControlTypeOK
<1>5. CASE Denied(ds) # {}
  <2>1. FailTask(begun, "policy") /\ pc' = "finish" /\ status' = [status EXCEPT ![cursor] = "failed"]
    BY <1>1, <1>5 DEF FailTask
  <2>2. FailuresListed' /\ failures' # <<>>
    BY <1>1, <1>2, <2>1, FailureRecorded DEF Story
  <2>3. ActionsAccounted'
    <3>1. \A t \in TaskIds(contract) : status[t] = "failed" => status'[t] = "failed"
      BY <1>4, <2>1
    <3> QED
      BY <1>1, <1>3, <3>1 DEF ActionsAccounted
  <2> QED
    BY <2>1, <2>2, <2>3, NothingDelivered DEF Story, NoFailureSatisfies, LedgerClosed
<1>6. CASE Denied(ds) = {}
  <2>1. ledger' = begun /\ pc' = "act" /\ UNCHANGED <<status, failures>>
    BY <1>1, <1>6
  <2>2. FailuresListed'
    BY <1>2, <1>3, <2>1 DEF FailuresListed, FailureEvents
  <2>3. ActionsAccounted'
    BY <1>1, <1>3, <2>1 DEF ActionsAccounted
  <2> QED
    BY <2>1, <2>2, <2>3, NothingDelivered DEF Story, NoFailureSatisfies, LedgerClosed
<1> QED
  BY <1>5, <1>6

\* A task that fails while it acts needs no artifacts.
LEMMA FailTaskStory ==
  ASSUME RunInvariant, Story, pc = "act", NEW phase, FailTask(ledger, phase),
         UNCHANGED <<contract, artifacts>>, performed' \subseteq performed \cup {<<cursor, action>>}
  PROVE  Story'
<1>1. /\ ledger \in Seq(Events) /\ status \in [TaskIds(contract) -> TaskStatuses]
      /\ cursor \in TaskIds(contract)
  BY DEF RunInvariant, TypeOK, ControlTypeOK, RecordsTypeOK, WhileActing
<1>2. pc' = "finish" /\ status' = [status EXCEPT ![cursor] = "failed"]
  BY DEF FailTask
<1>3. FailuresListed' /\ failures' # <<>>
  BY <1>1, FailureRecorded DEF Story
<1>4. ActionsAccounted'
  <2>1. /\ status'[cursor] = "failed"
        /\ \A t \in TaskIds(contract) : status[t] = "failed" => status'[t] = "failed"
    BY <1>1, <1>2
  <2>2. \A x \in performed' : x \in performed \/ x[1] = cursor
    OBVIOUS
  <2> QED
    BY <1>1, <2>1, <2>2 DEF Story, ActionsAccounted
<1> QED
  BY <1>2, <1>3, <1>4, NothingDelivered DEF Story, NoFailureSatisfies, LedgerClosed

\* Every side effect that succeeds leaves artifacts, and it leaves them last.
LEMMA SucceedingLeaves ==
  ASSUME RunInvariant, pc = "act", WriteFile \/ ReadFile \/ SpawnProcess \/ NoAdapter
  PROVE  \/ ActionFailed
         \/ \E n \in Nat : \E arts \in [1..n -> Artifacts] :
              Succeeded(arts) /\ \E i \in 1..n : arts[i].id.task = cursor /\ arts[i].id.n = action
<1>1. /\ TypeOK /\ cursor \in TaskIds(contract) /\ action \in DOMAIN EffectsOf(contract, cursor)
      /\ workspace \in [Files -> Contents \cup {NoFile}]
  BY DEF RunInvariant, WhileActing, TypeOK, FilesTypeOK, WriteFile, ReadFile, SpawnProcess, NoAdapter, Acting
<1>2. \A stream, file, digest : /\ Artifact(stream, file, digest).id.task = cursor
                               /\ Artifact(stream, file, digest).id.n = action
  BY DEF Artifact
<1>3. ASSUME NEW a \in Artifacts, a.id.task = cursor, a.id.n = action, Succeeded(<<a>>)
      PROVE  \E n \in Nat : \E arts \in [1..n -> Artifacts] :
               Succeeded(arts) /\ \E i \in 1..n : arts[i].id.task = cursor /\ arts[i].id.n = action
  <2>1. <<a>> \in [1..1 -> Artifacts] /\ <<a>>[1] = a /\ 1 \in 1..1
    OBVIOUS
  <2> QED
    BY <1>3, <2>1
<1>4. CASE WriteFile
  <2>1. /\ Effect.res \in Paths /\ Effect.res \in Files
        /\ \A digest \in Contents : Artifact("artifact", Effect.res, digest) \in Artifacts
    BY <1>1, <1>4, ActingArtifact DEF WriteFile, Acting, Streams, Files
  <2>2. DemoText(contract, cursor) \in Contents
    <3>1. contract.objective \in Objectives /\ cursor \in Nat
      BY <1>1, TaskIdsInterval DEF TypeOK, InputsTypeOK, Contracts
    <3>2. DemoText(contract, cursor) \in Texts
      BY <3>1 DEF DemoText, Texts
    <3> QED
      BY <3>2 DEF Contents
  <2>3. Artifact("artifact", Effect.res, DemoText(contract, cursor)) \in Artifacts
    BY <2>1, <2>2
  <2>4. ActionFailed \/ Succeeded(<<Artifact("artifact", Effect.res, DemoText(contract, cursor))>>)
    BY <1>4, Zenon DEF WriteFile
  <2> QED
    BY <1>2, <1>3, <2>3, <2>4, Zenon
<1>5. CASE ReadFile
  <2>1. /\ Effect.res \in Paths /\ Effect.res \in Files
        /\ \A digest \in Contents : Artifact("read", Effect.res, digest) \in Artifacts
    BY <1>1, <1>5, ActingArtifact DEF ReadFile, Acting, Streams, Files
  <2>2. workspace[Effect.res] # NoFile => Artifact("read", Effect.res, workspace[Effect.res]) \in Artifacts
    BY <1>1, <2>1
  <2> QED
    BY <1>2, <1>3, <1>5, <2>2, Zenon DEF ReadFile
<1>6. CASE SpawnProcess
  <2>1. SUFFICES ASSUME ~ActionFailed
                 PROVE  \E n \in Nat : \E arts \in [1..n -> Artifacts] :
                          Succeeded(arts) /\ \E i \in 1..n : arts[i].id.task = cursor /\ arts[i].id.n = action
    OBVIOUS
  <2>2. PICK out \in Outputs, err \in Outputs :
          Succeeded(<<Artifact("stdout", Capture("stdout"), out), Artifact("stderr", Capture("stderr"), err)>>)
    BY <1>6, <2>1, Zenon DEF SpawnProcess
  <2>3. \A stream \in {"stdout", "stderr"} : Capture(stream) \in Files
    BY <1>1, <1>6, ActingArtifact DEF SpawnProcess, Acting, Files
  <2> DEFINE a == Artifact("stdout", Capture("stdout"), out)
             b == Artifact("stderr", Capture("stderr"), err)
  <2>4. a \in Artifacts /\ b \in Artifacts
    BY <1>1, <1>6, <2>3, ActingArtifact DEF SpawnProcess, Acting, Streams, Contents
  <2>5. Succeeded(<<a, b>>) /\ a.id.task = cursor /\ a.id.n = action
    BY <1>2, <2>2
  <2> HIDE DEF a, b
  <2>6. <<a, b>> \in [1..2 -> Artifacts] /\ <<a, b>>[1] = a /\ 1 \in 1..2
    BY <2>4
  <2> QED
    BY <2>5, <2>6
<1>7. CASE NoAdapter
  BY <1>7 DEF NoAdapter
<1> QED
  BY <1>4, <1>5, <1>6, <1>7

\* A side effect leaves its artifacts with the task, or fails it.
LEMMA ActingStory ==
  ASSUME RunInvariant, Story, WriteFile \/ ReadFile \/ SpawnProcess \/ NoAdapter
  PROVE  Story'
<1>1. /\ pc = "act" /\ UNCHANGED <<contract, artifacts, cursor>>
      /\ performed' = performed \cup {<<cursor, action>>}
  BY DEF WriteFile, ReadFile, SpawnProcess, NoAdapter, Acting, ActingUnchanged, launchVars
<1>2. CASE ActionFailed
  BY <1>1, <1>2, FailTaskStory DEF ActionFailed
<1>3. ASSUME NEW n \in Nat, NEW arts \in [1..n -> Artifacts], Succeeded(arts),
             \E i \in 1..n : arts[i].id.task = cursor /\ arts[i].id.n = action
      PROVE  Story'
  <2>1. pending' = pending \o arts /\ UNCHANGED <<pc, status, ledger, failures>>
    BY <1>3 DEF Succeeded
  <2>2. pending \in Seq(Artifacts)
    BY DEF RunInvariant, TypeOK, RecordsTypeOK
  <2>3. /\ \A x : Among(x, pending) => Among(x, pending')
        /\ Among(<<cursor, action>>, pending')
    BY <1>3, <2>1, <2>2, AmongKept
  <2>4. ActionsAccounted'
    <3>1. SUFFICES ASSUME NEW x \in performed'
                   PROVE  /\ x[1] \in TaskIds(contract)
                          /\ \/ status'[x[1]] = "failed" \/ Among(x, artifacts')
                             \/ x[1] = cursor' /\ Among(x, pending')
      BY <1>1, <2>1 DEF ActionsAccounted, Among
    <3>2. CASE x \in performed
      <4>1. Among(x, pending) => Among(x, pending')
        BY <2>3
      <4>2. /\ x[1] \in TaskIds(contract)
            /\ status[x[1]] = "failed" \/ Among(x, artifacts) \/ (x[1] = cursor /\ Among(x, pending))
        BY <1>1, <3>2 DEF Story, ActionsAccounted
      <4> QED
        BY <1>1, <2>1, <4>1, <4>2
    <3>3. CASE x = <<cursor, action>>
      <4>1. cursor \in TaskIds(contract)
        BY <1>1 DEF RunInvariant, WhileActing
      <4> QED
        BY <4>1, <1>1, <2>3, <3>3
    <3> QED
      BY <1>1, <3>2, <3>3
  <2>5. FailuresListed'
    BY <1>1, <2>1 DEF Story, FailuresListed, FailureEvents
  <2> QED
    BY <1>1, <2>1, <2>4, <2>5, NothingDelivered DEF Story, NoFailureSatisfies, LedgerClosed
<1> QED
  BY <1>1, <1>2, <1>3, SucceedingLeaves

\* A task that succeeds records its artifacts and that it succeeded.
LEMMA CompleteEvents ==
  ASSUME RunInvariant, RunInvariant', pc = "act", CompleteTask
  PROVE  FailedEvents(ledger') = FailedEvents(ledger)
<1>1. /\ ledger \in Seq(Events) /\ ledger' \in Seq(Events) /\ pending \in Seq(Artifacts)
      /\ cursor \in Nat
  BY DEF RunInvariant, TypeOK, RecordsTypeOK, ControlTypeOK
<1> DEFINE recorded == EmitArtifacts(ledger, cursor, pending)
           last == [Event(recorded, "task_finished", cursor, TRUE) EXCEPT
                      !.artifacts = {pending[i].id : i \in DOMAIN pending}]
<1>2. /\ recorded \in Seq(Events) /\ Len(recorded) = Len(ledger) + Len(pending)
      /\ \A i \in 1..Len(ledger) : recorded[i] = ledger[i]
      /\ \A i \in 1..Len(pending) : recorded[Len(ledger) + i].type = "artifact_recorded"
  BY <1>1, EmitArtifactsType
<1>3. last.ok /\ ledger' = Append(recorded, last)
  BY Zenon DEF Event, CompleteTask
<1> HIDE DEF recorded, last
<1>4. /\ Len(ledger') = Len(recorded) + 1 /\ ledger'[Len(recorded) + 1] = last
      /\ \A i \in 1..Len(recorded) : ledger'[i] = recorded[i]
  BY <1>2, <1>3
<1>5. Len(ledger) \in Nat /\ Len(pending) \in Nat /\ Len(recorded) \in Nat
  BY <1>1, <1>2
<1>6. FailedEvents(recorded) = FailedEvents(ledger)
  <2>1. ASSUME NEW i \in 1..Len(recorded), i > Len(ledger) PROVE recorded[i].type = "artifact_recorded"
    <3>1. i - Len(ledger) \in 1..Len(pending) /\ Len(ledger) + (i - Len(ledger)) = i
      BY <1>2, <1>5, <2>1
    <3> QED
      BY <1>2, <3>1
  <2>2. Len(ledger) <= Len(recorded) /\ \A i \in 1..Len(recorded) : i > Len(ledger) => recorded[i].type # "task_finished"
    BY <1>2, <1>5, <2>1
  <2> QED
    BY <1>1, <1>2, <2>2, FailedEventsKept
<1>7. FailedEvents(ledger') = FailedEvents(recorded)
  <2>1. \A i \in 1..Len(ledger') : i > Len(recorded) => ledger'[i].ok
    BY <1>3, <1>4, <1>5
  <2>2. Len(recorded) <= Len(ledger')
    BY <1>4, <1>5
  <2> QED
    BY <1>1, <1>2, <1>4, <2>1, <2>2, FailedEventsKept
<1> QED
  BY <1>6, <1>7

\* The artifacts of a task that succeeds go into the manifest.
LEMMA CompleteStory ==
  ASSUME RunInvariant, RunInvariant', FailureEnds, Story, FinishActions \/ Check
  PROVE  Story'
<1>1. pc = "act" /\ UNCHANGED <<contract, performed, pending>>
  BY DEF FinishActions, Check, launchVars, taskVars
<1>2. CASE CompleteTask /\ failures' = failures
  <2>1. /\ pc' = "sweep" /\ status' = [status EXCEPT ![cursor] = "success"]
        /\ artifacts' = artifacts \o [i \in 1..Len(pending) |-> [pending[i] EXCEPT !.event = Len(ledger) + i]]
    BY <1>2 DEF CompleteTask
  <2>2. FailuresListed'
    BY <1>1, <1>2, CompleteEvents DEF Story, FailuresListed, FailureEvents
  <2>3. /\ pending \in Seq(Artifacts) /\ artifacts \in Seq(Artifacts) /\ ledger \in Seq(Events)
    BY DEF RunInvariant, TypeOK, RecordsTypeOK
  <2> DEFINE more == [i \in 1..Len(pending) |-> [pending[i] EXCEPT !.event = Len(ledger) + i]]
  <2>4. more \in [1..Len(pending) -> Artifacts] /\ Len(pending) \in Nat
    <3>1. Len(ledger) \in Nat /\ Len(pending) \in Nat
      BY <2>3
    <3>2. ASSUME NEW i \in 1..Len(pending) PROVE [pending[i] EXCEPT !.event = Len(ledger) + i] \in Artifacts
      <4>1. pending[i] \in Artifacts /\ Len(ledger) + i \in Nat
        BY <2>3, <3>1
      <4> QED
        BY <4>1 DEF Artifacts
    <3> QED
      BY <3>1, <3>2
  <2>5. \A i \in 1..Len(pending) : more[i].id = pending[i].id
    <3>1. ASSUME NEW i \in 1..Len(pending) PROVE [pending[i] EXCEPT !.event = Len(ledger) + i].id = pending[i].id
      <4>1. pending[i] \in Artifacts
        BY <2>3
      <4> QED
        BY <4>1 DEF Artifacts
    <3> QED
      BY <3>1
  <2>6. artifacts' = artifacts \o more /\ DOMAIN pending = 1..Len(pending)
    BY <2>1, <2>3
  <2> HIDE DEF more
  <2>7. \A x : Among(x, artifacts) \/ Among(x, pending) => Among(x, artifacts')
    <3>1. SUFFICES ASSUME NEW x, Among(x, artifacts) \/ Among(x, pending) PROVE Among(x, artifacts')
      OBVIOUS
    <3>2. Among(x, pending) => \E i \in 1..Len(pending) : more[i].id.task = x[1] /\ more[i].id.n = x[2]
      BY <2>5, <2>6 DEF Among
    <3> QED
      BY <2>3, <2>4, <2>6, <3>1, <3>2, AmongKept
  <2>8. ActionsAccounted'
    <3>1. \A t \in TaskIds(contract) : status[t] # "failed"
      BY <1>1 DEF FailureEnds, RunFailed
    <3>2. SUFFICES ASSUME NEW x \in performed PROVE x[1] \in TaskIds(contract) /\ Among(x, artifacts')
      BY <1>1, <2>1 DEF ActionsAccounted, Among
    <3> QED
      BY <1>1, <2>7, <3>1 DEF Story, ActionsAccounted
  <2> QED
    BY <2>1, <2>2, <2>8, NothingDelivered DEF Story, NoFailureSatisfies, LedgerClosed
<1>3. CASE FailTask(ledger, "execution") /\ artifacts' = artifacts
  BY <1>1, <1>3, FailTaskStory
<1> QED
  BY <1>2, <1>3 DEF FinishActions, Check

\* There is no story before the first call.
LEMMA InitStory == Init => Story
<1> SUFFICES ASSUME Init PROVE Story
  OBVIOUS
<1>1. pc = "idle" /\ outcome = "none"
  BY DEF Init
<1> QED
  BY <1>1 DEF Story, FailuresListed, NoFailureSatisfies, LedgerClosed, ActionsAccounted,
              PackTellsOneStory, EffectsAccounted, Delivered

\* Whatever crashes or fails in between, the pack of a run that delivers tells of
\* the run what the ledger and the failures tell (executor.go:169-214).
LEMMA StoryHolds == Spec => []Story
<1>1. RunInvariant /\ RunInvariant' /\ FailureEnds /\ Story /\ [Next]_vars => Story'
  <2> SUFFICES ASSUME RunInvariant, RunInvariant', FailureEnds, Story, [Next]_vars PROVE Story'
    OBVIOUS
  <2>1. CASE Call
    BY <2>1, CallStory
  <2>2. CASE OpenLedger
    BY <2>2, OpenLedgerStory
  <2>3. CASE StartTask
    BY <2>3, StartTaskStory
  <2>4. CASE WriteFile \/ ReadFile \/ SpawnProcess \/ NoAdapter
    BY <2>4, ActingStory
  <2>5. CASE FinishActions \/ Check
    BY <2>5, CompleteStory
  <2>6. CASE Finish
    BY <2>6, FinishStory
  <2>7. CASE Publish
    BY <2>7, PublishStory
  <2>8. CASE \/ Snapshot \/ PassOver \/ EndSweep \/ Close \/ IOError \/ Crash \/ Tick \/ Edit
             \/ UNCHANGED vars
    BY <2>8, QuietStory
  <2> QED
    BY <2>1, <2>2, <2>3, <2>4, <2>5, <2>6, <2>7, <2>8 DEF Next, Step
<1>2. Init => FailureEnds
  BY DEF Init, FailureEnds, RunFailed
<1>3. Spec => []FailureEnds
  BY <1>2, FailureEndsKept, TypeCorrect, PTL DEF Spec
<1> QED
  BY <1>1, <1>3, InitStory, RunInvariantHolds, PTL DEF Spec

\* Status, ledger, failures and closure matrix of a published pack agree
\* (executor.go:169-214, closure/evaluator.go:3-23).
THEOREM PacksTellOneStory == Spec => []PackTellsOneStory
<1>1. Story => PackTellsOneStory
  BY DEF Story
<1> QED
  BY <1>1, StoryHolds, PTL

\* The manifest of a published pack covers what was carried out, but for the task
\* that failed (executor.go:133-152).
THEOREM EffectsAreAccounted == Spec => []EffectsAccounted
<1>1. Story => EffectsAccounted
  BY DEF Story
<1> QED
  BY <1>1, StoryHolds, PTL
=============================================================================
