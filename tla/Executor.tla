------------------------------ MODULE Executor ------------------------------
(***************************************************************************)
(* One run directory and the process that fills it: run.Execute            *)
(* (internal/run/executor.go) with the default action adapter              *)
(* (internal/run/adapter.go).  Execute may be launched again under the     *)
(* same run id; between its steps time passes, the user edits workspace    *)
(* files and the process may die.                                          *)
(***************************************************************************)
EXTENDS Evidence

CONSTANTS
  Launches,      (* [contract, revoked, allow]: the ways Execute is called *)
  MaxAttempts,   (* bound: launches under the one run id                   *)
  MaxTime,       (* bound: the clock                                       *)
  MaxEdits       (* bound: edits of workspace files by the user            *)

ASSUME LaunchesAssumption ==
  /\ Launches # {}
  /\ \A l \in Launches : /\ l.contract \in Contracts
                         /\ Len(l.contract.tasks) <= MaxTasks
                         /\ \A t \in TaskIds(l.contract) :
                              Len(EffectsOf(l.contract, t)) <= MaxEffects
                         /\ l.revoked \subseteq TicketIds
                         /\ l.allow \subseteq Commands
ASSUME BoundsAssumption ==
  /\ MaxTasks \in Nat /\ MaxEffects \in Nat
  /\ MaxAttempts \in Nat /\ MaxTime \in Nat /\ MaxEdits \in Nat

VARIABLES
  contract, revoked, allow,   \* arguments of Execute
  pc,          \* where Execute is
  cursor,      \* the task the sweep over c.Tasks looks at
  progress,    \* this sweep started a task
  completed,   \* tasks that succeeded
  status,      \* status of every task
  action,      \* side effect the current task is at
  pending,     \* artifacts of the current task
  ledger,      \* events emitted by the recorder
  decisions, artifacts, snapshots, failures,   \* what the pack will hold
  performed,   \* history: side effects ExecuteAction was called for, as <<task, n>>
  outcome,     \* how the last Execute ended
  workspace,   \* the workspace: path -> contents
  ledgerFile, packFile, snapFiles,             \* the run directory
  now, attempts,
  edited       \* history: <<path, "during" | "after">> edited since the launch

launchVars == <<contract, revoked, allow, attempts>>
sweepVars  == <<cursor, progress, completed, status>>
taskVars   == <<action, pending, performed>>
recordVars == <<ledger, decisions, artifacts, failures>>
dirVars    == <<ledgerFile, packFile, snapFiles>>
envVars    == <<now, edited>>
vars == <<launchVars, sweepVars, taskVars, recordVars, snapshots, dirVars, envVars,
          pc, outcome, workspace>>

TaskStatuses == {"pending", "success", "failed"}
Locations == {"idle", "snapshot", "sweep", "act", "close", "finish", "publish"}
Outcomes == {"none", "running", "success", "failed", "refused", "unreadable",
             "stalled", "unsatisfied", "error", "crashed"}

Init ==
  /\ \E l \in Launches :
       contract = l.contract /\ revoked = l.revoked /\ allow = l.allow
  /\ pc = "idle" /\ outcome = "none"
  /\ cursor = 1 /\ progress = FALSE /\ completed = 0
  /\ status = [t \in TaskIds(contract) |-> "pending"]
  /\ action = 1 /\ pending = <<>> /\ performed = {}
  /\ ledger = <<>> /\ decisions = <<>> /\ artifacts = <<>> /\ failures = <<>>
  /\ snapshots = <<>>
  /\ \E given \in [Paths -> Sources \cup {NoFile}] :
       workspace = [f \in Files |-> IF f \in Paths THEN given[f] ELSE NoFile]
  /\ ledgerFile = NoLedger /\ packFile = NoFile
  /\ snapFiles = [p \in Paths |-> NoFile]
  /\ now = 0 /\ attempts = 0 /\ edited = {}

-----------------------------------------------------------------------------
(* The recorder. *)

Event(l, type, t, ok) ==
  [type |-> type, seq |-> Len(l) + 1, prev |-> Len(l), task |-> t, ok |-> ok,
   decision |-> <<>>, artifacts |-> {}]

Emit(l, type, t, ok) == Append(l, Event(l, type, t, ok))

EmitDecisions(l, ds) ==
  l \o [i \in 1..Len(ds) |->
          [type |-> "policy_decided", seq |-> Len(l) + i, prev |-> Len(l) + i - 1,
           task |-> ds[i].task, ok |-> ds[i].verdict # "deny",
           decision |-> <<[n |-> ds[i].n, effect |-> ds[i].effect, ticket |-> ds[i].ticket]>>,
           artifacts |-> {}]]

EmitArtifacts(l, t, as) ==
  l \o [i \in 1..Len(as) |->
          [type |-> "artifact_recorded", seq |-> Len(l) + i, prev |-> Len(l) + i - 1,
           task |-> t, ok |-> TRUE, decision |-> <<>>,
           artifacts |-> {as[i].id}]]

\* What a bufio.Writer that was not flushed to the end has left in events.ndjson.
Flushed(l) ==
  {[lines |-> SubSeq(l, 1, k), torn |-> cut] : k \in 0..Len(l), cut \in BOOLEAN}
    \ {[lines |-> l, torn |-> TRUE]}

-----------------------------------------------------------------------------
(* Before the first event. *)

Readable(c) == \A p \in Reads(c) : workspace[p] # NoFile

Arguments(l) ==
  /\ pc = "idle" /\ attempts < MaxAttempts
  /\ attempts' = attempts + 1
  /\ contract' = l.contract /\ revoked' = l.revoked /\ allow' = l.allow
  /\ cursor' = 1 /\ progress' = FALSE /\ completed' = 0
  /\ status' = [t \in TaskIds(l.contract) |-> "pending"]
  /\ action' = 1 /\ pending' = <<>> /\ performed' = {}
  /\ ledger' = <<>> /\ decisions' = <<>> /\ artifacts' = <<>> /\ failures' = <<>>
  /\ snapshots' = <<>> /\ edited' = {}
  /\ UNCHANGED <<dirVars, workspace, now>>

\* Validate or verifyDeclaredReads fails: the run directory stays as it was.
Refuse(l) ==
  /\ ~Valid(l.contract) \/ ~Readable(l.contract)
  /\ Arguments(l)
  /\ pc' = "idle"
  /\ outcome' = IF Valid(l.contract) THEN "unreadable" ELSE "refused"

Launch(l) ==
  /\ Valid(l.contract) /\ Readable(l.contract)
  /\ Arguments(l)
  /\ pc' = "snapshot" /\ outcome' = "running"

Return(how) == pc' = "idle" /\ outcome' = how

\* writeInputSnapshot for the next declared read.
Snapshot ==
  LET p == contract.reads[Len(snapshots) + 1] IN
  /\ pc = "snapshot" /\ Len(snapshots) < Len(contract.reads)
  /\ IF workspace[p] = NoFile
     THEN Return("unreadable") /\ UNCHANGED <<snapFiles, snapshots>>
     ELSE /\ snapFiles' = [snapFiles EXCEPT ![p] = workspace[p]]
          /\ snapshots' = Append(snapshots, [path |-> p, digest |-> workspace[p]])
          /\ UNCHANGED <<pc, outcome>>
  /\ UNCHANGED <<launchVars, sweepVars, taskVars, recordVars, ledgerFile, packFile,
                 envVars, workspace>>

\* os.Create empties events.ndjson; the evidence pack of an earlier attempt stays.
OpenLedger ==
  /\ pc = "snapshot" /\ Len(snapshots) = Len(contract.reads)
  /\ ledgerFile' = NoLedger
  /\ ledger' = Emit(<<>>, "run_started", 0, TRUE)
  /\ pc' = "sweep"
  /\ UNCHANGED <<launchVars, sweepVars, taskVars, decisions, artifacts, failures,
                 snapshots, packFile, snapFiles, envVars, outcome, workspace>>

-----------------------------------------------------------------------------
(* The sweep over c.Tasks. *)

\* Variant for mutation: it is enough that no dependency failed.
DepsNotFailed(t) == \A d \in Deps(contract, t) : status[d] # "failed"

DepsComplete(t) == \A d \in Deps(contract, t) : status[d] = "success"

PassOver ==
  /\ pc = "sweep" /\ cursor \in TaskIds(contract)
  /\ status[cursor] = "success" \/ ~DepsComplete(cursor)
  /\ cursor' = cursor + 1
  /\ UNCHANGED <<launchVars, progress, completed, status, taskVars, recordVars,
                 snapshots, dirVars, envVars, pc, outcome, workspace>>

\* The task fails; l is the ledger its last event is appended to.
FailTask(l, phase) ==
  /\ status' = [status EXCEPT ![cursor] = "failed"]
  /\ ledger' = Emit(l, "task_finished", cursor, FALSE)
  /\ failures' = Append(failures, [event |-> Len(l) + 1, task |-> cursor, phase |-> phase])
  /\ pc' = "finish"

\* task_started, then a decision for every declared side effect; the first
\* denied one fails the task before any of its side effects is carried out.
StartTask ==
  LET ds    == EvaluateTask(contract, cursor, now, revoked)
      begun == EmitDecisions(Emit(ledger, "task_started", cursor, TRUE), ds)
  IN
  /\ pc = "sweep" /\ cursor \in TaskIds(contract)
  /\ status[cursor] # "success" /\ DepsComplete(cursor)
  /\ progress' = TRUE
  /\ decisions' = decisions \o ds
  /\ action' = 1 /\ pending' = <<>>
  /\ IF Denied(ds) # {}
     THEN FailTask(begun, "policy")
     ELSE ledger' = begun /\ pc' = "act" /\ UNCHANGED <<status, failures>>
  /\ UNCHANGED <<launchVars, cursor, completed, performed, artifacts, snapshots,
                 dirVars, envVars, outcome, workspace>>

EndSweep ==
  /\ pc = "sweep" /\ cursor = Len(contract.tasks) + 1
  /\ IF completed = Len(contract.tasks)
     THEN pc' = "close" /\ UNCHANGED <<cursor, progress, outcome, ledgerFile>>
     ELSE IF progress
     THEN cursor' = 1 /\ progress' = FALSE /\ UNCHANGED <<pc, outcome, ledgerFile>>
     ELSE Return("stalled") /\ ledgerFile' \in Flushed(ledger) /\ UNCHANGED <<cursor, progress>>
  /\ UNCHANGED <<launchVars, completed, status, taskVars, recordVars, snapshots,
                 packFile, snapFiles, envVars, workspace>>

-----------------------------------------------------------------------------
(* Carrying out a task. *)

\* The events and bookkeeping of a task that succeeded.
CompleteTask ==
  LET recorded == EmitArtifacts(ledger, cursor, pending) IN
  /\ artifacts' = artifacts \o
       [i \in 1..Len(pending) |-> [pending[i] EXCEPT !.event = Len(ledger) + i]]
  /\ ledger' = Append(recorded,
       [Event(recorded, "task_finished", cursor, TRUE) EXCEPT
          !.artifacts = {pending[i].id : i \in DOMAIN pending}])
  /\ status' = [status EXCEPT ![cursor] = "success"]
  /\ completed' = completed + 1
  /\ cursor' = cursor + 1
  /\ pc' = "sweep"

Effect == EffectsOf(contract, cursor)[action]

Acting(type) ==
  /\ pc = "act" /\ Kind(contract, cursor) \in AdapterKinds
  /\ action \in DOMAIN EffectsOf(contract, cursor)
  /\ Effect.type = type

\* The adapter's artifact for the current side effect; CompleteTask fills in its event.
Artifact(stream, file, digest) ==
  [id |-> [task |-> cursor, n |-> action, stream |-> stream],
   path |-> file, digest |-> digest, event |-> 0]

Capture(stream) == [task |-> cursor, n |-> action, stream |-> stream]

\* Variant for mutation: only the last side effect's artifacts are kept.
SucceededLast(as) ==
  /\ pending' = as
  /\ action' = action + 1
  /\ UNCHANGED <<pc, status, ledger, failures>>

Succeeded(as) ==
  /\ pending' = pending \o as
  /\ action' = action + 1
  /\ UNCHANGED <<pc, status, ledger, failures>>

\* Variants for mutation: the task goes on to its next side effect; the
\* failed side effect is tried again.
ActionFailedLate ==
  /\ status' = [status EXCEPT ![cursor] = "failed"]
  /\ action' = action + 1
  /\ UNCHANGED <<pc, ledger, failures, pending>>
ActionRetried == UNCHANGED <<pc, status, ledger, failures, pending, action>>

\* The artifacts of the task's earlier side effects are dropped with it.
ActionFailed == FailTask(ledger, "adapter") /\ UNCHANGED <<pending, action>>

ActingUnchanged ==
  /\ performed' = performed \cup {<<cursor, action>>}
  /\ UNCHANGED <<launchVars, cursor, progress, completed, decisions,
                 artifacts, snapshots, dirVars, envVars, outcome>>

\* os.WriteFile may fail before or after it has cut the file to nothing.
WriteFile ==
  /\ Acting("file.write")
  /\ \/ /\ workspace' = [workspace EXCEPT ![Effect.res] = DemoText(contract, cursor)]
        /\ Succeeded(<<Artifact("artifact", Effect.res, DemoText(contract, cursor))>>)
     \/ /\ workspace' \in {workspace, [workspace EXCEPT ![Effect.res] = Empty]}
        /\ ActionFailed
  /\ ActingUnchanged

ReadFile ==
  /\ Acting("file.read")
  /\ IF workspace[Effect.res] = NoFile
     THEN ActionFailed
     ELSE Succeeded(<<Artifact("read", Effect.res, workspace[Effect.res])>>)
  /\ UNCHANGED workspace /\ ActingUnchanged

\* A command may leave one workspace file changed, created or gone.
LeftByCommand ==
  {workspace} \cup {[workspace EXCEPT ![p] = x] : p \in Paths, x \in Sources \cup {NoFile}}

\* It fails when not allowlisted, on a non-zero exit, on the timeout, or when
\* a capture cannot be written; what it did to the workspace stays.
SpawnProcess ==
  /\ Acting("process.spawn")
  /\ \/ /\ Effect.res \in allow
        /\ \E left \in LeftByCommand, out, err \in Outputs :
             /\ workspace' = [left EXCEPT ![Capture("stdout")] = out,
                                          ![Capture("stderr")] = err]
             /\ Succeeded(<<Artifact("stdout", Capture("stdout"), out),
                            Artifact("stderr", Capture("stderr"), err)>>)
     \/ /\ \/ Effect.res \notin allow /\ UNCHANGED workspace
           \/ Effect.res \in allow /\ workspace' \in LeftByCommand
        /\ ActionFailed
  /\ ActingUnchanged

NoAdapter ==
  /\ Acting("network.request") \/ Acting("claim.publish")
  /\ ActionFailed
  /\ UNCHANGED workspace /\ ActingUnchanged

FinishActions ==
  /\ pc = "act" /\ Kind(contract, cursor) \in AdapterKinds
  /\ action = Len(EffectsOf(contract, cursor)) + 1
  /\ CompleteTask
  /\ UNCHANGED <<launchVars, progress, taskVars, decisions, failures, snapshots,
                 dirVars, envVars, outcome, workspace>>

\* Variant for mutation: the task that asks counts as done.
RequiredSatisfiedWithSelf ==
  \A o \in contract.required :
    \E t \in Claimants(contract, o) : status[t] = "success" \/ t = cursor

RequiredSatisfied ==
  \A o \in contract.required : \E t \in Claimants(contract, o) : status[t] = "success"

CheckPasses ==
  CASE Kind(contract, cursor) = "verify" ->
         \A p \in contract.writes : workspace[p] \notin {NoFile, Empty}
    [] Kind(contract, cursor) = "review"   -> DepsComplete(cursor)
    [] Kind(contract, cursor) = "evaluate" -> RequiredSatisfied

\* verify, review and evaluate carry out none of their declared side effects.
Check ==
  /\ pc = "act" /\ Kind(contract, cursor) \in CheckKinds
  /\ IF CheckPasses
     THEN CompleteTask /\ UNCHANGED failures
     ELSE FailTask(ledger, "execution") /\ UNCHANGED <<artifacts, completed, cursor>>
  /\ UNCHANGED <<launchVars, progress, taskVars, decisions, snapshots, dirVars,
                 envVars, outcome, workspace>>

-----------------------------------------------------------------------------
(* The end of the run. *)

\* Every task succeeded.  Without a required obligation Execute returns at
\* once: no run_finished, no evidence pack, the ledger never flushed.
Close ==
  /\ pc = "close"
  /\ IF RequiredSatisfied
     THEN pc' = "finish" /\ UNCHANGED <<outcome, ledgerFile>>
     ELSE Return("unsatisfied") /\ ledgerFile' \in Flushed(ledger)
  /\ UNCHANGED <<launchVars, sweepVars, taskVars, recordVars, snapshots, packFile,
                 snapFiles, envVars, workspace>>

Finish ==
  /\ pc = "finish"
  /\ ledger' = Emit(ledger, "run_finished", 0, failures = <<>>)
  /\ ledgerFile' = [lines |-> ledger', torn |-> FALSE]
  /\ pc' = "publish"
  /\ UNCHANGED <<launchVars, sweepVars, taskVars, decisions, artifacts, failures,
                 snapshots, packFile, snapFiles, envVars, outcome, workspace>>

\* Variant for mutation: some task succeeded.
PartialSuccess == IF completed > 0 THEN "success" ELSE "failed"

RunStatus == IF failures = <<>> THEN "success" ELSE "failed"

Publish ==
  /\ pc = "publish"
  /\ packFile' =
       [contract  |-> contract,   ledger    |-> ledgerFile.lines,
        status    |-> RunStatus,  artifacts |-> artifacts,
        snapshots |-> snapshots,  decisions |-> decisions,
        failures  |-> failures,
        closure   |-> EvaluateClosure(contract, RunStatus, status, artifacts, decisions)]
  /\ Return(RunStatus)
  /\ UNCHANGED <<launchVars, sweepVars, taskVars, recordVars, snapshots, ledgerFile,
                 snapFiles, envVars, workspace>>

\* What a write cut short at this point leaves in the run directory.
CutShort ==
  CASE pc = "snapshot" ->
         /\ \/ UNCHANGED snapFiles
            \/ /\ Len(snapshots) < Len(contract.reads)
               /\ snapFiles' = [snapFiles EXCEPT ![contract.reads[Len(snapshots) + 1]] = Empty]
         /\ UNCHANGED <<ledgerFile, packFile>>
    [] pc \in {"sweep", "act", "close", "finish"} ->
         ledgerFile' \in Flushed(ledger) /\ UNCHANGED <<packFile, snapFiles>>
    [] pc = "publish" ->
         packFile' \in {packFile, Empty} /\ UNCHANGED <<ledgerFile, snapFiles>>

Abort(how) ==
  /\ CutShort
  /\ Return(how)
  /\ UNCHANGED <<launchVars, sweepVars, taskVars, recordVars, snapshots, envVars, workspace>>

\* A snapshot, an event, the flush or the pack cannot be written.
IOError == pc \in Locations \ {"idle", "close"} /\ Abort("error")

-----------------------------------------------------------------------------
(* The environment. *)

Crash == pc # "idle" /\ Abort("crashed")

EnvUnchanged == UNCHANGED <<launchVars, sweepVars, taskVars, recordVars, snapshots,
                            dirVars, pc, outcome>>

Tick == now < MaxTime /\ now' = now + 1 /\ EnvUnchanged /\ UNCHANGED <<edited, workspace>>

\* The user writes or removes a workspace file.
Edit ==
  /\ Cardinality(edited) < MaxEdits
  /\ \E p \in Paths, x \in Sources \cup {NoFile} :
       /\ x # workspace[p]
       /\ workspace' = [workspace EXCEPT ![p] = x]
       /\ edited' = edited \cup {<<p, IF pc = "idle" THEN "after" ELSE "during">>}
  /\ EnvUnchanged /\ UNCHANGED now

-----------------------------------------------------------------------------
\* The steps Execute takes by itself once it has been called.
Step ==
  \/ Snapshot \/ OpenLedger
  \/ PassOver \/ StartTask \/ EndSweep
  \/ WriteFile \/ ReadFile \/ SpawnProcess \/ NoAdapter \/ FinishActions \/ Check
  \/ Close \/ Finish \/ Publish

Call == \E l \in Launches : Refuse(l) \/ Launch(l)

Next == Call \/ Step \/ IOError \/ Crash \/ Tick \/ Edit

Spec == Init /\ [][Next]_vars

\* A goroutine that can run does run; nobody need call Execute, and nothing
\* need go wrong.
FairSpec == Spec /\ WF_vars(Step)
=============================================================================
