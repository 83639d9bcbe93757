-------------------------------- MODULE Runs --------------------------------
(***************************************************************************)
(* Execute and Verify together: what can be said of a run, of the evidence *)
(* it leaves and of the verdict a later `covenant verify` gives on it.     *)
(***************************************************************************)
EXTENDS Executor, Verifier

Accepts(revokedIds) == Verify(ledgerFile, packFile, snapFiles, workspace, revokedIds)

\* The run that ended last is the one whose evidence the directory holds.
Delivered == pc = "idle" /\ outcome \in {"success", "failed"}

RunFailed == \E t \in TaskIds(contract) : status[t] = "failed"

-----------------------------------------------------------------------------
(* Type invariant. *)

InputsTypeOK ==
  /\ contract \in Contracts /\ revoked \in SUBSET TicketIds /\ allow \in SUBSET Commands
  /\ Len(contract.tasks) <= MaxTasks
  /\ \A t \in TaskIds(contract) : Len(EffectsOf(contract, t)) <= MaxEffects

ControlTypeOK ==
  /\ pc \in Locations /\ outcome \in Outcomes
  /\ cursor \in Nat \ {0} /\ progress \in BOOLEAN /\ completed \in Nat
  /\ status \in [TaskIds(contract) -> TaskStatuses]
  /\ action \in Nat \ {0}
  /\ now \in Nat /\ attempts \in 0..MaxAttempts

RecordsTypeOK ==
  /\ ledger \in Seq(Events)
  /\ decisions \in Seq(Decisions)
  /\ pending \in Seq(Artifacts) /\ artifacts \in Seq(Artifacts)
  /\ snapshots \in Seq(Snapshots)
  /\ failures \in Seq(Failures)
  /\ performed \in SUBSET (Nat \X Nat)

FilesTypeOK ==
  /\ workspace \in [Files -> Contents \cup {NoFile}]
  /\ ledgerFile \in LedgerFiles
  /\ packFile \in Packs \cup {NoFile, Empty}
  /\ snapFiles \in [Paths -> Contents \cup {NoFile}]
  /\ edited \subseteq Paths \X {"during", "after"}

\* Every variable holds a value of the kind the code's types allow.
TypeOK == InputsTypeOK /\ ControlTypeOK /\ RecordsTypeOK /\ FilesTypeOK

-----------------------------------------------------------------------------
(* Safety of one run. *)

\* What entitles a task to a side effect when the decision is taken at time
\* `at`: a declared path, or an approved ticket in force and not revoked.
Entitled(t, e, at) ==
  CASE e.type = "file.write" -> e.res \in contract.writes
    [] e.type = "file.read"  -> e.res \in Reads(contract)
    [] OTHER ->
         \E i \in DOMAIN contract.approvals :
           LET k == contract.approvals[i] IN
           /\ k.approved /\ k.task = t /\ k.effect = e
           /\ k.id \notin revoked
           /\ k.expires = Never \/ (k.expires \in Nat /\ k.expires > at)

\* An allow decision on side effect n of task t that was justified when taken.
AllowDecided(t, n) ==
  \E i \in DOMAIN decisions :
    LET d == decisions[i] IN
    /\ d.task = t /\ d.n = n /\ d.verdict = "allow"
    /\ d.effect = EffectsOf(contract, t)[n]
    /\ Entitled(t, d.effect, d.at)

AllowRecorded(t, n) ==
  \E i \in DOMAIN ledger : /\ ledger[i].type = "policy_decided"
                           /\ ledger[i].task = t
                           /\ ledger[i].decision[1].n = n
                           /\ ledger[i].ok

\* The executor calls the adapter for a side effect only after the run has
\* collected, and put in its ledger, an allow decision about it that the
\* contract and the revocation list justified at that moment
\* (executor.go:111-133; evaluator.go:32-68).
EffectsAuthorized ==
  \A x \in performed : AllowDecided(x[1], x[2]) /\ AllowRecorded(x[1], x[2])

\* In the ledger a task starts after every task it depends on has finished
\* successfully, whatever the order of c.Tasks (executor.go:96-107).
DependenciesFirst ==
  \A i \in DOMAIN ledger : ledger[i].type = "task_started" =>
    \A d \in Deps(contract, ledger[i].task) :
      \E j \in 1..(i - 1) : /\ ledger[j].type = "task_finished"
                            /\ ledger[j].task = d
                            /\ ledger[j].ok

\* A task of kind evaluate succeeds only when every required obligation is already
\* met by another task that succeeded before it.  What it claims itself does not
\* count, so that a contract whose only claimant of a required obligation is its
\* evaluate task, which Validate accepts, cannot succeed (executor.go:311-313,
\* 450-468).
EvaluatedAfterClaims ==
  \A i \in DOMAIN ledger :
    /\ ledger[i].type = "task_finished" /\ ledger[i].ok
    /\ Kind(contract, ledger[i].task) = "evaluate"
    => \A o \in contract.required :
         \E j \in 1..(i - 1) : /\ ledger[j].type = "task_finished"
                               /\ ledger[j].task \in Claimants(contract, o) \ {ledger[i].task}
                               /\ ledger[j].ok

\* Tasks run and are judged in an order the contract's dependencies and claims
\* allow, whatever the order they are listed in (executor.go:96-107, 311-313).
TasksInOrder == DependenciesFirst /\ EvaluatedAfterClaims

\* A validated contract never brings Execute to "task graph made no progress"
\* (executor.go:159-161): what hasCycle lets through can be scheduled.
NeverStalls == outcome # "stalled"

\* The pack a run publishes tells one story: status, ledger, failures and
\* closure matrix agree (executor.go:169-214, closure/evaluator.go:3-23).
PackTellsOneStory ==
  Delivered =>
    LET last == packFile.ledger[Len(packFile.ledger)] IN
    /\ packFile.status = outcome
    /\ last.type = "run_finished" /\ last.ok = (outcome = "success")
    /\ (packFile.closure.status = "accepted") = (outcome = "success")
    /\ {packFile.failures[i].event : i \in DOMAIN packFile.failures} =
         {i \in DOMAIN packFile.ledger : /\ packFile.ledger[i].type = "task_finished"
                                         /\ ~packFile.ledger[i].ok}

\* Every side effect carried out has an artifact in the manifest, unless it
\* belongs to the task that failed (executor.go:133-152).
EffectsAccounted ==
  Delivered =>
    \A x \in performed :
      \/ status[x[1]] = "failed"
      \/ \E i \in DOMAIN packFile.artifacts :
           packFile.artifacts[i].id.task = x[1] /\ packFile.artifacts[i].id.n = x[2]

\* Once a task has failed, the run carries out no more side effects.
NothingAfterFailure == [][RunFailed /\ contract' = contract /\ attempts' = attempts
                            => performed' = performed]_vars

-----------------------------------------------------------------------------
(* What the code relies on from one step of Execute to the next. *)

BeforeEvents ==
  pc = "snapshot" => /\ ledger = <<>> /\ performed = {} /\ cursor = 1
                     /\ \A t \in TaskIds(contract) : status[t] = "pending"

\* A task whose side effects are under way has been allowed every one of them.
WhileActing ==
  pc = "act" => /\ cursor \in TaskIds(contract) /\ status[cursor] # "success" /\ progress
                /\ \A n \in DOMAIN EffectsOf(contract, cursor) :
                     AllowDecided(cursor, n) /\ AllowRecorded(cursor, n)

\* What a sweep that has started no task passed over cannot be started now.
WhileSweeping ==
  pc = "sweep" /\ ~progress =>
    \A t \in TaskIds(contract) : t < cursor => status[t] = "success" \/ ~DepsComplete(t)

CompletedCounts == completed = Cardinality({t \in TaskIds(contract) : status[t] = "success"})

SuccessRecorded ==
  \A t \in TaskIds(contract) : status[t] = "success" =>
    \E j \in DOMAIN ledger : /\ ledger[j].type = "task_finished"
                             /\ ledger[j].task = t
                             /\ ledger[j].ok

ValidUnderway == pc # "idle" => Valid(contract)

\* The inductive invariant behind EffectsAuthorized, DependenciesFirst and
\* NeverStalls (executor.go:94-162).
RunInvariant ==
  /\ TypeOK
  /\ BeforeEvents /\ WhileActing /\ WhileSweeping
  /\ CompletedCounts /\ SuccessRecorded /\ ValidUnderway
  /\ EffectsAuthorized /\ DependenciesFirst /\ NeverStalls

-----------------------------------------------------------------------------
(* The verdict on the evidence. *)

\* A ledger and a pack of one complete run: from run_started to run_finished,
\* with every decision event and every artifact event of the ledger in the
\* pack and the other way round.
OneWholeRun(l, p) ==
  /\ l[1].type = "run_started"
  /\ {i \in DOMAIN l : l[i].type = "run_finished"} = {Len(l)}
  /\ l[Len(l)].ok = (p.status = "success")
  /\ {<<l[i].task, l[i].decision[1].n, l[i].ok>> :
        i \in {j \in DOMAIN l : l[j].type = "policy_decided"}}
     = {<<p.decisions[i].task, p.decisions[i].n, p.decisions[i].verdict = "allow">> :
        i \in DOMAIN p.decisions}
  /\ UNION {l[i].artifacts : i \in {j \in DOMAIN l : l[j].type = "artifact_recorded"}}
     = {p.artifacts[i].id : i \in DOMAIN p.artifacts}

\* Evidence that verifies is that of one complete run, whatever crashed, failed
\* or was repeated before, and every file it vouches for holds what the run
\* recorded (verifier.go:19-78 against executor.go).
AcceptedEvidenceIsWhole ==
  Accepts({}) =>
    /\ OneWholeRun(ledgerFile.lines, packFile)
    /\ \A i \in DOMAIN packFile.artifacts :
         workspace[packFile.artifacts[i].path] = packFile.artifacts[i].digest
    /\ \A i \in DOMAIN packFile.snapshots :
         snapFiles[packFile.snapshots[i].path] = packFile.snapshots[i].digest

\* A contract whose run leaves every file as the task that produced it did:
\* no process, and no path written by one side effect and used by another.
Quiet(c) ==
  \A t, u \in TaskIds(c) : \A m \in DOMAIN EffectsOf(c, t), n \in DOMAIN EffectsOf(c, u) :
    LET e == EffectsOf(c, t)[m]
        f == EffectsOf(c, u)[n]
    IN /\ e.type # "process.spawn"
       /\ (<<t, m>> # <<u, n>> /\ e.type = "file.write") => e.res # f.res

\* The evidence of a run that delivered verifies, with the very revocation
\* list the run was given, as long as nobody touched the workspace since the
\* launch, the contract is quiet, and no decision met a revoked ticket.
FreshEvidenceVerifies ==
  /\ Delivered /\ edited = {} /\ Quiet(contract)
  /\ \A i \in DOMAIN decisions : decisions[i].reason # "revoked"
  => Accepts(revoked)

\* REFERENCE.md:707-709: "Declared source files may change after a run without
\* invalidating verification, because `input_snapshots` are checked against the
\* copied run-bundle files."
SourcesMayChange ==
  /\ Delivered /\ Quiet(contract)
  /\ \A i \in DOMAIN decisions : decisions[i].reason # "revoked"
  /\ \A x \in edited : x[1] \in Reads(contract) \ contract.writes /\ x[2] = "after"
  => Accepts(revoked)

-----------------------------------------------------------------------------
(* What a run promises. *)

\* A task is granted when it was started and none of its decisions is a denial.
GrantedTasks ==
  {t \in TaskIds(contract) :
     /\ \E i \in DOMAIN ledger : ledger[i].type = "task_started" /\ ledger[i].task = t
     /\ \A i \in DOMAIN ledger :
          ledger[i].type = "policy_decided" /\ ledger[i].task = t => ledger[i].ok}

Gov == INSTANCE GovernedRun WITH
         Jobs       <- {l.contract : l \in Launches},
         job        <- contract,
         underway   <- pc # "idle",
         granted    <- GrantedTasks,
         carriedOut <- performed,
         done       <- {t \in TaskIds(contract) : status[t] = "success"},
         verdict    <- IF Delivered THEN packFile.closure.status ELSE "none"

\* Execute, with crashes, failing writes and repeated calls, implements the
\* governed run: whatever the sweep, the adapter and the closure evaluator do
\* is a step GovernedRun allows, or none.
ImplementsGovernedRun == Gov!GovSpec

-----------------------------------------------------------------------------
(* Liveness. *)

\* Execute returns, whatever the policy decides and whichever task fails.
ExecuteReturns == (pc # "idle") ~> (pc = "idle")
=============================================================================
