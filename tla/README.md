# Covenant in TLA+

Covenant compiles a brief into a *contract* (tasks, dependencies, declared side
effects, obligations), executes it under a strict policy with operator
*approval tickets*, and leaves *evidence*: a hash-chained event ledger, an
evidence pack with a closure matrix, and input snapshots.  A verifier decides
later whether the evidence can be believed, and a bundle carries it elsewhere.
This directory holds the TLA+ model of that system, its model-checking runs and
its proofs.  Paths below are relative to `src/internal/` unless they name a
document of the repository (`REFERENCE.md`, `docs/`).

## 1. Inventory

| Part | State it keeps | Operations | Talks to | What is hard | What makes it correct |
|---|---|---|---|---|---|
| contract (`contract/types.go`, `validate.go`) | a JSON file | `Validate` | everyone | the cycle check decides whether a run can be scheduled at all | whatever it accepts can be executed to an end |
| compiler (`contract/compile.go`, `authoring.go`) | contract file and digest sidecar | compile | output writer | a parser with open tasks and obligations, writes named in three places and several spellings | nothing in a brief is dropped, and what is compiled validates and may do what it declares |
| lint (`contract/lint.go`) | none; reads a brief or a contract and a baseline | lint | cli | a second implementation of the checks of compile and of `Validate`; baselines of earlier drafts | says what compile and run will say, and hides only what was accepted |
| policy (`policy/evaluator.go`, `governance_classification.go`) | none | `EvaluateTask` | executor, explain | expiry, revocation and order of tickets | allow exactly what is declared or approved, in force and not revoked |
| executor (`run/executor.go`) | run directory, workspace | `Execute` | policy, adapter, closure, files | failures half way, crashes, repeated run ids, time passing between decision and effect | authorised effects only, dependencies first, one consistent story in the evidence |
| action adapter (`run/adapter.go`) | workspace files, processes | `ExecuteAction` | operating system | timeouts, descendants, pipes | bounded in time, nothing left writing |
| closure (`closure/evaluator.go`) | none | `Evaluate` | executor, verifier | agreement with run status | accepted only when every required obligation is closed |
| verifier (`verify/verifier.go`) | reads only | `Verify` | files, workspace | evidence mixed from two runs, files changed since | accepts only the evidence of one whole run |
| approvals (`approval/*.go`, `cli/cli_approval.go`) | approvals of a contract, revocation list | create, attach, revoke | policy, verifier | replacement by id, shadowing, lost updates | a permission is given or taken only by an event that says so |
| output writer (`cli/cli_output.go`) | pairs of files | pair write with rollback | compile, attach, revoke | a failure or crash between two files | a failing command leaves a pair a reader will not mistake |
| bundle (`bundle/bundle.go`) | an archive | export, verify, inspect, report, keygen | verifier, run directory | files change while they are collected | a bundle that verifies is one run |
| governance authority (`policy/governance_authority.go`, `cli/cli_approval.go`) | none; reads a request, a ticket or policy, the clock | `approval live-docs`, `mutation-class`, `low-risk-code-live validate` | files written by approvers and by Foundry | two files and a clock read one after the other; merge plans over several repositories | what is accepted was approved for that scope, is in force, and can be carried out |
| claim gate (`policy/claim_gate.go`) | none; reads two summaries | `policy claim-publish-gate` | cli | blockers from two documents merged by id | authority is never granted with a blocker standing, and every blocker is named |
| autonomous repair governance (`policy/autonomous_repair_*.go`) | none; reads a policy and a request with five documents | `EvaluateAutonomousRepairGovernance` | callers that push, open and merge | five documents of five issuers that name each other by digest, while base, branch and checks move | an action may change something only under one policy, for one head, approved, in time; and what is proper is not refused |
| policy index (`policy/index.go`, `spine.go`, ...) | none | tables and summaries over documents | cli | - | - |
| release packages (`release/*.go`, `cli/cli_release.go`) | a release directory | package, verify, report, diff | go build, keys, whoever has the directory | repackaging over an earlier release, crashes, files changed while they are read, baselines | what is accepted is one package, byte for byte |
| self run (`selfrun/selfrun.go`) | all of the above | compile, run, verify in sequence | all | a failure between stages | accepted only when all three succeed |
| schemas (`schema/schema.go`) | none | JSON validation | all | data formats | - |

Concurrency comes from separate `covenant` processes on the same files, from
spawned commands and their descendants, and from users editing a workspace.
Inside one process everything but the watching of a spawned command is
sequential.  There is no locking anywhere.

## 2. Modules

```
Contract --- Policy --+
        \-- Closure --+-- Evidence --+-- Executor --+
                                     \-- Verifier --+-- Runs --+-- MCRuns
        \-- GovernedRun  (abstract; INSTANCEd by Runs)          +-- Bundle -- MCBundle
        \-- Policy --+-- Approvals ------------+
             Brief --+-- Compiler -- Authoring +-- MCContracts
                        OutputPair ------------+
RevocationList --+-- MCUnlocked
SharedLedger ----+
Release -- ReleaseAudit -- MCRelease
Authority --+-- Gates -- MCGates
ClaimGate --/
RepairAuthority -- Repairs -- MCRepairs
ProcessSpawn
```

and the modules that hold the proofs, each over the modules it is about:

```
SequenceLemmas --+-- PolicyProofs --+-- ContractsProofs  (Approvals, OutputPair, Authoring)
                 |    (Policy)      \-- RunsProofs -- BundleProofs
                 |                       (Executor, Runs)  (Evidence, Bundle)
                 +-- UnlockedProofs     (RevocationList, SharedLedger, ReleaseAudit)
                 \-- GovernanceProofs   (Gates, Repairs)
ProcessSpawnProofs   (ProcessSpawn)
```

* **Contract** - a contract as a record and `Valid` for `Validate`.  Task and
  obligation ids become positions and model values (`Validate` refuses
  duplicates); paths are the normalised ones.  `HasCycle` says what the
  depth-first search of `hasCycle` decides, without its recursion.
* **Policy** - `EvaluateTask` as an operator of contract, task, time and
  revoked ids.  `Matching`/`FirstMatching` are `matchingApprovedTicket`: the
  first approved match decides, whatever follows it.  Reasons stand for the
  sentences the code formats, as far as it branches on them.
* **Closure** - `Evaluate` as an operator.
* **Evidence** - the values a run writes.  A digest is represented by the value
  it is taken of (equal digests mean equal contents), the hash of an event by
  the length of the ledger prefix it covers.
* **Executor** - `run.Execute` with the default adapter.  `pc` is the place in
  `Execute`, `cursor`/`progress`/`completed`/`status` are its loop variables and
  task states, `action`/`pending` those of `executeSideEffects`; `ledger` is what
  the recorder has emitted, `ledgerFile` what is on disk: until the flush that is
  any prefix, perhaps with a torn line.  `Launch`/`Refuse` start `Execute`;
  `Snapshot`, `OpenLedger`, `PassOver`, `StartTask`, `EndSweep`, `WriteFile`,
  `ReadFile`, `SpawnProcess`, `NoAdapter`, `FinishActions`, `Check`, `Close`,
  `Finish` and `Publish` are its steps, in the order of the code; `IOError` is a
  failing write of ledger, snapshot or pack, `Crash` the end of the process at
  any point, `Tick` and `Edit` the world around it.
* **Verifier** - `Verify` as an operator over the files it reads.
* **Runs** - Executor with Verifier: properties of runs, of their evidence and
  of the verdict, the inductive invariant, and the refinement of
* **GovernedRun** - the abstract promise: a task is granted as a whole after its
  dependencies, only granted side effects are carried out, and a run is accepted
  only when all tasks and required obligations are done.
* **SharedLedger** - the case Executor leaves out: two processes execute under one
  run id at the same time.  The ledger is a sequence of cells, each process writes
  its own events at its own offset in buffers that end anywhere, and `os.Create`
  empties the file under the other (`CreateLedger`, `WriteChunk`, `FlushLedger`,
  `DigestLedger`, `CutEvidence`, `FillEvidence`, `GiveUp`).  `ReadEvents`,
  `ReadDigest` and `ReadPack` are the three reads of `Verify`.  The hash of an
  event is the sequence of events it covers.
* **Brief** - `parseStructuredBrief` as a function over the lines of a brief:
  section, open list field, open task and open obligation are its state, and the
  first error ends it.
* **Compiler** - `CompileBrief` and `CompileError`: the contract of a structured or
  a plain brief, or the diagnostic of the first error; `LintBrief` and
  `LintContract`: every diagnostic lint gives; `ExitsZero` with a baseline.  What
  compile and lint implement twice in the code is here twice
  (`AuthoringError`/`LintAuthoring`, `LintContract`/`Valid` of Contract).
* **Authoring** - an author edits a brief line by line, accepts what lint says into
  a baseline, compiles, and edits the contract by hand.
* **Approvals** - tickets attached to one contract, revoked and expiring.
  `AppendOrReplace` is `appendOrReplaceApproval`.
* **RevocationList** - the revocation list file and concurrent `approval revoke`
  commands, each of which reads, opens (and so truncates) and fills.
* **OutputPair** - `writeOutputPairWithRollback` on a contract and its sidecar,
  a sidecar being represented by the contract whose digest it holds.
* **ProcessSpawn** - one `process.spawn` in time: `executeProcess`, the timer,
  the kill, the command and a descendant that inherited the pipes.  `Duration`
  is the multiplication of `timeout_seconds` in a signed integer that counts to `Half`.
* **Bundle** - `bundle export` as the reader of one file after another, beside
  `Executor` in full and a `compile` that replaces the contract file; and
  `verify --bundle` as an operator.

* **Release** - `release.Package` on a directory that may hold anything: `pk` is
  the place in it, `artifacts`, `supplements` and `attached` its local lists.
  `BuildNext`, `AttachNext`, `SupplementNext`, `WriteManifest`, `WriteChecksums`
  and `Sign` are its steps; each may be refused, and each write may fail or die
  and leave the file old, cut off or whole (`Write`).  `Edit` and `Forge` are
  others at the directory, the latter one who makes manifest and SHA256SUMS agree
  with what they changed; `forged` remembers where Package was when a manifest came
  to lie there that none of its calls has written.  A digest is the content it was taken of; a file is
  digested in the step that writes it.
* **ReleaseAudit** - `release verify` and `report` as the reader of one file after
  another (`BeginAudit`, `CheckSignature`, `ReadChecksums`, `CheckNext`,
  `EndAudit`) beside Release, the rule by which a baseline turns findings into
  exit status 0, and `release diff` between an archived and the present directory.
  `PutBack` puts a file of the archive into the directory again, perhaps a forged
  manifest.
* **Authority**, **ClaimGate** - the verdicts `validateLiveDocsApprovalTicket`,
  `ValidateMutationClassAuthorityTicket`, `ValidateLowRiskCodeLivePolicy` and
  `EvaluateRSIClaimPublishGate` as operators, without state.  Fields of a scope
  that are only compared with the request are entries of `scope.terms`.
* **Gates** - the four commands around them: `ReadFirst`, `ReadSecond`, `Decide`,
  beside approvers and others who go on writing the files (`Ask`,
  `ApproveTicket`, `IssuePolicy`, `Void`, `Amend`, `Summarise`) and the clock.
  `approvals` and `void` remember what approvers did, whatever the files say.

* **RepairAuthority** - `EvaluateAutonomousRepairGovernance` as an operator of
  policy, request and time: `AuthorityChecks` lists the conditions of
  `validateArchitectureRepairAuthority` with the reason each is refused for, in the
  order of the code, and the first that fails is the answer.  A digest is the
  content it was taken of.
* **Repairs** - the documents on their way there: each issuer writes of the world
  as it is (`Proper`), or is wrong in one of some twenty ways (`Improper`);
  documents are re-issued together (`Reissue`), singly (`Slip`) or rewritten under
  their old digest (`Edit`) while the default and the repair branch move, checks
  run and time passes.  `reviewed` and `signedOff` remember what reviewers and the
  operator have seen.

Each model module keeps a few operators marked *Variant for mutation*: small
bugs one could write in the definition that follows them.  Replacing the
definition by its variant must break the property the variant is paired with
(`mutants` in `PROJECT.json`); they take part in nothing else.

## 3. Runs

| Run | States | What it checks |
|---|---|---|
| `RunsOnce` | 260,896 | Thirteen contracts, one launch each, with a clock tick, a user edit, failing writes and crashes anywhere.  Safety of a run (`EffectsAuthorized`, `TasksInOrder`, `NeverStalls`, `NothingAfterFailure`), of its evidence (`PackTellsOneStory`, `EffectsAccounted`), of the verdict (`FreshEvidenceVerifies`), and `ExecuteReturns` |
| `RunsAgain` | 340 thousand | Two launches under one run id over whatever the first left: the inductive invariant `RunInvariant`, the verdict on mixed evidence (`AcceptedEvidenceIsWhole`), and `ImplementsGovernedRun` |
| `Contracts` | 110 thousand | A contract file from brief to tickets, each part explored with the others at rest.  Every brief two edits away from a structured and a plain one: `LintForetellsCompile`, `DeclaredWritesAreAllowed`, `NothingIsDropped`, `BaselineHidesWhatWasAccepted`, `LintAgreesWithValidate`; tickets in every order: `AllowLost`, `AllowGained`, the complete lists of events that may take or give a permission; the file and its sidecar: the inductive invariant `PairInvariant` |
| `Spawn` | 366 | `NeverEarly`, `NothingLeftRunning` and, under fairness, `LoneCommandEnds` |
| `Bundles` | 880 thousand | an export beside two runs, an edit and a compile: `AcceptedBundleIsOneRun`, `QuietExportVerifies`, `MissesOnlyWhatChanged` |
| `Unlocked` | 134 thousand | the two files several processes may write at once, each explored with the other at rest: two operators and four revoke commands (`RevocationsFailClosed`, `ListInvariant`), two runs and a verification on one ledger (`AcceptedEventsAreOfOneRun`, `AcceptedPackIsOfItsLedger`) |
| `Releases` | 1.07 million | two packagings, a change and an audit: `AcceptedReleaseIsOnePackage`, `QuietReleaseVerifies`, `ZeroExitIsAccepted`, `DriftIsAccepted` |
| `Authorities` | 797 thousand | one call of each gate command beside three writes: `AcceptedWasApproved`, `AcceptedPlanCanMerge`, `EveryObstacleNamed` (what the gate lists is exactly what stands in the way, and it grants exactly where nothing does) |
| `Repairs` | 343 thousand | the documents behind a repair for six repositories and policies: `MutationRestsOnOneHead`, `NoDocumentWidensThePolicy`, `AuthorityRunsOut`, `ProperChainIsAuthorized` |
| `RunsSources`, `BundleReadTwice`, `DocsTicketUnbound` | - | each finds a counterexample to a sentence of the documentation (section 6) |

Deadlock is not checked: the systems may really stop, commands return and nobody
need give another one.  That `Execute` does not wait for ever is `ExecuteReturns`.
Type invariants are conjuncts of the inductive invariants (`RunInvariant`,
`ListInvariant`, `PairInvariant`).

### Bounds and why they are enough

* *Contracts* (`MCRuns`): one per way through `Execute` - tasks listed in the
  opposite order of their dependencies, a ticket that expires in mid-run, a
  ticket that is not approved before one that is, side effects no adapter takes
  or outside the scope, the reserved claim under two reasons, a required
  obligation nobody claims, an evaluate task that alone claims what it judges, one
  path written twice, and a cycle.  Three tasks and
  two side effects per task are what it takes for a chain with a choice in it and
  for a task that fails after a side effect succeeded.
* *Launches* `MaxAttempts = 2`: what one launch can find in the directory is
  decided by the launch before it; an older pack survives only until `Publish`.
* *Clock* `MaxTime = 1`: a ticket is in force before the tick and expired after
  it, and the tick may fall between any two steps.
* *Edits* `MaxEdits = 1`, *contents* two per file: one change is enough to tell
  a file from its digest.
* *Tickets*: two ids and two tickets in place are enough for replacement,
  shadowing and a reused id; every ticket `approval create` can make is tried.
* *Briefs*: a structured brief with two tasks, a dependency, an obligation and a
  write in two spellings, and a plain one; `MaxChanges = 2` edits out of eleven
  lines that each break or bend one rule of the parser, so that two rules meet; a
  baseline may be taken of any draft; `--write` given or not.
* *Ledger*: three recordings (denied, failed, with an artifact) of four to six
  events, two of them of different length, and a buffer that ends within a line; two
  processes, one verification.
* *Repairs*: one move of a branch, one re-issue and one slip or edit, two ticks of a
  clock in which an approval lasts one and an envelope two; `Half = 8`, so that a
  budget of 14 seconds wraps.  Six scenes: one per class of repository, one
  nobody configured, and two policies that are not valid.  Of the four heads one
  touches a protected path, one fails its checks and one touches no path at all, which
  makes a request malformed.  Move, re-issue and slip meet all three where a team
  merges, in pairs in the other repositories, and not at all where the policy is not
  valid and nothing is granted (`Together`).
* *Exports* beside two runs, an edit and a compile: any three of these, and any two
  where two lists have one name and `Seal` refuses them (`Together` of `MCBundle`).
* *Pair*, *revoke commands*, *exports*: three, four and one commands; the proofs
  of section 5 remove the first two bounds.
* *Releases*: `MaxPackages = 2`, because what a call finds in the directory was
  left by the one before it; `MaxEdits = 1` and `MaxAudits = 1` with the change
  before, during or after either.  The ten calls (`MCRelease`) have one and two
  binaries, built and prebuilt, with attestations found by target, path and bare
  selector or by a name that fits none, files given in place, an empty file, a
  reserved name, a name with a blank in it and one with a blank before it, a target
  given twice and a missing candidate.  A release with a blank in a name is packaged,
  over what another call left too, and audited, but nobody changes or downloads it
  (`Plainly`).
* *Gates*: `MaxCalls = 1`, `MaxWrites = 3` (a request, a ticket and what happens
  to them), `MaxTime = 1`.  The requests (`MCGates`) have plans in both orders,
  with a dependency on a repository that is not planned, and evidence that is
  late, short-lived, repeated or revised.  Nothing is followed beyond the meeting of
  a request for plans and a ticket for something else, or the other way (`Apart`).
* *Spawn*: `Second = 2`, `Half = 4`, timeouts 1, 2, 3 and 5: durations of 2 and
  of -4, -2 and 2 after wrapping, in a clock that runs past all of them.

### Fairness

`FairSpec` of Executor has weak fairness on `Step`, the disjunction of
`Execute`'s own steps: a goroutine that can run does run.  Calls, crashes,
failing writes, edits and the clock get none.  A spawned command is one step
there and so always ends; that is the assumption `ProcessSpawn` examines:
under weak fairness of `executeProcess`, of the runtime's timer, of its kill and
of the clock - none for the command or its descendant, which need never end -
`LoneCommandEnds` says the task timeout bounds a command whose pipes nobody else
holds.  It bounds no other: see section 6.

## 4. What the properties say

* `EffectsAuthorized` relates the side effects carried out to the decisions
  collected, to the ledger and to contract, clock and revocation list *at the
  time of the decision*: between the decision and the side effect a ticket may
  expire, and nothing looks again (`run/executor.go:111-133`).
* `TasksInOrder` relates each start, and each success of an evaluate task, to earlier
  lines of the ledger.  Its second half says what an evaluate task is worth: another
  task met each required obligation before it.  A contract whose only claimant is
  the evaluate task is valid and cannot succeed (`Judging` of `MCRuns`; the mutant in
  which the task that asks counts as done lets it).
* `AcceptedEvidenceIsWhole`: whatever crashed or was repeated, a ledger and a
  pack the verifier accepts run from `run_started` to `run_finished` and tell the
  same decisions and artifacts.  It rests on the pack carrying the digest of the
  whole ledger; the mutant that drops the comparison accepts a crashed
  second run beside the first one's pack.
* `FreshEvidenceVerifies` is the other direction, with its limits spelled out: it
  needs an untouched workspace, a contract that is `Quiet` (no process, no path
  written by one side effect and used by another), and no decision that met a revoked
  ticket.  The last is a quirk of the code: `verifyRevokedApprovalTickets` looks
  at denials too, so the evidence of a run that rightly refused a revoked ticket
  fails against the list that revoked it (`verify/verifier.go:342-352`).
* `AllowLost`/`AllowGained` are closed lists of causes, so an event that is not
  on the list and changes a permission is a violation: in particular time and
  `--append` never grant anything, and a ticket under a new id never takes
  anything away.
* `RevocationsFailClosed`: one command at a time and with `--append`, a
  revocation that was reported is in the list, or the file is no list at all and
  every reader refuses it.
* `AcceptedEventsAreOfOneRun` is what the hash chain is worth when two runs write
  over each other: never a line of one after a line of the other - but perhaps only
  the beginning of one, since the tail of a file may be cut by the other.
  `AcceptedPackIsOfItsLedger` adds that without an overlap the digest is of the whole
  ledger of the very run the pack tells of, whatever was started between the three
  reads of `Verify`.
* `LintForetellsCompile` and `LintAgreesWithValidate` hold two pairs of
  implementations against each other on every brief and contract, and the first also
  in the order of the diagnostics.  `NothingIsDropped` counts headings instead of
  following the parser.  `BaselineHidesWhatWasAccepted` is about a later draft.
* `AcceptedBundleIsOneRun`: although export reads seven kinds of files after it
  verified the run, a bundle that mixes runs never verifies.
  `QuietExportVerifies` and `MissesOnlyWhatChanged` say what export owes when
  nobody interferes.

* `AcceptedReleaseIsOnePackage` is about every order of two packagings, a change
  and an audit: what an audit without problems has *read* are the bytes one call of
  `package` listed.  Against somebody who rewrites manifest and checksums this takes
  a signature, and it does not hold if they do so while `package` is at work, which
  signs the manifest it reads back.
* `QuietReleaseVerifies` leaves out what the code does not prevent: a supplemental
  file named `manifest.json`, `SHA256SUMS` or `release-signature.json`; a candidate
  that is another release's binary; and a file with whitespace in its name, given or
  following from version and target.  `package` accepts such a name and reports done,
  but a line of `SHA256SUMS` is split at whitespace when it is read back
  (`readChecksums`): a name of two words makes the whole list unreadable, and one with
  a blank before or after it is read without and is then missed.  The run holds a
  call of each kind; the property breaks when any of the three conditions is dropped.
  It also takes for granted that the binary answers `version` in time, which `verify`
  asks of it.
* `ZeroExitIsAccepted` and `DriftIsAccepted`: accepting findings in a baseline
  excuses those and no other file.  Diff reports all problems of a release in one
  entry, so who accepts that entry has accepted any file; `DriftIsAccepted` is about
  those who have not.
* `AcceptedWasApproved` compares a verdict with what approvers did, not with what
  the files say: a ticket counts only with the scope it was approved for, and not
  when it was used up or denied before the command began.  For mutation-class
  tickets and low-risk policies this rests on the digest being computed again; for
  docs-only tickets it says less, because there it is not (section 6).
* `AcceptedPlanCanMerge` takes the accepted plan as the one who merges does: in
  order, each repository after all it waits for and in a state that is fresh, green
  and can be rolled back by the last that was written about it.
* `MutationRestsOnOneHead` says of an authorisation what somebody would ask who did
  not trust the documents: did the operator approve this very action, did somebody
  review this diff on this base, did the checks pass for this head.  It is checked
  for the action that is wanted and for the one the document names.
* `NoDocumentWidensThePolicy` and `AuthorityRunsOut` bound it by policy and time;
  `ProperChainIsAuthorized` is the other direction: no two of the thirty checks
  contradict each other.
* `EveryObstacleNamed` says what the list of the claim gate is: the blockers of
  either summary that have a name and those of the checks that fail (`Obstacles`),
  nothing else, each once and in the state of its first mention.  It says too when a
  claim is granted, and only then: nothing is listed, readiness decides "allowed" and
  the boundary of the index is not "denied".  The last two deny without being named,
  so a denial may come with an empty list (`claim_gate.go:114-118`).
* `PairInvariant` includes `MismatchIsTold`.  A write may fail with its file as it
  was, cut short or, when only `Close` fails, whole and new.  So a matching pair may
  end as two whole files that do not match: after a crash or a failed rollback; after
  "main" with the new contract beside the old sidecar; after "sidecar" with the old
  contract, restored, beside the new sidecar.  There is no other way, and the stage
  that is reported tells which of the two is new.

## 5. Proofs

All proofs are for every value of the constants: any set of contracts, launches,
tickets, documents, recordings, operators and options, and without the bounds of the
runs or with any value of them.  They rest on the named assumptions of the modules,
which TLC evaluates in the runs:

* `LaunchesAssumption`, `BoundsAssumption`, `OptionsAssumption`, `ExportBounds`,
  `DraftAssumption`, `LimitsAssumption`, `VersionsAssumption`, `CommandsAssumption`,
  `TimeoutsAssumption`, `DurationAssumption`, `RepairTimes`, `RepairBounds`,
  `GateBounds`, `ChunkAssumption`: the types of what a caller gives.
* `NoTicketAssumption`, `NoFileAssumption`, `PacksAssumption`, `FilesAssumption`,
  `ArchivesAssumption`, `OperatorAssumption`: a value that stands for "there is none"
  is none of the others.
* `PlansAssumption`, `SummariesAssumption`, `RecordingsAssumption`: what is a list in
  the code is a sequence, an event takes at least one byte and a recording has at
  least one event (`run_started`, `run/executor.go:80`).
* `CallsAssumption`, `PackageBounds`, `AuditBounds`: what a call of `package` is given
  is a list, a file that is given is there, a supplemental file is an SBOM or
  provenance (the two options there are), and none that takes the name of the manifest
  or the signature is one.
* `BlanksAssumption`: what a line of `SHA256SUMS` falls into is a list of names without
  whitespace.
* `AuthoringAssumption`: a brief, the values of a line and the values of `--write` are
  sequences.
* `LifetimeAssumption`: the budget a proper envelope asks for fits a Duration.

An invariant of a run is seldom inductive; what had to be added, and why, is the
point of the following.

* **RunsProofs**, Execute - `RunInvariantHolds`: `Spec => []RunInvariant`, from which
  `TypeCorrect`, `EffectsAreAuthorized`, `TasksComeInOrder` and
  `RunNeverStalls` follow.  `EffectsAuthorized` is not inductive: when a side
  effect is carried out the decision lies steps back, so `WhileActing` keeps that
  every side effect of the task under way was allowed and recorded.
  `DependenciesFirst` needs `SuccessRecorded` (a task that counts as successful
  has its `task_finished` in the ledger).  So does the other half of `TasksInOrder`,
  `EvaluatedAfterClaims`, and more: the task that succeeds had not succeeded before,
  so the one that met the obligation is another (`VerdictsKept`); every other step
  adds no success to the ledger (`AddsNoSuccess`).  `NeverStalls` needs `WhileSweeping`
  (what a sweep without progress has passed over cannot be started),
  `CompletedCounts` and `ValidUnderway`: at the end of such a sweep the tasks
  that have not succeeded each wait for another of them, a set `HasCycle` would
  have found.  One lemma per action for types, one per action for the rest.
  `NothingIsDoneAfterFailure` adds that a failed task leaves only the end of the
  run to come (`FailureEnds`).
* **RunsProofs**, the refinement - `ExecuteImplementsGovernedRun`: the refinement mapping
  `Gov` of `Runs` takes every step of `Spec` to a step of `GovernedRun` or to a
  stutter.  The first lemmas say which steps do, in terms of the six mapped values
  alone; the rest show it action by action.  The mapping needs more than
  `RunInvariant`: `GrantsInOrder` (until a task fails, what was begun was granted
  and has succeeded or is under way), `ActedInOrder` (the side effects of the task
  under way were carried out up to `action`) and `FailuresTell` (the failures list
  is empty at the end exactly if every task succeeded, on which the verdict of the
  closure matrix turns).  `PacksTellOneStory` and `EffectsAreAccounted` follow
  from `Story`: while Execute runs, the failures are the failing `task_finished`
  of the ledger (`FailuresListed`), a run without failures has its required
  obligations (`NoFailureSatisfies`), and what was carried out for a task that has
  not failed is in the manifest or with the task under way (`ActionsAccounted`).
* **BundleProofs**, evidence - `AcceptedEvidenceWhole` and
  `FreshEvidenceIsAccepted` are about files, of which only some are the last run's.
  `Records` keeps that the recorder's events and the executor's own lists tell the
  same at every step (`RecordsAgree`: numbers, decisions in their order, artifacts of
  the task that declares them), that a ledger runs from `run_started` and has its
  `run_finished` at the end or not at all (`BeginsAndEnds`), and that artifacts
  not recorded yet are the current task's (`PendingOwn`).  With it a pack that is
  published is that of one complete run, and `Directory` keeps that of every pack
  that decodes, whichever launch wrote it: the verifier's comparison with the digest
  of the ledger does the rest.  `FreshEvidenceIsAccepted` needs that a workspace
  nobody edited still holds what was recorded: `SnapshotsOwn`, and for a contract
  that is `Quiet` `ArtifactsOwn`, which follows each artifact from the side effect
  that wrote it to the end.
* **BundleProofs**, bundles - the steps of an export leave a run's variables alone
  (`RunsBeside`), so what holds of runs holds beside them.  `AcceptedBundlesAreOneRun`
  follows from `PacksWhole`: the pack export has read is of one complete run, as all
  packs that ever lay there, and the ledger is tied to it by its digest.
  `QuietExportsVerify` and `ExportMissesOnlyWhatChanged` follow from
  `ExportFollows`: as long as nothing export reads is touched, what it has read so far
  is what lies there and what lies there verifies - one conjunct per place export can
  be in - and `ExportEnds` carries that over its end.
* **UnlockedProofs**, revocation list - `ListInvariantHolds`,
  `ReportedRevocationsHold`.  `Alone` (no overlap means one busy command) and
  `WhileAppending` (what the lone command read is still all that was reported, while
  the file is cut) are the strengthening.
* **UnlockedProofs**, shared ledger - `LedgerInvariantHolds`, from which
  `EventsAreOfOneRun` and `PacksAreOfTheirLedger` follow.  `CellsAreKnown` says
  that every hash in the file, wherever the two processes have left it, is one of a
  run that was begun; `ChainsAreOfOne` that hashes of which each covers the line
  before it are of one run from its first event, however many lines there are.
  `EventsTold` keeps that for what Verify has read while the file goes on changing.
  `OneAtATime` says of a process that is alone that the file is what it recorded, up
  to its offset, to its end, or as it digested it.
* **UnlockedProofs**, releases - `ReleaseInvariant` (not one of TLC's: it says "for some
  version and target") has four parts.  `Building` says that what Package has put
  together can be listed (`WellListed`): no two entries have one path, none of its
  binaries is named like a manifest.  An entry is known by its place in the manifest
  (`Places`, `ListedAt`), since attestations are listed one binary after the other
  (`FlattenedPlaces`).  `Manifests` says where a manifest or a signature in the
  directory or the archive comes from; `AuditHolds` that every file an audit has come
  to was read as it is listed, is a problem, or was passed over with its binary
  (`LookedAt`, over `Listing` cut at any place, `NextIsLookedAt`); `AnswerHolds` keeps
  that for the answer.  `AcceptedReleases`, `ZeroExits` and `AcceptedDrifts` follow.
  `QuietReleases` adds `Quiet`: as long as nobody else changes the directory, what is
  listed stands there (`Standing`, which a write under a new name or one of the last
  three names leaves alone) under a name that is read back as it was written, and
  manifest, SHA256SUMS and signature are of that list (`Progress`); a directory that
  holds all this has no problem (`ReleasedVerifies`).
* **GovernanceProofs**, gate commands - `AcceptedTicketsWereApproved` follows from
  `ApprovalInv`: approvals are numbered one after the other (`NumberedApprovals`, so
  that a new one is none of the void ones), and every ticket a command deals with
  goes back to one (`GenuineTickets`), the one it has read at the time it began.
  `AcceptedPlansCanMerge` and `ObstaclesAreNamed` follow from `VerdictInv`: what a
  command has read is a request, summary or ticket (`ReadByCommand`) and its answer
  was right when given (`Mergeable`, `ObstaclesNamed`).  The work is in the operators:
  `PlanHeldCanMerge` gets from positions, states and last entries of five lists to a
  plan that can be merged in order, `GateNamesAll` from the merged lists of blockers
  to one that names each obstacle once and nothing else.
* **GovernanceProofs**, repairs - `RepairsWellKept`: `RepairsSpec => []WellKept`, from
  which `MutationsRestOnOneHead`, `PolicyIsNotWidened` and `AuthoritiesRunOut` follow.
  `MutationMeans` is what thirty checks that hold say of the documents.  `WellKept`
  adds what no document proves: that every content a document has or was digested
  of is one an issuer may have written (`Sound`: an action's green checks ran at a
  head that passes, its diff is of its own base and head), and that the approved
  digest and the reviewed diff are on record.  Contents and digests are kept apart
  because an edit changes only the content.  `BudgetBounded` holds for every number
  of seconds: a product that wraps is smaller than what was meant.
  `ProperChainsAreAuthorized` is the other direction: for what the issuers write of
  the world as it is, each of the thirty checks holds (`ProperBinding` to
  `ProperShape`, by what they are about), and with `RepairsIssuedByNow`, that no
  action is dated ahead of the clock, the evaluator comes to its last branch.
* **ContractsProofs**, approvals (with **PolicyProofs**) - `AllowsAreNotLost`,
  `AllowsAreNotWon`.  The first of the matching tickets decides alone
  (`FirstMatchingStandsFirst`, `DecidedByTheFirst`); what stands first after a ticket
  was put in its place or at the end is settled by `DeciderAfterAttach`; that a ticket
  does not come back in force is `ValidEarlier`.
* **ContractsProofs**, pair of files - `PairInvariantHolds`, `MainIsRestored`,
  `MismatchesAreTold`.  `StageOK` says what both files and the snapshot hold
  at each stage; the two properties follow at the command's end.
* **ContractsProofs**, briefs - `Drafted` (the brief is made of lines there are; a
  contract that was written has the shape of one and writes only what it declares,
  which editing by hand keeps, `EditedIsCompiled`) is inductive; the rest is about the
  operators.  `BriefParsed` says of a brief of any length that what the parser makes of
  it has its type (`StepParsed`, line by line) and that its entries, those still open
  included, are the headings read so far (`StepNames`), unless there was an error.
  `AuthoringAgrees`, `StructuredAgrees` and `BriefAgrees` compare the two
  implementations: lint goes on where compile stops and leaves out the ids it refused,
  so they see the same ids exactly when there was nothing to stop at; what lint reports
  first is then what compile stops at.  `StructuredIsSound` and `PlainIsSound` get from
  "no problem" to every condition of `Validate`.  From these `LintForetells`,
  `WritesAreAllowed`, `NothingIsLost` and `BaselinesHideNoMore`; `LintAgrees` takes the
  seven codes of lint against the nine conditions of `Validate` (`EmptyLintIsValid`).
* **ProcessSpawnProofs** - `SpawnInvariantHolds`, `NothingTimesOutEarly`,
  `NothingRunsOn`.  That a product which fits a Duration is exact
  (`DurationExact`) makes the deadline the one that was meant.

Lists of any length (a ledger and the events appended to it, the lines of a file, the
blockers of two summaries) call for inductions over data. The library's induction
theorems take an operator as a parameter and cannot be used; the proofs take the least
counterexample instead: a nonempty set of numbers has a least member (`SequenceLemmas`,
`LeastNumber`, from the well-foundedness of `<` on the naturals), and from the one
before it the property goes on. A recursive function is unfolded by its definition over
an explicit domain, so the modules proved about declare no RECURSIVE operator.

Only model-checked: the liveness properties `ExecuteReturns` and `LoneCommandEnds`,
out of the prover's reach (fairness and ENABLED).

## 6. Where code and documents differ

Shown by runs (the sentence is quoted above the property, the details are in
`PROJECT.json`, `findings`):

* `RunsSources` - a declared source that changes after a run does invalidate
  verification if a task read it (`REFERENCE.md:707-709`).
* `BundleReadTwice` - a verified run in which two tasks read one file cannot be
  exported (`REFERENCE.md:743`).
* `DocsTicketUnbound` - `approval live-docs validate` does not match the ticket's
  digest, nor the plan and hold references, against anything
  (`REFERENCE.md:459-462`).

Visible in the models, with no run of their own: attaching the ticket
`policy explain` asks for need not help, an expired or revoked one before it
decides (`FirstMatching`; `policy/explain.go:67`); the task timeout does not bound
a command whose descendant keeps its pipes open (`RunReturns`;
`REFERENCE.md:687-688`); two concurrent `revoke --append` lose one revocation
(`Revoke`; `REFERENCE.md:635-636`); a run that ends without its
required obligations, or stalls, has no evidence pack and so no `failures`
records (`Close`; `REFERENCE.md:696`); a failing sidecar write may leave the
sidecar cut short or, when it fails at `Close`, whole and new beside the restored
contract (`WriteSidecar`; `docs/output-writer-contract.md:61`); `release package`
reports done on a release that lists a name with whitespace and never verifies
(`Fields`; `release/publication_verify.go:487-490`); export
may write a bundle of files changed since it verified them, which then does not
verify (`Gather`; `REFERENCE.md:744-746`); `verify --bundle` compares the
contract digest with the evidence pack and not with the manifest
(`VerifyBundle`; `REFERENCE.md:867-868`); export reports success over an archive
whose `Close` failed (`WriteZip`; `REFERENCE.md:746`); lint calls a brief valid whose
obligation has no text, which compile refuses by the contract schema
(`RefusedBySchema`; `REFERENCE.md:290`); a brief with writes and obligations but no
`## Task:` heading compiles to the built-in contract and drops them
(`IsStructured`; `REFERENCE.md:347-351`); the reads of a task need not be declared
and are then denied in the run (`TaskOf`); lint reports an obligation only the
evaluator does not know under the code for tasks (`LintContract`); a baseline goes
by rule and line, so that it hides another problem of that rule at that line in a
later draft (`Suppressed`); of two runs under one run id that overlap, an accepted
ledger may be a mere beginning, and a pack may be accepted beside the ledger of the
other run when the digest happens to be of it (`Provenance`).

## 7. Not modelled, and why

Flag parsing, printing, JSON and schema validation (formats, no state); the
length of a ledger line (a `bufio.Scanner` refuses 64 KiB); the inference of a
workspace from the ledger's path; symbolic links and path syntax; a context
cancelled from outside (the command line passes `context.Background()`); custom
action adapters; bundle inspection, reports and redaction (text derived from an
archive).

*Briefs*: objective, adapter, blank lines, and the several ways to write a field,
a boolean or a list.  *Lint*: hints, severities, fields and the SARIF document.

*Releases*: sizes, which the digests subsume; manifests not written by `package`,
with names given twice or paths that leave the directory; a version or target with
path separators in it; a name that breaks a line of `SHA256SUMS`; which of two lines
counts that come to one name when they are read; redaction and formatting; and a
change between the write of a file and its digest, which is one step.

*Runs*: a change between the write of a file, or the end of a command, and the read
of what is recorded of it: `WriteFile`, `Snapshot` and `SpawnProcess` are one step
each.

*Tickets and policies*: the fields their schemas fix (approver, boundaries, digest
algorithm); requests have no schema, and theirs are modelled.

*Repairs*: the form of names, digests and times, the lineage and discovery limits of
an envelope, the strict decoding of requests and what else their schema refuses beyond
a write without a class of paths and checks that did not succeed; the check of
`permanently_denied_action` and the last `default` of the action class, which no valid
policy lets a request reach; a branch protection that is bypassed, which the shape
of a document refuses.  What the caller says of the current base and of the paths a
diff touches is taken to be true.  `autonomous_repair_github_execution.go` holds
constants.

*Self run* compiles, runs and verifies in sequence within one process: three
commands that are modelled, with no state or decision of its own.  *Policy index*
and catalogues, build information and the entry point decide nothing.

## 8. Plan

Done: the modules of section 2 - contract, policy and executor first, since every
other part judges what they do; then the parts around them; then briefs, lint, the
shared ledger and repairs.

Next: the root of a workspace as a part of contract and verification.
