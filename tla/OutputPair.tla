----------------------------- MODULE OutputPair -----------------------------
(***************************************************************************)
(* writeOutputPairWithRollback (internal/cli/cli_output.go): `compile` and *)
(* `approval attach` write a contract and, beside it, a digest sidecar.    *)
(* Commands follow one another on the same pair of files; any write may    *)
(* fail with its file untouched, cut short or whole, and the process may   *)
(* die at any point.                                                       *)
(*                                                                         *)
(* A sidecar is represented by the contract whose digest it holds.         *)
(***************************************************************************)
EXTENDS Naturals

CONSTANTS
  Versions,     (* contracts a command may write                *)
  NoFile,       (* no file under that name                      *)
  Cut,          (* a file cut short while it was being written  *)
  MaxCommands   (* bound: commands run on the pair              *)

ASSUME VersionsAssumption == Versions # {} /\ NoFile \notin Versions /\ Cut \notin Versions
                             /\ NoFile # Cut
ASSUME CommandsAssumption == MaxCommands \in Nat

Contents == Versions \cup {NoFile, Cut}

VARIABLES
  main, sidecar,   \* the two files
  pc,              \* where the command is
  bytes,           \* what it is to write
  snapshot,        \* what it found under the main name
  result,          \* "ok", the stage reported, "unrestored" or "crashed"
  found,           \* history: both files as the command found them
  commands

files == <<main, sidecar>>
vars  == <<main, sidecar, pc, bytes, snapshot, result, found, commands>>

Stages  == {"idle", "snapshot", "main", "sidecar", "rollback"}
Results == {"none", "ok", "main", "sidecar", "unrestored", "crashed"}

Init ==
  /\ main \in {NoFile} \cup Versions /\ sidecar \in {NoFile, main}
  /\ pc = "idle" /\ bytes \in Versions /\ snapshot = NoFile /\ result = "none"
  /\ found = files /\ commands = 0

Exit(how) == pc' = "idle" /\ result' = how

Begin(v) ==
  /\ pc = "idle" /\ commands < MaxCommands
  /\ bytes' = v /\ found' = files /\ commands' = commands + 1
  /\ \/ pc' = "snapshot" /\ result' = "none"
     \/ Exit("main")                        \* validateOutputFileTarget
  /\ UNCHANGED <<main, sidecar, snapshot>>

\* Variant for mutation: a file that cannot be read is taken for none.
SnapshotOrNone ==
  /\ pc = "snapshot" /\ snapshot' \in {main, NoFile} /\ pc' = "main"
  /\ UNCHANGED <<main, sidecar, bytes, result, found, commands>>

\* snapshotOutputFile: it may be there and not be readable.
Snapshot ==
  /\ pc = "snapshot"
  /\ \/ snapshot' = main /\ pc' = "main" /\ UNCHANGED result
     \/ main # NoFile /\ Exit("main") /\ UNCHANGED snapshot
  /\ UNCHANGED <<main, sidecar, bytes, found, commands>>

\* What a failing os.WriteFile may leave under a name: it creates the file or
\* cuts it to nothing before it writes, and closes it when all is written.
LeftByFailure(before, new) == {before, Cut, new}

\* A main file that cannot be written is left as it is: nothing is restored.
WriteMain ==
  /\ pc = "main"
  /\ \/ main' = bytes /\ pc' = "sidecar" /\ UNCHANGED result
     \/ main' \in LeftByFailure(main, bytes) /\ Exit("main")
  /\ UNCHANGED <<sidecar, bytes, snapshot, found, commands>>

WriteSidecar ==
  /\ pc = "sidecar"
  /\ \/ sidecar' = bytes /\ Exit("ok")
     \/ sidecar' \in LeftByFailure(sidecar, bytes) /\ pc' = "rollback" /\ UNCHANGED result
  /\ UNCHANGED <<main, bytes, snapshot, found, commands>>

\* What a failing rollbackOutputFile may leave: removing a file leaves it or not.
LeftByRollback == IF snapshot = NoFile THEN {main} ELSE LeftByFailure(main, snapshot)

\* rollbackOutputFile
Rollback ==
  /\ pc = "rollback"
  /\ \/ main' = snapshot /\ Exit("sidecar")
     \/ main' \in LeftByRollback /\ Exit("unrestored")
  /\ UNCHANGED <<sidecar, bytes, snapshot, found, commands>>

\* The process dies: before, in the middle of or after what it was about to do.
Crash ==
  /\ pc # "idle" /\ Exit("crashed")
  /\ \/ UNCHANGED files
     \/ pc = "main" /\ main' \in LeftByFailure(main, bytes) /\ UNCHANGED sidecar
     \/ pc = "sidecar" /\ sidecar' \in LeftByFailure(sidecar, bytes) /\ UNCHANGED main
     \/ pc = "rollback" /\ main' \in LeftByRollback \cup {snapshot} /\ UNCHANGED sidecar
  /\ UNCHANGED <<bytes, snapshot, found, commands>>

Next ==
  \/ \E v \in Versions : Begin(v)
  \/ Snapshot \/ WriteMain \/ WriteSidecar \/ Rollback \/ Crash

Spec == Init /\ [][Next]_vars

-----------------------------------------------------------------------------
(* Properties. *)

TypeOK ==
  /\ main \in Contents /\ sidecar \in Contents /\ snapshot \in Contents
  /\ pc \in Stages /\ bytes \in Versions /\ result \in Results
  /\ found \in Contents \X Contents
  /\ commands \in 0..MaxCommands

\* A command that reports the sidecar stage, with nothing said of the rollback,
\* has put the main file back as it found it (cli_output.go:134-139).
MainRestored == result = "sidecar" => main = found[1]

\* On a pair that matched when the command began, both files are whole and do
\* not match only where the command said that something went wrong or died, and
\* the stage it reports tells which of the two is new: a main file it could not
\* close, beside the old sidecar, or a sidecar it could not close, beside the main
\* file as it was found (cli_output.go:85-92, 123-172).
MismatchIsTold ==
  /\ pc = "idle" /\ found[1] = found[2]
  /\ main \in Versions /\ sidecar \in Versions /\ main # sidecar
  => \/ result \in {"unrestored", "crashed"}
     \/ result = "main" /\ main = bytes /\ sidecar = found[2]
     \/ result = "sidecar" /\ main = found[1] /\ sidecar = bytes

\* What the files hold at each stage of a command.
StageOK ==
  /\ pc \in {"snapshot", "main"} => main = found[1] /\ sidecar = found[2]
  /\ pc = "main" => snapshot = found[1]
  /\ pc = "sidecar" => main = bytes /\ sidecar = found[2] /\ snapshot = found[1]
  /\ pc = "rollback" => /\ main = bytes /\ snapshot = found[1]
                        /\ sidecar \in LeftByFailure(found[2], bytes)
  /\ result = "ok" => main = bytes /\ sidecar = bytes
  /\ result = "main" => main \in LeftByFailure(found[1], bytes) /\ sidecar = found[2]
  /\ result = "sidecar" => main = found[1] /\ sidecar \in LeftByFailure(found[2], bytes)
  /\ pc # "idle" => result = "none"
  /\ result = "none" /\ pc = "idle" => found = files

\* The inductive invariant behind MainRestored and MismatchIsTold, types
\* included (cli_output.go:123-172).
PairInvariant == TypeOK /\ StageOK /\ MainRestored /\ MismatchIsTold
=============================================================================
