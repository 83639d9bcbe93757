------------------------------ MODULE Evidence ------------------------------
(***************************************************************************)
(* What a run leaves on disk (internal/run/types.go): the event ledger,    *)
(* the evidence pack and the input snapshots of one run directory.         *)
(*                                                                         *)
(* A digest is the digested value itself, so equal digests mean equal      *)
(* contents.  An event's hash covers its content and the hash before it;   *)
(* one recorder numbers its events 1, 2, ..., and within its ledger a hash *)
(* names a prefix, hence is represented by the prefix' length.             *)
(***************************************************************************)
EXTENDS Policy, Closure

CONSTANTS
  MaxTasks, MaxEffects,  (* bounds: tasks of a contract, effects of a task *)
  Sources,   (* contents the user may give a file                         *)
  Outputs,   (* contents a process may print                              *)
  Empty,     (* the empty file; also a file cut short while being written *)
  NoFile     (* no file under that name                                   *)

EventTypes == {"run_started", "task_started", "policy_decided",
               "artifact_recorded", "task_finished", "run_finished"}
Streams    == {"artifact", "read", "stdout", "stderr"}

ArtifactIds  == [task : Nat, n : Nat, stream : Streams]

\* .covenant/process/<artifact id>.txt
ProcessPaths == [task : 1..MaxTasks, n : 1..MaxEffects, stream : {"stdout", "stderr"}]
Files        == Paths \cup ProcessPaths

\* What executeFileWrite writes.
DemoText(c, t) == [objective |-> c.objective, task |-> t]
Texts    == [objective : Objectives, task : Nat]
Contents == Sources \cup Outputs \cup Texts \cup {Empty}

\* A file that is not there has no contents.
ASSUME NoFileAssumption == NoFile \notin Contents

EventDecisions == [n : Nat, effect : Effects, ticket : TicketIds \cup {NoTicket}]

\* decision is empty but in policy_decided, where ok tells allow from deny.
Events == [type : EventTypes, seq : Nat, prev : Nat, task : Nat,
           ok : BOOLEAN, decision : Seq(EventDecisions),
           artifacts : SUBSET ArtifactIds]

Artifacts == [id : ArtifactIds, path : Files,
              digest : Contents, event : Nat]
Snapshots == [path : Paths, digest : Contents \cup {NoFile}]
Phases    == {"policy", "adapter", "execution", "closure"}
Failures  == [event : Nat, task : Nat, phase : Phases]

LedgerFiles == [lines : Seq(Events), torn : BOOLEAN]
NoLedger    == [lines |-> <<>>, torn |-> FALSE]

ClosureRows == [obligation : Obligations, status : {"open", "closed"},
                tasks : SUBSET Nat, artifacts : SUBSET ArtifactIds,
                decisions : SUBSET (Nat \X Nat)]
Matrices == [status : {"accepted", "rejected"}, rows : SUBSET ClosureRows]

Packs == [contract : Contracts, ledger : Seq(Events), status : {"success", "failed"},
          artifacts : Seq(Artifacts), snapshots : Seq(Snapshots),
          decisions : Seq(Decisions), failures : Seq(Failures), closure : Matrices]

\* A pack that decodes is neither missing nor cut short.
ASSUME PacksAssumption == NoFile \notin Packs /\ Empty \notin Packs
=============================================================================
