------------------------------ MODULE Closure -------------------------------
(***************************************************************************)
(* The closure matrix of a finished run (internal/closure/evaluator.go).   *)
(* Rows form a set: Validate refuses duplicate obligation ids.             *)
(* status[t] is the task's final status; artifacts and decisions are the   *)
(* sequences the run collected.                                            *)
(***************************************************************************)
EXTENDS Contract

\* Variant for mutation: what a task read is left out.
WrittenIdsOf(artifacts, ts) ==
  {artifacts[i].id : i \in {j \in DOMAIN artifacts : /\ artifacts[j].id.task \in ts
                                                   /\ artifacts[j].id.stream # "read"}}

ArtifactIdsOf(artifacts, ts) ==
  {artifacts[i].id : i \in {j \in DOMAIN artifacts : artifacts[j].id.task \in ts}}

DecisionIdsOf(decisions, ts) ==
  {<<decisions[i].task, decisions[i].n>> :
      i \in {j \in DOMAIN decisions : decisions[j].task \in ts}}

RowStatus(c, o, run, status) ==
  IF run = "success" /\ \E t \in Claimants(c, o) : status[t] = "success"
  THEN "closed" ELSE "open"

ClosureRow(c, o, run, status, artifacts, decisions) ==
  [obligation |-> o,
   status     |-> RowStatus(c, o, run, status),
   tasks      |-> Claimants(c, o),
   artifacts  |-> ArtifactIdsOf(artifacts, Claimants(c, o)),
   decisions  |-> DecisionIdsOf(decisions, Claimants(c, o))]

\* Variant for mutation: the status of the run is not asked.
MatrixByTasks(c, run, status) ==
  IF \A o \in c.required : \E t \in Claimants(c, o) : status[t] = "success"
  THEN "accepted" ELSE "rejected"

MatrixStatus(c, run, status) ==
  IF run = "success" /\ \A o \in c.required : RowStatus(c, o, run, status) = "closed"
  THEN "accepted" ELSE "rejected"

EvaluateClosure(c, run, status, artifacts, decisions) ==
  [status |-> MatrixStatus(c, run, status),
   rows   |-> {ClosureRow(c, o, run, status, artifacts, decisions) : o \in c.obligations}]
=============================================================================
