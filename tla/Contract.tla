------------------------------ MODULE Contract ------------------------------
(***************************************************************************)
(* A compiled contract (internal/contract/types.go) and what Validate      *)
(* accepts of it (internal/contract/validate.go).                          *)
(*                                                                         *)
(* Validate refuses duplicate task ids, so a task is named by its position *)
(* in c.tasks; obligations likewise form a set.  Paths and other resources *)
(* are the normalized ones: every comparison the code makes is made after  *)
(* normalizeResource / slashClean.                                         *)
(***************************************************************************)
EXTENDS Integers, Sequences, FiniteSets

CONSTANTS
  Paths,        (* workspace paths a contract may name                     *)
  Commands,     (* resources of process.spawn                              *)
  Hosts,        (* resources of network.request                            *)
  Claims,       (* resources of claim.publish                              *)
  FullRSI,      (* the claim "full-autonomous-self-mutating-rsi"           *)
  Objectives,   (* objectives a contract may have                          *)
  Obligations,  (* obligation ids                                          *)
  TicketIds,    (* approval ticket ids                                     *)
  Never,        (* a ticket without expires_at                             *)
  Garbled       (* an expires_at that time.Parse refuses                   *)

AdapterKinds  == {"scripted", "shell", "agent"}
CheckKinds    == {"verify", "review", "evaluate"}
Kinds         == AdapterKinds \cup CheckKinds
Effects       == [type : {"file.write", "file.read"}, res : Paths]
                   \cup [type : {"process.spawn"}, res : Commands]
                   \cup [type : {"network.request"}, res : Hosts]
                   \cup [type : {"claim.publish"}, res : Claims \cup {FullRSI}]
Reasons       == {"plain", "rollback", "full"}
Expiries      == Nat \cup {Never, Garbled}
Tickets       == [id : TicketIds, task : Nat, effect : Effects,
                  approved : BOOLEAN, expires : Expiries, reason : Reasons]
Tasks         == [kind : Kinds, deps : SUBSET Nat, effects : Seq(Effects),
                  claims : SUBSET Obligations]
Contracts     == [objective : Objectives, tasks : Seq(Tasks),
                  obligations : SUBSET Obligations,
                  required : SUBSET Obligations,
                  evaluator : SUBSET Obligations,
                  reads : Seq(Paths), writes : SUBSET Paths,
                  approvals : Seq(Tickets)]

TaskIds(c)    == DOMAIN c.tasks
Kind(c, t)    == c.tasks[t].kind
Deps(c, t)    == c.tasks[t].deps
EffectsOf(c, t) == c.tasks[t].effects
Claimants(c, o) == {t \in TaskIds(c) : o \in c.tasks[t].claims}
Reads(c)      == {c.reads[i] : i \in DOMAIN c.reads}

\* Variant for mutation: only a task waiting for itself.
WaitsForItself(c) == \E t \in TaskIds(c) : t \in Deps(c, t)

(***************************************************************************)
(* hasCycle, as what its depth-first search decides: some set of tasks in  *)
(* which every member waits for another member.                            *)
(***************************************************************************)
HasCycle(c) ==
  \E S \in SUBSET TaskIds(c) : /\ S # {}
                               /\ \A t \in S : Deps(c, t) \cap S # {}

Declares(c, t, e) ==
  t \in TaskIds(c) /\ \E i \in DOMAIN EffectsOf(c, t) : EffectsOf(c, t)[i] = e

\* Variant for mutation: the expiry of a ticket is not read.
ApprovalsDeclared(c) ==
  \A i \in DOMAIN c.approvals : Declares(c, c.approvals[i].task, c.approvals[i].effect)

ApprovalsValid(c) ==
  /\ \A i, j \in DOMAIN c.approvals :
       c.approvals[i].id = c.approvals[j].id => i = j
  /\ \A i \in DOMAIN c.approvals :
       /\ c.approvals[i].expires # Garbled
       /\ Declares(c, c.approvals[i].task, c.approvals[i].effect)

(***************************************************************************)
(* Validate.  Nothing asks that a required obligation is claimed by a      *)
(* task, nor that two tasks write different paths.                         *)
(***************************************************************************)
Valid(c) ==
  /\ c.required # {}
  /\ c.required \subseteq c.obligations
  /\ c.tasks # <<>>
  /\ \A t \in TaskIds(c) : c.tasks[t].claims \subseteq c.obligations
  /\ ApprovalsValid(c)
  /\ \A t \in TaskIds(c) : Deps(c, t) \subseteq TaskIds(c)
  /\ ~HasCycle(c)
  /\ c.evaluator \subseteq c.obligations
  /\ c.required \subseteq c.evaluator
=============================================================================
