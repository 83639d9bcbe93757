----------------------------- MODULE Authority ------------------------------
(***************************************************************************)
(* What a request for live mutation and the ticket for it must say before  *)
(* `covenant approval live-docs`, `mutation-class` or `low-risk-code-live` *)
(* validates them (cli/cli_approval.go, policy/governance_authority.go).   *)
(*                                                                         *)
(* A ticket has passed its schema: an approver is named, the boundaries    *)
(* have their one value and the digest covers the scope.  A request has no *)
(* schema.  Terms of a scope that are only compared are values of          *)
(* scope.terms; a digest is the scope it was taken of.                     *)
(***************************************************************************)
EXTENDS Integers, SequencesExt

CONSTANTS
  Garbled,    (* a time that does not parse                                  *)
  NoMulti,    (* a scope without the terms of multi_repo_low_risk            *)
  Selected    (* the one candidate a low-risk policy may name                *)

DocsFields ==
  {"repo", "branch_policy", "docs_only_path_allowlist", "forbidden_paths", "max_changed_files"}

MutationFields ==
  {"repo", "branch_policy", "allowed_paths", "forbidden_paths", "max_changed_files",
   "required_gates", "authority_boundary", "rollback_scope", "rollback_evidence"}

Fields == DocsFields \cup MutationFields

\* validMutationClass
MutationClasses ==
  {"docs_only_single_file", "docs_only_multi_file", "docs_config_only", "test_only",
   "low_risk_code", "multi_repo_low_risk", "complex_repo_mutation"}

ScopeOf(r) == [class |-> r.class, terms |-> r.terms, rollback |-> r.rollback, multi |-> r.multi]

-----------------------------------------------------------------------------
(* A ticket by itself, and beside its request. *)

ExpiresAfter(d, now) == d.expires # Garbled /\ d.expires > now

Usable(d, now) == d.state = "approved" /\ ~d.consumed /\ ExpiresAfter(d, now)

\* The request waits for its ticket, and asks for no more than that.
Pending(r) == r.pending /\ r.safeToRequest /\ ~r.safeToExecute

Matches(fields, r, scope) == \A f \in fields : scope.terms[f] = r.terms[f]

-----------------------------------------------------------------------------
(* The terms of multi_repo_low_risk. *)

\* Variant for mutation: a dependency may come at any place.
Anywhere(entries, i) == {entries[j].repo : j \in DOMAIN entries}

\* What a plan has merged before its i-th entry: seen.
Earlier(entries, i) == {entries[j].repo : j \in 1..(i - 1)}

\* validateOrderedMultiRepoPlan
Ordered(plan) ==
  /\ plan.order # <<>> /\ Len(plan.entries) = Len(plan.order)
  /\ \A i \in DOMAIN plan.entries :
       LET e == plan.entries[i] IN
       /\ e.repo = plan.order[i] /\ e.order = i /\ e.planned
       /\ e.dependsOn = e.mergeAfter
       /\ ToSet(e.dependsOn) \subseteq Earlier(plan.entries, i)

\* byRepo: the last entry of a repository is the one that counts.
LastOf(entries, repo) ==
  LET i == SelectLastInSeq(entries, LAMBDA e : e.repo = repo) IN IF i = 0 THEN {} ELSE {entries[i]}

\* validatePerRepoRollback, validatePerRepoCI and validateFreshRepoState
RolledBack(e) == e.ready /\ e.scope # <<>>
Checked(e)    == e.required /\ e.status \in {"passed", "success"}
FreshAt(e, now) ==
  /\ e.clean /\ e.observed # Garbled /\ e.observed <= now
  /\ ExpiresAfter(e, now)

MultiRepoHolds(r, scope, now) ==
  LET m == scope.multi IN
  /\ m = r.multi /\ m # NoMulti
  /\ m.plan.ready /\ Ordered(m.plan)
  /\ \A repo \in ToSet(m.plan.order) :
       /\ \E e \in LastOf(m.rollbacks, repo) : RolledBack(e)
       /\ \E e \in LastOf(m.ci, repo) : Checked(e)
       /\ \E e \in LastOf(m.states, repo) : FreshAt(e, now)
  /\ m.armed

-----------------------------------------------------------------------------
(* The three verdicts. *)

\* validateLiveDocsApprovalTicket
DocsTicketHolds(r, t, now) ==
  /\ Pending(r) /\ r.class = "docs_only"
  /\ t.request = r.id /\ Usable(t, now)
  /\ Matches(DocsFields, r, t.scope)

\* Variant for mutation: the digest of the scope is not computed again.
TicketHoldsByWord(r, t, now) ==
  /\ Pending(r) /\ r.class \in MutationClasses
  /\ t.request = r.id /\ Usable(t, now)
  /\ t.class = r.class /\ t.scope.class = r.class
  /\ Matches(MutationFields, r, t.scope)
  /\ r.rollback /\ t.scope.rollback
  /\ r.class = "multi_repo_low_risk" => MultiRepoHolds(r, t.scope, now)

\* ValidateMutationClassAuthorityTicket
MutationTicketHolds(r, t, now) ==
  /\ Pending(r) /\ r.class \in MutationClasses
  /\ t.request = r.id /\ Usable(t, now)
  /\ t.class = r.class /\ t.scope.class = r.class
  /\ Matches(MutationFields, r, t.scope)
  /\ r.rollback /\ t.scope.rollback
  /\ r.class = "multi_repo_low_risk" => MultiRepoHolds(r, t.scope, now)
  /\ t.digest = t.scope

\* ValidateLowRiskCodeLivePolicy
PolicyHolds(p, now) ==
  /\ Usable(p, now) /\ p.issued # Garbled /\ p.issued <= now
  /\ p.class = "low_risk_code" /\ p.scope = Selected
  /\ p.digest = p.scope
=============================================================================
