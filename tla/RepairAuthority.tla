-------------------------- MODULE RepairAuthority ---------------------------
(***************************************************************************)
(* EvaluateAutonomousRepairGovernance                                      *)
(* (policy/autonomous_repair_governance.go, _architecture.go): whether a   *)
(* repair agent may carry out one action on GitHub.  The authority is a    *)
(* chain of five documents, each with the digest of its own content; the   *)
(* last holds the digests of the other four and is approved by its own.    *)
(*                                                                         *)
(* A digest is the content it was taken of.  A list that must not repeat   *)
(* itself is a set, a list of checks a function from their names.  The     *)
(* form of names, digests and times, the numbers of an envelope and the    *)
(* constants of the policy are left to the schemas.                        *)
(***************************************************************************)
EXTENDS Integers, SequencesExt

CONSTANTS
  None,        (* a field that is null                        *)
  Risky,       (* path classes no repair may touch            *)
  OwnRepos,    (* repositories of the prefix that may not opt in to auto-merge *)
  Day,         (* 24 hours, in ticks of the clock             *)
  Second,      (* a second, in ticks                          *)
  Half         (* half of what a time.Duration can count: 2^63 *)

ASSUME RepairTimes == {Day, Second, Half} \subseteq Nat \ {0}

DraftActions == {"push_operator_fork", "open_upstream_draft_pr"}
MergeActions == {"request_merge_queue", "auto_merge"}
RepairActions == DraftActions \cup {"open_ready_pr"} \cup MergeActions

\* What an envelope for an external repository must deny.
ExternalDenials == {"open_ready_pr", "approve_review", "merge", "mutate_issue"}

DocumentNames == {"envelope", "candidate", "governance", "reviewer", "action"}

-----------------------------------------------------------------------------
(* The governance policy. *)

\* validAutonomousRepairRepositoryPolicy; only the class sole_control is out of
\* the question for repositories nobody configured.
RepoPolicyValid(r) ==
  /\ r.checks # {} /\ r.allowed # {} /\ r.allowed \subseteq RepairActions
  /\ r.class \in {"sole_control", "team", "external"}
  /\ r.push \in {"policy_authorized_branch", "operator_owned_fork"}
  /\ r.mode \in {"draft_or_ready_by_policy", "upstream_draft_only"}
  /\ r.class = "external" => /\ r.push = "operator_owned_fork" /\ r.mode = "upstream_draft_only"
                             /\ r.allowed \subseteq DraftActions
  /\ r.class = "team" => "auto_merge" \notin r.allowed
  /\ r.optIn => r.class = "sole_control"

\* validAutonomousRepairGovernancePolicy
PolicyValid(p) ==
  /\ DOMAIN p.repos # {}
  /\ RepoPolicyValid(p.unknown) /\ p.unknown.class = "external"
  /\ \A repo \in DOMAIN p.repos :
       RepoPolicyValid(p.repos[repo]) /\ (repo \in OwnRepos => ~p.repos[repo].optIn)

\* autonomousRepairRepositoryPolicy
Configured(p, repo) == repo \in DOMAIN p.repos
RepoPolicy(p, repo) == IF Configured(p, repo) THEN p.repos[repo] ELSE p.unknown

-----------------------------------------------------------------------------
(* What each document must say. *)

Unmerged == [authorized |-> FALSE, mode |-> "never", approval |-> "none", head |-> None, optIn |-> FALSE]

\* What the schema of requests wants of a write beyond its form: a class of paths (an
\* empty list is left out when the request is written) and checks that succeeded.
SchemaValid(q) ==
  /\ q.paths # {}
  /\ \A n \in DOMAIN q.action.body.checks : q.action.body.checks[n].conclusion = "success"

\* validArchitectureMergeShape, validArchitectureReviewerShape
WellShaped(q) ==
  /\ q.governance.body.merge.authorized = (q.governance.body.merge.mode # "never")
  /\ q.reviewer.body.gate => q.reviewer.body.independent

\* architectureCanonicalDigest
Digested(q) == \A d \in DocumentNames : q[d].digest = q[d].body

\* candidateEligible
Eligible(c) == c.eligible /\ ~c.sensitive

MatchesPolicy(r, e, g, a) ==
  /\ e.class = r.class /\ g.class = r.class
  /\ e.optIn = r.optIn /\ g.push = r.push /\ g.mode = r.mode
  /\ e.checks = r.checks /\ e.pathClasses = Risky
  /\ a.action \in e.allowed /\ e.allowed \subseteq r.allowed

\* validateArchitectureRouting, in the order of its two refusals before the last
RoutedAlike(e, a) == e.trigger = e.routing /\ a.branch = e.branch
ForkMatches(e, g, a) ==
  IF g.push = "operator_owned_fork"
  THEN e.forkOwner # None /\ a.fork = [owner |-> e.forkOwner, of |-> a.repo]
  ELSE e.forkOwner = None /\ a.fork = None

\* Variant for mutation: a check counts for whatever head it was run at.
GreenAnywhere(checks, head) == \A n \in DOMAIN checks : checks[n].conclusion = "success"

Green(checks, head) ==
  \A n \in DOMAIN checks : checks[n].conclusion = "success" /\ checks[n].head = head

\* time.Duration(secs) * time.Second
Budget(secs) == ((secs * Second + Half) % (2 * Half)) - Half

\* Variant for mutation: an action may be approved for more than a day.
InOrderAnyLength(e, c, g, v, a, now) ==
  /\ e.created <= now /\ now < a.expires /\ a.expires <= e.expires /\ a.at < a.expires
  /\ \A t \in {c.at, g.at, v.at} : e.created <= t /\ t <= a.at
  /\ a.at <= now

\* Variant for mutation: what is decided in the second of the approval comes too late.
InOrderStrictly(e, c, g, v, a, now) ==
  /\ e.created <= now /\ now < a.expires /\ a.expires <= e.expires
  /\ a.at < a.expires /\ a.expires - a.at <= Day
  /\ \A t \in {c.at, g.at, v.at} : e.created <= t /\ t < a.at
  /\ a.at <= now

\* validateArchitectureChronology, without the lifetime of the envelope
InOrder(e, c, g, v, a, now) ==
  /\ e.created <= now /\ now < a.expires /\ a.expires <= e.expires
  /\ a.at < a.expires /\ a.expires - a.at <= Day
  /\ \A t \in {c.at, g.at, v.at} : e.created <= t /\ t <= a.at
  /\ a.at <= now

\* Variant for mutation: a bot may review.
ApprovedBySomebody(g, v, a) ==
  /\ g.merge.approval \in {"independent_human", "codeowner"} /\ g.merge.head = a.head
  /\ v.independent /\ v.gate

\* What a team wants for its merge queue.
HumanApproved(g, v, a) ==
  /\ g.merge.approval \in {"independent_human", "codeowner"} /\ g.merge.head = a.head
  /\ v.independent /\ v.gate /\ ~v.automated

\* validateArchitectureActionClass: conditions and the reason each is refused for.
ActionClassChecks(r, g, v, a) ==
  << <<a.action = "request_merge_queue" => g.merge.mode = "merge_queue",
       "merge_queue_authorization_required">>,
     <<a.action \notin MergeActions => g.merge = Unmerged, "contradictory_merge_authority">>,
     <<r.class = "external" => a.action \in DraftActions /\ g.merge = Unmerged, "external_draft_only">>,
     <<r.class = "team" => a.action # "auto_merge", "team_auto_merge_denied">>,
     <<r.class = "team" /\ a.action = "request_merge_queue" => HumanApproved(g, v, a),
       "independent_human_approval_required">>,
     <<r.class = "sole_control" /\ a.action = "auto_merge" =>
         r.optIn /\ g.merge.mode = "auto_merge" /\ g.merge.optIn,
       "sole_control_auto_merge_not_opted_in">> >>

\* validateArchitectureRepairAuthority, where q is a request for action q.wanted
\* that gives at most one digest as approved:
\* the documents are about one run, repository, issue, action, base and head.
BindingChecks(q) ==
  LET e == q.envelope.body
      c == q.candidate.body
      g == q.governance.body
      a == q.action.body
  IN << <<Digested(q), "canonical_digest_mismatch">>,
        <<q.approved = {q.action.digest}, "approved_action_digest_mismatch">>,
        <<\A d \in DocumentNames : q[d].body.run = a.run, "authority_run_mismatch">>,
        <<\A repo \in {q.repo, e.repo, c.repo, g.repo} : repo = a.repo, "authority_repository_mismatch">>,
        <<q.issue = a.issue /\ c.issue = a.issue, "authority_issue_mismatch">>,
        <<e.mode = "explicit_issue" /\ e.url = [repo |-> a.repo, issue |-> a.issue],
          "authority_issue_url_mismatch">>,
        <<q.wanted = a.action, "authority_action_mismatch">>,
        <<\A b \in {q.base, e.trigger.base, e.routing.base, c.base, g.base} : b = a.base,
          "authority_base_mismatch">>,
        <<g.head = a.head, "authority_head_mismatch">>,
        <<\A d \in DocumentNames \ {"action"} : a.links[d] = q[d].digest, "authority_digest_link_mismatch">> >>

\* ... the issue and the diff are such as may be repaired where the policy says ...
PolicyChecks(p, q, r) ==
  LET e == q.envelope.body
      c == q.candidate.body
      g == q.governance.body
      a == q.action.body
      protected == q.paths \cap Risky # {}
  IN << <<c.decision = "selected" /\ Eligible(c),
          IF c.sensitive THEN "security_sensitive" ELSE "candidate_not_eligible">>,
        <<g.touched = protected, "protected_path_classification_mismatch">>,
        <<~protected, "protected_path">>,
        <<MatchesPolicy(r, e, g, a), "repository_policy_mismatch">>,
        <<g.sources = {IF Configured(p, q.repo) THEN "repository_policy" ELSE "unknown_default"},
          "classification_provenance_mismatch">>,
        <<r.class = "external" => ExternalDenials \subseteq e.denied, "external_permanent_denials_missing">>,
        <<RoutedAlike(e, a), "routing_mismatch">>,
        <<ForkMatches(e, g, a), "fork_mismatch">> >>

\* ... and what the head was checked and reviewed for is in order and in time.
EvidenceChecks(r, e, c, g, v, a, now) ==
  << <<\A s \in {g.checks, a.checks} : Cardinality(DOMAIN s) = Cardinality(r.checks),
       "required_checks_mismatch">>,
     <<Green(g.checks, a.head) /\ Green(a.checks, a.head), "required_check_not_green">>,
     <<DOMAIN g.checks = r.checks /\ DOMAIN a.checks = r.checks, "required_checks_mismatch">>,
     <<v.subject = a.diff, "reviewer_binding_mismatch">>,
     <<InOrder(e, c, g, v, a, now), "authority_chronology_invalid">>,
     <<e.expires - e.created <= Budget(e.budget), "envelope_lifetime_invalid">> >>

AuthorityChecks(p, q, now) ==
  LET r == RepoPolicy(p, q.repo)
      g == q.governance.body
      v == q.reviewer.body
      a == q.action.body
  IN BindingChecks(q) \o PolicyChecks(p, q, r)
       \o EvidenceChecks(r, q.envelope.body, q.candidate.body, g, v, a, now)
       \o ActionClassChecks(r, g, v, a)

\* The first check that fails says why.
Refusals(checks) == {i \in DOMAIN checks : ~checks[i][1]}
FirstReason(checks) == checks[Min(Refusals(checks))][2]

Denied(why) == [authorized |-> FALSE, mutation |-> FALSE, reason |-> why]
Granted(mutation) == [authorized |-> TRUE, mutation |-> mutation, reason |-> "granted"]

\* EvaluateAutonomousRepairGovernance
EvaluateRepair(p, q, now) ==
  LET class    == RepoPolicy(p, q.repo).class
      evidence == DOMAIN q \ {"how", "repo"}
      checks   == AuthorityChecks(p, q, now)
  IN IF ~PolicyValid(p) THEN Denied("invalid_policy")
     ELSE IF q.how = "discovery" THEN IF evidence = {} THEN Granted(FALSE) ELSE Denied("invalid_request")
     ELSE IF q.approved = {} THEN Denied("invalid_request")
     ELSE IF ~SchemaValid(q) THEN Denied("malformed_canonical_authority")
     ELSE IF q.assertion \notin {None, class} THEN Denied("ownership_assertion_mismatch")
     ELSE IF ~WellShaped(q) THEN Denied("malformed_canonical_authority")
     ELSE IF Refusals(checks) # {} THEN Denied(FirstReason(checks))
     ELSE Granted(TRUE)
=============================================================================
