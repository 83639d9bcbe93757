------------------------------ MODULE Repairs -------------------------------
(***************************************************************************)
(* A repair under way: the five documents are issued, re-issued and edited *)
(* while the base and the repair branch move and time passes, and at every *)
(* moment somebody may ask EvaluateAutonomousRepairGovernance whether the  *)
(* action may be carried out now.                                          *)
(***************************************************************************)
EXTENDS RepairAuthority

CONSTANTS
  Scenes,       (* what is wanted of which repository under which policy *)
  run, otherRun, issue, otherIssue, main, branch, operator,
  Passing,      (* heads of the repair branch that pass every check     *)
  Touches,      (* path classes the diff of each head touches           *)
  Lifetime,     (* of an envelope                                       *)
  Unbudgeted,   (* a budget whose product with a second does not fit    *)
  MaxMoves, MaxIssues, MaxSlips, MaxClock   (* bounds                   *)

ASSUME RepairBounds == {Lifetime, Unbudgeted, MaxMoves, MaxIssues, MaxSlips, MaxClock} \subseteq Nat

\* An envelope is issued for a time a Duration can count.
ASSUME LifetimeAssumption == Lifetime * Second < Half

ASSUME OperatorAssumption == operator # None

VARIABLES
  policy, repo, wanted,   \* what is to be done, where, under which policy
  base, head,             \* commits of the default and of the repair branch
  checked,                \* the head the checks ran at last
  docs,                   \* the documents: content and the digest put on it
  approved,               \* the digest of the action the operator approved
  clock,
  moves, issues, slips,
  reviewed,               \* history: the diffs reviewed and by whom
  signedOff               \* history: what the operator has approved

repairVars == <<policy, repo, wanted, base, head, checked, docs, approved, clock, moves, issues, slips, reviewed, signedOff>>
scene      == <<policy, repo, wanted>>

Rules  == RepoPolicy(policy, repo)
Forked == Rules.push = "operator_owned_fork"

MergeTerms(authorized, mode, approval, h, optIn) ==
  [authorized |-> authorized, mode |-> mode, approval |-> approval, head |-> h, optIn |-> optIn]

Signed(b) == [body |-> b, digest |-> b]

-----------------------------------------------------------------------------
(* What each issuer writes at time t of the world as it is. *)

Place == [base |-> base, default |-> main]

Envelope(t) ==
  [run |-> run, repo |-> repo, mode |-> "explicit_issue",
   url |-> [repo |-> repo, issue |-> issue], trigger |-> Place, routing |-> Place,
   class |-> Rules.class, optIn |-> Rules.optIn, allowed |-> Rules.allowed,
   denied |-> ExternalDenials, forkOwner |-> IF Forked THEN operator ELSE None,
   branch |-> branch, pathClasses |-> Risky, checks |-> Rules.checks,
   created |-> t, expires |-> t + Lifetime, budget |-> Lifetime]

Candidate(t) ==
  [run |-> run, repo |-> repo, base |-> base, issue |-> issue, decision |-> "selected",
   eligible |-> TRUE, sensitive |-> FALSE, at |-> t]

Checks ==
  [n \in Rules.checks |->
     [conclusion |-> IF checked \in Passing THEN "success" ELSE "failure", head |-> checked]]

Merging ==
  CASE wanted = "request_merge_queue" -> MergeTerms(TRUE, "merge_queue", "codeowner", head, FALSE)
    [] wanted = "auto_merge" -> MergeTerms(TRUE, "auto_merge", "none", None, TRUE)
    [] OTHER -> Unmerged

Governance(t) ==
  [run |-> run, repo |-> repo, base |-> base, head |-> head, class |-> Rules.class,
   sources |-> {IF Configured(policy, repo) THEN "repository_policy" ELSE "unknown_default"},
   push |-> Rules.push, mode |-> Rules.mode,
   merge |-> Merging,
   touched |-> Touches[head] \cap Risky # {}, checks |-> Checks, at |-> t]

Review(t) ==
  [run |-> run, subject |-> <<base, head>>, independent |-> TRUE, automated |-> FALSE, gate |-> TRUE,
   at |-> t]

Earliest(s, t) == IF s < t THEN s ELSE t

Action(t, four) ==
  [run |-> run, repo |-> repo, issue |-> issue, base |-> base, head |-> head,
   fork |-> IF Forked THEN [owner |-> operator, of |-> repo] ELSE None, branch |-> branch,
   diff |-> <<base, head>>, checks |-> Checks, action |-> wanted, at |-> t,
   expires |-> Earliest(t + Day, four["envelope"].body.expires),
   links |-> [d \in DocumentNames \ {"action"} |-> four[d].digest]]

Proper(d, t) ==
  CASE d = "envelope"   -> Envelope(t)
    [] d = "candidate"  -> Candidate(t)
    [] d = "governance" -> Governance(t)
    [] d = "reviewer"   -> Review(t)
    [] d = "action"     -> Action(t, docs)

\* ... and what an issuer may write who is wrong, or of another run or issue.
Improper(d) ==
  LET b == Proper(d, clock) IN
  CASE d = "envelope" ->
         {[b EXCEPT !.allowed = RepairActions], [b EXCEPT !.class = "sole_control", !.optIn = TRUE],
          [b EXCEPT !.denied = {"merge"}], [b EXCEPT !.budget = Unbudgeted],
          [b EXCEPT !.expires = clock + Lifetime + 1], [b EXCEPT !.mode = "issue_list"],
          [b EXCEPT !.url.issue = otherIssue]}
    [] d = "candidate" ->
         {[b EXCEPT !.run = otherRun], [b EXCEPT !.issue = otherIssue],
          [b EXCEPT !.decision = "eligible"], [b EXCEPT !.eligible = FALSE],
          [b EXCEPT !.sensitive = TRUE]}
    [] d = "governance" ->
         {[b EXCEPT !.run = otherRun], [b EXCEPT !.touched = ~b.touched],
          [b EXCEPT !.class = "sole_control", !.sources = {"operator_envelope"}],
          [b EXCEPT !.merge = MergeTerms(TRUE, "auto_merge", "none", None, TRUE)],
          [b EXCEPT !.merge.approval = "none"]}
         \cup {[b EXCEPT !.merge.head = h] : h \in DOMAIN Touches \ {head}}
    [] d = "reviewer" ->
         {[b EXCEPT !.automated = TRUE], [b EXCEPT !.gate = FALSE],
          [b EXCEPT !.independent = FALSE, !.gate = FALSE]}
    [] d = "action" ->
         {[b EXCEPT !.expires = clock + Day + 1], [b EXCEPT !.action = "auto_merge"],
          [b EXCEPT !.fork = IF Forked THEN None ELSE [owner |-> operator, of |-> repo]]}

-----------------------------------------------------------------------------
(* Steps. *)

Seen(b) == [base |-> b.subject[1], head |-> b.subject[2], human |-> b.independent /\ ~b.automated]

Chain(four, action) == [d \in DocumentNames |-> IF d = "action" THEN action ELSE four[d]]

Put(d, b) ==
  /\ docs' = [docs EXCEPT ![d] = Signed(b)]
  /\ reviewed' = IF d = "reviewer" THEN reviewed \cup {Seen(b)} ELSE reviewed

\* In one tick some of the documents are issued anew, the action last.
Reissue ==
  /\ issues < MaxIssues /\ issues' = issues + 1
  /\ \E some \in SUBSET DocumentNames \ {{}} :
       LET four == [d \in DocumentNames \ {"action"} |->
                      IF d \in some THEN Signed(Proper(d, clock)) ELSE docs[d]]
       IN /\ docs' = Chain(four, IF "action" \in some THEN Signed(Action(clock, four))
                                 ELSE docs["action"])
          /\ reviewed' = IF "reviewer" \in some THEN reviewed \cup {Seen(Review(clock))} ELSE reviewed
  /\ UNCHANGED <<scene, base, head, checked, approved, clock, moves, slips, signedOff>>

Slip(d) ==
  /\ slips < MaxSlips /\ slips' = slips + 1
  /\ \E b \in Improper(d) : Put(d, b)
  /\ UNCHANGED <<scene, base, head, checked, approved, clock, moves, issues, signedOff>>

\* A document is brought into line under the digest it had.
Edit(d) ==
  /\ slips < MaxSlips /\ slips' = slips + 1
  /\ docs[d].body # Proper(d, clock)
  /\ docs' = [docs EXCEPT ![d].body = Proper(d, clock)]
  /\ UNCHANGED <<scene, base, head, checked, approved, clock, moves, issues, reviewed, signedOff>>

\* The operator approves the action there is.
ApproveAction ==
  /\ approved # docs["action"].digest /\ approved' = docs["action"].digest
  /\ signedOff' = signedOff \cup {docs["action"].digest}
  /\ UNCHANGED <<scene, base, head, checked, docs, clock, moves, issues, slips, reviewed>>

Move ==
  /\ moves < MaxMoves /\ moves' = moves + 1
  /\ \/ base' = base + 1 /\ UNCHANGED head
     \/ head' \in DOMAIN Touches \ {head} /\ UNCHANGED base
  /\ UNCHANGED <<scene, checked, docs, approved, clock, issues, slips, reviewed, signedOff>>

RunChecks ==
  /\ checked # head /\ checked' = head
  /\ UNCHANGED <<scene, base, head, docs, approved, clock, moves, issues, slips, reviewed, signedOff>>

Elapse ==
  /\ clock < MaxClock /\ clock' = clock + 1
  /\ UNCHANGED <<scene, base, head, checked, docs, approved, moves, issues, slips, reviewed, signedOff>>

\* Every document has been issued and the action approved, all in one tick.
RepairsInit ==
  /\ \E s \in Scenes : policy = s.policy /\ repo = s.repo /\ wanted = s.wanted
  /\ base = 1 /\ head = 1 /\ checked = 1 /\ clock = 0 /\ moves = 0 /\ issues = 0 /\ slips = 0
  /\ \E four \in {[d \in DocumentNames \ {"action"} |-> Signed(Proper(d, 0))]} :
       docs = Chain(four, Signed(Action(0, four)))
  /\ approved = docs["action"].digest
  /\ reviewed = {Seen(docs["reviewer"].body)} /\ signedOff = {approved}

RepairsNext ==
  \/ \E d \in DocumentNames : Slip(d) \/ Edit(d)
  \/ Reissue \/ ApproveAction \/ Move \/ RunChecks \/ Elapse

RepairsSpec == RepairsInit /\ [][RepairsNext]_repairVars

-----------------------------------------------------------------------------
(* Properties. *)

\* What a caller asks about the documents there are: of the branches it looks
\* at, it says how they are.
Asked(how, what, assertion) ==
  [how |-> how, repo |-> repo, assertion |-> assertion, issue |-> issue, wanted |-> what,
   base |-> base, paths |-> Touches[docs["action"].body.head], approved |-> {approved},
   envelope |-> docs["envelope"], candidate |-> docs["candidate"], governance |-> docs["governance"],
   reviewer |-> docs["reviewer"], action |-> docs["action"]]

The(d) == docs[d].body

\* The action that was wanted all along and the one the document is about.
Considered == {wanted, The("action").action}

MayMutate(what) == EvaluateRepair(policy, Asked("write", what, None), clock).mutation

\* Whoever issued what in whatever order: an action that may be carried out is
\* one the operator approved in exactly the words it has now, about the head
\* whose diff somebody reviewed, which passed every check and touches some
\* path and no protected one, on the base the default branch is at
\* (autonomous_repair_architecture.go:199-345).
MutationRestsOnOneHead ==
  \A what \in Considered : MayMutate(what) =>
    LET h == The("action").head IN
    /\ The("action") \in signedOff
    /\ \A d \in DocumentNames \ {"action"} : The("action").links[d] = The(d)
    /\ h \in Passing /\ Touches[h] # {} /\ Touches[h] \cap Risky = {}
    /\ \E seen \in reviewed : seen.base = base /\ seen.head = h

\* No document widens what the policy of the repository grants: an external or
\* unknown repository sees drafts from the operator's fork and nothing else, a
\* team's merge queue only a head an independent human has reviewed, auto-merge
\* only repositories that opted in, and a discovery, with documents or without,
\* nothing at all
\* (autonomous_repair_governance.go:116-187, autonomous_repair_architecture.go:690-741).
NoDocumentWidensThePolicy ==
  /\ \A q \in {[how |-> "discovery", repo |-> repo], Asked("discovery", wanted, None)} :
       ~EvaluateRepair(policy, q, clock).mutation
  /\ \A what \in Considered : MayMutate(what) =>
       /\ what \in Rules.allowed
       /\ (Rules.class = "external" \/ ~Configured(policy, repo)) =>
            what \in DraftActions /\ The("action").fork = [owner |-> operator, of |-> repo]
       /\ Rules.class = "team" /\ what \in MergeActions =>
            /\ what = "request_merge_queue"
            /\ [base |-> base, head |-> The("action").head, human |-> TRUE] \in reviewed
       /\ what = "auto_merge" => Rules.optIn /\ repo \notin OwnRepos

\* An authorisation is never older than a day, than the envelope or than what the
\* envelope budgets, whatever the 64 bits of a Duration make of the budget
\* (autonomous_repair_architecture.go:646-688).
AuthorityRunsOut ==
  \A what \in Considered : MayMutate(what) =>
    /\ clock - The("action").at < Day /\ clock >= The("action").at
    /\ clock - The("envelope").created < The("envelope").budget * Second
    /\ \A d \in {"candidate", "governance", "reviewer"} :
         The("envelope").created <= The(d).at /\ The(d).at <= The("action").at

\* What its issuers wrote properly, each of the world as it is and one after the
\* other, is authorised until it runs out: no check contradicts another.  A diff
\* that touches no path is not a repair: its request is refused as malformed
\* (autonomous_repair_governance.go:116-187, autonomous_repair_architecture.go:199-345).
ProperChainIsAuthorized ==
  LET at == [d \in DocumentNames |-> IF d = "envelope" THEN The(d).created ELSE The(d).at] IN
  /\ PolicyValid(policy) /\ approved = docs["action"].digest
  /\ \A d \in DocumentNames : docs[d] = Signed(Proper(d, at[d]))
  /\ \A d \in DocumentNames : at["envelope"] <= at[d] /\ at[d] <= at["action"]
  /\ checked = head /\ head \in Passing /\ Touches[head] # {} /\ Touches[head] \cap Risky = {}
  /\ clock < The("action").expires
  /\ wanted \in Rules.allowed /\ (wanted = "auto_merge" => Rules.optIn)
  => \A assertion \in {None, Rules.class} :
       EvaluateRepair(policy, Asked("write", wanted, assertion), clock).authorized
=============================================================================
