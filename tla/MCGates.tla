------------------------------ MODULE MCGates -------------------------------
(* Requests, tickets and summaries small enough for TLC. *)
EXTENDS Gates

CONSTANTS q1, x, y, r1, r2, candidate, other

Terms == [f \in Fields |-> x]

Request(id, class, terms, rollback, multi) ==
  [id |-> id, pending |-> TRUE, safeToRequest |-> TRUE, safeToExecute |-> FALSE,
   class |-> class, terms |-> terms, rollback |-> rollback, multi |-> multi]

Docs  == Request(q1, "docs_only", Terms, FALSE, NoMulti)
Code  == Request(q1, "low_risk_code", Terms, TRUE, NoMulti)
Wider(r) == [r EXCEPT !.terms["max_changed_files"] = y]

\* r2 is merged after r1.
Merge(repo, order, after) ==
  [repo |-> repo, order |-> order, planned |-> TRUE, dependsOn |-> after, mergeAfter |-> after]
Plan(order, entries) == [ready |-> TRUE, order |-> order, entries |-> entries]
AfterA == Plan(<<r1, r2>>, <<Merge(r1, 1, <<>>), Merge(r2, 2, <<r1>>)>>)

Ready(repo) == [repo |-> repo, ready |-> TRUE, scope |-> <<x>>]
Ci(repo, status) == [repo |-> repo, required |-> TRUE, status |-> status]
State(repo, from, to) == [repo |-> repo, clean |-> TRUE, observed |-> from, expires |-> to]

Both == [plan |-> AfterA, rollbacks |-> <<Ready(r1), Ready(r2)>>,
         ci |-> <<Ci(r1, "passed"), Ci(r2, "success")>>,
         states |-> <<State(r1, 0, 2), State(r2, 0, 2)>>, armed |-> TRUE]

Multis ==
  {Both,
   \* r2 first, or a repository that is not planned
   [Both EXCEPT !.plan = Plan(<<r2, r1>>, <<Merge(r2, 1, <<r1>>), Merge(r1, 2, <<>>)>>)],
   [Both EXCEPT !.plan = Plan(<<r1>>, <<Merge(r1, 1, <<r2>>)>>)],
   \* CI that passed again, or failed after it had passed
   [Both EXCEPT !.ci = <<Ci(r1, "failed"), Ci(r2, "passed"), Ci(r1, "passed")>>],
   [Both EXCEPT !.ci = <<Ci(r2, "passed"), Ci(r1, "passed"), Ci(r2, "failed")>>],
   \* evidence that is observed later or expires earlier than the rest
   [Both EXCEPT !.states = <<State(r1, 0, 1), State(r2, 1, 2)>>],
   [Both EXCEPT !.states = <<State(r1, 1, 2), State(r2, 0, 2)>>],
   [Both EXCEPT !.rollbacks = <<Ready(r1), [Ready(r2) EXCEPT !.scope = <<>>]>>],
   [Both EXCEPT !.armed = FALSE]}

MultiRepo(m) == Request(q1, "multi_repo_low_risk", Terms, TRUE, m)

MCRequests ==
  {Docs, Wider(Docs), Code, Wider(Code), [Docs EXCEPT !.safeToExecute = TRUE],
   Request(q1, "low_risk_code", Terms, FALSE, NoMulti),
   Request(q1, "test_only", Terms, TRUE, NoMulti)}
  \cup {MultiRepo(m) : m \in Multis \cup {NoMulti}}

MCDocs == {Docs, Wider(Docs)}

MCTimes == {1, 2, Garbled}
MCCandidates == {candidate, other}

Named(id, state) == [id |-> id, state |-> state]
MCReadiness ==
  [decision : {"allowed", "denied"}, approved : BOOLEAN,
   blockers : {<<>>, <<Named("covenant_claim_publish_approval", "invalid")>>,
               <<Named(Missing, "blocking"), Named("rehearsal", Missing), Named("rehearsal", "invalid")>>}]
MCIndexes ==
  [status : {"passed", "failed"}, readback : {"passed", Missing}, retained : {"present", Missing},
   boundary : {"denied", Missing}, remaining : {<<>>, <<"rehearsal", "covenant_claim_publish_approval">>}]

\* A request and a ticket are both for plans of several repositories or neither is:
\* what comes of their meeting is checked, and nothing follows.
Plans == {"multi_repo_low_risk"}
Apart ==
  command \in TicketCommands /\ first' # NoFile /\ second' # NoFile =>
    (first'.class \in Plans <=> second'.scope.class \in Plans)
=============================================================================
