------------------------------- MODULE Gates --------------------------------
(***************************************************************************)
(* The commands that decide about live mutation and about publishing the   *)
(* full claim.  Each reads one file, then another, looks at the clock and  *)
(* answers; the files belong to others, who go on writing them.            *)
(***************************************************************************)
EXTENDS Authority, ClaimGate

CONSTANTS
  Requests,    (* requests somebody may write                                *)
  Candidates,  (* scopes somebody may issue a low-risk policy for            *)
  Readiness,   (* summaries of claim readiness                               *)
  Indexes,     (* summaries of the readback index                            *)
  Times,       (* times tickets and policies may name                        *)
  NoFile,      (* no file, or none that can be read                          *)
  MaxWrites, MaxCalls, MaxTime   (* bounds                                   *)

ASSUME GateBounds == MaxWrites \in Nat /\ MaxCalls \in Nat /\ MaxTime \in Nat

\* What is a list in a request or a summary.
ASSUME PlansAssumption ==
  \A r \in Requests : r.multi # NoMulti =>
    LET m == r.multi
        IsList(s) == s \in Seq(ToSet(s))
    IN /\ IsList(m.plan.order) /\ IsList(m.plan.entries)
       /\ IsList(m.states) /\ IsList(m.ci) /\ IsList(m.rollbacks)

ASSUME SummariesAssumption ==
  /\ \A r \in Readiness : r.blockers \in Seq(ToSet(r.blockers))
  /\ \A i \in Indexes : i.remaining \in Seq(ToSet(i.remaining))

VARIABLES
  command,   \* which of the commands is looked at
  first,     \* the request, or the claim readiness
  second,    \* the ticket, the policy, or the readback index
  now,
  pc, held, heldSecond,   \* where the command is, and what it has read
  answer,    \* what the last call said, of what and when, until the next begins
  calls, writes,
  approvals, \* history: what approvers have approved
  void,      \* history: the tickets that were consumed or denied
  voidBefore \* history: those when the command began

files   == <<first, second>>
reading == <<pc, held, heldSecond>>
history == <<approvals, void>>
gateVars == <<command, files, now, reading, answer, calls, writes, history, voidBefore>>

TicketCommands == {"live-docs", "mutation-class"}
Commands == TicketCommands \cup {"low-risk-code-live", "claim-publish-gate"}

NoAnswer == [how |-> "none"]
Refused  == [how |-> "error"]

GatesInit ==
  /\ command \in Commands
  /\ first = NoFile /\ second = NoFile /\ now = 0
  /\ pc = "idle" /\ held = NoFile /\ heldSecond = NoFile
  /\ answer = NoAnswer /\ calls = 0 /\ writes = 0
  /\ approvals = {} /\ void = {} /\ voidBefore = {}

-----------------------------------------------------------------------------
(* A command. *)

Answer(a) == pc' = "idle" /\ answer' = a /\ held' = NoFile /\ heldSecond' = NoFile

\* A low-risk policy has no request.
ReadFirst ==
  /\ pc = "idle" /\ calls < MaxCalls /\ calls' = calls + 1
  /\ voidBefore' = void
  /\ IF command = "low-risk-code-live"
     THEN pc' = "second" /\ answer' = NoAnswer /\ UNCHANGED <<held, heldSecond>>
     ELSE IF first = NoFile THEN Answer(Refused)
     ELSE pc' = "second" /\ answer' = NoAnswer /\ held' = first /\ UNCHANGED heldSecond
  /\ UNCHANGED <<command, files, now, writes, history>>

ReadSecond ==
  /\ pc = "second"
  /\ IF second = NoFile THEN Answer(Refused)
     ELSE pc' = "decide" /\ heldSecond' = second /\ UNCHANGED <<held, answer>>
  /\ UNCHANGED <<command, files, now, calls, writes, history, voidBefore>>

Verdict ==
  CASE command = "live-docs"          -> DocsTicketHolds(held, heldSecond, now)
    [] command = "mutation-class"     -> MutationTicketHolds(held, heldSecond, now)
    [] command = "low-risk-code-live" -> PolicyHolds(heldSecond, now)
    [] command = "claim-publish-gate" -> PublishAuthority(held, heldSecond)

Decide ==
  /\ pc = "decide"
  /\ Answer([how |-> "done", yes |-> Verdict, first |-> held, second |-> heldSecond, at |-> now,
             blockers |-> IF command = "claim-publish-gate"
                          THEN Blockers(held, heldSecond) ELSE <<>>])
  /\ UNCHANGED <<command, files, now, calls, writes, history, voidBefore>>

Call == ReadFirst \/ ReadSecond \/ Decide

-----------------------------------------------------------------------------
(* Those who write the files. *)

Writes(f, s) ==
  /\ writes < MaxWrites /\ writes' = writes + 1
  /\ <<f, s>> # files /\ first' = f /\ second' = s
  /\ UNCHANGED <<command, now, reading, answer, calls, voidBefore>>

Number == Cardinality(approvals) + 1

Issued(request, class, scope, issued, expires) ==
  [number |-> Number, request |-> request, state |-> "approved", consumed |-> FALSE,
   class |-> class, scope |-> scope, digest |-> scope, issued |-> issued, expires |-> expires]

Ask ==
  /\ command \in TicketCommands
  /\ \E r \in Requests : Writes(r, second) /\ UNCHANGED history

Approve(t) == Writes(first, t) /\ approvals' = approvals \cup {t} /\ UNCHANGED void

\* A ticket for the request there is, and the scope of that or another one.
ApproveTicket ==
  /\ command \in TicketCommands /\ first # NoFile
  /\ \E r \in Requests, e \in Times : Approve(Issued(first.id, r.class, ScopeOf(r), 0, e))

IssuePolicy ==
  /\ command = "low-risk-code-live"
  /\ \E s \in Candidates, i \in Times, e \in Times :
       Approve(Issued("policy", "low_risk_code", s, i, e))

\* It is used, or denied after all.
Void ==
  /\ command # "claim-publish-gate" /\ second # NoFile
  /\ \/ Writes(first, [second EXCEPT !.consumed = TRUE])
     \/ Writes(first, [second EXCEPT !.state = "denied"])
  /\ void' = void \cup {second.number} /\ UNCHANGED approvals

\* The scope of a ticket is brought into line with its request, or that of a
\* policy with the candidate, and the digest stays what it was.
Amend ==
  /\ command # "claim-publish-gate" /\ second # NoFile
  /\ \E s \in IF command = "low-risk-code-live" THEN {Selected}
              ELSE IF first = NoFile THEN {} ELSE {ScopeOf(first)} :
       Writes(first, [second EXCEPT !.scope = s]) /\ UNCHANGED history

Summarise ==
  /\ command = "claim-publish-gate"
  /\ \/ \E r \in Readiness : Writes(r, second)
     \/ \E i \in Indexes : Writes(first, i)
  /\ UNCHANGED history

Tick ==
  /\ now < MaxTime /\ now' = now + 1
  /\ UNCHANGED <<command, files, reading, answer, calls, writes, history, voidBefore>>

Others == Ask \/ ApproveTicket \/ IssuePolicy \/ Void \/ Amend \/ Summarise \/ Tick

GatesNext == Call \/ Others

GatesSpec == GatesInit /\ [][GatesNext]_gateVars

-----------------------------------------------------------------------------
(* Properties. *)

Accepted == answer.how = "done" /\ answer.yes

\* A scope that says what the request says, in all that a mutation is held to.
Covers(scope, r) ==
  /\ scope.class = r.class /\ Matches(MutationFields, r, scope)
  /\ scope.rollback /\ r.rollback
  /\ r.class = "multi_repo_low_risk" => scope.multi = r.multi

\* Although request and ticket are two files that change while they are read, a
\* ticket or policy that is accepted carries an approval that was given to this
\* very scope, in force when the answer was given and not used or denied before
\* the command began (governance_authority.go:11-178).  The scope of a
\* docs-only ticket is only as good as the ticket: see DocsTicketIsBound.
AcceptedWasApproved ==
  Accepted /\ command # "claim-publish-gate" =>
    \E a \in approvals :
      /\ a.number = answer.second.number /\ a.number \notin voidBefore
      /\ a.expires > answer.at
      /\ CASE command = "mutation-class" -> a.request = answer.first.id /\ Covers(a.scope, answer.first)
           [] command = "low-risk-code-live" -> a.issued <= answer.at /\ a.scope = Selected
           [] OTHER -> a.request = answer.first.id

\* Merging the repositories of an accepted plan in its order meets no repository
\* that waits for a later one, directly or through others, and none whose state
\* was stale, whose CI was not green or that cannot be rolled back by the last
\* that was written of it (governance_authority.go:232-364).
AcceptedPlanCanMerge ==
  Accepted /\ command = "mutation-class" /\ answer.first.class = "multi_repo_low_risk" =>
    LET m     == answer.second.scope.multi
        order == m.plan.order
        e     == m.plan.entries
        place(repo) == SelectInSeq(order, LAMBDA r : r = repo)
        about(s, repo) == {i \in DOMAIN s : s[i].repo = repo}
        last(s, repo)  == s[CHOOSE i \in about(s, repo) : \A j \in about(s, repo) : j <= i]
    IN /\ \A i \in DOMAIN e : \A d \in ToSet(e[i].dependsOn) : place(d) \in 1..(i - 1)
       /\ \A repo \in ToSet(order) :
            /\ \A s \in {m.states, m.ci, m.rollbacks} : about(s, repo) # {}
            /\ last(m.states, repo).observed <= answer.at
            /\ answer.at < last(m.states, repo).expires
            /\ last(m.ci, repo).status # "failed" /\ last(m.rollbacks, repo).ready

\* The checks of the gate that fail, by the blocker each of them is named by.
FailedChecks(r, i) ==
  LET fails(id, holds) == IF holds THEN {} ELSE {id}
  IN fails("readback_index_not_passed", i.status = "passed")
     \cup fails("control_plane_readback_not_passed", i.readback = "passed")
     \cup fails("retained_claim_level_evidence_missing", i.retained = "present")
     \cup fails("covenant_claim_publish_approval", r.approved)

\* What stands in the way of a claim: the blockers of either summary that have a
\* name, and those of the checks that fail.
Obstacles(r, i) ==
  (({r.blockers[k].id : k \in DOMAIN r.blockers} \cup ToSet(i.remaining)) \ {Missing})
    \cup FailedChecks(r, i)

\* The gate names what stands in the way of a claim and nothing else, each obstacle
\* once and, where the readiness summary speaks of it, with the state that has it
\* there first.  It grants where nothing stands in the way, readiness decides
\* "allowed" and the boundary of the index does not say "denied", and only there:
\* decision and boundary deny a claim without being named (claim_gate.go:62-149).
EveryObstacleNamed ==
  command = "claim-publish-gate" /\ answer.how = "done" =>
    LET r == answer.first
        i == answer.second
        listed    == {answer.blockers[k].id : k \in DOMAIN answer.blockers}
        heard(id) == {j \in DOMAIN r.blockers : r.blockers[j].id = id}
        told(j)   == IF r.blockers[j].state = Missing THEN "missing" ELSE r.blockers[j].state
    IN /\ listed = Obstacles(r, i)
       /\ Len(answer.blockers) = Cardinality(listed)
       /\ \A k \in DOMAIN answer.blockers :
            LET b == answer.blockers[k]
            IN heard(b.id) # {} =>
                 \E j \in heard(b.id) : b.state = told(j) /\ \A l \in heard(b.id) : j <= l
       /\ answer.yes <=> listed = {} /\ r.decision = "allowed" /\ i.boundary # "denied"

\* REFERENCE.md:459-462 of the docs-only ticket: "The match covers request id,
\* repository, branch prefix, docs-only allowlist, forbidden paths, maximum
\* changed-file count, rollback plan reference, kill-switch reference, Sentinel
\* hold reference, Command readback reference, and ticket digest binding."
DocsTicketIsBound ==
  Accepted /\ command = "live-docs" => answer.second.digest = answer.second.scope
=============================================================================
