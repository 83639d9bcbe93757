------------------------------- MODULE Policy -------------------------------
(***************************************************************************)
(* Strict policy evaluation (internal/policy/evaluator.go and              *)
(* governance_classification.go).  The contract schema admits no mode but  *)
(* "strict".  A reason stands for the sentence the code formats.           *)
(***************************************************************************)
EXTENDS Contract

CONSTANT NoTicket   \* the empty ApprovalTicketID

ASSUME NoTicketAssumption == NoTicket \notin TicketIds

TicketTypes == {"process.spawn", "network.request", "claim.publish"}

DecisionReasons == {"declared", "undeclared", "approved", "revoked", "expired",
                    "invalid", "missing", "insufficient"}

Decisions ==
  [task : Nat, n : Nat, effect : Effects, verdict : {"allow", "deny"},
   reason : DecisionReasons, ticket : TicketIds \cup {NoTicket}, at : Nat]

Allow(reason, ticket) == [verdict |-> "allow", reason |-> reason, ticket |-> ticket]
Deny(reason, ticket)  == [verdict |-> "deny",  reason |-> reason, ticket |-> ticket]

(***************************************************************************)
(* matchingApprovedTicket: the first approved ticket for the task, effect  *)
(* and resource settles the matter, whatever follows it in c.approvals.    *)
(***************************************************************************)
Matching(c, t, e) ==
  {i \in DOMAIN c.approvals : /\ c.approvals[i].task = t
                              /\ c.approvals[i].effect = e
                              /\ c.approvals[i].approved}

FirstMatching(c, t, e) ==
  c.approvals[CHOOSE i \in Matching(c, t, e) : \A j \in Matching(c, t, e) : i <= j]

\* Variant for mutation: only an expiry that does not parse counts.
StatusIfParsed(k, now) == IF k.expires = Garbled THEN "invalid" ELSE "valid"

TicketStatus(k, now) ==
  CASE k.expires = Never   -> "valid"
    [] k.expires = Garbled -> "invalid"
    [] OTHER -> IF k.expires > now THEN "valid" ELSE "expired"

\* The part process.spawn, network.request and claim.publish share.
TicketVerdict(c, t, e, now, revoked) ==
  IF Matching(c, t, e) = {} THEN Deny("missing", NoTicket)
  ELSE LET k == FirstMatching(c, t, e) IN
       IF TicketStatus(k, now) # "valid" THEN Deny(TicketStatus(k, now), NoTicket)
       ELSE IF k.id \in revoked THEN Deny("revoked", k.id)
       ELSE IF e = [type |-> "claim.publish", res |-> FullRSI] /\ k.reason # "full"
            THEN Deny("insufficient", k.id)
       ELSE Allow("approved", k.id)

ScopeVerdict(scope, p) ==
  IF p \in scope THEN Allow("declared", NoTicket) ELSE Deny("undeclared", NoTicket)

EvaluateAction(c, t, e, now, revoked) ==
  CASE e.type = "file.write" -> ScopeVerdict(c.writes, e.res)
    [] e.type = "file.read"  -> ScopeVerdict(Reads(c), e.res)
    [] OTHER                 -> TicketVerdict(c, t, e, now, revoked)

\* EvaluateTask: one decision per declared side effect, all at one time.
EvaluateTask(c, t, now, revoked) ==
  [n \in DOMAIN EffectsOf(c, t) |->
     LET e == EffectsOf(c, t)[n]
         v == EvaluateAction(c, t, e, now, revoked)
     IN [task |-> t, n |-> n, effect |-> e, verdict |-> v.verdict,
         reason |-> v.reason, ticket |-> v.ticket, at |-> now]]

\* Variant for mutation: only the first decision is looked at.
FirstDenied(ds) == {n \in DOMAIN ds \cap {1} : ds[n].verdict = "deny"}

Denied(ds) == {n \in DOMAIN ds : ds[n].verdict = "deny"}
=============================================================================
