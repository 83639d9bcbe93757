----------------------------- MODULE Approvals ------------------------------
(***************************************************************************)
(* The life of approval tickets: `covenant approval create` and            *)
(* `approval attach` (internal/approval/ticket_lifecycle.go,               *)
(* contract_binding.go) build up the approvals of one contract,            *)
(* `approval revoke` (internal/cli/cli_approval.go) the revocation list,   *)
(* while time passes.  What they are for is the decision EvaluateAction    *)
(* would take at this moment on a declared side effect.                    *)
(***************************************************************************)
EXTENDS Policy

CONSTANTS
  Draft,         (* the contract before any ticket is attached *)
  MaxTickets,    (* bound: tickets in the contract             *)
  MaxTime        (* bound: the clock                           *)

ASSUME DraftAssumption == Draft \in Contracts /\ Valid(Draft) /\ Draft.approvals = <<>>
ASSUME LimitsAssumption == MaxTime \in Nat /\ MaxTickets \in Nat

VARIABLES
  contract,   \* the contract file: Draft with the tickets attached so far
  list,       \* the revocation list file: ticket ids in order
  now,
  attached    \* history: the ticket attached last, as a sequence of at most one

ticketVars == <<contract, list, now, attached>>

Revoked == {list[i] : i \in DOMAIN list}

\* The tickets approval create can make for a declared side effect.  The id is
\* the operator's, or made of task, effect and resource in a way that can give
\* two side effects the same id.
Creatable ==
  {k \in [id : TicketIds, task : TaskIds(Draft), effect : Effects, approved : BOOLEAN,
          expires : (0..MaxTime) \cup {Never}, reason : Reasons] :
     Declares(Draft, k.task, k.effect)}

-----------------------------------------------------------------------------
(* contract_binding.go *)

\* Variant for mutation: the new ticket goes first.
PutFirst(approvals, k) ==
  IF \E i \in DOMAIN approvals : approvals[i].id = k.id
  THEN [i \in DOMAIN approvals |-> IF approvals[i].id = k.id THEN k ELSE approvals[i]]
  ELSE <<k>> \o approvals

\* appendOrReplaceApproval: a ticket of the same id gives up its place.
AppendOrReplace(approvals, k) ==
  IF \E i \in DOMAIN approvals : approvals[i].id = k.id
  THEN [i \in DOMAIN approvals |-> IF approvals[i].id = k.id THEN k ELSE approvals[i]]
  ELSE Append(approvals, k)

Updated(c, k) == [c EXCEPT !.approvals = AppendOrReplace(c.approvals, k)]

\* approval attach, in place; what Validate refuses leaves the file alone.
Attach(k) ==
  /\ Valid(Updated(contract, k))
  /\ Len(Updated(contract, k).approvals) <= MaxTickets
  /\ contract' = Updated(contract, k)
  /\ attached' = <<k>>
  /\ UNCHANGED <<list, now>>

-----------------------------------------------------------------------------
(* approval revoke *)

\* ValidateRevocationList
ListValid(l) == \A i, j \in DOMAIN l : l[i] = l[j] => i = j

\* --append keeps what the file holds; a second entry for a ticket is refused.
RevokeAppend(id) ==
  /\ ListValid(Append(list, id))
  /\ list' = Append(list, id)
  /\ UNCHANGED <<contract, now, attached>>

\* Without --append the list starts anew.
RevokeAnew(id) ==
  /\ list' = <<id>>
  /\ UNCHANGED <<contract, now, attached>>

Tick == now < MaxTime /\ now' = now + 1 /\ UNCHANGED <<contract, list, attached>>

TicketsInit == contract = Draft /\ list = <<>> /\ now = 0 /\ attached = <<>>

TicketsNext ==
  \/ \E k \in Creatable : Attach(k)
  \/ \E id \in TicketIds : RevokeAppend(id)
  \/ \E id \in TicketIds : RevokeAnew(id)
  \/ Tick

TicketsSpec == TicketsInit /\ [][TicketsNext]_ticketVars

-----------------------------------------------------------------------------
(* Properties. *)

Allowed(t, e) == EvaluateAction(contract, t, e, now, Revoked).verdict = "allow"

\* The side effects a ticket decides about.
Ticketed ==
  UNION {{<<t, EffectsOf(Draft, t)[n]>> : n \in
            {m \in DOMAIN EffectsOf(Draft, t) : EffectsOf(Draft, t)[m].type \in TicketTypes}}
          : t \in TaskIds(Draft)}

InForce(k, at) == k.expires = Never \/ k.expires > at

\* A side effect that is allowed stays so until its deciding ticket runs out,
\* is revoked or is replaced, or a ticket that stood before it is replaced by
\* one about the same side effect: attaching a ticket under a new id takes
\* nothing away (contract_binding.go:32-47, evaluator.go:79-99).
AllowLost ==
  [][\A x \in Ticketed :
       Allowed(x[1], x[2]) /\ ~Allowed(x[1], x[2])' =>
         LET k == FirstMatching(contract, x[1], x[2]) IN
         \/ ~InForce(k, now')
         \/ k.id \in Revoked'
         \/ /\ contract' # contract
            /\ \/ attached'[1].id = k.id
               \/ /\ attached'[1].task = x[1] /\ attached'[1].effect = x[2]
                  /\ \E i \in DOMAIN contract.approvals :
                       contract.approvals[i].id = attached'[1].id]_ticketVars

\* A side effect that is denied becomes allowed only by a list started anew, by
\* an approved ticket for it that is in force and not revoked, or by replacing
\* the ticket that stood in the way: time and --append never grant anything
\* (evaluator.go:32-99).
AllowGained ==
  [][\A x \in Ticketed :
       ~Allowed(x[1], x[2]) /\ Allowed(x[1], x[2])' =>
         \/ ~(Revoked \subseteq Revoked')
         \/ /\ contract' # contract
            /\ LET k == attached'[1] IN
               \/ /\ k.task = x[1] /\ k.effect = x[2] /\ k.approved
                  /\ InForce(k, now) /\ k.id \notin Revoked
               \/ /\ Matching(contract, x[1], x[2]) # {}
                  /\ k.id = FirstMatching(contract, x[1], x[2]).id]_ticketVars
=============================================================================
