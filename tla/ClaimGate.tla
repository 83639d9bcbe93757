----------------------------- MODULE ClaimGate ------------------------------
(***************************************************************************)
(* `covenant policy claim-publish-gate` (policy/claim_gate.go): may the    *)
(* full claim be published, given the summaries of claim readiness and of  *)
(* the live self-change readback index?  A field that is missing or of     *)
(* another type reads as the empty string, FALSE or no list.               *)
(***************************************************************************)
EXTENDS Integers, SequencesExt

Missing == ""

\* An entry of the blockers of either summary; a blocker that says nothing about
\* its evidence misses it.
Blocker(id, state) == [id |-> id, state |-> IF state = Missing THEN "missing" ELSE state]

\* blockerForID
BlockerFor(id) ==
  Blocker(id, IF id = "covenant_claim_publish_approval" THEN "missing" ELSE "blocking")

\* Variant for mutation: a blocker is listed as often as it is named.
AppendBlocker(blockers, b) == Append(blockers, b)

AppendBlockerIfMissing(blockers, b) ==
  IF b.id = Missing \/ \E i \in DOMAIN blockers : blockers[i].id = b.id
  THEN blockers ELSE Append(blockers, b)

\* What the index and the approval lack, in the order it is looked for.
Lacking(readiness, index) ==
  LET lack(id, holds) == IF holds THEN <<>> ELSE <<Blocker(id, Missing)>>
  IN lack("readback_index_not_passed", index.status = "passed")
     \o lack("control_plane_readback_not_passed", index.readback = "passed")
     \o lack("retained_claim_level_evidence_missing", index.retained = "present")
     \o lack("covenant_claim_publish_approval", readiness.approved)

Blockers(readiness, index) ==
  LET named == [i \in DOMAIN readiness.blockers |->
                  Blocker(readiness.blockers[i].id, readiness.blockers[i].state)]
      remaining == [i \in DOMAIN index.remaining |-> BlockerFor(index.remaining[i])]
      all == named \o remaining \o Lacking(readiness, index)
      listed[n \in 0..Len(all)] ==
        IF n = 0 THEN <<>> ELSE AppendBlockerIfMissing(listed[n - 1], all[n])
  IN listed[Len(all)]

\* Variant for mutation: the boundary of the index is not looked at.
GrantOverBoundary(readiness, index) ==
  readiness.decision = "allowed" /\ Blockers(readiness, index) = <<>>

PublishAuthority(readiness, index) ==
  /\ readiness.approved /\ readiness.decision = "allowed"
  /\ index.status = "passed" /\ index.boundary # "denied"
  /\ Blockers(readiness, index) = <<>>
=============================================================================
