---------------------------- MODULE PolicyProofs ----------------------------
(***************************************************************************)
(* What policy evaluation does, for every contract, ticket and time.       *)
(***************************************************************************)
EXTENDS Policy, SequenceLemmas

\* Of the tickets that match, the one that settles a decision stands first.
LEMMA FirstMatchingStandsFirst ==
  ASSUME NEW c, DOMAIN c.approvals \subseteq Nat, NEW t, NEW e
  PROVE  /\ Matching(c, t, e) # {} =>
              \E i \in Matching(c, t, e) : /\ FirstMatching(c, t, e) = c.approvals[i]
                                           /\ \A j \in Matching(c, t, e) : i <= j
         /\ \A i \in Matching(c, t, e) :
              (\A j \in Matching(c, t, e) : i <= j) => FirstMatching(c, t, e) = c.approvals[i]
<1> DEFINE M == Matching(c, t, e)
           First(i) == i \in M /\ \A j \in M : i <= j
<1>1. M \in SUBSET Nat
  BY DEF Matching
<1>2. FirstMatching(c, t, e) = c.approvals[CHOOSE i \in M : \A j \in M : i <= j]
  BY DEF FirstMatching
<1> HIDE DEF M
<1>3. M # {} => \E i \in M : \A j \in M : i <= j
  BY <1>1, LeastNumber
<1>4. \A i, k \in M : (\A j \in M : i <= j) /\ (\A j \in M : k <= j) => i = k
  BY <1>1
<1>5. ASSUME NEW i \in M, \A j \in M : i <= j PROVE i = CHOOSE k \in M : \A j \in M : k <= j
  BY <1>4, <1>5
<1> QED
  BY <1>2, <1>3, <1>5 DEF M

\* The ticket that settles a decision is one of the contract's, and matches.
LEMMA FirstMatchingMatches ==
  ASSUME NEW c \in Contracts, NEW t, NEW e, Matching(c, t, e) # {}
  PROVE  \E i \in DOMAIN c.approvals :
           /\ FirstMatching(c, t, e) = c.approvals[i]
           /\ c.approvals[i] \in Tickets
           /\ c.approvals[i].approved
           /\ c.approvals[i].task = t /\ c.approvals[i].effect = e
<1>1. c.approvals \in Seq(Tickets)
  BY DEF Contracts
<1>2. DOMAIN c.approvals \subseteq Nat
  BY <1>1
<1>3. PICK i \in Matching(c, t, e) : FirstMatching(c, t, e) = c.approvals[i]
  BY <1>2, FirstMatchingStandsFirst
<1>4. i \in DOMAIN c.approvals /\ c.approvals[i] \in Tickets
  BY <1>1 DEF Matching
<1> QED
  BY <1>3, <1>4 DEF Matching
=============================================================================
