-------------------------- MODULE GovernanceProofs --------------------------
(***************************************************************************)
(* What the commands and the evaluator that decide about live mutation     *)
(* grant: for every plan, ticket, policy and repository, however often     *)
(* they are asked and however often files, documents and branches change.  *)
(***************************************************************************)
EXTENDS Gates, Repairs, SequenceLemmas, FiniteSetTheorems

-----------------------------------------------------------------------------
(* Tickets. *)

TicketParts ==
  {"number", "request", "state", "consumed", "class", "scope", "digest", "issued", "expires"}

\* What its approver has approved of a ticket: all but the state it is in and the
\* scope it shows, for which its digest stands.
ApprovedAs(t, a) ==
  /\ a.number = t.number /\ a.request = t.request
  /\ a.issued = t.issued /\ a.expires = t.expires /\ a.scope = t.digest

\* A ticket or policy that goes back to an approval, and was not used or denied
\* unless it says so.
Genuine(t, spent) ==
  /\ DOMAIN t = TicketParts
  /\ \E a \in approvals : ApprovedAs(t, a)
  /\ t.state = "approved" /\ ~t.consumed => t.number \notin spent

\* Approvals are numbered one after the other.
NumberedApprovals ==
  /\ IsFiniteSet(approvals)
  /\ \A a \in approvals : a.number \in 1..Cardinality(approvals)
  /\ void \subseteq 1..Cardinality(approvals) /\ voidBefore \subseteq void

\* A command deals with genuine tickets only: those in the file, the one it has
\* read and the one of its answer.
GenuineTickets ==
  command # "claim-publish-gate" =>
    /\ second # NoFile => Genuine(second, void)
    /\ pc = "decide" => Genuine(heldSecond, voidBefore)

ApprovalInv ==
  command \in Commands /\ NumberedApprovals /\ GenuineTickets /\ AcceptedWasApproved

LEMMA ApprovalStarts == GatesInit => ApprovalInv
<1> SUFFICES ASSUME GatesInit PROVE ApprovalInv
  OBVIOUS
<1>1. NumberedApprovals
  BY FS_EmptySet DEF GatesInit, NumberedApprovals
<1>2. GenuineTickets
  BY DEF GatesInit, GenuineTickets
<1>3. AcceptedWasApproved
  BY DEF GatesInit, AcceptedWasApproved, Accepted, NoAnswer
<1> QED
  BY <1>1, <1>2, <1>3 DEF ApprovalInv, GatesInit

\* What a new approval does to the tickets there are.
LEMMA ApprovalAdds ==
  ASSUME NumberedApprovals, NEW t, Approve(t), t.number = Number
  PROVE  /\ NumberedApprovals' /\ t.number \notin void
         /\ approvals \subseteq approvals' /\ t \in approvals'
<1>1. t.number = Cardinality(approvals) + 1 /\ Cardinality(approvals) \in Nat
  BY FS_CardinalityType DEF NumberedApprovals, Number
<1>2. t \notin approvals
  BY <1>1 DEF NumberedApprovals
<1>3. approvals' = approvals \cup {t} /\ void' = void /\ voidBefore' = voidBefore
  BY DEF Approve, Writes
<1>4. IsFiniteSet(approvals') /\ Cardinality(approvals') = Cardinality(approvals) + 1
  BY <1>2, <1>3, FS_AddElement DEF NumberedApprovals
<1>5. NumberedApprovals'
  <2>1. \A a \in approvals' : a.number \in 1..Cardinality(approvals')
    BY <1>1, <1>3, <1>4 DEF NumberedApprovals
  <2>2. void' \subseteq 1..Cardinality(approvals') /\ voidBefore' \subseteq void'
    BY <1>1, <1>3, <1>4 DEF NumberedApprovals
  <2> QED
    BY <1>4, <2>1, <2>2 DEF NumberedApprovals
<1>6. t.number \notin void
  BY <1>1 DEF NumberedApprovals
<1> QED
  BY <1>3, <1>5, <1>6

\* A ticket stays genuine while there are more approvals and no more spent.
LEMMA StaysGenuine ==
  ASSUME NEW t, NEW spent, Genuine(t, spent), approvals \subseteq approvals'
  PROVE  /\ DOMAIN t = TicketParts
         /\ \E a \in approvals' : ApprovedAs(t, a)
         /\ t.state = "approved" /\ ~t.consumed => t.number \notin spent
  BY DEF Genuine

\* What accepts a ticket has seen that it is in force and not spent.
LEMMA AcceptedIsGenuine ==
  ASSUME command \in Commands, command # "claim-publish-gate", Verdict, Genuine(heldSecond, voidBefore)
  PROVE  \E a \in approvals :
           /\ a.number = heldSecond.number /\ a.number \notin voidBefore
           /\ a.expires > now
           /\ CASE command = "mutation-class" -> a.request = held.id /\ Covers(a.scope, held)
                [] command = "low-risk-code-live" -> a.issued <= now /\ a.scope = Selected
                [] OTHER -> a.request = held.id
<1>1. PICK a \in approvals : ApprovedAs(heldSecond, a)
  BY DEF Genuine
<1>2. Usable(heldSecond, now) => a.number \notin voidBefore /\ a.expires > now
  BY <1>1 DEF Genuine, ApprovedAs, Usable, ExpiresAfter
<1>3. CASE command = "mutation-class"
  <2>1. MutationTicketHolds(held, heldSecond, now)
    BY <1>3 DEF Verdict
  <2>2. Covers(a.scope, held)
    BY <1>1, <2>1 DEF MutationTicketHolds, MultiRepoHolds, ApprovedAs, Covers
  <2> QED
    BY <1>1, <1>2, <1>3, <2>1, <2>2 DEF MutationTicketHolds, ApprovedAs
<1>4. CASE command = "low-risk-code-live"
  <2>1. PolicyHolds(heldSecond, now)
    BY <1>4 DEF Verdict
  <2> QED
    BY <1>1, <1>2, <1>4, <2>1 DEF PolicyHolds, ApprovedAs
<1>5. CASE command = "live-docs"
  <2>1. DocsTicketHolds(held, heldSecond, now)
    BY <1>5 DEF Verdict
  <2> QED
    BY <1>1, <1>2, <1>5, <2>1 DEF DocsTicketHolds, ApprovedAs
<1> QED
  BY <1>3, <1>4, <1>5 DEF Commands, TicketCommands

-----------------------------------------------------------------------------
(* The commands keep it. *)

LEMMA ReadFirstKeeps == ApprovalInv /\ ReadFirst => ApprovalInv'
<1> SUFFICES ASSUME ApprovalInv, ReadFirst PROVE ApprovalInv'
  OBVIOUS
<1> USE DEF ApprovalInv, ReadFirst, files, history
<1>1. NumberedApprovals'
  BY DEF NumberedApprovals
<1>2. GenuineTickets'
  BY DEF GenuineTickets, Genuine, Answer
<1>3. answer' \in {NoAnswer, Refused}
  BY DEF Answer
<1>4. AcceptedWasApproved'
  BY <1>3 DEF AcceptedWasApproved, Accepted, NoAnswer, Refused
<1> QED
  BY <1>1, <1>2, <1>4

LEMMA ReadSecondKeeps == ApprovalInv /\ ReadSecond => ApprovalInv'
<1> SUFFICES ASSUME ApprovalInv, ReadSecond PROVE ApprovalInv'
  OBVIOUS
<1> USE DEF ApprovalInv, ReadSecond, files, history
<1>1. NumberedApprovals'
  BY DEF NumberedApprovals
<1>2. GenuineTickets'
  BY DEF GenuineTickets, Genuine, Answer, NumberedApprovals
<1>3. answer' \in {answer, Refused}
  BY DEF Answer
<1>4. AcceptedWasApproved'
  BY <1>3 DEF AcceptedWasApproved, Accepted, Refused
<1> QED
  BY <1>1, <1>2, <1>4

LEMMA DecideKeeps == ApprovalInv /\ Decide => ApprovalInv'
<1> SUFFICES ASSUME ApprovalInv, Decide PROVE ApprovalInv'
  OBVIOUS
<1> USE DEF ApprovalInv
<1>1. /\ pc = "decide" /\ pc' = "idle" /\ UNCHANGED <<command, files, now, history, voidBefore>>
      /\ answer'.how = "done" /\ answer'.yes = Verdict /\ answer'.at = now
      /\ answer'.first = held /\ answer'.second = heldSecond
  BY DEF Decide, Answer
<1>2. NumberedApprovals'
  BY <1>1 DEF NumberedApprovals, history
<1>3. GenuineTickets'
  BY <1>1 DEF GenuineTickets, Genuine, files, history
<1>4. ASSUME Accepted', command # "claim-publish-gate"
      PROVE  AcceptedWasApproved'
  <2>1. Genuine(heldSecond, voidBefore) /\ Verdict
    BY <1>1, <1>4 DEF GenuineTickets, Accepted
  <2> QED
    BY <1>1, <2>1, <1>4, AcceptedIsGenuine DEF AcceptedWasApproved, history
<1>5. AcceptedWasApproved'
  BY <1>1, <1>4 DEF AcceptedWasApproved
<1> QED
  BY <1>1, <1>2, <1>3, <1>5

-----------------------------------------------------------------------------
(* And so do those who write the files. *)

\* Whoever writes takes no approval back and touches neither what a command has
\* read nor its answer.
LEMMA WritingKeeps ==
  ASSUME ApprovalInv, NEW f, NEW s, Writes(f, s), NumberedApprovals',
         approvals \subseteq approvals',
         command # "claim-publish-gate" /\ s # NoFile => Genuine(s, void)'
  PROVE  ApprovalInv'
<1>1. UNCHANGED <<command, pc, heldSecond, answer, voidBefore>> /\ second' = s
  BY DEF Writes, reading
<1>2. GenuineTickets'
  <2>1. ASSUME command # "claim-publish-gate", pc = "decide"
        PROVE  Genuine(heldSecond, voidBefore)'
    BY <1>1, <2>1 DEF ApprovalInv, GenuineTickets, Genuine
  <2> QED
    BY <1>1, <2>1 DEF GenuineTickets
<1>3. AcceptedWasApproved'
  BY <1>1 DEF ApprovalInv, AcceptedWasApproved, Accepted
<1> QED
  BY <1>1, <1>2, <1>3 DEF ApprovalInv

LEMMA ApproveKeeps ==
  ASSUME ApprovalInv, NEW t, Approve(t), t.number = Number, DOMAIN t = TicketParts,
         t.digest = t.scope
  PROVE  ApprovalInv'
<1>1. Writes(first, t) /\ void' = void
  BY DEF Approve
<1>2. NumberedApprovals' /\ t.number \notin void /\ approvals \subseteq approvals' /\ t \in approvals'
  BY ApprovalAdds DEF ApprovalInv
<1>3. Genuine(t, void)'
  BY <1>1, <1>2 DEF Genuine, ApprovedAs
<1> QED
  BY <1>1, <1>2, <1>3, WritingKeeps

LEMMA IssuedParts ==
  ASSUME NEW r, NEW c, NEW s, NEW i, NEW e
  PROVE  LET t == Issued(r, c, s, i, e)
         IN t.number = Number /\ DOMAIN t = TicketParts /\ t.digest = t.scope
  BY DEF Issued, TicketParts

LEMMA OthersKeep == ApprovalInv /\ Others => ApprovalInv'
<1> SUFFICES ASSUME ApprovalInv, Others PROVE ApprovalInv'
  OBVIOUS
<1>1. CASE Ask
  <2>1. PICK r, s : s = second /\ Writes(r, s) /\ UNCHANGED history
    BY <1>1 DEF Ask
  <2>2. NumberedApprovals' /\ approvals \subseteq approvals'
    BY <2>1 DEF ApprovalInv, NumberedApprovals, Writes, history
  <2>3. command # "claim-publish-gate" /\ s # NoFile => Genuine(s, void)'
    BY <2>1 DEF ApprovalInv, GenuineTickets, Genuine, Writes, history
  <2> QED
    BY <2>1, <2>2, <2>3, WritingKeeps
<1>2. CASE ApproveTicket
  <2>1. PICK r \in Requests, e \in Times : Approve(Issued(first.id, r.class, ScopeOf(r), 0, e))
    BY <1>2 DEF ApproveTicket
  <2> QED
    BY <2>1, IssuedParts, ApproveKeeps
<1>3. CASE IssuePolicy
  <2>1. PICK s \in Candidates, i \in Times, e \in Times :
          Approve(Issued("policy", "low_risk_code", s, i, e))
    BY <1>3 DEF IssuePolicy
  <2> QED
    BY <2>1, IssuedParts, ApproveKeeps
<1>4. CASE Void
  <2>1. PICK t \in {[second EXCEPT !.consumed = TRUE], [second EXCEPT !.state = "denied"]} :
          Writes(first, t)
    BY <1>4 DEF Void
  <2>2. Genuine(second, void) /\ void' = void \cup {second.number} /\ approvals' = approvals
    BY <1>4 DEF Void, ApprovalInv, GenuineTickets
  <2>3. second.number \in 1..Cardinality(approvals)
    BY <2>2 DEF ApprovalInv, NumberedApprovals, Genuine, ApprovedAs
  <2>4. NumberedApprovals'
    BY <2>1, <2>2, <2>3 DEF ApprovalInv, NumberedApprovals, Writes
  <2>5. Genuine(t, void)'
    BY <2>1, <2>2 DEF Genuine, ApprovedAs, TicketParts
  <2> QED
    BY <2>1, <2>2, <2>4, <2>5, WritingKeeps
<1>5. CASE Amend
  <2>1. PICK s, t : t = [second EXCEPT !.scope = s] /\ Writes(first, t) /\ UNCHANGED history
    BY <1>5 DEF Amend
  <2>2. NumberedApprovals' /\ approvals \subseteq approvals'
    BY <2>1 DEF ApprovalInv, NumberedApprovals, Writes, history
  <2>3. Genuine(second, void)
    BY <1>5 DEF Amend, ApprovalInv, GenuineTickets
  <2>4. Genuine(t, void)'
    BY <2>1, <2>3 DEF Genuine, ApprovedAs, TicketParts, history
  <2> QED
    BY <2>1, <2>2, <2>4, WritingKeeps
<1>6. CASE Summarise
  <2>1. PICK f, s : Writes(f, s) /\ UNCHANGED history
    BY <1>6 DEF Summarise
  <2>2. NumberedApprovals' /\ approvals \subseteq approvals' /\ command' = "claim-publish-gate"
    BY <1>6, <2>1 DEF ApprovalInv, NumberedApprovals, Writes, history, Summarise
  <2> QED
    BY <1>6, <2>1, <2>2, WritingKeeps DEF Summarise
<1>7. CASE Tick
  <2>1. UNCHANGED <<command, files, reading, answer, history, voidBefore>>
    BY <1>7 DEF Tick
  <2> QED
    BY <2>1 DEF ApprovalInv, NumberedApprovals, GenuineTickets, Genuine, AcceptedWasApproved,
                Accepted, files, reading, history
<1> QED
  BY <1>1, <1>2, <1>3, <1>4, <1>5, <1>6, <1>7 DEF Others

LEMMA ApprovalHolds == GatesSpec => []ApprovalInv
<1>1. ApprovalInv /\ UNCHANGED gateVars => ApprovalInv'
  BY DEF ApprovalInv, NumberedApprovals, GenuineTickets, Genuine, AcceptedWasApproved,
         Accepted, gateVars, files, reading, history
<1>2. ApprovalInv /\ [GatesNext]_gateVars => ApprovalInv'
  BY <1>1, ReadFirstKeeps, ReadSecondKeeps, DecideKeeps, OthersKeep DEF GatesNext, Call
<1> QED
  BY <1>2, ApprovalStarts, PTL DEF GatesSpec

-----------------------------------------------------------------------------
(* The list of blockers. *)

\* The lists of blockers that come about one after the other, up to the n-th.
ListsTo(all, n, f) ==
  f = [k \in 0..n |-> IF k = 0 THEN <<>> ELSE AppendBlockerIfMissing(f[k - 1], all[k])]

LEMMA ListsThereAre ==
  ASSUME NEW all, NEW n \in Nat
  PROVE  \E f : ListsTo(all, n, f)
<1> DEFINE T == {k \in 0..n : ~ \E f : ListsTo(all, k, f)}
<1>1. ASSUME NEW m \in T, \A k \in T : m <= k PROVE FALSE
  <2>1. CASE m = 0
    <3>1. ListsTo(all, 0, [k \in 0..0 |-> <<>>])
      BY DEF ListsTo
    <3> QED
      BY <2>1, <3>1
  <2>2. CASE m > 0
    <3>1. m \in Nat /\ m - 1 \in 0..n /\ m - 1 \notin T
      BY <1>1, <2>2
    <3>2. PICK g : ListsTo(all, m - 1, g)
      BY <3>1
    <3> DEFINE h == [k \in 0..m |-> IF k = m THEN AppendBlockerIfMissing(g[m - 1], all[m]) ELSE g[k]]
    <3>3. ASSUME NEW k \in 0..m
          PROVE  h[k] = IF k = 0 THEN <<>> ELSE AppendBlockerIfMissing(h[k - 1], all[k])
      BY <2>2, <3>1, <3>2 DEF ListsTo
    <3>4. ListsTo(all, m, h)
      <4> DEFINE H(k) == IF k = 0 THEN <<>> ELSE AppendBlockerIfMissing(h[k - 1], all[k])
      <4>1. h = [k \in 0..m |-> h[k]]
        OBVIOUS
      <4>2. \A k \in 0..m : h[k] = H(k)
        BY <3>3
      <4> HIDE DEF h
      <4>3. h = [k \in 0..m |-> H(k)]
        BY <4>1, <4>2
      <4> QED
        BY <4>3 DEF ListsTo
    <3> QED
      BY <3>4
  <2> QED
    BY <2>1, <2>2
<1>2. T \in SUBSET Nat
  OBVIOUS
<1>3. T = {}
  <2> HIDE DEF T
  <2> QED
    BY <1>1, <1>2, LeastNumber
<1> QED
  BY <1>3

\* A list that names every blocker of the first n that has an id, once and as the
\* first that has it.
Lists(all, n, listed) ==
  /\ listed \in Seq(ToSet(all))
  /\ \A i, j \in DOMAIN listed : listed[i].id = listed[j].id => i = j
  /\ \A k \in 1..n : all[k].id # Missing => \E i \in DOMAIN listed : listed[i].id = all[k].id
  /\ \A i \in DOMAIN listed : \E k \in 1..n :
       /\ listed[i] = all[k] /\ all[k].id # Missing
       /\ \A l \in 1..n : all[l].id = all[k].id => k <= l

LEMMA ListsOneMore ==
  ASSUME NEW all, all \in Seq(ToSet(all)), NEW n \in Nat, n + 1 \in 1..Len(all),
         NEW listed, Lists(all, n, listed)
  PROVE  Lists(all, n + 1, AppendBlockerIfMissing(listed, all[n + 1]))
<1> DEFINE b    == all[n + 1]
           next == AppendBlockerIfMissing(listed, b)
<1>1. b \in ToSet(all) /\ listed \in Seq(ToSet(all)) /\ 1..(n + 1) = (1..n) \cup {n + 1}
  BY DEF Lists, ToSet
<1>2. CASE b.id = Missing \/ \E i \in DOMAIN listed : listed[i].id = b.id
  <2>1. next = listed
    BY <1>2 DEF AppendBlockerIfMissing
  <2>2. \A k \in 1..(n + 1) : all[k].id # Missing => \E i \in DOMAIN next : next[i].id = all[k].id
    BY <1>1, <1>2, <2>1 DEF Lists
  <2>3. ASSUME NEW i \in DOMAIN next
        PROVE  \E k \in 1..(n + 1) :
                 /\ next[i] = all[k] /\ all[k].id # Missing
                 /\ \A l \in 1..(n + 1) : all[l].id = all[k].id => k <= l
    <3>1. PICK k \in 1..n : /\ listed[i] = all[k] /\ all[k].id # Missing
                           /\ \A l \in 1..n : all[l].id = all[k].id => k <= l
      BY <2>1, <2>3 DEF Lists
    <3>2. k <= n + 1 /\ k \in 1..(n + 1)
      BY <3>1
    <3> QED
      BY <1>1, <2>1, <3>1, <3>2
  <2> QED
    BY <1>1, <2>1, <2>2, <2>3 DEF Lists
<1>3. CASE b.id # Missing /\ \A i \in DOMAIN listed : listed[i].id # b.id
  <2>1. next = Append(listed, b)
    BY <1>3 DEF AppendBlockerIfMissing
  <2>2. /\ next \in Seq(ToSet(all)) /\ DOMAIN next = DOMAIN listed \cup {Len(listed) + 1}
        /\ Len(listed) + 1 \notin DOMAIN listed
        /\ next[Len(listed) + 1] = b /\ \A i \in DOMAIN listed : next[i] = listed[i]
    <3> HIDE DEF b, next
    <3> QED
      BY <1>1, <2>1
  <2> HIDE DEF next
  <2>3. \A i, j \in DOMAIN next : next[i].id = next[j].id => i = j
    BY <1>3, <2>2 DEF Lists
  <2>4. \A k \in 1..(n + 1) : all[k].id # Missing => \E i \in DOMAIN next : next[i].id = all[k].id
    BY <1>1, <2>2 DEF Lists
  <2>5. \A k \in 1..n : all[k].id # b.id
    BY <1>3 DEF Lists
  <2>6. ASSUME NEW i \in DOMAIN next
        PROVE  \E k \in 1..(n + 1) :
                 /\ next[i] = all[k] /\ all[k].id # Missing
                 /\ \A l \in 1..(n + 1) : all[l].id = all[k].id => k <= l
    <3>1. CASE i = Len(listed) + 1
      <4>1. \A l \in 1..(n + 1) : all[l].id = b.id => n + 1 <= l
        BY <1>1, <2>5
      <4> QED
        BY <1>1, <1>3, <2>2, <3>1, <4>1
    <3>2. CASE i \in DOMAIN listed
      <4>1. PICK k \in 1..n : /\ listed[i] = all[k] /\ all[k].id # Missing
                             /\ \A l \in 1..n : all[l].id = all[k].id => k <= l
        BY <3>2 DEF Lists
      <4>2. k <= n + 1 /\ k \in 1..(n + 1)
        BY <4>1
      <4> QED
        BY <1>1, <2>2, <3>2, <4>1, <4>2
    <3> QED
      BY <2>2, <2>6, <3>1, <3>2
  <2> QED
    BY <2>2, <2>3, <2>4, <2>6 DEF Lists, next
<1> QED
  BY <1>2, <1>3

\* So the last list names every blocker.
LEMMA LastListNamesAll ==
  ASSUME NEW all, all \in Seq(ToSet(all)), NEW f, ListsTo(all, Len(all), f)
  PROVE  Lists(all, Len(all), f[Len(all)])
<1> DEFINE T == {k \in 0..Len(all) : ~ Lists(all, k, f[k])}
<1>1. Len(all) \in Nat /\ T \in SUBSET Nat
  BY DEF Lists
<1>2. \A k \in 0..Len(all) :
        f[k] = IF k = 0 THEN <<>> ELSE AppendBlockerIfMissing(f[k - 1], all[k])
  BY DEF ListsTo
<1>3. ASSUME NEW m \in T, \A k \in T : m <= k PROVE FALSE
  <2>1. CASE m = 0
    <3>1. f[0] = <<>>
      BY <1>1, <1>2
    <3>2. <<>> \in Seq(ToSet(all)) /\ DOMAIN <<>> = {}
      OBVIOUS
    <3>3. Lists(all, 0, f[0])
      BY <3>1, <3>2 DEF Lists
    <3> QED
      BY <2>1, <3>3
  <2>2. CASE m > 0
    <3>1. m - 1 \in Nat /\ m - 1 \notin T /\ (m - 1) + 1 = m /\ m \in 1..Len(all)
      BY <1>1, <1>3, <2>2
    <3>2. Lists(all, m - 1, f[m - 1])
      BY <1>1, <3>1
    <3>3. f[m] = AppendBlockerIfMissing(f[m - 1], all[m])
      BY <1>1, <1>2, <2>2
    <3>4. Lists(all, m, f[m])
      BY <3>1, <3>2, <3>3, ListsOneMore
    <3> QED
      BY <3>4
  <2> QED
    BY <1>1, <2>1, <2>2
<1>4. T = {}
  <2> HIDE DEF T
  <2> QED
    BY <1>1, <1>3, LeastNumber
<1> QED
  BY <1>1, <1>4

-----------------------------------------------------------------------------
(* The gate for the full claim. *)

\* The blockers of both summaries and of what is lacking, one after the other.
AllBlockers(r, i) ==
  [k \in DOMAIN r.blockers |-> Blocker(r.blockers[k].id, r.blockers[k].state)]
    \o [k \in DOMAIN i.remaining |-> BlockerFor(i.remaining[k])] \o Lacking(r, i)

LEMMA BlockersAreListed ==
  ASSUME NEW r, NEW i, AllBlockers(r, i) \in Seq(ToSet(AllBlockers(r, i)))
  PROVE  Lists(AllBlockers(r, i), Len(AllBlockers(r, i)), Blockers(r, i))
<1> DEFINE all == AllBlockers(r, i)
           L == CHOOSE f : ListsTo(all, Len(all), f)
<1>1. Len(all) \in Nat
  OBVIOUS
<1>2. \E f : ListsTo(all, Len(all), f)
  BY <1>1, ListsThereAre
<1>3. ListsTo(all, Len(all), L)
  BY <1>2
<1>4. Blockers(r, i) = L[Len(all)]
  BY DEF Blockers, AllBlockers, ListsTo
<1> HIDE DEF L
<1> QED
  BY <1>3, <1>4, LastListNamesAll

LEMMA MappedList ==
  ASSUME NEW S, NEW n \in Nat, NEW a, a = [k \in 1..n |-> a[k]], \A k \in 1..n : a[k] \in S
  PROVE  a \in Seq(S) /\ Len(a) = n /\ DOMAIN a = 1..n
<1>1. a \in [1..n -> S]
  OBVIOUS
<1> QED
  BY <1>1

LEMMA ListOfItsOwn ==
  ASSUME NEW S, NEW s \in Seq(S)
  PROVE  s \in Seq(ToSet(s))
<1>1. DOMAIN s = 1..Len(s) /\ Len(s) \in Nat /\ s = [k \in 1..Len(s) |-> s[k]]
  OBVIOUS
<1>2. s \in [1..Len(s) -> ToSet(s)]
  BY <1>1 DEF ToSet
<1> QED
  BY <1>1, <1>2

LEMMA ListsJoined ==
  ASSUME NEW S, NEW a \in Seq(S), NEW b \in Seq(S)
  PROVE  a \o b \in Seq(S) /\ ToSet(a \o b) = ToSet(a) \cup ToSet(b)
<1> DEFINE s == a \o b
<1>1. /\ s \in Seq(S) /\ DOMAIN s = 1..(Len(a) + Len(b)) /\ Len(a) \in Nat /\ Len(b) \in Nat
      /\ DOMAIN a = 1..Len(a) /\ DOMAIN b = 1..Len(b)
  OBVIOUS
<1>2. /\ \A k \in 1..Len(a) : s[k] = a[k]
      /\ \A k \in 1..Len(b) : s[Len(a) + k] = b[k]
      /\ \A k \in DOMAIN s : k \in 1..Len(a) \/ k - Len(a) \in 1..Len(b)
  OBVIOUS
<1> HIDE DEF s
<1>3. ToSet(s) \subseteq ToSet(a) \cup ToSet(b)
  <2> SUFFICES ASSUME NEW k \in DOMAIN s PROVE s[k] \in ToSet(a) \cup ToSet(b)
    BY DEF ToSet
  <2>1. CASE k \in 1..Len(a)
    BY <1>1, <1>2, <2>1 DEF ToSet
  <2>2. CASE k - Len(a) \in 1..Len(b)
    <3>1. Len(a) + (k - Len(a)) = k
      BY <1>1
    <3>2. s[k] = b[k - Len(a)]
      BY <1>2, <2>2, <3>1
    <3> QED
      BY <1>1, <2>2, <3>2 DEF ToSet
  <2> QED
    BY <1>2, <2>1, <2>2
<1>4. ToSet(a) \cup ToSet(b) \subseteq ToSet(s)
  <2>1. \A k \in 1..Len(a) : k \in DOMAIN s /\ s[k] = a[k]
    BY <1>1, <1>2
  <2>2. \A k \in 1..Len(b) : Len(a) + k \in DOMAIN s /\ s[Len(a) + k] = b[k]
    BY <1>1, <1>2
  <2> QED
    BY <1>1, <2>1, <2>2 DEF ToSet
<1> QED
  BY <1>1, <1>3, <1>4 DEF s

LacksOne(holds, b) == IF holds THEN <<>> ELSE <<b>>

LEMMA LackingOne ==
  ASSUME NEW S, NEW b \in S, NEW holds
  PROVE  /\ LacksOne(holds, b) \in Seq(S)
         /\ ToSet(LacksOne(holds, b)) = IF holds THEN {} ELSE {b}
<1>1. /\ <<>> \in Seq(S) /\ <<b>> \in Seq(S)
      /\ ToSet(<<>>) = {} /\ ToSet(<<b>>) = {b}
  BY DEF ToSet
<1>2. CASE holds
  BY <1>1, <1>2 DEF LacksOne
<1>3. CASE ~holds
  BY <1>1, <1>3 DEF LacksOne
<1> QED
  BY <1>2, <1>3

\* What is lacking is named by the checks that fail.
LEMMA LackingIsFailed ==
  ASSUME NEW r, NEW i
  PROVE  \E S : /\ Lacking(r, i) \in Seq(S)
                /\ ToSet(Lacking(r, i)) = {Blocker(id, Missing) : id \in FailedChecks(r, i)}
<1> DEFINE one   == Blocker("readback_index_not_passed", Missing)
           two   == Blocker("control_plane_readback_not_passed", Missing)
           three == Blocker("retained_claim_level_evidence_missing", Missing)
           four  == Blocker("covenant_claim_publish_approval", Missing)
           S == {one, two, three, four}
           a == LacksOne(i.status = "passed", one)
           b == LacksOne(i.readback = "passed", two)
           c == LacksOne(i.retained = "present", three)
           d == LacksOne(r.approved, four)
<1>1. /\ a \in Seq(S) /\ ToSet(a) = IF i.status = "passed" THEN {} ELSE {one}
      /\ b \in Seq(S) /\ ToSet(b) = IF i.readback = "passed" THEN {} ELSE {two}
      /\ c \in Seq(S) /\ ToSet(c) = IF i.retained = "present" THEN {} ELSE {three}
      /\ d \in Seq(S) /\ ToSet(d) = IF r.approved THEN {} ELSE {four}
  <2> HIDE DEF one, two, three, four
  <2> QED
    BY LackingOne
<1>2. Lacking(r, i) = ((a \o b) \o c) \o d
  BY DEF Lacking, LacksOne
<1>3. {Blocker(id, Missing) : id \in FailedChecks(r, i)} =
        (IF i.status = "passed" THEN {} ELSE {one}) \cup (IF i.readback = "passed" THEN {} ELSE {two})
        \cup (IF i.retained = "present" THEN {} ELSE {three}) \cup (IF r.approved THEN {} ELSE {four})
  <2>1. FailedChecks(r, i) =
          (IF i.status = "passed" THEN {} ELSE {"readback_index_not_passed"})
          \cup (IF i.readback = "passed" THEN {} ELSE {"control_plane_readback_not_passed"})
          \cup (IF i.retained = "present" THEN {} ELSE {"retained_claim_level_evidence_missing"})
          \cup (IF r.approved THEN {} ELSE {"covenant_claim_publish_approval"})
    BY DEF FailedChecks
  <2> QED
    BY <2>1
<1>8. a \in Seq(S) /\ b \in Seq(S) /\ c \in Seq(S) /\ d \in Seq(S)
  BY <1>1
<1> HIDE DEF a, b, c, d, S
<1> DEFINE ab  == a \o b
           abc == ab \o c
<1>4. ab \in Seq(S) /\ ToSet(ab) = ToSet(a) \cup ToSet(b)
  BY <1>8, ListsJoined
<1> HIDE DEF ab
<1>5. abc \in Seq(S) /\ ToSet(abc) = ToSet(ab) \cup ToSet(c)
  BY <1>8, <1>4, ListsJoined
<1> HIDE DEF abc
<1>6. abc \o d \in Seq(S) /\ ToSet(abc \o d) = ToSet(abc) \cup ToSet(d)
  BY <1>8, <1>5, ListsJoined
<1>7. Lacking(r, i) = abc \o d
  BY <1>2 DEF ab, abc
<1> QED
  BY <1>1, <1>3, <1>4, <1>5, <1>6, <1>7

\* Each blocker of a summary, and of what is lacking, has its place in the list.
LEMMA AllBlockersArePlaced ==
  ASSUME NEW r \in Readiness, NEW i \in Indexes
  PROVE  LET all == AllBlockers(r, i)
         IN /\ all \in Seq(ToSet(all))
            /\ \A k \in DOMAIN r.blockers :
                 k \in 1..Len(all) /\ all[k] = Blocker(r.blockers[k].id, r.blockers[k].state)
            /\ \A k \in 1..Len(all) :
                 k \in DOMAIN r.blockers \/ \A j \in DOMAIN r.blockers : j < k
            /\ ToSet(all) = {Blocker(r.blockers[k].id, r.blockers[k].state) : k \in DOMAIN r.blockers}
                            \cup {BlockerFor(id) : id \in ToSet(i.remaining)}
                            \cup {Blocker(id, Missing) : id \in FailedChecks(r, i)}
<1> DEFINE N == [k \in DOMAIN r.blockers |-> Blocker(r.blockers[k].id, r.blockers[k].state)]
           R == [k \in DOMAIN i.remaining |-> BlockerFor(i.remaining[k])]
           K == Lacking(r, i)
           all == AllBlockers(r, i)
<1>1. /\ DOMAIN r.blockers = 1..Len(r.blockers) /\ DOMAIN i.remaining = 1..Len(i.remaining)
      /\ Len(r.blockers) \in Nat /\ Len(i.remaining) \in Nat
  <2>1. r.blockers \in Seq(ToSet(r.blockers)) /\ i.remaining \in Seq(ToSet(i.remaining))
    BY SummariesAssumption
  <2> QED
    BY <2>1
<1>2. PICK T : K \in Seq(T) /\ ToSet(K) = {Blocker(id, Missing) : id \in FailedChecks(r, i)}
  BY LackingIsFailed
<1>3. all = (N \o R) \o K
  BY DEF AllBlockers
<1> DEFINE S == ToSet(N) \cup ToSet(R) \cup T
<1>4. /\ N \in Seq(S) /\ Len(N) = Len(r.blockers)
      /\ R \in Seq(S) /\ K \in Seq(S)
  <2>1. /\ N = [k \in 1..Len(r.blockers) |-> N[k]] /\ \A k \in 1..Len(r.blockers) : N[k] \in S
        /\ R = [k \in 1..Len(i.remaining) |-> R[k]] /\ \A k \in 1..Len(i.remaining) : R[k] \in S
    BY <1>1 DEF ToSet
  <2>2. K \in Seq(S)
    <3>1. T \subseteq S
      OBVIOUS
    <3> HIDE DEF K, S
    <3> QED
      BY <1>2, <3>1
  <2> HIDE DEF N, R, S, K
  <2> QED
    BY <1>1, <2>1, <2>2, MappedList
<1> HIDE DEF S
<1>5. /\ all \in Seq(S) /\ Len(all) \in Nat
      /\ \A k \in 1..Len(N) : k \in 1..Len(all) /\ all[k] = N[k]
  <2> HIDE DEF N, R, K, all
  <2> QED
    BY <1>3, <1>4
<1>6. all \in Seq(ToSet(all))
  <2> HIDE DEF all
  <2> QED
    BY <1>5, ListOfItsOwn
<1>7. ToSet(all) = ToSet(N) \cup ToSet(R) \cup ToSet(K)
  <2> HIDE DEF N, R, K, all
  <2> DEFINE NR == N \o R
  <2>1. NR \in Seq(S) /\ ToSet(NR) = ToSet(N) \cup ToSet(R)
    BY <1>4, ListsJoined
  <2>2. all = NR \o K
    BY <1>3
  <2> HIDE DEF NR
  <2>3. ToSet(NR \o K) = ToSet(NR) \cup ToSet(K)
    BY <1>4, <2>1, ListsJoined
  <2> QED
    BY <2>1, <2>2, <2>3
<1>8. /\ ToSet(N) = {Blocker(r.blockers[k].id, r.blockers[k].state) : k \in DOMAIN r.blockers}
      /\ ToSet(R) = {BlockerFor(id) : id \in ToSet(i.remaining)}
  BY DEF ToSet
<1>9. \A k \in DOMAIN r.blockers :
        k \in 1..Len(all) /\ all[k] = Blocker(r.blockers[k].id, r.blockers[k].state)
  <2> TAKE k \in DOMAIN r.blockers
  <2>1. k \in 1..Len(all) /\ all[k] = N[k]
    <3> HIDE DEF N, R, K, all
    <3> QED
      BY <1>1, <1>4, <1>5
  <2>2. N[k] = Blocker(r.blockers[k].id, r.blockers[k].state)
    OBVIOUS
  <2> QED
    BY <2>1, <2>2
<1>10. \A k \in 1..Len(all) : k \in DOMAIN r.blockers \/ \A j \in DOMAIN r.blockers : j < k
  BY <1>1
<1> QED
  BY <1>2, <1>6, <1>7, <1>8, <1>9, <1>10

\* What the gate answers of two summaries.
Answered(r, i, blockers, yes) ==
  LET listed    == {blockers[k].id : k \in DOMAIN blockers}
      heard(id) == {j \in DOMAIN r.blockers : r.blockers[j].id = id}
      told(j)   == IF r.blockers[j].state = Missing THEN "missing" ELSE r.blockers[j].state
  IN /\ listed = Obstacles(r, i)
     /\ Len(blockers) = Cardinality(listed)
     /\ \A k \in DOMAIN blockers :
          LET b == blockers[k]
          IN heard(b.id) # {} =>
               \E j \in heard(b.id) : b.state = told(j) /\ \A l \in heard(b.id) : j <= l
     /\ yes <=> listed = {} /\ r.decision = "allowed" /\ i.boundary # "denied"

LEMMA GateNamesAll ==
  ASSUME NEW r \in Readiness, NEW i \in Indexes
  PROVE  Answered(r, i, Blockers(r, i), PublishAuthority(r, i))
<1> DEFINE all == AllBlockers(r, i)
           L   == Blockers(r, i)
           listed == {L[k].id : k \in DOMAIN L}
           heard(id) == {j \in DOMAIN r.blockers : r.blockers[j].id = id}
           told(j) == IF r.blockers[j].state = Missing THEN "missing" ELSE r.blockers[j].state
<1>1. /\ all \in Seq(ToSet(all))
      /\ \A k \in DOMAIN r.blockers :
           k \in 1..Len(all) /\ all[k] = Blocker(r.blockers[k].id, r.blockers[k].state)
      /\ \A k \in 1..Len(all) :
           k \in DOMAIN r.blockers \/ \A j \in DOMAIN r.blockers : j < k
      /\ ToSet(all) = {Blocker(r.blockers[k].id, r.blockers[k].state) : k \in DOMAIN r.blockers}
                      \cup {BlockerFor(id) : id \in ToSet(i.remaining)}
                      \cup {Blocker(id, Missing) : id \in FailedChecks(r, i)}
  BY AllBlockersArePlaced
<1>2. Lists(all, Len(all), L)
  BY <1>1, BlockersAreListed
<1>3. \A id, state : /\ Blocker(id, state).id = id
                     /\ Blocker(id, state).state = IF state = Missing THEN "missing" ELSE state
  BY DEF Blocker
<1>4. \A id : BlockerFor(id).id = id
  BY <1>3 DEF BlockerFor
<1>5. {b.id : b \in ToSet(all)} \ {Missing} = Obstacles(r, i)
  <2>1. {b.id : b \in ToSet(all)} =
          {r.blockers[k].id : k \in DOMAIN r.blockers} \cup ToSet(i.remaining) \cup FailedChecks(r, i)
    <3> HIDE DEF all
    <3> QED
      BY <1>1, <1>3, <1>4
  <2>2. Missing \notin FailedChecks(r, i)
    BY DEF FailedChecks, Missing
  <2> HIDE DEF all
  <2> QED
    BY <2>1, <2>2 DEF Obstacles
<1>6. listed = {b.id : b \in ToSet(all)} \ {Missing}
  <2> HIDE DEF all, L
  <2>1. ToSet(all) = {all[k] : k \in 1..Len(all)}
    BY <1>1 DEF ToSet
  <2>2. \A k \in 1..Len(all) : all[k].id # Missing => all[k].id \in listed
    BY <1>2 DEF Lists
  <2>3. \A k \in DOMAIN L : L[k].id # Missing /\ \E n \in 1..Len(all) : L[k] = all[n]
    BY <1>2 DEF Lists
  <2> QED
    BY <2>1, <2>2, <2>3
<1> HIDE DEF all, L
<1>7. Len(L) = Cardinality(listed)
  <2>1. Len(L) \in Nat /\ DOMAIN L = 1..Len(L)
    BY <1>2 DEF Lists
  <2> DEFINE f == [k \in 1..Len(L) |-> L[k].id]
  <2>2. f \in Bijection(1..Len(L), listed)
    <3>1. f \in [1..Len(L) -> listed] /\ \A b \in listed : \E k \in 1..Len(L) : f[k] = b
      BY <2>1
    <3>2. \A j, k \in 1..Len(L) : f[j] = f[k] => j = k
      BY <1>2, <2>1 DEF Lists
    <3> HIDE DEF f, listed
    <3> QED
      BY <3>1, <3>2 DEF Bijection, Injection, Surjection, IsInjective
  <2>3. ExistsBijection(1..Len(L), listed)
    BY <2>2 DEF ExistsBijection
  <2> HIDE DEF listed
  <2> QED
    BY <2>1, <2>3, FS_CountingElements
<1>8. ASSUME NEW k \in DOMAIN L, heard(L[k].id) # {}
      PROVE  \E j \in heard(L[k].id) : L[k].state = told(j) /\ \A l \in heard(L[k].id) : j <= l
  <2>1. PICK n \in 1..Len(all) : /\ L[k] = all[n] /\ all[n].id # Missing
                                /\ \A l \in 1..Len(all) : all[l].id = all[n].id => n <= l
    BY <1>2 DEF Lists
  <2>2. \A l \in heard(L[k].id) : n <= l
    BY <1>1, <1>3, <2>1
  <2>3. n \in DOMAIN r.blockers
    <3>1. PICK l \in heard(L[k].id) : TRUE
      BY <1>8
    <3>2. n <= l /\ l \in 1..Len(all) /\ n \in 1..Len(all)
      BY <1>1, <2>2, <3>1
    <3>3. ~(l < n)
      BY <3>2
    <3> QED
      BY <1>1, <3>1, <3>3
  <2>4. all[n] = Blocker(r.blockers[n].id, r.blockers[n].state)
    BY <1>1, <2>3
  <2>5. n \in heard(L[k].id) /\ L[k].state = told(n)
    BY <1>3, <2>1, <2>3, <2>4
  <2> QED
    BY <2>2, <2>5
<1>9. PublishAuthority(r, i) <=> listed = {} /\ r.decision = "allowed" /\ i.boundary # "denied"
  <2>1. L = <<>> <=> listed = {}
    <3>1. L \in Seq(ToSet(all)) /\ DOMAIN L = 1..Len(L) /\ Len(L) \in Nat
      BY <1>2 DEF Lists
    <3>2. L = <<>> => DOMAIN L = {}
      OBVIOUS
    <3>3. DOMAIN L = {} => L = <<>>
      <4>1. DOMAIN L = {} => Len(L) = 0
        BY <3>1
      <4> QED
        BY <3>1, <4>1
    <3>4. DOMAIN L = {} <=> listed = {}
      OBVIOUS
    <3> QED
      BY <3>2, <3>3, <3>4
  <2>2. listed = {} => r.approved /\ i.status = "passed"
    <3>1. ~r.approved => "covenant_claim_publish_approval" \in FailedChecks(r, i)
      BY DEF FailedChecks
    <3>2. i.status # "passed" => "readback_index_not_passed" \in FailedChecks(r, i)
      BY DEF FailedChecks
    <3>3. FailedChecks(r, i) \subseteq Obstacles(r, i)
      BY DEF Obstacles
    <3> HIDE DEF listed
    <3> QED
      BY <1>5, <1>6, <3>1, <3>2, <3>3
  <2> HIDE DEF listed
  <2> QED
    BY <2>1, <2>2 DEF PublishAuthority, L
<1> QED
  BY <1>5, <1>6, <1>7, <1>8, <1>9 DEF Answered, L

-----------------------------------------------------------------------------
(* The plan of several repositories. *)

\* Positions of a list have a last one.
LEMMA GreatestPosition ==
  ASSUME NEW n \in Nat, NEW I \in SUBSET (1..n), I # {}
  PROVE  \E i \in I : \A j \in I : j <= i
<1> DEFINE T == {k \in Nat : \A j \in I : j <= k}
<1>1. T \in SUBSET Nat /\ n \in T
  OBVIOUS
<1>2. PICK k \in T : \A l \in T : k <= l
  <2> HIDE DEF T
  <2> QED
    BY <1>1, LeastNumber
<1>3. CASE k \in I
  BY <1>3
<1>4. CASE k \notin I
  <2>1. k \in Nat /\ \A j \in I : j \in Nat /\ j >= 1 /\ j <= k /\ j # k
    BY <1>4
  <2>2. PICK i \in I : TRUE
    OBVIOUS
  <2>3. i \in Nat /\ i >= 1 /\ i <= k
    BY <2>1
  <2>4. k - 1 \in Nat /\ \A j \in I : j <= k - 1
    BY <2>1, <2>3
  <2>5. k - 1 \in T
    BY <2>4
  <2> QED
    BY <1>2, <2>1, <2>5
<1> QED
  BY <1>3, <1>4

About(s, one) == {i \in DOMAIN s : s[i].repo = one}
LastAbout(s, one) == s[CHOOSE i \in About(s, one) : \A j \in About(s, one) : j <= i]

\* Of several entries about a repository the code takes the last.
LEMMA LastOfIsLast ==
  ASSUME NEW s, s \in Seq(ToSet(s)), NEW one, NEW e \in LastOf(s, one)
  PROVE  About(s, one) # {} /\ LastAbout(s, one) = e
<1> DEFINE I == {i \in 1..Len(s) : s[i].repo = one}
<1>1. I = About(s, one) /\ I \in SUBSET (1..Len(s)) /\ Len(s) \in Nat
  BY DEF About
<1>2. LastOf(s, one) = LET i == IF I # {} THEN Max(I) ELSE 0 IN IF i = 0 THEN {} ELSE {s[i]}
  BY DEF LastOf, SelectLastInSeq
<1> HIDE DEF I
<1>3. I # {} /\ e = s[Max(I)]
  BY <1>2
<1>4. PICK i \in I : \A j \in I : j <= i
  BY <1>1, <1>3, GreatestPosition
<1>5. \A k \in I : (\A j \in I : j <= k) => k = i
  BY <1>1, <1>4
<1>6. (CHOOSE k \in I : \A j \in I : j <= k) = i
  BY <1>4, <1>5
<1>7. Max(I) = i
  <2>1. \A k \in I : (\A j \in I : k >= j) <=> (\A j \in I : j <= k)
    BY <1>1
  <2>2. \A j \in I : i >= j
    BY <1>4, <2>1
  <2>3. Max(I) \in I /\ \A j \in I : Max(I) >= j
    BY <2>2 DEF Max
  <2> QED
    BY <1>5, <2>1, <2>3
<1> QED
  BY <1>1, <1>3, <1>6, <1>7 DEF LastAbout

PlaceIn(order, one) == SelectInSeq(order, LAMBDA r : r = one)

\* The place of a repository in the order is not behind one where it stands.
LEMMA PlaceIsFirst ==
  ASSUME NEW order, order \in Seq(ToSet(order)), NEW j \in 1..Len(order)
  PROVE  PlaceIn(order, order[j]) \in 1..j
<1> DEFINE I == {i \in 1..Len(order) : order[i] = order[j]}
<1>1. I \in SUBSET Nat /\ j \in I /\ \A i \in I : i >= 1
  OBVIOUS
<1>2. PlaceIn(order, order[j]) = Min(I)
  BY <1>1 DEF PlaceIn, SelectInSeq
<1> HIDE DEF I
<1>3. \E i \in I : \A k \in I : i <= k
  BY <1>1, LeastNumber
<1>4. Min(I) \in I /\ Min(I) <= j
  BY <1>1, <1>3 DEF Min
<1>5. Min(I) \in Nat /\ Min(I) >= 1 /\ j \in Nat
  BY <1>1, <1>4
<1>6. Min(I) \in 1..j
  BY <1>4, <1>5
<1> QED
  BY <1>2, <1>6

\* What the property says of a plan.
CanMerge(m, at) ==
  LET order == m.plan.order
      e     == m.plan.entries
      place(one) == SelectInSeq(order, LAMBDA r : r = one)
      about(s, one) == {i \in DOMAIN s : s[i].repo = one}
      last(s, one)  == s[CHOOSE i \in about(s, one) : \A j \in about(s, one) : j <= i]
  IN /\ \A i \in DOMAIN e : \A d \in ToSet(e[i].dependsOn) : place(d) \in 1..(i - 1)
     /\ \A one \in ToSet(order) :
          /\ \A s \in {m.states, m.ci, m.rollbacks} : about(s, one) # {}
          /\ last(m.states, one).observed <= at
          /\ at < last(m.states, one).expires
          /\ last(m.ci, one).status # "failed" /\ last(m.rollbacks, one).ready

LEMMA PlanHeldCanMerge ==
  ASSUME NEW r \in Requests, NEW scope, NEW at, MultiRepoHolds(r, scope, at)
  PROVE  CanMerge(scope.multi, at)
<1> DEFINE m == scope.multi
           order == m.plan.order
           e == m.plan.entries
<1>1. /\ m = r.multi /\ m # NoMulti /\ Ordered(m.plan)
      /\ \A one \in ToSet(order) :
           /\ \E x \in LastOf(m.rollbacks, one) : RolledBack(x)
           /\ \E x \in LastOf(m.ci, one) : Checked(x)
           /\ \E x \in LastOf(m.states, one) : FreshAt(x, at)
  BY DEF MultiRepoHolds
<1>2. /\ order \in Seq(ToSet(order)) /\ e \in Seq(ToSet(e)) /\ m.states \in Seq(ToSet(m.states))
      /\ m.ci \in Seq(ToSet(m.ci)) /\ m.rollbacks \in Seq(ToSet(m.rollbacks))
  BY <1>1, PlansAssumption
<1> HIDE DEF m
<1>3. ASSUME NEW i \in DOMAIN e, NEW d \in ToSet(e[i].dependsOn)
      PROVE  PlaceIn(order, d) \in 1..(i - 1)
  <2>1. DOMAIN e = 1..Len(e) /\ Len(e) \in Nat /\ Len(e) = Len(order)
    BY <1>1, <1>2 DEF Ordered
  <2>2. PICK j \in 1..(i - 1) : d = e[j].repo
    BY <1>1, <1>3 DEF Ordered, Earlier
  <2>3. j \in DOMAIN e /\ j \in 1..Len(order) /\ i \in Nat
    BY <1>3, <2>1
  <2>4. d = order[j]
    BY <1>1, <2>2, <2>3 DEF Ordered
  <2>5. PlaceIn(order, order[j]) \in 1..j
    BY <1>2, <2>3, PlaceIsFirst
  <2> QED
    BY <2>3, <2>4, <2>5
<1>4. ASSUME NEW one \in ToSet(order)
      PROVE  /\ \A s \in {m.states, m.ci, m.rollbacks} : About(s, one) # {}
             /\ LastAbout(m.states, one).observed <= at
             /\ at < LastAbout(m.states, one).expires
             /\ LastAbout(m.ci, one).status # "failed" /\ LastAbout(m.rollbacks, one).ready
  <2>1. About(m.rollbacks, one) # {} /\ RolledBack(LastAbout(m.rollbacks, one))
    BY <1>1, <1>2, LastOfIsLast
  <2>2. About(m.ci, one) # {} /\ Checked(LastAbout(m.ci, one))
    BY <1>1, <1>2, LastOfIsLast
  <2>3. About(m.states, one) # {} /\ FreshAt(LastAbout(m.states, one), at)
    BY <1>1, <1>2, LastOfIsLast
  <2> QED
    BY <2>1, <2>2, <2>3 DEF RolledBack, Checked, FreshAt, ExpiresAfter
<1> QED
  BY <1>3, <1>4 DEF CanMerge, About, LastAbout, PlaceIn, m

-----------------------------------------------------------------------------
(* What a command has read is what somebody has written. *)

ReadByCommand ==
  /\ command \in Commands
  /\ command \in TicketCommands =>
       /\ first \in Requests \cup {NoFile}
       /\ pc # "idle" => held \in Requests
  /\ command = "claim-publish-gate" =>
       /\ first \in Readiness \cup {NoFile} /\ second \in Indexes \cup {NoFile}
       /\ pc # "idle" => held \in Readiness
       /\ pc = "decide" => heldSecond \in Indexes
  /\ pc \in {"idle", "second", "decide"}

Mergeable ==
  Accepted /\ command = "mutation-class" /\ answer.first.class = "multi_repo_low_risk" =>
    CanMerge(answer.second.scope.multi, answer.at)

ObstaclesNamed ==
  command = "claim-publish-gate" /\ answer.how = "done" =>
    Answered(answer.first, answer.second, answer.blockers, answer.yes)

VerdictInv == ReadByCommand /\ Mergeable /\ ObstaclesNamed

LEMMA VerdictsMean ==
  (AcceptedPlanCanMerge <=> Mergeable) /\ (EveryObstacleNamed <=> ObstaclesNamed)
<1>1. AcceptedPlanCanMerge <=> Mergeable
  BY DEF AcceptedPlanCanMerge, CanMerge, Mergeable
<1>2. EveryObstacleNamed <=> ObstaclesNamed
  BY DEF EveryObstacleNamed, Answered, ObstaclesNamed
<1> QED
  BY <1>1, <1>2

LEMMA VerdictStarts == GatesInit => VerdictInv
  BY DEF GatesInit, VerdictInv, ReadByCommand, Mergeable, ObstaclesNamed, Accepted, NoAnswer

\* An answer that is none, or the one there was, says nothing new.
LEMMA OldAnswer ==
  ASSUME VerdictInv, command' = command, answer' \in {answer, NoAnswer, Refused}
  PROVE  Mergeable' /\ ObstaclesNamed'
<1>1. CASE answer' = answer
  BY <1>1 DEF VerdictInv, Mergeable, ObstaclesNamed, Accepted
<1>2. CASE answer' \in {NoAnswer, Refused}
  <2>1. answer'.how # "done"
    BY <1>2 DEF NoAnswer, Refused
  <2> QED
    BY <2>1 DEF Mergeable, ObstaclesNamed, Accepted
<1> QED
  BY <1>1, <1>2

LEMMA DecideIsRight ==
  ASSUME VerdictInv, Decide
  PROVE  Mergeable' /\ ObstaclesNamed'
<1>1. /\ pc = "decide" /\ command' = command
      /\ answer'.how = "done" /\ answer'.yes = Verdict /\ answer'.at = now
      /\ answer'.first = held /\ answer'.second = heldSecond
      /\ command = "claim-publish-gate" => answer'.blockers = Blockers(held, heldSecond)
  BY DEF Decide, Answer
<1>2. ASSUME Accepted', command = "mutation-class", held.class = "multi_repo_low_risk"
      PROVE  CanMerge(heldSecond.scope.multi, now)
  <2>1. MutationTicketHolds(held, heldSecond, now)
    BY <1>1, <1>2 DEF Accepted, Verdict
  <2>2. held \in Requests
    BY <1>1, <1>2 DEF VerdictInv, ReadByCommand, TicketCommands
  <2> QED
    BY <1>2, <2>1, <2>2, PlanHeldCanMerge DEF MutationTicketHolds
<1>3. Mergeable'
  BY <1>1, <1>2 DEF Mergeable
<1>4. ASSUME command = "claim-publish-gate"
      PROVE  Answered(held, heldSecond, answer'.blockers, answer'.yes)
  <2>1. held \in Readiness /\ heldSecond \in Indexes
    BY <1>1, <1>4 DEF VerdictInv, ReadByCommand
  <2>2. Verdict = PublishAuthority(held, heldSecond)
    BY <1>4 DEF Verdict
  <2> QED
    BY <1>1, <1>4, <2>1, <2>2, GateNamesAll
<1>5. ObstaclesNamed'
  BY <1>1, <1>4 DEF ObstaclesNamed
<1> QED
  BY <1>3, <1>5

LEMMA CallsReadWhatIsThere == VerdictInv /\ Call => ReadByCommand'
<1> SUFFICES ASSUME VerdictInv, Call PROVE ReadByCommand'
  OBVIOUS
<1> USE DEF VerdictInv, ReadByCommand, Answer, files
<1>1. CASE ReadFirst
  BY <1>1 DEF ReadFirst, TicketCommands
<1>2. CASE ReadSecond
  BY <1>2 DEF ReadSecond
<1>3. CASE Decide
  BY <1>3 DEF Decide
<1> QED
  BY <1>1, <1>2, <1>3 DEF Call

LEMMA OthersWriteTheirOwn ==
  VerdictInv /\ Others => ReadByCommand' /\ command' = command /\ answer' = answer
<1> SUFFICES ASSUME VerdictInv, Others
             PROVE  ReadByCommand' /\ command' = command /\ answer' = answer
  OBVIOUS
<1> USE DEF VerdictInv, ReadByCommand, Writes, reading, TicketCommands
<1>1. CASE Ask
  BY <1>1 DEF Ask
<1>2. CASE ApproveTicket
  BY <1>2 DEF ApproveTicket, Approve
<1>3. CASE IssuePolicy
  BY <1>3 DEF IssuePolicy, Approve
<1>4. CASE Void
  BY <1>4 DEF Void
<1>5. CASE Amend
  BY <1>5 DEF Amend
<1>6. CASE Summarise
  BY <1>6 DEF Summarise
<1>7. CASE Tick
  BY <1>7 DEF Tick, files
<1> QED
  BY <1>1, <1>2, <1>3, <1>4, <1>5, <1>6, <1>7 DEF Others

LEMMA VerdictHolds == GatesSpec => []VerdictInv
<1>1. VerdictInv /\ Call => VerdictInv'
  <2> SUFFICES ASSUME VerdictInv, Call PROVE VerdictInv'
    OBVIOUS
  <2>1. CASE Decide
    BY <2>1, DecideIsRight, CallsReadWhatIsThere DEF VerdictInv
  <2>2. CASE ReadFirst \/ ReadSecond
    <3>1. command' = command /\ answer' \in {answer, NoAnswer, Refused}
      BY <2>2 DEF ReadFirst, ReadSecond, Answer
    <3> QED
      BY <3>1, OldAnswer, CallsReadWhatIsThere DEF VerdictInv
  <2> QED
    BY <2>1, <2>2 DEF Call
<1>2. VerdictInv /\ Others => VerdictInv'
  BY OthersWriteTheirOwn, OldAnswer DEF VerdictInv
<1>3. VerdictInv /\ UNCHANGED gateVars => VerdictInv'
  BY OldAnswer DEF VerdictInv, ReadByCommand, gateVars, files, reading
<1>4. VerdictInv /\ [GatesNext]_gateVars => VerdictInv'
  BY <1>1, <1>2, <1>3 DEF GatesNext
<1> QED
  BY <1>4, VerdictStarts, PTL DEF GatesSpec

-----------------------------------------------------------------------------
(* The theorems. *)

\* Every ticket and policy that is accepted goes back to an approval of this very
\* scope that was in force and not yet spent, however the files change between
\* the reads of a command (governance_authority.go:11-178).
THEOREM AcceptedTicketsWereApproved == GatesSpec => []AcceptedWasApproved
<1>1. ApprovalInv => AcceptedWasApproved
  BY DEF ApprovalInv
<1> QED
  BY <1>1, ApprovalHolds, PTL

\* The plan of every accepted request for several repositories can be merged in
\* its order (governance_authority.go:232-364).
THEOREM AcceptedPlansCanMerge == GatesSpec => []AcceptedPlanCanMerge
<1>1. VerdictInv => AcceptedPlanCanMerge
  BY VerdictsMean DEF VerdictInv
<1> QED
  BY <1>1, VerdictHolds, PTL

\* The gate for the full claim names what stands in its way, each obstacle once
\* and nothing else, and grants exactly where nothing does, readiness decides
\* "allowed" and the boundary does not say "denied" (claim_gate.go:62-149).
THEOREM ObstaclesAreNamed == GatesSpec => []EveryObstacleNamed
<1>1. VerdictInv => EveryObstacleNamed
  BY VerdictsMean DEF VerdictInv
<1> QED
  BY <1>1, VerdictHolds, PTL

-----------------------------------------------------------------------------
(* What a granted mutation says of its request. *)

Tuple(s, n) == s = [i \in 1..n |-> s[i]]
Hold(s, n)  == \A i \in 1..n : s[i][1]

\* Only the last branch of EvaluateAutonomousRepairGovernance allows a mutation.
LEMMA GrantedByAll ==
  ASSUME NEW p, NEW q, NEW t, EvaluateRepair(p, q, t).mutation
  PROVE  /\ PolicyValid(p) /\ q.how # "discovery" /\ SchemaValid(q) /\ WellShaped(q)
         /\ Refusals(AuthorityChecks(p, q, t)) = {}
  BY DEF EvaluateRepair, Denied, Granted

\* Lists of checks one after the other hold when each does.
LEMMA Joined ==
  ASSUME NEW m \in Nat, NEW n \in Nat, NEW a, NEW b, Tuple(a, m), Tuple(b, n)
  PROVE  /\ Tuple(a \o b, m + n)
         /\ Hold(a \o b, m + n) <=> Hold(a, m) /\ Hold(b, n)
<1> DEFINE S == {a[i] : i \in 1..m} \cup {b[i] : i \in 1..n}
<1>1. a \in Seq(S) /\ b \in Seq(S) /\ Len(a) = m /\ Len(b) = n
  <2>1. a = [i \in 1..m |-> a[i]] /\ b = [i \in 1..n |-> b[i]]
    BY DEF Tuple
  <2>2. DOMAIN a = 1..m /\ DOMAIN b = 1..n
    BY <2>1
  <2>3. a \in [1..m -> S] /\ b \in [1..n -> S]
    BY <2>1
  <2> HIDE DEF S
  <2>4. a \in Seq(S) /\ b \in Seq(S)
    BY <2>3
  <2> QED
    BY <2>2, <2>4
<1> HIDE DEF S
<1>2. a \o b \in Seq(S) /\ Len(a \o b) = m + n
  BY <1>1
<1>3. \A i \in 1..m : i \in 1..(m + n) /\ (a \o b)[i] = a[i]
  BY <1>1
<1>4. \A i \in 1..n : m + i \in 1..(m + n) /\ (a \o b)[m + i] = b[i]
  BY <1>1
<1>5. Tuple(a \o b, m + n)
  BY <1>2 DEF Tuple
<1>6. ASSUME Hold(a \o b, m + n) PROVE Hold(a, m) /\ Hold(b, n)
  <2>1. ASSUME NEW i \in 1..m PROVE a[i][1]
    BY <1>3, <1>6 DEF Hold
  <2>2. ASSUME NEW i \in 1..n PROVE b[i][1]
    BY <1>4, <1>6 DEF Hold
  <2> QED
    BY <2>1, <2>2 DEF Hold
<1>7. ASSUME Hold(a, m), Hold(b, n), NEW i \in 1..(m + n) PROVE (a \o b)[i][1]
  <2>1. CASE i \in 1..m
    BY <1>3, <1>7, <2>1 DEF Hold
  <2>2. CASE i \notin 1..m
    <3>1. i - m \in 1..n /\ m + (i - m) = i
      BY <2>2
    <3>2. (a \o b)[i] = b[i - m]
      BY <1>4, <3>1
    <3> QED
      BY <1>7, <3>1, <3>2 DEF Hold
  <2> QED
    BY <2>1, <2>2
<1>8. Hold(a, m) /\ Hold(b, n) => Hold(a \o b, m + n)
  BY <1>7 DEF Hold
<1> QED
  BY <1>5, <1>6, <1>8

\* The lists the code works through, each of its length.
LEMMA CheckLists ==
  /\ \A q : Tuple(BindingChecks(q), 10)
  /\ \A p, q, r : Tuple(PolicyChecks(p, q, r), 8)
  /\ \A r, e, c, g, v, a, t : Tuple(EvidenceChecks(r, e, c, g, v, a, t), 6)
  /\ \A r, g, v, a : Tuple(ActionClassChecks(r, g, v, a), 6)
<1>1. ASSUME NEW q PROVE Tuple(BindingChecks(q), 10)
  BY DEF Tuple, BindingChecks
<1>2. ASSUME NEW p, NEW q, NEW r PROVE Tuple(PolicyChecks(p, q, r), 8)
  BY DEF Tuple, PolicyChecks
<1>3. ASSUME NEW r, NEW e, NEW c, NEW g, NEW v, NEW a, NEW t
      PROVE  Tuple(EvidenceChecks(r, e, c, g, v, a, t), 6)
  BY DEF Tuple, EvidenceChecks
<1>4. ASSUME NEW r, NEW g, NEW v, NEW a PROVE Tuple(ActionClassChecks(r, g, v, a), 6)
  BY DEF Tuple, ActionClassChecks
<1> QED
  BY <1>1, <1>2, <1>3, <1>4

\* Nothing is refused just when every check of every list holds.
EachHolds(p, q, t) ==
  LET r == RepoPolicy(p, q.repo)
      g == q.governance.body
      v == q.reviewer.body
      a == q.action.body
  IN /\ Hold(BindingChecks(q), 10)
     /\ Hold(PolicyChecks(p, q, r), 8)
     /\ Hold(EvidenceChecks(r, q.envelope.body, q.candidate.body, g, v, a, t), 6)
     /\ Hold(ActionClassChecks(r, g, v, a), 6)

LEMMA EachListHolds ==
  ASSUME NEW p, NEW q, NEW t
  PROVE  Refusals(AuthorityChecks(p, q, t)) = {} <=> EachHolds(p, q, t)
<1> DEFINE r == RepoPolicy(p, q.repo)
           B == BindingChecks(q)
           P == PolicyChecks(p, q, r)
           E == EvidenceChecks(r, q.envelope.body, q.candidate.body, q.governance.body,
                               q.reviewer.body, q.action.body, t)
           C == ActionClassChecks(r, q.governance.body, q.reviewer.body, q.action.body)
<1>1. Tuple(B, 10) /\ Tuple(P, 8) /\ Tuple(E, 6) /\ Tuple(C, 6)
  BY CheckLists
<1>2. AuthorityChecks(p, q, t) = ((B \o P) \o E) \o C
  BY DEF AuthorityChecks
<1> HIDE DEF B, P, E, C
<1>3. Tuple(B \o P, 18) /\ (Hold(B \o P, 18) <=> Hold(B, 10) /\ Hold(P, 8))
  BY <1>1, Joined, 10 + 8 = 18
<1>4. Tuple((B \o P) \o E, 24) /\ (Hold((B \o P) \o E, 24) <=> Hold(B \o P, 18) /\ Hold(E, 6))
  BY <1>1, <1>3, Joined, 18 + 6 = 24
<1>5. /\ Tuple(((B \o P) \o E) \o C, 30)
      /\ Hold(((B \o P) \o E) \o C, 30) <=> Hold((B \o P) \o E, 24) /\ Hold(C, 6)
  BY <1>1, <1>4, Joined, 24 + 6 = 30
<1>6. Refusals(((B \o P) \o E) \o C) = {} <=> Hold(((B \o P) \o E) \o C, 30)
  BY <1>5 DEF Refusals, Tuple, Hold
<1>7. EachHolds(p, q, t) <=> Hold(B, 10) /\ Hold(P, 8) /\ Hold(E, 6) /\ Hold(C, 6)
  BY DEF EachHolds, B, P, E, C
<1> QED
  BY <1>2, <1>3, <1>4, <1>5, <1>6, <1>7

\* A caller asks about the documents as they are.
LEMMA AskedOf ==
  ASSUME NEW how, NEW what, NEW assertion
  PROVE  LET q == Asked(how, what, assertion) IN
         /\ q.how = how /\ q.repo = repo /\ q.issue = issue /\ q.wanted = what /\ q.base = base
         /\ q.paths = Touches[docs["action"].body.head] /\ q.approved = {approved}
         /\ \A d \in DocumentNames : q[d] = docs[d]
  BY DEF Asked, DocumentNames

\* What a mutation that is granted says of the documents: they are as they were
\* digested, about one base and head, reviewed, checked and in time, and within
\* the policy (autonomous_repair_architecture.go:199-345).
LEMMA MutationMeans ==
  ASSUME NEW what, MayMutate(what)
  PROVE  LET e == The("envelope")
             c == The("candidate")
             g == The("governance")
             v == The("reviewer")
             a == The("action")
         IN /\ PolicyValid(policy)
            /\ \A d \in DocumentNames : docs[d].digest = docs[d].body
            /\ approved = docs["action"].digest
            /\ a.repo = repo /\ a.base = base /\ a.action = what
            /\ \A d \in DocumentNames \ {"action"} : a.links[d] = docs[d].digest
            /\ Touches[a.head] # {} /\ Touches[a.head] \cap Risky = {}
            /\ g.push = Rules.push /\ what \in Rules.allowed
            /\ ForkMatches(e, g, a)
            /\ Green(a.checks, a.head) /\ DOMAIN a.checks = Rules.checks
            /\ v.subject = a.diff
            /\ InOrder(e, c, g, v, a, clock) /\ e.expires - e.created <= Budget(e.budget)
            /\ Rules.class = "external" => what \in DraftActions
            /\ Rules.class = "team" => what # "auto_merge"
            /\ Rules.class = "team" /\ what = "request_merge_queue" => HumanApproved(g, v, a)
            /\ Rules.class = "sole_control" /\ what = "auto_merge" => Rules.optIn
<1> DEFINE q == Asked("write", what, None)
           e == The("envelope")
           c == The("candidate")
           g == The("governance")
           v == The("reviewer")
           a == The("action")
<1>1. /\ q.how = "write" /\ q.repo = repo /\ q.wanted = what /\ q.base = base
      /\ q.paths = Touches[a.head] /\ q.approved = {approved}
      /\ \A d \in DocumentNames : q[d] = docs[d]
  BY AskedOf DEF The
<1>2. /\ q.envelope.body = e /\ q.candidate.body = c /\ q.governance.body = g
      /\ q.reviewer.body = v /\ q.action = docs["action"] /\ q.action.body = a
  BY <1>1 DEF The, DocumentNames
<1>3. EvaluateRepair(policy, q, clock).mutation
  BY DEF MayMutate
<1> HIDE DEF q, e, c, g, v, a
<1>4. PolicyValid(policy) /\ SchemaValid(q) /\ Refusals(AuthorityChecks(policy, q, clock)) = {}
  BY <1>3, GrantedByAll
<1>13. Touches[a.head] # {}
  BY <1>1, <1>4 DEF SchemaValid
<1>5. /\ Hold(BindingChecks(q), 10) /\ Hold(PolicyChecks(policy, q, Rules), 8)
      /\ Hold(EvidenceChecks(Rules, e, c, g, v, a, clock), 6)
      /\ Hold(ActionClassChecks(Rules, g, v, a), 6)
  BY <1>1, <1>2, <1>4, EachListHolds DEF EachHolds, Rules
<1>6. /\ Digested(q) /\ q.approved = {q.action.digest}
      /\ repo = a.repo /\ what = a.action /\ base = a.base
      /\ \A d \in DocumentNames \ {"action"} : a.links[d] = q[d].digest
  <2>1. /\ BindingChecks(q)[1][1] /\ BindingChecks(q)[2][1] /\ BindingChecks(q)[4][1]
        /\ BindingChecks(q)[7][1] /\ BindingChecks(q)[8][1] /\ BindingChecks(q)[10][1]
    BY <1>5 DEF Hold
  <2> QED
    BY <1>1, <1>2, <2>1 DEF BindingChecks
<1>7. /\ Touches[a.head] \cap Risky = {} /\ MatchesPolicy(Rules, e, g, a) /\ ForkMatches(e, g, a)
  <2>1. /\ PolicyChecks(policy, q, Rules)[3][1] /\ PolicyChecks(policy, q, Rules)[4][1]
        /\ PolicyChecks(policy, q, Rules)[8][1]
    BY <1>5 DEF Hold
  <2> QED
    BY <1>1, <1>2, <2>1 DEF PolicyChecks
<1>8. /\ Green(a.checks, a.head) /\ DOMAIN a.checks = Rules.checks /\ v.subject = a.diff
      /\ InOrder(e, c, g, v, a, clock) /\ e.expires - e.created <= Budget(e.budget)
  <2> DEFINE E == EvidenceChecks(Rules, e, c, g, v, a, clock)
  <2>1. E[2][1] /\ E[3][1] /\ E[4][1] /\ E[5][1] /\ E[6][1]
    BY <1>5 DEF Hold
  <2> QED
    BY <2>1 DEF EvidenceChecks
<1>9. /\ Rules.class = "external" => a.action \in DraftActions
      /\ Rules.class = "team" => a.action # "auto_merge"
      /\ Rules.class = "team" /\ a.action = "request_merge_queue" => HumanApproved(g, v, a)
      /\ Rules.class = "sole_control" /\ a.action = "auto_merge" => Rules.optIn
  <2> DEFINE C == ActionClassChecks(Rules, g, v, a)
  <2>1. C[3][1] /\ C[4][1] /\ C[5][1] /\ C[6][1]
    BY <1>5 DEF Hold
  <2> QED
    BY <2>1 DEF ActionClassChecks
<1>10. g.push = Rules.push /\ a.action \in Rules.allowed
  BY <1>7 DEF MatchesPolicy
<1>11. \A d \in DocumentNames : docs[d].digest = docs[d].body
  BY <1>1, <1>6 DEF Digested
<1>12. approved = docs["action"].digest /\ \A d \in DocumentNames \ {"action"} : a.links[d] = docs[d].digest
  BY <1>1, <1>2, <1>6
<1> QED
  BY <1>4, <1>6, <1>7, <1>8, <1>9, <1>10, <1>11, <1>12, <1>13 DEF e, c, g, v, a

-----------------------------------------------------------------------------
(* The inductive invariant: every content a document has or was digested of  *)
(* is one an issuer, right or wrong, may have written.                       *)

Sound(d, b) ==
  /\ d = "envelope" => b.forkOwner \in {None, operator} /\ {b.created, b.expires, b.budget} \subseteq Nat
  /\ d \in {"candidate", "governance", "reviewer"} => b.at \in Nat
  /\ d = "action" => /\ {b.at, b.expires} \subseteq Nat
                     /\ b.diff = <<b.base, b.head>>
                     /\ \A n \in DOMAIN b.checks : b.checks[n].conclusion = "success" =>
                                                     b.checks[n].head \in Passing

Kept(d) == /\ docs[d] = [body |-> docs[d].body, digest |-> docs[d].digest]
           /\ Sound(d, docs[d].body) /\ Sound(d, docs[d].digest)

WellKept ==
  /\ clock \in Nat
  /\ docs = [d \in DocumentNames |-> docs[d]] /\ \A d \in DocumentNames : Kept(d)
  /\ approved \in signedOff
  /\ Seen(docs["reviewer"].digest) \in reviewed

\* What a right issuer writes is sound,
LEMMA ActionIsSound ==
  ASSUME NEW t \in Nat, NEW four, four["envelope"].body.expires \in Nat
  PROVE  Sound("action", Action(t, four))
<1>1. t + Day \in Nat
  BY RepairTimes
<1>2. \A n \in DOMAIN Checks : Checks[n].conclusion = "success" => Checks[n].head \in Passing
  BY DEF Checks
<1> QED
  BY <1>1, <1>2 DEF Sound, Action, Earliest

LEMMA ProperIsSound ==
  ASSUME NEW t \in Nat, NEW d \in DocumentNames, docs["envelope"].body.expires \in Nat
  PROVE  Sound(d, Proper(d, t))
<1>1. CASE d = "envelope"
  <2>1. t + Lifetime \in Nat /\ Lifetime \in Nat
    BY RepairBounds
  <2> QED
    BY <1>1, <2>1 DEF Sound, Proper, Envelope
<1>2. CASE d \in {"candidate", "governance", "reviewer"}
  BY <1>2 DEF Sound, Proper, Candidate, Governance, Review
<1>3. CASE d = "action"
  BY <1>3, ActionIsSound DEF Proper, Sound
<1> QED
  BY <1>1, <1>2, <1>3 DEF DocumentNames

\* ... and so is what a wrong one writes.
LEMMA ImproperIsSound ==
  ASSUME clock \in Nat, NEW d \in DocumentNames, docs["envelope"].body.expires \in Nat,
         NEW b \in Improper(d)
  PROVE  Sound(d, b)
<1> DEFINE p == Proper(d, clock)
<1>1. Sound(d, p)
  BY ProperIsSound
<1>2. CASE d = "envelope"
  <2>1. Unbudgeted \in Nat /\ clock + Lifetime + 1 \in Nat
    BY RepairBounds
  <2>2. /\ b.forkOwner = p.forkOwner /\ b.created = p.created
        /\ b.expires \in {p.expires, clock + Lifetime + 1} /\ b.budget \in {p.budget, Unbudgeted}
    <3>1. {"forkOwner", "created", "expires", "budget"} \subseteq DOMAIN Proper(d, clock)
      BY <1>2 DEF Proper, Envelope
    <3> QED
      BY <1>2, <3>1 DEF Improper
  <2> QED
    BY <1>1, <1>2, <2>1, <2>2 DEF Sound
<1>3. CASE d = "candidate"
  BY <1>1, <1>3 DEF Improper, Sound, Proper, Candidate
<1>4. CASE d = "governance"
  <2>1. b.at = p.at
    <3>1. "at" \in DOMAIN Proper(d, clock)
      BY <1>4 DEF Proper, Governance
    <3> QED
      BY <1>4, <3>1 DEF Improper
  <2> QED
    BY <1>1, <1>4, <2>1 DEF Sound
<1>5. CASE d = "reviewer"
  BY <1>1, <1>5 DEF Improper, Sound, Proper, Review
<1>6. CASE d = "action"
  <2>1. clock + Day + 1 \in Nat
    BY RepairTimes
  <2>2. /\ b.at = p.at /\ b.expires \in {p.expires, clock + Day + 1}
        /\ b.diff = p.diff /\ b.base = p.base /\ b.head = p.head /\ b.checks = p.checks
    <3>1. {"at", "expires", "diff", "base", "head", "checks"} \subseteq DOMAIN Proper(d, clock)
      BY <1>6 DEF Proper, Action
    <3> QED
      BY <1>6, <3>1 DEF Improper
  <2> QED
    BY <1>1, <1>6, <2>1, <2>2 DEF Sound
<1> QED
  BY <1>2, <1>3, <1>4, <1>5, <1>6 DEF DocumentNames

\* Documents that change one at a time or all together stay well kept.
LEMMA DocumentsKept ==
  ASSUME WellKept, clock' = clock, approved' = approved, signedOff' = signedOff,
         docs' = [d \in DocumentNames |-> docs'[d]],
         \A d \in DocumentNames : docs'[d] = docs[d] \/ Kept(d)',
         Seen(docs["reviewer"].digest)' \in reviewed'
  PROVE  WellKept'
<1>1. ASSUME NEW d \in DocumentNames PROVE Kept(d)'
  BY <1>1 DEF WellKept, Kept
<1> QED
  BY <1>1 DEF WellKept

\* A document issued anew has its own digest.
LEMMA SignedIsKept ==
  ASSUME NEW d \in DocumentNames, NEW b, Sound(d, b), docs'[d] = Signed(b)
  PROVE  Kept(d)' /\ docs'[d].digest = b /\ docs'[d].body = b
<1>1. docs'[d] = [body |-> b, digest |-> b]
  BY DEF Signed
<1> QED
  BY <1>1 DEF Kept, Sound

\* The first documents are properly issued, in one tick.
LEMMA RepairsBegin == RepairsInit => WellKept
<1> SUFFICES ASSUME RepairsInit PROVE WellKept
  OBVIOUS
<1>1. PICK four : /\ four = [d \in DocumentNames \ {"action"} |-> Signed(Proper(d, 0))]
                  /\ docs = Chain(four, Signed(Action(0, four)))
  BY DEF RepairsInit
<1>2. docs = [d \in DocumentNames |-> docs[d]]
  BY <1>1 DEF Chain
<1>3. /\ \A d \in DocumentNames \ {"action"} : docs[d] = Signed(Proper(d, 0))
      /\ docs["action"] = Signed(Action(0, four))
  BY <1>1 DEF Chain, DocumentNames
<1>4. docs["envelope"].body.expires \in Nat /\ four["envelope"].body.expires \in Nat
  <2>1. 0 + Lifetime \in Nat
    BY RepairBounds
  <2> QED
    <3>1. /\ docs["envelope"] = Signed(Proper("envelope", 0))
          /\ four["envelope"] = Signed(Proper("envelope", 0))
      BY <1>1, <1>3 DEF DocumentNames
    <3>2. Proper("envelope", 0).expires \in Nat
      BY <2>1 DEF Proper, Envelope
    <3> QED
      BY <3>1, <3>2 DEF Signed
<1>5. ASSUME NEW d \in DocumentNames PROVE Kept(d)
  <2>1. CASE d = "action"
    BY <1>3, <1>4, <2>1, ActionIsSound DEF Kept, Signed
  <2>2. CASE d # "action"
    <3>1. docs[d] = Signed(Proper(d, 0))
      BY <1>3, <2>2
    <3>2. Sound(d, Proper(d, 0))
      BY <1>4, ProperIsSound
    <3> QED
      BY <3>1, <3>2 DEF Kept, Signed
  <2> QED
    BY <2>1, <2>2
<1>6. docs["reviewer"].digest = docs["reviewer"].body
  <2>1. docs["reviewer"] = Signed(Proper("reviewer", 0))
    BY <1>3 DEF DocumentNames
  <2> QED
    BY <2>1 DEF Signed
<1> QED
  BY <1>2, <1>5, <1>6 DEF RepairsInit, WellKept

\* Documents issued anew, the action of the other four as they then are.
LEMMA ReissueKeeps == WellKept /\ Reissue => WellKept'
<1> SUFFICES ASSUME WellKept, Reissue PROVE WellKept'
  OBVIOUS
<1>1. PICK some \in SUBSET DocumentNames \ {{}} :
        LET four == [d \in DocumentNames \ {"action"} |->
                       IF d \in some THEN Signed(Proper(d, clock)) ELSE docs[d]]
        IN /\ docs' = Chain(four, IF "action" \in some THEN Signed(Action(clock, four))
                                  ELSE docs["action"])
           /\ reviewed' = IF "reviewer" \in some THEN reviewed \cup {Seen(Review(clock))} ELSE reviewed
  BY DEF Reissue
<1> DEFINE four == [d \in DocumentNames \ {"action"} |->
                      IF d \in some THEN Signed(Proper(d, clock)) ELSE docs[d]]
<1>2. \A d \in DocumentNames \ {"action"} :
        docs'[d] = IF d \in some THEN Signed(Proper(d, clock)) ELSE docs[d]
  BY <1>1 DEF Chain
<1>3. docs'["action"] = IF "action" \in some THEN Signed(Action(clock, four)) ELSE docs["action"]
  BY <1>1 DEF Chain, DocumentNames
<1>4. clock \in Nat /\ docs["envelope"].body.expires \in Nat
  BY DEF WellKept, Kept, Sound, DocumentNames
<1>5. four["envelope"].body.expires \in Nat
  <2>1. clock + Lifetime \in Nat
    BY <1>4, RepairBounds
  <2> QED
    BY <1>4, <2>1 DEF Signed, Proper, Envelope, DocumentNames
<1>6. ASSUME NEW d \in DocumentNames PROVE docs'[d] = docs[d] \/ Kept(d)'
  <2>1. CASE d \notin some
    BY <1>2, <1>3, <2>1
  <2>2. CASE d = "action" /\ d \in some
    BY <1>3, <1>4, <1>5, <2>2, ActionIsSound, SignedIsKept
  <2>3. CASE d # "action" /\ d \in some
    BY <1>2, <1>4, <2>3, ProperIsSound, SignedIsKept
  <2> QED
    BY <2>1, <2>2, <2>3
<1>7. Seen(docs["reviewer"].digest)' \in reviewed'
  <2>1. CASE "reviewer" \in some
    <3>1. docs'["reviewer"].digest = Review(clock)
      <4>1. docs'["reviewer"] = Signed(Proper("reviewer", clock))
        BY <1>2, <2>1 DEF DocumentNames
      <4>2. Proper("reviewer", clock) = Review(clock)
        BY DEF Proper
      <4> QED
        BY <4>1, <4>2 DEF Signed
    <3> QED
      BY <1>1, <2>1, <3>1 DEF Seen
  <2>2. CASE "reviewer" \notin some
    <3>1. docs'["reviewer"] = docs["reviewer"] /\ reviewed' = reviewed
      BY <1>1, <1>2, <2>2 DEF DocumentNames
    <3> QED
      BY <3>1 DEF WellKept, Seen
  <2> QED
    BY <2>1, <2>2
<1>8. docs' = [d \in DocumentNames |-> docs'[d]]
  BY <1>1 DEF Chain
<1> QED
  BY <1>6, <1>7, <1>8, DocumentsKept DEF Reissue

\* One issuer is wrong.
LEMMA SlipKeeps == \A d \in DocumentNames : WellKept /\ Slip(d) => WellKept'
<1> SUFFICES ASSUME NEW d \in DocumentNames, WellKept, Slip(d) PROVE WellKept'
  OBVIOUS
<1>1. PICK b \in Improper(d) : Put(d, b)
  BY DEF Slip
<1>2. clock \in Nat /\ docs["envelope"].body.expires \in Nat
  BY DEF WellKept, Kept, Sound, DocumentNames
<1>3. docs' = [docs EXCEPT ![d] = Signed(b)] /\ DOMAIN docs = DocumentNames
  BY <1>1 DEF Put, WellKept
<1>4. Kept(d)' /\ docs'[d].digest = b
  BY <1>2, <1>3, ImproperIsSound, SignedIsKept
<1>5. \A n \in DocumentNames \ {d} : docs'[n] = docs[n]
  BY <1>3
<1>6. Seen(docs["reviewer"].digest)' \in reviewed'
  <2>1. CASE d = "reviewer"
    BY <1>1, <1>4, <2>1 DEF Put, Seen
  <2>2. CASE d # "reviewer"
    <3>1. docs'["reviewer"] = docs["reviewer"] /\ reviewed' = reviewed
      BY <1>1, <1>5, <2>2 DEF Put, DocumentNames
    <3> QED
      BY <3>1 DEF WellKept, Seen
  <2> QED
    BY <2>1, <2>2
<1>7. docs' = [n \in DocumentNames |-> docs'[n]]
  BY <1>3
<1> QED
  BY <1>4, <1>5, <1>6, <1>7, DocumentsKept DEF Slip

\* A content changes, its digest does not.
LEMMA EditKeeps == \A d \in DocumentNames : WellKept /\ Edit(d) => WellKept'
<1> SUFFICES ASSUME NEW d \in DocumentNames, WellKept, Edit(d) PROVE WellKept'
  OBVIOUS
<1> DEFINE p == Proper(d, clock)
<1>1. clock \in Nat /\ docs["envelope"].body.expires \in Nat
  BY DEF WellKept, Kept, Sound, DocumentNames
<1>2. Sound(d, p)
  BY <1>1, ProperIsSound
<1>3. docs' = [docs EXCEPT ![d].body = p] /\ DOMAIN docs = DocumentNames
  BY DEF Edit, WellKept
<1> HIDE DEF p
<1>4. docs[d] = [body |-> docs[d].body, digest |-> docs[d].digest] /\ Sound(d, docs[d].digest)
  BY DEF WellKept, Kept
<1>5. docs'[d] = [body |-> p, digest |-> docs[d].digest]
  BY <1>3, <1>4
<1>6. Kept(d)'
  <2>1. docs'[d].body = p /\ docs'[d].digest = docs[d].digest
    BY <1>5
  <2>2. Sound(d, docs'[d].body) /\ Sound(d, docs'[d].digest)
    BY <1>2, <1>4, <2>1
  <2>3. docs'[d] = [body |-> docs'[d].body, digest |-> docs'[d].digest]
    BY <1>5
  <2> QED
    BY <2>2, <2>3 DEF Kept
<1>7. \A n \in DocumentNames \ {d} : docs'[n] = docs[n]
  BY <1>3
<1>8. Seen(docs["reviewer"].digest)' \in reviewed'
  <2>1. docs'["reviewer"].digest = docs["reviewer"].digest
    BY <1>5, <1>7 DEF DocumentNames
  <2>2. Seen(docs["reviewer"].digest) \in reviewed /\ reviewed' = reviewed
    BY DEF Edit, WellKept
  <2>3. Seen(docs["reviewer"].digest)' = Seen(docs["reviewer"].digest)
    BY <2>1 DEF Seen
  <2> QED
    BY <2>2, <2>3
<1>9. docs' = [n \in DocumentNames |-> docs'[n]]
  BY <1>3
<1> QED
  BY <1>6, <1>7, <1>8, <1>9, DocumentsKept DEF Edit

\* What leaves the documents alone and forgets nothing that was approved or reviewed.
LEMMA DocumentsStay ==
  ASSUME WellKept, clock' \in Nat, docs' = docs, approved' \in signedOff',
         reviewed \subseteq reviewed'
  PROVE  WellKept'
<1>1. \A d \in DocumentNames : Kept(d)'
  BY DEF WellKept, Kept, Sound
<1>2. Seen(docs["reviewer"].digest)' \in reviewed'
  BY DEF WellKept, Seen
<1> QED
  BY <1>1, <1>2 DEF WellKept

\* The inductive invariant of repairs: whatever is issued, re-issued, written
\* wrongly or edited in whatever order, every content and digest is one an issuer
\* may have written, and what was approved and reviewed is on record.
THEOREM RepairsWellKept == RepairsSpec => []WellKept
<1>1. RepairsInit => WellKept
  BY RepairsBegin
<1>2. WellKept /\ [RepairsNext]_repairVars => WellKept'
  <2> SUFFICES ASSUME WellKept, [RepairsNext]_repairVars PROVE WellKept'
    OBVIOUS
  <2>1. CASE \E d \in DocumentNames : Slip(d)
    BY <2>1, SlipKeeps
  <2>2. CASE \E d \in DocumentNames : Edit(d)
    BY <2>2, EditKeeps
  <2>3. CASE Reissue
    BY <2>3, ReissueKeeps
  <2>4. CASE ApproveAction
    BY <2>4, DocumentsStay DEF ApproveAction, WellKept
  <2>5. CASE Move
    BY <2>5, DocumentsStay DEF Move, WellKept
  <2>6. CASE RunChecks
    BY <2>6, DocumentsStay DEF RunChecks, WellKept
  <2>7. CASE Elapse
    BY <2>7, DocumentsStay DEF Elapse, WellKept
  <2>8. CASE UNCHANGED repairVars
    BY <2>8, DocumentsStay DEF repairVars, WellKept
  <2> QED
    BY <2>1, <2>2, <2>3, <2>4, <2>5, <2>6, <2>7, <2>8 DEF RepairsNext
<1> QED
  BY <1>1, <1>2, PTL DEF RepairsSpec

-----------------------------------------------------------------------------
(* What an authorisation rests on, how long it lasts and what it may be for. *)

\* What may be carried out was approved in the words it has, is about one
\* reviewed, checked and unprotected head, and its base is the default branch's.
THEOREM MutationsRestOnOneHead == RepairsSpec => []MutationRestsOnOneHead
<1>1. WellKept => MutationRestsOnOneHead
  <2> SUFFICES ASSUME WellKept, NEW what \in Considered, MayMutate(what)
               PROVE  LET h == The("action").head IN
                      /\ The("action") \in signedOff
                      /\ \A d \in DocumentNames \ {"action"} : The("action").links[d] = The(d)
                      /\ h \in Passing /\ Touches[h] # {} /\ Touches[h] \cap Risky = {}
                      /\ \E seen \in reviewed : seen.base = base /\ seen.head = h
    BY DEF MutationRestsOnOneHead
  <2> DEFINE v == The("reviewer")
             a == The("action")
  <2>1. \A d \in DocumentNames : docs[d].digest = The(d)
    BY MutationMeans DEF The
  <2>2. a \in signedOff
    BY <2>1, MutationMeans DEF WellKept, DocumentNames
  <2>3. \A d \in DocumentNames \ {"action"} : a.links[d] = The(d)
    BY <2>1, MutationMeans
  <2>4. /\ \A n \in DOMAIN a.checks : a.checks[n].conclusion = "success" => a.checks[n].head \in Passing
        /\ a.diff = <<a.base, a.head>>
    BY DEF WellKept, Kept, Sound, The, DocumentNames
  <2>5. a.head \in Passing
    <3>1. Rules.checks # {}
      BY MutationMeans DEF PolicyValid, RepoPolicyValid, Rules, RepoPolicy, Configured
    <3>2. Green(a.checks, a.head) /\ DOMAIN a.checks = Rules.checks
      BY MutationMeans
    <3> QED
      BY <2>4, <3>1, <3>2 DEF Green
  <2>6. Seen(v) \in reviewed
    BY <2>1 DEF WellKept, DocumentNames
  <2>7. Seen(v).base = base /\ Seen(v).head = a.head
    <3>1. v.subject = <<base, a.head>>
      BY <2>4, MutationMeans
    <3> QED
      BY <3>1 DEF Seen
  <2>8. Touches[a.head] # {} /\ Touches[a.head] \cap Risky = {}
    BY MutationMeans
  <2> QED
    BY <2>2, <2>3, <2>5, <2>6, <2>7, <2>8
<1> QED
  BY <1>1, RepairsWellKept, PTL

\* A product that no longer fits a Duration is never more than what was meant.
LEMMA BudgetBounded == \A secs \in Nat : Budget(secs) <= secs * Second
<1> SUFFICES ASSUME NEW secs \in Nat PROVE Budget(secs) <= secs * Second
  OBVIOUS
<1>1. /\ secs * Second \in Nat /\ secs * Second + Half \in Nat /\ Half \in Nat
      /\ 2 * Half \in Nat \ {0}
  BY RepairTimes
<1>2. \A y \in Nat, m \in Nat \ {0} : y % m \in Nat /\ y % m <= y
  OBVIOUS
<1>3. (secs * Second + Half) % (2 * Half) <= secs * Second + Half
  BY <1>1, <1>2
<1>4. (secs * Second + Half) % (2 * Half) \in Nat
  BY <1>1, <1>2
<1> QED
  BY <1>1, <1>3, <1>4 DEF Budget

\* No authorisation outlives a day after its approval, its envelope or what the
\* envelope budgets, and nothing it rests on is younger than it.
THEOREM AuthoritiesRunOut == RepairsSpec => []AuthorityRunsOut
<1>1. WellKept => AuthorityRunsOut
  <2> SUFFICES ASSUME WellKept, NEW what \in Considered, MayMutate(what)
               PROVE  /\ clock - The("action").at < Day /\ clock >= The("action").at
                      /\ clock - The("envelope").created < The("envelope").budget * Second
                      /\ \A d \in {"candidate", "governance", "reviewer"} :
                           The("envelope").created <= The(d).at /\ The(d).at <= The("action").at
    BY DEF AuthorityRunsOut
  <2> DEFINE e == The("envelope")
             c == The("candidate")
             g == The("governance")
             v == The("reviewer")
             a == The("action")
  <2>1. /\ {clock, e.created, e.expires, e.budget, a.at, a.expires} \subseteq Nat
        /\ {c.at, g.at, v.at} \subseteq Nat
    BY DEF WellKept, Kept, Sound, The, DocumentNames
  <2>2. InOrder(e, c, g, v, a, clock) /\ e.expires - e.created <= Budget(e.budget)
    BY MutationMeans
  <2>3. Budget(e.budget) <= e.budget * Second /\ Budget(e.budget) \in Int /\ e.budget * Second \in Int
    <3>1. e.budget * Second \in Nat /\ Half \in Nat \ {0}
      BY <2>1, RepairTimes
    <3> QED
      BY <2>1, <3>1, BudgetBounded DEF Budget
  <2> HIDE DEF e, c, g, v, a
  <2>4. clock < e.expires /\ clock - a.at < Day /\ clock >= a.at
    BY <2>1, <2>2, RepairTimes DEF InOrder
  <2>5. clock - e.created < e.budget * Second
    BY <2>1, <2>2, <2>3, <2>4
  <2>6. \A t \in {c.at, g.at, v.at} : e.created <= t /\ t <= a.at
    BY <2>2 DEF InOrder
  <2> QED
    BY <2>4, <2>5, <2>6 DEF e, c, g, v, a
<1> QED
  BY <1>1, RepairsWellKept, PTL

\* Whatever the documents say, nobody gets more than the policy of the repository
\* grants, and a team's merge queue takes only what a human has reviewed.
THEOREM PolicyIsNotWidened == RepairsSpec => []NoDocumentWidensThePolicy
<1>1. WellKept => NoDocumentWidensThePolicy
  <2> SUFFICES ASSUME WellKept PROVE NoDocumentWidensThePolicy
    OBVIOUS
  <2>1. \A q \in {[how |-> "discovery", repo |-> repo], Asked("discovery", wanted, None)} :
          ~EvaluateRepair(policy, q, clock).mutation
    <3>1. ASSUME NEW q, q.how = "discovery" PROVE ~EvaluateRepair(policy, q, clock).mutation
      BY <3>1, GrantedByAll
    <3>2. Asked("discovery", wanted, None).how = "discovery"
      BY AskedOf
    <3>3. [how |-> "discovery", repo |-> repo].how = "discovery"
      OBVIOUS
    <3> QED
      BY <3>1, <3>2, <3>3
  <2>2. ASSUME NEW what \in Considered, MayMutate(what)
        PROVE  /\ what \in Rules.allowed
               /\ (Rules.class = "external" \/ ~Configured(policy, repo)) =>
                    what \in DraftActions /\ The("action").fork = [owner |-> operator, of |-> repo]
               /\ Rules.class = "team" /\ what \in MergeActions =>
                    /\ what = "request_merge_queue"
                    /\ [base |-> base, head |-> The("action").head, human |-> TRUE] \in reviewed
               /\ what = "auto_merge" => Rules.optIn /\ repo \notin OwnRepos
    <3> DEFINE e == The("envelope")
               g == The("governance")
               v == The("reviewer")
               a == The("action")
    <3>1. RepoPolicyValid(Rules) /\ (~Configured(policy, repo) => Rules.class = "external")
      BY <2>2, MutationMeans DEF PolicyValid, Rules, RepoPolicy, Configured
    <3>2. what \in Rules.allowed
      BY <2>2, MutationMeans
    <3>3. ASSUME Rules.class = "external"
          PROVE  what \in DraftActions /\ a.fork = [owner |-> operator, of |-> repo]
      <4>1. g.push = "operator_owned_fork" /\ ForkMatches(e, g, a) /\ a.repo = repo
        BY <2>2, <3>1, <3>3, MutationMeans DEF RepoPolicyValid
      <4>2. e.forkOwner \in {None, operator}
        BY DEF WellKept, Kept, Sound, The, DocumentNames
      <4> QED
        BY <2>2, <3>3, <4>1, <4>2, MutationMeans DEF ForkMatches
    <3>4. ASSUME Rules.class = "team", what \in MergeActions
          PROVE  /\ what = "request_merge_queue"
                 /\ [base |-> base, head |-> a.head, human |-> TRUE] \in reviewed
      <4>1. what = "request_merge_queue" /\ HumanApproved(g, v, a)
        BY <2>2, <3>4, MutationMeans DEF MergeActions
      <4>2. v.subject = <<base, a.head>>
        BY <2>2, MutationMeans DEF WellKept, Kept, Sound, The, DocumentNames
      <4>3. Seen(v) \in reviewed
        BY <2>2, MutationMeans DEF WellKept, The, DocumentNames
      <4>4. Seen(v) = [base |-> base, head |-> a.head, human |-> TRUE]
        <5>1. v.subject[1] = base /\ v.subject[2] = a.head
          BY <4>2
        <5>2. (v.independent /\ ~v.automated) = TRUE
          BY <4>1, Zenon DEF HumanApproved
        <5> HIDE DEF v, a
        <5> QED
          BY <5>1, <5>2, Zenon DEF Seen
      <4> QED
        BY <4>1, <4>3, <4>4
    <3>5. ASSUME what = "auto_merge" PROVE Rules.optIn /\ repo \notin OwnRepos
      <4>1. Rules.class \in {"sole_control", "team", "external"}
        BY <3>1 DEF RepoPolicyValid
      <4>2. Rules.optIn
        BY <2>2, <3>5, <4>1, MutationMeans DEF DraftActions
      <4>3. Configured(policy, repo)
        BY <2>2, <3>1, <3>5, MutationMeans DEF DraftActions
      <4> QED
        BY <2>2, <4>2, <4>3, MutationMeans DEF PolicyValid, Rules, RepoPolicy, Configured
    <3> QED
      BY <3>1, <3>2, <3>3, <3>4, <3>5
  <2> QED
    BY <2>1, <2>2 DEF NoDocumentWidensThePolicy
<1> QED
  BY <1>1, RepairsWellKept, PTL

-----------------------------------------------------------------------------
(* What is proper is granted. *)

\* The action there is was never issued in the future.
IssuedByNow == docs["action"].body.at <= clock

\* What of a chain of documents the checks look at, where each was issued properly
\* and in its turn, of the world as it is.
ProperChain ==
  LET e == The("envelope")
      c == The("candidate")
      g == The("governance")
      v == The("reviewer")
      a == The("action")
  IN /\ \A d \in DocumentNames : docs[d].digest = docs[d].body
     /\ e = Envelope(e.created) /\ c = Candidate(c.at) /\ g = Governance(g.at) /\ v = Review(v.at)
     /\ a = Action(a.at, docs)
     /\ {e.created, c.at, g.at, v.at, a.at, clock} \subseteq Nat
     /\ \A t \in {c.at, g.at, v.at} : e.created <= t /\ t <= a.at
     /\ e.created <= a.at /\ a.at <= clock /\ clock < a.expires

\* What the world must be like for it to be granted.
Grantable ==
  /\ PolicyValid(policy) /\ approved = docs["action"].digest
  /\ checked = head /\ head \in Passing /\ Touches[head] # {} /\ Touches[head] \cap Risky = {}
  /\ wanted \in Rules.allowed /\ (wanted = "auto_merge" => Rules.optIn)

LEMMA ProperBinding ==
  ASSUME ProperChain, Grantable, NEW x
  PROVE  Hold(BindingChecks(Asked("write", wanted, x)), 10)
<1> DEFINE q == Asked("write", wanted, x)
           e == The("envelope")
           c == The("candidate")
           g == The("governance")
           v == The("reviewer")
           a == The("action")
           B == BindingChecks(q)
<1>1. /\ q.repo = repo /\ q.issue = issue /\ q.wanted = wanted /\ q.base = base
      /\ q.approved = {approved} /\ \A d \in DocumentNames : q[d] = docs[d]
  BY AskedOf
<1>2. /\ q.envelope.body = e /\ q.candidate.body = c /\ q.governance.body = g
      /\ q.reviewer.body = v /\ q.action = docs["action"] /\ q.action.body = a
  BY <1>1 DEF The, DocumentNames
<1>3. /\ e.run = run /\ e.repo = repo /\ e.mode = "explicit_issue" /\ e.url = [repo |-> repo, issue |-> issue]
      /\ e.trigger.base = base /\ e.routing.base = base
  BY DEF ProperChain, Envelope, Place
<1>4. c.run = run /\ c.repo = repo /\ c.base = base /\ c.issue = issue
  BY DEF ProperChain, Candidate
<1>5. g.run = run /\ g.repo = repo /\ g.base = base /\ g.head = head
  BY DEF ProperChain, Governance
<1>6. v.run = run
  BY DEF ProperChain, Review
<1>7. /\ a.run = run /\ a.repo = repo /\ a.issue = issue /\ a.base = base /\ a.head = head
      /\ a.action = wanted /\ \A d \in DocumentNames \ {"action"} : a.links[d] = docs[d].digest
  BY DEF ProperChain, Action
<1>8. \A d \in DocumentNames : q[d].digest = q[d].body /\ q[d].body = The(d)
  BY <1>1 DEF ProperChain, The
<1> HIDE DEF q, e, c, g, v, a
<1>9. \A d \in DocumentNames : q[d].body.run = a.run
  BY <1>3, <1>4, <1>5, <1>6, <1>7, <1>8 DEF DocumentNames, e, c, g, v, a
<1>10. /\ B[1][1] = Digested(q) /\ B[2][1] = (q.approved = {q.action.digest})
       /\ B[3][1] = (\A d \in DocumentNames : q[d].body.run = a.run)
       /\ B[4][1] = (\A r \in {q.repo, e.repo, c.repo, g.repo} : r = a.repo)
       /\ B[5][1] = (q.issue = a.issue /\ c.issue = a.issue)
       /\ B[6][1] = (e.mode = "explicit_issue" /\ e.url = [repo |-> a.repo, issue |-> a.issue])
       /\ B[7][1] = (q.wanted = a.action)
       /\ B[8][1] = (\A b \in {q.base, e.trigger.base, e.routing.base, c.base, g.base} : b = a.base)
       /\ B[9][1] = (g.head = a.head)
       /\ B[10][1] = (\A d \in DocumentNames \ {"action"} : a.links[d] = q[d].digest)
  BY <1>2 DEF BindingChecks
<1> HIDE DEF B
<1>11. B[1][1] /\ B[2][1] /\ B[3][1]
  BY <1>1, <1>2, <1>8, <1>9, <1>10 DEF Digested, Grantable
<1>12. B[4][1] /\ B[5][1] /\ B[6][1] /\ B[7][1] /\ B[8][1] /\ B[9][1]
  <2>1. B[4][1]
    <3>1. \A r \in {q.repo, e.repo, c.repo, g.repo} : r = a.repo
      BY <1>1, <1>3, <1>4, <1>5, <1>7
    <3> QED
      BY <3>1, <1>10
  <2>2. B[5][1] /\ B[7][1] /\ B[9][1]
    BY <1>1, <1>4, <1>5, <1>7, <1>10
  <2>3. B[6][1]
    <3>1. e.mode = "explicit_issue" /\ e.url = [repo |-> a.repo, issue |-> a.issue]
      BY <1>3, <1>7
    <3> QED
      BY <3>1, <1>10
  <2>4. B[8][1]
    <3>1. \A b \in {q.base, e.trigger.base, e.routing.base, c.base, g.base} : b = a.base
      BY <1>1, <1>3, <1>4, <1>5, <1>7
    <3> QED
      BY <3>1, <1>10
  <2> QED
    BY <2>1, <2>2, <2>3, <2>4
<1>13. B[10][1]
  BY <1>1, <1>7, <1>10
<1>14. \A i \in 1..10 : i \in {1, 2, 3, 4, 5, 6, 7, 8, 9, 10}
  OBVIOUS
<1>15. Hold(B, 10)
  BY <1>11, <1>12, <1>13, <1>14 DEF Hold
<1> QED
  BY <1>15 DEF B, q

LEMMA ProperPolicy ==
  ASSUME ProperChain, Grantable, NEW x
  PROVE  Hold(PolicyChecks(policy, Asked("write", wanted, x), Rules), 8)
<1> DEFINE q == Asked("write", wanted, x)
           e == The("envelope")
           c == The("candidate")
           g == The("governance")
           a == The("action")
           P == PolicyChecks(policy, q, Rules)
<1>1. q.repo = repo /\ q.paths = Touches[a.head] /\ \A d \in DocumentNames : q[d] = docs[d]
  BY AskedOf DEF The
<1>2. /\ q.envelope.body = e /\ q.candidate.body = c /\ q.governance.body = g
      /\ q.action.body = a
  BY <1>1 DEF The, DocumentNames
<1>3. /\ e.class = Rules.class /\ e.optIn = Rules.optIn /\ e.checks = Rules.checks
      /\ e.pathClasses = Risky /\ e.allowed = Rules.allowed /\ e.denied = ExternalDenials
      /\ e.trigger = e.routing /\ e.branch = branch
      /\ e.forkOwner = IF Forked THEN operator ELSE None
  BY DEF ProperChain, Envelope
<1>4. c.decision = "selected" /\ c.eligible = TRUE /\ c.sensitive = FALSE
  BY DEF ProperChain, Candidate
<1>5. /\ g.class = Rules.class /\ g.push = Rules.push /\ g.mode = Rules.mode
      /\ g.touched = (Touches[head] \cap Risky # {})
      /\ g.sources = {IF Configured(policy, repo) THEN "repository_policy" ELSE "unknown_default"}
  BY DEF ProperChain, Governance
<1>6. /\ a.head = head /\ a.repo = repo /\ a.action = wanted /\ a.branch = branch
      /\ a.fork = IF Forked THEN [owner |-> operator, of |-> repo] ELSE None
  BY DEF ProperChain, Action
<1>7. wanted \in Rules.allowed /\ Touches[head] \cap Risky = {}
  BY DEF Grantable
<1> HIDE DEF q, e, c, g, a
<1>8. /\ P[1][1] = (c.decision = "selected" /\ Eligible(c))
      /\ P[2][1] = (g.touched = (q.paths \cap Risky # {}))
      /\ P[3][1] = ~(q.paths \cap Risky # {})
      /\ P[4][1] = MatchesPolicy(Rules, e, g, a)
      /\ P[5][1] = (g.sources = {IF Configured(policy, q.repo) THEN "repository_policy" ELSE "unknown_default"})
      /\ P[6][1] = (Rules.class = "external" => ExternalDenials \subseteq e.denied)
      /\ P[7][1] = RoutedAlike(e, a)
      /\ P[8][1] = ForkMatches(e, g, a)
  BY <1>2 DEF PolicyChecks
<1> HIDE DEF P
<1>9. P[1][1]
  BY <1>4, <1>8 DEF Eligible
<1>10. P[2][1] /\ P[3][1]
  BY <1>1, <1>5, <1>6, <1>7, <1>8
<1>11. P[4][1]
  <2>1. MatchesPolicy(Rules, e, g, a)
    BY <1>3, <1>5, <1>6, <1>7 DEF MatchesPolicy
  <2> QED
    BY <2>1, <1>8
<1>12. P[5][1] /\ P[6][1]
  BY <1>1, <1>3, <1>5, <1>8
<1>13. P[7][1]
  BY <1>3, <1>6, <1>8 DEF RoutedAlike
<1>14. P[8][1]
  <2>1. ForkMatches(e, g, a)
    BY <1>3, <1>5, <1>6, OperatorAssumption DEF ForkMatches, Forked
  <2> QED
    BY <2>1, <1>8
<1>15. \A i \in 1..8 : i \in {1, 2, 3, 4, 5, 6, 7, 8}
  OBVIOUS
<1>16. Hold(P, 8)
  BY <1>9, <1>10, <1>11, <1>12, <1>13, <1>14, <1>15 DEF Hold
<1> QED
  BY <1>16 DEF P, q

\* What an envelope may be granted for fits into a Duration, so that the budget
\* is what it was meant to be.
LEMMA BudgetFits == Lifetime <= Budget(Lifetime)
<1>1. Lifetime \in Nat /\ Second \in Nat \ {0} /\ Half \in Nat \ {0}
  BY RepairBounds, RepairTimes
<1> DEFINE n == Lifetime * Second
<1>2. n \in Nat /\ Lifetime <= n /\ n < Half
  <2>1. n \in Nat
    BY <1>1
  <2>2. \A k \in Nat, s \in Nat \ {0} : k <= k * s
    OBVIOUS
  <2> QED
    BY <1>1, <2>1, <2>2, LifetimeAssumption
<1> HIDE DEF n
<1>3. (n + Half) % (2 * Half) = n + Half
  <2>1. \A k, m \in Nat : k < m => k % m = k
    OBVIOUS
  <2>2. n + Half \in Nat /\ 2 * Half \in Nat /\ n + Half < 2 * Half
    BY <1>1, <1>2
  <2> QED
    BY <2>1, <2>2
<1>4. Budget(Lifetime) = n
  <2>1. Budget(Lifetime) = ((n + Half) % (2 * Half)) - Half
    BY DEF Budget, n
  <2> QED
    BY <1>1, <1>2, <1>3, <2>1
<1> QED
  BY <1>2, <1>4

LEMMA ProperEvidence ==
  ASSUME ProperChain, Grantable
  PROVE  Hold(EvidenceChecks(Rules, The("envelope"), The("candidate"), The("governance"),
                             The("reviewer"), The("action"), clock), 6)
<1> DEFINE e == The("envelope")
           c == The("candidate")
           g == The("governance")
           v == The("reviewer")
           a == The("action")
           E == EvidenceChecks(Rules, e, c, g, v, a, clock)
<1>1. /\ e.expires = e.created + Lifetime /\ e.budget = Lifetime
  BY DEF ProperChain, Envelope
<1>2. g.checks = Checks /\ a.checks = Checks /\ DOMAIN Checks = Rules.checks
  BY DEF ProperChain, Governance, Action, Checks
<1>3. v.subject = <<base, head>> /\ a.diff = <<base, head>> /\ a.head = head
  BY DEF ProperChain, Review, Action
<1>4. a.expires = Earliest(a.at + Day, e.expires)
  BY DEF ProperChain, Action, The
<1>5. {e.created, c.at, g.at, v.at, a.at, clock} \subseteq Nat
  BY DEF ProperChain
<1>6. /\ \A t \in {c.at, g.at, v.at} : e.created <= t /\ t <= a.at
      /\ e.created <= a.at /\ a.at <= clock /\ clock < a.expires
  BY DEF ProperChain
<1>7. Green(Checks, head)
  BY DEF Grantable, Checks, Green
<1> HIDE DEF e, c, g, v, a
<1>8. /\ E[1][1] = (\A s \in {g.checks, a.checks} : Cardinality(DOMAIN s) = Cardinality(Rules.checks))
      /\ E[2][1] = (Green(g.checks, a.head) /\ Green(a.checks, a.head))
      /\ E[3][1] = (DOMAIN g.checks = Rules.checks /\ DOMAIN a.checks = Rules.checks)
      /\ E[4][1] = (v.subject = a.diff)
      /\ E[5][1] = InOrder(e, c, g, v, a, clock)
      /\ E[6][1] = (e.expires - e.created <= Budget(e.budget))
  BY DEF EvidenceChecks
<1> HIDE DEF E
<1>9. E[1][1] /\ E[2][1] /\ E[3][1] /\ E[4][1]
  <2>1. \A s \in {g.checks, a.checks} : Cardinality(DOMAIN s) = Cardinality(Rules.checks)
    BY <1>2
  <2> QED
    BY <2>1, <1>2, <1>3, <1>7, <1>8
<1>10. E[5][1]
  <2>1. Day \in Nat \ {0} /\ Lifetime \in Nat
    BY RepairTimes, RepairBounds
  <2>2. e.expires \in Nat /\ a.at + Day \in Nat
    BY <1>1, <1>5, <2>1
  <2>3. a.expires \in Nat /\ a.expires <= a.at + Day /\ a.expires <= e.expires
    BY <1>4, <2>2 DEF Earliest
  <2>4. /\ e.created <= clock /\ clock < a.expires /\ a.expires <= e.expires
        /\ a.at < a.expires /\ a.expires - a.at <= Day
    BY <1>5, <1>6, <2>1, <2>2, <2>3
  <2>5. InOrder(e, c, g, v, a, clock)
    BY <1>6, <2>4 DEF InOrder
  <2> QED
    BY <2>5, <1>8
<1>11. E[6][1]
  <2>1. e.expires - e.created = Lifetime
    BY <1>1, <1>5, RepairBounds
  <2> QED
    BY <2>1, <1>1, <1>8, BudgetFits
<1>12. \A i \in 1..6 : i \in {1, 2, 3, 4, 5, 6}
  OBVIOUS
<1>13. Hold(E, 6)
  BY <1>9, <1>10, <1>11, <1>12 DEF Hold
<1> QED
  BY <1>13 DEF E, e, c, g, v, a

\* How a repair is merged that is governed properly.
LEMMA ProperMerge ==
  /\ wanted = "request_merge_queue" => Merging = MergeTerms(TRUE, "merge_queue", "codeowner", head, FALSE)
  /\ wanted = "auto_merge" => Merging = MergeTerms(TRUE, "auto_merge", "none", None, TRUE)
  /\ wanted \notin MergeActions => Merging = Unmerged
<1>1. CASE wanted = "request_merge_queue"
  BY <1>1 DEF MergeActions, Merging
<1>2. CASE wanted = "auto_merge"
  BY <1>2 DEF MergeActions, Merging
<1>3. CASE wanted \notin MergeActions
  <2>1. wanted # "request_merge_queue" /\ wanted # "auto_merge"
    BY <1>3 DEF MergeActions
  <2> QED
    BY <2>1 DEF Merging
<1> QED
  BY <1>1, <1>2, <1>3 DEF MergeActions

\* ... in terms that are what they say.
LEMMA ProperTerms ==
  /\ wanted = "request_merge_queue" =>
       Merging.mode = "merge_queue" /\ Merging.approval = "codeowner" /\ Merging.head = head
  /\ wanted = "auto_merge" => Merging.mode = "auto_merge" /\ Merging.optIn = TRUE
  /\ Merging.authorized = (Merging.mode # "never")
<1>1. CASE wanted = "request_merge_queue"
  <2>1. Merging = [authorized |-> TRUE, mode |-> "merge_queue", approval |-> "codeowner", head |-> head,
                  optIn |-> FALSE]
    BY <1>1, ProperMerge DEF MergeTerms
  <2>2. /\ Merging.authorized = TRUE /\ Merging.mode = "merge_queue" /\ Merging.approval = "codeowner"
        /\ Merging.head = head
    BY <2>1
  <2> QED
    BY <1>1, <2>2
<1>2. CASE wanted = "auto_merge"
  <2>1. Merging = [authorized |-> TRUE, mode |-> "auto_merge", approval |-> "none", head |-> None,
                  optIn |-> TRUE]
    BY <1>2, ProperMerge DEF MergeTerms
  <2>2. Merging.authorized = TRUE /\ Merging.mode = "auto_merge" /\ Merging.optIn = TRUE
    BY <2>1
  <2> QED
    BY <1>2, <2>2
<1>3. CASE wanted \notin MergeActions
  <2>1. Merging = [authorized |-> FALSE, mode |-> "never", approval |-> "none", head |-> None,
                  optIn |-> FALSE]
    BY <1>3, ProperMerge DEF Unmerged
  <2>2. Merging.authorized = FALSE /\ Merging.mode = "never"
    BY <2>1
  <2> QED
    BY <1>3, <2>2 DEF MergeActions
<1> QED
  BY <1>1, <1>2, <1>3 DEF MergeActions

LEMMA ProperActionClass ==
  ASSUME ProperChain, Grantable
  PROVE  Hold(ActionClassChecks(Rules, The("governance"), The("reviewer"), The("action")), 6)
<1> DEFINE g == The("governance")
           v == The("reviewer")
           a == The("action")
           C == ActionClassChecks(Rules, g, v, a)
<1>1. g.head = head /\ g.merge = Merging
  BY DEF ProperChain, Governance
<1>2. v.independent = TRUE /\ v.automated = FALSE /\ v.gate = TRUE
  BY DEF ProperChain, Review
<1>3. a.action = wanted /\ a.head = head
  BY DEF ProperChain, Action
<1>4. RepoPolicyValid(Rules)
  BY DEF Grantable, PolicyValid, Rules, RepoPolicy, Configured
<1>5. wanted \in Rules.allowed /\ (wanted = "auto_merge" => Rules.optIn)
  BY DEF Grantable
<1> HIDE DEF g, v, a
<1>6. /\ C[1][1] = (a.action = "request_merge_queue" => g.merge.mode = "merge_queue")
      /\ C[2][1] = (a.action \notin MergeActions => g.merge = Unmerged)
      /\ C[3][1] = (Rules.class = "external" => a.action \in DraftActions /\ g.merge = Unmerged)
      /\ C[4][1] = (Rules.class = "team" => a.action # "auto_merge")
      /\ C[5][1] = (Rules.class = "team" /\ a.action = "request_merge_queue" => HumanApproved(g, v, a))
      /\ C[6][1] = (Rules.class = "sole_control" /\ a.action = "auto_merge" =>
                      Rules.optIn /\ g.merge.mode = "auto_merge" /\ g.merge.optIn)
  BY DEF ActionClassChecks
<1> HIDE DEF C
<1>7. C[1][1]
  BY <1>1, <1>3, <1>6, ProperTerms
<1>8. C[2][1]
  BY <1>1, <1>3, <1>6, ProperMerge
<1>9. C[3][1]
  <2>1. Rules.class = "external" => wanted \in DraftActions /\ wanted \notin MergeActions
    BY <1>4, <1>5 DEF RepoPolicyValid, DraftActions, MergeActions
  <2> QED
    BY <2>1, <1>1, <1>3, <1>6, ProperMerge
<1>10. C[4][1]
  BY <1>3, <1>4, <1>5, <1>6 DEF RepoPolicyValid
<1>11. C[5][1]
  <2>1. wanted = "request_merge_queue" => HumanApproved(g, v, a)
    BY <1>1, <1>2, <1>3, ProperTerms DEF HumanApproved
  <2> QED
    BY <2>1, <1>3, <1>6
<1>12. C[6][1]
  BY <1>1, <1>3, <1>5, <1>6, ProperTerms
<1>13. \A i \in 1..6 : i \in {1, 2, 3, 4, 5, 6}
  OBVIOUS
<1>14. Hold(C, 6)
  BY <1>7, <1>8, <1>9, <1>10, <1>11, <1>12, <1>13 DEF Hold
<1> QED
  BY <1>14 DEF C, g, v, a

\* What is written properly has the form the schema and the code ask for.
LEMMA ProperShape ==
  ASSUME ProperChain, Grantable, NEW x
  PROVE  SchemaValid(Asked("write", wanted, x)) /\ WellShaped(Asked("write", wanted, x))
<1> DEFINE q == Asked("write", wanted, x)
           g == The("governance")
           v == The("reviewer")
           a == The("action")
<1>1. \A d \in DocumentNames : q[d] = docs[d]
  BY AskedOf
<1>2. q.governance.body = g /\ q.reviewer.body = v /\ q.action.body = a
  BY <1>1 DEF The, DocumentNames
<1>3. g.merge.authorized = (g.merge.mode # "never")
  <2>1. g.merge = Merging
    BY DEF ProperChain, Governance
  <2> HIDE DEF g
  <2> QED
    BY <2>1, ProperTerms
<1>4. v.gate = TRUE /\ v.independent = TRUE
  BY DEF ProperChain, Review
<1>5. \A n \in DOMAIN a.checks : a.checks[n].conclusion = "success"
  BY DEF ProperChain, Action, Checks, Grantable
<1>7. q.paths # {}
  <2>1. q.paths = Touches[a.head]
    BY AskedOf DEF The
  <2>2. a.head = head
    BY DEF ProperChain, Action
  <2> QED
    BY <2>1, <2>2 DEF Grantable
<1> HIDE DEF q, g, v, a
<1>6. SchemaValid(q) /\ WellShaped(q)
  BY <1>2, <1>3, <1>4, <1>5, <1>7 DEF SchemaValid, WellShaped
<1> QED
  BY <1>6 DEF q

LEMMA ProperIsGranted ==
  ASSUME ProperChain, Grantable, NEW x \in {None, Rules.class}
  PROVE  EvaluateRepair(policy, Asked("write", wanted, x), clock).authorized
<1> DEFINE q == Asked("write", wanted, x)
<1>1. q.how = "write" /\ q.repo = repo /\ q.approved = {approved} /\ q.assertion = x
  BY AskedOf DEF Asked
<1>2. \A d \in DocumentNames : q[d] = docs[d]
  BY AskedOf
<1>3. EachHolds(policy, q, clock)
  <2>1. RepoPolicy(policy, q.repo) = Rules
    BY <1>1 DEF Rules
  <2>2. /\ q.envelope.body = The("envelope") /\ q.candidate.body = The("candidate")
        /\ q.governance.body = The("governance") /\ q.reviewer.body = The("reviewer")
        /\ q.action.body = The("action")
    BY <1>2 DEF The, DocumentNames
  <2>3. Hold(BindingChecks(q), 10) /\ Hold(PolicyChecks(policy, q, Rules), 8)
    BY ProperBinding, ProperPolicy
  <2> HIDE DEF q
  <2> QED
    BY <2>1, <2>2, <2>3, ProperEvidence, ProperActionClass DEF EachHolds
<1>4. SchemaValid(q) /\ WellShaped(q)
  BY ProperShape
<1>5. PolicyValid(policy) /\ RepoPolicy(policy, q.repo).class = Rules.class
  BY <1>1 DEF Grantable, Rules
<1> HIDE DEF q
<1>6. Refusals(AuthorityChecks(policy, q, clock)) = {}
  BY <1>3, EachListHolds
<1>7. q.how # "discovery" /\ q.approved # {} /\ q.assertion \in {None, Rules.class}
  BY <1>1
<1>8. EvaluateRepair(policy, q, clock) = Granted(TRUE)
  BY <1>4, <1>5, <1>6, <1>7 DEF EvaluateRepair
<1>9. EvaluateRepair(policy, q, clock).authorized
  BY <1>8 DEF Granted
<1> QED
  BY <1>9 DEF q

\* Time passes, and what is issued is issued now.
LEMMA RepairsIssuedByNow == RepairsSpec => []IssuedByNow
<1>1. RepairsInit => IssuedByNow
  <2> SUFFICES ASSUME RepairsInit PROVE IssuedByNow
    OBVIOUS
  <2>1. PICK four : docs = Chain(four, Signed(Action(0, four)))
    BY DEF RepairsInit
  <2>2. docs["action"].body.at = 0
    BY <2>1 DEF Chain, DocumentNames, Signed, Action
  <2> QED
    BY <2>2 DEF RepairsInit, IssuedByNow
<1>2. WellKept /\ IssuedByNow /\ [RepairsNext]_repairVars => IssuedByNow'
  <2> SUFFICES ASSUME WellKept, IssuedByNow, [RepairsNext]_repairVars PROVE IssuedByNow'
    OBVIOUS
  <2>1. clock \in Nat /\ docs["action"].body.at \in Nat /\ docs["action"].body.at <= clock
    BY DEF WellKept, Kept, Sound, IssuedByNow, DocumentNames
  <2>2. docs = [d \in DocumentNames |-> docs[d]]
    BY DEF WellKept
  <2>3. CASE Reissue
    <3>1. clock' = clock
      BY <2>3 DEF Reissue
    <3>2. PICK four : docs'["action"] \in {Signed(Action(clock, four)), docs["action"]}
      BY <2>3 DEF Reissue, Chain, DocumentNames
    <3>3. Signed(Action(clock, four)).body.at = clock
      BY DEF Signed, Action
    <3> QED
      BY <2>1, <3>1, <3>2, <3>3 DEF IssuedByNow
  <2>4. ASSUME NEW d \in DocumentNames, Slip(d) PROVE IssuedByNow'
    <3>1. clock' = clock
      BY <2>4 DEF Slip
    <3>2. PICK b \in Improper(d) : docs' = [docs EXCEPT ![d] = Signed(b)]
      BY <2>4 DEF Slip, Put
    <3>3. CASE d # "action"
      <4>1. docs'["action"] = docs["action"]
        BY <2>2, <3>2, <3>3
      <4> QED
        BY <2>1, <3>1, <4>1 DEF IssuedByNow
    <3>4. CASE d = "action"
      <4>1. docs'["action"] = Signed(b)
        BY <2>2, <3>2, <3>4
      <4>2. b.at = clock
        <5>1. {"at", "expires", "action", "fork"} \subseteq DOMAIN Proper(d, clock) /\ Proper(d, clock).at = clock
          BY <3>4 DEF Proper, Action
        <5> QED
          BY <3>2, <3>4, <5>1 DEF Improper
      <4> QED
        BY <2>1, <3>1, <4>1, <4>2 DEF IssuedByNow, Signed
    <3> QED
      BY <3>3, <3>4
  <2>5. ASSUME NEW d \in DocumentNames, Edit(d) PROVE IssuedByNow'
    <3>1. clock' = clock /\ docs' = [docs EXCEPT ![d].body = Proper(d, clock)]
      BY <2>5 DEF Edit
    <3>2. CASE d # "action"
      <4>1. docs'["action"] = docs["action"]
        BY <2>2, <3>1, <3>2
      <4> QED
        BY <2>1, <3>1, <4>1 DEF IssuedByNow
    <3>3. CASE d = "action"
      <4>1. docs["action"] = [body |-> docs["action"].body, digest |-> docs["action"].digest]
        BY DEF WellKept, Kept, DocumentNames
      <4>2. docs'["action"].body = Proper(d, clock)
        BY <2>2, <3>1, <3>3, <4>1
      <4>3. Proper(d, clock).at = clock
        BY <3>3 DEF Proper, Action
      <4> QED
        BY <2>1, <3>1, <4>2, <4>3 DEF IssuedByNow
    <3> QED
      BY <3>2, <3>3
  <2>6. CASE Elapse
    BY <2>1, <2>6 DEF Elapse, IssuedByNow
  <2>7. CASE ApproveAction \/ Move \/ RunChecks \/ UNCHANGED repairVars
    BY <2>1, <2>7 DEF ApproveAction, Move, RunChecks, repairVars, IssuedByNow
  <2> QED
    BY <2>3, <2>4, <2>5, <2>6, <2>7 DEF RepairsNext
<1> QED
  BY <1>1, <1>2, RepairsWellKept, PTL DEF RepairsSpec

\* What its issuers wrote properly, each of the world as it is and one after the
\* other, is authorised until it runs out: no check contradicts another, and the
\* budget of an envelope is never less than its lifetime.
THEOREM ProperChainsAreAuthorized == RepairsSpec => []ProperChainIsAuthorized
<1>1. WellKept /\ IssuedByNow => ProperChainIsAuthorized
  <2> DEFINE at == [d \in DocumentNames |-> IF d = "envelope" THEN The(d).created ELSE The(d).at]
  <2> SUFFICES ASSUME WellKept, IssuedByNow,
                      PolicyValid(policy) /\ approved = docs["action"].digest,
                      \A d \in DocumentNames : docs[d] = Signed(Proper(d, at[d])),
                      \A d \in DocumentNames : at["envelope"] <= at[d] /\ at[d] <= at["action"],
                      checked = head /\ head \in Passing,
                      Touches[head] # {} /\ Touches[head] \cap Risky = {},
                      clock < The("action").expires,
                      wanted \in Rules.allowed /\ (wanted = "auto_merge" => Rules.optIn),
                      NEW x \in {None, Rules.class}
               PROVE  EvaluateRepair(policy, Asked("write", wanted, x), clock).authorized
    BY DEF ProperChainIsAuthorized
  <2>1. Grantable
    BY DEF Grantable
  <2>2. /\ at["envelope"] = The("envelope").created /\ at["candidate"] = The("candidate").at
        /\ at["governance"] = The("governance").at /\ at["reviewer"] = The("reviewer").at
        /\ at["action"] = The("action").at
    BY DEF DocumentNames
  <2> HIDE DEF at
  <2>3. \A d \in DocumentNames : docs[d].body = Proper(d, at[d]) /\ docs[d].digest = docs[d].body
    <3>1. ASSUME NEW d \in DocumentNames
          PROVE  docs[d].body = Proper(d, at[d]) /\ docs[d].digest = docs[d].body
      <4>1. docs[d] = Signed(Proper(d, at[d]))
        OBVIOUS
      <4>2. docs[d] = [body |-> Proper(d, at[d]), digest |-> Proper(d, at[d])]
        BY <4>1 DEF Signed
      <4> QED
        BY <4>2
    <3> QED
      BY <3>1
  <2>4. /\ The("envelope") = Envelope(The("envelope").created) /\ The("candidate") = Candidate(The("candidate").at)
        /\ The("governance") = Governance(The("governance").at) /\ The("reviewer") = Review(The("reviewer").at)
        /\ The("action") = Action(The("action").at, docs)
    <3>1. /\ The("envelope") = Proper("envelope", at["envelope"])
          /\ The("candidate") = Proper("candidate", at["candidate"])
          /\ The("governance") = Proper("governance", at["governance"])
          /\ The("reviewer") = Proper("reviewer", at["reviewer"])
          /\ The("action") = Proper("action", at["action"])
      BY <2>3 DEF DocumentNames, The
    <3> QED
      BY <2>2, <3>1 DEF Proper
  <2>5. {The("envelope").created, The("candidate").at, The("governance").at, The("reviewer").at,
         The("action").at, clock} \subseteq Nat
    BY DEF WellKept, Kept, Sound, The, DocumentNames
  <2>6. /\ \A t \in {The("candidate").at, The("governance").at, The("reviewer").at} :
              The("envelope").created <= t /\ t <= The("action").at
        /\ The("envelope").created <= The("action").at
    BY <2>2 DEF DocumentNames
  <2>7. The("action").at <= clock
    BY DEF IssuedByNow, The
  <2>8. ProperChain
    BY <2>3, <2>4, <2>5, <2>6, <2>7 DEF ProperChain
  <2> QED
    BY <2>1, <2>8, ProperIsGranted
<1> QED
  BY <1>1, RepairsWellKept, RepairsIssuedByNow, PTL
=============================================================================
