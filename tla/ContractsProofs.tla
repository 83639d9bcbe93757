-------------------------- MODULE ContractsProofs ---------------------------
(***************************************************************************)
(* What attaching and revoking tickets and the passing of time may do to   *)
(* the decisions about a contract, what compiling into a pair of files     *)
(* leaves there, and what lint, compile and run agree on, for every brief, *)
(* contract and number of tickets and commands.                            *)
(***************************************************************************)
EXTENDS Approvals, OutputPair, Authoring, PolicyProofs

-----------------------------------------------------------------------------
(* Types. *)

Typed == now \in Nat /\ contract \in Contracts

\* A ticket replaces another in its place (contract_binding.go:32-47).
LEMMA ReplacedInPlace ==
  ASSUME NEW A \in Seq(Tickets), NEW k \in Tickets, \E i \in DOMAIN A : A[i].id = k.id
  PROVE  /\ AppendOrReplace(A, k) \in Seq(Tickets)
         /\ DOMAIN AppendOrReplace(A, k) = DOMAIN A
         /\ \A i \in DOMAIN A :
              AppendOrReplace(A, k)[i] = IF A[i].id = k.id THEN k ELSE A[i]
<1> DEFINE B == [i \in DOMAIN A |-> IF A[i].id = k.id THEN k ELSE A[i]]
<1>1. AppendOrReplace(A, k) = B
  BY DEF AppendOrReplace
<1>2. DOMAIN A = 1..Len(A) /\ \A i \in DOMAIN A : A[i] \in Tickets
  OBVIOUS
<1>3. B \in [1..Len(A) -> Tickets]
  BY <1>2
<1>4. B \in Seq(Tickets)
  BY <1>3
<1> QED
  BY <1>1, <1>4

\* A ticket under a new id goes to the end (contract_binding.go:32-47).
LEMMA AppendedAtTheEnd ==
  ASSUME NEW A \in Seq(Tickets), NEW k \in Tickets, ~(\E i \in DOMAIN A : A[i].id = k.id)
  PROVE  /\ AppendOrReplace(A, k) \in Seq(Tickets)
         /\ DOMAIN AppendOrReplace(A, k) = DOMAIN A \cup {Len(A) + 1}
         /\ \A i \in DOMAIN A : AppendOrReplace(A, k)[i] = A[i]
         /\ AppendOrReplace(A, k)[Len(A) + 1] = k
<1>1. AppendOrReplace(A, k) = Append(A, k)
  BY DEF AppendOrReplace
<1> QED
  BY <1>1

\* What approvals create can produce is a ticket.
LEMMA CreatableAreTickets == Creatable \subseteq Tickets
<1>1. TaskIds(Draft) \subseteq Nat
  BY DraftAssumption DEF Contracts, TaskIds
<1>2. ASSUME NEW k \in Creatable PROVE k \in Tickets
  <2>1. k \in [id : TicketIds, task : TaskIds(Draft), effect : Effects, approved : BOOLEAN,
              expires : (0..MaxTime) \cup {Never}, reason : Reasons]
    BY DEF Creatable
  <2> QED
    BY <1>1, <2>1 DEF Tickets, Expiries
<1> QED
  BY <1>2

\* No step leaves the types.
LEMMA TypesKept == Typed /\ [TicketsNext]_ticketVars => Typed'
<1> SUFFICES ASSUME Typed, [TicketsNext]_ticketVars PROVE Typed'
  OBVIOUS
<1>1. ASSUME NEW k \in Creatable, Attach(k) PROVE Typed'
  <2>1. k \in Tickets
    BY CreatableAreTickets
  <2>2. AppendOrReplace(contract.approvals, k) \in Seq(Tickets)
    <3>1. contract.approvals \in Seq(Tickets)
      BY DEF Typed, Contracts
    <3> QED
      BY <2>1, <3>1, ReplacedInPlace, AppendedAtTheEnd
  <2>3. Updated(contract, k) \in Contracts
    BY <2>2 DEF Updated, Typed, Contracts
  <2> QED
    BY <1>1, <2>3 DEF Attach, Typed
<1>2. ASSUME NEW id, RevokeAppend(id) \/ RevokeAnew(id) PROVE Typed'
  BY <1>2 DEF RevokeAppend, RevokeAnew, Typed
<1>3. CASE Tick \/ UNCHANGED ticketVars
  BY <1>3 DEF Tick, ticketVars, Typed
<1> QED
  BY <1>1, <1>2, <1>3 DEF TicketsNext

-----------------------------------------------------------------------------
(* What a ticket does to the one that decides. *)

Matches(k, t, e) == k.task = t /\ k.effect = e /\ k.approved

\* After a ticket was attached the side effect is decided by it or by the ticket
\* that decided before.  It cannot be decided by the new one, or by none, unless
\* the new one matches or has taken the place of the one before.
LEMMA DeciderAfterAttach ==
  ASSUME NEW c, c.approvals \in Seq(Tickets), NEW k \in Tickets, NEW d,
         d.approvals = AppendOrReplace(c.approvals, k), NEW t, NEW e
  PROVE  /\ Matching(c, t, e) = {} /\ Matching(d, t, e) # {} =>
              FirstMatching(d, t, e) = k /\ Matches(k, t, e)
         /\ Matching(c, t, e) # {} /\ k.id # FirstMatching(c, t, e).id =>
              /\ Matching(d, t, e) # {}
              /\ \/ FirstMatching(d, t, e) = FirstMatching(c, t, e)
                 \/ /\ FirstMatching(d, t, e) = k /\ Matches(k, t, e)
                    /\ \E i \in DOMAIN c.approvals : c.approvals[i].id = k.id
<1> DEFINE A == c.approvals
           B == d.approvals
           M == Matching(c, t, e)
           N == Matching(d, t, e)
<1>1. A \in Seq(Tickets) /\ B = AppendOrReplace(A, k)
  OBVIOUS
<1>2. /\ \A i : i \in M <=> i \in DOMAIN A /\ Matches(A[i], t, e)
      /\ \A i : i \in N <=> i \in DOMAIN B /\ Matches(B[i], t, e)
  BY DEF Matching, Matches
<1>3. DOMAIN A \subseteq Nat /\ DOMAIN B \subseteq Nat =>
        /\ N # {} => \E i \in N : FirstMatching(d, t, e) = B[i] /\ \A j \in N : i <= j
        /\ M # {} => \E i \in M : FirstMatching(c, t, e) = A[i] /\ \A j \in M : i <= j
  BY FirstMatchingStandsFirst
<1> HIDE DEF A, B, M, N
<1>4. B \in Seq(Tickets)
  BY <1>1, ReplacedInPlace, AppendedAtTheEnd
<1>5. DOMAIN A = 1..Len(A) /\ DOMAIN A \subseteq Nat /\ DOMAIN B \subseteq Nat /\ Len(A) \in Nat
  BY <1>1, <1>4
<1>6. /\ \A i \in DOMAIN A : i \in DOMAIN B /\ (B[i] = A[i] \/ (B[i] = k /\ A[i].id = k.id))
      /\ \A i \in DOMAIN B : i \in DOMAIN A \/ (B[i] = k /\ i = Len(A) + 1)
  <2>1. CASE \E i \in DOMAIN A : A[i].id = k.id
    <3>1. DOMAIN B = DOMAIN A
      BY <1>1, <2>1, ReplacedInPlace
    <3>2. \A i \in DOMAIN A : B[i] = IF A[i].id = k.id THEN k ELSE A[i]
      BY <1>1, <2>1, ReplacedInPlace
    <3> QED
      BY <3>1, <3>2
  <2>2. CASE ~(\E i \in DOMAIN A : A[i].id = k.id)
    <3>1. DOMAIN B = DOMAIN A \cup {Len(A) + 1}
      BY <1>1, <2>2, AppendedAtTheEnd
    <3>2. (\A i \in DOMAIN A : B[i] = A[i]) /\ B[Len(A) + 1] = k
      BY <1>1, <2>2, AppendedAtTheEnd
    <3> QED
      BY <3>1, <3>2
  <2> QED
    BY <2>1, <2>2
<1>7. \A i \in DOMAIN B : B[i] = k \/ (i \in DOMAIN A /\ B[i] = A[i])
  BY <1>6
<1>8. ASSUME M = {}, N # {} PROVE FirstMatching(d, t, e) = k /\ Matches(k, t, e)
  <2>1. PICK i \in N : FirstMatching(d, t, e) = B[i]
    BY <1>3, <1>5, <1>8
  <2>2. i \in DOMAIN B /\ Matches(B[i], t, e)
    BY <1>2
  <2>3. B[i] = k
    BY <1>2, <1>7, <1>8, <2>2
  <2> QED
    BY <2>1, <2>2, <2>3
<1>9. ASSUME M # {}, k.id # FirstMatching(c, t, e).id
       PROVE  /\ N # {}
              /\ \/ FirstMatching(d, t, e) = FirstMatching(c, t, e)
                 \/ /\ FirstMatching(d, t, e) = k /\ Matches(k, t, e)
                    /\ \E i \in DOMAIN A : A[i].id = k.id
  <2>1. PICK i \in M : FirstMatching(c, t, e) = A[i] /\ \A j \in M : i <= j
    BY <1>3, <1>5, <1>9
  <2>2. i \in DOMAIN A /\ Matches(A[i], t, e) /\ B[i] = A[i] /\ i \in N
    BY <1>2, <1>6, <1>9, <2>1
  <2>3. PICK f \in N : FirstMatching(d, t, e) = B[f] /\ \A j \in N : f <= j
    BY <1>3, <1>5, <2>2
  <2>4. f \in DOMAIN B /\ Matches(B[f], t, e) /\ f <= i
    BY <1>2, <2>2, <2>3
  <2>5. f \in DOMAIN A
    BY <1>5, <1>6, <2>2, <2>4
  <2>6. CASE B[f] = A[f]
    <3>1. f \in M
      BY <1>2, <2>4, <2>5, <2>6
    <3>2. f = i
      BY <1>5, <2>1, <2>2, <2>4, <2>5, <3>1
    <3> QED
      BY <2>1, <2>2, <2>3, <3>2
  <2>7. CASE B[f] = k /\ A[f].id = k.id
    BY <2>2, <2>3, <2>4, <2>5, <2>7
  <2> QED
    BY <1>6, <2>5, <2>6, <2>7
<1> QED
  BY <1>8, <1>9 DEF A, M, N

-----------------------------------------------------------------------------
(* What a decision depends on. *)

Sufficient(k, e) == e = [type |-> "claim.publish", res |-> FullRSI] => k.reason = "full"

Grants(k, e, time, revokedIds) ==
  TicketStatus(k, time) = "valid" /\ k.id \notin revokedIds /\ Sufficient(k, e)

\* The first ticket that matches decides alone (evaluator.go:32-99).
LEMMA DecidedByTheFirst ==
  ASSUME NEW c, NEW t, NEW e, NEW time, NEW revokedIds, e.type \in TicketTypes
  PROVE  EvaluateAction(c, t, e, time, revokedIds).verdict = "allow" <=>
           Matching(c, t, e) # {} /\ Grants(FirstMatching(c, t, e), e, time, revokedIds)
<1>1. EvaluateAction(c, t, e, time, revokedIds) = TicketVerdict(c, t, e, time, revokedIds)
  BY DEF EvaluateAction, TicketTypes
<1>2. CASE Matching(c, t, e) = {}
  BY <1>1, <1>2 DEF TicketVerdict, Deny
<1>3. CASE Matching(c, t, e) # {}
  BY <1>1, <1>3 DEF TicketVerdict, Allow, Deny, Grants, Sufficient
<1> QED
  BY <1>2, <1>3

\* The side effects in question are of the kinds that need a ticket.
LEMMA TicketedType == \A x \in Ticketed : x[2].type \in TicketTypes
  BY DEF Ticketed

\* A ticket that is in force later was in force before.
LEMMA ValidEarlier ==
  ASSUME NEW k \in Tickets, NEW before \in Nat, NEW after \in Nat, before <= after,
         TicketStatus(k, after) = "valid"
  PROVE  TicketStatus(k, before) = "valid"
<1>1. k.expires \in Nat \cup {Never, Garbled}
  BY DEF Tickets, Expiries
<1>2. CASE k.expires = Never \/ k.expires = Garbled
  BY <1>2 DEF TicketStatus
<1>3. CASE k.expires # Never /\ k.expires # Garbled
  BY <1>1, <1>3 DEF TicketStatus
<1> QED
  BY <1>2, <1>3

\* A ticket that was valid and no longer is has run out.
LEMMA ValidInForce ==
  ASSUME NEW k, NEW t1, NEW t2, TicketStatus(k, t1) = "valid"
  PROVE  TicketStatus(k, t2) # "valid" => ~InForce(k, t2)
  BY DEF TicketStatus, InForce

-----------------------------------------------------------------------------
(* The properties. *)

\* One step takes an allowed side effect away only when its deciding ticket runs
\* out, is revoked or is replaced, or one before it is replaced by one that matches.
LEMMA AllowLostStep ==
  ASSUME Typed, [TicketsNext]_ticketVars, NEW x \in Ticketed,
         Allowed(x[1], x[2]), ~Allowed(x[1], x[2])'
  PROVE  LET k == FirstMatching(contract, x[1], x[2]) IN
         \/ ~InForce(k, now')
         \/ k.id \in Revoked'
         \/ /\ contract' # contract
            /\ \/ attached'[1].id = k.id
               \/ /\ attached'[1].task = x[1] /\ attached'[1].effect = x[2]
                  /\ \E i \in DOMAIN contract.approvals :
                       contract.approvals[i].id = attached'[1].id
<1> DEFINE t == x[1]
           e == x[2]
           k == FirstMatching(contract, t, e)
<1>1. e.type \in TicketTypes
  BY TicketedType
<1>2. Matching(contract, t, e) # {} /\ Grants(k, e, now, Revoked)
  BY <1>1, DecidedByTheFirst DEF Allowed
<1>3. ~(Matching(contract', t, e) # {} /\ Grants(FirstMatching(contract', t, e), e, now', Revoked'))
  BY <1>1, DecidedByTheFirst DEF Allowed
<1>4. CASE contract' = contract
  <2>1. ~Grants(k, e, now', Revoked')
    BY <1>2, <1>3, <1>4
  <2>2. TicketStatus(k, now') # "valid" => ~InForce(k, now')
    BY <1>2, ValidInForce DEF Grants
  <2> QED
    BY <1>2, <2>1, <2>2 DEF Grants
<1>5. CASE contract' # contract
  <2>1. PICK new \in Creatable : Attach(new)
    BY <1>5 DEF TicketsNext, ticketVars, RevokeAppend, RevokeAnew, Tick
  <2>2. /\ attached'[1] = new /\ now' = now /\ Revoked' = Revoked
        /\ contract'.approvals = AppendOrReplace(contract.approvals, new)
    <3>1. contract' = Updated(contract, new) /\ attached' = <<new>> /\ list' = list /\ now' = now
      BY <2>1 DEF Attach
    <3> QED
      BY <3>1 DEF Revoked, Updated, Typed, Contracts
  <2>3. contract.approvals \in Seq(Tickets) /\ new \in Tickets
    BY CreatableAreTickets DEF Typed, Contracts
  <2>4. CASE new.id = k.id
    BY <1>5, <2>2, <2>4
  <2>5. CASE new.id # k.id
    <3>1. /\ Matching(contract', t, e) # {}
          /\ \/ FirstMatching(contract', t, e) = k
             \/ /\ Matches(new, t, e)
                /\ \E i \in DOMAIN contract.approvals : contract.approvals[i].id = new.id
      BY <1>2, <2>2, <2>3, <2>5, DeciderAfterAttach
    <3>2. FirstMatching(contract', t, e) # k
      BY <1>2, <1>3, <2>2, <3>1 DEF Grants
    <3> QED
      BY <1>5, <2>2, <3>1, <3>2 DEF Matches
  <2> QED
    BY <2>4, <2>5
<1> QED
  BY <1>4, <1>5

\* One step allows a denied side effect only when a list is started anew, or the
\* ticket attached is approved, for it, in force and not revoked, or replaces the
\* ticket that stood in the way.
LEMMA AllowGainedStep ==
  ASSUME Typed, [TicketsNext]_ticketVars, NEW x \in Ticketed,
         ~Allowed(x[1], x[2]), Allowed(x[1], x[2])'
  PROVE  \/ ~(Revoked \subseteq Revoked')
         \/ /\ contract' # contract
            /\ LET k == attached'[1] IN
               \/ /\ k.task = x[1] /\ k.effect = x[2] /\ k.approved
                  /\ InForce(k, now) /\ k.id \notin Revoked
               \/ /\ Matching(contract, x[1], x[2]) # {}
                  /\ k.id = FirstMatching(contract, x[1], x[2]).id
<1> DEFINE t == x[1]
           e == x[2]
           k == FirstMatching(contract, t, e)
           j == FirstMatching(contract', t, e)
<1>1. e.type \in TicketTypes
  BY TicketedType
<1>2. ~(Matching(contract, t, e) # {} /\ Grants(k, e, now, Revoked))
  BY <1>1, DecidedByTheFirst DEF Allowed
<1>3. Matching(contract', t, e) # {} /\ Grants(j, e, now', Revoked')
  BY <1>1, DecidedByTheFirst DEF Allowed
<1>4. CASE contract' = contract
  <2>1. k \in Tickets /\ now \in Nat /\ now' \in Nat /\ now <= now'
    <3>1. now \in Nat /\ (now' = now \/ now' = now + 1)
      BY DEF Typed, TicketsNext, ticketVars, RevokeAppend, RevokeAnew, Tick, Attach
    <3>2. k \in Tickets
      BY <1>3, <1>4, FirstMatchingMatches DEF Typed
    <3> QED
      BY <3>1, <3>2
  <2>2. TicketStatus(k, now) = "valid"
    BY <1>3, <1>4, <2>1, ValidEarlier DEF Grants
  <2> QED
    BY <1>2, <1>3, <1>4, <2>2 DEF Grants
<1>5. CASE contract' # contract
  <2>1. PICK new \in Creatable : Attach(new)
    BY <1>5 DEF TicketsNext, ticketVars, RevokeAppend, RevokeAnew, Tick
  <2>2. /\ attached'[1] = new /\ now' = now /\ Revoked' = Revoked
        /\ contract'.approvals = AppendOrReplace(contract.approvals, new)
    <3>1. contract' = Updated(contract, new) /\ attached' = <<new>> /\ list' = list /\ now' = now
      BY <2>1 DEF Attach
    <3> QED
      BY <3>1 DEF Revoked, Updated, Typed, Contracts
  <2>3. contract.approvals \in Seq(Tickets) /\ new \in Tickets
    BY CreatableAreTickets DEF Typed, Contracts
  <2>4. CASE Matching(contract, t, e) # {} /\ new.id = k.id
    BY <1>5, <2>2, <2>4
  <2>5. CASE Matching(contract, t, e) = {} \/ new.id # k.id
    <3>1. \/ Matching(contract, t, e) # {} /\ j = k
          \/ j = new /\ Matches(new, t, e)
      BY <1>3, <2>2, <2>3, <2>5, DeciderAfterAttach
    <3>2. j = new /\ Matches(new, t, e)
      BY <1>2, <1>3, <2>2, <3>1
    <3>3. TicketStatus(new, now) = "valid" /\ new.id \notin Revoked
      BY <1>3, <2>2, <3>2 DEF Grants
    <3>4. InForce(new, now)
      <4>1. new.expires \in Nat \cup {Never}
        BY DEF Creatable
      <4> QED
        BY <3>3, <4>1 DEF TicketStatus, InForce
    <3> QED
      BY <1>5, <2>2, <3>2, <3>3, <3>4 DEF Matches
  <2> QED
    BY <2>4, <2>5
<1> QED
  BY <1>4, <1>5

\* The clock and the contract keep their types.
LEMMA TicketsTyped == TicketsSpec => []Typed
<1>1. TicketsInit => Typed
  BY DraftAssumption DEF TicketsInit, Typed
<1> QED
  BY <1>1, TypesKept, PTL DEF TicketsSpec

\* Whatever tickets are attached in whatever order, attaching one under a new id
\* takes no permission away (contract_binding.go:32-47, evaluator.go:79-99).
THEOREM AllowsAreNotLost == TicketsSpec => AllowLost
<1>1. Typed /\ [TicketsNext]_ticketVars =>
        [\A x \in Ticketed :
           Allowed(x[1], x[2]) /\ ~Allowed(x[1], x[2])' =>
             LET k == FirstMatching(contract, x[1], x[2]) IN
             \/ ~InForce(k, now')
             \/ k.id \in Revoked'
             \/ /\ contract' # contract
                /\ \/ attached'[1].id = k.id
                   \/ /\ attached'[1].task = x[1] /\ attached'[1].effect = x[2]
                      /\ \E i \in DOMAIN contract.approvals :
                           contract.approvals[i].id = attached'[1].id]_ticketVars
  BY AllowLostStep
<1> QED
  BY <1>1, TicketsTyped, PTL DEF AllowLost, TicketsSpec

\* Time and --append never allow what was denied (evaluator.go:32-99).
THEOREM AllowsAreNotWon == TicketsSpec => AllowGained
<1>1. Typed /\ [TicketsNext]_ticketVars =>
        [\A x \in Ticketed :
           ~Allowed(x[1], x[2]) /\ Allowed(x[1], x[2])' =>
             \/ ~(Revoked \subseteq Revoked')
             \/ /\ contract' # contract
                /\ LET k == attached'[1] IN
                   \/ /\ k.task = x[1] /\ k.effect = x[2] /\ k.approved
                      /\ InForce(k, now) /\ k.id \notin Revoked
                   \/ /\ Matching(contract, x[1], x[2]) # {}
                      /\ k.id = FirstMatching(contract, x[1], x[2]).id]_ticketVars
  BY AllowGainedStep
<1> QED
  BY <1>1, TicketsTyped, PTL DEF AllowGained, TicketsSpec

-----------------------------------------------------------------------------
(* The pair of files a command writes. *)

\* One command starts with the files as the last one left them.
LEMMA BeginKeeps ==
  ASSUME PairInvariant, NEW v \in Versions, Begin(v)
  PROVE  PairInvariant'
<1>1. TypeOK'
  BY CommandsAssumption DEF PairInvariant, TypeOK, Begin, Exit, files, Contents, Stages, Results
<1>2. StageOK'
  BY DEF PairInvariant, Begin, Exit, files, StageOK, LeftByFailure
<1>3. MainRestored' /\ MismatchIsTold'
  BY DEF Begin, Exit, files, MainRestored, MismatchIsTold
<1> QED
  BY <1>1, <1>2, <1>3 DEF PairInvariant

LEMMA SnapshotKeeps == PairInvariant /\ Snapshot => PairInvariant'
<1> SUFFICES ASSUME PairInvariant, Snapshot PROVE PairInvariant'
  OBVIOUS
<1>1. TypeOK'
  BY DEF PairInvariant, TypeOK, Snapshot, Exit, Stages, Results
<1>2. StageOK'
  BY DEF PairInvariant, TypeOK, StageOK, Snapshot, Exit, files, LeftByFailure
<1>3. MainRestored' /\ MismatchIsTold'
  BY DEF PairInvariant, StageOK, Snapshot, Exit, MainRestored, MismatchIsTold
<1> QED
  BY <1>1, <1>2, <1>3 DEF PairInvariant

LEMMA WriteMainKeeps == PairInvariant /\ WriteMain => PairInvariant'
<1> SUFFICES ASSUME PairInvariant, WriteMain PROVE PairInvariant'
  OBVIOUS
<1>1. TypeOK'
  BY DEF PairInvariant, TypeOK, WriteMain, Exit, LeftByFailure, Contents, Stages, Results
<1>2. StageOK'
  BY DEF PairInvariant, TypeOK, StageOK, WriteMain, Exit, LeftByFailure
<1>3. MainRestored' /\ MismatchIsTold'
  BY VersionsAssumption DEF PairInvariant, StageOK, WriteMain, Exit, LeftByFailure,
                            MainRestored, MismatchIsTold
<1> QED
  BY <1>1, <1>2, <1>3 DEF PairInvariant

LEMMA WriteSidecarKeeps == PairInvariant /\ WriteSidecar => PairInvariant'
<1> SUFFICES ASSUME PairInvariant, WriteSidecar PROVE PairInvariant'
  OBVIOUS
<1>1. TypeOK'
  BY DEF PairInvariant, TypeOK, WriteSidecar, Exit, LeftByFailure, Contents, Stages, Results
<1>2. StageOK'
  BY DEF PairInvariant, StageOK, WriteSidecar, Exit, LeftByFailure
<1>3. MainRestored' /\ MismatchIsTold'
  BY DEF PairInvariant, StageOK, WriteSidecar, Exit, MainRestored, MismatchIsTold
<1> QED
  BY <1>1, <1>2, <1>3 DEF PairInvariant

\* Rolling back puts the first file back and leaves what the second write left.
LEMMA RollbackKeeps == PairInvariant /\ Rollback => PairInvariant'
<1> SUFFICES ASSUME PairInvariant, Rollback PROVE PairInvariant'
  OBVIOUS
<1>1. /\ main \in Contents /\ snapshot = found[1] /\ snapshot \in Contents
      /\ bytes \in Versions /\ sidecar \in LeftByFailure(found[2], bytes)
  BY DEF PairInvariant, TypeOK, StageOK, Rollback
<1>2. TypeOK'
  BY <1>1 DEF PairInvariant, TypeOK, Rollback, Exit, LeftByRollback, LeftByFailure,
              Contents, Stages, Results
<1>3. StageOK'
  BY <1>1 DEF StageOK, Rollback, Exit, LeftByFailure
<1>4. MainRestored' /\ MismatchIsTold'
  BY <1>1, VersionsAssumption DEF Rollback, Exit, LeftByFailure, MainRestored, MismatchIsTold
<1> QED
  BY <1>2, <1>3, <1>4 DEF PairInvariant

LEMMA CrashKeeps == PairInvariant /\ Crash => PairInvariant'
<1> SUFFICES ASSUME PairInvariant, Crash PROVE PairInvariant'
  OBVIOUS
<1>1. TypeOK'
  BY DEF PairInvariant, TypeOK, Crash, Exit, LeftByRollback, LeftByFailure, files,
         Contents, Stages, Results
<1>2. StageOK'
  BY DEF StageOK, Crash, Exit
<1>3. MainRestored' /\ MismatchIsTold'
  BY DEF Crash, Exit, MainRestored, MismatchIsTold
<1> QED
  BY <1>1, <1>2, <1>3 DEF PairInvariant

\* Each stage of a command holds what StageOK says, whichever writes fail and
\* wherever the process dies (cli_output.go:123-172).
THEOREM PairInvariantHolds == Spec => []PairInvariant
<1>1. Init => PairInvariant
  <2> SUFFICES ASSUME Init PROVE PairInvariant
    OBVIOUS
  <2>1. TypeOK
    BY CommandsAssumption DEF Init, TypeOK, Contents, Stages, Results, files
  <2>2. StageOK /\ MainRestored /\ MismatchIsTold
    BY DEF Init, StageOK, MainRestored, MismatchIsTold, files
  <2> QED
    BY <2>1, <2>2 DEF PairInvariant
<1>2. PairInvariant /\ [Next]_vars => PairInvariant'
  <2> SUFFICES ASSUME PairInvariant, [Next]_vars PROVE PairInvariant'
    OBVIOUS
  <2>1. CASE \E v \in Versions : Begin(v)
    BY <2>1, BeginKeeps
  <2>2. CASE Snapshot \/ WriteMain \/ WriteSidecar \/ Rollback \/ Crash
    BY <2>2, SnapshotKeeps, WriteMainKeeps, WriteSidecarKeeps, RollbackKeeps, CrashKeeps
  <2>3. CASE UNCHANGED vars
    BY <2>3 DEF vars, PairInvariant, TypeOK, StageOK, MainRestored, MismatchIsTold, files
  <2> QED
    BY <2>1, <2>2, <2>3 DEF Next
<1> QED
  BY <1>1, <1>2, PTL DEF Spec

\* The rollback restores the main file whenever the command reports the
\* sidecar stage and no failing rollback (cli_output.go:134-139).
THEOREM MainIsRestored == Spec => []MainRestored
<1>1. PairInvariant => MainRestored
  BY DEF PairInvariant
<1> QED
  BY <1>1, PairInvariantHolds, PTL

\* A pair that matched looks whole and does not only after the death of the
\* process or a command that reports a failure, and the stage it reports tells
\* which of the two files is new (cli_output.go:85-92, 123-172).
THEOREM MismatchesAreTold == Spec => []MismatchIsTold
<1>1. PairInvariant => MismatchIsTold
  BY DEF PairInvariant
<1> QED
  BY <1>1, PairInvariantHolds, PTL

-----------------------------------------------------------------------------
(* What the parser makes of lines. *)

AllLines == Lines \cup UNION {Range(b) : b \in Briefs}

Said == {l.name : l \in AllLines} \cup UNION {Range(l.vals) : l \in AllLines}

Words == Said \cup ListFields \cup {"", "scripted", "30"}

IsLine(l) == l.name \in Words /\ l.vals \in Seq(Words)

AtMostOne(S) == {s \in Seq(S) : Len(s) <= 1}

ParserCodes ==
  {"STRUCTURED_TASK_ID_MISSING",
   "STRUCTURED_OBLIGATION_ID_MISSING",
   "STRUCTURED_HEADING_UNSUPPORTED",
   "STRUCTURED_OBLIGATION_HEADING_REQUIRED",
   "STRUCTURED_OBLIGATION_LINE_INVALID",
   "STRUCTURED_OBLIGATION_REQUIRED_INVALID",
   "STRUCTURED_OBLIGATION_FIELD_UNKNOWN",
   "STRUCTURED_TASK_HEADING_REQUIRED",
   "STRUCTURED_TASK_LIST_FIELD_REQUIRED",
   "STRUCTURED_TASK_LINE_INVALID",
   "STRUCTURED_TASK_TIMEOUT_INVALID",
   "STRUCTURED_TASK_FIELD_UNKNOWN",
   "STRUCTURED_READ_BULLET_REQUIRED",
   "STRUCTURED_WRITE_BULLET_REQUIRED"}

Items == [value : Words, line : Nat]

TaskEntries ==
  [id : Words, line : Nat, kind : Words, timeout : Words, depends_on : Seq(Items),
   obligations : Seq(Items), writes : Seq(Items), reads : Seq(Items)]

ObligationEntries == [id : Words, line : Nat, required : BOOLEAN, text : BOOLEAN]

Parsed ==
  [section : Words, list : ListFields \cup {""}, reads : Seq(Words), writes : Seq(Words),
   obligations : Seq(ObligationEntries), obligation : AtMostOne(ObligationEntries),
   tasks : Seq(TaskEntries), task : AtMostOne(TaskEntries),
   error : AtMostOne([code : ParserCodes, line : Nat])]

LEMMA OneAtMost ==
  ASSUME NEW S
  PROVE  /\ <<>> \in AtMostOne(S)
         /\ \A x \in S : <<x>> \in AtMostOne(S)
         /\ \A s \in AtMostOne(S) :
              s \in Seq(S) /\ (s # <<>> => 1 \in DOMAIN s /\ s[1] \in S /\ s = <<s[1]>>)
         /\ \A s \in AtMostOne(S) : \A x \in S :
              s # <<>> => [s EXCEPT ![1] = x] \in AtMostOne(S)
<1>1. <<>> \in Seq(S) /\ Len(<<>>) = 0
  OBVIOUS
<1>2. ASSUME NEW x \in S PROVE <<x>> \in Seq(S) /\ Len(<<x>>) = 1
  OBVIOUS
<1>3. ASSUME NEW s \in Seq(S), Len(s) <= 1, s # <<>>
      PROVE  1 \in DOMAIN s /\ s[1] \in S /\ s = <<s[1]>> /\ Len(s) = 1
  BY <1>3
<1>4. ASSUME NEW s \in Seq(S), Len(s) <= 1, s # <<>>, NEW x \in S
      PROVE  [s EXCEPT ![1] = x] \in Seq(S) /\ Len([s EXCEPT ![1] = x]) = 1
  <2>1. s \in [1..1 -> S]
    BY <1>3, <1>4
  <2>2. [s EXCEPT ![1] = x] \in [1..1 -> S]
    BY <2>1
  <2> QED
    BY <2>2
<1> QED
  BY <1>1, <1>2, <1>3, <1>4 DEF AtMostOne

LEMMA ParsedFields ==
  ASSUME NEW p \in Parsed
  PROVE  /\ p.section \in Words /\ p.list \in ListFields \cup {""}
         /\ p.reads \in Seq(Words) /\ p.writes \in Seq(Words)
         /\ p.obligations \in Seq(ObligationEntries)
         /\ p.obligation \in AtMostOne(ObligationEntries)
         /\ p.obligation \in Seq(ObligationEntries)
         /\ p.tasks \in Seq(TaskEntries)
         /\ p.task \in AtMostOne(TaskEntries) /\ p.task \in Seq(TaskEntries)
         /\ p.error \in AtMostOne([code : ParserCodes, line : Nat])
         /\ p.obligation # <<>> => 1 \in DOMAIN p.obligation /\ p.obligation[1] \in ObligationEntries
         /\ p.task # <<>> => 1 \in DOMAIN p.task /\ p.task[1] \in TaskEntries
<1>1. /\ p.section \in Words /\ p.list \in ListFields \cup {""}
      /\ p.reads \in Seq(Words) /\ p.writes \in Seq(Words)
      /\ p.obligations \in Seq(ObligationEntries)
      /\ p.obligation \in AtMostOne(ObligationEntries)
      /\ p.tasks \in Seq(TaskEntries)
      /\ p.task \in AtMostOne(TaskEntries)
      /\ p.error \in AtMostOne([code : ParserCodes, line : Nat])
  BY DEF Parsed
<1> QED
  BY <1>1, OneAtMost

LEMMA StartParsed == Start \in Parsed
<1>1. "" \in Words
  BY DEF Words
<1>2. \A S : <<>> \in Seq(S) /\ <<>> \in AtMostOne(S)
  BY OneAtMost
<1> QED
  BY <1>1, <1>2 DEF Start, Parsed

LEMMA FailParsed ==
  ASSUME NEW p \in Parsed, NEW code \in ParserCodes, NEW n \in Nat
  PROVE  /\ Fail(p, code, n) \in Parsed
         /\ Fail(p, code, n).error # <<>>
<1>1. <<Diag(code, n)>> \in AtMostOne([code : ParserCodes, line : Nat])
  BY OneAtMost DEF Diag
<1>2. <<Diag(code, n)>> # <<>>
  OBVIOUS
<1> HIDE DEF Diag
<1> QED
  BY <1>1, <1>2 DEF Fail, Parsed

LEMMA FinishParsed ==
  ASSUME NEW p \in Parsed
  PROVE  /\ FinishTask(p) \in Parsed /\ FinishObligation(p) \in Parsed
         /\ FinishObligation(FinishTask(p)) \in Parsed
<1>1. ASSUME NEW q \in Parsed PROVE FinishTask(q) \in Parsed
  <2>1. q.tasks \o q.task \in Seq(TaskEntries) /\ <<>> \in AtMostOne(TaskEntries)
    <3>1. q.tasks \in Seq(TaskEntries) /\ q.task \in Seq(TaskEntries)
      BY ParsedFields
    <3>2. <<>> \in AtMostOne(TaskEntries)
      BY OneAtMost
    <3> QED
      BY <3>1, <3>2
  <2> QED
    BY <2>1 DEF FinishTask, Parsed
<1>2. ASSUME NEW q \in Parsed PROVE FinishObligation(q) \in Parsed
  <2>1. /\ q.obligations \o q.obligation \in Seq(ObligationEntries)
        /\ <<>> \in AtMostOne(ObligationEntries)
    <3>1. q.obligations \in Seq(ObligationEntries) /\ q.obligation \in Seq(ObligationEntries)
      BY ParsedFields
    <3>2. <<>> \in AtMostOne(ObligationEntries)
      BY OneAtMost
    <3> QED
      BY <3>1, <3>2
  <2> QED
    BY <2>1 DEF FinishObligation, Parsed
<1> QED
  BY <1>1, <1>2

LEMMA HeadingParsed ==
  ASSUME NEW p \in Parsed, NEW n \in Nat, NEW l, IsLine(l)
  PROVE  AtHeading(p, n, l) \in Parsed
<1> DEFINE task == [id |-> l.name, line |-> n, kind |-> "scripted", timeout |-> "30",
                    depends_on |-> <<>>, obligations |-> <<>>, writes |-> <<>>, reads |-> <<>>]
           obligation == [id |-> l.name, line |-> n, required |-> TRUE, text |-> FALSE]
<1>0. {"", "scripted", "30"} \subseteq Words /\ l.name \in Words
  BY DEF Words, IsLine
<1>1. task \in TaskEntries /\ obligation \in ObligationEntries
  <2>1. <<>> \in Seq(Items)
    OBVIOUS
  <2> QED
    BY <1>0, <2>1 DEF TaskEntries, ObligationEntries
<1> HIDE DEF task, obligation
<1>2. <<task>> \in AtMostOne(TaskEntries) /\ <<obligation>> \in AtMostOne(ObligationEntries)
  BY <1>1, OneAtMost
<1>3. [FinishObligation(FinishTask(p)) EXCEPT !.section = l.name, !.list = ""] \in Parsed
  BY <1>0, FinishParsed DEF Parsed
<1>4. [FinishTask(p) EXCEPT !.list = "", !.task = <<task>>] \in Parsed
  BY <1>2, FinishParsed DEF Parsed
<1>5. [FinishObligation(p) EXCEPT !.list = "", !.obligation = <<obligation>>] \in Parsed
  BY <1>2, FinishParsed DEF Parsed
<1>6. /\ Fail(p, "STRUCTURED_TASK_ID_MISSING", n) \in Parsed
      /\ Fail(p, "STRUCTURED_OBLIGATION_ID_MISSING", n) \in Parsed
      /\ Fail(p, "STRUCTURED_HEADING_UNSUPPORTED", n) \in Parsed
  BY FailParsed DEF ParserCodes
<1> QED
  BY <1>3, <1>4, <1>5, <1>6 DEF AtHeading, task, obligation

LEMMA ObligationParsed ==
  ASSUME NEW p \in Parsed, NEW n \in Nat, NEW l, IsLine(l)
  PROVE  AtObligation(p, n, l) \in Parsed
<1>1. ASSUME p.obligation # <<>>, NEW b \in BOOLEAN
      PROVE  /\ [p EXCEPT !.obligation[1].required = b] \in Parsed
             /\ [p EXCEPT !.obligation[1].text = b] \in Parsed
  <2>1. /\ p.obligation \in AtMostOne(ObligationEntries) /\ p.obligation[1] \in ObligationEntries
    BY <1>1, ParsedFields
  <2>2. /\ [p.obligation[1] EXCEPT !.required = b] \in ObligationEntries
        /\ [p.obligation[1] EXCEPT !.text = b] \in ObligationEntries
    BY <2>1 DEF ObligationEntries
  <2>3. /\ [p.obligation EXCEPT ![1] = [p.obligation[1] EXCEPT !.required = b]] \in AtMostOne(ObligationEntries)
        /\ [p.obligation EXCEPT ![1] = [p.obligation[1] EXCEPT !.text = b]] \in AtMostOne(ObligationEntries)
    BY <1>1, <2>1, <2>2, OneAtMost
  <2> QED
    BY <2>3 DEF Parsed
<1>2. ASSUME p.obligation # <<>>
      PROVE  /\ [p EXCEPT !.obligation[1].required = (l.vals = <<"true">>)] \in Parsed
             /\ [p EXCEPT !.obligation[1].text = (l.vals # <<>>)] \in Parsed
  <2> DEFINE a == (l.vals = <<"true">>)
             b == (l.vals # <<>>)
  <2>1. a \in BOOLEAN /\ b \in BOOLEAN
    OBVIOUS
  <2> HIDE DEF a, b
  <2>2. /\ [p EXCEPT !.obligation[1].required = a] \in Parsed
        /\ [p EXCEPT !.obligation[1].text = b] \in Parsed
    BY <1>1, <1>2, <2>1
  <2> QED
    BY <2>2 DEF a, b
<1>3. /\ Fail(p, "STRUCTURED_OBLIGATION_HEADING_REQUIRED", n) \in Parsed
      /\ Fail(p, "STRUCTURED_OBLIGATION_LINE_INVALID", n) \in Parsed
      /\ Fail(p, "STRUCTURED_OBLIGATION_REQUIRED_INVALID", n) \in Parsed
      /\ Fail(p, "STRUCTURED_OBLIGATION_FIELD_UNKNOWN", n) \in Parsed
  BY FailParsed DEF ParserCodes
<1> QED
  BY <1>2, <1>3 DEF AtObligation

LEMMA ValuesParsed ==
  ASSUME NEW p \in Parsed, NEW n \in Nat, NEW values \in Seq(Words), NEW field \in ListFields,
         p.task # <<>>
  PROVE  AddValues(p, field, values, n) \in Parsed
<1> DEFINE items == [i \in DOMAIN values |-> [value |-> values[i], line |-> n]]
<1>1. items \in Seq(Items)
  <2>1. items \in [1..Len(values) -> Items]
    BY DEF Items
  <2> QED
    BY <2>1
<1> HIDE DEF items
<1>2. p.task \in AtMostOne(TaskEntries) /\ p.task[1] \in TaskEntries
  BY ParsedFields
<1>3. [p.task[1] EXCEPT ![field] = @ \o items] \in TaskEntries
  <2>1. p.task[1][field] \in Seq(Items)
    BY <1>2 DEF TaskEntries, ListFields
  <2>2. p.task[1][field] \o items \in Seq(Items)
    BY <1>1, <2>1
  <2> QED
    BY <1>2, <2>2 DEF TaskEntries, ListFields
<1>4. [p.task EXCEPT ![1] = [p.task[1] EXCEPT ![field] = @ \o items]] \in AtMostOne(TaskEntries)
  BY <1>2, <1>3, OneAtMost
<1> QED
  BY <1>4 DEF AddValues, Parsed, items

LEMMA TaskParsed ==
  ASSUME NEW p \in Parsed, NEW n \in Nat, NEW l, IsLine(l)
  PROVE  AtTask(p, n, l) \in Parsed
<1>1. ASSUME p.task # <<>>, NEW v \in Words
      PROVE  /\ [p EXCEPT !.list = "", !.task[1].kind = v] \in Parsed
             /\ [p EXCEPT !.list = "", !.task[1].timeout = v] \in Parsed
  <2>1. /\ p.task \in AtMostOne(TaskEntries) /\ p.task[1] \in TaskEntries
    BY <1>1, ParsedFields
  <2>2. /\ [p.task[1] EXCEPT !.kind = v] \in TaskEntries
        /\ [p.task[1] EXCEPT !.timeout = v] \in TaskEntries
    BY <2>1 DEF TaskEntries
  <2>3. /\ [p.task EXCEPT ![1] = [p.task[1] EXCEPT !.kind = v]] \in AtMostOne(TaskEntries)
        /\ [p.task EXCEPT ![1] = [p.task[1] EXCEPT !.timeout = v]] \in AtMostOne(TaskEntries)
    BY <1>1, <2>1, <2>2, OneAtMost
  <2> QED
    BY <2>3 DEF Parsed
<1>2. l.vals # <<>> => l.vals[1] \in Words
  BY DEF IsLine
<1>3. "scripted" \in Words
  BY DEF Words
<1>4. <<l.name>> \in Seq(Words) /\ l.vals \in Seq(Words)
  BY DEF IsLine
<1>5. ASSUME p.task # <<>>, p.list # ""
      PROVE  AddValues(p, p.list, <<l.name>>, n) \in Parsed
  <2>1. p.list \in ListFields
    BY <1>5 DEF Parsed
  <2> QED
    BY <1>4, <1>5, <2>1, ValuesParsed
<1>6. ASSUME p.task # <<>>, l.name \in ListFields
      PROVE  [AddValues(p, l.name, l.vals, n) EXCEPT !.list = l.name] \in Parsed
  <2>1. AddValues(p, l.name, l.vals, n) \in Parsed
    BY <1>4, <1>6, ValuesParsed
  <2> QED
    BY <1>6, <2>1 DEF Parsed
<1>7. l.vals \in {<<"-1">>, <<"0">>, <<"30">>} => l.vals # <<>>
  OBVIOUS
<1> DEFINE kind == IF l.vals = <<>> THEN "scripted" ELSE l.vals[1]
<1>8. kind \in Words
  BY <1>2, <1>3
<1> HIDE DEF kind
<1>9. /\ Fail(p, "STRUCTURED_TASK_HEADING_REQUIRED", n) \in Parsed
      /\ Fail(p, "STRUCTURED_TASK_LIST_FIELD_REQUIRED", n) \in Parsed
      /\ Fail(p, "STRUCTURED_TASK_LINE_INVALID", n) \in Parsed
      /\ Fail(p, "STRUCTURED_TASK_TIMEOUT_INVALID", n) \in Parsed
      /\ Fail(p, "STRUCTURED_TASK_FIELD_UNKNOWN", n) \in Parsed
  BY FailParsed DEF ParserCodes
<1>10. ASSUME p.task # <<>>
       PROVE  [p EXCEPT !.list = "", !.task[1].kind = kind] \in Parsed
  BY <1>1, <1>8, <1>10
<1>11. ASSUME p.task # <<>>, l.vals \in {<<"-1">>, <<"0">>, <<"30">>}
       PROVE  [p EXCEPT !.list = "", !.task[1].timeout = l.vals[1]] \in Parsed
  BY <1>1, <1>2, <1>7, <1>11
<1> QED
  BY <1>5, <1>6, <1>9, <1>10, <1>11 DEF AtTask, kind

LEMMA PathParsed ==
  ASSUME NEW p \in Parsed, NEW n \in Nat, NEW l, IsLine(l), p.section \in {"reads", "writes"}
  PROVE  AtPath(p, n, l) \in Parsed
<1>1. Append(p.reads, l.name) \in Seq(Words) /\ Append(p.writes, l.name) \in Seq(Words)
  <2>1. p.reads \in Seq(Words) /\ p.writes \in Seq(Words)
    BY ParsedFields
  <2>2. l.name \in Words
    BY DEF IsLine
  <2> QED
    BY <2>1, <2>2
<1>2. [p EXCEPT !.reads = Append(@, l.name)] \in Parsed
  BY <1>1 DEF Parsed
<1>3. [p EXCEPT !.writes = Append(@, l.name)] \in Parsed
  BY <1>1 DEF Parsed
<1>4. /\ Fail(p, "STRUCTURED_READ_BULLET_REQUIRED", n) \in Parsed
      /\ Fail(p, "STRUCTURED_WRITE_BULLET_REQUIRED", n) \in Parsed
  BY FailParsed DEF ParserCodes
<1> QED
  BY <1>2, <1>3, <1>4 DEF AtPath

LEMMA StepParsed ==
  ASSUME NEW p \in Parsed, NEW n \in Nat, NEW l, IsLine(l)
  PROVE  Step(p, n, l) \in Parsed
  BY HeadingParsed, PathParsed, ObligationParsed, TaskParsed DEF Step

\* The ids of entries, in order.
NamesOf(entries) == [i \in 1..Len(entries) |-> entries[i].id]

LEMMA NamesJoined ==
  ASSUME NEW S, NEW s \in Seq(S), NEW r \in Seq(S), \A x \in S : x.id \in Words
  PROVE  NamesOf(s) \in Seq(Words) /\ NamesOf(s \o r) = NamesOf(s) \o NamesOf(r)
<1>1. ASSUME NEW q \in Seq(S) PROVE NamesOf(q) \in Seq(Words) /\ Len(NamesOf(q)) = Len(q)
  <2>1. NamesOf(q) \in [1..Len(q) -> Words]
    BY DEF NamesOf
  <2>2. Len(q) \in Nat
    OBVIOUS
  <2> DEFINE f == NamesOf(q)
             n == Len(q)
  <2>3. f \in [1..n -> Words] /\ n \in Nat
    BY <2>1, <2>2
  <2> HIDE DEF f, n
  <2>4. f \in Seq(Words) /\ Len(f) = n
    BY <2>3
  <2> QED
    BY <2>4 DEF f, n
<1>2. s \o r \in Seq(S) /\ Len(s \o r) = Len(s) + Len(r)
  OBVIOUS
<1> DEFINE both == s \o r
           names == NamesOf(s) \o NamesOf(r)
<1>3. names \in Seq(Words) /\ Len(names) = Len(s) + Len(r)
  <2>1. /\ NamesOf(s) \in Seq(Words) /\ NamesOf(r) \in Seq(Words)
        /\ Len(NamesOf(s)) = Len(s) /\ Len(NamesOf(r)) = Len(r)
    BY <1>1
  <2> DEFINE a == NamesOf(s)
             b == NamesOf(r)
  <2>2. /\ a \in Seq(Words) /\ b \in Seq(Words) /\ Len(a) = Len(s) /\ Len(b) = Len(r)
    BY <2>1
  <2> HIDE DEF a, b
  <2>3. a \in Seq(Words) /\ b \in Seq(Words)
    BY <2>2
  <2>4. a \o b \in Seq(Words) /\ Len(a \o b) = Len(a) + Len(b)
    BY <2>3
  <2> QED
    BY <2>2, <2>4 DEF a, b
<1>4. ASSUME NEW i \in 1..(Len(s) + Len(r)) PROVE NamesOf(both)[i] = names[i]
  <2>1. CASE i <= Len(s)
    <3>1. i \in 1..Len(s) /\ both[i] = s[i] /\ names[i] = NamesOf(s)[i]
      BY <1>1, <2>1
    <3> QED
      BY <1>2, <3>1 DEF NamesOf
  <2>2. CASE i > Len(s)
    <3>1. i - Len(s) \in 1..Len(r) /\ both[i] = r[i - Len(s)]
      BY <2>2
    <3>2. names[i] = NamesOf(r)[i - Len(s)]
      BY <1>1, <2>2
    <3> QED
      BY <1>2, <3>1, <3>2 DEF NamesOf
  <2>3. i \in Nat /\ Len(s) \in Nat
    OBVIOUS
  <2> HIDE DEF both, names
  <2> QED
    BY <2>1, <2>2, <2>3
<1>5. NamesOf(both) \in Seq(Words) /\ Len(NamesOf(both)) = Len(s) + Len(r)
  BY <1>1, <1>2
<1> HIDE DEF both, names
<1>6. NamesOf(both) = names
  BY <1>3, <1>4, <1>5
<1> QED
  BY <1>1, <1>6 DEF both, names

LEMMA NamesOfOne ==
  /\ NamesOf(<<>>) = <<>>
  /\ \A x : NamesOf(<<x>>) = <<x.id>>
<1>1. NamesOf(<<>>) = <<>>
  BY DEF NamesOf
<1>2. ASSUME NEW x PROVE NamesOf(<<x>>) = <<x.id>>
  <2>1. Len(<<x>>) = 1 /\ <<x>>[1] = x
    OBVIOUS
  <2> QED
    BY <2>1 DEF NamesOf
<1> QED
  BY <1>1, <1>2

\* The tasks and obligations met so far, those still open included.
TaskNames(p) == NamesOf(p.tasks) \o NamesOf(p.task)
ObligationNames(p) == NamesOf(p.obligations) \o NamesOf(p.obligation)

NameIf(l, form) == IF l.form = form THEN <<l.name>> ELSE <<>>

LEMMA NamesAreWords ==
  ASSUME NEW p \in Parsed
  PROVE  /\ NamesOf(p.tasks) \in Seq(Words) /\ NamesOf(p.task) \in Seq(Words)
         /\ NamesOf(p.obligations) \in Seq(Words) /\ NamesOf(p.obligation) \in Seq(Words)
         /\ TaskNames(p) \in Seq(Words) /\ ObligationNames(p) \in Seq(Words)
<1>1. /\ \A x \in TaskEntries : x.id \in Words
      /\ \A x \in ObligationEntries : x.id \in Words
  BY DEF TaskEntries, ObligationEntries
<1>2. /\ p.tasks \in Seq(TaskEntries) /\ p.task \in Seq(TaskEntries)
      /\ p.obligations \in Seq(ObligationEntries) /\ p.obligation \in Seq(ObligationEntries)
  BY ParsedFields
<1>3. /\ NamesOf(p.tasks) \in Seq(Words) /\ NamesOf(p.task) \in Seq(Words)
      /\ NamesOf(p.obligations) \in Seq(Words) /\ NamesOf(p.obligation) \in Seq(Words)
  BY <1>1, <1>2, NamesJoined
<1> QED
  BY <1>3 DEF TaskNames, ObligationNames

LEMMA NothingAdded ==
  ASSUME NEW s \in Seq(Words) PROVE s \o <<>> = s
  OBVIOUS

\* Closing an entry keeps its name.
LEMMA FinishNames ==
  ASSUME NEW p \in Parsed
  PROVE  /\ TaskNames(FinishTask(p)) = TaskNames(p)
         /\ NamesOf(FinishTask(p).tasks) = TaskNames(p)
         /\ ObligationNames(FinishTask(p)) = ObligationNames(p)
         /\ FinishTask(p).task = <<>> /\ FinishTask(p).error = p.error
         /\ TaskNames(FinishObligation(p)) = TaskNames(p)
         /\ ObligationNames(FinishObligation(p)) = ObligationNames(p)
         /\ NamesOf(FinishObligation(p).obligations) = ObligationNames(p)
         /\ FinishObligation(p).obligation = <<>> /\ FinishObligation(p).error = p.error
         /\ FinishObligation(p).tasks = p.tasks
         /\ FinishTask(p).obligations = p.obligations
<1> DEFINE q == FinishTask(p)
           r == FinishObligation(p)
<1>1. /\ q.tasks = p.tasks \o p.task /\ q.task = <<>> /\ q.error = p.error
      /\ q.obligations = p.obligations /\ q.obligation = p.obligation
  BY DEF FinishTask, Parsed
<1>2. /\ r.obligations = p.obligations \o p.obligation /\ r.obligation = <<>>
      /\ r.error = p.error /\ r.tasks = p.tasks /\ r.task = p.task
  BY DEF FinishObligation, Parsed
<1> HIDE DEF q, r
<1>3. /\ \A x \in TaskEntries : x.id \in Words
      /\ \A x \in ObligationEntries : x.id \in Words
  BY DEF TaskEntries, ObligationEntries
<1>4. /\ p.tasks \in Seq(TaskEntries) /\ p.task \in Seq(TaskEntries)
      /\ p.obligations \in Seq(ObligationEntries) /\ p.obligation \in Seq(ObligationEntries)
  BY ParsedFields
<1>5. NamesOf(q.tasks) = TaskNames(p) /\ NamesOf(r.obligations) = ObligationNames(p)
  <2>1. NamesOf(p.tasks \o p.task) = NamesOf(p.tasks) \o NamesOf(p.task)
    BY <1>3, <1>4, NamesJoined
  <2>2. NamesOf(p.obligations \o p.obligation) = NamesOf(p.obligations) \o NamesOf(p.obligation)
    BY <1>3, <1>4, NamesJoined
  <2> QED
    BY <1>1, <1>2, <2>1, <2>2 DEF TaskNames, ObligationNames
<1>6. TaskNames(q) = TaskNames(p)
  <2>1. TaskNames(q) = TaskNames(p) \o <<>>
    BY <1>1, <1>5, NamesOfOne DEF TaskNames
  <2> QED
    BY <2>1, NamesAreWords, NothingAdded, Zenon
<1>7. ObligationNames(r) = ObligationNames(p)
  <2>1. ObligationNames(r) = ObligationNames(p) \o <<>>
    BY <1>2, <1>5, NamesOfOne DEF ObligationNames
  <2> QED
    BY <2>1, NamesAreWords, NothingAdded, Zenon
<1>8. ObligationNames(q) = ObligationNames(p) /\ TaskNames(r) = TaskNames(p)
  BY <1>1, <1>2 DEF ObligationNames, TaskNames
<1> QED
  BY <1>1, <1>2, <1>5, <1>6, <1>7, <1>8 DEF q, r

LEMMA FailedIsFailed ==
  ASSUME NEW p \in Parsed, NEW n
  PROVE  \A code : Fail(p, code, n).error # <<>>
<1>1. \A code : Fail(p, code, n).error = <<Diag(code, n)>>
  BY DEF Fail, Parsed
<1>2. \A d : <<d>> # <<>>
  OBVIOUS
<1> QED
  BY <1>1, <1>2

\* A heading that is no error opens an entry of its name, or is of a section.
LEMMA HeadingNames ==
  ASSUME NEW p \in Parsed, NEW n \in Nat, NEW l, IsLine(l), AtHeading(p, n, l).error = <<>>
  PROVE  /\ p.error = <<>>
         /\ TaskNames(AtHeading(p, n, l)) = TaskNames(p) \o NameIf(l, "task")
         /\ ObligationNames(AtHeading(p, n, l)) = ObligationNames(p) \o NameIf(l, "obligation")
<1> DEFINE task == [id |-> l.name, line |-> n, kind |-> "scripted", timeout |-> "30",
                    depends_on |-> <<>>, obligations |-> <<>>, writes |-> <<>>, reads |-> <<>>]
           obligation == [id |-> l.name, line |-> n, required |-> TRUE, text |-> FALSE]
           f == FinishTask(p)
           g == FinishObligation(p)
           h == FinishObligation(f)
<1>0. f \in Parsed /\ g \in Parsed /\ h \in Parsed
  BY FinishParsed
<1>1. /\ TaskNames(f) = TaskNames(p) /\ NamesOf(f.tasks) = TaskNames(p) /\ f.error = p.error
      /\ ObligationNames(f) = ObligationNames(p)
      /\ ObligationNames(g) = ObligationNames(p) /\ g.error = p.error
      /\ NamesOf(g.obligations) = ObligationNames(p) /\ TaskNames(g) = TaskNames(p)
      /\ TaskNames(h) = TaskNames(p) /\ ObligationNames(h) = ObligationNames(p)
      /\ h.error = p.error
  BY <1>0, FinishNames
<1>2. TaskNames(p) \o <<>> = TaskNames(p) /\ ObligationNames(p) \o <<>> = ObligationNames(p)
  BY NamesAreWords, NothingAdded
<1>3. task.id = l.name /\ obligation.id = l.name
  OBVIOUS
<1> HIDE DEF task, obligation
<1>4. CASE l.form = "section"
  <2> DEFINE q == [h EXCEPT !.section = l.name, !.list = ""]
  <2>1. AtHeading(p, n, l) = q
    BY <1>4 DEF AtHeading
  <2>2. /\ q.tasks = h.tasks /\ q.task = h.task /\ q.error = h.error
        /\ q.obligations = h.obligations /\ q.obligation = h.obligation
    BY <1>0 DEF Parsed
  <2> HIDE DEF q, h, g, f
  <2>3. TaskNames(q) = TaskNames(h) /\ ObligationNames(q) = ObligationNames(h)
    BY <2>2 DEF TaskNames, ObligationNames
  <2>4. NameIf(l, "task") = <<>> /\ NameIf(l, "obligation") = <<>>
    BY <1>4 DEF NameIf
  <2> QED
    BY <1>1, <1>2, <2>1, <2>2, <2>3, <2>4
<1>5. CASE l.form = "task"
  <2>1. NameIf(l, "task") = <<l.name>> /\ NameIf(l, "obligation") = <<>>
    BY <1>5 DEF NameIf
  <2> DEFINE q == [f EXCEPT !.list = "", !.task = <<task>>]
  <2>2. AtHeading(p, n, l) = q
    BY <1>5, FailedIsFailed DEF AtHeading, task
  <2>3. /\ q.tasks = f.tasks /\ q.task = <<task>> /\ q.error = f.error
        /\ q.obligations = f.obligations /\ q.obligation = f.obligation
    BY <1>0 DEF Parsed
  <2> HIDE DEF q, h, g, f
  <2>4. TaskNames(q) = TaskNames(p) \o <<l.name>>
    BY <1>1, <1>3, <2>3, NamesOfOne DEF TaskNames
  <2>5. ObligationNames(q) = ObligationNames(f)
    BY <2>3 DEF ObligationNames
  <2> QED
    BY <1>1, <1>2, <2>1, <2>2, <2>3, <2>4, <2>5
<1>6. CASE l.form = "obligation"
  <2>1. NameIf(l, "obligation") = <<l.name>> /\ NameIf(l, "task") = <<>>
    BY <1>6 DEF NameIf
  <2> DEFINE q == [g EXCEPT !.list = "", !.obligation = <<obligation>>]
  <2>2. AtHeading(p, n, l) = q
    BY <1>6, FailedIsFailed DEF AtHeading, obligation
  <2>3. /\ q.tasks = g.tasks /\ q.task = g.task /\ q.error = g.error
        /\ q.obligations = g.obligations /\ q.obligation = <<obligation>>
    BY <1>0 DEF Parsed
  <2> HIDE DEF q, h, g, f
  <2>4. ObligationNames(q) = ObligationNames(p) \o <<l.name>>
    BY <1>1, <1>3, <2>3, NamesOfOne DEF ObligationNames
  <2>5. TaskNames(q) = TaskNames(g)
    BY <2>3 DEF TaskNames
  <2> QED
    BY <1>1, <1>2, <2>1, <2>2, <2>3, <2>4, <2>5
<1>7. CASE l.form \notin {"section", "task", "obligation"}
  BY <1>7, FailedIsFailed DEF AtHeading
<1> QED
  BY <1>4, <1>5, <1>6, <1>7

\* An entry changed otherwise than in its id keeps its name.
LEMMA ChangedKeepsName ==
  ASSUME NEW s, NEW e, s = <<e>>, NEW x, x.id = e.id
  PROVE  NamesOf([s EXCEPT ![1] = x]) = NamesOf(s)
<1>1. [s EXCEPT ![1] = x] = <<x>>
  OBVIOUS
<1>2. NamesOf(<<x>>) = <<x.id>> /\ NamesOf(<<e>>) = <<e.id>>
  BY NamesOfOne
<1> QED
  BY <1>1, <1>2

\* Any other line leaves the names as they are.
LEMMA LineNames ==
  ASSUME NEW p \in Parsed, NEW n \in Nat, NEW l, IsLine(l)
  PROVE  /\ AtObligation(p, n, l).error = <<>> =>
              /\ p.error = <<>> /\ TaskNames(AtObligation(p, n, l)) = TaskNames(p)
              /\ ObligationNames(AtObligation(p, n, l)) = ObligationNames(p)
         /\ AtTask(p, n, l).error = <<>> =>
              /\ p.error = <<>> /\ TaskNames(AtTask(p, n, l)) = TaskNames(p)
              /\ ObligationNames(AtTask(p, n, l)) = ObligationNames(p)
         /\ p.section \in {"reads", "writes"} /\ AtPath(p, n, l).error = <<>> =>
              /\ p.error = <<>> /\ TaskNames(AtPath(p, n, l)) = TaskNames(p)
              /\ ObligationNames(AtPath(p, n, l)) = ObligationNames(p)
<1> DEFINE Like(q) == /\ q.tasks = p.tasks /\ NamesOf(q.task) = NamesOf(p.task)
                      /\ q.obligations = p.obligations
                      /\ NamesOf(q.obligation) = NamesOf(p.obligation)
                      /\ q.error = p.error
<1>1. ASSUME NEW q, Like(q)
      PROVE  /\ TaskNames(q) = TaskNames(p) /\ ObligationNames(q) = ObligationNames(p)
             /\ q.error = p.error
  BY <1>1 DEF TaskNames, ObligationNames
<1>2. /\ p.obligation # <<>> =>
           /\ p.obligation[1] \in ObligationEntries /\ p.obligation = <<p.obligation[1]>>
      /\ p.task # <<>> => p.task[1] \in TaskEntries /\ p.task = <<p.task[1]>>
  BY ParsedFields, OneAtMost
<1>3. ASSUME p.obligation # <<>>, NEW b
      PROVE  /\ Like([p EXCEPT !.obligation[1].required = b])
             /\ Like([p EXCEPT !.obligation[1].text = b])
  <2> DEFINE e == p.obligation[1]
  <2>1. /\ [e EXCEPT !.required = b].id = e.id /\ [e EXCEPT !.text = b].id = e.id
    BY <1>2, <1>3 DEF ObligationEntries
  <2>2. p.obligation = <<e>>
    BY <1>2, <1>3
  <2>3. /\ NamesOf([p.obligation EXCEPT ![1] = [e EXCEPT !.required = b]]) = NamesOf(p.obligation)
        /\ NamesOf([p.obligation EXCEPT ![1] = [e EXCEPT !.text = b]]) = NamesOf(p.obligation)
    <3> HIDE DEF e
    <3> QED
      BY <2>1, <2>2, ChangedKeepsName
  <2> QED
    BY <2>3 DEF Parsed
<1>4. ASSUME p.task # <<>>, NEW v
      PROVE  /\ Like([p EXCEPT !.list = "", !.task[1].kind = v])
             /\ Like([p EXCEPT !.list = "", !.task[1].timeout = v])
  <2> DEFINE e == p.task[1]
  <2>1. /\ [e EXCEPT !.kind = v].id = e.id /\ [e EXCEPT !.timeout = v].id = e.id
    BY <1>2, <1>4 DEF TaskEntries
  <2>2. p.task = <<e>>
    BY <1>2, <1>4
  <2>3. /\ NamesOf([p.task EXCEPT ![1] = [e EXCEPT !.kind = v]]) = NamesOf(p.task)
        /\ NamesOf([p.task EXCEPT ![1] = [e EXCEPT !.timeout = v]]) = NamesOf(p.task)
    <3> HIDE DEF e
    <3> QED
      BY <2>1, <2>2, ChangedKeepsName
  <2> QED
    BY <2>3 DEF Parsed
<1>5. ASSUME p.task # <<>>, NEW field \in ListFields, NEW values
      PROVE  /\ Like(AddValues(p, field, values, n))
             /\ Like([AddValues(p, field, values, n) EXCEPT !.list = field])
  <2> DEFINE e == p.task[1]
             items == [i \in DOMAIN values |-> [value |-> values[i], line |-> n]]
             d == [e EXCEPT ![field] = e[field] \o items]
  <2>1. d.id = e.id
    BY <1>2, <1>5 DEF TaskEntries, ListFields
  <2> HIDE DEF items
  <2>2. p.task = <<e>>
    BY <1>2, <1>5
  <2>3. NamesOf([p.task EXCEPT ![1] = d]) = NamesOf(p.task)
    <3> HIDE DEF d, e
    <3> QED
      BY <2>1, <2>2, ChangedKeepsName
  <2>4. AddValues(p, field, values, n) = [p EXCEPT !.task = [p.task EXCEPT ![1] = d]]
    BY DEF AddValues, items
  <2> HIDE DEF d, e
  <2> QED
    BY <2>3, <2>4 DEF Parsed
<1>6. Like([p EXCEPT !.reads = Append(@, l.name)]) /\ Like([p EXCEPT !.writes = Append(@, l.name)])
  BY DEF Parsed
<1> HIDE DEF Like
<1>7. ASSUME AtObligation(p, n, l).error = <<>> PROVE Like(AtObligation(p, n, l))
  BY <1>3, <1>7, FailedIsFailed DEF AtObligation
<1>8. ASSUME AtTask(p, n, l).error = <<>> PROVE Like(AtTask(p, n, l))
  <2>1. p.list # "" => p.list \in ListFields
    BY ParsedFields
  <2>2. p.task # <<>>
    BY <1>8, FailedIsFailed DEF AtTask
  <2>3. CASE l.form = "bullet"
    BY <1>5, <1>8, <2>1, <2>2, <2>3, FailedIsFailed DEF AtTask
  <2>4. CASE l.form # "bullet"
    <3>1. l.name \in ListFields \cup {"kind", "timeout_seconds"} /\ l.form = "field"
      BY <1>8, <2>2, <2>4, FailedIsFailed DEF AtTask
    <3>2. CASE l.name \in ListFields
      <4>1. AtTask(p, n, l) = [AddValues(p, l.name, l.vals, n) EXCEPT !.list = l.name]
        BY <2>2, <3>1, <3>2 DEF AtTask, ListFields
      <4> QED
        BY <1>5, <2>2, <3>2, <4>1
    <3>3. CASE l.name = "kind"
      BY <1>4, <2>2, <3>1, <3>3 DEF AtTask, ListFields
    <3>4. CASE l.name = "timeout_seconds"
      BY <1>4, <1>8, <2>2, <3>1, <3>4, FailedIsFailed DEF AtTask, ListFields
    <3> QED
      BY <3>1, <3>2, <3>3, <3>4
  <2> QED
    BY <2>3, <2>4
<1>9. ASSUME p.section \in {"reads", "writes"}, AtPath(p, n, l).error = <<>>
      PROVE  Like(AtPath(p, n, l))
  BY <1>6, <1>9, FailedIsFailed DEF AtPath
<1> QED
  BY <1>1, <1>7, <1>8, <1>9

LEMMA StepNames ==
  ASSUME NEW p \in Parsed, NEW n \in Nat, NEW l, IsLine(l), Step(p, n, l).error = <<>>
  PROVE  /\ p.error = <<>>
         /\ TaskNames(Step(p, n, l)) = TaskNames(p) \o NameIf(l, "task")
         /\ ObligationNames(Step(p, n, l)) = ObligationNames(p) \o NameIf(l, "obligation")
<1>1. CASE l.form \in Headings
  <2>1. p.error = <<>> /\ Step(p, n, l) = AtHeading(p, n, l)
    BY <1>1 DEF Step
  <2> QED
    BY <2>1, HeadingNames
<1>2. CASE l.form \notin Headings
  <2>1. NameIf(l, "task") = <<>> /\ NameIf(l, "obligation") = <<>>
    BY <1>2 DEF Headings, NameIf
  <2>2. TaskNames(p) \o <<>> = TaskNames(p) /\ ObligationNames(p) \o <<>> = ObligationNames(p)
    BY NamesAreWords, NothingAdded
  <2>3. p.error = <<>>
    BY DEF Step
  <2>4. /\ TaskNames(Step(p, n, l)) = TaskNames(p)
        /\ ObligationNames(Step(p, n, l)) = ObligationNames(p)
    BY <1>2, <2>3, LineNames DEF Step
  <2> QED
    BY <2>1, <2>2, <2>3, <2>4
<1> QED
  BY <1>1, <1>2

\* What the parser has made of the first lines of b, for every number up to n.
ParsedTo(b, n, f) == f = [k \in 0..n |-> IF k = 0 THEN Start ELSE Step(f[k - 1], k, b[k])]

LEMMA ParsesThereAre ==
  ASSUME NEW b, NEW n \in Nat
  PROVE  \E f : ParsedTo(b, n, f)
<1> DEFINE T == {k \in 0..n : ~ \E f : ParsedTo(b, k, f)}
<1>1. ASSUME NEW m \in T, \A k \in T : m <= k PROVE FALSE
  <2>1. CASE m = 0
    <3>1. ParsedTo(b, 0, [k \in 0..0 |-> Start])
      BY DEF ParsedTo
    <3> QED
      BY <2>1, <3>1
  <2>2. CASE m > 0
    <3>1. m \in Nat /\ m - 1 \in 0..n /\ m - 1 \notin T
      BY <1>1, <2>2
    <3>2. PICK g : ParsedTo(b, m - 1, g)
      BY <3>1
    <3> DEFINE last == Step(g[m - 1], m, b[m])
               h == [k \in 0..m |-> IF k = m THEN last ELSE g[k]]
               H(k) == IF k = 0 THEN Start ELSE Step(h[k - 1], k, b[k])
    <3>3. ASSUME NEW k \in 0..m PROVE h[k] = H(k)
      <4>1. \A j \in 0..(m - 1) : g[j] = IF j = 0 THEN Start ELSE Step(g[j - 1], j, b[j])
        BY <3>2 DEF ParsedTo
      <4>2. CASE k = m
        BY <2>2, <3>1, <4>2
      <4>3. CASE k # m
        <5>1. k \in 0..(m - 1) /\ h[k] = g[k] /\ (k # 0 => k - 1 \in 0..m /\ k - 1 # m)
          BY <2>2, <3>1, <4>3
        <5>2. k # 0 => h[k - 1] = g[k - 1]
          BY <5>1
        <5> QED
          BY <4>1, <5>1, <5>2
      <4> QED
        BY <4>2, <4>3
    <3>4. ParsedTo(b, m, h)
      <4>1. h = [k \in 0..m |-> h[k]]
        OBVIOUS
      <4>2. \A k \in 0..m : h[k] = H(k)
        BY <3>3
      <4> HIDE DEF h
      <4>3. h = [k \in 0..m |-> H(k)]
        BY <4>1, <4>2
      <4> QED
        BY <4>3 DEF ParsedTo
    <3> QED
      BY <3>4
  <2> QED
    BY <1>1, <2>1, <2>2
<1>2. T \in SUBSET Nat
  OBVIOUS
<1>3. T = {}
  <2> HIDE DEF T
  <2> QED
    BY <1>1, <1>2, LeastNumber
<1> QED
  BY <1>3

NamesUnder(b, form) == [i \in 1..Len(b) |-> NameIf(b[i], form)]

\* The headings of a form in the first lines of b.
HeadingsTo(f, k) == IF k = 0 THEN <<>> ELSE f[k]

\* What is parsed has its type, and until there is an error no heading is lost.
LEMMA BriefParsed ==
  ASSUME NEW S, NEW b \in Seq(S), \A l \in S : IsLine(l)
  PROVE  /\ Parse(b) \in Parsed
         /\ Parse(b).error = <<>> =>
              /\ NamesOf(Parse(b).tasks) = FlattenSeq(NamesUnder(b, "task"))
              /\ NamesOf(Parse(b).obligations) = FlattenSeq(NamesUnder(b, "obligation"))
<1> DEFINE n == Len(b)
           F == CHOOSE f : ParsedTo(b, n, f)
           ts == NamesUnder(b, "task")
           os == NamesUnder(b, "obligation")
<1>1. n \in Nat /\ \A k \in 1..n : IsLine(b[k])
  OBVIOUS
<1>2. ParsedTo(b, n, F)
  BY <1>1, ParsesThereAre
<1>3. /\ Len(ts) = n /\ Len(os) = n
      /\ n = 0 => ts = <<>> /\ os = <<>>
  BY <1>1 DEF NamesUnder
<1>4. PICK X : JoinedTo(ts, n, X) /\ FlattenSeq(ts) = IF n = 0 THEN ts ELSE X[n]
  BY <1>1, <1>3, FlatteningJoins
<1>5. PICK Y : JoinedTo(os, n, Y) /\ FlattenSeq(os) = IF n = 0 THEN os ELSE Y[n]
  BY <1>1, <1>3, FlatteningJoins
<1>6. Parse(b) = Finished(F[n])
  BY DEF Parse, ParsedTo
<1>7. FlattenSeq(ts) = HeadingsTo(X, n) /\ FlattenSeq(os) = HeadingsTo(Y, n)
  BY <1>3, <1>4, <1>5 DEF HeadingsTo
<1> HIDE DEF F, ts, os, n
<1> DEFINE Good(k) ==
             /\ F[k] \in Parsed
             /\ F[k].error = <<>> =>
                  /\ TaskNames(F[k]) = HeadingsTo(X, k)
                  /\ ObligationNames(F[k]) = HeadingsTo(Y, k)
           T == {k \in 0..n : ~Good(k)}
<1>8. Good(0)
  <2>1. F[0] = Start /\ Start \in Parsed
    BY <1>1, <1>2, StartParsed DEF ParsedTo
  <2>2. TaskNames(Start) = <<>> /\ ObligationNames(Start) = <<>>
    <3>1. /\ Start.tasks = <<>> /\ Start.task = <<>>
          /\ Start.obligations = <<>> /\ Start.obligation = <<>>
      BY DEF Start
    <3>2. <<>> \o <<>> = <<>>
      OBVIOUS
    <3> QED
      BY <3>1, <3>2, NamesOfOne DEF TaskNames, ObligationNames
  <2> QED
    BY <2>1, <2>2 DEF HeadingsTo
<1>9. ASSUME NEW k \in 1..n, Good(k - 1) PROVE Good(k)
  <2> DEFINE p == F[k - 1]
  <2>1. F[k] = Step(p, k, b[k]) /\ IsLine(b[k]) /\ k \in Nat /\ p \in Parsed
    BY <1>1, <1>2, <1>9 DEF ParsedTo
  <2>2. F[k] \in Parsed
    BY <2>1, StepParsed
  <2>3. ASSUME F[k].error = <<>>
        PROVE  /\ TaskNames(F[k]) = HeadingsTo(X, k)
               /\ ObligationNames(F[k]) = HeadingsTo(Y, k)
    <3>1. /\ p.error = <<>>
          /\ TaskNames(F[k]) = TaskNames(p) \o NameIf(b[k], "task")
          /\ ObligationNames(F[k]) = ObligationNames(p) \o NameIf(b[k], "obligation")
      <4>1. Step(p, k, b[k]).error = <<>>
        BY <2>1, <2>3
      <4> HIDE DEF p
      <4> QED
        BY <2>1, <4>1, StepNames
    <3>2. TaskNames(p) = HeadingsTo(X, k - 1) /\ ObligationNames(p) = HeadingsTo(Y, k - 1)
      BY <1>9, <3>1
    <3>3. ts[k] = NameIf(b[k], "task") /\ os[k] = NameIf(b[k], "obligation")
      BY DEF ts, os, n, NamesUnder
    <3>4. \A form : <<>> \o NameIf(b[k], form) = NameIf(b[k], form)
      BY DEF NameIf
    <3>5. /\ X[k] = IF k = 1 THEN ts[k] ELSE X[k - 1] \o ts[k]
          /\ Y[k] = IF k = 1 THEN os[k] ELSE Y[k - 1] \o os[k]
      BY <1>4, <1>5 DEF JoinedTo
    <3>6. k # 0 /\ (k - 1 = 0 <=> k = 1)
      BY <1>1
    <3> HIDE DEF p
    <3> QED
      BY <3>1, <3>2, <3>3, <3>4, <3>5, <3>6 DEF HeadingsTo
  <2> QED
    BY <2>2, <2>3
<1> HIDE DEF Good
<1>10. ASSUME NEW m \in T, \A k \in T : m <= k PROVE FALSE
  <2>1. m # 0
    BY <1>8
  <2>2. m \in 1..n /\ m - 1 \in 0..n /\ ~(m <= m - 1)
    BY <1>1, <2>1
  <2>3. Good(m - 1)
    BY <1>10, <2>2
  <2> QED
    BY <1>9, <2>2, <2>3
<1>11. T = {}
  <2>1. T \in SUBSET Nat
    BY <1>1
  <2> HIDE DEF T
  <2> QED
    BY <1>10, <2>1, LeastNumber
<1>12. Good(n)
  BY <1>1, <1>11
<1> DEFINE p == F[n]
           q == FinishTask(p)
           r == FinishObligation(q)
<1>13. p \in Parsed /\ q \in Parsed /\ r \in Parsed /\ Parse(b) = r
  BY <1>6, <1>12, FinishParsed DEF Good, Finished
<1>14. /\ q.error = p.error /\ r.error = q.error /\ r.tasks = q.tasks
       /\ NamesOf(q.tasks) = TaskNames(p)
       /\ ObligationNames(q) = ObligationNames(p)
       /\ NamesOf(r.obligations) = ObligationNames(q)
  <2> HIDE DEF p
  <2>1. /\ q.error = p.error /\ NamesOf(q.tasks) = TaskNames(p)
        /\ ObligationNames(q) = ObligationNames(p)
    BY <1>13, FinishNames
  <2> HIDE DEF q
  <2>2. r.error = q.error /\ r.tasks = q.tasks /\ NamesOf(r.obligations) = ObligationNames(q)
    BY <1>13, FinishNames
  <2> QED
    BY <2>1, <2>2
<1> HIDE DEF r, q
<1> QED
  BY <1>7, <1>12, <1>13, <1>14 DEF Good, ts, os

-----------------------------------------------------------------------------
(* What lint and compile find. *)

Codes ==
  {"STRUCTURED_OBLIGATION_ID_INVALID", "STRUCTURED_OBLIGATION_ID_DUPLICATE",
   "STRUCTURED_TASK_ID_INVALID", "STRUCTURED_TASK_ID_DUPLICATE",
   "STRUCTURED_TASK_DEP_UNKNOWN", "STRUCTURED_TASK_OBLIGATION_UNKNOWN",
   "STRUCTURED_TASK_WRITE_INVALID", "STRUCTURED_TASK_WRITE_UNDECLARED",
   "CONTRACT_INVALID", "WORKSPACE_WRITE_INVALID"}

Findings == [code : Codes, line : Nat]

LEMMA FirstOne ==
  ASSUME NEW S, NEW s \in Seq(S), NEW r \in Seq(S)
  PROVE  /\ s \o r \in Seq(S)
         /\ First(s \o r) = IF s = <<>> THEN First(r) ELSE First(s)
         /\ s \o r = <<>> <=> s = <<>> /\ r = <<>>
         /\ First(s) = <<>> <=> s = <<>>
         /\ First(First(s)) = First(s)
<1>1. s = <<>> => s \o r = r
  OBVIOUS
<1>2. s # <<>> => s \o r # <<>> /\ Head(s \o r) = Head(s)
  OBVIOUS
<1>3. \A x : <<x>> # <<>> /\ Head(<<x>>) = x
  OBVIOUS
<1> QED
  BY <1>1, <1>2, <1>3 DEF First

\* What is found of the entries of a list.
LEMMA EntryProblemsAre ==
  ASSUME NEW E, NEW entries \in Seq(E), \A e \in E : e.line \in Nat,
         NEW invalid \in Codes, NEW duplicate \in Codes
  PROVE  /\ EntryProblems(entries, invalid, duplicate) \in Seq(Findings)
         /\ EntryProblems(entries, invalid, duplicate) = <<>> =>
              IdsAccepted(entries) = Ids(entries)
<1> DEFINE s == [i \in 1..Len(entries) |-> EntryProblem(entries, i, invalid, duplicate)]
<1>1. ASSUME NEW i \in 1..Len(entries)
      PROVE  /\ EntryProblem(entries, i, invalid, duplicate) \in Seq(Findings)
             /\ EntryProblem(entries, i, invalid, duplicate) = <<>> =>
                  entries[i].id \in PublicIds
  <2>1. entries[i].line \in Nat
    OBVIOUS
  <2>2. Diag(invalid, entries[i].line) \in Findings /\ Diag(duplicate, entries[i].line) \in Findings
    BY <2>1 DEF Findings, Diag
  <2>3. \A d \in Findings : <<d>> \in Seq(Findings) /\ <<d>> # <<>>
    OBVIOUS
  <2>4. <<>> \in Seq(Findings)
    OBVIOUS
  <2> QED
    BY <2>2, <2>3, <2>4 DEF EntryProblem
<1>2. EntryProblems(entries, invalid, duplicate) = FlattenSeq(s)
  BY DEF EntryProblems, Joined
<1>3. Len(entries) \in Nat /\ s \in [1..Len(entries) -> Seq(Findings)]
  BY <1>1
<1>4. \A i \in 1..Len(entries) : s[i] = EntryProblem(entries, i, invalid, duplicate)
  OBVIOUS
<1> HIDE DEF s
<1>5. /\ FlattenSeq(s) \in Seq(Findings)
      /\ FlattenSeq(s) = <<>> <=> \A i \in 1..Len(entries) : s[i] = <<>>
  BY <1>3, FlattenedEmpty
<1>6. DOMAIN entries = 1..Len(entries)
  OBVIOUS
<1>7. ASSUME FlattenSeq(s) = <<>> PROVE Ids(entries) \subseteq PublicIds
  BY <1>1, <1>4, <1>5, <1>6, <1>7 DEF Ids
<1> QED
  BY <1>2, <1>5, <1>7 DEF IdsAccepted

\* What a task refers to and is not there.
LEMMA UnknownAre ==
  ASSUME NEW items \in Seq(Items), NEW known, NEW code \in Codes
  PROVE  /\ Unknown(items, known, code) \in Seq(Findings)
         /\ Unknown(items, known, code) = <<>> <=> Range(Values(items)) \subseteq known
<1> DEFINE problem(i) == IF items[i].value \in known THEN <<>> ELSE <<Diag(code, items[i].line)>>
           s == [i \in 1..Len(items) |-> problem(i)]
<1>1. ASSUME NEW i \in 1..Len(items)
      PROVE  /\ problem(i) \in Seq(Findings)
             /\ problem(i) = <<>> <=> items[i].value \in known
  <2>0. items[i] \in Items
    OBVIOUS
  <2>1. items[i].line \in Nat
    BY <2>0 DEF Items
  <2>2. Diag(code, items[i].line) \in Findings
    BY <2>1 DEF Findings, Diag
  <2>3. \A d \in Findings : <<d>> \in Seq(Findings) /\ <<d>> # <<>>
    OBVIOUS
  <2>4. <<>> \in Seq(Findings)
    OBVIOUS
  <2> QED
    BY <2>2, <2>3, <2>4
<1>2. Unknown(items, known, code) = FlattenSeq(s)
  BY DEF Unknown, Joined
<1>3. Len(items) \in Nat /\ s \in [1..Len(items) -> Seq(Findings)]
  BY <1>1
<1>4. \A i \in 1..Len(items) : s[i] = problem(i)
  OBVIOUS
<1> HIDE DEF s, problem
<1>5. /\ FlattenSeq(s) \in Seq(Findings)
      /\ FlattenSeq(s) = <<>> <=> \A i \in 1..Len(items) : s[i] = <<>>
  BY <1>3, FlattenedEmpty
<1>6. Range(Values(items)) = {items[i].value : i \in 1..Len(items)}
  BY DEF Range, Values
<1> QED
  BY <1>1, <1>2, <1>4, <1>5, <1>6

\* What a task writes and may not.
LEMMA WriteProblemsAre ==
  ASSUME NEW t \in TaskEntries, NEW declared
  PROVE  /\ WriteProblems(t, declared) \in Seq(Findings)
         /\ WriteProblems(t, declared) = <<>> <=>
              \A i \in DOMAIN t.writes : Clean[t.writes[i].value] \in Paths \cap declared
<1> DEFINE problem(item) ==
             IF Clean[item.value] \notin Paths THEN <<Diag("STRUCTURED_TASK_WRITE_INVALID", item.line)>>
             ELSE IF Clean[item.value] \notin declared
                  THEN <<Diag("STRUCTURED_TASK_WRITE_UNDECLARED", item.line)>>
             ELSE <<>>
           n == Len(t.writes)
           s == [i \in 1..n |-> problem(t.writes[i])]
<1>0. t.writes \in Seq(Items)
  BY DEF TaskEntries
<1>1. ASSUME NEW i \in 1..n
      PROVE  /\ problem(t.writes[i]) \in Seq(Findings)
             /\ problem(t.writes[i]) = <<>> <=> Clean[t.writes[i].value] \in Paths \cap declared
  <2>0. t.writes[i] \in Items
    BY <1>0
  <2>1. t.writes[i].line \in Nat
    BY <2>0 DEF Items
  <2>2. /\ Diag("STRUCTURED_TASK_WRITE_INVALID", t.writes[i].line) \in Findings
        /\ Diag("STRUCTURED_TASK_WRITE_UNDECLARED", t.writes[i].line) \in Findings
    BY <2>1 DEF Findings, Diag, Codes
  <2>3. \A d \in Findings : <<d>> \in Seq(Findings) /\ <<d>> # <<>>
    OBVIOUS
  <2>4. <<>> \in Seq(Findings)
    OBVIOUS
  <2> QED
    BY <2>2, <2>3, <2>4
<1>2. WriteProblems(t, declared) = FlattenSeq(s)
  BY DEF WriteProblems, Joined
<1>3. n \in Nat /\ s \in [1..n -> Seq(Findings)] /\ DOMAIN t.writes = 1..n
  BY <1>0, <1>1
<1>4. \A i \in 1..n : s[i] = problem(t.writes[i])
  OBVIOUS
<1> HIDE DEF s, problem, n
<1>5. /\ FlattenSeq(s) \in Seq(Findings)
      /\ FlattenSeq(s) = <<>> <=> \A i \in 1..n : s[i] = <<>>
  BY <1>3, FlattenedEmpty
<1> QED
  BY <1>1, <1>2, <1>3, <1>4, <1>5

\* A task that refers to nothing unknown and writes nothing it may not.
RefersWell(t, declared, tasks, obligations) ==
  /\ Range(Values(t.depends_on)) \subseteq tasks
  /\ Range(Values(t.obligations)) \subseteq obligations
  /\ \A i \in DOMAIN t.writes : Clean[t.writes[i].value] \in Paths \cap declared

LEMMA ReferenceProblemsAre ==
  ASSUME NEW p \in Parsed, NEW declared, NEW tasks, NEW obligations
  PROVE  /\ ReferenceProblems(p, declared, tasks, obligations) \in Seq(Findings)
         /\ ReferenceProblems(p, declared, tasks, obligations) = <<>> =>
              \A t \in DOMAIN p.tasks : RefersWell(p.tasks[t], declared, tasks, obligations)
<1> DEFINE problems(t) ==
             Unknown(p.tasks[t].depends_on, tasks, "STRUCTURED_TASK_DEP_UNKNOWN")
               \o Unknown(p.tasks[t].obligations, obligations, "STRUCTURED_TASK_OBLIGATION_UNKNOWN")
               \o WriteProblems(p.tasks[t], declared)
           n == Len(p.tasks)
           s == [t \in 1..n |-> problems(t)]
<1>0. p.tasks \in Seq(TaskEntries)
  BY ParsedFields
<1>1. ASSUME NEW t \in 1..n
      PROVE  /\ problems(t) \in Seq(Findings)
             /\ problems(t) = <<>> => RefersWell(p.tasks[t], declared, tasks, obligations)
  <2> DEFINE a == Unknown(p.tasks[t].depends_on, tasks, "STRUCTURED_TASK_DEP_UNKNOWN")
             b == Unknown(p.tasks[t].obligations, obligations, "STRUCTURED_TASK_OBLIGATION_UNKNOWN")
             c == WriteProblems(p.tasks[t], declared)
  <2>1. p.tasks[t] \in TaskEntries
    BY <1>0
  <2>2. p.tasks[t].depends_on \in Seq(Items) /\ p.tasks[t].obligations \in Seq(Items)
    BY <2>1 DEF TaskEntries
  <2>3. "STRUCTURED_TASK_DEP_UNKNOWN" \in Codes /\ "STRUCTURED_TASK_OBLIGATION_UNKNOWN" \in Codes
    BY DEF Codes
  <2>4. /\ a \in Seq(Findings) /\ b \in Seq(Findings)
        /\ a = <<>> <=> Range(Values(p.tasks[t].depends_on)) \subseteq tasks
        /\ b = <<>> <=> Range(Values(p.tasks[t].obligations)) \subseteq obligations
    BY <2>2, <2>3, UnknownAre
  <2>5. /\ c \in Seq(Findings)
        /\ c = <<>> <=> \A i \in DOMAIN p.tasks[t].writes :
                          Clean[p.tasks[t].writes[i].value] \in Paths \cap declared
    BY <2>1, WriteProblemsAre
  <2>6. problems(t) = (a \o b) \o c
    OBVIOUS
  <2> HIDE DEF a, b, c, problems
  <2>7. a \o b \in Seq(Findings) /\ (a \o b = <<>> <=> a = <<>> /\ b = <<>>)
    BY <2>4, FirstOne
  <2>8. problems(t) \in Seq(Findings) /\ (problems(t) = <<>> <=> a \o b = <<>> /\ c = <<>>)
    BY <2>5, <2>6, <2>7, FirstOne
  <2> QED
    BY <2>4, <2>5, <2>7, <2>8 DEF RefersWell
<1>2. ReferenceProblems(p, declared, tasks, obligations) = FlattenSeq(s)
  BY DEF ReferenceProblems, Joined
<1>3. n \in Nat /\ s \in [1..n -> Seq(Findings)] /\ DOMAIN p.tasks = 1..n
  <2> HIDE DEF problems
  <2> QED
    BY <1>0, <1>1
<1>4. \A t \in 1..n : s[t] = problems(t)
  OBVIOUS
<1> HIDE DEF s, problems, n
<1>5. /\ FlattenSeq(s) \in Seq(Findings)
      /\ FlattenSeq(s) = <<>> <=> \A i \in 1..n : s[i] = <<>>
  BY <1>3, FlattenedEmpty
<1> QED
  BY <1>1, <1>2, <1>3, <1>4, <1>5

LEMMA FirstOfOne ==
  /\ First(<<>>) = <<>>
  /\ \A x : First(<<x>>) = <<x>>
<1>1. \A x : <<x>> # <<>> /\ Head(<<x>>) = x
  OBVIOUS
<1> QED
  BY <1>1 DEF First

LEMMA EntriesHaveLines ==
  /\ \A e \in TaskEntries : e.line \in Nat
  /\ \A e \in ObligationEntries : e.line \in Nat
  BY DEF TaskEntries, ObligationEntries

\* lint goes on where compile stops, and begins with what compile stops at.
LEMMA AuthoringAgrees ==
  ASSUME NEW p \in Parsed, NEW declared
  PROVE  /\ First(LintAuthoring(p, declared)) = AuthoringError(p, declared)
         /\ LintAuthoring(p, declared) \in Seq(Findings)
         /\ First(AuthoringError(p, declared)) = AuthoringError(p, declared)
         /\ AuthoringError(p, declared) = <<>> =>
              \A t \in DOMAIN p.tasks :
                RefersWell(p.tasks[t], declared, Ids(p.tasks), Ids(p.obligations))
<1> DEFINE o == ObligationProblems(p)
           t == TaskProblems(p)
           r == ReferenceProblems(p, declared, IdsAccepted(p.tasks), IdsAccepted(p.obligations))
           q == ReferenceProblems(p, declared, Ids(p.tasks), Ids(p.obligations))
<1>1. p.obligations \in Seq(ObligationEntries) /\ p.tasks \in Seq(TaskEntries)
  BY ParsedFields
<1>2. /\ "STRUCTURED_OBLIGATION_ID_INVALID" \in Codes
      /\ "STRUCTURED_OBLIGATION_ID_DUPLICATE" \in Codes
      /\ "STRUCTURED_TASK_ID_INVALID" \in Codes /\ "STRUCTURED_TASK_ID_DUPLICATE" \in Codes
  BY DEF Codes
<1>3. o \in Seq(Findings) /\ (o = <<>> => IdsAccepted(p.obligations) = Ids(p.obligations))
  BY <1>1, <1>2, EntriesHaveLines, EntryProblemsAre DEF ObligationProblems
<1>4. t \in Seq(Findings) /\ (t = <<>> => IdsAccepted(p.tasks) = Ids(p.tasks))
  BY <1>1, <1>2, EntriesHaveLines, EntryProblemsAre DEF TaskProblems
<1>5. r \in Seq(Findings) /\ q \in Seq(Findings)
  BY ReferenceProblemsAre
<1>6. q = <<>> => \A i \in DOMAIN p.tasks :
                    RefersWell(p.tasks[i], declared, Ids(p.tasks), Ids(p.obligations))
  BY ReferenceProblemsAre
<1>7. o = <<>> /\ t = <<>> => r = q
  BY <1>3, <1>4
<1>8. LintAuthoring(p, declared) = (o \o t) \o r
  BY DEF LintAuthoring
<1>9. AuthoringError(p, declared) =
        IF o # <<>> THEN First(o) ELSE IF t # <<>> THEN First(t) ELSE First(q)
  BY DEF AuthoringError
<1> HIDE DEF o, t, r, q
<1>10. o \o t \in Seq(Findings) /\ First(o \o t) = (IF o = <<>> THEN First(t) ELSE First(o))
       /\ (o \o t = <<>> <=> o = <<>> /\ t = <<>>)
  BY <1>3, <1>4, FirstOne
<1>11. /\ (o \o t) \o r \in Seq(Findings)
       /\ First((o \o t) \o r) = IF o \o t = <<>> THEN First(r) ELSE First(o \o t)
  BY <1>5, <1>10, FirstOne
<1>12. /\ First(First(o)) = First(o) /\ First(First(t)) = First(t) /\ First(First(q)) = First(q)
       /\ (First(o) = <<>> <=> o = <<>>) /\ (First(t) = <<>> <=> t = <<>>)
       /\ (First(q) = <<>> <=> q = <<>>)
  BY <1>3, <1>4, <1>5, FirstOne
<1> QED
  BY <1>6, <1>7, <1>8, <1>9, <1>10, <1>11, <1>12

LEMMA ValidateErrorIsOne ==
  ASSUME NEW p, NEW c
  PROVE  /\ First(ValidateError(p, c)) = ValidateError(p, c)
         /\ ValidateError(p, c) = <<>> => c.required # {} /\ ~HasCycle(c)
<1>1. \A d : <<d>> # <<>>
  OBVIOUS
<1> QED
  BY <1>1, FirstOfOne DEF ValidateError

HasHead(s) == s # <<>> => 1 \in DOMAIN s /\ Head(s) = s[1]

LEMMA HeadsThereAre ==
  /\ \A S : \A s \in Seq(S) : HasHead(s)
  /\ \A s : First(s) = s => HasHead(s)
<1>1. ASSUME NEW S, NEW s \in Seq(S) PROVE HasHead(s)
  BY DEF HasHead
<1>2. ASSUME NEW s, First(s) = s PROVE HasHead(s)
  <2>1. ASSUME s # <<>> PROVE 1 \in DOMAIN s /\ Head(s) = s[1]
    <3> DEFINE h == Head(s)
    <3>1. s = <<h>>
      BY <1>2, <2>1 DEF First
    <3> HIDE DEF h
    <3>2. 1 \in DOMAIN s /\ s[1] = h
      BY <3>1
    <3> QED
      BY <3>2 DEF h
  <2> QED
    BY <2>1 DEF HasHead
<1> QED
  BY <1>1, <1>2

\* compile reports one error, and lint reports that one first.
LEMMA StructuredAgrees ==
  ASSUME NEW p \in Parsed, NEW o
  PROVE  /\ HasHead(LintStructured(p, o))
         /\ First(BuildError(p, o)) = BuildError(p, o)
         /\ First(LintStructured(p, o)) = BuildError(p, o)
         /\ LintStructured(p, o) = <<>> => BuildError(p, o) = <<>>
<1> DEFINE writes == WorkspaceWrites(p, o)
           declared == Range(Cleaned(writes))
           reported == LintAuthoring(p, declared)
           stop == AuthoringError(p, declared)
           reads == IF Within(p.reads) THEN <<>> ELSE <<Diag("CONTRACT_INVALID", 0)>>
           rest == IF Within(writes) THEN reported ELSE <<Diag("WORKSPACE_WRITE_INVALID", 0)>>
           last == ValidateError(p, StructuredContract(p, o))
           all == reads \o rest
<1>1. First(reported) = stop /\ reported \in Seq(Findings) /\ First(stop) = stop
  BY AuthoringAgrees
<1>2. First(last) = last
  BY ValidateErrorIsOne
<1>3. BuildError(p, o) =
        IF ~Within(p.reads) THEN <<Diag("CONTRACT_INVALID", 0)>>
        ELSE IF ~Within(writes) THEN <<Diag("WORKSPACE_WRITE_INVALID", 0)>>
        ELSE IF stop # <<>> THEN stop
        ELSE IF \E t \in DOMAIN p.tasks : ~Within(Values(p.tasks[t].reads))
             THEN <<Diag("CONTRACT_SIDE_EFFECT_RESOURCE_INVALID", 0)>>
        ELSE last
  BY DEF BuildError
<1>4. LintStructured(p, o) = IF all # <<>> THEN all ELSE BuildError(p, o)
  BY DEF LintStructured
<1>5. reads \in Seq(Findings) /\ rest \in Seq(Findings)
  <2>1. Diag("CONTRACT_INVALID", 0) \in Findings /\ Diag("WORKSPACE_WRITE_INVALID", 0) \in Findings
    BY DEF Findings, Diag, Codes
  <2>2. <<>> \in Seq(Findings) /\ \A d \in Findings : <<d>> \in Seq(Findings)
    OBVIOUS
  <2> QED
    BY <1>1, <2>1, <2>2
<1>6. /\ reads = <<>> <=> Within(p.reads)
      /\ ~Within(p.reads) => First(reads) = <<Diag("CONTRACT_INVALID", 0)>>
      /\ Within(writes) => First(rest) = stop
      /\ ~Within(writes) => First(rest) = <<Diag("WORKSPACE_WRITE_INVALID", 0)>>
      /\ \A d : <<d>> # <<>>
  <2>1. \A d : <<d>> # <<>>
    OBVIOUS
  <2> QED
    BY <1>1, <2>1, FirstOfOne
<1> HIDE DEF writes, reported, stop, reads, rest, last, all
<1>7. /\ all \in Seq(Findings)
      /\ First(all) = IF reads = <<>> THEN First(rest) ELSE First(reads)
      /\ all = <<>> <=> reads = <<>> /\ rest = <<>>
      /\ First(all) = <<>> <=> all = <<>>
  <2>1. /\ all \in Seq(Findings)
        /\ First(all) = IF reads = <<>> THEN First(rest) ELSE First(reads)
        /\ all = <<>> <=> reads = <<>> /\ rest = <<>>
    BY <1>5, FirstOne DEF all
  <2>2. First(all) = <<>> <=> all = <<>>
    BY <2>1, FirstOne
  <2> QED
    BY <2>1, <2>2
<1>8. First(BuildError(p, o)) = BuildError(p, o)
  BY <1>1, <1>2, <1>3, FirstOfOne
<1>9. CASE all = <<>>
  BY <1>4, <1>8, <1>9, HeadsThereAre
<1>10. CASE all # <<>>
  <2>1. First(all) # <<>> /\ LintStructured(p, o) = all
    BY <1>4, <1>7, <1>10
  <2>2. First(all) = BuildError(p, o)
    BY <1>3, <1>6, <1>7, <2>1
  <2>3. HasHead(all)
    BY <1>7, HeadsThereAre
  <2> QED
    BY <1>8, <1>10, <2>1, <2>2, <2>3
<1> QED
  BY <1>9, <1>10

LEMMA ErrorsAreOne ==
  ASSUME NEW p \in Parsed PROVE First(p.error) = p.error
<1> DEFINE S == [code : ParserCodes, line : Nat]
<1>1. p.error \in AtMostOne(S)
  BY DEF Parsed
<1>2. p.error = <<>> \/ p.error = <<p.error[1]>>
  BY <1>1, OneAtMost
<1> QED
  BY <1>2, FirstOfOne

LEMMA BriefAgrees ==
  ASSUME NEW b, Parse(b) \in Parsed, NEW o
  PROVE  /\ First(LintBrief(b, o)) = CompileError(b, o)
         /\ LintBrief(b, o) = <<>> => CompileError(b, o) = <<>>
         /\ HasHead(LintBrief(b, o))
<1> DEFINE p == Parse(b)
<1>1. First(p.error) = p.error
  BY ErrorsAreOne
<1>2. First(PlainError(o)) = PlainError(o)
  BY FirstOfOne DEF PlainError
<1>3. /\ First(BuildError(p, o)) = BuildError(p, o)
      /\ First(LintStructured(p, o)) = BuildError(p, o)
      /\ LintStructured(p, o) = <<>> => BuildError(p, o) = <<>>
      /\ HasHead(LintStructured(p, o))
  BY StructuredAgrees
<1>4. CompileError(b, o) = IF b = <<>> THEN <<Diag("BRIEF_REQUIRED", 0)>>
                           ELSE IF p.error # <<>> THEN p.error
                           ELSE IF IsStructured(p) THEN BuildError(p, o)
                           ELSE PlainError(o)
  BY DEF CompileError
<1>5. LintBrief(b, o) = IF b # <<>> /\ p.error = <<>> /\ IsStructured(p)
                        THEN LintStructured(p, o) ELSE CompileError(b, o)
  BY DEF LintBrief
<1> HIDE DEF p
<1>6. First(CompileError(b, o)) = CompileError(b, o)
  BY <1>1, <1>2, <1>3, <1>4, FirstOfOne
<1> QED
  BY <1>3, <1>4, <1>5, <1>6, HeadsThereAre

-----------------------------------------------------------------------------
(* What is compiled. *)

\* A task, with nothing to write but into W.
WritesOnlyTo(x, W) ==
  /\ x = [kind |-> x.kind, deps |-> x.deps, effects |-> x.effects, claims |-> x.claims]
  /\ \A n \in DOMAIN x.effects : x.effects[n].type = "file.write" => x.effects[n].res \in W

Shaped(c) ==
  c = [objective |-> c.objective, tasks |-> c.tasks, obligations |-> c.obligations,
       required |-> c.required, evaluator |-> c.evaluator, reads |-> c.reads,
       writes |-> c.writes, approvals |-> c.approvals]

\* What compile writes and editing leaves of it.
Compiled(c) ==
  /\ Shaped(c) /\ c.approvals \in Seq(Slips)
  /\ \E S : c.tasks \in Seq(S) /\ \A x \in S : WritesOnlyTo(x, c.writes)

LEMMA BuiltIsSound ==
  ASSUME NEW p, NEW o, BuildError(p, o) = <<>>
  PROVE  /\ AuthoringError(p, Range(Cleaned(WorkspaceWrites(p, o)))) = <<>>
         /\ StructuredContract(p, o).required # {}
         /\ ~HasCycle(StructuredContract(p, o))
<1> DEFINE declared == Range(Cleaned(WorkspaceWrites(p, o)))
           c == StructuredContract(p, o)
<1>1. \A d : <<d>> # <<>>
  OBVIOUS
<1>2. AuthoringError(p, declared) = <<>> /\ ValidateError(p, c) = <<>>
  <2> HIDE DEF declared, c
  <2> QED
    BY <1>1 DEF BuildError, declared, c
<1> QED
  BY <1>2, ValidateErrorIsOne

LEMMA StructuredFields ==
  ASSUME NEW p, NEW o
  PROVE  LET c == StructuredContract(p, o) IN
         /\ Shaped(c) /\ c.approvals = <<>>
         /\ c.tasks = [t \in DOMAIN p.tasks |-> TaskOf(p, p.tasks[t])]
         /\ c.obligations = Ids(p.obligations)
         /\ c.required \subseteq c.obligations /\ c.evaluator = c.required
         /\ c.writes = Range(Cleaned(WorkspaceWrites(p, o)))
  BY DEF StructuredContract, Shaped, Ids

LEMMA TaskWritesInside ==
  ASSUME NEW p, NEW t \in TaskEntries, NEW W,
         \A i \in DOMAIN t.writes : Clean[t.writes[i].value] \in W
  PROVE  WritesOnlyTo(TaskOf(p, t), W)
<1> DEFINE a == Actions("file.write", Values(t.writes))
           b == Actions("file.read", Values(t.reads))
           x == TaskOf(p, t)
<1>1. t.writes \in Seq(Items) /\ t.reads \in Seq(Items)
  BY DEF TaskEntries
<1>2. /\ a = [i \in 1..Len(t.writes) |-> [type |-> "file.write", res |-> Clean[t.writes[i].value]]]
      /\ b = [i \in 1..Len(t.reads) |-> [type |-> "file.read", res |-> Clean[t.reads[i].value]]]
  BY <1>1 DEF Actions, Values
<1>3. x.effects = a \o b
  BY DEF TaskOf
<1>4. x = [kind |-> x.kind, deps |-> x.deps, effects |-> x.effects, claims |-> x.claims]
  BY DEF TaskOf
<1> DEFINE A == {a[i] : i \in 1..Len(t.writes)} \cup {b[i] : i \in 1..Len(t.reads)}
<1>5. a \in Seq(A) /\ b \in Seq(A)
  <2>1. Len(t.writes) \in Nat /\ Len(t.reads) \in Nat
    BY <1>1
  <2>2. a = [i \in 1..Len(t.writes) |-> a[i]] /\ b = [i \in 1..Len(t.reads) |-> b[i]]
    BY <1>2
  <2> HIDE DEF a, b
  <2>3. a \in [1..Len(t.writes) -> A] /\ b \in [1..Len(t.reads) -> A]
    BY <2>2
  <2> HIDE DEF A
  <2> QED
    BY <2>1, <2>3
<1>6. \A e \in A : e.type = "file.write" => e.res \in W
  <2>1. \A i \in 1..Len(t.writes) : a[i].res \in W
    BY <1>1, <1>2
  <2>2. \A i \in 1..Len(t.reads) : b[i].type = "file.read"
    BY <1>2
  <2> HIDE DEF a, b
  <2> QED
    BY <2>1, <2>2
<1> HIDE DEF a, b, A, x
<1>7. \A n \in DOMAIN (a \o b) : (a \o b)[n] \in A
  <2>1. a \o b \in Seq(A)
    BY <1>5
  <2> QED
    BY <2>1
<1> QED
  BY <1>3, <1>4, <1>6, <1>7 DEF WritesOnlyTo, x

LEMMA StructuredIsSound ==
  ASSUME NEW p \in Parsed, IsStructured(p), NEW o, BuildError(p, o) = <<>>
  PROVE  Valid(StructuredContract(p, o)) /\ Compiled(StructuredContract(p, o))
<1> DEFINE c == StructuredContract(p, o)
           declared == Range(Cleaned(WorkspaceWrites(p, o)))
<1>1. /\ Shaped(c) /\ c.approvals = <<>>
      /\ c.tasks = [t \in DOMAIN p.tasks |-> TaskOf(p, p.tasks[t])]
      /\ c.obligations = Ids(p.obligations)
      /\ c.required \subseteq c.obligations /\ c.evaluator = c.required
      /\ c.writes = declared
  BY StructuredFields
<1>2. AuthoringError(p, declared) = <<>> /\ c.required # {} /\ ~HasCycle(c)
  BY BuiltIsSound
<1>3. \A t \in DOMAIN p.tasks : RefersWell(p.tasks[t], declared, Ids(p.tasks), Ids(p.obligations))
  BY <1>2, AuthoringAgrees
<1>4. p.tasks \in Seq(TaskEntries) /\ p.tasks # <<>>
  BY ParsedFields DEF IsStructured
<1> HIDE DEF c, declared
<1>5. /\ TaskIds(c) = DOMAIN p.tasks /\ DOMAIN p.tasks = 1..Len(p.tasks)
      /\ c.tasks # <<>> /\ \A t \in TaskIds(c) : c.tasks[t] = TaskOf(p, p.tasks[t])
  <2>1. 1 \in DOMAIN p.tasks
    BY <1>4
  <2>2. DOMAIN <<>> = {}
    OBVIOUS
  <2> QED
    BY <1>1, <1>4, <2>1, <2>2 DEF TaskIds
<1>6. ASSUME NEW t \in TaskIds(c)
      PROVE  /\ c.tasks[t].claims \subseteq c.obligations /\ Deps(c, t) \subseteq TaskIds(c)
             /\ WritesOnlyTo(c.tasks[t], declared)
  <2>1. /\ c.tasks[t] = TaskOf(p, p.tasks[t]) /\ p.tasks[t] \in TaskEntries
        /\ RefersWell(p.tasks[t], declared, Ids(p.tasks), Ids(p.obligations))
    BY <1>3, <1>4, <1>5
  <2>2. /\ c.tasks[t].claims = Range(Values(p.tasks[t].obligations))
        /\ c.tasks[t].deps \subseteq DOMAIN p.tasks
    BY <2>1 DEF TaskOf
  <2>3. WritesOnlyTo(TaskOf(p, p.tasks[t]), declared)
    BY <2>1, TaskWritesInside DEF RefersWell
  <2> QED
    BY <1>1, <1>5, <2>1, <2>2, <2>3 DEF RefersWell, Deps
<1>7. ApprovalsValid(c)
  BY <1>1 DEF ApprovalsValid
<1>8. Valid(c)
  BY <1>1, <1>2, <1>5, <1>6, <1>7 DEF Valid
<1>9. Compiled(c)
  <2> DEFINE S == {c.tasks[t] : t \in 1..Len(p.tasks)}
  <2>1. c.tasks \in Seq(S)
    BY <1>1, <1>4, <1>5 DEF TaskIds
  <2>2. \A x \in S : WritesOnlyTo(x, c.writes)
    BY <1>1, <1>5, <1>6
  <2>3. c.approvals \in Seq(Slips)
    BY <1>1
  <2> HIDE DEF S
  <2> QED
    BY <1>1, <2>1, <2>2, <2>3 DEF Compiled
<1> QED
  BY <1>8, <1>9 DEF c

LEMMA PlainIsSound ==
  ASSUME NEW o
  PROVE  Valid(PlainContract(o)) /\ Compiled(PlainContract(o))
<1> DEFINE c == PlainContract(o)
           writes == PlainWrites(o)
           all == {Requested, Verified, Reviewed}
           one == PlainTask("scripted", {}, Requested,
                    [i \in DOMAIN writes |-> [type |-> "file.write", res |-> writes[i]]])
           two == PlainTask("verify", {1}, Verified, <<>>)
           three == PlainTask("review", {2}, Reviewed, <<>>)
<1>1. /\ c.tasks = <<one, two, three>> /\ c.obligations = all /\ c.required = all
      /\ c.evaluator = all /\ c.writes = Range(writes) /\ c.approvals = <<>> /\ Shaped(c)
  BY DEF PlainContract, Shaped
<1>2. /\ one.deps = {} /\ two.deps = {1} /\ three.deps = {2}
      /\ one.claims = {Requested} /\ two.claims = {Verified} /\ three.claims = {Reviewed}
  BY DEF PlainTask
<1>3. WritesOnlyTo(one, Range(writes)) /\ WritesOnlyTo(two, Range(writes)) /\ WritesOnlyTo(three, Range(writes))
  <2>1. WritesOnlyTo(one, Range(writes))
    BY DEF WritesOnlyTo, PlainTask, Range
  <2>2. WritesOnlyTo(two, Range(writes)) /\ WritesOnlyTo(three, Range(writes))
    BY DEF WritesOnlyTo, PlainTask
  <2> QED
    BY <2>1, <2>2
<1> HIDE DEF c, writes, one, two, three
<1>4. /\ TaskIds(c) = {1, 2, 3} /\ c.tasks # <<>>
      /\ c.tasks[1] = one /\ c.tasks[2] = two /\ c.tasks[3] = three
      /\ c.tasks \in Seq({one, two, three})
  BY <1>1 DEF TaskIds
<1>5. Deps(c, 1) = {} /\ Deps(c, 2) = {1} /\ Deps(c, 3) = {2}
  BY <1>2, <1>4 DEF Deps
<1>6. ~HasCycle(c)
  <2>1. ASSUME NEW S \in SUBSET {1, 2, 3}, S # {}, \A t \in S : Deps(c, t) \cap S # {}
        PROVE  FALSE
    <3>1. 1 \notin S
      BY <1>5, <2>1
    <3>2. 2 \notin S
      BY <1>5, <2>1, <3>1
    <3>3. 3 \notin S
      BY <1>5, <2>1, <3>2
    <3> QED
      BY <2>1, <3>1, <3>2, <3>3
  <2> QED
    BY <1>4, <2>1 DEF HasCycle
<1>7. ApprovalsValid(c)
  BY <1>1 DEF ApprovalsValid
<1>8. Valid(c)
  BY <1>1, <1>2, <1>4, <1>5, <1>6, <1>7 DEF Valid
<1>9. Compiled(c)
  <2>1. c.approvals \in Seq(Slips)
    BY <1>1
  <2> DEFINE S == {one, two, three}
  <2>2. c.tasks \in Seq(S) /\ \A x \in S : WritesOnlyTo(x, c.writes)
    BY <1>1, <1>3, <1>4
  <2> HIDE DEF S
  <2> QED
    BY <1>1, <2>1, <2>2 DEF Compiled
<1> QED
  BY <1>8, <1>9 DEF c

\* Editing by hand adds no write, and of tickets only slips.
LEMMA EditedIsCompiled ==
  ASSUME NEW c, Compiled(c), NEW d \in Edited(c)
  PROVE  Compiled(d)
<1>1. PICK S : c.tasks \in Seq(S) /\ \A x \in S : WritesOnlyTo(x, c.writes)
  BY DEF Compiled
<1>2. Shaped(c) /\ c.approvals \in Seq(Slips)
  BY DEF Compiled
<1>3. ASSUME NEW e, Shaped(e), e.tasks = c.tasks, e.approvals \in Seq(Slips), e.writes = c.writes
      PROVE  Compiled(e)
  BY <1>1, <1>3 DEF Compiled
<1>4. ASSUME NEW v, NEW w, NEW e,
             \/ e = [c EXCEPT !.obligations = v, !.required = w]
             \/ e = [c EXCEPT !.required = v]
             \/ e = [c EXCEPT !.evaluator = v]
      PROVE  Compiled(e)
  <2> DEFINE Like(x) == Shaped(x) /\ x.tasks = c.tasks /\ x.approvals = c.approvals /\ x.writes = c.writes
  <2>1. CASE e = [c EXCEPT !.obligations = v, !.required = w]
    <3> DEFINE h == [c EXCEPT !.obligations = v]
    <3>1. Like(h)
      BY <1>2 DEF Shaped
    <3>2. e = [h EXCEPT !.required = w]
      BY <2>1
    <3> HIDE DEF h
    <3> QED
      <4>1. Like(e)
        BY <3>1, <3>2 DEF Shaped
      <4> QED
        BY <1>2, <1>3, <4>1
  <2>2. CASE e = [c EXCEPT !.required = v]
    <3>1. Like(e)
      BY <1>2, <2>2 DEF Shaped
    <3> QED
      BY <1>2, <1>3, <3>1
  <2>3. CASE e = [c EXCEPT !.evaluator = v]
    <3>1. Like(e)
      BY <1>2, <2>3 DEF Shaped
    <3> QED
      BY <1>2, <1>3, <3>1
  <2> QED
    BY <1>4, <2>1, <2>2, <2>3
<1>5. ASSUME NEW s \in Seq(Slips), NEW e, e = [c EXCEPT !.approvals = s]
      PROVE  Compiled(e)
  <2>1. Shaped(e) /\ e.tasks = c.tasks /\ e.approvals = s /\ e.writes = c.writes
    BY <1>2, <1>5 DEF Shaped
  <2> QED
    BY <1>3, <1>5, <2>1
<1>6. ASSUME NEW s, NEW T, s \in Seq(T), \A x \in T : WritesOnlyTo(x, c.writes)
      PROVE  Compiled([c EXCEPT !.tasks = s])
  <2> DEFINE e == [c EXCEPT !.tasks = s]
  <2>1. Shaped(e) /\ e.tasks = s /\ e.approvals = c.approvals /\ e.writes = c.writes
    BY <1>2 DEF Shaped
  <2> HIDE DEF e
  <2>2. Compiled(e)
    BY <1>2, <1>6, <2>1 DEF Compiled
  <2> QED
    BY <2>2 DEF e
<1>7. ASSUME NEW t \in TaskIds(c), NEW x, WritesOnlyTo(x, c.writes)
      PROVE  Compiled([c EXCEPT !.tasks = [c.tasks EXCEPT ![t] = x]])
  <2> DEFINE T == S \cup {x}
             s == [c.tasks EXCEPT ![t] = x]
  <2>1. \A y \in T : WritesOnlyTo(y, c.writes)
    BY <1>1, <1>7
  <2>2. s \in Seq(T)
    <3>1. c.tasks \in Seq(T) /\ x \in T
      BY <1>1
    <3> HIDE DEF T
    <3> QED
      BY <3>1 DEF TaskIds
  <2> HIDE DEF s, T
  <2>3. Compiled([c EXCEPT !.tasks = s])
    BY <1>6, <2>1, <2>2
  <2> QED
    BY <2>3 DEF s
<1>8. ASSUME NEW x, WritesOnlyTo(x, c.writes), NEW v
      PROVE  WritesOnlyTo([x EXCEPT !.deps = v], c.writes) /\ WritesOnlyTo([x EXCEPT !.claims = v], c.writes)
  <2> DEFINE y == [x EXCEPT !.deps = v]
             z == [x EXCEPT !.claims = v]
  <2>1. /\ y = [kind |-> y.kind, deps |-> y.deps, effects |-> y.effects, claims |-> y.claims]
        /\ z = [kind |-> z.kind, deps |-> z.deps, effects |-> z.effects, claims |-> z.claims]
        /\ y.effects = x.effects /\ z.effects = x.effects
    BY <1>8 DEF WritesOnlyTo
  <2> HIDE DEF y, z
  <2>2. WritesOnlyTo(y, c.writes) /\ WritesOnlyTo(z, c.writes)
    BY <1>8, <2>1 DEF WritesOnlyTo
  <2> QED
    BY <2>2 DEF y, z
<1>9. ASSUME 1 \in TaskIds(c) PROVE Compiled([c EXCEPT !.tasks = Front(@)])
  <2>1. Front(c.tasks) \in Seq(S)
    BY <1>1, <1>9 DEF Front, TaskIds
  <2>2. Compiled([c EXCEPT !.tasks = Front(c.tasks)])
    BY <1>1, <1>6, <2>1
  <2> QED
    BY <2>2
<1>10. \A t \in TaskIds(c) : WritesOnlyTo(c.tasks[t], c.writes)
  BY <1>1 DEF TaskIds
<1> DEFINE A == {[c EXCEPT !.obligations = @ \ {o}, !.required = @ \ {o}] : o \in c.obligations}
           B == {[c EXCEPT !.required = @ \ {o}] : o \in c.required}
           C == {[c EXCEPT !.evaluator = @ \ {o}] : o \in c.evaluator}
           D == {[c EXCEPT !.tasks = Front(@)] : n \in {1} \cap TaskIds(c)}
           E == {[c EXCEPT !.approvals = Append(@, k)] : k \in Slips}
<1>11. CASE d \in A
  <2>1. PICK o \in c.obligations : d = [c EXCEPT !.obligations = @ \ {o}, !.required = @ \ {o}]
    BY <1>11, Zenon
  <2> DEFINE v == c.obligations \ {o}
             w == c.required \ {o}
  <2>2. d = [c EXCEPT !.obligations = v, !.required = w]
    <3>1. "obligations" # "required"
      OBVIOUS
    <3> QED
      BY <2>1, <3>1
  <2> HIDE DEF v, w
  <2> QED
    BY <1>4, <2>2, Zenon
<1>12. CASE d \in B
  <2>1. PICK o \in c.required : d = [c EXCEPT !.required = c.required \ {o}]
    BY <1>12
  <2> DEFINE v == c.required \ {o}
  <2>2. d = [c EXCEPT !.required = v]
    BY <2>1
  <2> HIDE DEF v
  <2> QED
    BY <1>4, <2>2, Zenon
<1>13. CASE d \in C
  <2>1. PICK o \in c.evaluator : d = [c EXCEPT !.evaluator = c.evaluator \ {o}]
    BY <1>13
  <2> DEFINE v == c.evaluator \ {o}
  <2>2. d = [c EXCEPT !.evaluator = v]
    BY <2>1
  <2> HIDE DEF v
  <2> QED
    BY <1>4, <2>2, Zenon
<1>14. CASE d \in WithDependency(c)
  <2>1. PICK t \in TaskIds(c), u \in 1..(Len(c.tasks) + 1) : d = [c EXCEPT !.tasks[t].deps = @ \cup {u}]
    BY <1>14 DEF WithDependency
  <2> DEFINE x == [c.tasks[t] EXCEPT !.deps = c.tasks[t].deps \cup {u}]
  <2>2. d = [c EXCEPT !.tasks = [c.tasks EXCEPT ![t] = x]]
    BY <2>1
  <2>3. WritesOnlyTo(x, c.writes)
    BY <1>8, <1>10
  <2> HIDE DEF x
  <2> QED
    BY <1>7, <2>2, <2>3
<1>15. CASE d \in WithClaim(c)
  <2>1. PICK t \in TaskIds(c), o \in Obligations : d = [c EXCEPT !.tasks[t].claims = @ \cup {o}]
    BY <1>15 DEF WithClaim
  <2> DEFINE x == [c.tasks[t] EXCEPT !.claims = c.tasks[t].claims \cup {o}]
  <2>2. d = [c EXCEPT !.tasks = [c.tasks EXCEPT ![t] = x]]
    BY <2>1
  <2>3. WritesOnlyTo(x, c.writes)
    BY <1>8, <1>10
  <2> HIDE DEF x
  <2> QED
    BY <1>7, <2>2, <2>3
<1>16. CASE d \in D
  <2>1. 1 \in TaskIds(c) /\ d = [c EXCEPT !.tasks = Front(@)]
    BY <1>16
  <2> QED
    BY <1>9, <2>1
<1>17. CASE d \in E
  <2>1. PICK k \in Slips : d = [c EXCEPT !.approvals = Append(c.approvals, k)]
    BY <1>17
  <2>2. Append(c.approvals, k) \in Seq(Slips)
    BY <1>2
  <2> QED
    BY <1>5, <2>1, <2>2
<1>18. Edited(c) = A \cup B \cup C \cup WithDependency(c) \cup WithClaim(c) \cup D \cup E
  BY Zenon DEF Edited
<1> HIDE DEF A, B, C, D, E
<1> QED
  BY <1>11, <1>12, <1>13, <1>14, <1>15, <1>16, <1>17, <1>18

\* The codes of lint and the conditions of Validate.
LEMMA EmptyLintIsValid ==
  ASSUME NEW c, c.approvals \in Seq(Slips)
  PROVE  LintContract(c) = {} <=> Valid(c)
<1> DEFINE bad(i) == \/ c.approvals[i].expires = Garbled
                     \/ ~Declares(c, c.approvals[i].task, c.approvals[i].effect)
                     \/ \E j \in 1..(i - 1) : c.approvals[j].id = c.approvals[i].id
           a == c.required = {}
           b == \/ \E t \in TaskIds(c) : ~(c.tasks[t].claims \subseteq c.obligations)
                \/ ~(c.evaluator \subseteq c.obligations)
           d == c.tasks = <<>>
           e == \E i \in DOMAIN c.approvals : bad(i)
           f == \E t \in TaskIds(c) : ~(Deps(c, t) \subseteq TaskIds(c))
           g == HasCycle(c)
           h == ~(c.required \subseteq c.evaluator)
<1>1. ApprovalsValid(c) <=> ~e
  <2>1. DOMAIN c.approvals = 1..Len(c.approvals) /\ Len(c.approvals) \in Nat
    OBVIOUS
  <2>2. (\A i, j \in DOMAIN c.approvals : c.approvals[i].id = c.approvals[j].id => i = j)
          <=> \A i \in DOMAIN c.approvals : \A j \in 1..(i - 1) : c.approvals[j].id # c.approvals[i].id
    <3>1. \A i, j \in 1..Len(c.approvals) : i = j \/ i \in 1..(j - 1) \/ j \in 1..(i - 1)
      BY <2>1
    <3>2. \A i \in 1..Len(c.approvals) : \A j \in 1..(i - 1) : j \in 1..Len(c.approvals) /\ i # j
      BY <2>1
    <3> QED
      BY <2>1, <3>1, <3>2
  <2> QED
    BY <2>2 DEF ApprovalsValid
<1> HIDE DEF a, b, d, e, f, g, h
<1>2. LintContract(c) = {} <=> ~a /\ ~b /\ ~d /\ ~e /\ ~f /\ ~g /\ ~h
  <2>1. "CONTRACT_REQUIRED_OBLIGATION_MISSING" \in LintContract(c) <=> a
    BY DEF LintContract, a
  <2>2. "CONTRACT_TASK_OBLIGATION_UNKNOWN" \in LintContract(c) <=> b
    BY DEF LintContract, b
  <2>3. "CONTRACT_INVALID" \in LintContract(c) <=> d
    BY DEF LintContract, d
  <2>4. "CONTRACT_APPROVAL_INVALID" \in LintContract(c) <=> e
    BY DEF LintContract, e
  <2>5. "CONTRACT_TASK_DEPENDENCY_UNKNOWN" \in LintContract(c) <=> f
    BY DEF LintContract, f
  <2>6. "CONTRACT_TASK_GRAPH_CYCLE" \in LintContract(c) <=> g
    BY DEF LintContract, g
  <2>7. "CONTRACT_EVALUATOR_REQUIRED_OBLIGATION_MISSING" \in LintContract(c) <=> h
    BY DEF LintContract, h
  <2>8. LintContract(c) \subseteq
          {"CONTRACT_REQUIRED_OBLIGATION_MISSING", "CONTRACT_TASK_OBLIGATION_UNKNOWN",
           "CONTRACT_INVALID", "CONTRACT_APPROVAL_INVALID",
           "CONTRACT_TASK_DEPENDENCY_UNKNOWN", "CONTRACT_TASK_GRAPH_CYCLE",
           "CONTRACT_EVALUATOR_REQUIRED_OBLIGATION_MISSING"}
    BY DEF LintContract
  <2> QED
    BY <2>1, <2>2, <2>3, <2>4, <2>5, <2>6, <2>7, <2>8
<1>3. Valid(c) <=> ~a /\ ~b /\ ~d /\ ~e /\ ~f /\ ~g /\ ~h
  BY <1>1 DEF Valid, a, b, d, f, g, h
<1> QED
  BY <1>2, <1>3

Drafted ==
  /\ brief \in Seq(AllLines)
  /\ written # NoContract => Compiled(written)

LEMMA LinesAreLines == \A l \in AllLines : IsLine(l)
<1> SUFFICES ASSUME NEW l \in AllLines PROVE IsLine(l)
  OBVIOUS
<1>1. l.vals \in Seq(Range(l.vals))
  <2>1. CASE l \in Lines
    BY <2>1, AuthoringAssumption
  <2>2. CASE \E b \in Briefs : l \in Range(b)
    <3>1. PICK b \in Briefs : \E i \in DOMAIN b : l = b[i]
      BY <2>2 DEF Range
    <3> QED
      BY <3>1, AuthoringAssumption
  <2> QED
    BY <2>1, <2>2 DEF AllLines
<1>2. Range(l.vals) \subseteq Words /\ l.name \in Words
  BY DEF Words, Said
<1> QED
  BY <1>1, <1>2 DEF IsLine

LEMMA DraftParsed ==
  ASSUME brief \in Seq(AllLines)
  PROVE  Parse(brief) \in Parsed
  BY BriefParsed, LinesAreLines

LEMMA DraftsStart == AuthoringInit => Drafted
<1> SUFFICES ASSUME AuthoringInit PROVE Drafted
  OBVIOUS
<1>1. brief \in Briefs /\ brief \in Seq(Range(brief)) /\ written = NoContract
  BY AuthoringAssumption DEF AuthoringInit
<1>2. Range(brief) \subseteq AllLines
  BY <1>1 DEF AllLines
<1> QED
  BY <1>1, <1>2 DEF Drafted

\* What compiles is a valid contract that allows its own writes.
LEMMA CompiledIsSound ==
  ASSUME NEW b, Parse(b) \in Parsed, NEW o, CompileError(b, o) = <<>>
  PROVE  Valid(CompileBrief(b, o)) /\ Compiled(CompileBrief(b, o))
<1> DEFINE p == Parse(b)
<1>1. CASE IsStructured(p)
  <2>1. \A d : <<d>> # <<>>
    OBVIOUS
  <2>2. BuildError(p, o) = <<>> /\ CompileBrief(b, o) = StructuredContract(p, o)
    <3> HIDE DEF p
    <3> QED
      BY <1>1, <2>1 DEF CompileError, CompileBrief, p
  <2> QED
    BY <1>1, <2>2, StructuredIsSound
<1>2. CASE ~IsStructured(p)
  <2>1. CompileBrief(b, o) = PlainContract(o)
    BY <1>2 DEF CompileBrief
  <2> QED
    BY <2>1, PlainIsSound
<1> QED
  BY <1>1, <1>2

LEMMA DraftsKept == Drafted /\ [AuthoringNext]_authoringVars => Drafted'
<1> SUFFICES ASSUME Drafted, [AuthoringNext]_authoringVars PROVE Drafted'
  OBVIOUS
<1>1. brief \in Seq(AllLines) /\ (written # NoContract => Compiled(written))
  BY DEF Drafted
<1>2. CASE EditBrief
  <2>1. written' = written
    BY <1>2 DEF EditBrief
  <2>2. ASSUME NEW i \in DOMAIN brief PROVE RemoveAt(brief, i) \in Seq(AllLines)
    <3>1. /\ SubSeq(brief, 1, i - 1) \in Seq(AllLines)
          /\ SubSeq(brief, i + 1, Len(brief)) \in Seq(AllLines)
      BY <1>1, <2>2
    <3> QED
      BY <3>1 DEF RemoveAt
  <2>3. ASSUME NEW i \in 1..(Len(brief) + 1), NEW l \in Lines
        PROVE  InsertAt(brief, i, l) \in Seq(AllLines)
    <3>1. l \in AllLines
      BY DEF AllLines
    <3>2. /\ SubSeq(brief, 1, i - 1) \in Seq(AllLines)
          /\ SubSeq(brief, i, Len(brief)) \in Seq(AllLines)
          /\ <<l>> \in Seq(AllLines)
      BY <1>1, <2>3, <3>1
    <3> QED
      BY <3>2 DEF InsertAt
  <2> QED
    BY <1>1, <1>2, <2>1, <2>2, <2>3 DEF EditBrief, Drafted
<1>3. CASE Compile
  <2>1. /\ CompileError(brief, overrides) = <<>> /\ brief' = brief
        /\ written' = CompileBrief(brief, overrides)
    BY <1>3 DEF Compile
  <2>2. Compiled(written')
    BY <1>1, <2>1, DraftParsed, CompiledIsSound
  <2> QED
    BY <1>1, <2>1, <2>2 DEF Drafted
<1>4. CASE EditContract
  <2>1. written # NoContract /\ written' \in Edited(written) /\ brief' = brief
    BY <1>4 DEF EditContract
  <2> QED
    BY <1>1, <2>1, EditedIsCompiled DEF Drafted
<1>5. CASE Accept \/ UNCHANGED authoringVars
  BY <1>1, <1>5 DEF Accept, authoringVars, Drafted
<1> QED
  BY <1>2, <1>3, <1>4, <1>5 DEF AuthoringNext

LEMMA DraftsHold == AuthoringSpec => []Drafted
  BY DraftsStart, DraftsKept, PTL DEF AuthoringSpec

-----------------------------------------------------------------------------
(* What lint, compile and run agree on. *)

\* Whatever brief and flags: lint begins with the error compile stops at, and what
\* it finds nothing in compiles to a valid contract (lint.go:207-343,
\* authoring.go:264-314).
THEOREM LintForetells == AuthoringSpec => []LintForetellsCompile
<1>1. Drafted => LintForetellsCompile
  <2> SUFFICES ASSUME Drafted PROVE LintForetellsCompile
    OBVIOUS
  <2>1. Parse(brief) \in Parsed
    BY DraftParsed DEF Drafted
  <2>2. First(Lint) = CompileError(brief, overrides)
    BY <2>1, BriefAgrees DEF Lint
  <2>3. ASSUME Lint = <<>> PROVE Valid(CompileBrief(brief, overrides))
    BY <2>1, <2>3, BriefAgrees, CompiledIsSound DEF Lint
  <2> QED
    BY <2>2, <2>3 DEF LintForetellsCompile
<1> QED
  BY <1>1, DraftsHold, PTL

\* However a contract was edited after compile wrote it, policy allows the writes of
\* its tasks (authoring.go:294-312, evaluator.go:101-121).
THEOREM WritesAreAllowed == AuthoringSpec => []DeclaredWritesAreAllowed
<1>1. Drafted => DeclaredWritesAreAllowed
  <2> SUFFICES ASSUME Drafted, written # NoContract,
                      NEW t \in TaskIds(written), NEW n \in DOMAIN EffectsOf(written, t),
                      EffectsOf(written, t)[n].type = "file.write"
               PROVE  EvaluateAction(written, t, EffectsOf(written, t)[n], 0, {}).verdict = "allow"
    BY DEF DeclaredWritesAreAllowed
  <2>1. PICK S : written.tasks \in Seq(S) /\ \A x \in S : WritesOnlyTo(x, written.writes)
    BY DEF Drafted, Compiled
  <2>2. WritesOnlyTo(written.tasks[t], written.writes)
    BY <2>1 DEF TaskIds
  <2>3. EffectsOf(written, t)[n].res \in written.writes
    BY <2>2 DEF WritesOnlyTo, EffectsOf
  <2> QED
    BY <2>3 DEF EvaluateAction, ScopeVerdict, Allow
<1> QED
  BY <1>1, DraftsHold, PTL

\* A lint that exits with 0 over a baseline, however old, hides nothing that stops
\* compile but what was accepted under its rule and line (cli.go:218-228,
\* lint.go:163-205).
THEOREM BaselinesHideNoMore == AuthoringSpec => []BaselineHidesWhatWasAccepted
<1>1. Drafted => BaselineHidesWhatWasAccepted
  <2> SUFFICES ASSUME Drafted, ExitsZero(Lint, baseline),
                      NEW i \in DOMAIN CompileError(brief, overrides)
               PROVE  Suppressed(CompileError(brief, overrides)[i], baseline)
    BY DEF BaselineHidesWhatWasAccepted
  <2>1. CompileError(brief, overrides) = First(Lint) /\ HasHead(Lint)
    BY DraftParsed, BriefAgrees DEF Drafted, Lint
  <2>2. Lint # <<>> /\ i = 1 /\ First(Lint) = <<Head(Lint)>>
    <3>1. DOMAIN <<>> = {} /\ \A h : DOMAIN <<h>> = {1}
      OBVIOUS
    <3> QED
      BY <2>1, <3>1 DEF First
  <2>3. 1 \in DOMAIN Lint /\ CompileError(brief, overrides)[i] = Lint[1]
    BY <2>1, <2>2 DEF HasHead
  <2> QED
    BY <2>2, <2>3 DEF ExitsZero, AllAccepted
<1> QED
  BY <1>1, DraftsHold, PTL

\* However a contract was edited by hand, lint has something to say of it just when
\* Validate refuses it (lint.go:345-494, validate.go:31-213).
THEOREM LintAgrees == AuthoringSpec => []LintAgreesWithValidate
<1>1. Drafted => LintAgreesWithValidate
  <2> SUFFICES ASSUME Drafted, written # NoContract
               PROVE  LintContract(written) = {} <=> Valid(written)
    BY DEF LintAgreesWithValidate
  <2>1. written.approvals \in Seq(Slips)
    BY DEF Drafted, Compiled
  <2> QED
    BY <2>1, EmptyLintIsValid
<1> QED
  BY <1>1, DraftsHold, PTL

\* The ids of what was parsed are the headings of the draft.
LEMMA HeadingsNamed ==
  ASSUME brief \in Seq(AllLines), Parse(brief).error = <<>>
  PROVE  /\ NamesOf(Parse(brief).tasks) = Named("task")
         /\ NamesOf(Parse(brief).obligations) = Named("obligation")
<1>1. \A form : Named(form) = FlattenSeq(NamesUnder(brief, form))
  BY DEF Named, Joined, NamesUnder, NameIf
<1> QED
  BY <1>1, BriefParsed, LinesAreLines

\* A brief that lint has nothing to say of and that names a task: every task and
\* obligation it names is in the contract, in order, and no task waits for itself
\* (authoring.go:62-167, 227-262).
THEOREM NothingIsLost == AuthoringSpec => []NothingIsDropped
<1>1. Drafted => NothingIsDropped
  <2> SUFFICES ASSUME Drafted, Lint = <<>>, Named("task") # <<>>
               PROVE  LET p == Parse(brief)
                          c == CompileBrief(brief, overrides)
                      IN /\ [t \in DOMAIN p.tasks |-> p.tasks[t].id] = Named("task")
                         /\ Len(c.tasks) = Len(Named("task"))
                         /\ c.obligations = Range(Named("obligation"))
                         /\ \A t \in TaskIds(c) : Deps(c, t) \subseteq TaskIds(c) \ {t}
    BY DEF NothingIsDropped
  <2> DEFINE p == Parse(brief)
             c == CompileBrief(brief, overrides)
             s == StructuredContract(p, overrides)
             n == Len(p.tasks)
             m == Len(p.obligations)
  <2>1. p \in Parsed /\ CompileError(brief, overrides) = <<>>
    BY DraftParsed, BriefAgrees DEF Drafted, Lint
  <2>2. p.error = <<>> /\ (IsStructured(p) => BuildError(p, overrides) = <<>>)
    <3>1. \A d : <<d>> # <<>>
      OBVIOUS
    <3> HIDE DEF p
    <3> QED
      BY <2>1, <3>1 DEF CompileError, p
  <2>3. NamesOf(p.tasks) = Named("task") /\ NamesOf(p.obligations) = Named("obligation")
    BY <2>2, HeadingsNamed DEF Drafted
  <2>4. IsStructured(p) /\ c = s
    <3>1. NamesOf(<<>>) = <<>>
      BY NamesOfOne
    <3> HIDE DEF p
    <3> QED
      BY <2>3, <3>1 DEF IsStructured, CompileBrief, p
  <2>5. /\ p.tasks \in Seq(TaskEntries) /\ p.obligations \in Seq(ObligationEntries)
    BY <2>1, ParsedFields
  <2>6. /\ s.tasks = [t \in DOMAIN p.tasks |-> TaskOf(p, p.tasks[t])]
        /\ s.obligations = Ids(p.obligations)
    BY StructuredFields
  <2>7. ~HasCycle(s)
    BY <2>2, <2>4, BuiltIsSound
  <2> HIDE DEF p, c, s
  <2>8. /\ n \in Nat /\ DOMAIN p.tasks = 1..n
        /\ m \in Nat /\ DOMAIN p.obligations = 1..m
    BY <2>5
  <2>9. [t \in DOMAIN p.tasks |-> p.tasks[t].id] = Named("task")
    BY <2>3, <2>8 DEF NamesOf
  <2>10. Len(s.tasks) = Len(Named("task"))
    <3>1. Len(s.tasks) = n
      <4> DEFINE f == s.tasks
                 S == {f[i] : i \in 1..n}
      <4>1. f \in [1..n -> S]
        BY <2>6, <2>8
      <4> HIDE DEF f, n, S
      <4> QED
        BY <2>8, <4>1 DEF f
    <3>2. Len(NamesOf(p.tasks)) = n
      <4> DEFINE f == NamesOf(p.tasks)
                 S == {f[i] : i \in 1..n}
      <4>1. f \in [1..n -> S]
        BY DEF NamesOf
      <4> HIDE DEF f, n, S
      <4> QED
        BY <2>8, <4>1 DEF f
    <3> QED
      BY <2>3, <3>1, <3>2
  <2>11. s.obligations = Range(Named("obligation"))
    <3> DEFINE f == NamesOf(p.obligations)
    <3>1. DOMAIN f = 1..m /\ \A i \in 1..m : f[i] = p.obligations[i].id
      BY DEF NamesOf
    <3>2. s.obligations = {p.obligations[i].id : i \in 1..m}
      BY <2>6, <2>8 DEF Ids
    <3>3. f = Named("obligation")
      BY <2>3
    <3> HIDE DEF f, m
    <3>4. Range(f) = s.obligations
      BY <3>1, <3>2 DEF Range
    <3> QED
      BY <3>3, <3>4
  <2>12. ASSUME NEW t \in TaskIds(s) PROVE Deps(s, t) \subseteq TaskIds(s) \ {t}
    <3>1. Deps(s, t) \subseteq TaskIds(s)
      BY <2>6 DEF Deps, TaskIds, TaskOf
    <3>2. t \notin Deps(s, t)
      <4>1. ASSUME t \in Deps(s, t) PROVE FALSE
        <5>1. {t} \in SUBSET TaskIds(s) /\ {t} # {} /\ \A u \in {t} : Deps(s, u) \cap {t} # {}
          BY <2>12, <4>1
        <5> QED
          BY <2>7, <5>1 DEF HasCycle
      <4> QED
        BY <4>1
    <3> QED
      BY <3>1, <3>2
  <2> QED
    BY <2>4, <2>9, <2>10, <2>11, <2>12 DEF p, c
<1> QED
  BY <1>1, DraftsHold, PTL
=============================================================================
