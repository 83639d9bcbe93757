---------------------------- MODULE BundleProofs ----------------------------
(***************************************************************************)
(* What Runs says of the evidence a run leaves and Bundle of its export,   *)
(* for every set of contracts and options and however Execute is called,   *)
(* edited around, interrupted and killed: what verifies is that of one     *)
(* complete run, and what is left alone verifies.                          *)
(***************************************************************************)
EXTENDS Bundle, RunsProofs

-----------------------------------------------------------------------------
(* What the records of a run have to do with each other. *)

\* The recorder numbers its events; each has the hash of the one before it.
Numbered(l) == \A i \in DOMAIN l : l[i].seq = i /\ l[i].prev = i - 1

\* The decisions a ledger and a pack tell of, and the artifacts.
DecisionsIn(l) ==
  {<<l[i].task, l[i].decision[1].n, l[i].ok>> : i \in {j \in DOMAIN l : l[j].type = "policy_decided"}}
DecisionsOf(ds) == {<<ds[i].task, ds[i].n, ds[i].verdict = "allow">> : i \in DOMAIN ds}
ArtifactsIn(l) == UNION {l[i].artifacts : i \in {j \in DOMAIN l : l[j].type = "artifact_recorded"}}
ArtifactsOf(arts) == {arts[i].id : i \in DOMAIN arts}

EndsOf(l) == {i \in DOMAIN l : l[i].type = "run_finished"}

\* The event an artifact names records this artifact, for its own task.
ProducedIn(arts, l) ==
  \A i \in DOMAIN arts : /\ arts[i].event \in DOMAIN l
                         /\ l[arts[i].event].type = "artifact_recorded"
                         /\ l[arts[i].event].artifacts = {arts[i].id}
                         /\ l[arts[i].event].task = arts[i].id.task

DecidedOnce(ds) ==
  \A i, j \in DOMAIN ds : ds[i].task = ds[j].task /\ ds[i].n = ds[j].n => i = j

\* A decision that speaks of no revocation names no revoked ticket.
SparedBy(ds, ids) == \A i \in DOMAIN ds : ds[i].reason # "revoked" => ds[i].ticket \notin ids

RecordsAgree ==
  /\ Numbered(ledger)
  /\ DecisionsIn(ledger) = DecisionsOf(decisions)
  /\ ArtifactsIn(ledger) = ArtifactsOf(artifacts)
  /\ ProducedIn(artifacts, ledger)
  /\ DecidedOnce(decisions) /\ SparedBy(decisions, revoked)

\* The ledger runs from run_started to run_finished.
BeginsAndEnds ==
  /\ ledger # <<>> => ledger[1].type = "run_started"
  /\ pc \notin {"idle", "snapshot"} => ledger # <<>>
  /\ pc \notin {"idle", "publish"} => EndsOf(ledger) = {}
  /\ pc = "publish" => EndsOf(ledger) = {Len(ledger)}

\* The current task's artifacts are those of its earlier side effects.
PendingOwn ==
  pc = "act" => \A i \in DOMAIN pending : pending[i].id.task = cursor /\ pending[i].id.n < action

Records == RecordsAgree /\ BeginsAndEnds /\ PendingOwn

\* What Execute writes as evidence pack.
PackOfRun ==
  [contract  |-> contract,   ledger    |-> ledger,
   status    |-> RunStatus,  artifacts |-> artifacts,
   snapshots |-> snapshots,  decisions |-> decisions,
   failures  |-> failures,
   closure   |-> EvaluateClosure(contract, RunStatus, status, artifacts, decisions)]

\* The files in the run directory are those of the run that was delivered, and a
\* pack that decodes is that of a complete run, this one's or an earlier one's.
Directory ==
  /\ pc = "publish" \/ Delivered => ledgerFile = [lines |-> ledger, torn |-> FALSE]
  /\ Delivered => packFile = PackOfRun
  /\ PackReadable(packFile) => OneWholeRun(packFile.ledger, packFile)

\* The artifact vouches for what the workspace holds, under the path its side
\* effect declares.
InPlace(a) ==
  /\ a.digest # NoFile /\ workspace[a.path] = a.digest
  /\ a.id.task \in TaskIds(contract) /\ a.id.n \in DOMAIN EffectsOf(contract, a.id.task)
  /\ a.path = EffectsOf(contract, a.id.task)[a.id.n].res

\* A snapshot is what the workspace held, and stays so in the run directory.
SnapshotsOwn ==
  /\ pc = "snapshot" =>
       \A i \in DOMAIN snapshots : workspace[snapshots[i].path] = snapshots[i].digest
  /\ pc # "idle" \/ Delivered =>
       \A i \in DOMAIN snapshots : /\ snapshots[i].digest # NoFile
                                   /\ snapFiles[snapshots[i].path] = snapshots[i].digest

\* In a quiet contract every artifact is still in place, and belongs to a task
\* that succeeded or is under way.
ArtifactsOwn ==
  Quiet(contract) =>
    /\ \A i \in DOMAIN artifacts : /\ InPlace(artifacts[i])
                                   /\ status[artifacts[i].id.task] = "success"
    /\ pc = "act" => \A i \in DOMAIN pending : InPlace(pending[i])

\* Untouched by others, snapshots and artifacts are what the run recorded.
Undisturbed == edited = {} => SnapshotsOwn /\ ArtifactsOwn

-----------------------------------------------------------------------------
(* A ledger and the events appended to it. *)

\* m is l and after it n more.
Continues(m, l, n, more) ==
  /\ Len(m) = Len(l) + n
  /\ \A i \in DOMAIN l : i \in DOMAIN m /\ m[i] = l[i]
  /\ \A i \in 1..n : Len(l) + i \in DOMAIN m /\ m[Len(l) + i] = more[i]
  /\ \A k \in DOMAIN m : k \in DOMAIN l \/ \E i \in 1..n : k = Len(l) + i

\* Where the events of a longer ledger come from.
LEMMA Joined ==
  ASSUME NEW S, NEW l \in Seq(S), NEW n \in Nat, NEW more \in [1..n -> S]
  PROVE  l \o more \in Seq(S) /\ Continues(l \o more, l, n, more)
<1> DEFINE m == l \o more
<1>1. m \in Seq(S) /\ Len(m) = Len(l) + n
  BY Extended
<1>2. \A i \in 1..Len(l) : m[i] = l[i]
  BY Extended
<1>3. \A i \in 1..n : m[Len(l) + i] = more[i]
  BY Extended
<1>4. DOMAIN l = 1..Len(l) /\ DOMAIN m = 1..(Len(l) + n) /\ Len(l) \in Nat
  <2>1. DOMAIN m = 1..Len(m)
    BY <1>1
  <2> QED
    BY <1>1, <2>1
<1>5. ASSUME NEW k \in 1..(Len(l) + n) PROVE k \in 1..Len(l) \/ \E i \in 1..n : k = Len(l) + i
  <2>1. CASE k <= Len(l)
    BY <1>4, <2>1
  <2>2. CASE ~(k <= Len(l))
    <3>1. k - Len(l) \in 1..n /\ k = Len(l) + (k - Len(l))
      BY <1>4, <2>2
    <3> QED
      BY <3>1
  <2> QED
    BY <2>1, <2>2
<1>6. \A i \in 1..Len(l) : i \in 1..(Len(l) + n)
  BY <1>4
<1>7. \A i \in 1..n : Len(l) + i \in 1..(Len(l) + n)
  BY <1>4
<1>8. Continues(m, l, n, more)
  <2> HIDE DEF m
  <2> QED
    BY <1>1, <1>2, <1>3, <1>4, <1>5, <1>6, <1>7 DEF Continues
<1> QED
  BY <1>1, <1>8

\* What appended events add to what a ledger tells of.
LEMMA EventsJoined ==
  ASSUME NEW l \in Seq(Events), NEW n \in Nat, NEW more \in [1..n -> Events],
         NEW m, m = l \o more
  PROVE  /\ DecisionsIn(m) = DecisionsIn(l) \cup
              {<<more[i].task, more[i].decision[1].n, more[i].ok>> :
                 i \in {j \in 1..n : more[j].type = "policy_decided"}}
         /\ ArtifactsIn(m) = ArtifactsIn(l) \cup
              UNION {more[i].artifacts : i \in {j \in 1..n : more[j].type = "artifact_recorded"}}
         /\ EndsOf(m) = EndsOf(l) \cup {Len(l) + i : i \in {j \in 1..n : more[j].type = "run_finished"}}
         /\ \A arts : ProducedIn(arts, l) => ProducedIn(arts, m)
<1>1. /\ \A i \in DOMAIN l : i \in DOMAIN m /\ m[i] = l[i]
      /\ \A i \in 1..n : Len(l) + i \in DOMAIN m /\ m[Len(l) + i] = more[i]
      /\ \A k \in DOMAIN m : k \in DOMAIN l \/ \E i \in 1..n : k = Len(l) + i
  <2>1. Continues(m, l, n, more)
    BY Joined
  <2> QED
    BY <2>1 DEF Continues
<1>2. DecisionsIn(m) = DecisionsIn(l) \cup
        {<<more[i].task, more[i].decision[1].n, more[i].ok>> :
           i \in {j \in 1..n : more[j].type = "policy_decided"}}
  <2> DEFINE added == {<<more[i].task, more[i].decision[1].n, more[i].ok>> :
                         i \in {j \in 1..n : more[j].type = "policy_decided"}}
  <2>1. ASSUME NEW x \in DecisionsIn(m) PROVE x \in DecisionsIn(l) \cup added
    <3>1. PICK k \in DOMAIN m : m[k].type = "policy_decided" /\ x = <<m[k].task, m[k].decision[1].n, m[k].ok>>
      BY DEF DecisionsIn
    <3>2. CASE k \in DOMAIN l
      BY <1>1, <3>1, <3>2 DEF DecisionsIn
    <3>3. ASSUME NEW i \in 1..n, k = Len(l) + i PROVE x \in added
      <4>1. more[i] = m[k]
        BY <1>1, <3>3
      <4>2. more[i].type = "policy_decided" /\ x = <<more[i].task, more[i].decision[1].n, more[i].ok>>
        BY <3>1, <4>1
      <4> QED
        BY <4>2
    <3> QED
      BY <1>1, <3>2, <3>3
  <2>2. ASSUME NEW x \in DecisionsIn(l) PROVE x \in DecisionsIn(m)
    BY <1>1 DEF DecisionsIn
  <2>3. ASSUME NEW x \in added PROVE x \in DecisionsIn(m)
    BY <1>1 DEF DecisionsIn
  <2> QED
    BY <2>1, <2>2, <2>3
<1>3. ArtifactsIn(m) = ArtifactsIn(l) \cup
        UNION {more[i].artifacts : i \in {j \in 1..n : more[j].type = "artifact_recorded"}}
  <2> DEFINE added == UNION {more[i].artifacts : i \in {j \in 1..n : more[j].type = "artifact_recorded"}}
  <2>1. ASSUME NEW x \in ArtifactsIn(m) PROVE x \in ArtifactsIn(l) \cup added
    <3>1. PICK k \in DOMAIN m : m[k].type = "artifact_recorded" /\ x \in m[k].artifacts
      BY DEF ArtifactsIn
    <3> QED
      BY <1>1, <3>1 DEF ArtifactsIn
  <2>2. ASSUME NEW x \in ArtifactsIn(l) PROVE x \in ArtifactsIn(m)
    BY <1>1 DEF ArtifactsIn
  <2>3. ASSUME NEW x \in added PROVE x \in ArtifactsIn(m)
    <3>1. PICK i \in 1..n : more[i].type = "artifact_recorded" /\ x \in more[i].artifacts
      OBVIOUS
    <3>2. Len(l) + i \in DOMAIN m /\ m[Len(l) + i] = more[i]
      BY <1>1
    <3> QED
      BY <3>1, <3>2 DEF ArtifactsIn
  <2> QED
    BY <2>1, <2>2, <2>3
<1>4. EndsOf(m) = EndsOf(l) \cup {Len(l) + i : i \in {j \in 1..n : more[j].type = "run_finished"}}
  BY <1>1 DEF EndsOf
<1>5. \A arts : ProducedIn(arts, l) => ProducedIn(arts, m)
  BY <1>1 DEF ProducedIn
<1> QED
  BY <1>2, <1>3, <1>4, <1>5

\* Events numbered on from the end of a ledger keep it numbered.
LEMMA NumberedOn ==
  ASSUME NEW l \in Seq(Events), NEW n \in Nat, NEW more \in [1..n -> Events],
         NEW m, m = l \o more, Numbered(l),
         \A i \in 1..n : more[i].seq = Len(l) + i /\ more[i].prev = Len(l) + i - 1
  PROVE  Numbered(m)
<1>1. /\ \A i \in DOMAIN l : i \in DOMAIN m /\ m[i] = l[i]
      /\ \A i \in 1..n : Len(l) + i \in DOMAIN m /\ m[Len(l) + i] = more[i]
      /\ \A k \in DOMAIN m : k \in DOMAIN l \/ \E i \in 1..n : k = Len(l) + i
  <2>1. Continues(m, l, n, more)
    BY Joined
  <2> QED
    BY <2>1 DEF Continues
<1> QED
  BY <1>1 DEF Numbered

\* m tells of all that l tells of, and of these decisions, artifacts and ends.
Adds(m, l, ds, arts, ends) ==
  /\ m \in Seq(Events) /\ Len(l) <= Len(m)
  /\ \A i \in DOMAIN l : i \in DOMAIN m /\ m[i] = l[i]
  /\ DecisionsIn(m) = DecisionsIn(l) \cup ds
  /\ ArtifactsIn(m) = ArtifactsIn(l) \cup arts
  /\ EndsOf(m) = EndsOf(l) \cup ends
  /\ \A made : ProducedIn(made, l) => ProducedIn(made, m)
  /\ Numbered(l) => Numbered(m)

\* One event that is neither a decision nor an artifact.
LEMMA EventAppended ==
  ASSUME NEW l \in Seq(Events), NEW e \in Events, NEW m, m = Append(l, e),
         e.type \notin {"policy_decided", "artifact_recorded"},
         e.seq = Len(l) + 1, e.prev = Len(l)
  PROVE  /\ Len(m) = Len(l) + 1 /\ m[Len(l) + 1] = e
         /\ Adds(m, l, {}, {}, IF e.type = "run_finished" THEN {Len(l) + 1} ELSE {})
<1> DEFINE more == <<e>>
<1>1. more \in [1..1 -> Events] /\ more[1] = e /\ 1 \in Nat /\ \A i \in 1..1 : i = 1
  OBVIOUS
<1>2. m = l \o more
  OBVIOUS
<1> HIDE DEF more
<1>3. /\ DecisionsIn(m) = DecisionsIn(l) \cup
           {<<more[i].task, more[i].decision[1].n, more[i].ok>> :
              i \in {j \in 1..1 : more[j].type = "policy_decided"}}
      /\ ArtifactsIn(m) = ArtifactsIn(l) \cup
           UNION {more[i].artifacts : i \in {j \in 1..1 : more[j].type = "artifact_recorded"}}
      /\ EndsOf(m) = EndsOf(l) \cup {Len(l) + i : i \in {j \in 1..1 : more[j].type = "run_finished"}}
      /\ \A arts : ProducedIn(arts, l) => ProducedIn(arts, m)
  BY <1>1, <1>2, EventsJoined
<1>4. {j \in 1..1 : more[j].type = "policy_decided"} = {} /\ {j \in 1..1 : more[j].type = "artifact_recorded"} = {}
  BY <1>1
<1>5. {j \in 1..1 : more[j].type = "run_finished"} = IF e.type = "run_finished" THEN {1} ELSE {}
  BY <1>1
<1>6. EndsOf(m) = EndsOf(l) \cup (IF e.type = "run_finished" THEN {Len(l) + 1} ELSE {})
  BY <1>3, <1>5
<1>7. DecisionsIn(m) = DecisionsIn(l) /\ ArtifactsIn(m) = ArtifactsIn(l)
  BY <1>3, <1>4
<1>8. ASSUME Numbered(l) PROVE Numbered(m)
  <2>1. Len(l) \in Nat /\ Len(l) + 1 - 1 = Len(l)
    OBVIOUS
  <2>2. \A i \in 1..1 : more[i].seq = Len(l) + i /\ more[i].prev = Len(l) + i - 1
    BY <1>1, <1>8, <2>1
  <2> QED
    BY <1>1, <1>2, <1>8, <2>2, NumberedOn
<1>9. /\ m \in Seq(Events) /\ Len(m) = Len(l) + 1 /\ m[Len(l) + 1] = e /\ Len(l) <= Len(m)
      /\ \A i \in DOMAIN l : i \in DOMAIN m /\ m[i] = l[i]
  <2>1. m \in Seq(Events) /\ Len(m) = Len(l) + 1 /\ m[Len(l) + 1] = e /\ Len(l) <= Len(m)
    OBVIOUS
  <2>2. \A i \in DOMAIN l : i \in DOMAIN m /\ m[i] = l[i]
    OBVIOUS
  <2> QED
    BY <2>1, <2>2
<1> QED
  BY <1>3, <1>6, <1>7, <1>8, <1>9 DEF Adds

\* emitPolicyDecision adds the decisions of a task.
LEMMA DecisionsAppended ==
  ASSUME NEW l \in Seq(Events), NEW ds \in Seq(Decisions), NEW m, m = EmitDecisions(l, ds)
  PROVE  Adds(m, l, DecisionsOf(ds), {}, {})
<1> DEFINE E(i) == [type |-> "policy_decided", seq |-> Len(l) + i, prev |-> Len(l) + i - 1,
                    task |-> ds[i].task, ok |-> ds[i].verdict # "deny",
                    decision |-> <<[n |-> ds[i].n, effect |-> ds[i].effect,
                                    ticket |-> ds[i].ticket]>>,
                    artifacts |-> {}]
           more == [i \in 1..Len(ds) |-> E(i)]
<1>1. \A i \in 1..Len(ds) : E(i) \in Events
  <2>1. SUFFICES ASSUME NEW i \in 1..Len(ds) PROVE E(i) \in Events
    OBVIOUS
  <2>2. ds[i] \in Decisions
    BY <2>1
  <2>3. [n |-> ds[i].n, effect |-> ds[i].effect, ticket |-> ds[i].ticket] \in EventDecisions
    BY <2>2 DEF Decisions, EventDecisions
  <2>4. <<[n |-> ds[i].n, effect |-> ds[i].effect, ticket |-> ds[i].ticket]>> \in Seq(EventDecisions)
    BY <2>3
  <2>5. ds[i].task \in Nat /\ Len(l) + i \in Nat /\ Len(l) + i - 1 \in Nat
    <3>1. ds[i].task \in Nat
      BY <2>2 DEF Decisions
    <3>2. Len(l) \in Nat /\ i \in Nat /\ i >= 1
      BY <2>1
    <3> QED
      BY <3>1, <3>2
  <2>6. (ds[i].verdict # "deny") \in BOOLEAN
    OBVIOUS
  <2>7. "policy_decided" \in EventTypes /\ {} \in SUBSET ArtifactIds
    BY DEF EventTypes
  <2> QED
    BY <2>4, <2>5, <2>6, <2>7, Zenon DEF Events
<1>2. m = l \o more
  BY DEF EmitDecisions
<1>3. ASSUME NEW i \in 1..Len(ds)
      PROVE  /\ E(i).type = "policy_decided" /\ E(i).task = ds[i].task /\ E(i).decision[1].n = ds[i].n
             /\ E(i).ok = (ds[i].verdict = "allow")
             /\ E(i).seq = Len(l) + i /\ E(i).prev = Len(l) + i - 1
  <2>1. ds[i].verdict \in {"allow", "deny"}
    <3>1. ds[i] \in Decisions
      OBVIOUS
    <3> QED
      BY <3>1 DEF Decisions
  <2>2. (ds[i].verdict # "deny") = (ds[i].verdict = "allow")
    BY <2>1
  <2> QED
    BY <2>2
<1>4. \A i \in 1..Len(ds) : more[i] = E(i)
  OBVIOUS
<1> HIDE DEF E
<1>5. more \in [1..Len(ds) -> Events] /\ Len(ds) \in Nat
  BY <1>1
<1> HIDE DEF more
<1>6. m \in Seq(Events) /\ Continues(m, l, Len(ds), more)
  BY <1>2, <1>5, Joined
<1>7. /\ DecisionsIn(m) = DecisionsIn(l) \cup
           {<<more[i].task, more[i].decision[1].n, more[i].ok>> :
              i \in {j \in 1..Len(ds) : more[j].type = "policy_decided"}}
      /\ ArtifactsIn(m) = ArtifactsIn(l) \cup
           UNION {more[i].artifacts : i \in {j \in 1..Len(ds) : more[j].type = "artifact_recorded"}}
      /\ EndsOf(m) = EndsOf(l) \cup {Len(l) + i : i \in {j \in 1..Len(ds) : more[j].type = "run_finished"}}
      /\ \A arts : ProducedIn(arts, l) => ProducedIn(arts, m)
  BY <1>2, <1>5, EventsJoined
<1>8. /\ {j \in 1..Len(ds) : more[j].type = "artifact_recorded"} = {}
      /\ {j \in 1..Len(ds) : more[j].type = "run_finished"} = {}
      /\ {j \in 1..Len(ds) : more[j].type = "policy_decided"} = 1..Len(ds)
  BY <1>3, <1>4
<1>9. DecisionsOf(ds) = {<<more[i].task, more[i].decision[1].n, more[i].ok>> : i \in 1..Len(ds)}
  <2> DEFINE taken(i) == <<ds[i].task, ds[i].n, ds[i].verdict = "allow">>
             told(i)  == <<more[i].task, more[i].decision[1].n, more[i].ok>>
  <2>1. DecisionsOf(ds) = {taken(i) : i \in 1..Len(ds)}
    <3>1. DOMAIN ds = 1..Len(ds)
      OBVIOUS
    <3> QED
      BY <3>1, Zenon DEF DecisionsOf
  <2>2. \A i \in 1..Len(ds) : told(i) = taken(i)
    BY <1>3, <1>4
  <2> HIDE DEF taken, told
  <2>3. {told(i) : i \in 1..Len(ds)} = {taken(i) : i \in 1..Len(ds)}
    BY <2>2
  <2> QED
    BY <2>1, <2>3, Zenon DEF told
<1>10. Numbered(l) => Numbered(m)
  <2>1. \A i \in 1..Len(ds) : more[i].seq = Len(l) + i /\ more[i].prev = Len(l) + i - 1
    BY <1>3, <1>4
  <2>2. SUFFICES ASSUME Numbered(l) PROVE Numbered(m)
    OBVIOUS
  <2> QED
    BY <1>2, <1>5, <2>1, <2>2, NumberedOn
<1>11. /\ Len(m) = Len(l) + Len(ds)
       /\ \A i \in DOMAIN l : i \in DOMAIN m /\ m[i] = l[i]
  BY <1>6 DEF Continues
<1>12. DecisionsIn(m) = DecisionsIn(l) \cup DecisionsOf(ds)
  BY <1>7, <1>8, <1>9
<1>13. ArtifactsIn(m) = ArtifactsIn(l) /\ EndsOf(m) = EndsOf(l)
  BY <1>7, <1>8
<1>14. Len(l) <= Len(m)
  BY <1>5, <1>11
<1> QED
  BY <1>6, <1>7, <1>10, <1>11, <1>12, <1>13, <1>14 DEF Adds

\* After the first so many events, one for each of these artifacts of a task.
Recording(m, from, t, arts) ==
  \A i \in 1..Len(arts) :
    /\ from + i \in DOMAIN m
    /\ m[from + i].type = "artifact_recorded"
    /\ m[from + i].artifacts = {arts[i].id} /\ m[from + i].task = t

\* emitArtifact adds the artifacts of a task, each where its event says.
LEMMA ArtifactsAppended ==
  ASSUME NEW l \in Seq(Events), NEW t \in Nat, NEW arts \in Seq(Artifacts),
         NEW m, m = EmitArtifacts(l, t, arts)
  PROVE  Adds(m, l, {}, ArtifactsOf(arts), {}) /\ Recording(m, Len(l), t, arts)
<1> DEFINE E(i) == [type |-> "artifact_recorded", seq |-> Len(l) + i,
                    prev |-> Len(l) + i - 1, task |-> t, ok |-> TRUE,
                    decision |-> <<>>, artifacts |-> {arts[i].id}]
           more == [i \in 1..Len(arts) |-> E(i)]
<1>1. \A i \in 1..Len(arts) : E(i) \in Events
  <2>1. SUFFICES ASSUME NEW i \in 1..Len(arts) PROVE E(i) \in Events
    OBVIOUS
  <2>2. arts[i] \in Artifacts
    BY <2>1
  <2>3. Len(l) + i \in Nat /\ Len(l) + i - 1 \in Nat /\ <<>> \in Seq(EventDecisions)
    OBVIOUS
  <2> QED
    BY <2>2, <2>3 DEF Artifacts, Events, EventTypes
<1>2. m = l \o more
  BY DEF EmitArtifacts
<1>3. \A i \in 1..Len(arts) :
        /\ E(i).type = "artifact_recorded" /\ E(i).artifacts = {arts[i].id} /\ E(i).task = t
        /\ E(i).seq = Len(l) + i /\ E(i).prev = Len(l) + i - 1
  OBVIOUS
<1>4. \A i \in 1..Len(arts) : more[i] = E(i)
  OBVIOUS
<1> HIDE DEF E
<1>5. more \in [1..Len(arts) -> Events] /\ Len(arts) \in Nat
  BY <1>1
<1> HIDE DEF more
<1>6. m \in Seq(Events) /\ Continues(m, l, Len(arts), more)
  BY <1>2, <1>5, Joined
<1>7. /\ DecisionsIn(m) = DecisionsIn(l) \cup
           {<<more[i].task, more[i].decision[1].n, more[i].ok>> :
              i \in {j \in 1..Len(arts) : more[j].type = "policy_decided"}}
      /\ ArtifactsIn(m) = ArtifactsIn(l) \cup
           UNION {more[i].artifacts : i \in {j \in 1..Len(arts) : more[j].type = "artifact_recorded"}}
      /\ EndsOf(m) = EndsOf(l) \cup {Len(l) + i : i \in {j \in 1..Len(arts) : more[j].type = "run_finished"}}
      /\ \A earlier : ProducedIn(earlier, l) => ProducedIn(earlier, m)
  BY <1>2, <1>5, EventsJoined
<1>8. /\ {j \in 1..Len(arts) : more[j].type = "policy_decided"} = {}
      /\ {j \in 1..Len(arts) : more[j].type = "run_finished"} = {}
      /\ {j \in 1..Len(arts) : more[j].type = "artifact_recorded"} = 1..Len(arts)
  BY <1>3, <1>4
<1>9. ArtifactsOf(arts) = UNION {more[i].artifacts : i \in 1..Len(arts)}
  <2>1. DOMAIN arts = 1..Len(arts) /\ \A i \in 1..Len(arts) : more[i].artifacts = {arts[i].id}
    BY <1>3, <1>4
  <2> QED
    BY <2>1 DEF ArtifactsOf
<1>10. Numbered(l) => Numbered(m)
  <2>1. \A i \in 1..Len(arts) : more[i].seq = Len(l) + i /\ more[i].prev = Len(l) + i - 1
    BY <1>3, <1>4
  <2>2. SUFFICES ASSUME Numbered(l) PROVE Numbered(m)
    OBVIOUS
  <2> QED
    BY <1>2, <1>5, <2>1, <2>2, NumberedOn
<1>11. /\ Len(m) = Len(l) + Len(arts)
       /\ \A i \in DOMAIN l : i \in DOMAIN m /\ m[i] = l[i]
       /\ \A i \in 1..Len(arts) : Len(l) + i \in DOMAIN m /\ m[Len(l) + i] = more[i]
  BY <1>6 DEF Continues
<1>12. Recording(m, Len(l), t, arts)
  BY <1>3, <1>4, <1>11 DEF Recording
<1>13. DecisionsIn(m) = DecisionsIn(l) /\ EndsOf(m) = EndsOf(l)
  BY <1>7, <1>8
<1>14. ArtifactsIn(m) = ArtifactsIn(l) \cup ArtifactsOf(arts)
  BY <1>7, <1>8, <1>9
<1>15. Len(l) <= Len(m)
  BY <1>5, <1>11
<1> QED
  BY <1>6, <1>7, <1>10, <1>11, <1>12, <1>13, <1>14, <1>15 DEF Adds

\* Decisions of a task that had none, and what they say of revocation.
LEMMA DecisionsGathered ==
  ASSUME NEW ds \in Seq(Decisions), NEW more \in Seq(Decisions)
  PROVE  /\ DecisionsOf(ds \o more) = DecisionsOf(ds) \cup DecisionsOf(more)
         /\ \A ids : SparedBy(ds, ids) /\ SparedBy(more, ids) => SparedBy(ds \o more, ids)
         /\ /\ DecidedOnce(ds)
            /\ \A i, j \in DOMAIN more : more[i].n = more[j].n => i = j
            /\ \A i \in DOMAIN ds, j \in DOMAIN more : ds[i].task # more[j].task
            => DecidedOnce(ds \o more)
<1> DEFINE all == ds \o more
<1>1. more \in [1..Len(more) -> Decisions] /\ Len(more) \in Nat /\ DOMAIN more = 1..Len(more)
  OBVIOUS
<1>2. Continues(all, ds, Len(more), more)
  BY <1>1, Joined
<1> HIDE DEF all
<1>3. /\ \A i \in DOMAIN ds : i \in DOMAIN all /\ all[i] = ds[i]
      /\ \A i \in DOMAIN more : Len(ds) + i \in DOMAIN all /\ all[Len(ds) + i] = more[i]
      /\ \A k \in DOMAIN all : k \in DOMAIN ds \/ \E i \in DOMAIN more : k = Len(ds) + i
  BY <1>1, <1>2 DEF Continues
<1>4. DecisionsOf(all) = DecisionsOf(ds) \cup DecisionsOf(more)
  BY <1>3 DEF DecisionsOf
<1>5. \A ids : SparedBy(ds, ids) /\ SparedBy(more, ids) => SparedBy(all, ids)
  BY <1>3 DEF SparedBy
<1>6. ASSUME DecidedOnce(ds), \A i, j \in DOMAIN more : more[i].n = more[j].n => i = j,
             \A i \in DOMAIN ds, j \in DOMAIN more : ds[i].task # more[j].task
      PROVE  DecidedOnce(all)
  <2>1. SUFFICES ASSUME NEW i \in DOMAIN all, NEW j \in DOMAIN all,
                        all[i].task = all[j].task, all[i].n = all[j].n
                 PROVE  i = j
    BY DEF DecidedOnce
  <2>2. CASE i \in DOMAIN ds /\ j \in DOMAIN ds
    BY <1>3, <1>6, <2>1, <2>2 DEF DecidedOnce
  <2>3. CASE i \notin DOMAIN ds /\ j \notin DOMAIN ds
    <3>1. PICK a \in DOMAIN more, b \in DOMAIN more : i = Len(ds) + a /\ j = Len(ds) + b
      BY <1>3, <2>3
    <3>2. more[a] = all[i] /\ more[b] = all[j]
      BY <1>3, <3>1
    <3> QED
      BY <1>6, <2>1, <3>1, <3>2
  <2>4. CASE i \in DOMAIN ds /\ j \notin DOMAIN ds
    <3>1. PICK b \in DOMAIN more : j = Len(ds) + b
      BY <1>3, <2>4
    <3>2. more[b] = all[j] /\ ds[i] = all[i]
      BY <1>3, <2>4, <3>1
    <3> QED
      BY <1>6, <2>1, <2>4, <3>2
  <2>5. CASE i \notin DOMAIN ds /\ j \in DOMAIN ds
    <3>1. PICK a \in DOMAIN more : i = Len(ds) + a
      BY <1>3, <2>5
    <3>2. more[a] = all[i] /\ ds[j] = all[j]
      BY <1>3, <2>5, <3>1
    <3> QED
      BY <1>6, <2>1, <2>5, <3>2
  <2> QED
    BY <2>2, <2>3, <2>4, <2>5
<1> QED
  BY <1>4, <1>5, <1>6 DEF all

\* A decision that speaks of no revocation names no revoked ticket.
LEMMA EvaluationSpares ==
  ASSUME NEW c \in Contracts, NEW t \in TaskIds(c), NEW time \in Nat, NEW ids \in SUBSET TicketIds
  PROVE  SparedBy(EvaluateTask(c, t, time, ids), ids)
<1> DEFINE V(n) == EvaluateAction(c, t, EffectsOf(c, t)[n], time, ids)
<1>1. \A e : TicketVerdict(c, t, e, time, ids).reason # "revoked"
               => TicketVerdict(c, t, e, time, ids).ticket \notin ids
  <2>1. SUFFICES ASSUME NEW e, TicketVerdict(c, t, e, time, ids).ticket \in ids
                 PROVE  TicketVerdict(c, t, e, time, ids).reason = "revoked"
    OBVIOUS
  <2>2. NoTicket \notin ids
    BY NoTicketAssumption
  <2> QED
    BY <2>1, <2>2 DEF TicketVerdict, Allow, Deny
<1>2. \A scope, p : ScopeVerdict(scope, p).ticket \notin ids
  BY NoTicketAssumption DEF ScopeVerdict, Allow, Deny
<1>3. \A n : V(n).reason # "revoked" => V(n).ticket \notin ids
  BY <1>1, <1>2 DEF EvaluateAction
<1> HIDE DEF V
<1>4. \A n \in DOMAIN EvaluateTask(c, t, time, ids) :
        /\ EvaluateTask(c, t, time, ids)[n].reason = V(n).reason
        /\ EvaluateTask(c, t, time, ids)[n].ticket = V(n).ticket
  BY DEF EvaluateTask, V
<1> QED
  BY <1>3, <1>4 DEF SparedBy

-----------------------------------------------------------------------------
(* The records agree after every step. *)

LEMMA InitRecords == Init => Records
<1> SUFFICES ASSUME Init PROVE Records
  OBVIOUS
<1>1. ledger = <<>> /\ decisions = <<>> /\ artifacts = <<>> /\ pc = "idle"
  BY DEF Init
<1>2. RecordsAgree
  BY <1>1 DEF RecordsAgree, Numbered, DecisionsIn, DecisionsOf, ArtifactsIn, ArtifactsOf,
              ProducedIn, DecidedOnce, SparedBy
<1> QED
  BY <1>1, <1>2 DEF Records, BeginsAndEnds, PendingOwn

\* A call starts with empty records.
LEMMA CallRecords == Call => Records'
<1> SUFFICES ASSUME Call PROVE Records'
  OBVIOUS
<1>1. PICK l \in Launches : Arguments(l) /\ pc' \in {"idle", "snapshot"}
  BY DEF Call, Refuse, Launch
<1>2. ledger' = <<>> /\ decisions' = <<>> /\ artifacts' = <<>>
  BY <1>1 DEF Arguments
<1>3. RecordsAgree'
  BY <1>2 DEF RecordsAgree, Numbered, DecisionsIn, DecisionsOf, ArtifactsIn, ArtifactsOf,
              ProducedIn, DecidedOnce, SparedBy
<1>4. EndsOf(ledger') = {}
  BY <1>2 DEF EndsOf
<1> QED
  BY <1>1, <1>2, <1>3, <1>4 DEF Records, BeginsAndEnds, PendingOwn

\* Steps that record nothing.
LEMMA QuietRecords ==
  ASSUME Records,
         \/ Snapshot \/ PassOver \/ EndSweep \/ Close \/ Publish \/ IOError \/ Crash \/ Tick \/ Edit
         \/ UNCHANGED vars
  PROVE  Records'
<1> USE DEF launchVars, sweepVars, taskVars, recordVars
<1>1. /\ UNCHANGED <<revoked, ledger, decisions, artifacts>>
      /\ \/ pc' = "idle"
         \/ pc' = pc /\ (pc = "act" => UNCHANGED <<cursor, action, pending>>)
         \/ pc \in {"sweep", "close"} /\ pc' \in {"close", "finish"}
  <2>1. CASE Snapshot
    BY <2>1 DEF Snapshot, Return
  <2>2. CASE PassOver
    BY <2>2 DEF PassOver
  <2>3. CASE EndSweep
    BY <2>3 DEF EndSweep, Return
  <2>4. CASE Close
    BY <2>4 DEF Close, Return
  <2>5. CASE Publish
    BY <2>5 DEF Publish, Return
  <2>6. CASE IOError \/ Crash
    BY <2>6 DEF IOError, Crash, Abort, Return
  <2>7. CASE Tick \/ Edit
    BY <2>7 DEF Tick, Edit, EnvUnchanged
  <2>8. CASE UNCHANGED vars
    BY <2>8 DEF vars
  <2> QED
    BY <2>1, <2>2, <2>3, <2>4, <2>5, <2>6, <2>7, <2>8
<1>2. RecordsAgree'
  BY <1>1 DEF Records, RecordsAgree
<1>3. BeginsAndEnds'
  BY <1>1 DEF Records, BeginsAndEnds
<1>4. PendingOwn'
  BY <1>1 DEF Records, PendingOwn
<1> QED
  BY <1>2, <1>3, <1>4 DEF Records

\* One event of a run or a task, appended while the run goes on or to end it.
LEMMA EventRecords ==
  ASSUME Records, ledger \in Seq(Events), NEW e \in Events, ledger' = Append(ledger, e),
         e.type \notin {"policy_decided", "artifact_recorded"},
         e.seq = Len(ledger) + 1, e.prev = Len(ledger),
         UNCHANGED <<revoked, decisions, artifacts>>,
         pc \notin {"idle", "publish"}, pc' \notin {"idle", "act"},
         e.type = "run_started" <=> pc = "snapshot", pc = "snapshot" => ledger = <<>>,
         e.type = "run_finished" <=> pc' = "publish"
  PROVE  Records'
<1> DEFINE ends == IF e.type = "run_finished" THEN {Len(ledger) + 1} ELSE {}
<1>1. /\ Len(ledger') = Len(ledger) + 1 /\ ledger'[Len(ledger) + 1] = e
      /\ Adds(ledger', ledger, {}, {}, ends) /\ Len(ledger) \in Nat /\ ledger' # <<>>
  <2>1. Len(ledger') = Len(ledger) + 1 /\ ledger'[Len(ledger) + 1] = e /\ Adds(ledger', ledger, {}, {}, ends)
    BY EventAppended, ZenonT(30)
  <2>2. Len(ledger) \in Nat /\ ledger' # <<>>
    BY <2>1
  <2> QED
    BY <2>1, <2>2
<1>2. RecordsAgree' /\ EndsOf(ledger') = EndsOf(ledger) \cup ends
  BY <1>1 DEF Records, RecordsAgree, Adds
<1>3. ledger'[1].type = "run_started"
  <2>1. CASE pc = "snapshot"
    <3>1. Len(ledger) + 1 = 1
      BY <2>1
    <3> QED
      BY <1>1, <2>1, <3>1
  <2>2. CASE pc # "snapshot"
    <3>1. ledger # <<>> /\ ledger[1].type = "run_started"
      BY <2>2 DEF Records, BeginsAndEnds
    <3>2. 1 \in DOMAIN ledger
      BY <3>1
    <3> QED
      BY <1>1, <3>1, <3>2 DEF Adds
  <2> QED
    BY <2>1, <2>2
<1>4. EndsOf(ledger) = {}
  BY DEF Records, BeginsAndEnds
<1>5. BeginsAndEnds'
  BY <1>1, <1>2, <1>3, <1>4 DEF BeginsAndEnds
<1> QED
  BY <1>2, <1>5 DEF Records, PendingOwn

LEMMA OpenLedgerRecords == RunInvariant /\ Records /\ OpenLedger => Records'
<1> SUFFICES ASSUME RunInvariant, Records, OpenLedger PROVE Records'
  OBVIOUS
<1>1. /\ pc = "snapshot" /\ pc' = "sweep" /\ ledger = <<>>
      /\ UNCHANGED <<revoked, decisions, artifacts>>
  BY DEF OpenLedger, RunInvariant, BeforeEvents, launchVars
<1> DEFINE e == Event(ledger, "run_started", 0, TRUE)
<1>2. e \in Events
  <2>1. <<>> \in Seq(EventDecisions) /\ Len(ledger) \in Nat
    BY <1>1
  <2> QED
    BY <2>1 DEF Event, Events, EventTypes
<1>3. e.type = "run_started" /\ e.seq = Len(ledger) + 1 /\ e.prev = Len(ledger)
  BY DEF Event
<1>4. ledger' = Append(ledger, e) /\ ledger \in Seq(Events)
  BY <1>1 DEF OpenLedger, Emit
<1> HIDE DEF e
<1> QED
  BY <1>1, <1>2, <1>3, <1>4, EventRecords

LEMMA FinishRecords == RunInvariant /\ Records /\ Finish => Records'
<1> SUFFICES ASSUME RunInvariant, Records, Finish PROVE Records'
  OBVIOUS
<1>1. /\ pc = "finish" /\ pc' = "publish" /\ ledger \in Seq(Events)
      /\ UNCHANGED <<revoked, decisions, artifacts>>
  BY DEF Finish, RunInvariant, TypeOK, RecordsTypeOK, launchVars
<1> DEFINE e == Event(ledger, "run_finished", 0, failures = <<>>)
<1>2. e \in Events
  <2>1. <<>> \in Seq(EventDecisions) /\ Len(ledger) \in Nat
    BY <1>1
  <2> QED
    BY <2>1 DEF Event, Events, EventTypes
<1>3. e.type = "run_finished" /\ e.seq = Len(ledger) + 1 /\ e.prev = Len(ledger)
  BY DEF Event
<1>4. ledger' = Append(ledger, e)
  BY DEF Finish, Emit
<1> HIDE DEF e
<1> QED
  BY <1>1, <1>2, <1>3, <1>4, EventRecords

\* A task that fails adds its last event to a ledger whose records agree.
LEMMA FailTaskRecords ==
  ASSUME RunInvariant, Records, pc = "act", NEW phase, FailTask(ledger, phase),
         UNCHANGED <<revoked, decisions, artifacts>>
  PROVE  Records'
<1>1. pc' = "finish" /\ ledger \in Seq(Events) /\ cursor \in Nat
  BY DEF FailTask, RunInvariant, TypeOK, RecordsTypeOK, ControlTypeOK
<1> DEFINE e == Event(ledger, "task_finished", cursor, FALSE)
<1>2. e \in Events
  <2>1. <<>> \in Seq(EventDecisions) /\ Len(ledger) \in Nat
    BY <1>1
  <2> QED
    BY <1>1, <2>1 DEF Event, Events, EventTypes
<1>3. e.type = "task_finished" /\ e.seq = Len(ledger) + 1 /\ e.prev = Len(ledger)
  BY DEF Event
<1>4. ledger' = Append(ledger, e)
  BY DEF FailTask, Emit
<1> HIDE DEF e
<1> QED
  BY <1>1, <1>2, <1>3, <1>4, EventRecords

\* What is added in two steps.
LEMMA AddsTwice ==
  ASSUME NEW k, NEW l, NEW m, NEW ds1, NEW arts1, NEW ends1, NEW ds2, NEW arts2, NEW ends2,
         Len(k) \in Nat, Len(l) \in Nat, Len(m) \in Nat,
         Adds(l, k, ds1, arts1, ends1), Adds(m, l, ds2, arts2, ends2)
  PROVE  Adds(m, k, ds1 \cup ds2, arts1 \cup arts2, ends1 \cup ends2)
<1>1. m \in Seq(Events) /\ Len(k) <= Len(m)
  BY DEF Adds
<1>2. \A i \in DOMAIN k : i \in DOMAIN m /\ m[i] = k[i]
  BY DEF Adds
<1>3. /\ DecisionsIn(m) = DecisionsIn(k) \cup (ds1 \cup ds2)
      /\ ArtifactsIn(m) = ArtifactsIn(k) \cup (arts1 \cup arts2)
      /\ EndsOf(m) = EndsOf(k) \cup (ends1 \cup ends2)
  BY DEF Adds
<1>4. /\ \A made : ProducedIn(made, k) => ProducedIn(made, m)
      /\ Numbered(k) => Numbered(m)
  BY DEF Adds
<1> QED
  BY <1>1, <1>2, <1>3, <1>4 DEF Adds

\* While tasks are started and end, the ledger begins as it did and has no end.
LEMMA StillOpen ==
  ASSUME Records, ledger \in Seq(Events), NEW ds, NEW arts, Adds(ledger', ledger, ds, arts, {}),
         pc \in {"sweep", "act"}, pc' \in {"sweep", "act", "finish"}
  PROVE  BeginsAndEnds'
<1>1. ledger # <<>> /\ ledger[1].type = "run_started" /\ EndsOf(ledger) = {}
  BY DEF Records, BeginsAndEnds
<1>2. 1 \in DOMAIN ledger
  BY <1>1
<1>3. 1 \in DOMAIN ledger' /\ ledger'[1].type = "run_started" /\ EndsOf(ledger') = {}
  BY <1>1, <1>2 DEF Adds
<1>4. ledger' # <<>>
  BY <1>3
<1> QED
  BY <1>3, <1>4 DEF BeginsAndEnds

\* A task that starts has not been decided on before.
LEMMA StartTaskRecords == RunInvariant /\ Progress /\ Records /\ StartTask => Records'
<1> SUFFICES ASSUME RunInvariant, Progress, Records, StartTask PROVE Records'
  OBVIOUS
<1> DEFINE ds    == EvaluateTask(contract, cursor, now, revoked)
           start == Event(ledger, "task_started", cursor, TRUE)
           first == Emit(ledger, "task_started", cursor, TRUE)
           begun == EmitDecisions(first, ds)
           last  == Event(begun, "task_finished", cursor, FALSE)
<1>1. /\ pc = "sweep" /\ cursor \in TaskIds(contract) /\ status[cursor] # "success"
      /\ UNCHANGED <<revoked, artifacts>> /\ decisions' = decisions \o ds /\ pending' = <<>>
      /\ \/ ledger' = Append(begun, last) /\ pc' = "finish"
         \/ ledger' = begun /\ pc' = "act"
  BY DEF StartTask, FailTask, Emit, launchVars
<1>2. /\ contract \in Contracts /\ now \in Nat /\ cursor \in Nat /\ revoked \in SUBSET TicketIds
      /\ ledger \in Seq(Events) /\ decisions \in Seq(Decisions)
  BY DEF RunInvariant, TypeOK, InputsTypeOK, ControlTypeOK, RecordsTypeOK
<1>3. /\ ds \in Seq(Decisions)
      /\ \A n \in DOMAIN ds : ds[n].task = cursor /\ ds[n].n = n
  BY <1>1, <1>2, EvaluateTaskType
<1>4. SparedBy(ds, revoked)
  BY <1>1, <1>2, EvaluationSpares
<1>5. Adds(first, ledger, {}, {}, {})
  <2>1. start \in Events
    <3>1. <<>> \in Seq(EventDecisions) /\ Len(ledger) \in Nat
      BY <1>2
    <3> QED
      BY <1>2, <3>1 DEF Event, Events, EventTypes
  <2>2. start.type = "task_started" /\ start.seq = Len(ledger) + 1 /\ start.prev = Len(ledger)
    BY DEF Event
  <2>3. first = Append(ledger, start)
    BY DEF Emit
  <2> HIDE DEF start, first
  <2>4. Adds(first, ledger, {}, {}, IF start.type = "run_finished" THEN {Len(ledger) + 1} ELSE {})
    BY <1>2, <2>1, <2>2, <2>3, EventAppended
  <2> QED
    BY <2>2, <2>4
<1> HIDE DEF ds, start, first
<1>6. first \in Seq(Events)
  BY <1>5 DEF Adds
<1>7. Adds(begun, first, DecisionsOf(ds), {}, {})
  BY <1>3, <1>6, DecisionsAppended
<1>8. begun \in Seq(Events)
  BY <1>7 DEF Adds
<1>9. Adds(begun, ledger, DecisionsOf(ds), {}, {})
  <2>1. Adds(begun, ledger, {} \cup DecisionsOf(ds), {} \cup {}, {} \cup {})
    <3>1. Len(ledger) \in Nat /\ Len(first) \in Nat /\ Len(begun) \in Nat
      BY <1>2, <1>6, <1>8
    <3> QED
      BY <1>5, <1>7, <3>1, AddsTwice
  <2>2. {} \cup DecisionsOf(ds) = DecisionsOf(ds) /\ {} \cup {} = {}
    OBVIOUS
  <2> QED
    BY <2>1, <2>2
<1>10. Adds(Append(begun, last), begun, {}, {}, {})
  <2>1. last \in Events
    <3>1. <<>> \in Seq(EventDecisions) /\ Len(begun) \in Nat
      BY <1>8
    <3> QED
      BY <1>2, <3>1 DEF Event, Events, EventTypes
  <2>2. last.type = "task_finished" /\ last.seq = Len(begun) + 1 /\ last.prev = Len(begun)
    BY DEF Event
  <2> HIDE DEF last, begun
  <2>4. Adds(Append(begun, last), begun, {}, {}, IF last.type = "run_finished" THEN {Len(begun) + 1} ELSE {})
    BY <1>8, <2>1, <2>2, EventAppended
  <2> QED
    BY <2>2, <2>4
<1> HIDE DEF begun, last
<1>11. Adds(ledger', ledger, DecisionsOf(ds), {}, {})
  <2>1. CASE ledger' = begun
    BY <1>9, <2>1
  <2>2. CASE ledger' = Append(begun, last)
    <3>1. Adds(ledger', begun, {}, {}, {})
      BY <1>10, <2>2
    <3>2. Len(ledger) \in Nat /\ Len(begun) \in Nat /\ Len(ledger') \in Nat
      <4>1. ledger' \in Seq(Events)
        BY <3>1 DEF Adds
      <4> QED
        BY <1>2, <1>8, <4>1
    <3>3. Adds(ledger', ledger, DecisionsOf(ds) \cup {}, {} \cup {}, {} \cup {})
      BY <1>9, <3>1, <3>2, AddsTwice
    <3>4. DecisionsOf(ds) \cup {} = DecisionsOf(ds) /\ {} \cup {} = {}
      OBVIOUS
    <3> QED
      BY <3>3, <3>4
  <2> QED
    BY <1>1, <2>1, <2>2
<1>12. \A i \in DOMAIN decisions : decisions[i].task # cursor
  <2>1. SUFFICES ASSUME NEW i \in DOMAIN decisions, decisions[i].task = cursor PROVE FALSE
    OBVIOUS
  <2>2. <<decisions[i].task, decisions[i].n, decisions[i].verdict = "allow">> \in DecisionsIn(ledger)
    BY DEF Records, RecordsAgree, DecisionsOf
  <2>3. PICK j \in DOMAIN ledger : ledger[j].type = "policy_decided" /\ ledger[j].task = cursor
    BY <2>1, <2>2 DEF DecisionsIn
  <2>4. DecidedOn(cursor) = {}
    BY <1>1 DEF Progress, GrantsInOrder
  <2> QED
    BY <2>3, <2>4 DEF DecidedOn
<1>13. /\ DecisionsOf(decisions') = DecisionsOf(decisions) \cup DecisionsOf(ds)
       /\ SparedBy(decisions', revoked) /\ DecidedOnce(decisions')
  <2>1. /\ DecidedOnce(decisions) /\ SparedBy(decisions, revoked)
        /\ \A i, j \in DOMAIN ds : ds[i].n = ds[j].n => i = j
        /\ \A i \in DOMAIN decisions, j \in DOMAIN ds : decisions[i].task # ds[j].task
    BY <1>3, <1>12 DEF Records, RecordsAgree
  <2>2. /\ DecisionsOf(decisions \o ds) = DecisionsOf(decisions) \cup DecisionsOf(ds)
        /\ SparedBy(decisions \o ds, revoked)
    BY <1>2, <1>3, <1>4, <2>1, DecisionsGathered
  <2>3. DecidedOnce(decisions \o ds)
    BY <1>2, <1>3, <2>1, DecisionsGathered
  <2> QED
    BY <1>1, <2>2, <2>3
<1>14. RecordsAgree'
  BY <1>1, <1>11, <1>13 DEF Records, RecordsAgree, Adds
<1>15. BeginsAndEnds'
  BY <1>1, <1>2, <1>11, StillOpen
<1>16. PendingOwn'
  BY <1>1 DEF PendingOwn
<1> QED
  BY <1>14, <1>15, <1>16 DEF Records

\* A task that succeeds adds its artifacts, each at its event.
LEMMA CompleteTaskRecords ==
  ASSUME RunInvariant, Records, pc = "act", CompleteTask, UNCHANGED <<revoked, decisions>>
  PROVE  Records'
<1> DEFINE recorded == EmitArtifacts(ledger, cursor, pending)
           last == [Event(recorded, "task_finished", cursor, TRUE) EXCEPT
                      !.artifacts = {pending[i].id : i \in DOMAIN pending}]
           more == [i \in 1..Len(pending) |-> [pending[i] EXCEPT !.event = Len(ledger) + i]]
<1>1. /\ ledger' = Append(recorded, last) /\ artifacts' = artifacts \o more /\ pc' = "sweep"
  BY DEF CompleteTask
<1>2. /\ ledger \in Seq(Events) /\ pending \in Seq(Artifacts) /\ artifacts \in Seq(Artifacts)
      /\ cursor \in Nat /\ Len(pending) \in Nat /\ Len(ledger) \in Nat
      /\ DOMAIN pending = 1..Len(pending)
  BY DEF RunInvariant, TypeOK, ControlTypeOK, RecordsTypeOK
<1>3. /\ Adds(recorded, ledger, {}, ArtifactsOf(pending), {})
      /\ Recording(recorded, Len(ledger), cursor, pending)
  BY <1>2, ArtifactsAppended
<1>4. recorded \in Seq(Events)
  BY <1>3 DEF Adds
<1>5. /\ last \in Events
      /\ last.type = "task_finished" /\ last.seq = Len(recorded) + 1 /\ last.prev = Len(recorded)
  <2>1. \A i \in DOMAIN pending : pending[i].id \in ArtifactIds
    <3>1. \A i \in DOMAIN pending : pending[i] \in Artifacts
      BY <1>2
    <3> QED
      BY <3>1 DEF Artifacts
  <2>2. {pending[i].id : i \in DOMAIN pending} \in SUBSET ArtifactIds
    BY <2>1
  <2>3. Len(recorded) \in Nat /\ Len(recorded) + 1 \in Nat /\ <<>> \in Seq(EventDecisions)
    BY <1>4
  <2>4. last \in Events
    BY <1>2, <2>2, <2>3 DEF Event, Events, EventTypes
  <2>5. last.type = "task_finished" /\ last.seq = Len(recorded) + 1 /\ last.prev = Len(recorded)
    BY Zenon DEF Event
  <2> QED
    BY <2>4, <2>5
<1>6. \A i \in 1..Len(pending) : /\ more[i] \in Artifacts
                                 /\ more[i].id = pending[i].id /\ more[i].event = Len(ledger) + i
  <2>1. SUFFICES ASSUME NEW i \in 1..Len(pending)
                 PROVE  /\ [pending[i] EXCEPT !.event = Len(ledger) + i] \in Artifacts
                        /\ [pending[i] EXCEPT !.event = Len(ledger) + i].id = pending[i].id
                        /\ [pending[i] EXCEPT !.event = Len(ledger) + i].event = Len(ledger) + i
    BY Zenon
  <2>2. pending[i] \in Artifacts /\ Len(ledger) + i \in Nat
    BY <1>2
  <2> QED
    BY <2>2 DEF Artifacts
<1>7. more \in [1..Len(pending) -> Artifacts]
  BY <1>6
<1> HIDE DEF recorded, last, more
<1>8. Adds(ledger', recorded, {}, {}, {})
  <2>1. Adds(ledger', recorded, {}, {}, IF last.type = "run_finished" THEN {Len(recorded) + 1} ELSE {})
    BY <1>1, <1>4, <1>5, EventAppended
  <2> QED
    BY <1>5, <2>1
<1>9. Adds(ledger', ledger, {}, ArtifactsOf(pending), {})
  <2>1. Len(recorded) \in Nat /\ Len(ledger') \in Nat
    <3>1. ledger' \in Seq(Events)
      BY <1>8 DEF Adds
    <3> QED
      BY <1>4, <3>1
  <2>2. Adds(ledger', ledger, {} \cup {}, ArtifactsOf(pending) \cup {}, {} \cup {})
    BY <1>2, <1>3, <1>8, <2>1, AddsTwice
  <2>3. {} \cup {} = {} /\ ArtifactsOf(pending) \cup {} = ArtifactsOf(pending)
    OBVIOUS
  <2> QED
    BY <2>2, <2>3
<1>10. Continues(artifacts', artifacts, Len(pending), more)
  BY <1>1, <1>2, <1>7, Joined
<1>11. /\ \A i \in DOMAIN artifacts : i \in DOMAIN artifacts' /\ artifacts'[i] = artifacts[i]
       /\ \A i \in DOMAIN pending : /\ Len(artifacts) + i \in DOMAIN artifacts'
                                    /\ artifacts'[Len(artifacts) + i] = more[i]
       /\ \A k \in DOMAIN artifacts' :
            k \in DOMAIN artifacts \/ \E i \in DOMAIN pending : k = Len(artifacts) + i
  BY <1>2, <1>10 DEF Continues
<1>12. ArtifactsOf(artifacts') = ArtifactsOf(artifacts) \cup ArtifactsOf(pending)
  <2>1. \A i \in DOMAIN pending : artifacts'[Len(artifacts) + i].id = pending[i].id
    BY <1>2, <1>6, <1>11
  <2> QED
    BY <1>11, <2>1 DEF ArtifactsOf
<1>13. ProducedIn(artifacts', ledger')
  <2>1. SUFFICES ASSUME NEW k \in DOMAIN artifacts'
                 PROVE  /\ artifacts'[k].event \in DOMAIN ledger'
                        /\ ledger'[artifacts'[k].event].type = "artifact_recorded"
                        /\ ledger'[artifacts'[k].event].artifacts = {artifacts'[k].id}
                        /\ ledger'[artifacts'[k].event].task = artifacts'[k].id.task
    BY DEF ProducedIn
  <2>2. CASE k \in DOMAIN artifacts
    <3>1. ProducedIn(artifacts, ledger')
      BY <1>9 DEF Records, RecordsAgree, Adds
    <3> QED
      BY <1>11, <2>2, <3>1 DEF ProducedIn
  <2>3. ASSUME NEW i \in DOMAIN pending, k = Len(artifacts) + i
        PROVE  /\ artifacts'[k].event \in DOMAIN ledger'
               /\ ledger'[artifacts'[k].event].type = "artifact_recorded"
               /\ ledger'[artifacts'[k].event].artifacts = {artifacts'[k].id}
               /\ ledger'[artifacts'[k].event].task = artifacts'[k].id.task
    <3>1. artifacts'[k].id = pending[i].id /\ artifacts'[k].event = Len(ledger) + i
      BY <1>2, <1>6, <1>11, <2>3
    <3>2. /\ Len(ledger) + i \in DOMAIN recorded
          /\ recorded[Len(ledger) + i].type = "artifact_recorded"
          /\ recorded[Len(ledger) + i].artifacts = {pending[i].id}
          /\ recorded[Len(ledger) + i].task = cursor
      BY <1>2, <1>3 DEF Recording
    <3>3. Len(ledger) + i \in DOMAIN ledger' /\ ledger'[Len(ledger) + i] = recorded[Len(ledger) + i]
      BY <1>8, <3>2 DEF Adds
    <3>4. pending[i].id.task = cursor
      BY DEF Records, PendingOwn
    <3> QED
      BY <3>1, <3>2, <3>3, <3>4
  <2> QED
    BY <1>11, <2>2, <2>3
<1>14. RecordsAgree'
  BY <1>9, <1>12, <1>13 DEF Records, RecordsAgree, Adds
<1>15. BeginsAndEnds'
  BY <1>1, <1>2, <1>9, StillOpen
<1> QED
  BY <1>1, <1>14, <1>15 DEF Records, PendingOwn

\* The artifact speaks of the current side effect; if that is no process, of what
\* it has left under the path it names.
Leaves(a) ==
  /\ a.id.task = cursor /\ a.id.n = action
  /\ Effect.type # "process.spawn" =>
       a.digest # NoFile /\ a.path = Effect.res /\ workspace'[a.path] = a.digest

\* What the artifacts of a side effect that succeeds speak of.
LEMMA ActionLeaves ==
  ASSUME RunInvariant, pc = "act", WriteFile \/ ReadFile \/ SpawnProcess \/ NoAdapter
  PROVE  \/ ActionFailed
         \/ \E n \in Nat : \E arts \in [1..n -> Artifacts] :
              Succeeded(arts) /\ \A i \in 1..n : Leaves(arts[i])
<1>1. /\ TypeOK /\ cursor \in TaskIds(contract) /\ action \in DOMAIN EffectsOf(contract, cursor)
      /\ workspace \in [Files -> Contents \cup {NoFile}]
  BY DEF RunInvariant, WhileActing, TypeOK, FilesTypeOK, WriteFile, ReadFile, SpawnProcess, NoAdapter, Acting
<1>2. \A stream, file, digest :
        /\ Artifact(stream, file, digest).id.task = cursor /\ Artifact(stream, file, digest).id.n = action
        /\ Artifact(stream, file, digest).path = file /\ Artifact(stream, file, digest).digest = digest
  BY DEF Artifact
<1>3. ASSUME NEW a \in Artifacts, Leaves(a), Succeeded(<<a>>)
      PROVE  \E n \in Nat : \E arts \in [1..n -> Artifacts] :
               Succeeded(arts) /\ \A i \in 1..n : Leaves(arts[i])
  <2>1. <<a>> \in [1..1 -> Artifacts] /\ \A i \in 1..1 : <<a>>[i] = a
    OBVIOUS
  <2> QED
    BY <1>3, <2>1
<1>4. CASE WriteFile
  <2>0. SUFFICES ASSUME ~ActionFailed
                 PROVE  \E n \in Nat : \E arts \in [1..n -> Artifacts] :
                          Succeeded(arts) /\ \A i \in 1..n : Leaves(arts[i])
    OBVIOUS
  <2>1. /\ Effect.res \in Paths /\ Effect.res \in Files
        /\ \A digest \in Contents : Artifact("artifact", Effect.res, digest) \in Artifacts
    BY <1>1, <1>4, ActingArtifact DEF WriteFile, Acting, Streams, Files
  <2>2. DemoText(contract, cursor) \in Contents
    <3>1. contract.objective \in Objectives /\ cursor \in Nat
      BY <1>1, TaskIdsInterval DEF TypeOK, InputsTypeOK, Contracts
    <3>2. DemoText(contract, cursor) \in Texts
      BY <3>1 DEF DemoText, Texts
    <3> QED
      BY <3>2 DEF Contents
  <2> DEFINE a == Artifact("artifact", Effect.res, DemoText(contract, cursor))
  <2>3. a \in Artifacts
    BY <2>1, <2>2
  <2>4. Succeeded(<<a>>) /\ workspace' = [workspace EXCEPT ![Effect.res] = DemoText(contract, cursor)]
    BY <1>4, <2>0, Zenon DEF WriteFile
  <2>5. /\ a.id.task = cursor /\ a.id.n = action
        /\ a.path = Effect.res /\ a.digest = DemoText(contract, cursor)
    BY <1>2
  <2> HIDE DEF a
  <2>6. DemoText(contract, cursor) # NoFile
    BY <2>2, NoFileAssumption
  <2>7. workspace'[Effect.res] = DemoText(contract, cursor)
    BY <1>1, <2>1, <2>4
  <2>8. Leaves(a)
    BY <2>5, <2>6, <2>7 DEF Leaves
  <2> QED
    BY <1>3, <2>3, <2>4, <2>8, Zenon
<1>5. CASE ReadFile
  <2>0. SUFFICES ASSUME ~ActionFailed
                 PROVE  \E n \in Nat : \E arts \in [1..n -> Artifacts] :
                          Succeeded(arts) /\ \A i \in 1..n : Leaves(arts[i])
    OBVIOUS
  <2>1. /\ Effect.res \in Paths /\ Effect.res \in Files
        /\ \A digest \in Contents : Artifact("read", Effect.res, digest) \in Artifacts
    BY <1>1, <1>5, ActingArtifact DEF ReadFile, Acting, Streams, Files
  <2> DEFINE a == Artifact("read", Effect.res, workspace[Effect.res])
  <2>2. Succeeded(<<a>>) /\ workspace[Effect.res] # NoFile /\ workspace' = workspace
    BY <1>5, <2>0, Zenon DEF ReadFile
  <2>3. a \in Artifacts
    BY <1>1, <2>1, <2>2
  <2>4. /\ a.id.task = cursor /\ a.id.n = action
        /\ a.path = Effect.res /\ a.digest = workspace[Effect.res]
    BY <1>2
  <2> HIDE DEF a
  <2>5. Leaves(a)
    BY <2>2, <2>4 DEF Leaves
  <2> QED
    BY <1>3, <2>2, <2>3, <2>5, Zenon
<1>6. CASE SpawnProcess
  <2>1. SUFFICES ASSUME ~ActionFailed
                 PROVE  \E n \in Nat : \E arts \in [1..n -> Artifacts] :
                          Succeeded(arts) /\ \A i \in 1..n : Leaves(arts[i])
    OBVIOUS
  <2>2. PICK out \in Outputs, err \in Outputs :
          Succeeded(<<Artifact("stdout", Capture("stdout"), out), Artifact("stderr", Capture("stderr"), err)>>)
    BY <1>6, <2>1, Zenon DEF SpawnProcess
  <2>3. \A stream \in {"stdout", "stderr"} : Capture(stream) \in Files
    BY <1>1, <1>6, ActingArtifact DEF SpawnProcess, Acting, Files
  <2> DEFINE a == Artifact("stdout", Capture("stdout"), out)
             b == Artifact("stderr", Capture("stderr"), err)
  <2>4. a \in Artifacts /\ b \in Artifacts
    BY <1>1, <1>6, <2>3, ActingArtifact DEF SpawnProcess, Acting, Streams, Contents
  <2>5. Effect.type = "process.spawn"
    BY <1>6 DEF SpawnProcess, Acting
  <2>6. Succeeded(<<a, b>>) /\ Leaves(a) /\ Leaves(b)
    BY <1>2, <2>2, <2>5 DEF Leaves
  <2> HIDE DEF a, b
  <2>7. <<a, b>> \in [1..2 -> Artifacts] /\ \A i \in 1..2 : <<a, b>>[i] = a \/ <<a, b>>[i] = b
    BY <2>4
  <2> QED
    BY <2>6, <2>7
<1>7. CASE NoAdapter
  BY <1>7 DEF NoAdapter
<1> QED
  BY <1>4, <1>5, <1>6, <1>7

\* A side effect leaves artifacts of its own with the task, or fails it.
LEMMA ActingRecords ==
  ASSUME RunInvariant, Records, WriteFile \/ ReadFile \/ SpawnProcess \/ NoAdapter
  PROVE  Records'
<1>1. pc = "act" /\ UNCHANGED <<revoked, decisions, artifacts, cursor>>
  BY DEF WriteFile, ReadFile, SpawnProcess, NoAdapter, Acting, ActingUnchanged, launchVars
<1>2. CASE ActionFailed
  BY <1>1, <1>2, FailTaskRecords DEF ActionFailed
<1>3. ASSUME NEW n \in Nat, NEW arts \in [1..n -> Artifacts], Succeeded(arts),
             \A i \in 1..n : Leaves(arts[i])
      PROVE  Records'
  <2>1. pending' = pending \o arts /\ action' = action + 1 /\ UNCHANGED <<pc, ledger>>
    BY <1>3 DEF Succeeded
  <2>2. pending \in Seq(Artifacts) /\ action \in Nat
    BY DEF RunInvariant, TypeOK, ControlTypeOK, RecordsTypeOK
  <2>3. Continues(pending', pending, n, arts)
    BY <2>1, <2>2, Joined
  <2>4. RecordsAgree' /\ BeginsAndEnds'
    BY <1>1, <2>1 DEF Records, RecordsAgree, BeginsAndEnds
  <2>5. ASSUME NEW k \in DOMAIN pending' PROVE pending'[k].id.task = cursor /\ pending'[k].id.n < action + 1
    <3>1. CASE k \in DOMAIN pending
      <4>1. /\ pending'[k] = pending[k] /\ pending[k].id.task = cursor /\ pending[k].id.n < action
            /\ pending[k] \in Artifacts
        BY <1>1, <2>2, <2>3, <3>1 DEF Continues, Records, PendingOwn
      <4>2. pending[k].id.n \in Nat
        BY <4>1 DEF Artifacts, ArtifactIds
      <4> QED
        BY <2>2, <4>1, <4>2
    <3>2. ASSUME NEW i \in 1..n, k = Len(pending) + i
          PROVE  pending'[k].id.task = cursor /\ pending'[k].id.n < action + 1
      <4>1. pending'[k] = arts[i] /\ arts[i].id.task = cursor /\ arts[i].id.n = action
        BY <1>3, <2>3, <3>2 DEF Continues, Leaves
      <4> QED
        BY <2>2, <4>1
    <3> QED
      BY <2>3, <3>1, <3>2 DEF Continues
  <2>6. PendingOwn'
    BY <1>1, <2>1, <2>5 DEF PendingOwn
  <2> QED
    BY <2>4, <2>6 DEF Records
<1> QED
  BY <1>1, <1>2, <1>3, ActionLeaves

LEMMA CompleteRecords ==
  ASSUME RunInvariant, Records, FinishActions \/ Check PROVE Records'
<1>1. pc = "act" /\ UNCHANGED <<revoked, decisions>>
  BY DEF FinishActions, Check, launchVars
<1>2. CompleteTask \/ (FailTask(ledger, "execution") /\ artifacts' = artifacts)
  BY DEF FinishActions, Check
<1> QED
  BY <1>1, <1>2, CompleteTaskRecords, FailTaskRecords

\* Ledger, decisions and artifacts of a run agree at any time.
LEMMA RecordsHold == Spec => []Records
<1>1. RunInvariant /\ Progress /\ Records /\ [Next]_vars => Records'
  <2> SUFFICES ASSUME RunInvariant, Progress, Records, [Next]_vars PROVE Records'
    OBVIOUS
  <2>1. CASE Call
    BY <2>1, CallRecords
  <2>2. CASE OpenLedger
    BY <2>2, OpenLedgerRecords
  <2>3. CASE StartTask
    BY <2>3, StartTaskRecords
  <2>4. CASE WriteFile \/ ReadFile \/ SpawnProcess \/ NoAdapter
    BY <2>4, ActingRecords
  <2>5. CASE FinishActions \/ Check
    BY <2>5, CompleteRecords
  <2>6. CASE Finish
    BY <2>6, FinishRecords
  <2>7. CASE \/ Snapshot \/ PassOver \/ EndSweep \/ Close \/ Publish \/ IOError \/ Crash \/ Tick \/ Edit
             \/ UNCHANGED vars
    BY <2>7, QuietRecords
  <2> QED
    BY <2>1, <2>2, <2>3, <2>4, <2>5, <2>6, <2>7 DEF Next, Step
<1> QED
  BY <1>1, InitRecords, RunInvariantHolds, ProgressHolds, PTL DEF Spec

-----------------------------------------------------------------------------
(* The run directory. *)

\* Steps that neither end a run nor write its pack.
LEMMA DirectoryKept ==
  ASSUME Directory, UNCHANGED packFile \/ packFile' = Empty,
         pc' # "publish", pc' # "idle" \/ outcome' \notin {"success", "failed"}
  PROVE  Directory'
  BY DEF Directory, Delivered, PackReadable

\* The pack of the run is that of a complete run.
LEMMA PublishDirectory ==
  ASSUME Records, Story, Directory, Publish PROVE Directory'
<1>1. /\ pc = "publish" /\ pc' = "idle"
      /\ UNCHANGED <<contract, status, ledger, decisions, artifacts, failures, snapshots, ledgerFile>>
      /\ ledgerFile = [lines |-> ledger, torn |-> FALSE]
  BY DEF Publish, Return, launchVars, sweepVars, recordVars, Directory
<1>2. ledgerFile.lines = ledger
  BY <1>1
<1>3. packFile' = PackOfRun /\ PackOfRun' = PackOfRun
  <2>1. packFile' = PackOfRun
    BY <1>2 DEF Publish, PackOfRun
  <2>2. PackOfRun' = PackOfRun
    BY <1>1 DEF PackOfRun, RunStatus, EvaluateClosure, MatrixStatus, ClosureRow, RowStatus
  <2> QED
    BY <2>1, <2>2
<1>4. /\ ledger # <<>> /\ ledger[1].type = "run_started" /\ EndsOf(ledger) = {Len(ledger)}
      /\ DecisionsIn(ledger) = DecisionsOf(decisions) /\ ArtifactsIn(ledger) = ArtifactsOf(artifacts)
      /\ ledger[Len(ledger)].ok = (failures = <<>>)
  BY <1>1 DEF Records, RecordsAgree, BeginsAndEnds, Story, LedgerClosed
<1>5. /\ PackOfRun.ledger = ledger /\ PackOfRun.status = RunStatus
      /\ PackOfRun.decisions = decisions /\ PackOfRun.artifacts = artifacts
  BY DEF PackOfRun
<1>6. (RunStatus = "success") = (failures = <<>>)
  BY DEF RunStatus
<1> HIDE DEF PackOfRun
<1>7. OneWholeRun(packFile'.ledger, packFile')
  <2>1. OneWholeRun(ledger, PackOfRun)
    <3>1. /\ ledger[1].type = "run_started" /\ {i \in DOMAIN ledger : ledger[i].type = "run_finished"} = {Len(ledger)}
          /\ ledger[Len(ledger)].ok = (PackOfRun.status = "success")
      BY <1>4, <1>5, <1>6 DEF EndsOf
    <3>2. DecisionsIn(ledger) = DecisionsOf(PackOfRun.decisions) /\ ArtifactsIn(ledger) = ArtifactsOf(PackOfRun.artifacts)
      BY <1>4, <1>5
    <3> QED
      BY <3>1, <3>2, Zenon DEF OneWholeRun, DecisionsIn, DecisionsOf, ArtifactsIn, ArtifactsOf
  <2> QED
    BY <1>3, <1>5, <2>1
<1> QED
  BY <1>1, <1>3, <1>7 DEF Directory

LEMMA InitDirectory == Init => Directory
  BY DEF Init, Directory, Delivered, PackReadable

LEMMA DirectoryHolds == Spec => []Directory
<1> USE DEF launchVars, sweepVars, taskVars, recordVars, dirVars
<1>1. RunInvariant /\ Records /\ Story /\ Directory /\ [Next]_vars => Directory'
  <2> SUFFICES ASSUME RunInvariant, Records, Story, Directory, [Next]_vars PROVE Directory'
    OBVIOUS
  <2>1. CASE Call
    <3>1. packFile' = packFile /\ pc' # "publish" /\ outcome' \notin {"success", "failed"}
      BY <2>1 DEF Call, Refuse, Launch, Arguments
    <3> QED
      BY <3>1, DirectoryKept
  <2>2. CASE Snapshot \/ OpenLedger \/ PassOver \/ EndSweep \/ Close
    <3>1. /\ packFile' = packFile /\ pc' # "publish"
          /\ pc' # "idle" \/ outcome' \notin {"success", "failed"}
      BY <2>2 DEF Snapshot, OpenLedger, PassOver, EndSweep, Close, Return
    <3> QED
      BY <3>1, DirectoryKept
  <2>3. CASE StartTask
    <3>1. packFile' = packFile /\ pc' \in {"act", "finish"}
      BY <2>3 DEF StartTask, FailTask
    <3> QED
      BY <3>1, DirectoryKept
  <2>4. CASE WriteFile \/ ReadFile \/ SpawnProcess \/ NoAdapter
    <3>1. packFile' = packFile /\ pc = "act"
      BY <2>4 DEF WriteFile, ReadFile, SpawnProcess, NoAdapter, Acting, ActingUnchanged
    <3>2. ActionFailed \/ \E as : Succeeded(as)
      BY <2>4, Zenon DEF WriteFile, ReadFile, SpawnProcess, NoAdapter
    <3>3. pc' \in {"act", "finish"}
      BY <3>1, <3>2 DEF ActionFailed, FailTask, Succeeded
    <3> QED
      BY <3>1, <3>3, DirectoryKept
  <2>5. CASE FinishActions \/ Check
    <3>1. packFile' = packFile /\ pc' \in {"sweep", "finish"}
      BY <2>5 DEF FinishActions, Check, CompleteTask, FailTask
    <3> QED
      BY <3>1, DirectoryKept
  <2>6. CASE Finish
    BY <2>6 DEF Finish, Directory, Delivered
  <2>7. CASE Publish
    BY <2>7, PublishDirectory
  <2>8. CASE IOError \/ Crash
    <3>1. pc \in Locations \ {"idle"} /\ CutShort /\ pc' = "idle" /\ outcome' \notin {"success", "failed"}
      BY <2>8 DEF IOError, Crash, Abort, Return, RunInvariant, TypeOK, ControlTypeOK
    <3>2. packFile' \in {packFile, Empty}
      <4>1. CASE pc = "snapshot"
        BY <3>1, <4>1 DEF CutShort
      <4>2. CASE pc \in {"sweep", "act", "close", "finish"}
        BY <3>1, <4>2 DEF CutShort
      <4>3. CASE pc = "publish"
        BY <3>1, <4>3 DEF CutShort
      <4> QED
        BY <3>1, <4>1, <4>2, <4>3 DEF Locations
    <3> QED
      BY <3>1, <3>2, DirectoryKept
  <2>9. CASE Tick \/ Edit \/ UNCHANGED vars
    <3>1. UNCHANGED <<launchVars, sweepVars, recordVars, snapshots, dirVars, pc, outcome>>
      BY <2>9 DEF Tick, Edit, EnvUnchanged, vars
    <3>2. PackOfRun' = PackOfRun
      BY <3>1 DEF PackOfRun, RunStatus, EvaluateClosure, MatrixStatus, ClosureRow, RowStatus
    <3> QED
      BY <3>1, <3>2 DEF Directory, Delivered
  <2> QED
    BY <2>1, <2>2, <2>3, <2>4, <2>5, <2>6, <2>7, <2>8, <2>9 DEF Next, Step
<1> QED
  BY <1>1, InitDirectory, RunInvariantHolds, RecordsHold, StoryHolds, PTL DEF Spec

-----------------------------------------------------------------------------
\* Evidence that verifies is that of one complete run, and the files it vouches
\* for hold what that run recorded, whatever crashed, failed or was repeated
\* before (verifier.go:19-78 against executor.go).
THEOREM AcceptedEvidenceWhole == Spec => []AcceptedEvidenceIsWhole
<1>1. Directory => AcceptedEvidenceIsWhole
  <2> SUFFICES ASSUME Directory, Accepts({}) PROVE
         /\ OneWholeRun(ledgerFile.lines, packFile)
         /\ \A i \in DOMAIN packFile.artifacts :
              workspace[packFile.artifacts[i].path] = packFile.artifacts[i].digest
         /\ \A i \in DOMAIN packFile.snapshots :
              snapFiles[packFile.snapshots[i].path] = packFile.snapshots[i].digest
    BY DEF AcceptedEvidenceIsWhole
  <2>1. /\ PackReadable(packFile) /\ packFile.ledger = ledgerFile.lines
        /\ ArtifactsIntact(packFile, workspace) /\ SnapshotsIntact(packFile, snapFiles)
    BY DEF Accepts, Verify, LedgerDigestMatches
  <2>2. OneWholeRun(ledgerFile.lines, packFile)
    BY <2>1 DEF Directory
  <2> QED
    BY <2>1, <2>2 DEF ArtifactsIntact, SnapshotsIntact
<1> QED
  BY <1>1, DirectoryHolds, PTL

-----------------------------------------------------------------------------
(* Files nobody else touched. *)

LEMMA SnapshotsKept ==
  ASSUME SnapshotsOwn, UNCHANGED snapshots,
         pc' = "snapshot" => pc = "snapshot" /\ UNCHANGED workspace,
         pc' # "idle" \/ Delivered' => UNCHANGED snapFiles /\ (pc # "idle" \/ Delivered)
  PROVE  SnapshotsOwn'
  BY DEF SnapshotsOwn

LEMMA ArtifactsKept ==
  ASSUME ArtifactsOwn, UNCHANGED <<contract, artifacts, workspace, status>>,
         pc' = "act" => pc = "act" /\ UNCHANGED pending
  PROVE  ArtifactsOwn'
<1> SUFFICES ASSUME Quiet(contract)
             PROVE  /\ \A i \in DOMAIN artifacts' : /\ InPlace(artifacts[i])'
                                                    /\ status'[artifacts'[i].id.task] = "success"
                    /\ pc' = "act" => \A i \in DOMAIN pending' : InPlace(pending[i])'
  BY DEF ArtifactsOwn, Quiet
<1>1. \A i \in DOMAIN artifacts : InPlace(artifacts[i]) /\ status[artifacts[i].id.task] = "success"
  BY DEF ArtifactsOwn
<1>2. \A i \in DOMAIN artifacts' : InPlace(artifacts[i])' /\ status'[artifacts'[i].id.task] = "success"
  BY <1>1 DEF InPlace
<1>3. ASSUME pc' = "act" PROVE \A i \in DOMAIN pending' : InPlace(pending[i])'
  <2>1. \A i \in DOMAIN pending : InPlace(pending[i])
    BY <1>3 DEF ArtifactsOwn
  <2> QED
    BY <1>3, <2>1 DEF InPlace
<1> QED
  BY <1>2, <1>3

\* Every declared read is copied as it stands.
LEMMA SnapshotUndisturbed ==
  ASSUME RunInvariant, SnapshotsOwn, ArtifactsOwn, Snapshot PROVE SnapshotsOwn' /\ ArtifactsOwn'
<1>1. /\ pc = "snapshot" /\ workspace' = workspace
      /\ UNCHANGED <<contract, artifacts, status, pending>>
  BY DEF Snapshot, launchVars, sweepVars, taskVars, recordVars
<1>2. ArtifactsOwn'
  <2>1. pc' # "act"
    BY <1>1 DEF Snapshot, Return
  <2> QED
    BY <1>1, <2>1, ArtifactsKept
<1>3. CASE pc' = "idle"
  <2>1. snapshots' = snapshots /\ ~Delivered'
    BY <1>1, <1>3 DEF Snapshot, Return, Delivered
  <2> QED
    BY <1>2, <1>3, <2>1, SnapshotsKept
<1>4. CASE pc' # "idle"
  <2> DEFINE p == contract.reads[Len(snapshots) + 1]
             s == [path |-> p, digest |-> workspace[p]]
  <2>1. /\ workspace[p] # NoFile /\ snapFiles' = [snapFiles EXCEPT ![p] = workspace[p]]
        /\ snapshots' = Append(snapshots, s) /\ pc' = "snapshot"
    BY <1>1, <1>4 DEF Snapshot, Return
  <2>2. /\ snapshots \in Seq(Snapshots) /\ snapFiles \in [Paths -> Contents \cup {NoFile}]
        /\ p \in Paths
    <3>1. contract.reads \in Seq(Paths) /\ Len(snapshots) < Len(contract.reads)
      BY DEF Snapshot, RunInvariant, TypeOK, InputsTypeOK, Contracts
    <3>2. snapshots \in Seq(Snapshots) /\ snapFiles \in [Paths -> Contents \cup {NoFile}]
      BY DEF RunInvariant, TypeOK, RecordsTypeOK, FilesTypeOK
    <3> QED
      BY <3>1, <3>2
  <2>3. s.path = p /\ s.digest = workspace[p]
    OBVIOUS
  <2> HIDE DEF s, p
  <2>4. /\ Len(snapshots) + 1 \in DOMAIN snapshots' /\ snapshots'[Len(snapshots) + 1] = s
        /\ \A i \in DOMAIN snapshots' :
             i = Len(snapshots) + 1 \/ (i \in DOMAIN snapshots /\ snapshots'[i] = snapshots[i])
    BY <2>1, <2>2
  <2>5. ASSUME NEW i \in DOMAIN snapshots'
        PROVE  /\ workspace'[snapshots'[i].path] = snapshots'[i].digest
               /\ snapshots'[i].digest # NoFile
               /\ snapFiles'[snapshots'[i].path] = snapshots'[i].digest
    <3>1. CASE i = Len(snapshots) + 1
      BY <1>1, <2>1, <2>2, <2>3, <2>4, <3>1
    <3>2. CASE i \in DOMAIN snapshots /\ snapshots'[i] = snapshots[i]
      <4>1. /\ workspace[snapshots[i].path] = snapshots[i].digest /\ snapshots[i].digest # NoFile
            /\ snapFiles[snapshots[i].path] = snapshots[i].digest
        BY <1>1, <3>2 DEF SnapshotsOwn
      <4> QED
        BY <1>1, <2>1, <2>2, <3>2, <4>1
    <3> QED
      BY <2>4, <3>1, <3>2
  <2>6. SnapshotsOwn'
    BY <2>1, <2>5 DEF SnapshotsOwn
  <2> QED
    BY <1>2, <2>6
<1> QED
  BY <1>3, <1>4

\* What a step of the current task may change under the name of another
\* side effect's artifact: nothing, in a quiet contract.
LEMMA OthersInPlace ==
  ASSUME RunInvariant, Quiet(contract), pc = "act", UNCHANGED contract,
         cursor \in TaskIds(contract), action \in DOMAIN EffectsOf(contract, cursor),
         \A f \in Files : workspace'[f] = workspace[f] \/ (Effect.type = "file.write" /\ f = Effect.res),
         NEW a, a.path \in Files, InPlace(a), a.id.task # cursor \/ a.id.n # action
  PROVE  InPlace(a)'
<1>1. Effect.type = "file.write" => Effect.res # a.path
  <2>1. /\ a.id.task \in TaskIds(contract) /\ a.id.n \in DOMAIN EffectsOf(contract, a.id.task)
        /\ a.path = EffectsOf(contract, a.id.task)[a.id.n].res
    BY DEF InPlace
  <2>2. <<cursor, action>> # <<a.id.task, a.id.n>>
    OBVIOUS
  <2> QED
    BY <2>1, <2>2 DEF Quiet, Effect
<1>2. workspace'[a.path] = workspace[a.path]
  BY <1>1
<1> QED
  BY <1>2 DEF InPlace

\* A side effect changes nothing but what it declares.
LEMMA ActingChanges ==
  ASSUME RunInvariant, Quiet(contract), pc = "act", WriteFile \/ ReadFile \/ SpawnProcess \/ NoAdapter
  PROVE  /\ cursor \in TaskIds(contract) /\ status[cursor] # "success"
         /\ action \in DOMAIN EffectsOf(contract, cursor)
         /\ Effect.type # "process.spawn"
         /\ \A f \in Files : \/ workspace'[f] = workspace[f]
                             \/ Effect.type = "file.write" /\ f = Effect.res
<1>1. /\ cursor \in TaskIds(contract) /\ status[cursor] # "success"
      /\ action \in DOMAIN EffectsOf(contract, cursor)
  BY DEF RunInvariant, WhileActing, WriteFile, ReadFile, SpawnProcess, NoAdapter, Acting
<1>2. Effect.type # "process.spawn"
  BY <1>1 DEF Quiet, Effect
<1>3. CASE WriteFile
  <2>1. workspace \in [Files -> Contents \cup {NoFile}]
    BY DEF RunInvariant, TypeOK, FilesTypeOK
  <2>2. Effect.type = "file.write"
    BY <1>3 DEF WriteFile, Acting
  <2>3. workspace' = workspace \/ \E x : workspace' = [workspace EXCEPT ![Effect.res] = x]
    BY <1>3, Zenon DEF WriteFile
  <2>4. \A f \in Files : workspace'[f] = workspace[f] \/ f = Effect.res
    BY <2>1, <2>3
  <2> QED
    BY <1>1, <1>2, <2>2, <2>4
<1>4. CASE ReadFile \/ NoAdapter
  <2>1. workspace' = workspace
    BY <1>4 DEF ReadFile, NoAdapter
  <2> QED
    BY <1>1, <1>2, <2>1
<1>5. CASE SpawnProcess
  BY <1>2, <1>5 DEF SpawnProcess, Acting
<1> QED
  BY <1>3, <1>4, <1>5

\* A side effect leaves its own artifacts in place and spares those of others.
LEMMA ActingUndisturbed ==
  ASSUME RunInvariant, Records, SnapshotsOwn, ArtifactsOwn,
         WriteFile \/ ReadFile \/ SpawnProcess \/ NoAdapter
  PROVE  SnapshotsOwn' /\ ArtifactsOwn'
<1>1. /\ pc = "act" /\ UNCHANGED <<contract, artifacts, cursor, snapshots, snapFiles, outcome>>
      /\ artifacts \in Seq(Artifacts) /\ pending \in Seq(Artifacts) /\ action \in Nat
  <2>1. pc = "act" /\ UNCHANGED <<contract, artifacts, cursor, snapshots, snapFiles, outcome>>
    BY DEF WriteFile, ReadFile, SpawnProcess, NoAdapter, Acting, ActingUnchanged, launchVars, dirVars
  <2>2. artifacts \in Seq(Artifacts) /\ pending \in Seq(Artifacts) /\ action \in Nat
    BY DEF RunInvariant, TypeOK, ControlTypeOK, RecordsTypeOK
  <2> QED
    BY <2>1, <2>2
<1>2. \/ ActionFailed
      \/ \E n \in Nat : \E arts \in [1..n -> Artifacts] :
           Succeeded(arts) /\ \A i \in 1..n : Leaves(arts[i])
  BY <1>1, ActionLeaves
<1>3. pc' \in {"act", "finish"}
  BY <1>1, <1>2 DEF ActionFailed, FailTask, Succeeded
<1>4. SnapshotsOwn'
  BY <1>1, <1>3, SnapshotsKept
<1>5. ASSUME Quiet(contract)
      PROVE  /\ \A i \in DOMAIN artifacts' : /\ InPlace(artifacts[i])'
                                             /\ status'[artifacts'[i].id.task] = "success"
             /\ pc' = "act" => \A i \in DOMAIN pending' : InPlace(pending[i])'
  <2>1. /\ cursor \in TaskIds(contract) /\ status[cursor] # "success"
        /\ action \in DOMAIN EffectsOf(contract, cursor)
        /\ Effect.type # "process.spawn"
        /\ \A f \in Files : \/ workspace'[f] = workspace[f]
                            \/ Effect.type = "file.write" /\ f = Effect.res
    BY <1>1, <1>5, ActingChanges
  <2>2. ASSUME NEW a \in Artifacts, InPlace(a), a.id.task # cursor \/ a.id.n # action
        PROVE  InPlace(a)'
    <3>1. a.path \in Files
      BY DEF Artifacts
    <3> QED
      BY <1>1, <1>5, <2>1, <2>2, <3>1, OthersInPlace
  <2>3. ASSUME NEW i \in DOMAIN artifacts'
        PROVE  InPlace(artifacts[i])' /\ status'[artifacts'[i].id.task] = "success"
    <3>1. /\ artifacts'[i] = artifacts[i] /\ artifacts[i] \in Artifacts
          /\ InPlace(artifacts[i]) /\ status[artifacts[i].id.task] = "success"
      BY <1>1, <1>5, <2>3 DEF ArtifactsOwn
    <3>2. artifacts[i].id.task # cursor
      BY <2>1, <3>1
    <3>3. InPlace(artifacts[i])'
      BY <2>2, <3>1, <3>2 DEF InPlace
    <3>4. status'[artifacts[i].id.task] = "success"
      <4>1. status' = status \/ status' = [status EXCEPT ![cursor] = "failed"]
        BY <1>2 DEF ActionFailed, FailTask, Succeeded
      <4>2. status \in [TaskIds(contract) -> TaskStatuses] /\ artifacts[i].id.task \in TaskIds(contract)
        BY <3>1 DEF RunInvariant, TypeOK, ControlTypeOK, InPlace
      <4> QED
        BY <3>1, <3>2, <4>1, <4>2
    <3> QED
      BY <3>1, <3>3, <3>4
  <2>4. ASSUME pc' = "act", NEW k \in DOMAIN pending' PROVE InPlace(pending[k])'
    <3>0. PICK n \in Nat : \E arts \in [1..n -> Artifacts] : Succeeded(arts) /\ \A i \in 1..n : Leaves(arts[i])
      BY <1>2, <2>4 DEF ActionFailed, FailTask
    <3>1. PICK arts \in [1..n -> Artifacts] : Succeeded(arts) /\ \A i \in 1..n : Leaves(arts[i])
      BY <3>0
    <3>2. Continues(pending', pending, n, arts)
      BY <1>1, <3>1, Joined DEF Succeeded
    <3>3. CASE k \in DOMAIN pending
      <4>1. /\ pending'[k] = pending[k] /\ pending[k] \in Artifacts
            /\ InPlace(pending[k]) /\ pending[k].id.n < action
        BY <1>1, <1>5, <3>2, <3>3 DEF Continues, ArtifactsOwn, Records, PendingOwn
      <4>2. pending[k].id.n # action
        BY <1>1, <4>1
      <4> QED
        BY <2>2, <4>1, <4>2 DEF InPlace
    <3>4. ASSUME NEW i \in 1..n, k = Len(pending) + i PROVE InPlace(pending[k])'
      <4>1. pending'[k] = arts[i] /\ Leaves(arts[i])
        BY <3>1, <3>2, <3>4 DEF Continues
      <4> QED
        BY <1>1, <2>1, <4>1 DEF Leaves, InPlace, Effect
    <3> QED
      BY <3>2, <3>3, <3>4 DEF Continues
  <2> QED
    BY <2>3, <2>4
<1>6. ArtifactsOwn'
  BY <1>1, <1>5 DEF ArtifactsOwn, Quiet
<1> QED
  BY <1>4, <1>6

\* The artifacts of a task that succeeds are those it had, and its side effects'.
LEMMA ArtifactsCompleted ==
  ASSUME RunInvariant, CompleteTask, NEW k \in DOMAIN artifacts'
  PROVE  \/ k \in DOMAIN artifacts /\ artifacts'[k] = artifacts[k]
         \/ \E i \in DOMAIN pending : /\ artifacts'[k].id = pending[i].id
                                      /\ artifacts'[k].path = pending[i].path
                                      /\ artifacts'[k].digest = pending[i].digest
<1> DEFINE more == [i \in 1..Len(pending) |-> [pending[i] EXCEPT !.event = Len(ledger) + i]]
<1>1. /\ ledger \in Seq(Events) /\ pending \in Seq(Artifacts) /\ artifacts \in Seq(Artifacts)
      /\ Len(pending) \in Nat /\ Len(ledger) \in Nat /\ DOMAIN pending = 1..Len(pending)
  BY DEF RunInvariant, TypeOK, RecordsTypeOK
<1>2. \A i \in 1..Len(pending) : /\ more[i] \in Artifacts /\ more[i].id = pending[i].id
                                 /\ more[i].path = pending[i].path /\ more[i].digest = pending[i].digest
  <2>1. SUFFICES ASSUME NEW i \in 1..Len(pending), NEW b, b = [pending[i] EXCEPT !.event = Len(ledger) + i]
                 PROVE  /\ b \in Artifacts /\ b.id = pending[i].id
                        /\ b.path = pending[i].path /\ b.digest = pending[i].digest
    BY Zenon
  <2>2. pending[i] \in Artifacts /\ Len(ledger) + i \in Nat
    BY <1>1
  <2> QED
    BY <2>1, <2>2 DEF Artifacts
<1>3. more \in [1..Len(pending) -> Artifacts]
  BY <1>2
<1>4. artifacts' = artifacts \o more
  BY DEF CompleteTask
<1> HIDE DEF more
<1>5. Continues(artifacts', artifacts, Len(pending), more)
  BY <1>1, <1>3, <1>4, Joined
<1>6. k \in DOMAIN artifacts => artifacts'[k] = artifacts[k]
  BY <1>5 DEF Continues
<1>7. ASSUME k \notin DOMAIN artifacts
      PROVE  \E i \in DOMAIN pending : artifacts'[k] = more[i]
  <2>1. PICK i \in 1..Len(pending) : k = Len(artifacts) + i
    BY <1>5, <1>7 DEF Continues
  <2>2. artifacts'[k] = more[i] /\ i \in DOMAIN pending
    BY <1>1, <1>5, <2>1 DEF Continues
  <2> QED
    BY <2>2
<1>8. \A i \in DOMAIN pending : /\ more[i].id = pending[i].id /\ more[i].path = pending[i].path
                                /\ more[i].digest = pending[i].digest
  BY <1>1, <1>2
<1> QED
  BY <1>6, <1>7, <1>8

LEMMA CompleteUndisturbed ==
  ASSUME RunInvariant, Records, SnapshotsOwn, ArtifactsOwn, FinishActions \/ Check
  PROVE  SnapshotsOwn' /\ ArtifactsOwn'
<1>1. /\ pc = "act" /\ pc' \in {"sweep", "finish"}
      /\ UNCHANGED <<contract, snapshots, snapFiles, workspace, outcome>>
  BY DEF FinishActions, Check, CompleteTask, FailTask, launchVars, dirVars
<1>2. SnapshotsOwn'
  BY <1>1, SnapshotsKept
<1>3. cursor \in TaskIds(contract) /\ status \in [TaskIds(contract) -> TaskStatuses]
  BY <1>1 DEF RunInvariant, WhileActing, TypeOK, ControlTypeOK
<1>4. CompleteTask \/ (FailTask(ledger, "execution") /\ artifacts' = artifacts)
  BY DEF FinishActions, Check
<1>5. ASSUME Quiet(contract), NEW k \in DOMAIN artifacts'
      PROVE  InPlace(artifacts[k])' /\ status'[artifacts'[k].id.task] = "success"
  <2>1. CASE CompleteTask
    <3>1. status' = [status EXCEPT ![cursor] = "success"]
      BY <2>1 DEF CompleteTask
    <3>2. CASE k \in DOMAIN artifacts /\ artifacts'[k] = artifacts[k]
      <4>1. InPlace(artifacts[k]) /\ status[artifacts[k].id.task] = "success"
        BY <1>5, <3>2 DEF ArtifactsOwn
      <4>2. artifacts[k].id.task \in TaskIds(contract)
        BY <4>1 DEF InPlace
      <4> QED
        BY <1>1, <1>3, <3>1, <3>2, <4>1, <4>2 DEF InPlace
    <3>3. ASSUME NEW i \in DOMAIN pending, artifacts'[k].id = pending[i].id,
                 artifacts'[k].path = pending[i].path, artifacts'[k].digest = pending[i].digest
          PROVE  InPlace(artifacts[k])' /\ status'[artifacts'[k].id.task] = "success"
      <4>1. InPlace(pending[i]) /\ pending[i].id.task = cursor
        BY <1>1, <1>5 DEF ArtifactsOwn, Records, PendingOwn
      <4>2. InPlace(artifacts[k])'
        BY <1>1, <3>3, <4>1 DEF InPlace
      <4>3. status'[cursor] = "success"
        BY <1>3, <3>1
      <4> QED
        BY <3>3, <4>1, <4>2, <4>3
    <3> QED
      BY <2>1, <3>2, <3>3, ArtifactsCompleted
  <2>2. CASE FailTask(ledger, "execution") /\ artifacts' = artifacts
    <3>1. status' = [status EXCEPT ![cursor] = "failed"] /\ status[cursor] # "success"
      BY <1>1, <2>2 DEF FailTask, RunInvariant, WhileActing
    <3>2. InPlace(artifacts[k]) /\ status[artifacts[k].id.task] = "success"
      BY <1>5, <2>2 DEF ArtifactsOwn
    <3>3. artifacts[k].id.task \in TaskIds(contract)
      BY <3>2 DEF InPlace
    <3> QED
      BY <1>1, <1>3, <2>2, <3>1, <3>2, <3>3 DEF InPlace
  <2> QED
    BY <1>4, <2>1, <2>2
<1>6. ArtifactsOwn'
  BY <1>1, <1>5 DEF ArtifactsOwn, Quiet
<1> QED
  BY <1>2, <1>6

\* A task that starts has no artifacts yet; one that is denied does not get any.
LEMMA StartTaskUndisturbed ==
  ASSUME RunInvariant, SnapshotsOwn, ArtifactsOwn, StartTask
  PROVE  SnapshotsOwn' /\ ArtifactsOwn'
<1>1. /\ pc = "sweep" /\ pc' \in {"act", "finish"} /\ pending' = <<>>
      /\ cursor \in TaskIds(contract) /\ status[cursor] # "success"
      /\ UNCHANGED <<contract, snapshots, snapFiles, workspace, artifacts, outcome>>
      /\ status' = status \/ status' = [status EXCEPT ![cursor] = "failed"]
  BY DEF StartTask, FailTask, launchVars, dirVars
<1>2. SnapshotsOwn'
  BY <1>1, SnapshotsKept
<1>3. ASSUME Quiet(contract), NEW k \in DOMAIN artifacts'
      PROVE  InPlace(artifacts[k])' /\ status'[artifacts'[k].id.task] = "success"
  <2>1. InPlace(artifacts[k]) /\ status[artifacts[k].id.task] = "success"
    BY <1>1, <1>3 DEF ArtifactsOwn
  <2>2. artifacts[k].id.task \in TaskIds(contract) /\ status \in [TaskIds(contract) -> TaskStatuses]
    BY <2>1 DEF InPlace, RunInvariant, TypeOK, ControlTypeOK
  <2> QED
    BY <1>1, <2>1, <2>2 DEF InPlace
<1>4. ArtifactsOwn'
  BY <1>1, <1>3 DEF ArtifactsOwn, Quiet
<1> QED
  BY <1>2, <1>4

\* While nobody edits the workspace, what the run vouches for stays as it was.
LEMMA UndisturbedHolds == Spec => []Undisturbed
<1> USE DEF launchVars, sweepVars, taskVars, recordVars, dirVars, envVars
<1>1. Init => Undisturbed
  BY DEF Init, Undisturbed, SnapshotsOwn, ArtifactsOwn, Delivered
<1>2. RunInvariant /\ Records /\ Undisturbed /\ [Next]_vars => Undisturbed'
  <2> SUFFICES ASSUME RunInvariant, Records, Undisturbed, [Next]_vars, edited' = {}
               PROVE  SnapshotsOwn' /\ ArtifactsOwn'
    BY DEF Undisturbed
  <2>1. CASE Call
    <3>1. snapshots' = <<>> /\ artifacts' = <<>> /\ pc' # "act"
      BY <2>1 DEF Call, Refuse, Launch, Arguments
    <3> QED
      BY <3>1 DEF SnapshotsOwn, ArtifactsOwn
  <2>2. CASE Edit
    BY <2>2 DEF Edit
  <2>3. SUFFICES ASSUME ~Call, ~Edit PROVE SnapshotsOwn' /\ ArtifactsOwn'
    BY <2>1, <2>2
  <2>4. SnapshotsOwn /\ ArtifactsOwn
    <3>1. edited' = edited
      BY <2>3 DEF Next, Step, Snapshot, OpenLedger, PassOver, StartTask, EndSweep, WriteFile, ReadFile,
                  SpawnProcess, NoAdapter, ActingUnchanged, FinishActions, Check, Close, Finish, Publish,
                  IOError, Crash, Abort, Tick, vars
    <3> QED
      BY <3>1 DEF Undisturbed
  <2>5. CASE Snapshot
    BY <2>4, <2>5, SnapshotUndisturbed
  <2>6. CASE StartTask
    BY <2>4, <2>6, StartTaskUndisturbed
  <2>7. CASE WriteFile \/ ReadFile \/ SpawnProcess \/ NoAdapter
    BY <2>4, <2>7, ActingUndisturbed
  <2>8. CASE FinishActions \/ Check
    BY <2>4, <2>8, CompleteUndisturbed
  <2>9. CASE \/ OpenLedger \/ PassOver \/ EndSweep \/ Close \/ Finish \/ Publish
             \/ IOError \/ Crash \/ Tick \/ UNCHANGED vars
    <3>1. /\ UNCHANGED <<contract, artifacts, workspace, status, snapshots, pending>>
          /\ pc' \in {"snapshot", "act"} => pc' = pc
      <4>1. CASE OpenLedger \/ PassOver \/ EndSweep \/ Close \/ Finish \/ Publish
        BY <4>1 DEF OpenLedger, PassOver, EndSweep, Close, Finish, Publish, Return
      <4>2. CASE IOError \/ Crash
        BY <4>2 DEF IOError, Crash, Abort, Return
      <4>3. CASE Tick \/ UNCHANGED vars
        BY <4>3 DEF Tick, EnvUnchanged, vars
      <4> QED
        BY <2>9, <4>1, <4>2, <4>3
    <3>2. pc' # "idle" \/ Delivered' => UNCHANGED snapFiles /\ (pc # "idle" \/ Delivered)
      <4>1. CASE OpenLedger \/ PassOver \/ EndSweep \/ Close \/ Finish \/ Publish
        BY <4>1 DEF OpenLedger, PassOver, EndSweep, Close, Finish, Publish, Return
      <4>2. CASE IOError \/ Crash
        BY <4>2 DEF IOError, Crash, Abort, Return, Delivered
      <4>3. CASE Tick \/ UNCHANGED vars
        BY <4>3 DEF Tick, EnvUnchanged, vars, Delivered
      <4> QED
        BY <2>9, <4>1, <4>2, <4>3
    <3>3. SnapshotsOwn'
      BY <2>4, <3>1, <3>2, SnapshotsKept
    <3>4. ArtifactsOwn'
      BY <2>4, <3>1, ArtifactsKept
    <3> QED
      BY <3>3, <3>4
  <2> QED
    BY <2>3, <2>5, <2>6, <2>7, <2>8, <2>9 DEF Next, Step
<1> QED
  BY <1>1, <1>2, RunInvariantHolds, RecordsHold, PTL DEF Spec

-----------------------------------------------------------------------------
(* The verdict on a run that was delivered. *)

\* Numbered events are found where their number says.
LEMMA FoundByNumber ==
  ASSUME NEW l \in Seq(Events), Numbered(l), NEW id \in DOMAIN l
  PROVE  EventsNumbered(l, id) = {id} /\ EventNumbered(l, id) = l[id]
<1>1. EventsNumbered(l, id) = {id}
  BY DEF EventsNumbered, Numbered
<1>2. id <= id
  OBVIOUS
<1>3. (CHOOSE j \in {id} : \A k \in {id} : k <= j) = id
  BY <1>2
<1> QED
  BY <1>1, <1>3 DEF EventNumbered

\* Decisions that are told of once each have an event each.
LEMMA EachDecisionRecorded ==
  ASSUME NEW l \in Seq(Events), NEW p, p.decisions \in Seq(Decisions), DecidedOnce(p.decisions),
         DecisionsIn(l) = DecisionsOf(p.decisions)
  PROVE  DecisionsRecorded(p, l)
<1> SUFFICES ASSUME NEW i \in DOMAIN p.decisions
             PROVE  Cardinality({j \in DOMAIN l : /\ l[j].type = "policy_decided"
                                                  /\ l[j].task = p.decisions[i].task
                                                  /\ l[j].decision[1].n = p.decisions[i].n})
                    >= Cardinality({j \in DOMAIN p.decisions : /\ p.decisions[j].task = p.decisions[i].task
                                                               /\ p.decisions[j].n = p.decisions[i].n})
  BY DEF DecisionsRecorded
<1> DEFINE Told == {j \in DOMAIN l : /\ l[j].type = "policy_decided"
                                     /\ l[j].task = p.decisions[i].task
                                     /\ l[j].decision[1].n = p.decisions[i].n}
           Same == {j \in DOMAIN p.decisions : /\ p.decisions[j].task = p.decisions[i].task
                                               /\ p.decisions[j].n = p.decisions[i].n}
<1>1. Same = {i}
  BY DEF DecidedOnce
<1>2. Cardinality(Same) = 1
  BY <1>1, FS_Singleton
<1>3. Told # {}
  <2>1. <<p.decisions[i].task, p.decisions[i].n, p.decisions[i].verdict = "allow">> \in DecisionsIn(l)
    BY DEF DecisionsOf
  <2>2. PICK j \in DOMAIN l :
          /\ l[j].type = "policy_decided"
          /\ <<p.decisions[i].task, p.decisions[i].n, p.decisions[i].verdict = "allow">> =
             <<l[j].task, l[j].decision[1].n, l[j].ok>>
    BY <2>1 DEF DecisionsIn
  <2> QED
    BY <2>2
<1>4. IsFiniteSet(Told)
  <2>1. IsFiniteSet(DOMAIN l)
    <3>1. DOMAIN l = 1..Len(l) /\ Len(l) \in Nat
      OBVIOUS
    <3> QED
      BY <3>1, FS_Interval
  <2> QED
    BY <2>1, FS_Subset
<1>5. Cardinality(Told) \in Nat /\ Cardinality(Told) # 0
  BY <1>3, <1>4, FS_CardinalityType, FS_EmptySet
<1> HIDE DEF Told, Same
<1>6. Cardinality(Told) >= Cardinality(Same)
  BY <1>2, <1>5
<1> QED
  BY <1>6 DEF Told, Same

\* The rows of the closure matrix name what the run produced and decided.
LEMMA RowsNameAll ==
  ASSUME NEW l \in Seq(Events), Numbered(l), ProducedIn(artifacts, l)
  PROVE  RowsExact(PackOfRun, l)
<1>1. \A j \in DOMAIN artifacts : EventNumbered(l, artifacts[j].event).task = artifacts[j].id.task
  BY FoundByNumber DEF ProducedIn
<1>2. PackOfRun.artifacts = artifacts /\ PackOfRun.decisions = decisions
  BY DEF PackOfRun
<1>3. \A ts : ProducedBy(PackOfRun, l, ts) = ArtifactIdsOf(artifacts, ts)
  BY <1>1, <1>2 DEF ProducedBy, ArtifactIdsOf
<1>4. PackOfRun.closure.rows =
        {ClosureRow(contract, o, RunStatus, status, artifacts, decisions) : o \in contract.obligations}
  BY DEF PackOfRun, EvaluateClosure
<1>5. ASSUME NEW row \in PackOfRun.closure.rows
      PROVE  row.artifacts = ArtifactIdsOf(artifacts, row.tasks) /\ row.decisions = DecisionIdsOf(decisions, row.tasks)
  <2>1. PICK o \in contract.obligations :
          row = ClosureRow(contract, o, RunStatus, status, artifacts, decisions)
    BY <1>4, <1>5
  <2> QED
    BY <2>1 DEF ClosureRow
<1> QED
  BY <1>2, <1>3, <1>5 DEF RowsExact

LEMMA PackOfRunType == TypeOK => PackOfRun \in Packs
<1> SUFFICES ASSUME TypeOK PROVE PackOfRun \in Packs
  OBVIOUS
<1>1. RunStatus \in {"success", "failed"}
  BY DEF RunStatus
<1>2. EvaluateClosure(contract, RunStatus, status, artifacts, decisions) \in Matrices
  BY EvaluateClosureType DEF TypeOK, InputsTypeOK, RecordsTypeOK
<1> QED
  BY <1>1, <1>2 DEF PackOfRun, Packs, TypeOK, InputsTypeOK, RecordsTypeOK

\* The evidence of a run that delivered verifies as long as nobody touched the
\* workspace: no crash, failing write or repeated call of Execute before it, and
\* no order in which its tasks came up, makes the verifier refuse what the
\* executor wrote (verifier.go:19-78 against executor.go:73-214).
THEOREM FreshEvidenceIsAccepted == Spec => []FreshEvidenceVerifies
<1>1. RunInvariant /\ Records /\ Story /\ Directory /\ Undisturbed => FreshEvidenceVerifies
  <2> SUFFICES ASSUME RunInvariant, Records, Story, Directory, Undisturbed,
                      Delivered, edited = {}, Quiet(contract),
                      \A i \in DOMAIN decisions : decisions[i].reason # "revoked"
               PROVE  Accepts(revoked)
    BY DEF FreshEvidenceVerifies
  <2>1. /\ ledgerFile.lines = ledger /\ ~ledgerFile.torn /\ packFile = PackOfRun
        /\ TypeOK /\ ledger \in Seq(Events) /\ decisions \in Seq(Decisions)
    BY DEF Directory, RunInvariant, TypeOK, RecordsTypeOK
  <2>2. /\ PackOfRun.ledger = ledger /\ PackOfRun.artifacts = artifacts /\ PackOfRun.decisions = decisions
        /\ PackOfRun.snapshots = snapshots /\ PackOfRun.failures = failures
    BY DEF PackOfRun
  <2>3. PackReadable(packFile)
    BY <2>1, PackOfRunType, PacksAssumption DEF PackReadable
  <2>4. LedgerReadable(ledgerFile)
    <3>1. EndsOf(ledger) = {Len(ledger)}
      BY <2>1, <2>2, <2>3 DEF Directory, OneWholeRun, EndsOf
    <3>2. Len(ledger) \in DOMAIN ledger
      BY <3>1 DEF EndsOf
    <3>3. ledger # <<>>
      BY <3>2
    <3> QED
      BY <2>1, <3>3 DEF LedgerReadable
  <2>5. Numbered(ledger) /\ ProducedIn(artifacts, ledger) /\ DecidedOnce(decisions)
    BY DEF Records, RecordsAgree
  <2>6. ChainIntact(ledgerFile.lines)
    <3>1. SUFFICES ASSUME NEW i \in DOMAIN ledger
                   PROVE  ledger[i].prev = IF i = 1 THEN 0 ELSE ledger[i - 1].seq
      BY <2>1 DEF ChainIntact
    <3>2. ledger[i].prev = i - 1 /\ i \in 1..Len(ledger)
      BY <2>1, <2>5 DEF Numbered
    <3>3. CASE i = 1
      BY <3>2, <3>3
    <3>4. CASE i # 1
      <4>1. i - 1 \in DOMAIN ledger
        BY <2>1, <3>2, <3>4
      <4>2. ledger[i - 1].seq = i - 1
        BY <2>5, <4>1 DEF Numbered
      <4> QED
        BY <3>2, <3>4, <4>2
    <3> QED
      BY <3>3, <3>4
  <2>7. LedgerDigestMatches(packFile, ledgerFile)
    BY <2>1, <2>2 DEF LedgerDigestMatches
  <2>8. SnapshotsOwn /\ ArtifactsOwn
    BY DEF Undisturbed
  <2>9. SnapshotsIntact(packFile, snapFiles)
    BY <2>1, <2>2, <2>8 DEF SnapshotsIntact, SnapshotsOwn
  <2>10. ArtifactsIntact(packFile, workspace)
    BY <2>1, <2>2, <2>8 DEF ArtifactsIntact, ArtifactsOwn, InPlace
  <2>11. DecisionsRecorded(packFile, ledgerFile.lines)
    <3>1. DecisionsIn(ledger) = DecisionsOf(decisions)
      BY DEF Records, RecordsAgree
    <3> QED
      BY <2>1, <2>2, <2>5, <3>1, EachDecisionRecorded
  <2>12. ProducersRecorded(packFile, ledgerFile.lines)
    <3>1. SUFFICES ASSUME NEW i \in DOMAIN artifacts
                   PROVE  /\ EventsNumbered(ledger, artifacts[i].event) # {}
                          /\ EventNumbered(ledger, artifacts[i].event).type = "artifact_recorded"
                          /\ artifacts[i].id \in EventNumbered(ledger, artifacts[i].event).artifacts
      BY <2>1, <2>2 DEF ProducersRecorded
    <3>2. /\ artifacts[i].event \in DOMAIN ledger
          /\ ledger[artifacts[i].event].type = "artifact_recorded"
          /\ ledger[artifacts[i].event].artifacts = {artifacts[i].id}
      BY <2>5 DEF ProducedIn
    <3>3. /\ EventsNumbered(ledger, artifacts[i].event) = {artifacts[i].event}
          /\ EventNumbered(ledger, artifacts[i].event) = ledger[artifacts[i].event]
      BY <2>1, <2>5, <3>2, FoundByNumber
    <3> QED
      BY <3>2, <3>3
  <2>13. RowsExact(packFile, ledgerFile.lines)
    BY <2>1, <2>5, RowsNameAll
  <2>14. NoneRevoked(packFile, revoked)
    BY <2>1, <2>2 DEF NoneRevoked, Records, RecordsAgree, SparedBy
  <2>15. FailuresRecorded(packFile, ledgerFile.lines)
    <3>1. \A i \in DOMAIN failures : failures[i].event \in DOMAIN ledger
      BY <2>1, <2>2 DEF Story, PackTellsOneStory
    <3>2. ASSUME NEW i \in DOMAIN failures PROVE EventsNumbered(ledger, failures[i].event) # {}
      <4>1. EventsNumbered(ledger, failures[i].event) = {failures[i].event}
        BY <2>1, <2>5, <3>1, FoundByNumber
      <4> QED
        BY <4>1
    <3> QED
      BY <2>1, <2>2, <3>2 DEF FailuresRecorded
  <2> QED
    BY <2>3, <2>4, <2>6, <2>7, <2>9, <2>10, <2>11, <2>12, <2>13, <2>14, <2>15 DEF Accepts, Verify
<1> QED
  BY <1>1, RunInvariantHolds, RecordsHold, StoryHolds, DirectoryHolds, UndisturbedHolds, PTL

-----------------------------------------------------------------------------
(* Runs go on as they do without Export. *)

LEMMA RunsBeside == BundleSpec => Spec
<1>1. BundleInit => Init
  BY DEF BundleInit
<1>2. [BundleNext]_bundleVars => [Next]_vars
  <2> SUFFICES ASSUME [BundleNext]_bundleVars PROVE Next \/ UNCHANGED vars
    OBVIOUS
  <2>1. CASE Export
    BY <2>1 DEF Export, BeginExport, ReadEvidence, CheckContract, Gather, GatherContract, GatherLedger,
                GatherPack, GatherSnapshots, GatherArtifacts, Seal, CrashExport
  <2>2. CASE Elsewhere
    BY <2>2 DEF Elsewhere
  <2>3. CASE Compile \/ UNCHANGED bundleVars
    BY <2>3 DEF Compile, bundleVars
  <2> QED
    BY <2>1, <2>2, <2>3 DEF BundleNext
<1> QED
  BY <1>1, <1>2, PTL DEF BundleSpec, Spec

-----------------------------------------------------------------------------
(* What Export has read and written. *)

Stages == {"idle", "evidence", "digest", "contract", "ledger", "pack", "snaps", "files", "seal"}

Gatherings == [contract : Contracts \cup {NoFile}, ledger : LedgerFiles,
               pack : Packs \cup {NoFile, Empty}, snaps : Held(Paths), files : Held(Files)]

ExportType ==
  /\ ex \in Stages /\ contractFile \in Contracts
  /\ ex # "idle" => options \in Options
  /\ evidence \in Packs \cup {NoFile} /\ (ex \notin {"idle", "evidence"} => evidence \in Packs)
  /\ gathered \in Gatherings

\* A pack that decodes is that of a complete run, wherever it lies.
Whole(pack) == PackReadable(pack) => OneWholeRun(pack.ledger, pack)

PacksWhole ==
  /\ Whole(gathered.pack)
  /\ bundle \notin {NoFile, Partial} => Whole(bundle.pack)

\* While nothing that Export reads is disturbed, the run goes on verifying and
\* what has been read is what there is.
ExportFollows ==
  ex # "idle" /\ ~disturbed =>
    /\ RunVerifies
    /\ ex # "evidence" => evidence = packFile
    /\ ex \notin {"evidence", "digest"} => contractFile = evidence.contract
    /\ ex \notin {"evidence", "digest", "contract"} => gathered.contract = contractFile
    /\ ex \in {"pack", "snaps", "files", "seal"} => gathered.ledger = ledgerFile
    /\ ex \in {"snaps", "files", "seal"} => gathered.pack = packFile
    /\ ex \in {"files", "seal"} => gathered.snaps = Copied(snapFiles, SnapshotPaths)
    /\ ex = "seal" => gathered.files = Copied(workspace, ArtifactPaths)

\* What is said of an export that has ended.
ExportEnds ==
  /\ ex # "idle" => exported = "none"
  /\ MissesOnlyWhatChanged /\ QuietExportVerifies

-----------------------------------------------------------------------------
(* What Export reads has the type of what it reads it from. *)

LEMMA CopiedType ==
  ASSUME NEW names, NEW S \in SUBSET names, NEW from, \A f \in S : from[f] \in Contents
  PROVE  Copied(from, S) \in Held(names)
  BY DEF Copied, Held

LEMMA InitExport == BundleInit => ExportType
<1> SUFFICES ASSUME BundleInit PROVE ExportType
  OBVIOUS
<1>1. contractFile \in Contracts
  BY LaunchesAssumption DEF BundleInit
<1>2. Nothing \in Gatherings
  <2>1. <<>> \in Held(Paths) /\ <<>> \in Held(Files)
    <3>1. <<>> \in [{} -> Contents]
      OBVIOUS
    <3> QED
      BY <3>1 DEF Held
  <2>2. NoLedger \in LedgerFiles
    BY DEF NoLedger, LedgerFiles
  <2> QED
    BY <2>1, <2>2 DEF Nothing, Gatherings
<1> QED
  BY <1>1, <1>2 DEF BundleInit, ExportType, Stages

\* The paths a pack names are paths of the workspace.
LEMMA PathsOfPack ==
  ASSUME evidence \in Packs PROVE SnapshotPaths \subseteq Paths /\ ArtifactPaths \subseteq Files
<1>1. evidence.snapshots \in Seq(Snapshots) /\ evidence.artifacts \in Seq(Artifacts)
  BY DEF Packs
<1>2. ASSUME NEW i \in DOMAIN evidence.snapshots PROVE evidence.snapshots[i].path \in Paths
  <2>1. evidence.snapshots[i] \in Snapshots
    BY <1>1
  <2> QED
    BY <2>1 DEF Snapshots
<1>3. ASSUME NEW i \in DOMAIN evidence.artifacts PROVE evidence.artifacts[i].path \in Files
  <2>1. evidence.artifacts[i] \in Artifacts
    BY <1>1
  <2> QED
    BY <2>1 DEF Artifacts
<1> QED
  BY <1>2, <1>3 DEF SnapshotPaths, ArtifactPaths

\* What Export gathers is what there is, when it can be read.
LEMMA GatheredType ==
  ASSUME TypeOK, ExportType, ex \notin {"idle", "evidence"}
  PROVE  /\ [gathered EXCEPT !.contract = contractFile] \in Gatherings
         /\ [gathered EXCEPT !.ledger = ledgerFile] \in Gatherings
         /\ [gathered EXCEPT !.pack = packFile] \in Gatherings
         /\ (\A p \in SnapshotPaths : snapFiles[p] # NoFile) =>
              [gathered EXCEPT !.snaps = Copied(snapFiles, SnapshotPaths)] \in Gatherings
         /\ (\A p \in ArtifactPaths : workspace[p] # NoFile) =>
              [gathered EXCEPT !.files = Copied(workspace, ArtifactPaths)] \in Gatherings
<1>1. /\ ledgerFile \in LedgerFiles /\ packFile \in Packs \cup {NoFile, Empty}
      /\ snapFiles \in [Paths -> Contents \cup {NoFile}]
      /\ workspace \in [Files -> Contents \cup {NoFile}]
      /\ gathered \in Gatherings /\ contractFile \in Contracts /\ evidence \in Packs
  BY DEF TypeOK, FilesTypeOK, ExportType
<1>2. SnapshotPaths \subseteq Paths /\ ArtifactPaths \subseteq Files
  BY <1>1, PathsOfPack
<1>3. ASSUME \A p \in SnapshotPaths : snapFiles[p] # NoFile
      PROVE  Copied(snapFiles, SnapshotPaths) \in Held(Paths)
  <2>1. \A p \in SnapshotPaths : snapFiles[p] \in Contents
    BY <1>1, <1>2, <1>3
  <2> QED
    BY <1>2, <2>1, CopiedType
<1>4. ASSUME \A p \in ArtifactPaths : workspace[p] # NoFile
      PROVE  Copied(workspace, ArtifactPaths) \in Held(Files)
  <2>1. \A p \in ArtifactPaths : workspace[p] \in Contents
    BY <1>1, <1>2, <1>4
  <2> QED
    BY <1>2, <2>1, CopiedType
<1>5. /\ [gathered EXCEPT !.contract = contractFile] \in Gatherings
      /\ [gathered EXCEPT !.ledger = ledgerFile] \in Gatherings
      /\ [gathered EXCEPT !.pack = packFile] \in Gatherings
  BY <1>1 DEF Gatherings
<1>6. \A held \in Held(Paths) : [gathered EXCEPT !.snaps = held] \in Gatherings
  BY <1>1 DEF Gatherings
<1>7. \A held \in Held(Files) : [gathered EXCEPT !.files = held] \in Gatherings
  BY <1>1 DEF Gatherings
<1> QED
  BY <1>3, <1>4, <1>5, <1>6, <1>7

LEMMA ExportTyped == TypeOK /\ ExportType /\ [BundleNext]_bundleVars => ExportType'
<1> SUFFICES ASSUME TypeOK, ExportType, [BundleNext]_bundleVars PROVE ExportType'
  OBVIOUS
<1>1. ASSUME NEW o \in Options, BeginExport(o) PROVE ExportType'
  <2>1. Nothing \in Gatherings
    <3>1. <<>> \in Held(Paths) /\ <<>> \in Held(Files)
      <4>1. <<>> \in [{} -> Contents]
        OBVIOUS
      <4> QED
        BY <4>1 DEF Held
    <3>2. NoLedger \in LedgerFiles
      BY DEF NoLedger, LedgerFiles
    <3> QED
      BY <3>1, <3>2 DEF Nothing, Gatherings
  <2>2. /\ ex' \in {"idle", "evidence"} /\ options' = o /\ evidence' = NoFile
        /\ gathered' = Nothing /\ contractFile' = contractFile
    BY <1>1 DEF BeginExport, EndExport
  <2> QED
    BY <2>1, <2>2 DEF ExportType, Stages
<1>2. CASE ReadEvidence
  <2>1. \/ evidence' = packFile /\ ex' = "digest" /\ packFile \notin {NoFile, Empty}
        \/ evidence' = evidence /\ ex' = "idle"
    BY <1>2 DEF ReadEvidence, EndExport, PackReadable
  <2>2. ex = "evidence" /\ UNCHANGED <<options, gathered, contractFile>>
    BY <1>2 DEF ReadEvidence
  <2>3. packFile \in Packs \cup {NoFile, Empty}
    BY DEF TypeOK, FilesTypeOK
  <2> QED
    BY <2>1, <2>2, <2>3 DEF ExportType, Stages
<1>3. CASE CheckContract
  <2>1. /\ ex = "digest" /\ ex' \in {"idle", "contract"}
        /\ UNCHANGED <<options, gathered, contractFile, evidence>>
    BY <1>3 DEF CheckContract, EndExport
  <2> QED
    BY <2>1 DEF ExportType, Stages
<1>4. CASE GatherContract \/ GatherLedger \/ GatherPack \/ GatherSnapshots \/ GatherArtifacts
  <2>1. ex \notin {"idle", "evidence"} /\ UNCHANGED <<options, contractFile, evidence>>
    BY <1>4 DEF GatherContract, GatherLedger, GatherPack, GatherSnapshots, GatherArtifacts, Gather
  <2>2. ex' \in {"ledger", "pack", "snaps", "files", "seal", "idle"}
    BY <1>4 DEF GatherContract, GatherLedger, GatherPack, GatherSnapshots, GatherArtifacts, Gather, EndExport
  <2>3. gathered' = gathered \/ gathered' \in Gatherings
    <3>1. CASE GatherContract
      BY <2>1, <3>1, GatheredType DEF GatherContract, Gather
    <3>2. CASE GatherLedger
      BY <2>1, <3>2, GatheredType DEF GatherLedger, Gather
    <3>3. CASE GatherPack
      BY <2>1, <3>3, GatheredType DEF GatherPack, Gather
    <3>4. CASE GatherSnapshots
      BY <2>1, <3>4, GatheredType DEF GatherSnapshots, Gather
    <3>5. CASE GatherArtifacts
      BY <2>1, <3>5, GatheredType DEF GatherArtifacts, Gather
    <3> QED
      BY <1>4, <3>1, <3>2, <3>3, <3>4, <3>5
  <2> QED
    BY <2>1, <2>2, <2>3 DEF ExportType, Stages
<1>5. CASE Seal \/ CrashExport
  <2>1. ex # "idle" /\ ex' = "idle" /\ UNCHANGED <<options, gathered, contractFile, evidence>>
    BY <1>5 DEF Seal, CrashExport, RefuseOptions, WriteZip, EndExport
  <2> QED
    BY <2>1 DEF ExportType, Stages
<1>6. CASE Elsewhere \/ UNCHANGED bundleVars
  BY <1>6 DEF Elsewhere, bundleVars, exportVars, ExportType
<1>7. CASE Compile
  <2>1. contractFile' \in Contracts
    BY <1>7, LaunchesAssumption DEF Compile
  <2> QED
    BY <1>7, <2>1 DEF Compile, exportVars, ExportType
<1> QED
  BY <1>1, <1>2, <1>3, <1>4, <1>5, <1>6, <1>7 DEF BundleNext, Export

LEMMA ExportTypeHolds == BundleSpec => []ExportType
<1>1. Spec => []TypeOK
  BY TypeCorrect
<1> QED
  BY <1>1, InitExport, ExportTyped, RunsBeside, PTL DEF BundleSpec

-----------------------------------------------------------------------------
(* Packs. *)

\* A pack that decodes stays that of a complete run where it is copied to.
LEMMA PacksStayWhole ==
  Directory /\ ExportType /\ PacksWhole /\ [BundleNext]_bundleVars => PacksWhole'
<1> SUFFICES ASSUME Directory, ExportType, PacksWhole, [BundleNext]_bundleVars PROVE PacksWhole'
  OBVIOUS
<1>1. Whole(packFile) /\ Whole(gathered.pack)
  BY DEF Directory, Whole, PacksWhole
<1>2. gathered' \in {Nothing, gathered} \/ gathered'.pack \in {gathered.pack, packFile}
  <2>1. gathered \in Gatherings
    BY DEF ExportType
  <2>2. CASE GatherContract
    BY <2>1, <2>2 DEF GatherContract, Gather, Gatherings
  <2>3. CASE GatherLedger
    BY <2>1, <2>3 DEF GatherLedger, Gather, Gatherings
  <2>4. CASE GatherPack
    BY <2>1, <2>4 DEF GatherPack, Gather, Gatherings
  <2>5. CASE GatherSnapshots
    BY <2>1, <2>5 DEF GatherSnapshots, Gather, Gatherings
  <2>6. CASE GatherArtifacts
    BY <2>1, <2>6 DEF GatherArtifacts, Gather, Gatherings
  <2>7. CASE \/ \E o \in Options : BeginExport(o)
             \/ ReadEvidence \/ CheckContract \/ Seal \/ CrashExport
             \/ Elsewhere \/ Compile \/ UNCHANGED bundleVars
    BY <2>7 DEF BeginExport, ReadEvidence, CheckContract, Seal, CrashExport, Elsewhere, Compile,
                bundleVars, exportVars
  <2> QED
    BY <2>2, <2>3, <2>4, <2>5, <2>6, <2>7 DEF BundleNext, Export
<1>3. Whole(gathered.pack)'
  <2>1. Whole(Nothing.pack)
    BY DEF Whole, Nothing, PackReadable
  <2>2. gathered'.pack \in {Nothing.pack, gathered.pack, packFile}
    BY <1>2
  <2>3. Whole(gathered'.pack)
    BY <1>1, <2>1, <2>2
  <2> QED
    BY <2>3 DEF Whole, PackReadable, OneWholeRun
<1>4. bundle' \in {bundle, Partial, Archive}
  BY DEF BundleNext, Export, BeginExport, ReadEvidence, CheckContract, Gather, GatherContract, GatherLedger,
         GatherPack, GatherSnapshots, GatherArtifacts, Seal, RefuseOptions, WriteZip, CrashExport,
         Elsewhere, Compile, bundleVars, exportVars
<1>5. Archive.pack = gathered.pack
  BY DEF Archive
<1>6. bundle' \notin {NoFile, Partial} => Whole(bundle.pack)'
  <2>1. bundle' \notin {NoFile, Partial} => Whole(bundle'.pack)
    BY <1>1, <1>4, <1>5 DEF PacksWhole
  <2> QED
    BY <2>1 DEF Whole, PackReadable, OneWholeRun
<1> QED
  BY <1>3, <1>6 DEF PacksWhole

\* Whatever is run, edited or compiled while Export reads one file after the
\* other: a bundle that verifies holds ledger, pack and contract of one complete
\* run (bundle.go:331-340, 396-463, 1035-1074).
THEOREM AcceptedBundlesAreOneRun == BundleSpec => []AcceptedBundleIsOneRun
<1>1. BundleInit => PacksWhole
  BY DEF BundleInit, PacksWhole, Whole, Nothing, PackReadable
<1>2. PacksWhole => AcceptedBundleIsOneRun
  <2> SUFFICES ASSUME PacksWhole, VerifyBundle(bundle, NoKey, {})
               PROVE  OneWholeRun(bundle.ledger.lines, bundle.pack) /\ bundle.contract = bundle.pack.contract
    BY DEF AcceptedBundleIsOneRun
  <2>1. /\ bundle \notin {NoFile, Partial} /\ PackReadable(bundle.pack)
        /\ bundle.contract = bundle.pack.contract /\ bundle.pack.ledger = bundle.ledger.lines
    BY DEF VerifyBundle, ContractMatches, Verify, LedgerDigestMatches
  <2>2. OneWholeRun(bundle.pack.ledger, bundle.pack)
    BY <2>1 DEF PacksWhole, Whole
  <2> QED
    BY <2>1, <2>2
<1>3. Spec => []Directory
  BY DirectoryHolds
<1> QED
  BY <1>1, <1>2, <1>3, ExportTypeHolds, PacksStayWhole, RunsBeside, PTL DEF BundleSpec

-----------------------------------------------------------------------------
(* Exports that nothing disturbs. *)

\* Nothing that Export reads has changed, nor what is derived from it.
LEMMA NothingChanged ==
  ASSUME UNCHANGED ReadByExport, UNCHANGED evidence
  PROVE  /\ UNCHANGED <<ledgerFile, packFile, snapFiles, workspace, contractFile>>
         /\ RunVerifies' = RunVerifies
         /\ SnapshotPaths' = SnapshotPaths /\ ArtifactPaths' = ArtifactPaths
<1>1. UNCHANGED <<ledgerFile, packFile, snapFiles, workspace, contractFile>>
  BY DEF ReadByExport
<1>2. SnapshotPaths' = SnapshotPaths /\ ArtifactPaths' = ArtifactPaths
  BY DEF SnapshotPaths, ArtifactPaths
<1>3. RunVerifies' = Verify(ledgerFile', packFile', snapFiles', workspace', {})
  BY DEF RunVerifies, Accepts
<1> QED
  BY <1>1, <1>2, <1>3 DEF RunVerifies, Accepts

\* A step of Export leaves what it reads as it is.
LEMMA ExportOnlyReads ==
  Export => UNCHANGED <<vars, contractFile, compiles>> /\ UNCHANGED ReadByExport
<1> SUFFICES ASSUME Export PROVE UNCHANGED <<vars, contractFile, compiles>> /\ UNCHANGED ReadByExport
  OBVIOUS
<1>1. UNCHANGED <<vars, contractFile, compiles>>
  BY DEF Export, BeginExport, ReadEvidence, CheckContract, Gather, GatherContract, GatherLedger,
         GatherPack, GatherSnapshots, GatherArtifacts, Seal, CrashExport
<1>2. UNCHANGED ReadByExport
  BY <1>1 DEF vars, dirVars, ReadByExport
<1> QED
  BY <1>1, <1>2

\* A file that the verified pack speaks of is there.
LEMMA NothingMissing ==
  ASSUME RunVerifies, evidence = packFile
  PROVE  /\ PackReadable(packFile)
         /\ \A p \in SnapshotPaths : snapFiles[p] # NoFile
         /\ \A p \in ArtifactPaths : workspace[p] # NoFile
  BY DEF RunVerifies, Accepts, Verify, SnapshotsIntact, ArtifactsIntact, SnapshotPaths, ArtifactPaths

\* The archive of files that verify, verifies, whatever lists and key it has.
LEMMA ArchiveVerifies ==
  ASSUME TypeOK, ExportType, ExportFollows, ex = "seal", ~disturbed,
         \A i \in DOMAIN Archive.pack.decisions : Archive.pack.decisions[i].ticket \notin BundledIds(Archive)
  PROVE  VerifyBundle(Archive, options.key, {})
<1>1. /\ RunVerifies /\ evidence = packFile /\ contractFile = evidence.contract
      /\ gathered.contract = contractFile /\ gathered.ledger = ledgerFile /\ gathered.pack = packFile
      /\ gathered.snaps = Copied(snapFiles, SnapshotPaths)
      /\ gathered.files = Copied(workspace, ArtifactPaths)
  BY DEF ExportFollows
<1>2. /\ Archive.contract = contractFile /\ Archive.ledger = ledgerFile /\ Archive.pack = packFile
      /\ Archive.snaps = Copied(snapFiles, SnapshotPaths) /\ Archive.files = Copied(workspace, ArtifactPaths)
      /\ Archive.key = options.key
  BY <1>1 DEF Archive
<1>3. evidence \in Packs /\ options \in Options /\ gathered \in Gatherings
  BY DEF ExportType
<1>4. Archive \notin {NoFile, Partial}
  <2>1. Archive \in Archives(options)
    <3>1. evidence.contract \in Contracts /\ evidence.ledger \in Seq(Events)
      BY <1>3 DEF Packs
    <3>2. /\ gathered.contract \in Contracts \cup {NoFile} /\ gathered.ledger \in LedgerFiles
          /\ gathered.pack \in Packs \cup {NoFile, Empty}
          /\ gathered.snaps \in Held(Paths) /\ gathered.files \in Held(Files)
      BY <1>3 DEF Gatherings
    <3> QED
      BY <3>1, <3>2 DEF Archive, Archives
  <2> QED
    BY <1>3, <2>1, ArchivesAssumption
<1>5. SnapshotPaths \subseteq Paths /\ ArtifactPaths \subseteq Files
  BY <1>3, PathsOfPack
<1>6. /\ \A p \in SnapshotPaths : Extracted(Archive.snaps, Paths)[p] = snapFiles[p]
      /\ \A p \in ArtifactPaths : Extracted(Archive.files, Files)[p] = workspace[p]
  BY <1>2, <1>5 DEF Extracted, Copied
<1> DEFINE ids == {} \cup BundledIds(Archive)
<1>7. NoneRevoked(packFile, ids)
  BY <1>2 DEF NoneRevoked
<1> HIDE DEF ids
<1>8. Verify(ledgerFile, packFile, Extracted(Archive.snaps, Paths), Extracted(Archive.files, Files), ids)
  <2>1. Verify(ledgerFile, packFile, snapFiles, workspace, {})
    BY <1>1 DEF RunVerifies, Accepts
  <2>2. SnapshotsIntact(packFile, Extracted(Archive.snaps, Paths))
    <3>1. \A i \in DOMAIN packFile.snapshots : packFile.snapshots[i].path \in SnapshotPaths
      BY <1>1 DEF SnapshotPaths
    <3> QED
      BY <1>6, <2>1, <3>1 DEF Verify, SnapshotsIntact
  <2>3. ArtifactsIntact(packFile, Extracted(Archive.files, Files))
    <3>1. \A i \in DOMAIN packFile.artifacts : packFile.artifacts[i].path \in ArtifactPaths
      BY <1>1 DEF ArtifactPaths
    <3> QED
      BY <1>6, <2>1, <3>1 DEF Verify, ArtifactsIntact
  <2> QED
    BY <1>7, <2>1, <2>2, <2>3 DEF Verify
<1>9. PackReadable(Archive.pack) /\ ContractMatches(Archive.contract, Archive.pack)
  BY <1>1, <1>2, NothingMissing DEF ContractMatches
<1>10. SignedFor(Archive, options.key)
  BY <1>2 DEF SignedFor
<1> QED
  BY <1>2, <1>4, <1>8, <1>9, <1>10 DEF VerifyBundle, ids

\* Steps beside Export, and those that start it, keep what it has read true.
LEMMA FollowsBeside ==
  ASSUME ExportFollows, UNCHANGED exportVars, Disturbs PROVE ExportFollows'
<1> SUFFICES ASSUME ex' # "idle", ~disturbed' PROVE ExportFollows'
  BY DEF ExportFollows
<1>1. ex' = ex /\ evidence' = evidence /\ gathered' = gathered
  BY DEF exportVars
<1>2. ~disturbed /\ UNCHANGED ReadByExport
  <2>1. ~(disturbed \/ (ex # "idle" /\ ReadByExport' # ReadByExport))
    BY Zenon DEF Disturbs
  <2>2. ~disturbed /\ ReadByExport' = ReadByExport
    BY <1>1, <2>1
  <2> QED
    BY <2>2
<1>3. /\ UNCHANGED <<ledgerFile, packFile, snapFiles, workspace, contractFile>>
      /\ RunVerifies' = RunVerifies
      /\ SnapshotPaths' = SnapshotPaths /\ ArtifactPaths' = ArtifactPaths
  BY <1>1, <1>2, NothingChanged
<1> QED
  BY <1>1, <1>2, <1>3 DEF ExportFollows

\* Whatever Export reads next is what was verified.
LEMMA FollowsExport ==
  ASSUME ExportType, ExportFollows, Export PROVE ExportFollows'
<1> SUFFICES ASSUME ex' # "idle", ~disturbed' PROVE ExportFollows'
  BY DEF ExportFollows
<1>1. UNCHANGED <<vars, contractFile>> /\ UNCHANGED ReadByExport
  BY ExportOnlyReads
<1>2. UNCHANGED <<ledgerFile, packFile, snapFiles, workspace, contractFile>> /\ RunVerifies' = RunVerifies
  <2>1. UNCHANGED <<ledgerFile, packFile, snapFiles, workspace, contractFile>>
    BY <1>1 DEF ReadByExport
  <2>2. RunVerifies' = Verify(ledgerFile', packFile', snapFiles', workspace', {})
    BY DEF RunVerifies, Accepts
  <2> QED
    BY <2>1, <2>2 DEF RunVerifies, Accepts
<1>3. ASSUME NEW o \in Options, BeginExport(o) PROVE ExportFollows'
  <2>1. ex' = "evidence" /\ RunVerifies
    BY <1>3 DEF BeginExport, EndExport
  <2> QED
    BY <1>2, <2>1 DEF ExportFollows
<1>4. SUFFICES ASSUME ~\E o \in Options : BeginExport(o) PROVE ExportFollows'
  BY <1>3
<1>5. ex # "idle" /\ disturbed' = disturbed
  BY <1>4 DEF Export, ReadEvidence, CheckContract, Gather, GatherContract, GatherLedger,
              GatherPack, GatherSnapshots, GatherArtifacts, Seal, CrashExport
<1>6. /\ RunVerifies
      /\ ex # "evidence" => evidence = packFile
      /\ ex \notin {"evidence", "digest"} => contractFile = evidence.contract
      /\ ex \notin {"evidence", "digest", "contract"} => gathered.contract = contractFile
      /\ ex \in {"pack", "snaps", "files", "seal"} => gathered.ledger = ledgerFile
      /\ ex \in {"snaps", "files", "seal"} => gathered.pack = packFile
      /\ ex \in {"files", "seal"} => gathered.snaps = Copied(snapFiles, SnapshotPaths)
      /\ ex = "seal" => gathered.files = Copied(workspace, ArtifactPaths)
  BY <1>5 DEF ExportFollows
<1>7. CASE ReadEvidence
  <2>1. ex' = "digest" /\ evidence' = packFile
    BY <1>7 DEF ReadEvidence, EndExport
  <2> QED
    BY <1>2, <1>6, <2>1 DEF ExportFollows
<1>8. CASE CheckContract
  <2>1. ex = "digest" /\ ex' = "contract" /\ contractFile = evidence.contract /\ evidence' = evidence
    BY <1>8 DEF CheckContract, EndExport, ContractMatches
  <2> QED
    BY <1>2, <1>6, <2>1 DEF ExportFollows
<1>9. CASE GatherContract \/ GatherLedger \/ GatherPack \/ GatherSnapshots \/ GatherArtifacts
  <2>1. evidence' = evidence /\ gathered \in Gatherings
    BY <1>9 DEF ExportType, GatherContract, GatherLedger, GatherPack, GatherSnapshots, GatherArtifacts, Gather
  <2>2. SnapshotPaths' = SnapshotPaths /\ ArtifactPaths' = ArtifactPaths
    BY <2>1 DEF SnapshotPaths, ArtifactPaths
  <2> USE DEF Gather, EndExport
  <2>3. CASE GatherContract
    <3>1. ex = "contract" /\ ex' = "ledger" /\ gathered'.contract = contractFile
      BY <2>1, <2>3 DEF GatherContract, Gatherings
    <3> QED
      BY <1>2, <1>6, <2>1, <3>1 DEF ExportFollows
  <2>4. CASE GatherLedger
    <3>1. /\ ex = "ledger" /\ ex' = "pack" /\ gathered'.ledger = ledgerFile
          /\ gathered'.contract = gathered.contract
      BY <2>1, <2>4 DEF GatherLedger, Gatherings
    <3> QED
      BY <1>2, <1>6, <2>1, <3>1 DEF ExportFollows
  <2>5. CASE GatherPack
    <3>1. /\ ex = "pack" /\ ex' = "snaps" /\ gathered'.pack = packFile
          /\ gathered'.contract = gathered.contract /\ gathered'.ledger = gathered.ledger
      BY <2>1, <2>5 DEF GatherPack, Gatherings
    <3> QED
      BY <1>2, <1>6, <2>1, <3>1 DEF ExportFollows
  <2>6. CASE GatherSnapshots
    <3>1. /\ ex = "snaps" /\ ex' = "files" /\ gathered'.snaps = Copied(snapFiles, SnapshotPaths)
          /\ gathered'.contract = gathered.contract /\ gathered'.ledger = gathered.ledger
          /\ gathered'.pack = gathered.pack
      BY <2>1, <2>6 DEF GatherSnapshots, Gatherings
    <3>2. Copied(snapFiles, SnapshotPaths)' = Copied(snapFiles, SnapshotPaths)
      BY <1>2, <2>2 DEF Copied
    <3> QED
      BY <1>2, <1>6, <2>1, <3>1, <3>2 DEF ExportFollows
  <2>7. CASE GatherArtifacts
    <3>1. /\ ex = "files" /\ ex' = "seal" /\ gathered'.files = Copied(workspace, ArtifactPaths)
          /\ gathered'.contract = gathered.contract /\ gathered'.ledger = gathered.ledger
          /\ gathered'.pack = gathered.pack /\ gathered'.snaps = gathered.snaps
      BY <2>1, <2>7 DEF GatherArtifacts, Gatherings
    <3>2. /\ Copied(snapFiles, SnapshotPaths)' = Copied(snapFiles, SnapshotPaths)
          /\ Copied(workspace, ArtifactPaths)' = Copied(workspace, ArtifactPaths)
      BY <1>2, <2>2 DEF Copied
    <3> QED
      BY <1>2, <1>6, <2>1, <3>1, <3>2 DEF ExportFollows
  <2> QED
    BY <1>9, <2>3, <2>4, <2>5, <2>6, <2>7
<1>10. CASE Seal \/ CrashExport
  BY <1>10 DEF Seal, CrashExport, RefuseOptions, WriteZip, EndExport
<1> QED
  BY <1>4, <1>7, <1>8, <1>9, <1>10 DEF Export

LEMMA ExportFollowsHolds == BundleSpec => []ExportFollows
<1>1. BundleInit => ExportFollows
  BY DEF BundleInit, ExportFollows
<1>2. ExportType /\ ExportFollows /\ [BundleNext]_bundleVars => ExportFollows'
  <2> SUFFICES ASSUME ExportType, ExportFollows, [BundleNext]_bundleVars PROVE ExportFollows'
    OBVIOUS
  <2>1. CASE Export
    BY <2>1, FollowsExport
  <2>2. CASE Elsewhere \/ Compile
    BY <2>2, FollowsBeside DEF Elsewhere, Compile, exportVars
  <2>3. CASE UNCHANGED bundleVars
    <3>1. UNCHANGED <<vars, exportVars, contractFile, disturbed>>
      BY <2>3 DEF bundleVars
    <3>2. UNCHANGED ReadByExport /\ UNCHANGED evidence
      BY <3>1 DEF vars, dirVars, ReadByExport, exportVars
    <3> QED
      BY <3>1, <3>2, NothingChanged DEF ExportFollows, exportVars
  <2> QED
    BY <2>1, <2>2, <2>3 DEF BundleNext
<1> QED
  BY <1>1, <1>2, ExportTypeHolds, PTL DEF BundleSpec

\* Steps that end no export leave what is said of the last one.
LEMMA EndsBeside ==
  ASSUME ExportEnds, UNCHANGED exportVars, Disturbs \/ UNCHANGED disturbed
  PROVE  ExportEnds'
<1>1. UNCHANGED <<ex, options, bundle, exported, unclosed>>
  BY DEF exportVars
<1>2. CASE ex # "idle"
  <2>1. exported' = "none" /\ ex' = ex
    BY <1>1, <1>2 DEF ExportEnds
  <2> QED
    BY <2>1 DEF ExportEnds, MissesOnlyWhatChanged, QuietExportVerifies
<1>3. CASE ex = "idle"
  <2>1. disturbed' <=> disturbed
    <3>1. CASE disturbed' = (disturbed \/ (ex # "idle" /\ ReadByExport' # ReadByExport))
      <4>1. CASE disturbed
        <5>1. disturbed' = TRUE
          BY <3>1, <4>1
        <5> QED
          BY <4>1, <5>1
      <4>2. CASE ~disturbed
        <5>1. disturbed' = FALSE
          BY <1>3, <3>1, <4>2
        <5> QED
          BY <4>2, <5>1
      <4> QED
        BY <4>1, <4>2
    <3>2. CASE disturbed' = disturbed
      BY <3>2
    <3> QED
      BY <3>1, <3>2 DEF Disturbs
  <2>2. MissesOnlyWhatChanged'
    BY <1>1, <2>1 DEF ExportEnds, MissesOnlyWhatChanged
  <2>3. QuietExportVerifies'
    <3>1. /\ BundledIds(bundle)' = BundledIds(bundle)
          /\ VerifyBundle(bundle, options.key, {})' = VerifyBundle(bundle', options'.key, {})
          /\ ListsSpareIt(bundle)' = ListsSpareIt(bundle')
      BY <1>1 DEF BundledIds, VerifyBundle, ListsSpareIt
    <3> QED
      BY <1>1, <2>1, <3>1, Zenon DEF ExportEnds, QuietExportVerifies
  <2> QED
    BY <1>1, <1>3, <2>2, <2>3 DEF ExportEnds
<1> QED
  BY <1>2, <1>3

\* How an export ends.
LEMMA EndsExport ==
  ASSUME TypeOK, ExportType, ExportFollows, ExportEnds, Export PROVE ExportEnds'
<1>1. ASSUME NEW o \in Options, BeginExport(o) PROVE ExportEnds'
  <2>1. exported' \in {"none", "unverified"} /\ (ex' = "idle" \/ exported' = "none")
    BY <1>1 DEF BeginExport, EndExport
  <2> QED
    BY <2>1 DEF ExportEnds, MissesOnlyWhatChanged, QuietExportVerifies
<1>2. SUFFICES ASSUME ~\E o \in Options : BeginExport(o) PROVE ExportEnds'
  BY <1>1
<1>3. ex # "idle" /\ disturbed' = disturbed /\ exported = "none"
  BY <1>2 DEF Export, ReadEvidence, CheckContract, Gather, GatherContract, GatherLedger,
              GatherPack, GatherSnapshots, GatherArtifacts, Seal, CrashExport, ExportEnds
<1>4. CASE \/ ReadEvidence \/ CheckContract
           \/ GatherContract \/ GatherLedger \/ GatherPack \/ GatherSnapshots \/ GatherArtifacts
  <2>1. exported' \in {"none", "unreadable", "contract"} /\ (ex' = "idle" \/ exported' = "none")
    BY <1>3, <1>4 DEF ReadEvidence, CheckContract, Gather, GatherContract, GatherLedger,
                      GatherPack, GatherSnapshots, GatherArtifacts, EndExport
  <2>2. ASSUME ~disturbed PROVE exported' # "unreadable"
    <3>1. RunVerifies /\ (ex # "evidence" => evidence = packFile)
      BY <1>3, <2>2 DEF ExportFollows
    <3>2. CASE ReadEvidence
      BY <1>3, <3>1, <3>2 DEF ReadEvidence, RunVerifies, Accepts, Verify
    <3>3. CASE CheckContract
      BY <1>3, <3>3 DEF CheckContract, EndExport
    <3>4. CASE GatherContract \/ GatherLedger
      BY <1>3, <3>4 DEF GatherContract, GatherLedger, Gather
    <3>5. CASE GatherPack \/ GatherSnapshots \/ GatherArtifacts
      <4>1. evidence = packFile
        BY <3>1, <3>5 DEF GatherPack, GatherSnapshots, GatherArtifacts, Gather
      <4>2. /\ packFile # NoFile
            /\ \A p \in SnapshotPaths : snapFiles[p] # NoFile
            /\ \A p \in ArtifactPaths : workspace[p] # NoFile
        BY <3>1, <4>1, NothingMissing DEF PackReadable
      <4> QED
        BY <1>3, <3>5, <4>2 DEF GatherPack, GatherSnapshots, GatherArtifacts, Gather
    <3> QED
      BY <1>4, <3>2, <3>3, <3>4, <3>5
  <2> QED
    BY <1>3, <2>1, <2>2 DEF ExportEnds, MissesOnlyWhatChanged, QuietExportVerifies
<1>5. CASE Seal
  <2>1. /\ ex = "seal" /\ ex' = "idle" /\ options' = options
        /\ exported' \in {"ok", "options", "duplicate", "write"}
        /\ exported' = "ok" => bundle' = Archive \/ unclosed'
    BY <1>5 DEF Seal, RefuseOptions, WriteZip, EndExport
  <2>2. ASSUME exported' = "ok", ~disturbed', ~unclosed'
        PROVE  /\ bundle'.manifest = [contract |-> bundle'.contract, ledger |-> bundle'.ledger.lines]
               /\ ListsSpareIt(bundle') => VerifyBundle(bundle', options'.key, {})
    <3>1. bundle' = Archive /\ ~disturbed
      BY <1>3, <2>1, <2>2
    <3>2. /\ RunVerifies /\ evidence = packFile /\ contractFile = evidence.contract
          /\ gathered.contract = contractFile /\ gathered.ledger = ledgerFile
      BY <2>1, <3>1 DEF ExportFollows
    <3>3. packFile.ledger = ledgerFile.lines
      BY <3>2 DEF RunVerifies, Accepts, Verify, LedgerDigestMatches
    <3>4. Archive.manifest = [contract |-> Archive.contract, ledger |-> Archive.ledger.lines]
      BY <3>2, <3>3 DEF Archive
    <3>5. ListsSpareIt(Archive) => VerifyBundle(Archive, options.key, {})
      BY <2>1, <3>1, ArchiveVerifies DEF ListsSpareIt
    <3> QED
      BY <2>1, <3>1, <3>4, <3>5
  <2>3. QuietExportVerifies'
    BY <2>2 DEF QuietExportVerifies, ListsSpareIt, VerifyBundle, BundledIds
  <2> QED
    BY <2>1, <2>3 DEF ExportEnds, MissesOnlyWhatChanged
<1>6. CASE CrashExport
  BY <1>6 DEF CrashExport, EndExport, ExportEnds, MissesOnlyWhatChanged, QuietExportVerifies
<1> QED
  BY <1>2, <1>4, <1>5, <1>6 DEF Export

LEMMA ExportEndsHolds == BundleSpec => []ExportEnds
<1>1. BundleInit => ExportEnds
  BY DEF BundleInit, ExportEnds, MissesOnlyWhatChanged, QuietExportVerifies
<1>2. TypeOK /\ ExportType /\ ExportFollows /\ ExportEnds /\ [BundleNext]_bundleVars => ExportEnds'
  <2> SUFFICES ASSUME TypeOK, ExportType, ExportFollows, ExportEnds, [BundleNext]_bundleVars
               PROVE  ExportEnds'
    OBVIOUS
  <2>1. CASE Export
    BY <2>1, EndsExport
  <2>2. CASE Elsewhere \/ Compile
    BY <2>2, EndsBeside DEF Elsewhere, Compile, exportVars
  <2>3. CASE UNCHANGED bundleVars
    BY <2>3, EndsBeside DEF bundleVars
  <2> QED
    BY <2>1, <2>2, <2>3 DEF BundleNext
<1>3. Spec => []TypeOK
  BY TypeCorrect
<1> QED
  BY <1>1, <1>2, <1>3, ExportTypeHolds, ExportFollowsHolds, RunsBeside, PTL DEF BundleSpec

\* Once the run has verified, Export misses a file only if somebody has changed
\* it since (bundle.go:323-342, 1134-1144).
THEOREM ExportMissesOnlyWhatChanged == BundleSpec => []MissesOnlyWhatChanged
<1>1. ExportEnds => MissesOnlyWhatChanged
  BY DEF ExportEnds
<1> QED
  BY <1>1, ExportEndsHolds, PTL

\* An export that nothing disturbed writes a bundle that verifies, with its key,
\* unless a list attached to it names a ticket the run used (bundle.go:307-395,
\* 444-449).
THEOREM QuietExportsVerify == BundleSpec => []QuietExportVerifies
<1>1. ExportEnds => QuietExportVerifies
  BY DEF ExportEnds
<1> QED
  BY <1>1, ExportEndsHolds, PTL
=============================================================================
