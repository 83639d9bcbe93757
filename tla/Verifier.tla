------------------------------ MODULE Verifier ------------------------------
(***************************************************************************)
(* Verify (internal/verify/verifier.go): whether the evidence in a run     *)
(* directory is accepted.  It reads and writes nothing else, so it is an   *)
(* operator over the files it is given: the ledger, the evidence pack, the *)
(* input snapshots beside the pack and the workspace.                      *)
(***************************************************************************)
EXTENDS Evidence

\* readLedger: a last line cut short does not decode.
LedgerReadable(file) == ~file.torn /\ file.lines # <<>>

\* verifyChain
ChainIntact(lines) ==
  \A i \in DOMAIN lines :
    lines[i].prev = IF i = 1 THEN 0 ELSE lines[i - 1].seq

\* readEvidence: a pack cut short does not decode.
PackReadable(pack) == pack \notin {NoFile, Empty}

\* Variant for mutation: the pack's digest is not compared with the ledger.
DigestNotCompared(pack, file) == TRUE

LedgerDigestMatches(pack, file) == pack.ledger = file.lines

\* verifyInputSnapshots
SnapshotsIntact(pack, snaps) ==
  \A i \in DOMAIN pack.snapshots :
    /\ snaps[pack.snapshots[i].path] # NoFile
    /\ snaps[pack.snapshots[i].path] = pack.snapshots[i].digest

\* Variant for mutation: artifacts are not read again.
ArtifactsNotRead(pack, ws) == TRUE

\* verifyArtifacts
ArtifactsIntact(pack, ws) ==
  \A i \in DOMAIN pack.artifacts :
    /\ ws[pack.artifacts[i].path] # NoFile
    /\ ws[pack.artifacts[i].path] = pack.artifacts[i].digest

-----------------------------------------------------------------------------
(* verifyEvidenceProvenance *)

\* policyEventIndex and consume: each decision uses up one event with its id.
DecisionsRecorded(pack, lines) ==
  \A i \in DOMAIN pack.decisions :
    LET d == pack.decisions[i] IN
    Cardinality({j \in DOMAIN lines : /\ lines[j].type = "policy_decided"
                                      /\ lines[j].task = d.task
                                      /\ lines[j].decision[1].n = d.n})
      >= Cardinality({j \in DOMAIN pack.decisions : /\ pack.decisions[j].task = d.task
                                                    /\ pack.decisions[j].n = d.n})

\* eventMap: of events with the same id the last one counts.
EventsNumbered(lines, id) == {j \in DOMAIN lines : lines[j].seq = id}
EventNumbered(lines, id) ==
  lines[CHOOSE j \in EventsNumbered(lines, id) :
          \A k \in EventsNumbered(lines, id) : k <= j]

ProducersRecorded(pack, lines) ==
  \A i \in DOMAIN pack.artifacts :
    LET a == pack.artifacts[i] IN
    /\ EventsNumbered(lines, a.event) # {}
    /\ EventNumbered(lines, a.event).type = "artifact_recorded"
    /\ a.id \in EventNumbered(lines, a.event).artifacts

ProducedBy(pack, lines, tasks) ==
  {pack.artifacts[i].id : i \in
     {j \in DOMAIN pack.artifacts :
        EventNumbered(lines, pack.artifacts[j].event).task \in tasks}}

\* A row names the artifacts and the decisions of its tasks, all and no other.
RowsExact(pack, lines) ==
  \A row \in pack.closure.rows :
    /\ row.artifacts = ProducedBy(pack, lines, row.tasks)
    /\ row.decisions = DecisionIdsOf(pack.decisions, row.tasks)

-----------------------------------------------------------------------------
\* verifyRevokedApprovalTickets: allow and deny decisions alike.
NoneRevoked(pack, revokedIds) ==
  \A i \in DOMAIN pack.decisions : pack.decisions[i].ticket \notin revokedIds

\* summarizeFailures
FailuresRecorded(pack, lines) ==
  \A i \in DOMAIN pack.failures : EventsNumbered(lines, pack.failures[i].event) # {}

Verify(file, pack, snaps, ws, revokedIds) ==
  /\ LedgerReadable(file)
  /\ ChainIntact(file.lines)
  /\ PackReadable(pack)
  /\ LedgerDigestMatches(pack, file)
  /\ SnapshotsIntact(pack, snaps)
  /\ ArtifactsIntact(pack, ws)
  /\ DecisionsRecorded(pack, file.lines)
  /\ ProducersRecorded(pack, file.lines)
  /\ RowsExact(pack, file.lines)
  /\ NoneRevoked(pack, revokedIds)
  /\ FailuresRecorded(pack, file.lines)
=============================================================================
