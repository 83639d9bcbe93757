------------------------------- MODULE Bundle -------------------------------
(***************************************************************************)
(* `covenant bundle export` and `covenant verify --bundle`                 *)
(* (internal/bundle/bundle.go) beside a run directory that stays in use:   *)
(* while Export reads one file after the other, Execute may be called      *)
(* again under the same run id, a file of the workspace may be edited and  *)
(* the contract file may be compiled anew.                                 *)
(*                                                                         *)
(* Digests in the manifest's entries and in SHA256SUMS are taken of the    *)
(* very bytes that go into the archive, so neither is represented; what    *)
(* the manifest says of the run is.                                        *)
(***************************************************************************)
EXTENDS Runs

CONSTANTS
  Keys,          (* bundle signing keys                                      *)
  NoKey,         (* no --sign-key, no --public-key                           *)
  Options,       (* [lists, key]: options of Export; a list is [name, ids]   *)
  Partial,       (* an archive without its central directory                 *)
  MaxExports,    (* bound: exports                                           *)
  MaxCompiles    (* bound: contracts compiled into the contract file         *)

ASSUME OptionsAssumption ==
  \A o \in Options : /\ o.key \in Keys \cup {NoKey}
                     /\ \A i \in DOMAIN o.lists : o.lists[i].ids \subseteq TicketIds
ASSUME ExportBounds == MaxExports \in Nat /\ MaxCompiles \in Nat

VARIABLES
  contractFile,   \* the file --contract names
  ex,             \* where Export is
  options,        \* its options
  evidence,       \* the pack it decoded after verification
  gathered,       \* the files it has read so far
  bundle,         \* the file --out names
  exported,       \* how the last Export ended
  exports, compiles,
  disturbed,      \* history: a file Export reads changed since it verified the run
  unclosed        \* history: the archive was not closed properly

exportVars == <<ex, options, evidence, gathered, bundle, exported, exports, unclosed>>
bundleVars == <<vars, exportVars, contractFile, compiles, disturbed>>

ReadByExport == <<ledgerFile, packFile, snapFiles, workspace, contractFile>>

NoOptions == [lists |-> <<>>, key |-> NoKey]
Nothing == [contract |-> NoFile, ledger |-> NoLedger, pack |-> NoFile,
            snaps |-> <<>>, files |-> <<>>]

Held(names) == UNION {[S -> Contents] : S \in SUBSET names}

\* The archives Export may make with these options.
Archives(o) ==
  [contract : Contracts \cup {NoFile}, ledger : LedgerFiles,
   pack : Packs \cup {NoFile, Empty}, snaps : Held(Paths), files : Held(Files),
   lists : {o.lists}, key : {o.key},
   manifest : [contract : Contracts, ledger : Seq(Events)]]

\* An archive that opens is neither missing nor cut short.
ASSUME ArchivesAssumption ==
  \A o \in Options : NoFile \notin Archives(o) /\ Partial \notin Archives(o)

BundleInit ==
  /\ Init
  /\ contractFile \in {l.contract : l \in Launches}
  /\ ex = "idle" /\ options = NoOptions
  /\ evidence = NoFile /\ gathered = Nothing
  /\ bundle = NoFile /\ exported = "none" /\ exports = 0 /\ compiles = 0
  /\ disturbed = FALSE /\ unclosed = FALSE

-----------------------------------------------------------------------------
(* Verify *)

\* verifyContractDigest
ContractMatches(c, pack) == c = pack.contract

\* The archive extracted: what it does not hold is not there.
Extracted(held, names) == [f \in names |-> IF f \in DOMAIN held THEN held[f] ELSE NoFile]

BundledIds(b) == UNION {b.lists[i].ids : i \in DOMAIN b.lists}

\* verifyBundleSignature, asked for only when a public key is given.
SignedFor(b, key) == key = NoKey \/ b.key = key

VerifyBundle(b, key, revokedIds) ==
  /\ b \notin {NoFile, Partial}
  /\ SignedFor(b, key)
  /\ PackReadable(b.pack)
  /\ ContractMatches(b.contract, b.pack)
  /\ Verify(b.ledger, b.pack, Extracted(b.snaps, Paths), Extracted(b.files, Files),
            revokedIds \cup BundledIds(b))

-----------------------------------------------------------------------------
(* Export *)

EndExport(how) == ex' = "idle" /\ exported' = how

\* Variant for mutation: nothing is verified.
NotVerified == TRUE

\* The run is verified without the revocation lists that will be attached.
RunVerifies == Accepts({})

BeginExport(o) ==
  /\ ex = "idle" /\ exports < MaxExports
  /\ exports' = exports + 1
  /\ options' = o
  /\ evidence' = NoFile /\ gathered' = Nothing /\ disturbed' = FALSE /\ unclosed' = FALSE
  /\ IF RunVerifies
     THEN ex' = "evidence" /\ exported' = "none"
     ELSE EndExport("unverified")
  /\ UNCHANGED <<vars, bundle, contractFile, compiles>>

\* One more file read: to the next one, or the end of Export.
Gather(at, to, readable, files) ==
  /\ ex = at
  /\ IF readable
     THEN ex' = to /\ gathered' = files /\ UNCHANGED exported
     ELSE EndExport("unreadable") /\ UNCHANGED gathered
  /\ UNCHANGED <<vars, options, evidence, bundle, exports, contractFile, compiles,
                 disturbed, unclosed>>

ReadEvidence ==
  /\ ex = "evidence"
  /\ IF PackReadable(packFile)
     THEN evidence' = packFile /\ ex' = "digest" /\ UNCHANGED exported
     ELSE EndExport("unreadable") /\ UNCHANGED evidence
  /\ UNCHANGED <<vars, options, gathered, bundle, exports, contractFile, compiles,
                 disturbed, unclosed>>

CheckContract ==
  /\ ex = "digest"
  /\ IF ContractMatches(contractFile, evidence)
     THEN ex' = "contract" /\ UNCHANGED exported
     ELSE EndExport("contract")
  /\ UNCHANGED <<vars, options, evidence, gathered, bundle, exports, contractFile,
                 compiles, disturbed, unclosed>>

GatherContract ==
  Gather("contract", "ledger", TRUE, [gathered EXCEPT !.contract = contractFile])

GatherLedger ==
  Gather("ledger", "pack", TRUE, [gathered EXCEPT !.ledger = ledgerFile])

GatherPack ==
  Gather("pack", "snaps", packFile # NoFile, [gathered EXCEPT !.pack = packFile])

SnapshotPaths == {evidence.snapshots[i].path : i \in DOMAIN evidence.snapshots}
ArtifactPaths == {evidence.artifacts[i].path : i \in DOMAIN evidence.artifacts}

Copied(from, paths) == [p \in paths |-> from[p]]

GatherSnapshots ==
  Gather("snaps", "files", \A p \in SnapshotPaths : snapFiles[p] # NoFile,
         [gathered EXCEPT !.snaps = Copied(snapFiles, SnapshotPaths)])

GatherArtifacts ==
  Gather("files", "seal", \A p \in ArtifactPaths : workspace[p] # NoFile,
         [gathered EXCEPT !.files = Copied(workspace, ArtifactPaths)])

\* entriesForFiles: two snapshots, artifacts or lists under one name.
PathsCollide ==
  \/ \E i, j \in DOMAIN evidence.snapshots :
       i # j /\ evidence.snapshots[i].path = evidence.snapshots[j].path
  \/ \E i, j \in DOMAIN evidence.artifacts :
       i # j /\ evidence.artifacts[i].path = evidence.artifacts[j].path
  \/ \E i, j \in DOMAIN options.lists :
       i # j /\ options.lists[i].name = options.lists[j].name

Archive ==
  [contract |-> gathered.contract, ledger |-> gathered.ledger, pack |-> gathered.pack,
   snaps |-> gathered.snaps, files |-> gathered.files, lists |-> options.lists,
   key |-> options.key,
   manifest |-> [contract |-> evidence.contract, ledger |-> evidence.ledger]]

\* A list or the signing key cannot be read.
RefuseOptions == EndExport("options") /\ UNCHANGED <<bundle, unclosed>>

\* writeZip does not look at what Close reports: an archive it has no complaint
\* about may lack its central directory.
WriteZip ==
  \/ EndExport("ok") /\ bundle' = Archive /\ UNCHANGED unclosed
  \/ EndExport("ok") /\ bundle' = Partial /\ unclosed' = TRUE
  \/ EndExport("write") /\ bundle' \in {bundle, Partial} /\ UNCHANGED unclosed

\* Lists and key are read, names compared, manifest and signature made and the
\* archive written.
Seal ==
  /\ ex = "seal"
  /\ \/ RefuseOptions
     \/ PathsCollide /\ EndExport("duplicate") /\ UNCHANGED <<bundle, unclosed>>
     \/ ~PathsCollide /\ WriteZip
  /\ UNCHANGED <<vars, options, evidence, gathered, exports, contractFile, compiles,
                 disturbed>>

\* Export dies, perhaps while it writes the archive.
CrashExport ==
  /\ ex # "idle" /\ EndExport("crashed")
  /\ bundle' \in {bundle} \cup (IF ex = "seal" /\ ~PathsCollide THEN {Partial, Archive} ELSE {})
  /\ UNCHANGED <<vars, options, evidence, gathered, exports, contractFile, compiles,
                 disturbed, unclosed>>

-----------------------------------------------------------------------------
(* Beside it. *)

Disturbs == disturbed' = (disturbed \/ (ex # "idle" /\ ReadByExport' # ReadByExport))

Elsewhere == Next /\ UNCHANGED <<exportVars, contractFile, compiles>> /\ Disturbs

\* compile writes another contract under the same name.
Compile ==
  /\ compiles < MaxCompiles /\ compiles' = compiles + 1
  /\ \E l \in Launches : contractFile' = l.contract /\ l.contract # contractFile
  /\ UNCHANGED <<vars, exportVars>> /\ Disturbs

Export ==
  \/ \E o \in Options : BeginExport(o)
  \/ ReadEvidence \/ CheckContract
  \/ GatherContract \/ GatherLedger \/ GatherPack \/ GatherSnapshots \/ GatherArtifacts
  \/ Seal \/ CrashExport

BundleNext == Export \/ Elsewhere \/ Compile

BundleSpec == BundleInit /\ [][BundleNext]_bundleVars

-----------------------------------------------------------------------------
(* Properties. *)

\* None of the bundled lists names a ticket the evidence used.
ListsSpareIt(b) ==
  \A i \in DOMAIN b.pack.decisions : b.pack.decisions[i].ticket \notin BundledIds(b)

\* Whatever is run, edited or compiled while Export reads one file after the
\* other: a bundle that verifies holds ledger, pack and contract of one complete
\* run (bundle.go:331-340, 396-463, 1035-1074).
AcceptedBundleIsOneRun ==
  VerifyBundle(bundle, NoKey, {}) =>
    /\ OneWholeRun(bundle.ledger.lines, bundle.pack)
    /\ bundle.contract = bundle.pack.contract

\* An export that nothing disturbed writes a bundle that verifies, with its key,
\* unless a list attached to it names a ticket the run used, and whose manifest
\* names its own contract and ledger: the archive's artifacts/ and
\* input-snapshots/ stand in for workspace and run directory (bundle.go:307-395,
\* 444-449).
QuietExportVerifies ==
  exported = "ok" /\ ~disturbed /\ ~unclosed =>
    /\ bundle.manifest = [contract |-> bundle.contract, ledger |-> bundle.ledger.lines]
    /\ ListsSpareIt(bundle) => VerifyBundle(bundle, options.key, {})

\* Once the run has verified, Export misses a file only if somebody has changed
\* it since (bundle.go:323-342, 1134-1144).
MissesOnlyWhatChanged == exported = "unreadable" => disturbed

\* REFERENCE.md:743: "`covenant bundle export` packages a verified run into a
\* portable zip archive."
VerifiedRunIsPackaged ==
  exported = "duplicate" =>
    \E i, j \in DOMAIN options.lists : i # j /\ options.lists[i].name = options.lists[j].name
=============================================================================
