---------------------------- MODULE ReleaseAudit ----------------------------
(***************************************************************************)
(* `covenant release verify`, `report` and `diff` (internal/release) over  *)
(* a release directory that Package and others may be changing: an audit   *)
(* reads one file after the other.                                         *)
(*                                                                         *)
(* Sizes, whose check the digests subsume, and the refusal of paths that   *)
(* leave the directory and of names given twice, which no manifest written *)
(* here has, are left out.                                                 *)
(***************************************************************************)
EXTENDS Release

CONSTANTS
  Audits,     (* [mode, key, baseline]: calls of verify and report           *)
  Blanks,     (* a name with whitespace -> the names it falls into there         *)
  Host,       (* the target whose binary can be run here                     *)
  DiffBaselines, (* what calls of diff accept                              *)
  AnyField,   (* a baseline entry that names no field                        *)
  MaxAudits   (* bound: audits                                               *)

ASSUME AuditBounds == MaxAudits \in Nat
ASSUME BlanksAssumption ==
  \A n \in DOMAIN Blanks :
    Blanks[n] \in Seq(ToSet(Blanks[n])) /\ ToSet(Blanks[n]) \cap DOMAIN Blanks = {}

VARIABLES
  au,        \* where the audit is
  audit,     \* which one it is
  seen,      \* the manifest it has read
  signer,    \* the key the manifest's signature was verified with
  sums,      \* the lines of SHA256SUMS
  todo,      \* what the manifest lists and it has not looked at
  named,     \* the names it has met in the manifest
  read,      \* history: what it has read of the files
  problems,  \* the problems it has found
  answer,    \* what the last audit said
  audits,
  archive    \* an earlier release, downloaded

auditLocals == <<audit, seen, signer, sums, todo, named, read, problems>>
auditVars   == <<au, auditLocals, answer, audits>>
allVars     == <<releaseVars, auditVars, archive>>

NoAudit  == [mode |-> "none", key |-> NoKey, baseline |-> {}]
NoRelease == Manifest([version |-> "", commit |-> "", date |-> ""], <<>>, <<>>)

NoAnswer == [how |-> "none"]
Error    == [how |-> "error"]

AuditInit ==
  /\ ReleaseInit
  /\ au = "idle" /\ audit = NoAudit /\ seen = NoRelease /\ signer = NoKey /\ sums = <<>>
  /\ todo = <<>> /\ named = {} /\ read = <<>> /\ problems = {}
  /\ answer = NoAnswer /\ audits = 0
  /\ archive = <<>>

-----------------------------------------------------------------------------
(* What is checked of one file. *)

\* The rule and the field under which a problem appears in SARIF.
Problem(e) == [rule |-> e.kind, field |-> e.path]
OfRelease  == [rule |-> "release", field |-> "release"]

\* The line of SHA256SUMS for an entry: under its path, or else under its name.
LineFor(e, lines) == IF e.path \in DOMAIN lines THEN At(lines, e.path) ELSE At(lines, e.name)

\* Variant for mutation: the file itself is not looked at.
UnlikeLine(e, c, lines) == c = Absent \/ LineFor(e, lines) # e.sum

\* fileDigest, then the comparison with manifest and SHA256SUMS.
Unlike(e, c, lines) == c # e.sum \/ LineFor(e, lines) # e.sum

Runnable(mode, e) == mode = "verify" /\ e.kind = "artifact" /\ e.target = Host

\* ReadBinaryMetadata and compareBuildMetadata.
Misreports(e, c, release) == c # Binary(release, e.target)

Faulty(mode, e, c, lines, release) ==
  \/ c = Absent
  \/ Unlike(e, c, lines)
  \/ Runnable(mode, e) /\ Misreports(e, c, release)

\* Variant for mutation: any signature of the key will do.
SignatureOfKey(sig, key, m) == sig[1] = "signature" /\ sig[2].key = key

\* verifyReleaseSignature
SignatureHolds(sig, key, m) == sig = AsSignature(key, AsManifest(m))

Listing(m) ==
  FlattenSeq([i \in DOMAIN m.artifacts |-> <<m.artifacts[i]>> \o m.artifacts[i].attestations])
    \o m.supplements

\* What strings.Fields makes of a name in a line.
Fields(name) == IF name \in DOMAIN Blanks THEN Blanks[name] ELSE <<name>>

\* A line has to be a digest and one name.
Legible(c) == c[1] = "checksums" /\ \A n \in DOMAIN c[2] : Len(Fields(n)) = 1

\* The lines under the names they are read under, which have lost the whitespace
\* around them.  Which of two lines that come to one name counts is left open.
AsRead(lines) ==
  LET name(n) == Fields(n)[1]
  IN IF DOMAIN lines \cap DOMAIN Blanks = {} THEN lines
     ELSE [p \in {name(n) : n \in DOMAIN lines} |-> lines[CHOOSE n \in DOMAIN lines : name(n) = p]]

\* SHA256SUMS as readChecksums sees it: a file cut to nothing has no lines.
LinesOf(c) ==
  IF Legible(c) THEN {AsRead(c[2])} ELSE IF c = Partial THEN {<<>>} ELSE {}

-----------------------------------------------------------------------------
(* Verify, file by file. *)

Answer(a) == au' = "idle" /\ answer' = a

\* What an audit has found out is gone when it has answered.
Forget ==
  /\ audit' = NoAudit /\ seen' = NoRelease /\ signer' = NoKey /\ sums' = <<>>
  /\ todo' = <<>> /\ named' = {} /\ read' = <<>> /\ problems' = {}

BeginAudit(a) ==
  /\ au = "idle" /\ audits < MaxAudits
  /\ audits' = audits + 1
  /\ IF IsManifest(At(dir, ManifestName))
     THEN /\ au' = "signature" /\ audit' = a
          /\ seen' = dir[ManifestName][2] /\ todo' = Listing(seen')
          /\ UNCHANGED <<signer, sums, named, read, problems, answer>>
     ELSE Answer(Error) /\ UNCHANGED auditLocals
  /\ UNCHANGED <<releaseVars, archive>>

CheckSignature ==
  /\ au = "signature" /\ au' = "checksums"
  /\ IF audit.key = NoKey THEN UNCHANGED <<signer, problems>>
     ELSE IF SignatureHolds(At(dir, SignatureName), audit.key, seen)
          THEN signer' = audit.key /\ UNCHANGED problems
          ELSE problems' = problems \cup {OfRelease} /\ UNCHANGED signer
  /\ UNCHANGED <<releaseVars, audit, seen, sums, todo, named, read, answer, audits, archive>>

ReadChecksums ==
  /\ au = "checksums"
  /\ \/ /\ ~Legible(At(dir, ChecksumsName))
        /\ Answer(Error) /\ Forget
     \/ /\ sums' \in LinesOf(At(dir, ChecksumsName))
        /\ au' = "files"
        /\ UNCHANGED <<audit, seen, signer, todo, named, read, problems, answer>>
  /\ UNCHANGED <<releaseVars, audits, archive>>

\* The next file of the manifest; the attestations of a binary that cannot be
\* read are passed over, and the binary may not answer in time.
CheckNext ==
  LET e == Head(todo)
      c == At(dir, e.path)
      passed == IF e.kind = "artifact" /\ c = Absent THEN Len(e.attestations) ELSE 0
  IN /\ au = "files" /\ todo # <<>>
     /\ todo' = SubSeq(todo, 2 + passed, Len(todo))
     /\ named' = named \cup {e.path, e.name}
     /\ read' = IF c = Absent THEN read ELSE With(read, e.path, c)
     /\ \E late \in {FALSE, Runnable(audit.mode, e)} :
          problems' = IF late \/ Faulty(audit.mode, e, c, sums, seen.release)
                      THEN problems \cup {Problem(e)} ELSE problems
     /\ UNCHANGED <<releaseVars, au, audit, seen, signer, sums, answer, audits, archive>>

\* inspectReleaseSignature reads the signature once more.
SignatureStatus(sig) ==
  CASE sig = Absent -> IF audit.key = NoKey THEN "unsigned" ELSE "invalid"
    [] sig[1] # "signature" -> "invalid"
    [] audit.key = NoKey -> "present_unverified"
    [] OTHER -> IF signer = audit.key THEN "verified" ELSE "invalid"

\* A line of SHA256SUMS that the manifest does not know.
Unmanifested == DOMAIN sums \ named # {}

EndAudit ==
  /\ au = "files" /\ todo = <<>>
  /\ LET found == problems \cup (IF Unmanifested THEN {OfRelease} ELSE {})
     IN Answer([how |-> "done", audit |-> audit, manifest |-> seen, signer |-> signer,
                named |-> named, read |-> read, problems |-> found,
                status |-> IF audit.mode = "verify" THEN "unsigned"
                           ELSE SignatureStatus(At(dir, SignatureName))])
  /\ Forget
  /\ UNCHANGED <<releaseVars, audits, archive>>

Audit == (\E a \in Audits : BeginAudit(a)) \/ CheckSignature \/ ReadChecksums \/ CheckNext \/ EndAudit

-----------------------------------------------------------------------------
(* Report and the exit status. *)

Valid(a) == a.problems = {} /\ a.status # "invalid"

\* matchingReleaseBaseline
Accepted(p, baseline) == \E b \in baseline : b.rule = p.rule /\ b.field \in {AnyField, p.field}

\* Variant for mutation: one accepted finding will do.
SomeSuppressed(a) == \E p \in a.problems : Accepted(p, a.audit.baseline)

\* sarifResultsAllSuppressed
AllSuppressed(a) ==
  a.problems # {} /\ \A p \in a.problems : Accepted(p, a.audit.baseline)

ExitsZero(a) ==
  /\ a.how = "done"
  /\ IF a.audit.mode = "verify" THEN a.problems = {} ELSE Valid(a) \/ AllSuppressed(a)

-----------------------------------------------------------------------------
(* Inspect of a directory nobody is changing, and Diff. *)

Inspectable(d) ==
  IsManifest(At(d, ManifestName)) /\ Legible(At(d, ChecksumsName))

\* The entries Verify comes to: the attestations of a binary that is not there are
\* passed over.
Visited(m, d) ==
  LET missing == {a \in ToSet(m.artifacts) : a.path \notin DOMAIN d}
  IN Entries(m.artifacts, m.supplements) \ UNION {ToSet(a.attestations) : a \in missing}

Problems(mode, d, key) ==
  LET m     == d[ManifestName][2]
      lines == AsRead(d[ChecksumsName][2])
      met   == Visited(m, d)
      known == {e.path : e \in met} \cup {e.name : e \in met}
  IN {Problem(e) : e \in {f \in met : Faulty(mode, f, At(d, f.path), lines, m.release)}}
     \cup (IF \/ key # NoKey /\ ~SignatureHolds(At(d, SignatureName), key, m)
            \/ DOMAIN lines \ known # {} THEN {OfRelease} ELSE {})

Fingerprint(d) ==
  LET sig == At(d, SignatureName) IN IF sig[1] = "signature" THEN sig[2].key ELSE NoKey

\* Variant for mutation: digests are not compared.
NamesOnly(s) == [n \in {s[i].name : i \in DOMAIN s} |-> n]

\* Of two entries of one name the last is compared.
ByName(s) == [n \in {s[i].name : i \in DOMAIN s} |-> s[SelectLastInSeq(s, LAMBDA e : e.name = n)].sum]

\* Names in only one of the two, or with another digest.
Differing(f, g) ==
  {n \in DOMAIN f \cup DOMAIN g : n \notin DOMAIN f \cap DOMAIN g \/ f[n] # g[n]}

Entry(category, name) == [rule |-> category, field |-> name]

\* Diff: what it reports, by category and name.
Drift(from, to, key) ==
  LET a == from[ManifestName][2]
      b == to[ManifestName][2]
  IN {Entry("metadata", x) : x \in {y \in {"version", "commit"} : a.release[y] # b.release[y]}}
     \cup {Entry("artifacts", n) : n \in Differing(ByName(a.artifacts), ByName(b.artifacts))}
     \cup {Entry("supplements", n) : n \in Differing(ByName(a.supplements), ByName(b.supplements))}
     \cup (IF Fingerprint(from) # Fingerprint(to) THEN {Entry("signatures", "key")} ELSE {})
     \cup {Entry("problems", "from") : x \in Problems("inspect", from, key)}
     \cup {Entry("problems", "to") : x \in Problems("inspect", to, key)}

\* Exit status 0: nothing is reported, or each entry of it has been accepted.
DiffExitsZero(from, to, key, baseline) ==
  /\ Inspectable(from) /\ Inspectable(to)
  /\ \A x \in Drift(from, to, key) : Accepted(x, baseline)

-----------------------------------------------------------------------------
(* Beside it. *)

\* The release is downloaded, or an earlier file of it is put back.
Download ==
  /\ pk = "idle" /\ packaged = "ok" /\ archive = <<>> /\ archive' = dir
  /\ UNCHANGED <<releaseVars, auditVars>>

PutBack ==
  \E n \in DOMAIN archive :
    /\ Change(Put(n, archive[n]))
    /\ forged' = IF n = ManifestName /\ IsManifest(archive[n]) /\ archive[n][2] \notin made
                 THEN forged \cup {pk} ELSE forged

Elsewhere == (Package \/ Edit \/ Forge \/ PutBack) /\ UNCHANGED <<auditVars, archive>>

ReleaseNext == Elsewhere \/ Audit \/ Download

ReleaseSpec == AuditInit /\ [][ReleaseNext]_allVars

-----------------------------------------------------------------------------
(* Properties. *)

\* Whatever calls of Package have done to the directory, died over or are doing
\* while it is read, and whatever others changed in it: an audit without
\* problems has read the manifest of one call and, under every name in it, the
\* bytes that call listed.  Where somebody else rewrote the manifest it takes a
\* key to know, and that nobody did so under a call of Package, which would sign
\* it (publication_verify.go:22-221).
AcceptedReleaseIsOnePackage ==
  answer.how = "done" /\ answer.problems = {}
  /\ (forged = {} \/ (answer.signer # NoKey /\ forged \subseteq {"idle"})) =>
    /\ answer.manifest \in made
    /\ \A e \in Entries(answer.manifest.artifacts, answer.manifest.supplements) :
         e.path \in DOMAIN answer.read /\ answer.read[e.path] = e.sum

\* The files Package writes last may take the name of a supplemental file.
Overwrites(o) ==
  \E i \in DOMAIN o.supplements :
    o.supplements[i].name \in {ManifestName, ChecksumsName, SignatureName}

\* A candidate for this host is the binary of the release it is packaged for.
RightCandidate(o) ==
  o.prebuilt = NotPrebuilt \/ Host \notin ToSet(o.targets)
  \/ o.prebuilt[Host] = Binary(o.release, Host)

\* No file that a call may list has whitespace in its name.
PlainNames(o) ==
  LET plain(name) == name \notin DOMAIN Blanks
  IN /\ \A t \in ToSet(o.targets) :
          LET binary == ArtifactName(o.release, t)
          IN plain(binary) /\ \A a \in ToSet(o.attestations) : plain(binary \o a.name)
     /\ \A s \in ToSet(o.supplements) : plain(s.name)

\* A release Package has reported done verifies with its key as long as nobody
\* changes it and its binary answers in time, whatever the directory held before:
\* leftovers of earlier calls do no harm.  A release that lists a name with
\* whitespace is done like any other and never verifies, because its line of
\* SHA256SUMS is not read back as it was written (publication_package.go:220-335,
\* publication_verify.go:476-497).
QuietReleaseVerifies ==
  /\ pk = "idle" /\ packaged = "ok" /\ ~disturbed
  /\ ~Overwrites(opt) /\ RightCandidate(opt) /\ PlainNames(opt)
  => Inspectable(dir) /\ Problems("verify", dir, opt.key) = {}

\* Accepting a finding lets nothing else through: after exit status 0, each
\* listed file was read as listed or a finding about it, or about the binary it
\* belongs to, is accepted, and so for the signature (cli_release.go:196-307).
ZeroExitIsAccepted ==
  ExitsZero(answer) =>
    LET ok(e) == \/ Accepted(Problem(e), answer.audit.baseline)
                 \/ e.path \in DOMAIN answer.read /\ answer.read[e.path] = e.sum
    IN /\ \A i \in DOMAIN answer.manifest.artifacts :
            LET a == answer.manifest.artifacts[i]
            IN ok(a) /\ (a.path \in DOMAIN answer.read => \A e \in ToSet(a.attestations) : ok(e))
       /\ \A e \in ToSet(answer.manifest.supplements) : ok(e)
       /\ \/ answer.signer = answer.audit.key
          \/ Accepted(OfRelease, answer.audit.baseline)

\* Where Diff exits with 0, the two directories list the same binaries and
\* supplemental files, byte for byte, except for those whose drift was accepted by
\* name; accepting one lets no other through, unless it is that a release has
\* problems (publication_report.go:161-215).
DriftIsAccepted ==
  archive # <<>> =>
    \A baseline \in DiffBaselines :
      DiffExitsZero(archive, dir, NoKey, baseline)
      /\ (\A side \in {"from", "to"} : ~Accepted(Entry("problems", side), baseline)) =>
        LET listed(d, part) == {e.path : e \in ToSet(d[ManifestName][2][part])}
        IN \A part \in {"artifacts", "supplements"} :
             \A n \in listed(archive, part) \cup listed(dir, part) :
               \/ n \in listed(archive, part) \cap listed(dir, part) /\ archive[n] = dir[n]
               \/ Accepted(Entry(part, n), baseline)

=============================================================================
