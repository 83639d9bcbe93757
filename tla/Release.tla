------------------------------- MODULE Release -------------------------------
(***************************************************************************)
(* `covenant release package` (internal/release): binaries, attestations   *)
(* and supplemental files are put into a release directory one after the   *)
(* other, then manifest.json, SHA256SUMS and release-signature.json.  The  *)
(* directory may hold an earlier release, and files in it may change.      *)
(*                                                                         *)
(* A content is <<tag, value>>; a digest is the content it was taken of.   *)
(* A file name is a sequence: <<version, target>> is a binary's, and an    *)
(* attestation's is its binary's followed by its own.                      *)
(***************************************************************************)
EXTENDS Integers, SequencesExt

CONSTANTS
  Options,      (* what Package can be called with                           *)
  NoKey,        (* no --sign-key, no --public-key                            *)
  InPlace,      (* a file that is given as it lies in the directory               *)
  NotPrebuilt,  (* no --prebuilt                                             *)
  MaxPackages,  (* bound: calls of Package                                   *)
  MaxEdits      (* bound: changes of the directory by others                 *)

ASSUME PackageBounds == MaxPackages \in Nat /\ MaxEdits \in Nat
ASSUME TargetsGiven == \A o \in Options : o.targets # <<>>

ManifestName  == <<"manifest.json">>
ChecksumsName == <<"SHA256SUMS">>
SignatureName == <<"release-signature.json">>

Absent  == <<"absent">>
Partial == <<"partial">>   \* a write that was cut off
Void    == <<"void">>      \* an empty file
Other   == <<"other">>     \* bytes that are none of the others

\* What is a list in a call, and that a file which is given is there.  Nobody gives a
\* manifest or a signature as a supplemental file of that name: with a call that dies
\* over it, that would be a way to forge one.
ASSUME CallsAssumption ==
  \A o \in Options :
    LET IsSequence(s) == s \in Seq(ToSet(s))
    IN /\ IsSequence(o.targets) /\ IsSequence(o.attestations) /\ IsSequence(o.supplements)
       /\ \A a \in ToSet(o.attestations) : IsSequence(a.name) /\ a.content # Absent
       /\ \A s \in ToSet(o.supplements) :
            /\ s.kind \in {"sbom", "provenance"} /\ s.content # Absent
            /\ s.name \in {ManifestName, SignatureName} /\ s.content # InPlace =>
                 s.content[1] \notin {"manifest", "signature"}
       /\ o.prebuilt # NotPrebuilt => \A t \in DOMAIN o.prebuilt : o.prebuilt[t] # Absent

Binary(release, target) == <<"binary", [release |-> release, target |-> target]>>
Data(d)        == <<"data", d>>
AsManifest(m)  == <<"manifest", m>>
AsChecksums(s) == <<"checksums", s>>
AsSignature(key, m) == <<"signature", [key |-> key, manifest |-> m]>>

IsManifest(c) == c[1] = "manifest"

VARIABLES
  dir,        \* the release directory: file name -> content
  pk,         \* where Package is
  opt,        \* its options
  artifacts, supplements,  \* what it has put into the directory so far
  attached,   \* how many of opt.attestations it has attached
  packaged,   \* how the last call ended
  packages, edits,
  made,       \* history: every manifest Package has written
  disturbed,  \* history: the directory was changed since the last call began
  forged      \* history: where Package was when somebody else put a manifest there
              \* that none of its calls has written

packageVars == <<pk, opt, artifacts, supplements, attached, packaged, packages, made>>
othersVars  == <<edits, disturbed, forged>>
releaseVars == <<dir, packageVars, othersVars>>

At(d, name) == IF name \in DOMAIN d THEN d[name] ELSE Absent
With(d, name, c) == [n \in DOMAIN d \cup {name} |-> IF n = name THEN c ELSE d[n]]
Put(name, c) == With(dir, name, c)

ReleaseInit ==
  /\ dir = <<>>
  /\ pk = "idle" /\ opt = CHOOSE o \in Options : TRUE
  /\ artifacts = <<>> /\ supplements = <<>> /\ attached = 0
  /\ packaged = "none" /\ packages = 0 /\ made = {}
  /\ edits = 0 /\ disturbed = FALSE /\ forged = {}

-----------------------------------------------------------------------------
(* What a manifest lists. *)

\* artifactName
ArtifactName(release, target) == <<release.version, target>>

Artifact(name, target, digest) ==
  [kind |-> "artifact", name |-> name, path |-> name, target |-> target,
   sum |-> digest, attestations |-> <<>>]

Attestation(name, path, digest) ==
  [kind |-> "attestation", name |-> name, path |-> path, sum |-> digest]

Supplemental(kind, name, digest) ==
  [kind |-> kind, name |-> name, path |-> name, sum |-> digest]

Manifest(release, arts, sups) ==
  [release |-> release, artifacts |-> arts, supplements |-> sups]

AttestationsOf(arts) == FlattenSeq([i \in DOMAIN arts |-> arts[i].attestations])

\* Everything with a line in SHA256SUMS.
Entries(arts, sups) == ToSet(arts) \cup ToSet(AttestationsOf(arts)) \cup ToSet(sups)

\* Variant for mutation: attestations get no line.
BareChecksums(arts, sups) ==
  LET listed == ToSet(arts) \cup ToSet(sups)
  IN [p \in {e.path : e \in listed} |-> (CHOOSE e \in listed : e.path = p).sum]

\* writeChecksums
Checksums(arts, sups) ==
  LET listed == Entries(arts, sups)
  IN [p \in {e.path : e \in listed} |-> (CHOOSE e \in listed : e.path = p).sum]

\* schema.ValidateValue on the manifest: a listed file has at least one byte.
ManifestValid(m) == \A e \in Entries(m.artifacts, m.supplements) : e.sum # Void

\* The names given out so far: occupiedNames.
Occupied == {e.path : e \in Entries(artifacts, supplements)}

-----------------------------------------------------------------------------
(* Package. *)

\* What Package has put together is gone when it returns.
End(how) ==
  /\ pk' = "idle" /\ packaged' = how
  /\ artifacts' = <<>> /\ supplements' = <<>> /\ attached' = 0

Refuse == End("failed") /\ UNCHANGED dir

\* A file written by os.WriteFile or the like, and digested where it is listed:
\* one step, so nobody changes the file before its digest is taken.  When that
\* fails, or the process is killed, the file is the old one, cut off, or whole.
Write(name, c, goOn) ==
  \/ dir' = Put(name, c) /\ goOn /\ UNCHANGED packaged
  \/ /\ dir' \in {dir, Put(name, Partial), Put(name, c)}
     /\ End("failed")

\* What is given for a file: new bytes, or those that lie in the directory, which
\* are not written again.
Given(name, content) == IF content = InPlace THEN At(dir, name) ELSE content

Place(name, content, goOn) ==
  \/ content # InPlace /\ Write(name, content, goOn)
  \/ content = InPlace /\ name \in DOMAIN dir /\ goOn /\ UNCHANGED <<dir, packaged>>

BeginPackage(o) ==
  /\ pk = "idle" /\ packages < MaxPackages
  /\ packages' = packages + 1 /\ opt' = o
  /\ disturbed' = FALSE
  /\ IF o.prebuilt # NotPrebuilt /\ Cardinality(DOMAIN o.prebuilt) # Len(o.targets)
     THEN End("failed")
     ELSE pk' = "build" /\ packaged' = "none" /\ UNCHANGED <<artifacts, supplements, attached>>
  /\ UNCHANGED <<dir, made, edits, forged>>

\* copyPrebuiltCandidate creates the file and never replaces one.
Candidate(name, target) ==
  IF target \in DOMAIN opt.prebuilt /\ name \notin DOMAIN dir
  THEN {opt.prebuilt[target]} ELSE {}

\* The binaries of one target: built by go build, or a candidate.
Binaries(name, target) ==
  IF opt.prebuilt = NotPrebuilt THEN {Binary(opt.release, target)} ELSE Candidate(name, target)

BuildNext ==
  LET target == opt.targets[Len(artifacts) + 1]
      name   == ArtifactName(opt.release, target)
  IN /\ pk = "build" /\ Len(artifacts) < Len(opt.targets)
     /\ \/ Refuse
        \/ name \notin Occupied /\ \E b \in Binaries(name, target) :
             Write(name, b, /\ artifacts' = Append(artifacts, Artifact(name, target, b))
                            /\ UNCHANGED <<pk, supplements, attached>>)
     /\ UNCHANGED <<opt, packages, made, othersVars>>

Built == pk = "build" /\ Len(artifacts) = Len(opt.targets)

\* matchAttestationSelector
Selects(selector, a) ==
  CASE selector.by = "target" -> selector.value = a.target
    [] selector.by \in {"name", "path"} -> selector.value = a.name
    [] OTHER -> selector.value \in {a.name, a.target}

AttachNext ==
  LET spec == opt.attestations[attached + 1]
      i    == SelectInSeq(artifacts, LAMBDA a : Selects(spec.selector, a))
      path == artifacts[i].name \o spec.name
      Recorded(c) == /\ artifacts' = [artifacts EXCEPT ![i].attestations =
                          Append(@, Attestation(spec.name, path, c))]
                     /\ attached' = attached + 1
                     /\ UNCHANGED <<pk, supplements>>
  IN /\ Built /\ attached < Len(opt.attestations)
     /\ \/ Refuse
        \/ i # 0 /\ path \notin Occupied /\ Place(path, spec.content, Recorded(Given(path, spec.content)))
     /\ UNCHANGED <<opt, packages, made, othersVars>>

Attached == Built /\ attached = Len(opt.attestations)

\* One more --sbom or --provenance.
SupplementNext ==
  LET s == opt.supplements[Len(supplements) + 1]
      Recorded(c) == /\ supplements' = Append(supplements, Supplemental(s.kind, s.name, c))
                     /\ UNCHANGED <<pk, artifacts, attached>>
  IN /\ Attached /\ Len(supplements) < Len(opt.supplements)
     /\ \/ Refuse
        \/ s.name \notin Occupied /\ Place(s.name, s.content, Recorded(Given(s.name, s.content)))
     /\ UNCHANGED <<opt, packages, made, othersVars>>

WriteManifest ==
  LET m == Manifest(opt.release, artifacts, supplements)
  IN /\ Attached /\ Len(supplements) = Len(opt.supplements)
     /\ \/ Refuse /\ UNCHANGED made
        \/ /\ ManifestValid(m)
           /\ made' = made \cup {m}
           /\ Write(ManifestName, AsManifest(m),
                    pk' = "checksums" /\ UNCHANGED <<artifacts, supplements, attached>>)
     /\ UNCHANGED <<opt, packages, othersVars>>

WriteChecksums ==
  /\ pk = "checksums"
  /\ Write(ChecksumsName, AsChecksums(Checksums(artifacts, supplements)),
           pk' = "sign" /\ UNCHANGED <<artifacts, supplements, attached>>)
  /\ UNCHANGED <<opt, packages, made, othersVars>>

\* signReleaseManifest is given the manifest as it is read back from the
\* directory, whatever that is by then.
Sign ==
  /\ pk = "sign" /\ opt.key # NoKey
  /\ \/ Refuse
     \/ At(dir, ManifestName) # Absent /\
          Write(SignatureName, AsSignature(opt.key, dir[ManifestName]),
                pk' = "signed" /\ UNCHANGED <<artifacts, supplements, attached>>)
  /\ UNCHANGED <<opt, packages, made, othersVars>>

EndPackage ==
  /\ pk = "signed" \/ (pk = "sign" /\ opt.key = NoKey)
  /\ End("ok")
  /\ UNCHANGED <<dir, opt, packages, made, othersVars>>

Package ==
  \/ \E o \in Options : BeginPackage(o)
  \/ BuildNext \/ AttachNext \/ SupplementNext
  \/ WriteManifest \/ WriteChecksums \/ Sign \/ EndPackage

-----------------------------------------------------------------------------
(* Others who change the directory. *)

Change(d) ==
  /\ edits < MaxEdits /\ edits' = edits + 1
  /\ d # dir /\ dir' = d /\ disturbed' = TRUE
  /\ UNCHANGED packageVars

Without(name) == [n \in DOMAIN dir \ {name} |-> dir[n]]

\* A file gets other bytes or is removed.
Edit ==
  /\ \E n \in DOMAIN dir : Change(Put(n, Other)) \/ Change(Without(n))
  /\ UNCHANGED forged

\* The manifest and SHA256SUMS are rewritten to agree with the files.
Redigested(e) == [e EXCEPT !.sum = At(dir, e.path)]

Forge ==
  /\ IsManifest(At(dir, ManifestName)) /\ forged' = forged \cup {pk}
  /\ LET m    == dir[ManifestName][2]
         arts == [i \in DOMAIN m.artifacts |->
                    [Redigested(m.artifacts[i]) EXCEPT !.attestations =
                       [j \in DOMAIN @ |-> Redigested(@[j])]]]
         sups == [i \in DOMAIN m.supplements |-> Redigested(m.supplements[i])]
     IN Change(With(Put(ChecksumsName, AsChecksums(Checksums(arts, sups))),
                    ManifestName, AsManifest(Manifest(m.release, arts, sups))))
=============================================================================
