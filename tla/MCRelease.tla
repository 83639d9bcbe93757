----------------------------- MODULE MCRelease -----------------------------
(* Releases of one or two binaries, small enough for TLC. *)
EXTENDS ReleaseAudit

CONSTANTS v1, c1, c2, d1, d2, t1, t2, key1, x1, x2

Of(commit, date) == [version |-> v1, commit |-> commit, date |-> date]
Attach(by, value, c) ==
  [selector |-> [by |-> by, value |-> value], name |-> <<"a1">>, content |-> c]
Supplement(kind, name, c) == [kind |-> kind, name |-> name, content |-> c]
Call(release, targets, prebuilt, attesting, added, key) ==
  [release |-> release, targets |-> targets, prebuilt |-> prebuilt,
   attestations |-> attesting, supplements |-> added, key |-> key]

\* two binaries, signed, with an attestation and an SBOM
Full == Call(Of(c1, d1), <<t2, t1>>, NotPrebuilt, <<Attach("target", t1, Data(x1))>>,
             <<Supplement("sbom", <<"s1">>, Data(x1))>>, key1)
\* the same version of another commit, with what lies in the directory
Later == Call(Of(c2, d1), <<t1>>, NotPrebuilt, <<Attach("path", <<v1, t1>>, InPlace)>>,
              <<Supplement("provenance", <<"s1">>, InPlace)>>, NoKey)
\* a candidate built before the release was dated, with another attestation
Candidates == Call(Of(c1, d2), <<t1>>, t1 :> Binary(Of(c1, d1), t1),
                   <<Attach("bare", <<v1, t1>>, Data(x2))>>, <<>>, NoKey)
\* a file named like one that Package writes itself
Named == Call(Of(c1, d1), <<t1>>, NotPrebuilt, <<>>,
              <<Supplement("sbom", ManifestName, Data(x1))>>, NoKey)
\* an empty file, one target twice, a selector that fits nothing
Empty == Call(Of(c1, d1), <<t1>>, NotPrebuilt, <<>>, <<Supplement("sbom", <<"s1">>, Void)>>, NoKey)
Twice == Call(Of(c1, d1), <<t1, t1>>, NotPrebuilt, <<>>, <<>>, NoKey)
Unfit == Call(Of(c1, d1), <<t1>>, NotPrebuilt, <<Attach("name", t1, Data(x1))>>, <<>>, NoKey)
\* one candidate for two targets
Short == Call(Of(c1, d1), <<t1, t2>>, t1 :> Binary(Of(c1, d1), t1), <<>>, <<>>, NoKey)
\* an SBOM with a blank in its name, or before it
Spaced   == Call(Of(c1, d1), <<t1>>, NotPrebuilt, <<>>,
                 <<Supplement("sbom", <<"s1", "s2">>, Data(x1))>>, NoKey)
Indented == Call(Of(c1, d1), <<t1>>, NotPrebuilt, <<>>,
                 <<Supplement("sbom", <<" ", "s1">>, Data(x1))>>, NoKey)
MCBlanks == (<<"s1", "s2">> :> <<<<"s1">>, <<"s2">>>>) @@ (<<" ", "s1">> :> <<<<"s1">>>>)

MCOptions == {Full, Later, Candidates, Named, Empty, Twice, Unfit, Short, Spaced, Indented}

Accept(rule, field) == [rule |-> rule, field |-> field]
MCAudits == {[mode |-> "verify", key |-> key1, baseline |-> {}],
             [mode |-> "report", key |-> NoKey,
              baseline |-> {Accept("sbom", <<"s1">>), Accept("attestation", AnyField)}]}
MCDiffBaselines ==
  {{}, {Accept("artifacts", <<v1, t1>>), Accept("metadata", AnyField), Accept("signatures", "key")}}

\* What comes of a name with whitespace is looked at where it stands: nobody
\* changes or downloads such a release.
Plainly == opt \in {Spaced, Indented} => edits' = edits /\ archive' = archive
=============================================================================
