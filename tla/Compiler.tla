------------------------------ MODULE Compiler ------------------------------
(***************************************************************************)
(* What compile makes of a brief and lint says of a brief or a contract    *)
(* (internal/contract/compile.go, authoring.go, lint.go).  Both are pure;  *)
(* an error is a diagnostic, as diagnosticForError makes one of it, and    *)
(* line 0 is the one of an error that names no line.                       *)
(***************************************************************************)
EXTENDS Brief, Policy

CONSTANTS
  Source,       (* the path of the brief in the workspace                    *)
  Goal,         (* the objective                                             *)
  Report,       (* demo-output/report.txt                                    *)
  Requested, Verified, Reviewed,   (* obligations of the built-in contract   *)
  PublicIds,    (* the ids validatePublicID accepts                          *)
  Clean         (* from paths as written to their normal form, which is not  *)
                (* in Paths when it leaves the workspace                     *)

ASSUME CompilerAssumption ==
  /\ {Source, Report} \subseteq Paths /\ Goal \in Objectives
  /\ {Requested, Verified, Reviewed} \subseteq Obligations

Values(items)   == [i \in DOMAIN items |-> items[i].value]
Cleaned(texts)  == [i \in DOMAIN texts |-> Clean[texts[i]]]
Within(texts)   == Range(Cleaned(texts)) \subseteq Paths
Unique(s)       == LET add(r, v) == IF Contains(r, v) THEN r ELSE Append(r, v)
                   IN FoldLeft(add, <<>>, s)
Ids(entries)    == {entries[i].id : i \in DOMAIN entries}
Joined(n, f(_)) == FlattenSeq([i \in 1..n |-> f(i)])
First(s)        == IF s = <<>> THEN <<>> ELSE <<Head(s)>>

-----------------------------------------------------------------------------
(* Structured briefs. *)

\* structuredWorkspaceWrites: --write, else # Writes, else what the tasks write.
WorkspaceWrites(p, overrides) ==
  IF overrides # <<>> THEN overrides
  ELSE IF p.writes # <<>> THEN p.writes
  ELSE Joined(Len(p.tasks), LAMBDA t : Values(p.tasks[t].writes))

DuplicateOf(entries, i) == \E j \in 1..(i - 1) : entries[j].id = entries[i].id

EntryProblem(entries, i, invalid, duplicate) ==
  IF entries[i].id \notin PublicIds THEN <<Diag(invalid, entries[i].line)>>
  ELSE IF DuplicateOf(entries, i) THEN <<Diag(duplicate, entries[i].line)>>
  ELSE <<>>

EntryProblems(entries, invalid, duplicate) ==
  Joined(Len(entries), LAMBDA i : EntryProblem(entries, i, invalid, duplicate))

ObligationProblems(p) ==
  EntryProblems(p.obligations, "STRUCTURED_OBLIGATION_ID_INVALID", "STRUCTURED_OBLIGATION_ID_DUPLICATE")

TaskProblems(p) ==
  EntryProblems(p.tasks, "STRUCTURED_TASK_ID_INVALID", "STRUCTURED_TASK_ID_DUPLICATE")

Unknown(items, known, code) ==
  Joined(Len(items), LAMBDA i :
    IF items[i].value \in known THEN <<>> ELSE <<Diag(code, items[i].line)>>)

\* Variant for mutation: only what leaves the workspace is refused.
WritesInside(t, declared) ==
  Joined(Len(t.writes), LAMBDA i :
    IF Clean[t.writes[i].value] \in Paths THEN <<>>
    ELSE <<Diag("STRUCTURED_TASK_WRITE_INVALID", t.writes[i].line)>>)

\* A task may write what is written the same way in normal form.
WriteProblems(t, declared) ==
  LET problem(item) ==
        IF Clean[item.value] \notin Paths THEN <<Diag("STRUCTURED_TASK_WRITE_INVALID", item.line)>>
        ELSE IF Clean[item.value] \notin declared
             THEN <<Diag("STRUCTURED_TASK_WRITE_UNDECLARED", item.line)>>
        ELSE <<>>
  IN Joined(Len(t.writes), LAMBDA i : problem(t.writes[i]))

ReferenceProblems(p, declared, tasks, obligations) ==
  Joined(Len(p.tasks), LAMBDA t :
    Unknown(p.tasks[t].depends_on, tasks, "STRUCTURED_TASK_DEP_UNKNOWN")
      \o Unknown(p.tasks[t].obligations, obligations, "STRUCTURED_TASK_OBLIGATION_UNKNOWN")
      \o WriteProblems(p.tasks[t], declared))

\* validateStructuredAuthoring stops at the first problem, so that every id is
\* known by the time references are looked at.
AuthoringError(p, declared) ==
  IF ObligationProblems(p) # <<>> THEN First(ObligationProblems(p))
  ELSE IF TaskProblems(p) # <<>> THEN First(TaskProblems(p))
  ELSE First(ReferenceProblems(p, declared, Ids(p.tasks), Ids(p.obligations)))

\* structuredTasks: writes before reads, each in its normal form.
Actions(type, texts) == [i \in DOMAIN texts |-> [type |-> type, res |-> Clean[texts[i]]]]

TaskOf(p, t) ==
  [kind    |-> t.kind,
   deps    |-> {u \in DOMAIN p.tasks : p.tasks[u].id \in Range(Values(t.depends_on))},
   effects |-> Actions("file.write", Values(t.writes)) \o Actions("file.read", Values(t.reads)),
   claims  |-> Range(Values(t.obligations))]

StructuredContract(p, overrides) ==
  LET required == {p.obligations[i].id : i \in {j \in DOMAIN p.obligations : p.obligations[j].required}}
  IN [objective   |-> Goal,
      tasks       |-> [t \in DOMAIN p.tasks |-> TaskOf(p, p.tasks[t])],
      obligations |-> Ids(p.obligations), required |-> required, evaluator |-> required,
      reads       |-> Unique(<<Source>> \o Cleaned(p.reads)),
      writes      |-> Range(Cleaned(WorkspaceWrites(p, overrides))),
      approvals   |-> <<>>]

Misfits(p) ==
  {t \in DOMAIN p.tasks : p.tasks[t].kind \notin Kinds \/ p.tasks[t].timeout = "-1"}

\* What is left for Validate to refuse, in its order.
ValidateError(p, c) ==
  IF c.required = {} THEN <<Diag("CONTRACT_REQUIRED_OBLIGATION_MISSING", 0)>>
  ELSE IF Misfits(p) # {} THEN
         IF p.tasks[Min(Misfits(p))].kind \notin Kinds
         THEN <<Diag("CONTRACT_TASK_KIND_UNSUPPORTED", 0)>>
         ELSE <<Diag("CONTRACT_TASK_TIMEOUT_INVALID", 0)>>
  ELSE IF HasCycle(c) THEN <<Diag("CONTRACT_TASK_GRAPH_CYCLE", 0)>>
  ELSE <<>>

\* buildStructuredContract; contractDiagnosticCode has no code for a bad read.
BuildError(p, overrides) ==
  LET writes == WorkspaceWrites(p, overrides) IN
  IF ~Within(p.reads) THEN <<Diag("CONTRACT_INVALID", 0)>>
  ELSE IF ~Within(writes) THEN <<Diag("WORKSPACE_WRITE_INVALID", 0)>>
  ELSE IF AuthoringError(p, Range(Cleaned(writes))) # <<>>
       THEN AuthoringError(p, Range(Cleaned(writes)))
  ELSE IF \E t \in DOMAIN p.tasks : ~Within(Values(p.tasks[t].reads))
       THEN <<Diag("CONTRACT_SIDE_EFFECT_RESOURCE_INVALID", 0)>>
  ELSE ValidateError(p, StructuredContract(p, overrides))

-----------------------------------------------------------------------------
(* Other briefs become the built-in contract. *)

PlainWrites(overrides) == IF overrides = <<>> THEN <<Report>> ELSE Cleaned(overrides)

PlainTask(kind, deps, claim, effects) ==
  [kind |-> kind, deps |-> deps, effects |-> effects, claims |-> {claim}]

PlainContract(overrides) ==
  LET all == {Requested, Verified, Reviewed}
      writes == PlainWrites(overrides)
  IN [objective   |-> Goal,
      tasks       |-> <<PlainTask("scripted", {}, Requested,
                          [i \in DOMAIN writes |-> [type |-> "file.write", res |-> writes[i]]]),
                        PlainTask("verify", {1}, Verified, <<>>),
                        PlainTask("review", {2}, Reviewed, <<>>)>>,
      obligations |-> all, required |-> all, evaluator |-> all,
      reads       |-> <<Source>>, writes |-> Range(writes), approvals |-> <<>>]

PlainError(overrides) ==
  IF Within(overrides) THEN <<>> ELSE <<Diag("WORKSPACE_WRITE_INVALID", 0)>>

-----------------------------------------------------------------------------
(* CompileBriefWithOptions, and the schema check of runCompile. *)

CompileError(brief, overrides) ==
  LET p == Parse(brief) IN
  IF brief = <<>> THEN <<Diag("BRIEF_REQUIRED", 0)>>
  ELSE IF p.error # <<>> THEN p.error
  ELSE IF IsStructured(p) THEN BuildError(p, overrides)
  ELSE PlainError(overrides)

CompileBrief(brief, overrides) ==
  LET p == Parse(brief) IN
  IF IsStructured(p) THEN StructuredContract(p, overrides) ELSE PlainContract(overrides)

\* The schema asks for the text of an obligation, which Validate does not.
RefusedBySchema(brief) ==
  LET p == Parse(brief)
  IN IsStructured(p) /\ \E i \in DOMAIN p.obligations : ~p.obligations[i].text

-----------------------------------------------------------------------------
(* lint *)

IdsAccepted(entries) == Ids(entries) \cap PublicIds

\* Variant for mutation: the entries are looked at after what refers to them.
LintReferencesFirst(p, declared) ==
  ReferenceProblems(p, declared, IdsAccepted(p.tasks), IdsAccepted(p.obligations))
    \o ObligationProblems(p) \o TaskProblems(p)

\* lintStructuredAuthoringDiagnostics goes on, without the ids it refused.
LintAuthoring(p, declared) ==
  ObligationProblems(p) \o TaskProblems(p)
    \o ReferenceProblems(p, declared, IdsAccepted(p.tasks), IdsAccepted(p.obligations))

LintStructured(p, overrides) ==
  LET writes == WorkspaceWrites(p, overrides)
      found  == (IF Within(p.reads) THEN <<>> ELSE <<Diag("CONTRACT_INVALID", 0)>>)
                  \o (IF Within(writes) THEN LintAuthoring(p, Range(Cleaned(writes)))
                      ELSE <<Diag("WORKSPACE_WRITE_INVALID", 0)>>)
  IN IF found # <<>> THEN found ELSE BuildError(p, overrides)

LintBrief(brief, overrides) ==
  LET p == Parse(brief) IN
  IF brief # <<>> /\ p.error = <<>> /\ IsStructured(p) THEN LintStructured(p, overrides)
  ELSE CompileError(brief, overrides)

\* lintContractDiagnostics, as the set of its codes.  An obligation unknown to
\* the evaluator has the code of one unknown to a task: contractDiagnosticCode
\* looks at the wording, and finds "unknown obligation" first.
LintContract(c) ==
  LET tickets == DOMAIN c.approvals
      bad(i) == \/ c.approvals[i].expires = Garbled
                \/ ~Declares(c, c.approvals[i].task, c.approvals[i].effect)
                \/ \E j \in 1..(i - 1) : c.approvals[j].id = c.approvals[i].id
      holds(code) ==
        CASE code = "CONTRACT_REQUIRED_OBLIGATION_MISSING" -> c.required = {}
          [] code = "CONTRACT_TASK_OBLIGATION_UNKNOWN" ->
               \/ \E t \in TaskIds(c) : ~(c.tasks[t].claims \subseteq c.obligations)
               \/ ~(c.evaluator \subseteq c.obligations)
          [] code = "CONTRACT_INVALID" -> c.tasks = <<>>
          [] code = "CONTRACT_APPROVAL_INVALID" -> \E i \in tickets : bad(i)
          [] code = "CONTRACT_TASK_DEPENDENCY_UNKNOWN" ->
               \E t \in TaskIds(c) : ~(Deps(c, t) \subseteq TaskIds(c))
          [] code = "CONTRACT_TASK_GRAPH_CYCLE" -> HasCycle(c)
          [] code = "CONTRACT_EVALUATOR_REQUIRED_OBLIGATION_MISSING" ->
               ~(c.required \subseteq c.evaluator)
  IN {code \in {"CONTRACT_REQUIRED_OBLIGATION_MISSING", "CONTRACT_TASK_OBLIGATION_UNKNOWN",
                "CONTRACT_INVALID", "CONTRACT_APPROVAL_INVALID",
                "CONTRACT_TASK_DEPENDENCY_UNKNOWN", "CONTRACT_TASK_GRAPH_CYCLE",
                "CONTRACT_EVALUATOR_REQUIRED_OBLIGATION_MISSING"} : holds(code)}

\* matchingSARIFBaselineEntry: a rule, and the line if the entry names one.
Suppressed(d, accepted) == \E e \in accepted : e.code = d.code /\ e.line \in {0, d.line}

\* Variant for mutation: one accepted diagnostic is enough.
SomeAccepted(found, accepted) == \E i \in DOMAIN found : Suppressed(found[i], accepted)

\* LintDiagnosticsAllSuppressed
AllAccepted(found, accepted) ==
  found # <<>> /\ \A i \in DOMAIN found : Suppressed(found[i], accepted)

ExitsZero(found, accepted) == found = <<>> \/ AllAccepted(found, accepted)
=============================================================================
