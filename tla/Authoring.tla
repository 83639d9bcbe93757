----------------------------- MODULE Authoring ------------------------------
(***************************************************************************)
(* A brief on its way to a contract: an author edits it line by line,      *)
(* lints it, takes what lint says into a baseline, compiles it and edits   *)
(* the contract by hand (the compile and lint commands of                  *)
(* internal/cli/cli.go around Compiler).                                   *)
(***************************************************************************)
EXTENDS Compiler

CONSTANTS
  Briefs,       (* what authors start from                     *)
  Lines,        (* lines they may put in                       *)
  Overrides,    (* values of --write                           *)
  Slips,        (* approval tickets somebody may paste         *)
  NoContract,   (* compile has not written one                 *)
  MaxChanges    (* bound: changes to the brief or the contract *)

\* Sequences, as the parser of lines and that of flags make them.
ASSUME AuthoringAssumption ==
  LET IsSequence(s) == s \in Seq(Range(s))
  IN /\ \A b \in Briefs : IsSequence(b) /\ \A i \in DOMAIN b : IsSequence(b[i].vals)
     /\ \A l \in Lines : IsSequence(l.vals)
     /\ \A o \in Overrides : IsSequence(o)

VARIABLES
  brief, overrides,
  baseline,     \* the accepted entries: [code, line], line 0 for any
  written,      \* the contract compile has written
  changes

authoringVars == <<brief, overrides, baseline, written, changes>>

AuthoringInit ==
  /\ brief \in Briefs /\ overrides \in Overrides
  /\ baseline = {} /\ written = NoContract /\ changes = 0

Lint == LintBrief(brief, overrides)

Change == changes < MaxChanges /\ changes' = changes + 1

\* One line taken out or put in.
EditBrief ==
  /\ Change /\ written = NoContract
  /\ \/ \E i \in DOMAIN brief : brief' = RemoveAt(brief, i)
     \/ \E i \in 1..(Len(brief) + 1), l \in Lines : brief' = InsertAt(brief, i, l)
  /\ UNCHANGED <<overrides, baseline, written>>

\* Somebody accepts what lint says now, each by its rule and line.
Accept ==
  /\ baseline = {} /\ Lint # <<>> /\ baseline' = Range(Lint)
  /\ UNCHANGED <<brief, overrides, written, changes>>

\* runCompile
Compile ==
  /\ CompileError(brief, overrides) = <<>> /\ ~RefusedBySchema(brief)
  /\ written = NoContract
  /\ written' = CompileBrief(brief, overrides)
  /\ UNCHANGED <<brief, overrides, baseline, changes>>

\* One edit of the contract by hand.
WithDependency(c) ==
  {[c EXCEPT !.tasks[t].deps = @ \cup {d}] : t \in TaskIds(c), d \in 1..(Len(c.tasks) + 1)}

WithClaim(c) ==
  {[c EXCEPT !.tasks[t].claims = @ \cup {o}] : t \in TaskIds(c), o \in Obligations}

Edited(c) ==
  {[c EXCEPT !.obligations = @ \ {o}, !.required = @ \ {o}] : o \in c.obligations}
    \cup {[c EXCEPT !.required = @ \ {o}] : o \in c.required}
    \cup {[c EXCEPT !.evaluator = @ \ {o}] : o \in c.evaluator}
    \cup WithDependency(c) \cup WithClaim(c)
    \cup {[c EXCEPT !.tasks = Front(@)] : n \in {1} \cap TaskIds(c)}
    \cup {[c EXCEPT !.approvals = Append(@, k)] : k \in Slips}

EditContract ==
  /\ written # NoContract /\ Change
  /\ written' \in Edited(written)
  /\ UNCHANGED <<brief, overrides, baseline>>

AuthoringNext == EditBrief \/ Accept \/ Compile \/ EditContract

AuthoringSpec == AuthoringInit /\ [][AuthoringNext]_authoringVars

-----------------------------------------------------------------------------
(* Properties. *)

\* lint and compile are two implementations of the same rules and agree on
\* every brief: lint reports first the error compile stops at, and reports
\* nothing just when compile succeeds or only the schema of contracts refuses
\* an obligation without a text (lint.go:207-343, authoring.go:264-314).
LintForetellsCompile ==
  /\ First(Lint) = CompileError(brief, overrides)
  /\ Lint = <<>> => Valid(CompileBrief(brief, overrides))

\* Strict policy allows every write of a contract compile has written, whether
\* it was declared by --write, under # Writes or by the tasks alone
\* (authoring.go:214-225, 294-312, evaluator.go:101-121, REFERENCE.md:410-411).
DeclaredWritesAreAllowed ==
  written # NoContract =>
    \A t \in TaskIds(written) : \A n \in DOMAIN EffectsOf(written, t) :
      EffectsOf(written, t)[n].type = "file.write" =>
        EvaluateAction(written, t, EffectsOf(written, t)[n], 0, {}).verdict = "allow"

\* The headings of a brief, in order.
Named(form) ==
  Joined(Len(brief), LAMBDA i : IF brief[i].form = form THEN <<brief[i].name>> ELSE <<>>)

\* A brief that names a task loses none of its tasks and obligations on the way
\* into the contract, and they keep their order (authoring.go:62-167, 227-262).
NothingIsDropped ==
  Lint = <<>> /\ Named("task") # <<>> =>
    LET p == Parse(brief)
        c == CompileBrief(brief, overrides)
    IN /\ [t \in DOMAIN p.tasks |-> p.tasks[t].id] = Named("task")
       /\ Len(c.tasks) = Len(Named("task"))
       /\ c.obligations = Range(Named("obligation"))
       /\ \A t \in TaskIds(c) : Deps(c, t) \subseteq TaskIds(c) \ {t}

\* A lint that exits with 0 over a baseline taken of an earlier draft hides
\* nothing that stops compile, but what was accepted under that rule and line
\* (cli.go:218-228, lint.go:163-205).
BaselineHidesWhatWasAccepted ==
  ExitsZero(Lint, baseline) =>
    \A i \in DOMAIN CompileError(brief, overrides) :
      Suppressed(CompileError(brief, overrides)[i], baseline)

\* lint and run agree on a contract, however it was edited: lint has something
\* to say just when Validate refuses it (lint.go:345-494, validate.go:31-213).
LintAgreesWithValidate ==
  written # NoContract => (LintContract(written) = {} <=> Valid(written))
=============================================================================
