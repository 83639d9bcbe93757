------------------------------- MODULE Brief --------------------------------
(***************************************************************************)
(* Briefs and their parser (internal/contract/authoring.go).               *)
(*                                                                         *)
(* A brief is a sequence of lines, blank ones left out:                    *)
(*   [form, name, vals]                                                    *)
(* "# name" is a section, "## Task: name" a task, "## Obligation: name" an *)
(* obligation, any other "## " a heading, "- name" a bullet,               *)
(* "name: vals" a field, and everything else text.                         *)
(* The objective and the adapter of a task are free text that nothing      *)
(* depends on; they are left out.                                          *)
(***************************************************************************)
EXTENDS Integers, SequencesExt

CONSTANT NoName   \* a heading that ends after the colon

Diag(code, line) == [code |-> code, line |-> line]

-----------------------------------------------------------------------------
(* parseStructuredBrief.  What is open is a sequence of at most one. *)

ListFields == {"depends_on", "obligations", "writes", "reads"}

Start == [section |-> "", list |-> "", reads |-> <<>>, writes |-> <<>>,
          obligations |-> <<>>, obligation |-> <<>>, tasks |-> <<>>, task |-> <<>>,
          error |-> <<>>]

Fail(p, code, n) == [p EXCEPT !.error = <<Diag(code, n)>>]

FinishTask(p) == [p EXCEPT !.tasks = @ \o p.task, !.task = <<>>]
FinishObligation(p) == [p EXCEPT !.obligations = @ \o p.obligation, !.obligation = <<>>]

AtHeading(p, n, l) ==
  CASE l.form = "section" ->
         [FinishObligation(FinishTask(p)) EXCEPT !.section = l.name, !.list = ""]
    [] l.form = "task" /\ p.section = "tasks" ->
         IF l.name = NoName THEN Fail(p, "STRUCTURED_TASK_ID_MISSING", n)
         ELSE [FinishTask(p) EXCEPT !.list = "", !.task =
                 <<[id |-> l.name, line |-> n, kind |-> "scripted", timeout |-> "30",
                    depends_on |-> <<>>, obligations |-> <<>>, writes |-> <<>>, reads |-> <<>>]>>]
    [] l.form = "obligation" /\ p.section = "obligations" ->
         IF l.name = NoName THEN Fail(p, "STRUCTURED_OBLIGATION_ID_MISSING", n)
         ELSE [FinishObligation(p) EXCEPT !.list = "", !.obligation =
                 <<[id |-> l.name, line |-> n, required |-> TRUE, text |-> FALSE]>>]
    [] OTHER -> Fail(p, "STRUCTURED_HEADING_UNSUPPORTED", n)

\* parseObligationLine; of the text only that there is some.
AtObligation(p, n, l) ==
  IF p.obligation = <<>> THEN Fail(p, "STRUCTURED_OBLIGATION_HEADING_REQUIRED", n)
  ELSE IF l.form # "field" THEN Fail(p, "STRUCTURED_OBLIGATION_LINE_INVALID", n)
  ELSE CASE l.name = "required" ->
              IF l.vals \in {<<"true">>, <<"false">>}
              THEN [p EXCEPT !.obligation[1].required = l.vals = <<"true">>]
              ELSE Fail(p, "STRUCTURED_OBLIGATION_REQUIRED_INVALID", n)
         [] l.name = "text" -> [p EXCEPT !.obligation[1].text = l.vals # <<>>]
         [] OTHER -> Fail(p, "STRUCTURED_OBLIGATION_FIELD_UNKNOWN", n)

\* appendTaskListValue, for each value of a line.
AddValues(p, field, values, n) ==
  [p EXCEPT !.task[1][field] =
     @ \o [i \in DOMAIN values |-> [value |-> values[i], line |-> n]]]

\* parseTaskLine; -1, 0 and 30 stand for the integers, other texts are none.
AtTask(p, n, l) ==
  IF p.task = <<>> THEN Fail(p, "STRUCTURED_TASK_HEADING_REQUIRED", n)
  ELSE IF l.form = "bullet" THEN
         IF p.list = "" THEN Fail(p, "STRUCTURED_TASK_LIST_FIELD_REQUIRED", n)
         ELSE AddValues(p, p.list, <<l.name>>, n)
  ELSE IF l.form # "field" THEN Fail(p, "STRUCTURED_TASK_LINE_INVALID", n)
  ELSE CASE l.name \in ListFields -> [AddValues(p, l.name, l.vals, n) EXCEPT !.list = l.name]
         [] l.name = "kind" ->
              [p EXCEPT !.list = "", !.task[1].kind =
                 IF l.vals = <<>> THEN "scripted" ELSE l.vals[1]]
         [] l.name = "timeout_seconds" ->
              IF l.vals \in {<<"-1">>, <<"0">>, <<"30">>}
              THEN [p EXCEPT !.list = "", !.task[1].timeout = l.vals[1]]
              ELSE Fail(p, "STRUCTURED_TASK_TIMEOUT_INVALID", n)
         [] OTHER -> Fail(p, "STRUCTURED_TASK_FIELD_UNKNOWN", n)

AtPath(p, n, l) ==
  IF l.form = "bullet" THEN [p EXCEPT ![p.section] = Append(@, l.name)]
  ELSE Fail(p, IF p.section = "reads" THEN "STRUCTURED_READ_BULLET_REQUIRED"
                                      ELSE "STRUCTURED_WRITE_BULLET_REQUIRED", n)

Headings == {"section", "task", "obligation", "heading"}

\* The first error ends the parse; lines of other sections are skipped.
Step(p, n, l) ==
  IF p.error # <<>> THEN p
  ELSE IF l.form \in Headings THEN AtHeading(p, n, l)
  ELSE CASE p.section \in {"reads", "writes"} -> AtPath(p, n, l)
         [] p.section = "obligations"        -> AtObligation(p, n, l)
         [] p.section = "tasks"              -> AtTask(p, n, l)
         [] OTHER                            -> p

\* Variant for mutation: what is open when the brief ends is dropped.
LeftOpen(p) == FinishObligation(p)

Finished(p) == FinishObligation(FinishTask(p))

Parse(brief) ==
  LET upTo[n \in 0..Len(brief)] ==
        IF n = 0 THEN Start ELSE Step(upTo[n - 1], n, brief[n])
  IN Finished(upTo[Len(brief)])

IsStructured(p) == p.tasks # <<>>
=============================================================================
