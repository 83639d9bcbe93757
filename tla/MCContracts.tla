---------------------------- MODULE MCContracts -----------------------------
(* What happens to a contract file: it is compiled from a brief, tickets are  *)
(* attached to it, and either command writes it with a digest beside it.      *)
(* Each is explored with the other two at rest.                               *)
EXTENDS Approvals, OutputPair, Authoring

CONSTANTS cmd1, v1, v2, k1, k2

\* One contract with a process and a claim, and the tickets made for them.
MCDraft ==
  [objective   |-> "goal",
   tasks       |-> <<[kind |-> "shell", deps |-> {}, claims |-> {"o1"},
                      effects |-> <<[type |-> "process.spawn", res |-> cmd1]>>],
                     [kind |-> "agent", deps |-> {1}, claims |-> {},
                      effects |-> <<[type |-> "claim.publish", res |-> FullRSI]>>]>>,
   obligations |-> {"o1"}, required |-> {"o1"}, evaluator |-> {"o1"},
   reads |-> <<>>, writes |-> {}, approvals |-> <<>>]

Section(s)    == [form |-> "section", name |-> s, vals |-> <<>>]
Task(id)      == [form |-> "task", name |-> id, vals |-> <<>>]
Obligation(o) == [form |-> "obligation", name |-> o, vals |-> <<>>]
Bullet(v)     == [form |-> "bullet", name |-> v, vals |-> <<>>]
Field(k, vs)  == [form |-> "field", name |-> k, vals |-> vs]

MCStructured ==
  <<Section("writes"), Bullet("./a"),
    Section("obligations"), Obligation("o1"), Field("text", <<"Done.">>),
    Section("tasks"), Task("t1"), Field("writes", <<"a">>), Field("obligations", <<"o1">>),
    Task("t2"), Field("depends_on", <<>>), Bullet("t1")>>

MCPlain == <<Section("notes"), Bullet("a")>>

MCBriefs == {MCStructured, MCPlain}

MCLines ==
  {Section("reads"), Task("t1"), Task("T"), Obligation("o1"), Obligation("o2"), Bullet("b"),
   Bullet("../a"), Field("writes", <<"b">>), Field("required", <<"false">>),
   Field("kind", <<"other">>), Field("depends_on", <<"t2">>)}

MCPaths == {"brief", "report", "a", "b", "t1"}
MCTexts == MCPaths \cup {"./a", "../a"}
MCClean == [v \in MCTexts |-> IF v = "./a" THEN "a" ELSE v]

MCOverrides == {<<>>, <<"./a", "b">>}

MCSlips ==
  {[id |-> k, task |-> t, effect |-> [type |-> "file.write", res |-> "a"],
    approved |-> TRUE, expires |-> x, reason |-> "plain"] : 
      k \in TicketIds, t \in {1, 2}, x \in {Never, Garbled}}

MCSymmetry == Permutations(TicketIds)

ContractsInit == TicketsInit /\ Init /\ AuthoringInit

TicketsAtRest == contract = Draft /\ list = <<>> /\ now = 0
PairAtRest == commands = 0 /\ main = NoFile /\ bytes = v1
BriefAtRest ==
  changes = 0 /\ baseline = {} /\ written = NoContract /\ brief = MCPlain /\ overrides = <<>>

ContractsNext ==
  \/ BriefAtRest /\ PairAtRest /\ TicketsNext /\ UNCHANGED <<vars, authoringVars>>
  \/ BriefAtRest /\ TicketsAtRest /\ Next /\ UNCHANGED <<ticketVars, authoringVars>>
  \/ TicketsAtRest /\ PairAtRest /\ AuthoringNext /\ UNCHANGED <<ticketVars, vars>>

ContractsSpec == ContractsInit /\ [][ContractsNext]_<<ticketVars, vars, authoringVars>>
=============================================================================
