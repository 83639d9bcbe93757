------------------------------ MODULE MCBundle ------------------------------
(* Runs, exports and the files they share, small enough for TLC. *)
EXTENDS Bundle

CONSTANTS in1, out1, src1, obj1, ob1, k1, key1, n1

Effect1(type, res) == [type |-> type, res |-> res]
Task(kind, effects) ==
  [kind |-> kind, deps |-> {}, effects |-> effects, claims |-> {ob1}]
Agreement(tasks, approvals) ==
  [objective |-> obj1, tasks |-> tasks, obligations |-> {ob1}, required |-> {ob1},
   evaluator |-> {ob1}, reads |-> <<in1>>, writes |-> {out1}, approvals |-> approvals]
With(c) == [contract |-> c, revoked |-> {}, allow |-> {}]

\* reads one file and writes another
Plain == Agreement(<<Task("scripted", <<Effect1("file.read", in1), Effect1("file.write", out1)>>)>>,
                   <<>>)

\* allowed by ticket k1 what no adapter carries out
Publication == Effect1("claim.publish", FullRSI)
Publishing ==
  Agreement(<<Task("agent", <<Publication>>)>>,
            <<[id |-> k1, task |-> 1, effect |-> Publication, approved |-> TRUE,
               expires |-> Never, reason |-> "full"]>>)

\* two tasks read the same file
ReadTwice == Agreement(<<Task("scripted", <<Effect1("file.read", in1)>>),
                         Task("agent", <<Effect1("file.read", in1)>>)>>, <<>>)

MCTwoContracts == {With(Plain), With(Publishing)}
MCReadTwice    == {With(ReadTwice)}

\* signed and with a list that names k1, with two lists under one base name
Given(lists, key) == [lists |-> lists, key |-> key]
List(ids) == [name |-> n1, ids |-> ids]
MCOptions == {Given(<<List({k1})>>, key1), Given(<<List({}), List({k1})>>, NoKey)}
MCNoOptions == {Given(<<>>, NoKey)}

\* Two runs, an edit and a compile: any three of them, and any two where Export
\* refuses the options anyhow.
Together ==
  attempts' + Cardinality(edited') + compiles' <= (IF Len(options'.lists) = 2 THEN 2 ELSE 3)
=============================================================================
