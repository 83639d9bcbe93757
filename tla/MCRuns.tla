------------------------------- MODULE MCRuns -------------------------------
(***************************************************************************)
(* Instances of Runs for TLC: model values for names and contents, and the *)
(* contracts the runs of the project share.                                *)
(***************************************************************************)
EXTENDS Runs

CONSTANTS in1, out1, cmd1, host1, src1, src2, prn1, obj1, ob1, ob2, k1, k2

Write(p)   == [type |-> "file.write",      res |-> p]
Read(p)    == [type |-> "file.read",       res |-> p]
Spawn(x)   == [type |-> "process.spawn",   res |-> x]
Request(h) == [type |-> "network.request", res |-> h]
Publication(q) == [type |-> "claim.publish",   res |-> q]

Task(kind, deps, effects, claims) ==
  [kind |-> kind, deps |-> deps, effects |-> effects, claims |-> claims]

Ticket(id, t, e, ok, expires) ==
  [id |-> id, task |-> t, effect |-> e, approved |-> ok, expires |-> expires,
   reason |-> "plain"]

Agreement(tasks, approvals) ==
  [objective |-> obj1, tasks |-> tasks, obligations |-> {ob1}, required |-> {ob1},
   evaluator |-> {ob1}, reads |-> <<in1>>, writes |-> {out1}, approvals |-> approvals]

With(c, revokedIds) == [contract |-> c, revoked |-> revokedIds, allow |-> {cmd1}]

\* write, then check it: tasks in the opposite order of their dependencies
Plain ==
  Agreement(<<Task("evaluate", {2, 3}, <<>>, {}),
              Task("verify", {3}, <<>>, {}),
              Task("scripted", {}, <<Read(in1), Write(out1)>>, {ob1})>>, <<>>)

\* a process under tickets
Spawning(tickets) ==
  Agreement(<<Task("shell", {}, <<Write(out1), Spawn(cmd1)>>, {ob1}),
              Task("review", {1}, <<>>, {ob1})>>, tickets)

Expiring == Spawning(<<Ticket(k1, 1, Spawn(cmd1), TRUE, 1)>>)
Shadowed == Spawning(<<Ticket(k2, 1, Spawn(cmd1), FALSE, Never),
                       Ticket(k1, 1, Spawn(cmd1), TRUE, Never)>>)

\* side effects no adapter takes, and ones outside the declared scope
Requesting ==
  Agreement(<<Task("scripted", {}, <<Write(out1)>>, {}),
              Task("agent", {1}, <<Request(host1)>>, {ob1})>>,
            <<Ticket(k1, 2, Request(host1), TRUE, Never)>>)
Straying   == Agreement(<<Task("scripted", {}, <<Read(in1), Write(in1)>>, {ob1})>>, <<>>)

\* the reserved claim, under a ticket that does and one that does not say so
Publishing(reason) ==
  Agreement(<<Task("agent", {}, <<Publication(FullRSI)>>, {ob1})>>,
            <<[Ticket(k1, 1, Publication(FullRSI), TRUE, Never) EXCEPT !.reason = reason]>>)

\* nobody claims ob2, though it is required
Unclaimed ==
  [Agreement(<<Task("scripted", {}, <<Write(out1)>>, {ob1})>>, <<>>)
     EXCEPT !.obligations = {ob1, ob2}, !.required = {ob1, ob2}, !.evaluator = {ob1, ob2}]

\* the task that judges is the only one to claim what it judges
Judging ==
  Agreement(<<Task("scripted", {}, <<Write(out1)>>, {}),
              Task("evaluate", {1}, <<>>, {ob1})>>, <<>>)

\* two tasks write the same path
Overwriting ==
  Agreement(<<Task("scripted", {}, <<Write(out1)>>, {ob1}),
              Task("scripted", {}, <<Write(out1)>>, {})>>, <<>>)

\* refused: the tasks wait for each other
Circular ==
  Agreement(<<Task("scripted", {2}, <<>>, {ob1}), Task("review", {1}, <<>>, {})>>, <<>>)

MCOneLaunch ==
  {With(Plain, {}), With(Expiring, {}), With(Expiring, {k1}), With(Shadowed, {k2}),
   With(Requesting, {}), With(Straying, {}),
   With(Publishing("full"), {}), With(Publishing("rollback"), {}), With(Unclaimed, {}),
   With(Judging, {}), With(Overwriting, {}), With(Circular, {}),
   [With(Expiring, {}) EXCEPT !.allow = {}]}

MCRelaunches == {With(Plain, {}), With(Requesting, {k1})}
=============================================================================
