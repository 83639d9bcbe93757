----------------------------- MODULE MCUnlocked -----------------------------
(* The two files that several processes may write at the same time and that  *)
(* nothing locks: the revocation list and the ledger of a run id.  They have *)
(* nothing to do with each other, so each is explored with the other at rest. *)
EXTENDS RevocationList, SharedLedger, TLC

CONSTANTS op1, op2, k1, k2, k3, p1, p2

Event(type, ok, id) == [type |-> type, ok |-> ok, id |-> id]
Started == <<Event("run_started", TRUE, 0), Event("task_started", TRUE, 1)>>
Decided(ok) == <<Event("policy_decided", ok, 1)>>
Done(ok) == <<Event("task_finished", ok, 1), Event("run_finished", ok, 0)>>

\* One task under a ticket: denied, failed, or with an artifact.
MCRecordings ==
  {Started \o Decided(FALSE) \o Done(FALSE), Started \o Decided(TRUE) \o Done(FALSE),
   Started \o Decided(TRUE) \o <<Event("artifact_recorded", TRUE, 1)>> \o Done(TRUE)}

\* The reason of a denial is longer than the others.
MCSize ==
  [e \in UNION {Range(r) : r \in MCRecordings} |-> IF e.type = "policy_decided" /\ ~e.ok THEN 2 ELSE 1]

MCSymmetry ==
  Permutations(Operators) \cup Permutations(TicketIds) \cup Permutations(Runners)

UnlockedInit == Init /\ SharedInit

UnlockedNext ==
  \/ Next /\ (\A p \in Runners : at[p] = "idle") /\ UNCHANGED sharedVars
  \/ SharedNext /\ commands = 0 /\ UNCHANGED vars

UnlockedSpec == UnlockedInit /\ [][UnlockedNext]_<<vars, sharedVars>>
=============================================================================
