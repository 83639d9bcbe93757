----------------------------- MODULE MCRepairs ------------------------------
(* One repository of each class, one nobody configured, and policies that     *)
(* are not valid.                                                            *)
EXTENDS Repairs

CONSTANTS own, sole, team, external, stranger, check1, check2

RepoRules(class, optIn, push, mode, allowed) ==
  [class |-> class, optIn |-> optIn, push |-> push, mode |-> mode, checks |-> {check1, check2},
   allowed |-> allowed]

Drafts == RepoRules("external", FALSE, "operator_owned_fork", "upstream_draft_only", DraftActions)
Branch(class, optIn, allowed) ==
  RepoRules(class, optIn, "policy_authorized_branch", "draft_or_ready_by_policy", allowed)

Published ==
  [unknown |-> Drafts,
   repos   |-> own      :> Branch("sole_control", FALSE, {"open_ready_pr", "auto_merge"}) @@
               sole     :> Branch("sole_control", TRUE,  {"open_ready_pr", "auto_merge"}) @@
               team     :> Branch("team", FALSE, {"open_ready_pr", "request_merge_queue"}) @@
               external :> Drafts]

Scene(p, r, what) == [policy |-> p, repo |-> r, wanted |-> what]

\* Policies that are not valid grant more than any may: a repository of the
\* organisation merges itself, everybody's repositories count as the operator's.
MCScenes ==
  {Scene(Published, sole, "auto_merge"),
   Scene(Published, team, "request_merge_queue"), Scene(Published, external, "open_upstream_draft_pr"),
   Scene(Published, stranger, "push_operator_fork"),
   Scene([Published EXCEPT !.repos[own].optIn = TRUE], own, "auto_merge"),
   Scene([Published EXCEPT !.unknown = Branch("sole_control", FALSE, {"open_ready_pr"})],
         stranger, "open_ready_pr")}

\* Head 2 touches a protected path, head 3 fails its checks, head 4 touches nothing.
MCTouches == <<{"source"}, {"source", "workflow"}, {"source"}, {}>>

\* A move, a re-issue and a slip meet in every order where a team merges, any two
\* of them elsewhere, and under a policy that is not valid there is but one.
Together == IF ~PolicyValid(policy) THEN 1 ELSE IF Rules.class = "team" THEN 3 ELSE 2
OneMore  == moves + issues + slips < Together

MCNext ==
  \/ OneMore /\ \E d \in DocumentNames : Slip(d) \/ Edit(d)
  \/ OneMore /\ (Reissue \/ Move)
  \/ ApproveAction \/ RunChecks \/ Elapse

MCSpec == RepairsInit /\ [][MCNext]_repairVars
=============================================================================
