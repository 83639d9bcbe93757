---------------------------- MODULE GovernedRun -----------------------------
(***************************************************************************)
(* What a governed run promises, with no word on how: a task is granted as *)
(* a whole, after the tasks it depends on; only the side effects of a      *)
(* granted task are carried out; only a granted task succeeds; and a run   *)
(* is accepted only when every task and every required obligation is done. *)
(* A run may also be given up at any time, with no verdict.                *)
(***************************************************************************)
EXTENDS Contract

CONSTANT Jobs      \* the contracts a run may be asked to carry out

VARIABLES
  job,             \* the contract of the current or last run
  underway,        \* a run is under way
  granted,         \* tasks whose side effects were all allowed
  carriedOut,      \* side effects carried out, as <<task, n>>
  done,            \* tasks that succeeded
  verdict          \* "none", "accepted" or "rejected"

govVars == <<job, underway, granted, carriedOut, done, verdict>>

GovInit ==
  /\ job \in Jobs /\ ~underway
  /\ granted = {} /\ carriedOut = {} /\ done = {} /\ verdict = "none"

Begin ==
  /\ ~underway
  /\ job' \in Jobs /\ underway' \in BOOLEAN
  /\ granted' = {} /\ carriedOut' = {} /\ done' = {} /\ verdict' = "none"

Grant(t) ==
  /\ underway /\ t \notin granted
  /\ Deps(job, t) \subseteq done
  /\ granted \subseteq done            \* one task at a time
  /\ granted' = granted \cup {t}
  /\ UNCHANGED <<job, underway, carriedOut, done, verdict>>

CarryOut(t, n) ==
  /\ underway /\ t \in granted \ done
  /\ carriedOut' = carriedOut \cup {<<t, n>>}
  /\ UNCHANGED <<job, underway, granted, done, verdict>>

Succeed(t) ==
  /\ underway /\ t \in granted \ done
  /\ Kind(job, t) \in AdapterKinds =>
       \A n \in DOMAIN EffectsOf(job, t) : <<t, n>> \in carriedOut
  /\ done' = done \cup {t}
  /\ UNCHANGED <<job, underway, granted, carriedOut, verdict>>

Deliver ==
  /\ underway /\ underway' = FALSE
  /\ verdict' = IF /\ done = TaskIds(job)
                   /\ \A o \in job.required : Claimants(job, o) # {}
                THEN "accepted" ELSE "rejected"
  /\ UNCHANGED <<job, granted, carriedOut, done>>

GiveUp ==
  /\ underway /\ underway' = FALSE
  /\ UNCHANGED <<job, granted, carriedOut, done, verdict>>

GovNext ==
  \/ Begin \/ Deliver \/ GiveUp
  \/ \E t \in TaskIds(job) :
       Grant(t) \/ Succeed(t) \/ \E n \in DOMAIN EffectsOf(job, t) : CarryOut(t, n)

GovSpec == GovInit /\ [][GovNext]_govVars
=============================================================================
