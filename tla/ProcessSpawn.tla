---------------------------- MODULE ProcessSpawn ----------------------------
(***************************************************************************)
(* One process.spawn side effect: executeProcess (internal/run/adapter.go) *)
(* around exec.CommandContext.  stdout and stderr are buffers in memory,   *)
(* so Run returns when the command is gone and every process that          *)
(* inherited its output pipes has closed them; no WaitDelay bounds that.   *)
(* The command, its descendants and the runtime's timer run beside it.     *)
(***************************************************************************)
EXTENDS Integers, Sequences

CONSTANTS
  Timeouts,    (* values of task.TimeoutSecs; Validate wants them positive *)
  Second,      (* time.Second, in ticks of the clock                       *)
  Half,        (* half of what a time.Duration can count: 2^63             *)
  Horizon      (* bound: the clock                                         *)

ASSUME TimeoutsAssumption == Timeouts \subseteq Nat \ {0} /\ Horizon \in Nat
ASSUME DurationAssumption == Second \in Nat \ {0} /\ Half \in Nat \ {0}

VARIABLES
  now,         \* ticks since the command was started
  allowed,     \* the resource is on the process allowlist
  timeout,
  pc,          \* where executeProcess is
  expired,     \* processCtx.Err() is DeadlineExceeded
  command,     \* the process started from the resource
  code,        \* its exit code is zero
  holder,      \* a descendant that inherited the output pipes
  captures,    \* captures written below .covenant/process
  result

vars == <<now, allowed, timeout, pc, expired, command, code, holder, captures, result>>

Streams == <<"stdout", "stderr">>

Init ==
  /\ now = 0 /\ allowed \in BOOLEAN /\ timeout \in Timeouts
  /\ pc = "start" /\ expired = FALSE
  /\ command = "none" /\ code = FALSE /\ holder = "none"
  /\ captures = 0 /\ result = "none"

Return(how) == pc' = "returned" /\ result' = how

-----------------------------------------------------------------------------
(* executeProcess. *)

Refuse ==
  /\ pc = "start" /\ ~allowed
  /\ Return("refused")
  /\ UNCHANGED <<now, allowed, timeout, expired, command, code, holder, captures>>

\* Variant for mutation: not scaled to seconds.
Unscaled(secs) == secs

\* time.Duration(secs) * time.Second, which wraps: the schema sets no upper
\* limit to timeout_seconds.
Duration(secs) == ((secs * Second + Half) % (2 * Half)) - Half

\* CommandContext does not start a command under a deadline that has passed.
AtOnce == Duration(timeout) <= 0

Start ==
  /\ pc = "start" /\ allowed
  /\ IF AtOnce
     THEN expired' = TRUE /\ Return("timed out") /\ UNCHANGED command
     ELSE \/ command' = "running" /\ pc' = "running" /\ UNCHANGED <<expired, result>>
          \/ Return("failed") /\ UNCHANGED <<expired, command>>      \* no such program
  /\ UNCHANGED <<now, allowed, timeout, code, holder, captures>>

\* Variant for mutation: Run does not wait for the output pipes.
CommandGone == command \in {"exited", "killed"}

\* cmd.Run comes back.
RunReturns == command \in {"exited", "killed"} /\ holder # "open"

\* The deadline is looked at before the exit code.
AfterRun ==
  /\ pc = "running" /\ RunReturns
  /\ IF expired THEN Return("timed out")
     ELSE IF ~code THEN Return("failed")
     ELSE pc' = "capture" /\ UNCHANGED result
  /\ UNCHANGED <<now, allowed, timeout, expired, command, code, holder, captures>>

Captured(n) == n = Len(Streams)

\* writeProcessArtifact, for one stream after the other.
Capture ==
  /\ pc = "capture"
  /\ \/ /\ captures' = captures + 1
        /\ IF Captured(captures') THEN Return("ok") ELSE UNCHANGED <<pc, result>>
     \/ Return("failed") /\ UNCHANGED captures
  /\ UNCHANGED <<now, allowed, timeout, expired, command, code, holder>>

-----------------------------------------------------------------------------
(* What runs beside it. *)

\* The timer of processCtx fires at its deadline or later.
Expire ==
  /\ pc = "running" /\ ~expired /\ now >= Duration(timeout)
  /\ expired' = TRUE
  /\ UNCHANGED <<now, allowed, timeout, pc, command, code, holder, captures, result>>

\* Variant for mutation: the command is not tied to the context.
NotWatched == FALSE

\* CommandContext watches the command until it is gone.
Watched == expired /\ command = "running"

\* The runtime kills the command, and only the command.
Kill ==
  /\ Watched
  /\ command' = "killed"
  /\ UNCHANGED <<now, allowed, timeout, pc, expired, code, holder, captures, result>>

CommandExits ==
  /\ command = "running"
  /\ command' = "exited" /\ code' \in BOOLEAN
  /\ UNCHANGED <<now, allowed, timeout, pc, expired, holder, captures, result>>

CommandForks ==
  /\ command = "running" /\ holder = "none"
  /\ holder' = "open"
  /\ UNCHANGED <<now, allowed, timeout, pc, expired, command, code, captures, result>>

\* The descendant ends, or lets go of the pipes and runs on.
HolderCloses ==
  /\ holder = "open"
  /\ holder' = "closed"
  /\ UNCHANGED <<now, allowed, timeout, pc, expired, command, code, captures, result>>

Tick ==
  /\ pc # "start" /\ now < Horizon
  /\ now' = now + 1
  /\ UNCHANGED <<allowed, timeout, pc, expired, command, code, holder, captures, result>>

Execute == Refuse \/ Start \/ AfterRun \/ Capture

Next == Execute \/ Expire \/ Kill \/ CommandExits \/ CommandForks \/ HolderCloses \/ Tick

Spec == Init /\ [][Next]_vars

\* The goroutine, the runtime's timer and its kill are scheduled and the clock
\* goes on; no command and no descendant need ever end.
FairSpec == Spec /\ WF_vars(Execute) /\ WF_vars(Expire) /\ WF_vars(Kill) /\ WF_vars(Tick)

-----------------------------------------------------------------------------
(* Properties. *)

\* A side effect that is reported to have timed out has had all the seconds of
\* task.TimeoutSecs, unless their number of nanoseconds is beyond a Duration
\* (adapter.go:72-89).
NeverEarly ==
  result = "timed out" =>
    now >= timeout * Second \/ timeout * Second >= Half

\* When the side effect is over, no process it started writes to what was
\* captured, and a success is a zero exit code before the deadline with both
\* captures written (adapter.go:86-102).
NothingLeftRunning ==
  /\ pc \in {"capture", "returned"} => command # "running" /\ holder # "open"
  /\ result = "ok" => code /\ ~expired /\ captures = Len(Streams)

\* A command with no descendant holding its pipes is bounded by the task
\* timeout, whether or not it ever exits (adapter.go:76-89).
LoneCommandEnds == [](holder # "open") => (pc = "running" ~> pc \in {"capture", "returned"})
=============================================================================
