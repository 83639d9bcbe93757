--------------------------- MODULE RevocationList ---------------------------
(***************************************************************************)
(* The revocation list file and the `approval revoke` commands that write  *)
(* it (runApprovalRevoke, internal/cli/cli_approval.go).  A command reads  *)
(* the list, extends it in memory and writes all of it back with           *)
(* os.WriteFile, which cuts the file to nothing and then fills it; nothing *)
(* keeps two commands apart.  Either write may fail and a command may die. *)
(***************************************************************************)
EXTENDS Naturals, Sequences, FiniteSets

CONSTANTS
  Operators,   (* each runs one command at a time  *)
  TicketIds,
  NoFile,      (* there is no list yet             *)
  Garbage,     (* a file that is not a list        *)
  MaxCommands  (* bound: commands                  *)

ASSUME FilesAssumption == /\ NoFile \notin Seq(TicketIds) /\ Garbage \notin Seq(TicketIds)
                          /\ NoFile # Garbage
ASSUME CommandsAssumption == MaxCommands \in Nat

VARIABLES
  file,
  command,     \* [pc, id, append, list]: what each operator's command is at
  commands,    \* commands run so far
  acked,       \* history: tickets whose revocation was reported as done
  restarted,   \* history: a command without --append opened the file
  overlapped   \* history: a command began while another was under way

vars == <<file, command, commands, acked, restarted, overlapped>>

IsList(f) == f \notin {NoFile, Garbage}
IdsOf(l)  == {l[i] : i \in DOMAIN l}
Idle      == [pc |-> "idle"]
Orders    == [pc : {"open", "fill"}, id : TicketIds, append : BOOLEAN, list : Seq(TicketIds)]

Init ==
  /\ file = NoFile /\ command = [p \in Operators |-> Idle]
  /\ commands = 0 /\ acked = {}
  /\ restarted = FALSE /\ overlapped = FALSE

Busy == {p \in Operators : command[p].pc # "idle"}
Ends(p) == command' = [command EXCEPT ![p] = Idle]

\* ValidateRevocationList
ListValid(l) == Cardinality(IdsOf(l)) = Len(l)

\* Variant for mutation: a list that cannot be read is taken as missing.
UnreadableIsMissing(f, id) == IF IsList(f) THEN {Append(f, id)} ELSE {<<id>>}

\* The list to write, if there is one: with --append a list that is there must
\* be readable.
Extended(f, id) ==
  CASE f = NoFile  -> {<<id>>}
    [] f = Garbage -> {}
    [] OTHER       -> {Append(f, id)}

Revoke(p, id, append) ==
  LET lists == {l \in IF append THEN Extended(file, id) ELSE {<<id>>} : ListValid(l)} IN
  /\ command[p].pc = "idle" /\ commands < MaxCommands
  /\ commands' = commands + 1
  /\ overlapped' = (overlapped \/ Busy # {})
  /\ IF lists = {}
     THEN UNCHANGED command                                   \* refused
     ELSE \E l \in lists :
            command' = [command EXCEPT ![p] =
                          [pc |-> "open", id |-> id, append |-> append, list |-> l]]
  /\ UNCHANGED <<file, acked, restarted>>

\* os.WriteFile opens the file and cuts it to nothing ...
Open(p) ==
  /\ command[p].pc = "open"
  /\ \/ /\ file' = Garbage
        /\ command' = [command EXCEPT ![p].pc = "fill"]
        /\ restarted' = (restarted \/ ~command[p].append)
     \/ Ends(p) /\ UNCHANGED <<file, restarted>>              \* cannot be opened
  /\ UNCHANGED <<commands, acked, overlapped>>

\* ... and fills it from the start: of what another command wrote in between,
\* the part beyond a shorter text stays.
Filled(f, l) == IF IsList(f) /\ f # l THEN {l, Garbage} ELSE {l}

Fill(p) ==
  /\ command[p].pc = "fill"
  /\ \/ /\ file' \in Filled(file, command[p].list)
        /\ acked' = acked \cup {command[p].id}
     \/ UNCHANGED <<file, acked>>                             \* fails
  /\ Ends(p)
  /\ UNCHANGED <<commands, restarted, overlapped>>

Crash(p) ==
  /\ p \in Busy /\ Ends(p)
  /\ UNCHANGED <<file, commands, acked, restarted, overlapped>>

Next ==
  \E p \in Operators :
    \/ \E id \in TicketIds, append \in BOOLEAN : Revoke(p, id, append)
    \/ Open(p) \/ Fill(p) \/ Crash(p)

Spec == Init /\ [][Next]_vars

-----------------------------------------------------------------------------
(* Properties. *)

\* The file is missing, unreadable or a list without duplicates, whoever wrote it.
TypeOK ==
  /\ \/ file \in {NoFile, Garbage}
     \/ /\ file \in Seq(TicketIds) /\ file # <<>>
        /\ \A i, j \in DOMAIN file : file[i] = file[j] => i = j
  /\ command \in [Operators -> {Idle} \cup Orders]
  /\ commands \in 0..MaxCommands /\ acked \subseteq TicketIds
  /\ {restarted, overlapped} \subseteq BOOLEAN

\* With --append throughout and one command at a time, whatever fails or dies:
\* a revocation that was reported is in the list, or the file is no list at all
\* and everything that is given it refuses (cli_approval.go:576-605,
\* ticket_lifecycle.go:83-99).
RevocationsFailClosed ==
  ~overlapped /\ ~restarted =>
    acked = {} \/ file = Garbage \/ (IsList(file) /\ acked \subseteq IdsOf(file))

\* What each command knows of the file as long as it is the only one.
Alone == ~overlapped => \A p, q \in Busy : p = q

WhileAppending ==
  ~overlapped /\ ~restarted =>
    \A p \in Busy :
      /\ command[p].pc = "fill" => command[p].append /\ file = Garbage
      /\ command[p].append => acked \subseteq IdsOf(command[p].list)

CommandsOK ==
  /\ file \in Seq(TicketIds) \cup {NoFile, Garbage}
  /\ command \in [Operators -> {Idle} \cup Orders]
  /\ \A p \in Busy : command[p].id \in IdsOf(command[p].list)

\* The inductive invariant behind RevocationsFailClosed: what a lone command
\* read is still all that was reported when it writes (cli_approval.go:576-605).
ListInvariant == CommandsOK /\ Alone /\ WhileAppending /\ RevocationsFailClosed
=============================================================================
