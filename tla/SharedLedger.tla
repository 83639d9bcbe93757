---------------------------- MODULE SharedLedger ----------------------------
(***************************************************************************)
(* Two processes execute under one run id at the same time, and a third    *)
(* verifies.  Each Execute (run/executor.go) creates events.ndjson anew and *)
(* writes it through a buffer of its own, from an offset of its own; when   *)
(* it has flushed, it takes the digest of whatever the file then holds.    *)
(*                                                                         *)
(* The file is a sequence of cells: a line is a head, with the hashes, and *)
(* the rest of the event, so that a buffer may end within a line.  The     *)
(* hash of an event is the sequence of events it covers; ids of tasks and  *)
(* the closure matrix are left to Verifier.                                *)
(***************************************************************************)
EXTENDS Naturals, SequencesExt

CONSTANTS
  Runners,      (* processes, each executes once                     *)
  Recordings,   (* what a run may record: sequences of events        *)
  Size,         (* cells of the rest of an event                     *)
  Chunk,        (* cells the buffer of a recorder holds              *)
  Hole,         (* a cell nobody has written                         *)
  NoPack, CutPack, MixedPack   (* no evidence pack, or none that decodes *)

ASSUME RecordingsAssumption ==
  /\ \A e \in DOMAIN Size : Size[e] \in Nat \ {0}
  /\ \A r \in Recordings : r \in Seq(DOMAIN Size) /\ r # <<>>
ASSUME ChunkAssumption == Chunk \in Nat \ {0}

VARIABLES
  at,          \* where each process is in Execute
  recorded,    \* what it records
  offset,      \* cells it has written
  digested,    \* the ledger it took the digest of
  ledger, pack,            \* events.ndjson and evidence-pack.json
  check,       \* [pc, lines, digest, pack]: the Verify under way
  intertwined  \* history: the processes were at work at the same time

sharedVars == <<at, recorded, offset, digested, ledger, pack, check, intertwined>>

-----------------------------------------------------------------------------
(* Events as lines and cells. *)

Prefix(r, n) == SubSeq(r, 1, n)

\* emit: an event with the hash of the one before it and its own.
Line(r, i) == [prev |-> Prefix(r, i - 1), hash |-> Prefix(r, i), event |-> r[i]]

Rest(e) == [k \in 1..Size[e] |-> [event |-> e, last |-> k = Size[e], k |-> k]]
Cells(line) == <<[prev |-> line.prev, hash |-> line.hash, last |-> FALSE]>> \o Rest(line.event)
Bytes(r) == FlattenSeq([i \in DOMAIN r |-> Cells(Line(r, i))])

\* Write at an offset: what lies before is kept, or a hole, what lies behind too.
Written(file, from, cells) ==
  [i \in 1..(IF Len(file) > from + Len(cells) THEN Len(file) ELSE from + Len(cells)) |->
     IF i \in from + 1..from + Len(cells) THEN cells[i - from]
     ELSE IF i <= Len(file) THEN file[i] ELSE Hole]

\* What a run has decided, made and failed at, each with the number of its event.
Numbered(r, type, ok) ==
  {[id |-> r[i].id, seq |-> i] : i \in {j \in DOMAIN r : r[j].type = type /\ r[j].ok = ok}}

PackOf(r, digest) ==
  [of |-> r, ledger |-> digest,
   decisions |-> UNION {Numbered(r, "policy_decided", ok) : ok \in BOOLEAN},
   artifacts |-> Numbered(r, "artifact_recorded", TRUE),
   failures  |-> Numbered(r, "task_finished", FALSE)]

-----------------------------------------------------------------------------
(* Verify. *)

\* readLedger: the cells between the ends of lines are a head and the rest of
\* one event.
LineEnds(file) == {i \in 1..Len(file) : file[i] # Hole /\ file[i].last}
Segments(file) ==
  [n \in 1..Cardinality(LineEnds(file)) |->
     LET end   == CHOOSE i \in LineEnds(file) : Cardinality({j \in LineEnds(file) : j <= i}) = n
         begin == IF n = 1 THEN 0 ELSE CHOOSE i \in LineEnds(file) : Cardinality({j \in LineEnds(file) : j <= i}) = n - 1
     IN SubSeq(file, begin + 1, end)]

IsLine(cells) ==
  /\ \A i \in DOMAIN cells : cells[i] # Hole
  /\ "prev" \in DOMAIN cells[1] /\ Tail(cells) = Rest(Last(cells).event)

Readable(file) ==
  /\ file # <<>> /\ Len(file) \in LineEnds(file)
  /\ \A n \in DOMAIN Segments(file) : IsLine(Segments(file)[n])

Lines(file) ==
  [n \in DOMAIN Segments(file) |->
     LET cells == Segments(file)[n]
     IN [prev |-> cells[1].prev, hash |-> cells[1].hash, event |-> Last(cells).event]]

\* Variant for mutation: each event has its own hash, whatever came before it.
EachHashed(lines) == \A i \in DOMAIN lines : lines[i].hash = Append(lines[i].prev, lines[i].event)

\* verifyChain
Chained(lines) ==
  \A i \in DOMAIN lines :
    /\ lines[i].prev = IF i = 1 THEN <<>> ELSE lines[i - 1].hash
    /\ lines[i].hash = Append(lines[i].prev, lines[i].event)

EventsOf(lines) == [i \in DOMAIN lines |-> lines[i].event]

\* Variant for mutation: the digest in the pack is not looked at.
NotCompared(c, pk) == TRUE

DigestMatches(c, pk) == pk.ledger = c.digest

\* verifyEvidenceProvenance and summarizeFailures: ids and kinds of events only.
Provenance(pk, lines) ==
  /\ \A d \in pk.decisions : \E i \in DOMAIN lines :
       lines[i].event.type = "policy_decided" /\ lines[i].event.id = d.id
  /\ \A a \in pk.artifacts :
       /\ a.seq \in DOMAIN lines
       /\ lines[a.seq].event.type = "artifact_recorded" /\ lines[a.seq].event.id = a.id
  /\ \A f \in pk.failures : f.seq \in DOMAIN lines

-----------------------------------------------------------------------------
(* Execute. *)

Underway == {p \in Runners : at[p] \notin {"idle", "ended"}}
Ended(p) == at' = [at EXCEPT ![p] = "ended"]

\* os.Create: what was in the ledger is gone, for the other process too.
CreateLedger(p) ==
  /\ at[p] = "idle"
  /\ \E r \in Recordings : recorded' = [recorded EXCEPT ![p] = r]
  /\ at' = [at EXCEPT ![p] = "recording"] /\ offset' = [offset EXCEPT ![p] = 0]
  /\ ledger' = <<>> /\ intertwined' = (intertwined \/ Underway # {})
  /\ UNCHANGED <<digested, pack, check>>

Flushed(p, cells) ==
  /\ ledger' = Written(ledger, offset[p], cells)
  /\ offset' = [offset EXCEPT ![p] = @ + Len(cells)]
  /\ UNCHANGED <<recorded, digested, pack, check, intertwined>>

\* The buffer is full: all of it is written, wherever a line may end.
WriteChunk(p) ==
  LET bytes == Bytes(recorded[p]) IN
  /\ at[p] = "recording" /\ offset[p] + Chunk < Len(bytes)
  /\ Flushed(p, SubSeq(bytes, offset[p] + 1, offset[p] + Chunk))
  /\ UNCHANGED at

FlushLedger(p) ==
  LET bytes == Bytes(recorded[p]) IN
  /\ at[p] = "recording" /\ offset[p] + Chunk >= Len(bytes)
  /\ Flushed(p, SubSeq(bytes, offset[p] + 1, Len(bytes)))
  /\ at' = [at EXCEPT ![p] = "flushed"]

DigestLedger(p) ==
  /\ at[p] = "flushed" /\ at' = [at EXCEPT ![p] = "digested"]
  /\ digested' = [digested EXCEPT ![p] = ledger]
  /\ UNCHANGED <<recorded, offset, ledger, pack, check, intertwined>>

\* os.WriteFile cuts the pack and then fills it; over what another process has
\* filled in between, the longer text shows at the end.
CutEvidence(p) ==
  /\ at[p] = "digested" /\ at' = [at EXCEPT ![p] = "filling"]
  /\ pack' = CutPack
  /\ UNCHANGED <<recorded, offset, digested, ledger, check, intertwined>>

FillEvidence(p) ==
  /\ at[p] = "filling" /\ Ended(p)
  /\ \/ pack' = PackOf(recorded[p], digested[p])
     \/ pack # CutPack /\ pack' = MixedPack
  /\ UNCHANGED <<recorded, offset, digested, ledger, check, intertwined>>

\* A failing write, an error before the flush, or the end of the process.
GiveUp(p) ==
  /\ p \in Underway /\ Ended(p)
  /\ UNCHANGED <<recorded, offset, digested, ledger, pack, check, intertwined>>

-----------------------------------------------------------------------------
(* Verify reads the ledger, reads it again for its digest, and then the pack. *)

Unread == [pc |-> "unread", lines |-> <<>>, digest |-> <<>>, pack |-> NoPack]
Checked(c) == check' = c /\ UNCHANGED <<at, recorded, offset, digested, ledger, pack, intertwined>>

ReadEvents ==
  /\ check.pc = "unread" /\ Readable(ledger) /\ Chained(Lines(ledger))
  /\ Checked([Unread EXCEPT !.pc = "read", !.lines = Lines(ledger)])

ReadDigest ==
  /\ check.pc = "read"
  /\ Checked([check EXCEPT !.pc = "digest", !.digest = ledger])

Accepts(c, pk) ==
  pk \notin {NoPack, CutPack, MixedPack} /\ DigestMatches(c, pk) /\ Provenance(pk, c.lines)

ReadPack ==
  /\ check.pc = "digest"
  /\ Checked(IF Accepts(check, pack) THEN [check EXCEPT !.pc = "accepted", !.pack = pack] ELSE Unread)

SharedInit ==
  /\ at = [p \in Runners |-> "idle"] /\ recorded = [p \in Runners |-> <<>>]
  /\ offset = [p \in Runners |-> 0] /\ digested = [p \in Runners |-> <<>>]
  /\ ledger = <<>> /\ pack = NoPack /\ check = Unread /\ intertwined = FALSE

SharedNext ==
  \/ \E p \in Runners :
       \/ CreateLedger(p) \/ WriteChunk(p) \/ FlushLedger(p) \/ DigestLedger(p)
       \/ CutEvidence(p) \/ FillEvidence(p) \/ GiveUp(p)
  \/ ReadEvents \/ ReadDigest \/ ReadPack

SharedSpec == SharedInit /\ [][SharedNext]_sharedVars

-----------------------------------------------------------------------------
(* Properties. *)

\* However two runs write over each other and over a Verify, the events it
\* accepts are what one of them recorded, from its beginning: never a line of one
\* after a line of the other (run/executor.go:70-80, verify/verifier.go:109-129).
AcceptedEventsAreOfOneRun ==
  check.pc = "accepted" => \E p \in Runners : IsPrefix(EventsOf(check.lines), recorded[p])

\* If the runs did not overlap, the digest stands for the whole ledger of a run
\* that was written to its end and the pack is that run's own, whatever was
\* written between the three reads (verify/verifier.go:20-45).
AcceptedPackIsOfItsLedger ==
  check.pc = "accepted" /\ ~intertwined => check.digest = Bytes(check.pack.of)
=============================================================================
