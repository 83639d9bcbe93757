--------------------------- MODULE UnlockedProofs ---------------------------
(***************************************************************************)
(* What holds of the files that no lock guards: of the revocation list, for *)
(* any operators, tickets and number of commands; of the ledger, for any    *)
(* processes, recordings and size of a buffer; and of a release directory,  *)
(* for any files, packages and edits.                                       *)
(***************************************************************************)
EXTENDS RevocationList, SharedLedger, ReleaseAudit, SequenceLemmas, FiniteSetTheorems

-----------------------------------------------------------------------------
(* The revocation list: revocations fail closed. *)

\* A list extended holds what it held and the new entry.
LEMMA AppendHolds ==
  ASSUME NEW l \in Seq(TicketIds), NEW id \in TicketIds
  PROVE  /\ Append(l, id) \in Seq(TicketIds)
         /\ IdsOf(l) \subseteq IdsOf(Append(l, id))
         /\ id \in IdsOf(Append(l, id))
<1>1. Append(l, id) \in Seq(TicketIds) /\ Len(Append(l, id)) = Len(l) + 1
  OBVIOUS
<1>2. \A i \in 1..Len(l) : Append(l, id)[i] = l[i]
  OBVIOUS
<1>3. Append(l, id)[Len(l) + 1] = id
  OBVIOUS
<1> QED
  BY <1>1, <1>2, <1>3 DEF IdsOf

LEMMA OneHolds ==
  ASSUME NEW id \in TicketIds
  PROVE  <<id>> \in Seq(TicketIds) /\ id \in IdsOf(<<id>>)
  BY DEF IdsOf

\* What an appending command is to write holds the new entry and everything the
\* file held; a file that is no list gives it nothing to write.
LEMMA ExtendedHolds ==
  ASSUME file \in Seq(TicketIds) \cup {NoFile, Garbage}, NEW id \in TicketIds,
         NEW l \in Extended(file, id)
  PROVE  /\ l \in Seq(TicketIds) /\ id \in IdsOf(l) /\ file # Garbage
         /\ IsList(file) => IdsOf(file) \subseteq IdsOf(l)
<1>1. CASE file = NoFile
  BY <1>1, OneHolds, FilesAssumption DEF Extended, IsList
<1>2. CASE file \in Seq(TicketIds)
  BY <1>2, AppendHolds, FilesAssumption DEF Extended, IsList
<1>3. CASE file = Garbage
  BY <1>3, FilesAssumption DEF Extended
<1> QED
  BY <1>1, <1>2, <1>3

\* What a command that begins has to write.
LEMMA RevokeKeeps ==
  ASSUME ListInvariant, NEW p \in Operators, NEW id \in TicketIds, NEW append \in BOOLEAN,
         Revoke(p, id, append)
  PROVE  ListInvariant'
<1> USE DEF ListInvariant
<1>1. CASE UNCHANGED command
  BY <1>1 DEF Revoke, CommandsOK, Alone, WhileAppending, RevocationsFailClosed, Busy
<1>2. ASSUME NEW l \in (IF append THEN Extended(file, id) ELSE {<<id>>}),
             command' = [command EXCEPT ![p] =
                           [pc |-> "open", id |-> id, append |-> append, list |-> l]]
      PROVE  ListInvariant'
  <2> DEFINE new == [pc |-> "open", id |-> id, append |-> append, list |-> l]
  <2>1. l \in Seq(TicketIds) /\ id \in IdsOf(l)
    BY ExtendedHolds, OneHolds DEF CommandsOK
  <2>2. new \in Orders
    BY <2>1 DEF Orders
  <2>3. command' = [command EXCEPT ![p] = new] /\ command'[p] = new
    BY <1>2 DEF CommandsOK
  <2>4. Busy' = Busy \cup {p} /\ \A q \in Operators : q # p => command'[q] = command[q]
    BY <2>3 DEF CommandsOK, Busy
  <2>5. CommandsOK'
    BY <2>1, <2>2, <2>3, <2>4 DEF CommandsOK, Revoke
  <2>6. Alone'
    BY <2>4 DEF Alone, Revoke
  <2>7. append => file # Garbage /\ (IsList(file) => IdsOf(file) \subseteq IdsOf(l))
    BY ExtendedHolds DEF CommandsOK
  <2>8. WhileAppending'
    <3> SUFFICES ASSUME ~overlapped', ~restarted' PROVE WhileAppending'
      BY DEF WhileAppending
    <3>1. Busy' = {p} /\ ~overlapped /\ ~restarted /\ acked' = acked /\ file' = file
      BY <2>4 DEF Revoke
    <3>2. append => acked \subseteq IdsOf(l)
      BY <2>7, <3>1 DEF RevocationsFailClosed
    <3> QED
      BY <2>3, <3>1, <3>2 DEF WhileAppending
  <2>9. RevocationsFailClosed'
    BY DEF Revoke, RevocationsFailClosed
  <2> QED
    BY <2>5, <2>6, <2>8, <2>9
<1> QED
  BY <1>1, <1>2 DEF Revoke

LEMMA OpenKeeps ==
  ASSUME ListInvariant, NEW p \in Operators, Open(p)
  PROVE  ListInvariant'
<1> USE DEF ListInvariant
<1>1. command[p] \in Orders /\ p \in Busy
  BY DEF Open, CommandsOK, Idle, Busy
<1>2. CASE Ends(p) /\ UNCHANGED <<file, restarted>>
  BY <1>2 DEF Open, Ends, Idle, CommandsOK, Alone, WhileAppending, RevocationsFailClosed, Busy
<1>3. CASE /\ file' = Garbage
           /\ command' = [command EXCEPT ![p].pc = "fill"]
           /\ restarted' = (restarted \/ ~command[p].append)
  <2>1. /\ command'[p].pc = "fill" /\ command'[p].id = command[p].id
        /\ command'[p].append = command[p].append /\ command'[p].list = command[p].list
        /\ command'[p] \in Orders
    BY <1>1, <1>3 DEF CommandsOK, Orders
  <2>2. Busy' = Busy /\ \A q \in Operators : q # p => command'[q] = command[q]
    BY <1>1, <1>3, <2>1 DEF CommandsOK, Busy
  <2>3. CommandsOK'
    BY <1>1, <1>3, <2>1, <2>2 DEF CommandsOK
  <2>4. Alone'
    BY <2>2 DEF Alone, Open
  <2>5. WhileAppending'
    BY <1>1, <1>3, <2>1, <2>2 DEF WhileAppending, Alone, Open, Orders
  <2>6. RevocationsFailClosed'
    BY <1>3 DEF RevocationsFailClosed
  <2> QED
    BY <2>3, <2>4, <2>5, <2>6
<1> QED
  BY <1>2, <1>3 DEF Open

LEMMA FillKeeps ==
  ASSUME ListInvariant, NEW p \in Operators, Fill(p)
  PROVE  ListInvariant'
<1> USE DEF ListInvariant
<1>1. command[p] \in Orders /\ p \in Busy
  BY DEF Fill, CommandsOK, Idle, Busy
<1>2. command'[p] = Idle /\ (\A q \in Operators : q # p => command'[q] = command[q])
  BY DEF Fill, Ends, CommandsOK
<1>3. Busy' = Busy \ {p}
  BY <1>1, <1>2 DEF Busy, Idle
<1>4. file' \in Seq(TicketIds) \cup {NoFile, Garbage}
  BY <1>1 DEF Fill, Filled, CommandsOK, Orders
<1>5. CommandsOK'
  BY <1>2, <1>3, <1>4 DEF CommandsOK, Fill, Ends
<1>6. Alone'
  BY <1>3 DEF Alone, Fill
<1>7. ASSUME ~overlapped, ~restarted
      PROVE  /\ Busy' = {} /\ file = Garbage /\ acked \subseteq IdsOf(command[p].list)
             /\ command[p].id \in IdsOf(command[p].list)
  BY <1>1, <1>3, <1>7 DEF Alone, WhileAppending, CommandsOK, Fill
<1>8. WhileAppending'
  BY <1>7 DEF WhileAppending, Fill
<1>9. RevocationsFailClosed'
  <2> SUFFICES ASSUME ~overlapped', ~restarted' PROVE RevocationsFailClosed'
    BY DEF RevocationsFailClosed
  <2>1. ~overlapped /\ ~restarted
    BY DEF Fill
  <2>2. CASE UNCHANGED <<file, acked>>
    BY <1>7, <2>1, <2>2 DEF RevocationsFailClosed
  <2>3. CASE file' \in Filled(file, command[p].list) /\ acked' = acked \cup {command[p].id}
    <3>1. file' = command[p].list /\ file' \in Seq(TicketIds)
      BY <1>1, <1>7, <2>1, <2>3 DEF Filled, IsList, Orders
    <3>2. acked' \subseteq IdsOf(file') /\ IsList(file')
      BY <1>7, <2>1, <2>3, <3>1, FilesAssumption DEF IsList
    <3> QED
      BY <3>2 DEF RevocationsFailClosed
  <2> QED
    BY <2>2, <2>3 DEF Fill
<1> QED
  BY <1>5, <1>6, <1>8, <1>9

LEMMA CrashKeeps ==
  ASSUME ListInvariant, NEW p \in Operators, Crash(p)
  PROVE  ListInvariant'
  BY DEF ListInvariant, Crash, Ends, Idle, CommandsOK, Alone, WhileAppending,
         RevocationsFailClosed, Busy

LEMMA InitHolds == Init => ListInvariant
  BY DEF Init, ListInvariant, CommandsOK, Alone, WhileAppending, RevocationsFailClosed,
         Busy, Idle

\* The invariant holds throughout (cli_approval.go:576-605).
THEOREM ListInvariantHolds == Spec => []ListInvariant
<1>1. ListInvariant /\ [Next]_vars => ListInvariant'
  <2> SUFFICES ASSUME ListInvariant, [Next]_vars PROVE ListInvariant'
    OBVIOUS
  <2>1. ASSUME NEW p \in Operators, NEW id \in TicketIds, NEW append \in BOOLEAN,
               Revoke(p, id, append)
        PROVE  ListInvariant'
    BY <2>1, RevokeKeeps
  <2>2. ASSUME NEW p \in Operators, Open(p) \/ Fill(p) \/ Crash(p)
        PROVE  ListInvariant'
    BY <2>2, OpenKeeps, FillKeeps, CrashKeeps
  <2>3. CASE UNCHANGED vars
    BY <2>3 DEF vars, ListInvariant, CommandsOK, Alone, WhileAppending,
                RevocationsFailClosed, Busy
  <2> QED
    BY <2>1, <2>2, <2>3 DEF Next
<1> QED
  BY InitHolds, <1>1, PTL DEF Spec

\* With --append and one command at a time, a revocation that was reported is
\* in the list or there is no readable list (cli_approval.go:576-605).
THEOREM ReportedRevocationsHold == Spec => []RevocationsFailClosed
  BY ListInvariantHolds, PTL DEF ListInvariant

-----------------------------------------------------------------------------
(* The ledger: what is in it. *)

\* What a recorder writes: heads with the hashes of its own events, and the rest
\* of events.
Heads(r) == {[prev |-> Prefix(r, i - 1), hash |-> Prefix(r, i), last |-> FALSE] : i \in DOMAIN r}
Bodies == [event : DOMAIN Size, last : BOOLEAN, k : Nat]

LEMMA BytesAreCells ==
  ASSUME NEW r \in Recordings
  PROVE  Bytes(r) \in Seq(Heads(r) \cup Bodies)
<1> DEFINE s == [i \in DOMAIN r |-> Cells(Line(r, i))]
<1>1. r \in Seq(DOMAIN Size)
  BY RecordingsAssumption
<1>2. ASSUME NEW i \in DOMAIN r PROVE Cells(Line(r, i)) \in Seq(Heads(r) \cup Bodies)
  <2> DEFINE head == [prev |-> Prefix(r, i - 1), hash |-> Prefix(r, i), last |-> FALSE]
  <2>1. r[i] \in DOMAIN Size /\ Size[r[i]] \in Nat
    BY <1>1, RecordingsAssumption
  <2>2. Rest(r[i]) \in Seq(Heads(r) \cup Bodies)
    <3>1. \A k \in 1..Size[r[i]] : [event |-> r[i], last |-> k = Size[r[i]], k |-> k] \in Bodies
      <4> SUFFICES ASSUME NEW k \in 1..Size[r[i]]
                   PROVE  [event |-> r[i], last |-> k = Size[r[i]], k |-> k] \in Bodies
        OBVIOUS
      <4>1. k \in Nat /\ (k = Size[r[i]]) \in BOOLEAN
        BY <2>1
      <4> QED
        BY <2>1, <4>1 DEF Bodies
    <3>2. Rest(r[i]) \in [1..Size[r[i]] -> Heads(r) \cup Bodies]
      BY <3>1 DEF Rest
    <3> QED
      BY <2>1, <3>2
  <2>3. head \in Heads(r) \cup Bodies
    BY Zenon DEF Heads
  <2>4. Cells(Line(r, i)) = <<head>> \o Rest(r[i])
    BY DEF Cells, Line
  <2> HIDE DEF head
  <2>5. <<head>> \in Seq(Heads(r) \cup Bodies)
    BY <2>3
  <2> QED
    BY <2>2, <2>4, <2>5
<1>3. DOMAIN r = 1..Len(r) /\ Len(r) \in Nat
  BY <1>1
<1>4. /\ s = [i \in 1..Len(r) |-> s[i]] /\ \A i \in 1..Len(r) : s[i] \in Seq(Heads(r) \cup Bodies)
  BY <1>2, <1>3
<1> HIDE DEF s
<1>5. FlattenSeq(s) \in Seq(Heads(r) \cup Bodies)
  BY <1>3, <1>4, FlattenedSeq
<1> QED
  BY <1>5 DEF Bytes, s

\* What is written is what was there, what is new, or a hole.
LEMMA WrittenCells ==
  ASSUME NEW S, Hole \in S, NEW log \in Seq(S), NEW from \in Nat, NEW cells \in Seq(S)
  PROVE  Written(log, from, cells) \in Seq(S)
<1> DEFINE n == IF Len(log) > from + Len(cells) THEN Len(log) ELSE from + Len(cells)
           c(i) == IF i \in from + 1..from + Len(cells) THEN cells[i - from]
                   ELSE IF i <= Len(log) THEN log[i] ELSE Hole
<1>1. n \in Nat
  OBVIOUS
<1>2. ASSUME NEW i \in 1..n PROVE c(i) \in S
  <2>1. CASE i \in from + 1..from + Len(cells)
    <3>1. i - from \in 1..Len(cells)
      BY <2>1
    <3> QED
      BY <2>1, <3>1
  <2>2. CASE i \notin from + 1..from + Len(cells)
    BY <2>2
  <2> QED
    BY <2>1, <2>2
<1>3. Written(log, from, cells) = [i \in 1..n |-> c(i)]
  BY DEF Written
<1> HIDE DEF n, c
<1>4. Written(log, from, cells) \in [1..n -> S]
  BY <1>2, <1>3
<1> QED
  BY <1>1, <1>4

\* One who writes alone extends what it has written.
LEMMA WrittenOn ==
  ASSUME NEW S, NEW b \in Seq(S), NEW m \in 0..Len(b), NEW n \in m..Len(b)
  PROVE  Written(SubSeq(b, 1, m), m, SubSeq(b, m + 1, n)) = SubSeq(b, 1, n)
<1>1. m \in Nat /\ n \in Nat /\ m <= n
  OBVIOUS
<1>2. /\ Len(SubSeq(b, 1, m)) = m /\ \A i \in 1..m : SubSeq(b, 1, m)[i] = b[i]
  OBVIOUS
<1>3. /\ Len(SubSeq(b, m + 1, n)) = n - m
      /\ \A i \in 1..(n - m) : SubSeq(b, m + 1, n)[i] = b[m + i]
  OBVIOUS
<1>4. SubSeq(b, 1, n) = [i \in 1..n |-> b[i]]
  OBVIOUS
<1> DEFINE x == SubSeq(b, 1, m)
           y == SubSeq(b, m + 1, n)
           c(i) == IF i \in m + 1..m + Len(y) THEN y[i - m] ELSE IF i <= Len(x) THEN x[i] ELSE Hole
<1>5. Written(x, m, y) = [i \in 1..(IF Len(x) > m + Len(y) THEN Len(x) ELSE m + Len(y)) |-> c(i)]
  BY DEF Written
<1>6. (IF Len(x) > m + Len(y) THEN Len(x) ELSE m + Len(y)) = n
  BY <1>1, <1>2, <1>3
<1>7. ASSUME NEW i \in 1..n PROVE c(i) = b[i]
  <2>1. CASE i \in 1..m
    BY <1>1, <1>2, <1>3, <2>1
  <2>2. CASE i \notin 1..m
    <3>1. i \in m + 1..m + Len(y) /\ i - m \in 1..(n - m) /\ m + (i - m) = i
      BY <1>1, <1>3, <2>2
    <3> QED
      BY <1>3, <3>1
  <2> QED
    BY <2>1, <2>2
<1> HIDE DEF x, y, c
<1>8. [i \in 1..n |-> c(i)] = [i \in 1..n |-> b[i]]
  BY <1>7
<1> QED
  BY <1>4, <1>5, <1>6, <1>8 DEF x, y

-----------------------------------------------------------------------------
(* The ledger: what Verify makes of it. *)

UpTo(S, i) == {j \in S : j <= i}

\* A set of numbers can be counted from the least: the n-th has n up to it.
LEMMA NthNumber ==
  ASSUME NEW S \in SUBSET Nat, IsFiniteSet(S), NEW n \in 1..Cardinality(S)
  PROVE  \E i \in S : Cardinality(UpTo(S, i)) = n
<1>1. Cardinality(S) \in Nat
  BY FS_CardinalityType
<1> DEFINE T == {k \in 1..Cardinality(S) : ~ \E i \in S : Cardinality(UpTo(S, i)) = k}
<1>2. ASSUME NEW m \in T, \A k \in T : m <= k PROVE FALSE
  <2>1. m \in 1..Cardinality(S) /\ m \in Nat
    BY <1>1
  <2>2. \E i \in S \cup {0} : Cardinality(UpTo(S, i)) = m - 1
    <3>1. CASE m > 1
      <4>1. m - 1 \in 1..Cardinality(S) /\ m - 1 \notin T
        <5>1. m - 1 \in 1..Cardinality(S) /\ ~(m <= m - 1)
          BY <1>1, <2>1, <3>1
        <5> HIDE DEF T
        <5> QED
          BY <1>2, <5>1
      <4>2. PICK i \in S : Cardinality(UpTo(S, i)) = m - 1
        BY <4>1
      <4> QED
        BY <4>2
    <3>2. CASE m = 1
      <4>1. CASE 0 \in S
        <5>1. UpTo(S, 0) = {0}
          <6>1. \A j \in S : j <= 0 <=> j = 0
            OBVIOUS
          <6> QED
            BY <4>1, <6>1 DEF UpTo
        <5>2. Cardinality(UpTo(S, 0)) = 1
          BY <5>1, FS_Singleton
        <5> QED
          BY <1>2, <3>2, <4>1, <5>2
      <4>2. CASE 0 \notin S
        <5>1. UpTo(S, 0) = {}
          <6>1. \A j \in S : ~(j <= 0)
            BY <4>2
          <6> QED
            BY <6>1 DEF UpTo
        <5>2. Cardinality({}) = 0
          BY FS_EmptySet
        <5> QED
          BY <3>2, <5>1, <5>2
      <4> QED
        BY <4>1, <4>2
    <3> QED
      BY <2>1, <3>1, <3>2
  <2>3. PICK i \in S \cup {0} : Cardinality(UpTo(S, i)) = m - 1
    BY <2>2
  <2> DEFINE R == S \ UpTo(S, i)
  <2>4. R # {} /\ R \in SUBSET Nat
    <3>1. UpTo(S, i) # S
      BY <1>1, <2>1, <2>3
    <3> QED
      BY <3>1 DEF UpTo
  <2>5. PICK l \in R : \A j \in R : l <= j
    <3> HIDE DEF R
    <3> QED
      BY <2>4, LeastNumber
  <2>6. UpTo(S, l) = UpTo(S, i) \cup {l} /\ l \notin UpTo(S, i) /\ l \in S
    <3>1. i \in Nat /\ l \in Nat /\ l \in S /\ ~(l <= i)
      BY <2>5 DEF UpTo
    <3>2. ASSUME NEW j \in S PROVE j <= l <=> (j <= i \/ j = l)
      <4>1. j \in Nat /\ (j <= i \/ l <= j)
        BY <2>5 DEF UpTo
      <4> QED
        BY <3>1, <4>1
    <3> QED
      BY <3>1, <3>2 DEF UpTo
  <2>7. IsFiniteSet(UpTo(S, i))
    BY FS_Subset DEF UpTo
  <2>8. Cardinality(UpTo(S, l)) = m
    <3>1. Cardinality(UpTo(S, i) \cup {l}) = Cardinality(UpTo(S, i)) + 1
      BY <2>6, <2>7, FS_AddElement
    <3> QED
      BY <2>1, <2>3, <2>6, <3>1
  <2> QED
    BY <1>2, <2>6, <2>8
<1>3. T \in SUBSET Nat
  BY <1>1
<1>4. T = {}
  <2> HIDE DEF T
  <2> QED
    BY <1>2, <1>3, LeastNumber
<1> QED
  BY <1>4

\* Each segment of a file is of cells of the file, at least one.
LEMMA SegmentsAreOfFile ==
  ASSUME NEW S, NEW log \in Seq(S), NEW n \in DOMAIN Segments(log)
  PROVE  /\ Segments(log)[n] \in Seq(S) /\ Segments(log)[n] # <<>>
         /\ \E i \in 1..Len(log) : Segments(log)[n][1] = log[i]
<1> DEFINE E == LineEnds(log)
           Nth(k) == CHOOSE i \in E : Cardinality({j \in E : j <= i}) = k
           end == Nth(n)
           begin == IF n = 1 THEN 0 ELSE Nth(n - 1)
<1>1. E \in SUBSET (1..Len(log)) /\ Len(log) \in Nat
  BY DEF LineEnds
<1>2. IsFiniteSet(E) /\ Cardinality(E) \in Nat
  <2>1. IsFiniteSet(1..Len(log))
    BY <1>1, FS_Interval
  <2> HIDE DEF E
  <2>2. IsFiniteSet(E)
    BY <1>1, <2>1, FS_Subset
  <2> QED
    BY <2>2, FS_CardinalityType
<1>3. n \in 1..Cardinality(E) /\ Segments(log)[n] = SubSeq(log, begin + 1, end)
  BY DEF Segments
<1> HIDE DEF E
<1>4. ASSUME NEW k \in 1..Cardinality(E)
      PROVE  Nth(k) \in E /\ Cardinality(UpTo(E, Nth(k))) = k
  <2>1. \E i \in E : Cardinality(UpTo(E, i)) = k
    BY <1>1, <1>2, <1>4, NthNumber
  <2> QED
    BY <2>1 DEF UpTo
<1>5. end \in E /\ Cardinality(UpTo(E, end)) = n
  BY <1>3, <1>4
<1>6. begin \in Nat /\ begin < end
  <2>1. CASE n = 1
    <3>1. begin = 0
      BY <2>1
    <3> HIDE DEF begin, end
    <3>2. end \in 1..Len(log)
      BY <1>1, <1>5
    <3> QED
      BY <1>1, <3>1, <3>2
  <2>2. CASE n # 1
    <3>1. n - 1 \in 1..Cardinality(E)
      BY <1>2, <1>3, <2>2
    <3>2. begin \in E /\ Cardinality(UpTo(E, begin)) = n - 1
      BY <1>4, <2>2, <3>1
    <3> HIDE DEF begin, end
    <3>3. begin \in Nat /\ end \in Nat
      BY <1>1, <1>5, <3>2
    <3>4. ASSUME end <= begin PROVE FALSE
      <4>1. UpTo(E, end) \subseteq UpTo(E, begin)
        <5>1. ASSUME NEW j \in E, j <= end PROVE j <= begin
          <6>1. j \in Nat
            BY <1>1, <5>1
          <6> QED
            BY <3>3, <3>4, <5>1, <6>1
        <5> QED
          BY <5>1 DEF UpTo
      <4>2. IsFiniteSet(UpTo(E, begin))
        BY <1>2, FS_Subset DEF UpTo
      <4>3. Cardinality(UpTo(E, end)) <= Cardinality(UpTo(E, begin))
        BY <4>1, <4>2, FS_Subset
      <4> QED
        BY <1>2, <1>3, <1>5, <3>2, <4>3
    <3> QED
      BY <3>3, <3>4
  <2> QED
    BY <2>1, <2>2
<1> HIDE DEF begin, end
<1>7. end \in 1..Len(log) /\ begin + 1 \in 1..Len(log) /\ begin + 1 <= end
  BY <1>1, <1>5, <1>6
<1>8. /\ SubSeq(log, begin + 1, end) \in Seq(S) /\ Len(SubSeq(log, begin + 1, end)) > 0
      /\ SubSeq(log, begin + 1, end)[1] = log[begin + 1]
  BY <1>7
<1> QED
  BY <1>3, <1>7, <1>8

\* In a chain the hash of an event stands for all events up to it.
LEMMA ChainCovers ==
  ASSUME NEW n \in Nat, NEW lines, DOMAIN lines = 1..n, Chained(lines), NEW m \in 1..n
  PROVE  lines[m].hash = [k \in 1..m |-> lines[k].event]
<1> DEFINE up(i) == [k \in 1..i |-> lines[k].event]
           T == {i \in 1..n : lines[i].hash # up(i)}
<1>1. ASSUME NEW i \in T, \A k \in T : i <= k PROVE FALSE
  <2>1. /\ i \in 1..n
        /\ lines[i].prev = IF i = 1 THEN <<>> ELSE lines[i - 1].hash
        /\ lines[i].hash = Append(lines[i].prev, lines[i].event)
    BY DEF Chained
  <2>2. lines[i].prev = up(i - 1)
    <3>1. CASE i = 1
      BY <2>1, <3>1
    <3>2. CASE i # 1
      <4>1. i - 1 \in 1..n /\ i - 1 \notin T
        BY <1>1, <2>1, <3>2
      <4> QED
        BY <2>1, <3>2, <4>1
    <3> QED
      BY <3>1, <3>2
  <2>3. lines[i].hash = up(i)
    <3> DEFINE S == {lines[k].event : k \in 1..i}
    <3>1. up(i - 1) \in [1..(i - 1) -> S] /\ lines[i].event \in S /\ i - 1 \in Nat
      BY <2>1
    <3>2. up(i - 1) \in Seq(S) /\ Len(up(i - 1)) = i - 1 /\ \A k \in 1..(i - 1) : up(i - 1)[k] = lines[k].event
      BY <3>1
    <3> DEFINE a == up(i - 1)
               x == lines[i].event
    <3>3. Append(a, x) = [k \in 1..i |-> IF k = i THEN x ELSE a[k]]
      <4> HIDE DEF a, x, S
      <4>1. Append(a, x) = [k \in 1..(Len(a) + 1) |-> IF k <= Len(a) THEN a[k] ELSE x]
        BY <3>1, <3>2 DEF a, x
      <4>2. Len(a) + 1 = i /\ i \in Nat
        BY <3>1, <3>2, <2>1 DEF a
      <4> QED
        BY <4>1, <4>2
    <3>4. \A k \in 1..i : (IF k = i THEN x ELSE a[k]) = lines[k].event
      BY <3>1, <3>2
    <3> HIDE DEF a, x
    <3>5. Append(a, x) = up(i)
      BY <3>3, <3>4
    <3> QED
      BY <2>1, <2>2, <3>5 DEF a, x
  <2> QED
    BY <1>1, <2>3
<1>2. T \in SUBSET Nat
  OBVIOUS
<1>3. T = {}
  <2> HIDE DEF T
  <2> QED
    BY <1>1, <1>2, LeastNumber
<1> QED
  BY <1>3

\* The lines of a file that is of cells of certain recordings are a beginning of
\* one of them, if they are a chain: the head of the last line has the hash of
\* all events before it.
LEMMA ChainsAreOfOne ==
  ASSUME NEW P, NEW rec, \A p \in P : rec[p] \in Recordings,
         NEW log \in Seq({Hole} \cup Bodies \cup UNION {Heads(rec[p]) : p \in P}),
         Readable(log), Chained(Lines(log))
  PROVE  \E p \in P : IsPrefix(EventsOf(Lines(log)), rec[p])
<1> DEFINE S == {Hole} \cup Bodies \cup UNION {Heads(rec[p]) : p \in P}
           n == Cardinality(LineEnds(log))
           lines == Lines(log)
           cells == Segments(log)[n]
<1>1. LineEnds(log) \subseteq 1..Len(log) /\ Len(log) \in Nat /\ LineEnds(log) # {}
  BY DEF LineEnds, Readable
<1>2. n \in Nat /\ n # 0
  <2>1. IsFiniteSet(1..Len(log))
    BY <1>1, FS_Interval
  <2>2. IsFiniteSet(LineEnds(log))
    BY <1>1, <2>1, FS_Subset
  <2> QED
    BY <1>1, <2>2, FS_CardinalityType, FS_EmptySet
<1>3. DOMAIN Segments(log) = 1..n /\ DOMAIN lines = 1..n
  BY DEF Segments, Lines
<1>4. n \in DOMAIN Segments(log) /\ IsLine(cells)
  BY <1>2, <1>3 DEF Readable
<1>5. /\ cells \in Seq(S) /\ cells # <<>> /\ cells[1] \in S /\ 1 \in DOMAIN cells
      /\ \E i \in 1..Len(log) : cells[1] = log[i]
  <2> HIDE DEF S
  <2>1. log \in Seq(S)
    BY DEF S
  <2>2. cells \in Seq(S) /\ cells # <<>> /\ \E i \in 1..Len(log) : cells[1] = log[i]
    BY <1>4, <2>1, SegmentsAreOfFile
  <2> HIDE DEF cells
  <2> QED
    BY <2>1, <2>2
<1>6. cells[1] # Hole /\ "prev" \in DOMAIN cells[1]
  BY <1>4, <1>5 DEF IsLine
<1>7. lines[n].hash = cells[1].hash
  BY <1>2, <1>3 DEF Lines
<1> HIDE DEF n, lines, cells
<1>8. cells[1] \notin Bodies
  <2> SUFFICES ASSUME cells[1] \in Bodies PROVE FALSE
    OBVIOUS
  <2>1. DOMAIN cells[1] = {"event", "last", "k"}
    BY DEF Bodies
  <2> QED
    BY <1>6, <2>1
<1>9. PICK p \in P : cells[1] \in Heads(rec[p])
  BY <1>5, <1>6, <1>8 DEF S
<1>10. PICK i \in DOMAIN rec[p] : cells[1] = [prev |-> Prefix(rec[p], i - 1), hash |-> Prefix(rec[p], i), last |-> FALSE]
  BY <1>9 DEF Heads
<1> DEFINE r == rec[p]
<1>11. r \in Seq(DOMAIN Size) /\ i \in 1..Len(r)
  BY <1>10, RecordingsAssumption
<1>12. lines[n].hash = SubSeq(r, 1, i)
  <2>1. cells[1].hash = Prefix(r, i)
    BY <1>10
  <2> QED
    BY <1>7, <2>1 DEF Prefix
<1> HIDE DEF r
<1>13. Chained(lines)
  BY DEF lines
<1>14. EventsOf(lines) = SubSeq(r, 1, i)
  <2>1. lines[n].hash = [k \in 1..n |-> lines[k].event]
    BY <1>2, <1>3, <1>13, ChainCovers
  <2>2. EventsOf(lines) = [k \in 1..n |-> lines[k].event]
    BY <1>3 DEF EventsOf
  <2> QED
    BY <1>12, <2>1, <2>2
<1>15. IsPrefix(SubSeq(r, 1, i), r)
  <2>1. Len(SubSeq(r, 1, i)) = i /\ i <= Len(r) /\ SubSeq(r, 1, i) \in Seq(DOMAIN Size)
    BY <1>11
  <2>2. SubSeq(SubSeq(r, 1, i), 1, i) = SubSeq(r, 1, i)
    BY <1>11, <2>1
  <2> QED
    BY <2>1, <2>2 DEF IsPrefix
<1> QED
  BY <1>14, <1>15 DEF r, lines

-----------------------------------------------------------------------------
(* The ledger: the inductive invariant. *)

Begun == {p \in Runners : at[p] # "idle"}
Known == {Hole} \cup Bodies \cup UNION {Heads(recorded[p]) : p \in Begun}

\* Whatever is in the ledger somebody who has begun may have put there.
CellsAreKnown ==
  /\ at \in [Runners -> {"idle", "recording", "flushed", "digested", "filling", "ended"}]
  /\ offset \in [Runners -> Nat]
  /\ recorded = [p \in Runners |-> recorded[p]] /\ digested = [p \in Runners |-> digested[p]]
  /\ \A p \in Begun : recorded[p] \in Recordings
  /\ \A p \in Runners : at[p] = "recording" => offset[p] <= Len(Bytes(recorded[p]))
  /\ ledger \in Seq(Known)

\* What Verify has read is of one of them from its beginning.
EventsTold ==
  /\ check = [pc |-> check.pc, lines |-> check.lines, digest |-> check.digest, pack |-> check.pack]
  /\ check.pc # "unread" => \E p \in Begun : IsPrefix(EventsOf(check.lines), recorded[p])

\* A process that is alone has written what it has recorded and digests just
\* that; of such a process is the pack there is.
OneAtATime ==
  ~intertwined =>
    /\ \A p, q \in Underway : p = q
    /\ \A p \in Runners :
         /\ at[p] = "recording" => ledger = SubSeq(Bytes(recorded[p]), 1, offset[p])
         /\ at[p] = "flushed" => ledger = Bytes(recorded[p])
         /\ at[p] \in {"digested", "filling"} => digested[p] = Bytes(recorded[p])
    /\ pack \notin {NoPack, CutPack, MixedPack} => pack.ledger = Bytes(pack.of)
    /\ AcceptedPackIsOfItsLedger

LedgerInvariant == CellsAreKnown /\ EventsTold /\ OneAtATime

LEMMA LedgerBegins == SharedInit => LedgerInvariant
<1> SUFFICES ASSUME SharedInit PROVE LedgerInvariant
  OBVIOUS
<1>1. Begun = {} /\ Underway = {}
  BY DEF SharedInit, Begun, Underway
<1>2. CellsAreKnown
  <2>1. ledger \in Seq(Known)
    BY DEF SharedInit
  <2> QED
    BY <1>1, <2>1 DEF SharedInit, CellsAreKnown
<1>3. EventsTold
  BY DEF SharedInit, EventsTold, Unread
<1>4. OneAtATime
  BY <1>1 DEF SharedInit, OneAtATime, AcceptedPackIsOfItsLedger, Unread
<1> QED
  BY <1>2, <1>3, <1>4 DEF LedgerInvariant

LEMMA CreateLedgerKeeps ==
  ASSUME LedgerInvariant, NEW p \in Runners, CreateLedger(p)
  PROVE  LedgerInvariant'
<1> USE DEF LedgerInvariant
<1>1. PICK r \in Recordings : recorded' = [recorded EXCEPT ![p] = r]
  BY DEF CreateLedger
<1>2. /\ at[p] = "idle" /\ at' = [at EXCEPT ![p] = "recording"] /\ offset' = [offset EXCEPT ![p] = 0]
      /\ ledger' = <<>> /\ intertwined' = (intertwined \/ Underway # {})
      /\ digested' = digested /\ pack' = pack /\ check' = check
  BY DEF CreateLedger
<1>3. Begun' = Begun \cup {p} /\ p \notin Begun
  BY <1>2 DEF Begun, CellsAreKnown
<1>4. recorded'[p] = r /\ \A q \in Runners \ {p} : recorded'[q] = recorded[q]
  BY <1>1 DEF CellsAreKnown
<1>5. Bytes(r) \in Seq(Heads(r) \cup Bodies)
  BY BytesAreCells
<1>6. CellsAreKnown'
  <2>1. ledger' \in Seq(Known')
    BY <1>2
  <2>2. \A q \in Begun' : recorded'[q] \in Recordings
    BY <1>3, <1>4 DEF CellsAreKnown, Begun
  <2>3. ASSUME NEW q \in Runners, at'[q] = "recording" PROVE offset'[q] <= Len(Bytes(recorded'[q]))
    <3>1. CASE q = p
      <4>1. offset'[q] = 0 /\ Len(Bytes(r)) \in Nat
        BY <1>2, <1>5, <3>1 DEF CellsAreKnown
      <4> QED
        BY <1>4, <3>1, <4>1
    <3>2. CASE q # p
      BY <1>2, <1>4, <2>3, <3>2 DEF CellsAreKnown
    <3> QED
      BY <3>1, <3>2
  <2>4. /\ at' \in [Runners -> {"idle", "recording", "flushed", "digested", "filling", "ended"}]
        /\ offset' \in [Runners -> Nat] /\ digested' = [q \in Runners |-> digested'[q]]
        /\ recorded' = [q \in Runners |-> recorded'[q]]
    BY <1>1, <1>2 DEF CellsAreKnown
  <2> QED
    BY <2>1, <2>2, <2>3, <2>4 DEF CellsAreKnown
<1>7. EventsTold'
  <2>1. ASSUME check.pc # "unread" PROVE \E q \in Begun' : IsPrefix(EventsOf(check.lines), recorded'[q])
    <3>1. PICK q \in Begun : IsPrefix(EventsOf(check.lines), recorded[q])
      BY <2>1 DEF EventsTold
    <3>2. recorded'[q] = recorded[q] /\ q \in Begun'
      BY <1>3, <1>4, <3>1 DEF Begun
    <3> QED
      BY <3>1, <3>2
  <2> QED
    BY <1>2, <2>1 DEF EventsTold
<1>8. OneAtATime'
  <2> SUFFICES ASSUME ~intertwined' PROVE OneAtATime'
    BY DEF OneAtATime
  <2>1. Underway = {} /\ ~intertwined
    BY <1>2
  <2>2. \A q \in Runners \ {p} : at'[q] = at[q] /\ at[q] \in {"idle", "ended"}
    BY <1>2, <2>1 DEF CellsAreKnown, Underway
  <2>3. at'[p] = "recording" /\ offset'[p] = 0
    BY <1>2 DEF CellsAreKnown
  <2>4. SubSeq(Bytes(recorded'[p]), 1, 0) = <<>>
    BY <1>4, <1>5
  <2>5. \A q, s \in Underway' : q = s
    BY <2>2 DEF Underway
  <2>6. AcceptedPackIsOfItsLedger'
    BY <1>2, <2>1 DEF OneAtATime, AcceptedPackIsOfItsLedger
  <2> QED
    BY <1>2, <2>1, <2>2, <2>3, <2>4, <2>5, <2>6 DEF OneAtATime
<1> QED
  BY <1>6, <1>7, <1>8

\* Nobody begins.
LEMMA StillBegun ==
  ASSUME CellsAreKnown, NEW p \in Begun, NEW s \in {"recording", "flushed", "digested", "filling", "ended"},
         at' = [at EXCEPT ![p] = s] \/ at' = at, recorded' = recorded
  PROVE  Begun' = Begun /\ Known' = Known
<1>1. Begun' = Begun
  BY DEF Begun, CellsAreKnown
<1> QED
  BY <1>1 DEF Known

LEMMA FlushedKeeps ==
  ASSUME LedgerInvariant, NEW p \in Runners, at[p] = "recording",
         NEW n \in offset[p]..Len(Bytes(recorded[p])),
         Flushed(p, SubSeq(Bytes(recorded[p]), offset[p] + 1, n)),
         \/ at' = at
         \/ at' = [at EXCEPT ![p] = "flushed"] /\ n = Len(Bytes(recorded[p]))
  PROVE  LedgerInvariant'
<1> USE DEF LedgerInvariant
<1> DEFINE b == Bytes(recorded[p])
           m == offset[p]
           cells == SubSeq(b, m + 1, n)
           H == Heads(recorded[p]) \cup Bodies
<1>1. /\ ledger' = Written(ledger, m, cells) /\ offset' = [offset EXCEPT ![p] = @ + Len(cells)]
      /\ recorded' = recorded /\ digested' = digested /\ pack' = pack /\ check' = check
      /\ intertwined' = intertwined
  BY DEF Flushed
<1>2. p \in Begun /\ recorded[p] \in Recordings /\ m \in Nat
  BY DEF Begun, CellsAreKnown
<1>3. b \in Seq(H) /\ Len(b) \in Nat
  BY <1>2, BytesAreCells
<1>4. Begun' = Begun /\ Known' = Known
  BY <1>1, <1>2, StillBegun
<1>5. H \subseteq Known
  BY <1>2 DEF Known
<1>6. m \in 0..Len(b) /\ n \in m..Len(b) /\ n \in Nat
  BY <1>2, <1>3 DEF CellsAreKnown
<1> HIDE DEF b, m, H
<1>7. cells \in Seq(H) /\ Len(cells) = n - m
  BY <1>3, <1>6
<1>8. ledger' \in Seq(Known')
  <2>1. cells \in Seq(Known)
    BY <1>5, <1>7
  <2>2. Hole \in Known /\ ledger \in Seq(Known)
    BY DEF Known, CellsAreKnown
  <2> HIDE DEF cells
  <2> QED
    BY <1>1, <1>2, <1>4, <2>1, <2>2, WrittenCells
<1>9. offset'[p] = n /\ \A q \in Runners \ {p} : offset'[q] = offset[q]
  BY <1>1, <1>2, <1>6, <1>7 DEF CellsAreKnown, m
<1>10. CellsAreKnown'
  <2>1. offset' \in [Runners -> Nat]
    BY <1>1, <1>2, <1>6, <1>7 DEF CellsAreKnown, m
  <2>2. at' \in [Runners -> {"idle", "recording", "flushed", "digested", "filling", "ended"}]
    BY DEF CellsAreKnown
  <2>3. ASSUME NEW q \in Runners, at'[q] = "recording" PROVE offset'[q] <= Len(Bytes(recorded'[q]))
    <3>1. CASE q = p
      BY <1>1, <1>3, <1>6, <1>9, <3>1 DEF b
    <3>2. CASE q # p
      BY <1>1, <1>9, <2>3, <3>2 DEF CellsAreKnown
    <3> QED
      BY <3>1, <3>2
  <2> QED
    BY <1>1, <1>4, <1>8, <2>1, <2>2, <2>3 DEF CellsAreKnown
<1>11. EventsTold'
  BY <1>1, <1>4 DEF EventsTold
<1>12. OneAtATime'
  <2> SUFFICES ASSUME ~intertwined' PROVE OneAtATime'
    BY DEF OneAtATime
  <2>1. ~intertwined
    BY <1>1
  <2>2. p \in Underway /\ Underway' = Underway
    BY DEF Underway, CellsAreKnown
  <2>3. \A q \in Runners \ {p} : at'[q] = at[q] /\ at[q] \in {"idle", "ended"}
    BY <2>1, <2>2 DEF OneAtATime, CellsAreKnown, Underway
  <2>4. ledger = SubSeq(b, 1, m)
    BY <2>1 DEF OneAtATime, b, m
  <2>5. ledger' = SubSeq(b, 1, n)
    BY <1>1, <1>3, <1>6, <2>4, WrittenOn
  <2>6. at'[p] = "recording" => ledger' = SubSeq(Bytes(recorded'[p]), 1, offset'[p])
    BY <1>1, <1>9, <2>5 DEF b
  <2>7. at'[p] = "flushed" => ledger' = Bytes(recorded'[p])
    <3>1. SubSeq(b, 1, Len(b)) = b
      BY <1>3
    <3> QED
      BY <1>1, <2>5, <3>1 DEF b, CellsAreKnown
  <2>8. at'[p] \in {"recording", "flushed"}
    BY DEF CellsAreKnown
  <2>9. AcceptedPackIsOfItsLedger'
    BY <1>1, <2>1 DEF OneAtATime, AcceptedPackIsOfItsLedger
  <2> QED
    BY <1>1, <2>1, <2>2, <2>3, <2>6, <2>7, <2>8, <2>9 DEF OneAtATime
<1> QED
  BY <1>10, <1>11, <1>12

\* A step of one process that leaves ledger and recordings alone.
LEMMA StepAside ==
  ASSUME LedgerInvariant, NEW p \in Underway,
         NEW s \in {"digested", "filling", "ended"}, at' = [at EXCEPT ![p] = s],
         recorded' = recorded, offset' = offset, ledger' = ledger, check' = check,
         digested' = [q \in Runners |-> digested'[q]]
  PROVE  CellsAreKnown' /\ EventsTold' /\ Underway' \subseteq Underway
<1> USE DEF LedgerInvariant
<1>1. Begun' = Begun /\ Known' = Known /\ p \in Begun
  <2>1. p \in Begun
    BY DEF Underway, Begun
  <2> QED
    BY <2>1, StillBegun
<1>2. CellsAreKnown'
  BY <1>1 DEF CellsAreKnown, Begun
<1>3. EventsTold'
  BY <1>1 DEF EventsTold
<1>4. Underway' \subseteq Underway
  <2>1. \A q \in Runners : q # p => at'[q] = at[q]
    BY DEF CellsAreKnown
  <2> QED
    BY <2>1 DEF Underway
<1> QED
  BY <1>2, <1>3, <1>4

LEMMA DigestLedgerKeeps ==
  ASSUME LedgerInvariant, NEW p \in Runners, DigestLedger(p)
  PROVE  LedgerInvariant'
<1> USE DEF LedgerInvariant
<1>1. /\ at[p] = "flushed" /\ at' = [at EXCEPT ![p] = "digested"]
      /\ digested' = [digested EXCEPT ![p] = ledger]
      /\ recorded' = recorded /\ offset' = offset /\ ledger' = ledger /\ pack' = pack
      /\ check' = check /\ intertwined' = intertwined
  BY DEF DigestLedger
<1>2. p \in Underway /\ digested' = [q \in Runners |-> digested'[q]]
  BY <1>1 DEF Underway, CellsAreKnown
<1>3. CellsAreKnown' /\ EventsTold' /\ Underway' \subseteq Underway
  BY <1>1, <1>2, StepAside
<1>4. OneAtATime'
  <2> SUFFICES ASSUME ~intertwined' PROVE OneAtATime'
    BY DEF OneAtATime
  <2>1. ~intertwined
    BY <1>1
  <2>2. digested'[p] = Bytes(recorded'[p]) /\ at'[p] = "digested"
    BY <1>1, <2>1 DEF OneAtATime, CellsAreKnown
  <2>3. \A q \in Runners \ {p} : at'[q] = at[q] /\ digested'[q] = digested[q]
    BY <1>1 DEF CellsAreKnown
  <2>4. AcceptedPackIsOfItsLedger'
    BY <1>1, <2>1 DEF OneAtATime, AcceptedPackIsOfItsLedger
  <2> QED
    BY <1>1, <1>3, <2>1, <2>2, <2>3, <2>4 DEF OneAtATime
<1> QED
  BY <1>3, <1>4

LEMMA EvidenceKeeps ==
  ASSUME LedgerInvariant, NEW p \in Runners, CutEvidence(p) \/ FillEvidence(p) \/ GiveUp(p)
  PROVE  LedgerInvariant'
<1> USE DEF LedgerInvariant
<1>1. PICK s \in {"filling", "ended"} : at' = [at EXCEPT ![p] = s]
  BY DEF CutEvidence, FillEvidence, GiveUp, Ended
<1>2. /\ digested' = digested /\ recorded' = recorded /\ offset' = offset /\ ledger' = ledger
      /\ check' = check /\ intertwined' = intertwined
  BY DEF CutEvidence, FillEvidence, GiveUp
<1>3. p \in Begun /\ p \in Underway /\ (s = "filling" => at[p] = "digested")
  <2>1. at[p] \notin {"idle", "ended"} /\ (s = "filling" => at[p] = "digested")
    BY <1>1 DEF CutEvidence, FillEvidence, GiveUp, Underway, Ended, CellsAreKnown
  <2> QED
    BY <2>1 DEF Begun, Underway
<1>4. CellsAreKnown' /\ EventsTold' /\ Underway' \subseteq Underway
  BY <1>1, <1>2, <1>3, StepAside DEF CellsAreKnown
<1>5. OneAtATime'
  <2> SUFFICES ASSUME ~intertwined' PROVE OneAtATime'
    BY DEF OneAtATime
  <2>1. ~intertwined
    BY <1>2
  <2>2. \A q \in Runners \ {p} : at'[q] = at[q]
    BY <1>1 DEF CellsAreKnown
  <2>3. at'[p] = s /\ (s = "filling" => digested[p] = Bytes(recorded[p]))
    BY <1>1, <1>3, <2>1 DEF OneAtATime, CellsAreKnown
  <2>4. ASSUME pack' \notin {NoPack, CutPack, MixedPack} PROVE pack'.ledger = Bytes(pack'.of)
    <3>1. CASE CutEvidence(p)
      BY <2>4, <3>1 DEF CutEvidence
    <3>2. CASE FillEvidence(p)
      <4>1. pack' = PackOf(recorded[p], digested[p])
        BY <2>4, <3>2 DEF FillEvidence
      <4>2. digested[p] = Bytes(recorded[p])
        BY <2>1, <3>2 DEF OneAtATime, FillEvidence
      <4>3. pack'.of = recorded[p] /\ pack'.ledger = digested[p]
        BY <4>1 DEF PackOf
      <4> QED
        BY <4>2, <4>3
    <3>3. CASE GiveUp(p)
      BY <2>1, <2>4, <3>3 DEF OneAtATime, GiveUp
    <3> QED
      BY <3>1, <3>2, <3>3
  <2>5. AcceptedPackIsOfItsLedger'
    BY <1>2, <2>1 DEF OneAtATime, AcceptedPackIsOfItsLedger
  <2>6. \A q, t \in Underway' : q = t
    BY <1>4, <2>1 DEF OneAtATime
  <2>7. ASSUME NEW q \in Runners
        PROVE  /\ at'[q] = "recording" => ledger' = SubSeq(Bytes(recorded'[q]), 1, offset'[q])
               /\ at'[q] = "flushed" => ledger' = Bytes(recorded'[q])
               /\ at'[q] \in {"digested", "filling"} => digested'[q] = Bytes(recorded'[q])
    <3>1. CASE q = p
      BY <1>1, <1>2, <2>3, <3>1
    <3>2. CASE q # p
      BY <1>2, <2>1, <2>2, <3>2 DEF OneAtATime
    <3> QED
      BY <3>1, <3>2
  <2> QED
    BY <2>4, <2>5, <2>6, <2>7 DEF OneAtATime
<1> QED
  BY <1>4, <1>5

LEMMA WriteKeeps ==
  ASSUME LedgerInvariant, NEW p \in Runners, WriteChunk(p) \/ FlushLedger(p)
  PROVE  LedgerInvariant'
<1> DEFINE b == Bytes(recorded[p])
<1>1. at[p] = "recording"
  BY DEF WriteChunk, FlushLedger
<1>2. Len(b) \in Nat /\ offset[p] \in Nat /\ offset[p] <= Len(b)
  <2>1. p \in Begun
    BY <1>1 DEF Begun
  <2>2. b \in Seq(Heads(recorded[p]) \cup Bodies)
    BY <2>1, BytesAreCells DEF LedgerInvariant, CellsAreKnown
  <2> HIDE DEF b
  <2>3. Len(b) \in Nat
    BY <2>2
  <2> QED
    BY <1>1, <2>3 DEF LedgerInvariant, CellsAreKnown, b
<1>3. CASE WriteChunk(p)
  <2>1. Flushed(p, SubSeq(b, offset[p] + 1, offset[p] + Chunk)) /\ at' = at /\ offset[p] + Chunk < Len(b)
    BY <1>3 DEF WriteChunk
  <2> HIDE DEF b
  <2>2. offset[p] + Chunk \in offset[p]..Len(b)
    BY <1>2, <2>1, ChunkAssumption
  <2> QED
    BY <1>1, <2>1, <2>2, FlushedKeeps DEF b
<1>4. CASE FlushLedger(p)
  <2>1. Flushed(p, SubSeq(b, offset[p] + 1, Len(b))) /\ at' = [at EXCEPT ![p] = "flushed"]
    BY <1>4 DEF FlushLedger
  <2> HIDE DEF b
  <2>2. Len(b) \in offset[p]..Len(b)
    BY <1>2
  <2> QED
    BY <1>1, <2>1, <2>2, FlushedKeeps DEF b
<1> QED
  BY <1>3, <1>4

\* Verify looks on.
LEMMA VerifyKeeps ==
  ASSUME LedgerInvariant, ReadEvents \/ ReadDigest \/ ReadPack
  PROVE  LedgerInvariant'
<1> USE DEF LedgerInvariant
<1>1. /\ at' = at /\ recorded' = recorded /\ offset' = offset /\ digested' = digested /\ ledger' = ledger
      /\ pack' = pack /\ intertwined' = intertwined
  BY DEF ReadEvents, ReadDigest, ReadPack, Checked
<1>2. Begun' = Begun /\ Known' = Known /\ Underway' = Underway
  BY <1>1 DEF Begun, Known, Underway
<1>3. CellsAreKnown'
  BY <1>1, <1>2 DEF CellsAreKnown
<1>4. EventsTold'
  <2>1. CASE ReadEvents
    <3>1. Readable(ledger) /\ Chained(Lines(ledger))
      BY <2>1 DEF ReadEvents
    <3>2. \E p \in Begun : IsPrefix(EventsOf(Lines(ledger)), recorded[p])
      BY <3>1, ChainsAreOfOne DEF CellsAreKnown, Known
    <3>3. check' = [pc |-> "read", lines |-> Lines(ledger), digest |-> <<>>, pack |-> NoPack]
      BY <2>1 DEF ReadEvents, Checked, Unread
    <3> QED
      BY <1>1, <1>2, <3>2, <3>3 DEF EventsTold
  <2>2. CASE ReadDigest
    <3>1. check' = [check EXCEPT !.pc = "digest", !.digest = ledger] /\ check.pc = "read"
      BY <2>2 DEF ReadDigest, Checked
    <3> QED
      BY <1>1, <1>2, <3>1 DEF EventsTold
  <2>3. CASE ReadPack
    <3>1. check' = [check EXCEPT !.pc = "accepted", !.pack = pack] \/ check' = Unread
      BY <2>3 DEF ReadPack, Checked
    <3>2. \E p \in Begun : IsPrefix(EventsOf(check.lines), recorded[p])
      BY <2>3 DEF ReadPack, EventsTold
    <3>3. CASE check' = Unread
      BY <3>3 DEF EventsTold, Unread
    <3>4. CASE check' = [check EXCEPT !.pc = "accepted", !.pack = pack]
      <4>1. check' = [pc |-> "accepted", lines |-> check.lines, digest |-> check.digest, pack |-> pack]
        BY <3>4 DEF EventsTold
      <4> QED
        BY <1>1, <1>2, <3>2, <4>1 DEF EventsTold
    <3> QED
      BY <3>1, <3>3, <3>4
  <2> QED
    BY <2>1, <2>2, <2>3
<1>5. OneAtATime'
  <2> SUFFICES ASSUME ~intertwined' PROVE OneAtATime'
    BY DEF OneAtATime
  <2>1. ~intertwined
    BY <1>1
  <2>2. ASSUME check'.pc = "accepted" PROVE check'.digest = Bytes(check'.pack.of)
    <3>1. ReadPack /\ Accepts(check, pack) /\ check' = [check EXCEPT !.pc = "accepted", !.pack = pack]
      <4>1. ~ReadEvents
        BY <2>2 DEF ReadEvents, Checked, Unread
      <4>2. ~ReadDigest
        <5> SUFFICES ASSUME ReadDigest PROVE FALSE
          OBVIOUS
        <5>1. check' = [check EXCEPT !.pc = "digest", !.digest = ledger]
          BY DEF ReadDigest, Checked
        <5>2. check'.pc = "digest"
          BY <5>1 DEF EventsTold
        <5> QED
          BY <2>2, <5>2
      <4>3. check' # Unread
        BY <2>2 DEF Unread
      <4> QED
        BY <4>1, <4>2, <4>3 DEF ReadPack, Checked
    <3>2. check'.digest = check.digest /\ check'.pack = pack
      BY <3>1 DEF EventsTold
    <3>3. pack.ledger = Bytes(pack.of) /\ pack.ledger = check.digest
      BY <2>1, <3>1 DEF Accepts, DigestMatches, OneAtATime
    <3> QED
      BY <3>2, <3>3
  <2>3. AcceptedPackIsOfItsLedger'
    BY <2>2 DEF AcceptedPackIsOfItsLedger
  <2> QED
    BY <1>1, <1>2, <2>1, <2>3 DEF OneAtATime
<1> QED
  BY <1>3, <1>4, <1>5

\* The inductive invariant of overlapping runs: what is in the ledger, what Verify
\* has read of it, and what a run alone leaves (run/executor.go:70-80).
THEOREM LedgerInvariantHolds == SharedSpec => []LedgerInvariant
<1>1. LedgerInvariant /\ [SharedNext]_sharedVars => LedgerInvariant'
  <2> SUFFICES ASSUME LedgerInvariant, [SharedNext]_sharedVars PROVE LedgerInvariant'
    OBVIOUS
  <2>1. ASSUME NEW p \in Runners, CreateLedger(p) PROVE LedgerInvariant'
    BY <2>1, CreateLedgerKeeps
  <2>2. ASSUME NEW p \in Runners, WriteChunk(p) \/ FlushLedger(p) PROVE LedgerInvariant'
    BY <2>2, WriteKeeps
  <2>3. ASSUME NEW p \in Runners, DigestLedger(p) PROVE LedgerInvariant'
    BY <2>3, DigestLedgerKeeps
  <2>4. ASSUME NEW p \in Runners, CutEvidence(p) \/ FillEvidence(p) \/ GiveUp(p) PROVE LedgerInvariant'
    BY <2>4, EvidenceKeeps
  <2>5. CASE ReadEvents \/ ReadDigest \/ ReadPack
    BY <2>5, VerifyKeeps
  <2>6. CASE UNCHANGED sharedVars
    <3>1. Begun' = Begun /\ Known' = Known /\ Underway' = Underway
      BY <2>6 DEF Begun, Known, Underway, sharedVars
    <3> QED
      BY <2>6, <3>1 DEF sharedVars, LedgerInvariant, CellsAreKnown, EventsTold, OneAtATime,
                        AcceptedPackIsOfItsLedger
  <2> QED
    BY <2>1, <2>2, <2>3, <2>4, <2>5, <2>6 DEF SharedNext
<1> QED
  BY <1>1, LedgerBegins, PTL DEF SharedSpec

\* However two runs write over each other and over a Verify, the events it accepts
\* are what one of them recorded, from its beginning: for any number of processes,
\* recordings and length of a buffer (run/executor.go:70-80, verify/verifier.go:109-129).
THEOREM EventsAreOfOneRun == SharedSpec => []AcceptedEventsAreOfOneRun
<1>1. LedgerInvariant => AcceptedEventsAreOfOneRun
  BY DEF LedgerInvariant, EventsTold, AcceptedEventsAreOfOneRun, Begun
<1> QED
  BY <1>1, LedgerInvariantHolds, PTL

\* If the runs did not overlap, the digest stands for the whole ledger of the run
\* the pack is of (verify/verifier.go:20-45).
THEOREM PacksAreOfTheirLedger == SharedSpec => []AcceptedPackIsOfItsLedger
<1>1. LedgerInvariant => AcceptedPackIsOfItsLedger
  BY DEF LedgerInvariant, OneAtATime, AcceptedPackIsOfItsLedger
<1> QED
  BY <1>1, LedgerInvariantHolds, PTL

-----------------------------------------------------------------------------
(* The release: what a manifest lists. *)

IsSequence(s) == s \in Seq(ToSet(s))

IsArtifact(a) ==
  /\ a = [kind |-> "artifact", name |-> a.name, path |-> a.name, target |-> a.target,
          sum |-> a.sum, attestations |-> a.attestations]
  /\ IsSequence(a.attestations)
IsAttestation(e) == e = [kind |-> "attestation", name |-> e.name, path |-> e.path, sum |-> e.sum]
IsSupplement(e) ==
  /\ e = [kind |-> e.kind, name |-> e.name, path |-> e.name, sum |-> e.sum]
  /\ e.kind \in {"sbom", "provenance"}

\* The places of a manifest: <<i, 0>> is its i-th binary, <<i, t>> the t-th
\* attestation of that, <<0, j>> the j-th supplemental file.
Places(arts, sups) ==
  {<<i, 0>> : i \in DOMAIN arts} \cup {<<0, j>> : j \in DOMAIN sups} \cup
  UNION {{<<i, t>> : t \in DOMAIN arts[i].attestations} : i \in DOMAIN arts}

ListedAt(arts, sups, p) ==
  IF p[1] = 0 THEN sups[p[2]]
  ELSE IF p[2] = 0 THEN arts[p[1]] ELSE arts[p[1]].attestations[p[2]]

WellShaped(arts, sups) ==
  /\ IsSequence(arts) /\ IsSequence(sups)
  /\ \A i \in DOMAIN arts :
       IsArtifact(arts[i]) /\ \A t \in DOMAIN arts[i].attestations : IsAttestation(arts[i].attestations[t])
  /\ \A j \in DOMAIN sups : IsSupplement(sups[j])

\* No two entries of a manifest have one path.
PathsApart(arts, sups) ==
  \A p, q \in Places(arts, sups) :
    ListedAt(arts, sups, p).path = ListedAt(arts, sups, q).path => p = q

WellListed(arts, sups) == WellShaped(arts, sups) /\ PathsApart(arts, sups)

LEMMA ShapedLists ==
  ASSUME NEW arts, NEW sups, WellShaped(arts, sups)
  PROVE  /\ DOMAIN arts = 1..Len(arts) /\ DOMAIN sups = 1..Len(sups)
         /\ Len(arts) \in Nat /\ Len(sups) \in Nat
         /\ \A i \in 1..Len(arts) :
              /\ arts[i].attestations \in Seq(ToSet(arts[i].attestations))
              /\ Len(arts[i].attestations) \in Nat
              /\ DOMAIN arts[i].attestations = 1..Len(arts[i].attestations)
BY DEF WellShaped, IsSequence, IsArtifact

LEMMA PlaceIs ==
  ASSUME NEW arts, NEW sups, WellShaped(arts, sups), NEW p \in Places(arts, sups)
  PROVE  \/ \E i \in 1..Len(arts) : p = <<i, 0>> /\ ListedAt(arts, sups, p) = arts[i]
         \/ \E j \in 1..Len(sups) : p = <<0, j>> /\ ListedAt(arts, sups, p) = sups[j]
         \/ \E i \in 1..Len(arts) : \E t \in 1..Len(arts[i].attestations) :
              p = <<i, t>> /\ ListedAt(arts, sups, p) = arts[i].attestations[t]
<1>1. DOMAIN arts = 1..Len(arts) /\ DOMAIN sups = 1..Len(sups) /\ Len(arts) \in Nat /\ Len(sups) \in Nat
      /\ \A i \in DOMAIN arts : /\ Len(arts[i].attestations) \in Nat
                                /\ DOMAIN arts[i].attestations = 1..Len(arts[i].attestations)
  BY ShapedLists
<1>2. ASSUME NEW i \in DOMAIN arts, p = <<i, 0>> PROVE ListedAt(arts, sups, p) = arts[i]
  BY <1>1, <1>2 DEF ListedAt
<1>3. ASSUME NEW j \in DOMAIN sups, p = <<0, j>> PROVE ListedAt(arts, sups, p) = sups[j]
  BY <1>1, <1>3 DEF ListedAt
<1>4. ASSUME NEW i \in DOMAIN arts, NEW t \in DOMAIN arts[i].attestations, p = <<i, t>>
      PROVE  ListedAt(arts, sups, p) = arts[i].attestations[t]
  BY <1>1, <1>4 DEF ListedAt
<1> QED
  BY <1>1, <1>2, <1>3, <1>4 DEF Places

LEMMA PlacesThereAre ==
  ASSUME NEW arts, NEW sups, WellShaped(arts, sups)
  PROVE  /\ \A i \in 1..Len(arts) :
              <<i, 0>> \in Places(arts, sups) /\ ListedAt(arts, sups, <<i, 0>>) = arts[i]
         /\ \A i \in 1..Len(arts) : \A t \in 1..Len(arts[i].attestations) :
              /\ <<i, t>> \in Places(arts, sups)
              /\ ListedAt(arts, sups, <<i, t>>) = arts[i].attestations[t]
         /\ \A j \in 1..Len(sups) :
              <<0, j>> \in Places(arts, sups) /\ ListedAt(arts, sups, <<0, j>>) = sups[j]
<1>1. DOMAIN arts = 1..Len(arts) /\ DOMAIN sups = 1..Len(sups) /\ Len(arts) \in Nat /\ Len(sups) \in Nat
      /\ \A i \in DOMAIN arts : /\ Len(arts[i].attestations) \in Nat
                                /\ DOMAIN arts[i].attestations = 1..Len(arts[i].attestations)
  BY ShapedLists
<1>2. ASSUME NEW i \in 1..Len(arts)
      PROVE  <<i, 0>> \in Places(arts, sups) /\ ListedAt(arts, sups, <<i, 0>>) = arts[i]
  BY <1>1 DEF Places, ListedAt
<1>3. ASSUME NEW i \in 1..Len(arts), NEW t \in 1..Len(arts[i].attestations)
      PROVE  /\ <<i, t>> \in Places(arts, sups)
             /\ ListedAt(arts, sups, <<i, t>>) = arts[i].attestations[t]
  BY <1>1 DEF Places, ListedAt
<1>4. ASSUME NEW j \in 1..Len(sups)
      PROVE  <<0, j>> \in Places(arts, sups) /\ ListedAt(arts, sups, <<0, j>>) = sups[j]
  BY <1>1 DEF Places, ListedAt
<1> QED
  BY <1>2, <1>3, <1>4

\* writeChecksums lists what is at the places of a manifest.
LEMMA EntriesAreListed ==
  ASSUME NEW arts, NEW sups, WellShaped(arts, sups)
  PROVE  Entries(arts, sups) = {ListedAt(arts, sups, p) : p \in Places(arts, sups)}
<1> DEFINE n == Len(arts)
           s == [i \in DOMAIN arts |-> arts[i].attestations]
           S == UNION {ToSet(arts[i].attestations) : i \in DOMAIN arts}
           G == FlattenSeq(s)
<1>1. /\ n \in Nat /\ DOMAIN arts = 1..n /\ DOMAIN sups = 1..Len(sups)
      /\ \A i \in 1..n : arts[i].attestations \in Seq(ToSet(arts[i].attestations))
  BY ShapedLists
<1>2. s \in [1..n -> Seq(S)]
  <2>1. \A i \in 1..n : ToSet(arts[i].attestations) \subseteq S
    BY <1>1
  <2>2. \A i \in 1..n : arts[i].attestations \in Seq(S)
    BY <1>1, <2>1
  <2> QED
    BY <1>1, <2>2
<1>3. G \in Seq(S) /\ \E off : Lies(G, s, off, n)
  <2> HIDE DEF s, S
  <2> QED
    BY <1>1, <1>2, FlattenedPlaces
<1>4. PICK off : Lies(G, s, off, n)
  BY <1>3
<1>5. ToSet(G) = {e \in S : TRUE}
  <2>1. DOMAIN G = 1..off[n]
    BY <1>3, <1>4 DEF Lies
  <2>2. ASSUME NEW i \in 1..n, NEW t \in 1..Len(s[i]) PROVE s[i][t] \in ToSet(G)
    <3>1. off[i - 1] + t \in 1..off[n] /\ G[off[i - 1] + t] = s[i][t]
      BY <1>4 DEF Lies
    <3> QED
      BY <2>1, <3>1 DEF ToSet
  <2>3. S \subseteq ToSet(G)
    <3>1. \A i \in 1..n : s[i] = arts[i].attestations /\ DOMAIN arts[i].attestations = 1..Len(s[i])
      BY <1>1
    <3>2. ASSUME NEW i \in 1..n, NEW t \in DOMAIN arts[i].attestations
          PROVE  arts[i].attestations[t] \in ToSet(G)
      BY <2>2, <3>1
    <3> HIDE DEF G, s
    <3> QED
      BY <1>1, <3>2 DEF ToSet
  <2>4. ToSet(G) \subseteq S
    BY <1>3 DEF ToSet
  <2> QED
    BY <2>3, <2>4
<1>6. AttestationsOf(arts) = G
  BY DEF AttestationsOf
<1>7. ASSUME NEW e \in Entries(arts, sups)
      PROVE  e \in {ListedAt(arts, sups, p) : p \in Places(arts, sups)}
  <2>1. CASE e \in ToSet(arts)
    <3>1. PICK i \in 1..n : e = arts[i]
      BY <1>1, <2>1 DEF ToSet
    <3>2. <<i, 0>> \in Places(arts, sups) /\ ListedAt(arts, sups, <<i, 0>>) = e
      BY <3>1, PlacesThereAre
    <3> QED
      BY <3>2, Zenon
  <2>2. CASE e \in ToSet(sups)
    <3>1. PICK j \in 1..Len(sups) : e = sups[j]
      BY <1>1, <2>2 DEF ToSet
    <3>2. <<0, j>> \in Places(arts, sups) /\ ListedAt(arts, sups, <<0, j>>) = e
      BY <3>1, PlacesThereAre
    <3> QED
      BY <3>2, Zenon
  <2>3. CASE e \in S
    <3>1. PICK i \in 1..n : e \in ToSet(arts[i].attestations)
      BY <1>1, <2>3
    <3>2. PICK t \in 1..Len(arts[i].attestations) : e = arts[i].attestations[t]
      BY <1>1, <3>1 DEF ToSet
    <3>3. /\ <<i, t>> \in Places(arts, sups)
          /\ ListedAt(arts, sups, <<i, t>>) = arts[i].attestations[t]
      <4>1. i \in 1..Len(arts)
        OBVIOUS
      <4> HIDE DEF n, s, S, G
      <4> QED
        BY <4>1, PlacesThereAre
    <3>4. ListedAt(arts, sups, <<i, t>>) = e
      BY <3>2, <3>3
    <3> QED
      BY <3>3, <3>4, Zenon
  <2> HIDE DEF G, S
  <2> QED
    BY <1>5, <1>6, <2>1, <2>2, <2>3 DEF Entries
<1>8. ASSUME NEW p \in Places(arts, sups) PROVE ListedAt(arts, sups, p) \in Entries(arts, sups)
  <2>1. CASE \E i \in 1..Len(arts) : p = <<i, 0>> /\ ListedAt(arts, sups, p) = arts[i]
    BY <1>1, <2>1 DEF Entries, ToSet
  <2>2. CASE \E j \in 1..Len(sups) : p = <<0, j>> /\ ListedAt(arts, sups, p) = sups[j]
    BY <1>1, <2>2 DEF Entries, ToSet
  <2>3. CASE \E i \in 1..Len(arts) : \E t \in 1..Len(arts[i].attestations) :
               p = <<i, t>> /\ ListedAt(arts, sups, p) = arts[i].attestations[t]
    <3>1. PICK i \in 1..Len(arts) : \E t \in 1..Len(arts[i].attestations) :
            ListedAt(arts, sups, p) = arts[i].attestations[t]
      BY <2>3
    <3>2. ListedAt(arts, sups, p) \in ToSet(arts[i].attestations)
      BY <1>1, <3>1 DEF ToSet
    <3>3. ListedAt(arts, sups, p) \in S
      BY <1>1, <3>2
    <3> HIDE DEF G, S
    <3> QED
      BY <1>5, <1>6, <3>3 DEF Entries
  <2> QED
    BY <2>1, <2>2, <2>3, PlaceIs
<1> QED
  BY <1>7, <1>8

\* Verify goes through a manifest place by place, each binary before its own
\* attestations (publication_verify.go:78-212).
LEMMA ListingGoesThrough ==
  ASSUME NEW m, WellListed(m.artifacts, m.supplements)
  PROVE  LET L == Listing(m) IN
         /\ L \in Seq(Entries(m.artifacts, m.supplements))
         /\ \A e \in Entries(m.artifacts, m.supplements) : \E x \in 1..Len(L) : L[x] = e
         /\ \A x, y \in 1..Len(L) : L[x].path = L[y].path => x = y
         /\ \A x \in 1..Len(L) : \A i \in 1..Len(m.artifacts) : L[x] = m.artifacts[i] =>
              \A t \in 1..Len(m.artifacts[i].attestations) :
                x + t \in 1..Len(L) /\ L[x + t] = m.artifacts[i].attestations[t]
<1> DEFINE arts == m.artifacts
           sups == m.supplements
           n == Len(arts)
           s == [i \in DOMAIN arts |-> <<arts[i]>> \o arts[i].attestations]
           S == Entries(arts, sups)
           G == FlattenSeq(s)
           L == Listing(m)
<1>0. WellShaped(arts, sups) /\ PathsApart(arts, sups)
  BY DEF WellListed
<1>1. /\ n \in Nat /\ DOMAIN arts = 1..n /\ Len(sups) \in Nat /\ DOMAIN sups = 1..Len(sups)
      /\ \A i \in 1..n : /\ arts[i].attestations \in Seq(ToSet(arts[i].attestations))
                         /\ Len(arts[i].attestations) \in Nat
  BY <1>0, ShapedLists
<1>2. \A p \in Places(arts, sups) : ListedAt(arts, sups, p) \in S
  BY <1>0, EntriesAreListed
<1>3. ASSUME NEW i \in 1..n
      PROVE  /\ s[i] \in Seq(S) /\ Len(s[i]) = 1 + Len(arts[i].attestations) /\ s[i][1] = arts[i]
             /\ \A t \in 1..Len(arts[i].attestations) : s[i][t + 1] = arts[i].attestations[t]
  <2> DEFINE a == arts[i]
             b == arts[i].attestations
  <2>1. a \in S /\ \A t \in 1..Len(b) : b[t] \in S
    <3>1. /\ <<i, 0>> \in Places(arts, sups) /\ ListedAt(arts, sups, <<i, 0>>) = a
          /\ \A t \in 1..Len(b) : <<i, t>> \in Places(arts, sups) /\ ListedAt(arts, sups, <<i, t>>) = b[t]
      BY <1>0, PlacesThereAre
    <3> HIDE DEF S
    <3> QED
      BY <1>2, <3>1
  <2>2. b \in Seq(S) /\ <<a>> \in Seq(S) /\ Len(<<a>>) = 1
    <3>1. b \in Seq(ToSet(b)) /\ Len(b) \in Nat
      BY <1>1
    <3> HIDE DEF S, a, b
    <3> QED
      BY <2>1, <3>1
  <2>3. s[i] = <<a>> \o b
    BY <1>1
  <2> HIDE DEF S, a, b, s
  <2>4. /\ s[i] \in Seq(S) /\ Len(s[i]) = 1 + Len(b)
        /\ \A k \in 1..(1 + Len(b)) : s[i][k] = IF k <= 1 THEN <<a>>[k] ELSE b[k - 1]
    BY <2>2, <2>3, ConcatProperties
  <2>5. s[i][1] = a /\ \A t \in 1..Len(b) : s[i][t + 1] = b[t]
    <3>1. Len(b) \in Nat /\ <<a>>[1] = a
      BY <2>2
    <3>2. s[i][1] = a
      BY <2>4, <3>1
    <3>3. ASSUME NEW t \in 1..Len(b) PROVE s[i][t + 1] = b[t]
      <4>1. t + 1 \in 1..(1 + Len(b)) /\ ~(t + 1 <= 1) /\ (t + 1) - 1 = t
        BY <3>1
      <4> QED
        BY <2>4, <4>1
    <3> QED
      BY <3>2, <3>3
  <2> QED
    BY <2>4, <2>5 DEF a, b
<1>4. s \in [1..n -> Seq(S)]
  <2> HIDE DEF S
  <2>1. DOMAIN s = 1..n /\ s = [i \in DOMAIN s |-> s[i]]
    BY <1>1
  <2> HIDE DEF s
  <2> QED
    BY <1>3, <2>1
<1>5. G \in Seq(S) /\ \E off : Lies(G, s, off, n)
  <2> HIDE DEF s, S
  <2> QED
    BY <1>1, <1>4, FlattenedPlaces
<1>6. PICK off : Lies(G, s, off, n)
  BY <1>5
<1>7. sups \in Seq(S)
  <2>1. \A j \in 1..Len(sups) : sups[j] \in S
    <3> HIDE DEF S, arts, sups
    <3>1. ASSUME NEW j \in 1..Len(sups)
          PROVE  <<0, j>> \in Places(arts, sups) /\ ListedAt(arts, sups, <<0, j>>) = sups[j]
      BY <1>0, PlacesThereAre
    <3> QED
      BY <1>2, <3>1
  <2>2. sups = [j \in 1..Len(sups) |-> sups[j]] /\ Len(sups) \in Nat
    <3>1. sups \in Seq(ToSet(sups))
      BY <1>0 DEF WellShaped, IsSequence
    <3> QED
      BY <1>1, <3>1
  <2> HIDE DEF S, sups
  <2>3. sups \in [1..Len(sups) -> S]
    BY <2>1, <2>2, Zenon
  <2> QED
    BY <2>2, <2>3
<1>8. L = G \o sups
  BY DEF Listing
<1> DEFINE pos(p) == IF p[1] = 0 THEN off[n] + p[2] ELSE off[p[1] - 1] + (p[2] + 1)
           there(p) == ListedAt(arts, sups, p)
<1>9. /\ L \in Seq(S) /\ Len(L) = off[n] + Len(sups)
      /\ \A k \in 1..(off[n] + Len(sups)) : L[k] = IF k <= off[n] THEN G[k] ELSE sups[k - off[n]]
      /\ off[n] \in Nat
  <2>1. Len(G) = off[n] /\ off[n] \in Nat
    BY <1>1, <1>6 DEF Lies
  <2> HIDE DEF G, S, L, sups
  <2>2. G \in Seq(S) /\ sups \in Seq(S)
    BY <1>5, <1>7
  <2>3. /\ G \o sups \in Seq(S) /\ Len(G \o sups) = Len(G) + Len(sups)
        /\ \A k \in 1..(Len(G) + Len(sups)) :
             (G \o sups)[k] = IF k <= Len(G) THEN G[k] ELSE sups[k - Len(G)]
    BY <2>2, ConcatProperties, Zenon
  <2> QED
    BY <1>8, <2>1, <2>3, Zenon
<1> HIDE DEF G, S, L, s
<1>10. ASSUME NEW i \in 1..n, NEW t \in 0..Len(arts[i].attestations)
       PROVE  pos(<<i, t>>) \in 1..Len(L) /\ L[pos(<<i, t>>)] = s[i][t + 1]
  <2>1. t + 1 \in 1..Len(s[i]) /\ <<i, t>>[1] = i /\ <<i, t>>[2] = t /\ i # 0
    BY <1>1, <1>3
  <2>2. off[i - 1] + (t + 1) \in 1..off[n] /\ G[off[i - 1] + (t + 1)] = s[i][t + 1]
    BY <1>6, <2>1 DEF Lies
  <2>3. pos(<<i, t>>) = off[i - 1] + (t + 1)
    BY <2>1
  <2> QED
    BY <1>1, <1>9, <2>2, <2>3
<1>11. ASSUME NEW j \in 1..Len(sups)
       PROVE  pos(<<0, j>>) \in 1..Len(L) /\ L[pos(<<0, j>>)] = sups[j]
  <2>1. pos(<<0, j>>) = off[n] + j
    OBVIOUS
  <2> HIDE DEF pos
  <2>2. off[n] + j \in 1..(off[n] + Len(sups)) /\ ~(off[n] + j <= off[n]) /\ (off[n] + j) - off[n] = j
    BY <1>1, <1>9
  <2> QED
    BY <1>9, <2>1, <2>2
<1>12. ASSUME NEW p \in Places(arts, sups) PROVE pos(p) \in 1..Len(L) /\ L[pos(p)] = there(p)
  <2>1. CASE \E i \in 1..Len(arts) : p = <<i, 0>> /\ there(p) = arts[i]
    <3>1. PICK i \in 1..n : p = <<i, 0>> /\ there(p) = arts[i]
      BY <2>1
    <3>2. 0 \in 0..Len(arts[i].attestations) /\ 0 + 1 = 1
      BY <1>1
    <3>3. s[i][0 + 1] = arts[i]
      BY <1>3, <3>2
    <3> HIDE DEF pos, there, arts, n
    <3>4. pos(<<i, 0>>) \in 1..Len(L) /\ L[pos(<<i, 0>>)] = s[i][0 + 1]
      BY <1>10, <3>2
    <3> QED
      BY <3>1, <3>3, <3>4
  <2>2. CASE \E j \in 1..Len(sups) : p = <<0, j>> /\ there(p) = sups[j]
    <3> HIDE DEF pos, there
    <3> QED
      BY <2>2, <1>11
  <2>3. CASE \E i \in 1..Len(arts) : \E t \in 1..Len(arts[i].attestations) :
               p = <<i, t>> /\ there(p) = arts[i].attestations[t]
    <3>0. PICK i \in 1..n : \E t \in 1..Len(arts[i].attestations) :
            p = <<i, t>> /\ there(p) = arts[i].attestations[t]
      BY <2>3
    <3>1. PICK t \in 1..Len(arts[i].attestations) : p = <<i, t>> /\ there(p) = arts[i].attestations[t]
      BY <3>0
    <3>2. t \in 0..Len(arts[i].attestations)
      BY <1>1
    <3>3. s[i][t + 1] = arts[i].attestations[t]
      BY <1>3
    <3> HIDE DEF pos, there, arts, n
    <3>4. pos(<<i, t>>) \in 1..Len(L) /\ L[pos(<<i, t>>)] = s[i][t + 1]
      BY <1>10, <3>2
    <3> QED
      BY <3>1, <3>3, <3>4
  <2> QED
    BY <2>1, <2>2, <2>3, <1>0, PlaceIs
<1>13. ASSUME NEW x \in 1..Len(L) PROVE \E p \in Places(arts, sups) : x = pos(p)
  <2>1. CASE x <= off[n]
    <3>0. x \in 1..off[n]
      BY <1>9, <2>1
    <3>1. PICK i \in 1..n : \E t \in 1..Len(s[i]) : x = off[i - 1] + t
      BY <1>6, <3>0 DEF Lies
    <3>2. PICK t \in 1..Len(s[i]) : x = off[i - 1] + t
      BY <3>1
    <3>3. t - 1 \in 0..Len(arts[i].attestations) /\ (t - 1) + 1 = t /\ i # 0
      <4>1. Len(s[i]) = 1 + Len(arts[i].attestations) /\ Len(arts[i].attestations) \in Nat
        BY <1>1, <1>3
      <4> QED
        BY <4>1
    <3>4. <<i, t - 1>> \in Places(arts, sups)
      <4>1. t - 1 = 0 \/ t - 1 \in 1..Len(arts[i].attestations)
        BY <1>1, <3>3
      <4> QED
        BY <4>1, <1>0, PlacesThereAre
    <3>5. pos(<<i, t - 1>>) = x
      BY <3>2, <3>3
    <3> QED
      BY <3>4, <3>5
  <2>2. CASE ~(x <= off[n])
    <3>1. x - off[n] \in 1..Len(sups) /\ off[n] + (x - off[n]) = x
      BY <1>1, <1>9, <2>2
    <3>2. <<0, x - off[n]>> \in Places(arts, sups)
      BY <3>1, <1>0, PlacesThereAre
    <3>3. pos(<<0, x - off[n]>>) = x
      BY <3>1
    <3> QED
      BY <3>2, <3>3
  <2> QED
    BY <2>1, <2>2
<1> HIDE DEF pos, there
<1>14. ASSUME NEW x \in 1..Len(L), NEW y \in 1..Len(L), L[x].path = L[y].path PROVE x = y
  <2>1. PICK p \in Places(arts, sups) : x = pos(p)
    BY <1>13
  <2>2. PICK q \in Places(arts, sups) : y = pos(q)
    BY <1>13
  <2>3. there(p).path = there(q).path
    BY <1>12, <1>14, <2>1, <2>2
  <2> QED
    BY <2>1, <2>2, <2>3, <1>0 DEF PathsApart, there
<1>15. ASSUME NEW x \in 1..Len(L), NEW i \in 1..n, L[x] = arts[i],
              NEW t \in 1..Len(arts[i].attestations)
       PROVE  x + t \in 1..Len(L) /\ L[x + t] = arts[i].attestations[t]
  <2>1. /\ pos(<<i, 0>>) \in 1..Len(L) /\ L[pos(<<i, 0>>)] = arts[i]
        /\ pos(<<i, t>>) \in 1..Len(L) /\ L[pos(<<i, t>>)] = arts[i].attestations[t]
    <3>1. 0 \in 0..Len(arts[i].attestations) /\ t \in 0..Len(arts[i].attestations) /\ 0 + 1 = 1
      BY <1>1
    <3>2. s[i][0 + 1] = arts[i] /\ s[i][t + 1] = arts[i].attestations[t]
      BY <1>3, <3>1
    <3> HIDE DEF pos, arts
    <3>3. pos(<<i, 0>>) \in 1..Len(L) /\ L[pos(<<i, 0>>)] = s[i][0 + 1]
      BY <1>10, <3>1
    <3>4. pos(<<i, t>>) \in 1..Len(L) /\ L[pos(<<i, t>>)] = s[i][t + 1]
      BY <1>10, <3>1
    <3> QED
      BY <3>2, <3>3, <3>4
  <2>2. x = pos(<<i, 0>>)
    BY <1>14, <1>15, <2>1
  <2>3. pos(<<i, t>>) = pos(<<i, 0>>) + t
    <3>1. pos(<<i, 0>>) = off[i - 1] + (0 + 1) /\ pos(<<i, t>>) = off[i - 1] + (t + 1)
      BY DEF pos
    <3>2. off[i - 1] \in Nat /\ t \in Nat
      <4>1. off \in [0..n -> Nat] /\ i - 1 \in 0..n /\ Len(arts[i].attestations) \in Nat
        BY <1>1, <1>6 DEF Lies
      <4> QED
        BY <4>1
    <3> QED
      BY <3>1, <3>2, SMTT(20)
  <2> QED
    BY <2>1, <2>2, <2>3
<1>16. ASSUME NEW e \in S PROVE \E x \in 1..Len(L) : L[x] = e
  <2>1. PICK p \in Places(arts, sups) : e = there(p)
    BY <1>0, EntriesAreListed DEF S, there
  <2> QED
    BY <1>12, <2>1
<1> QED
  BY <1>9, <1>14, <1>15, <1>16 DEF L, S

\* One more entry, a, is listed; the others differ at most in their attestations.
Alike(e, f) ==
  /\ e.path = f.path /\ e.sum = f.sum /\ e.kind = f.kind
  /\ e.kind = "artifact" => e.target = f.target

Adds(arts, sups, arts2, sups2, a) ==
  \A p \in Places(arts2, sups2) :
    \/ ListedAt(arts2, sups2, p) = a
    \/ p \in Places(arts, sups) /\ Alike(ListedAt(arts2, sups2, p), ListedAt(arts, sups, p))

\* Its path is one that none has.
LEMMA PlaceAdded ==
  ASSUME NEW arts, NEW sups, NEW arts2, NEW sups2, NEW z,
         WellShaped(arts, sups), PathsApart(arts, sups),
         \A p \in Places(arts2, sups2) : p # z =>
           /\ p \in Places(arts, sups)
           /\ ListedAt(arts2, sups2, p).path = ListedAt(arts, sups, p).path,
         \A e \in Entries(arts, sups) : e.path # ListedAt(arts2, sups2, z).path
  PROVE  PathsApart(arts2, sups2)
<1>1. \A p \in Places(arts, sups) : ListedAt(arts, sups, p) \in Entries(arts, sups)
  BY EntriesAreListed
<1>2. \A p \in Places(arts2, sups2) : p # z =>
        ListedAt(arts2, sups2, p).path # ListedAt(arts2, sups2, z).path
  BY <1>1
<1> QED
  BY <1>2 DEF PathsApart

LEMMA ArtifactListed ==
  ASSUME NEW arts, NEW sups, WellListed(arts, sups), NEW name, NEW target, NEW digest,
         \A e \in Entries(arts, sups) : e.path # name
  PROVE  LET arts2 == Append(arts, Artifact(name, target, digest))
         IN WellListed(arts2, sups) /\ Adds(arts, sups, arts2, sups, Artifact(name, target, digest))
<1> DEFINE a == Artifact(name, target, digest)
           arts2 == Append(arts, a)
<1>1. WellShaped(arts, sups) /\ PathsApart(arts, sups)
  BY DEF WellListed
<1>2. IsArtifact(a) /\ a.attestations = <<>> /\ a.path = name
  <2>1. a.attestations = <<>> /\ <<>> \in Seq(ToSet(<<>>))
    BY DEF Artifact
  <2> QED
    BY <2>1 DEF IsArtifact, Artifact, IsSequence
<1> HIDE DEF a
<1>3. arts \in Seq(ToSet(arts)) /\ Len(arts) \in Nat /\ DOMAIN arts = 1..Len(arts)
      /\ DOMAIN sups = 1..Len(sups)
  BY <1>1, ShapedLists DEF WellShaped, IsSequence
<1>4. /\ Len(arts2) = Len(arts) + 1 /\ arts2[Len(arts) + 1] = a
      /\ \A i \in 1..Len(arts) : arts2[i] = arts[i]
  BY <1>3
<1>5. arts2 \in Seq(ToSet(arts2))
  <2>1. arts2 \in Seq(ToSet(arts) \cup {a})
    BY <1>3
  <2>2. \A i \in 1..Len(arts2) : arts2[i] \in ToSet(arts2)
    BY <2>1 DEF ToSet
  <2> HIDE DEF arts2
  <2> QED
    BY <2>1, <2>2
<1>6. DOMAIN arts2 = 1..(Len(arts) + 1)
  BY <1>4, <1>5
<1> HIDE DEF arts2
<1>7. \A i \in 1..(Len(arts) + 1) : i \in 1..Len(arts) \/ i = Len(arts) + 1
  BY <1>3
<1>8. WellShaped(arts2, sups)
  <2>1. ASSUME NEW i \in 1..(Len(arts) + 1)
        PROVE  IsArtifact(arts2[i]) /\ \A t \in DOMAIN arts2[i].attestations :
                                         IsAttestation(arts2[i].attestations[t])
    BY <1>1, <1>2, <1>3, <1>4, <1>7 DEF WellShaped
  <2> QED
    BY <1>1, <1>5, <1>6, <2>1 DEF WellShaped, IsSequence
<1> DEFINE z == <<Len(arts) + 1, 0>>
<1>9. z \in Places(arts2, sups) /\ ListedAt(arts2, sups, z) = a
  BY <1>3, <1>4, <1>8, PlacesThereAre
<1>10. ASSUME NEW p \in Places(arts2, sups), p # z
       PROVE  p \in Places(arts, sups) /\ ListedAt(arts2, sups, p) = ListedAt(arts, sups, p)
  <2>1. CASE \E i \in 1..Len(arts2) : p = <<i, 0>> /\ ListedAt(arts2, sups, p) = arts2[i]
    <3>1. PICK i \in 1..Len(arts2) : p = <<i, 0>> /\ ListedAt(arts2, sups, p) = arts2[i]
      BY <2>1
    <3>2. i \in 1..Len(arts) /\ arts2[i] = arts[i]
      BY <1>4, <1>7, <1>10, <3>1
    <3> QED
      BY <1>1, <3>1, <3>2, PlacesThereAre
  <2>2. CASE \E j \in 1..Len(sups) : p = <<0, j>> /\ ListedAt(arts2, sups, p) = sups[j]
    <3>1. PICK j \in 1..Len(sups) : p = <<0, j>> /\ ListedAt(arts2, sups, p) = sups[j]
      BY <2>2
    <3> QED
      BY <1>1, <3>1, PlacesThereAre
  <2>3. CASE \E i \in 1..Len(arts2) : \E t \in 1..Len(arts2[i].attestations) :
               p = <<i, t>> /\ ListedAt(arts2, sups, p) = arts2[i].attestations[t]
    <3>1. PICK i \in 1..Len(arts2) : \E t \in 1..Len(arts2[i].attestations) :
               p = <<i, t>> /\ ListedAt(arts2, sups, p) = arts2[i].attestations[t]
      BY <2>3
    <3>2. PICK t \in 1..Len(arts2[i].attestations) :
               p = <<i, t>> /\ ListedAt(arts2, sups, p) = arts2[i].attestations[t]
      BY <3>1
    <3>3. i \in 1..Len(arts) /\ arts2[i] = arts[i]
      <4>1. i # Len(arts) + 1
        <5>1. Len(<<>>) = 0 /\ 1..0 = {}
          OBVIOUS
        <5> QED
          BY <1>2, <1>4, <3>2, <5>1
      <4> QED
        BY <1>4, <1>7, <4>1
    <3> QED
      BY <1>1, <3>2, <3>3, PlacesThereAre
  <2> QED
    BY <1>8, <2>1, <2>2, <2>3, PlaceIs
<1> HIDE DEF z
<1>11. PathsApart(arts2, sups)
  BY <1>1, <1>2, <1>9, <1>10, PlaceAdded
<1>12. Adds(arts, sups, arts2, sups, a)
  BY <1>9, <1>10 DEF Adds, Alike
<1> QED
  BY <1>8, <1>11, <1>12 DEF WellListed, arts2, a

LEMMA SupplementListed ==
  ASSUME NEW arts, NEW sups, WellListed(arts, sups), NEW kind \in {"sbom", "provenance"},
         NEW name, NEW digest, \A e \in Entries(arts, sups) : e.path # name
  PROVE  LET sups2 == Append(sups, Supplemental(kind, name, digest))
         IN WellListed(arts, sups2) /\ Adds(arts, sups, arts, sups2, Supplemental(kind, name, digest))
<1> DEFINE a == Supplemental(kind, name, digest)
           sups2 == Append(sups, a)
<1>1. WellShaped(arts, sups) /\ PathsApart(arts, sups)
  BY DEF WellListed
<1>2. IsSupplement(a) /\ a.path = name
  BY DEF IsSupplement, Supplemental
<1> HIDE DEF a
<1>3. sups \in Seq(ToSet(sups)) /\ Len(sups) \in Nat /\ DOMAIN sups = 1..Len(sups)
      /\ DOMAIN arts = 1..Len(arts)
  BY <1>1, ShapedLists DEF WellShaped, IsSequence
<1>4. /\ Len(sups2) = Len(sups) + 1 /\ sups2[Len(sups) + 1] = a
      /\ \A i \in 1..Len(sups) : sups2[i] = sups[i]
  BY <1>3
<1>5. sups2 \in Seq(ToSet(sups2))
  <2>1. sups2 \in Seq(ToSet(sups) \cup {a})
    BY <1>3
  <2>2. \A i \in 1..Len(sups2) : sups2[i] \in ToSet(sups2)
    BY <2>1 DEF ToSet
  <2> HIDE DEF sups2
  <2> QED
    BY <2>1, <2>2
<1>6. DOMAIN sups2 = 1..(Len(sups) + 1)
  BY <1>4, <1>5
<1> HIDE DEF sups2
<1>7. \A i \in 1..(Len(sups) + 1) : i \in 1..Len(sups) \/ i = Len(sups) + 1
  BY <1>3
<1>8. WellShaped(arts, sups2)
  <2>1. \A i \in 1..(Len(sups) + 1) : IsSupplement(sups2[i])
    BY <1>1, <1>2, <1>3, <1>4, <1>7 DEF WellShaped
  <2> QED
    BY <1>1, <1>5, <1>6, <2>1 DEF WellShaped, IsSequence
<1> DEFINE z == <<0, Len(sups) + 1>>
<1>9. z \in Places(arts, sups2) /\ ListedAt(arts, sups2, z) = a
  BY <1>3, <1>4, <1>8, PlacesThereAre
<1>10. ASSUME NEW p \in Places(arts, sups2), p # z
       PROVE  p \in Places(arts, sups) /\ ListedAt(arts, sups2, p) = ListedAt(arts, sups, p)
  <2>1. CASE \E i \in 1..Len(arts) : p = <<i, 0>> /\ ListedAt(arts, sups2, p) = arts[i]
    <3>1. PICK i \in 1..Len(arts) : p = <<i, 0>> /\ ListedAt(arts, sups2, p) = arts[i]
      BY <2>1
    <3> QED
      BY <1>1, <3>1, PlacesThereAre
  <2>2. CASE \E j \in 1..Len(sups2) : p = <<0, j>> /\ ListedAt(arts, sups2, p) = sups2[j]
    <3>1. PICK j \in 1..Len(sups2) : p = <<0, j>> /\ ListedAt(arts, sups2, p) = sups2[j]
      BY <2>2
    <3>2. j \in 1..Len(sups) /\ sups2[j] = sups[j]
      BY <1>4, <1>7, <1>10, <3>1
    <3> QED
      BY <1>1, <3>1, <3>2, PlacesThereAre
  <2>3. CASE \E i \in 1..Len(arts) : \E t \in 1..Len(arts[i].attestations) :
               p = <<i, t>> /\ ListedAt(arts, sups2, p) = arts[i].attestations[t]
    <3>1. PICK i \in 1..Len(arts) : \E t \in 1..Len(arts[i].attestations) :
               p = <<i, t>> /\ ListedAt(arts, sups2, p) = arts[i].attestations[t]
      BY <2>3
    <3>2. PICK t \in 1..Len(arts[i].attestations) :
               p = <<i, t>> /\ ListedAt(arts, sups2, p) = arts[i].attestations[t]
      BY <3>1
    <3> QED
      BY <1>1, <3>2, PlacesThereAre
  <2> QED
    BY <1>8, <2>1, <2>2, <2>3, PlaceIs
<1> HIDE DEF z
<1>11. PathsApart(arts, sups2)
  BY <1>1, <1>2, <1>9, <1>10, PlaceAdded
<1>12. Adds(arts, sups, arts, sups2, a)
  BY <1>9, <1>10 DEF Adds, Alike
<1> QED
  BY <1>8, <1>11, <1>12 DEF WellListed, sups2, a

LEMMA AttestationListed ==
  ASSUME NEW arts, NEW sups, WellListed(arts, sups), NEW i \in 1..Len(arts), NEW name, NEW path,
         NEW digest, \A e \in Entries(arts, sups) : e.path # path
  PROVE  LET arts2 == [arts EXCEPT ![i].attestations = Append(@, Attestation(name, path, digest))]
         IN WellListed(arts2, sups) /\ Adds(arts, sups, arts2, sups, Attestation(name, path, digest))
<1> DEFINE a == Attestation(name, path, digest)
           b == arts[i].attestations
           b2 == Append(b, a)
           arts2 == [arts EXCEPT ![i].attestations = Append(@, a)]
<1>1. WellShaped(arts, sups) /\ PathsApart(arts, sups)
  BY DEF WellListed
<1>2. IsAttestation(a) /\ a.path = path
  BY DEF IsAttestation, Attestation
<1> HIDE DEF a
<1>3. arts \in Seq(ToSet(arts)) /\ Len(arts) \in Nat /\ DOMAIN arts = 1..Len(arts)
      /\ DOMAIN sups = 1..Len(sups)
  BY <1>1, ShapedLists DEF WellShaped, IsSequence
<1>4. b \in Seq(ToSet(b)) /\ Len(b) \in Nat /\ DOMAIN b = 1..Len(b)
  BY <1>1, ShapedLists
<1>5. /\ Len(b2) = Len(b) + 1 /\ b2[Len(b) + 1] = a /\ \A t \in 1..Len(b) : b2[t] = b[t]
      /\ b2 \in Seq(ToSet(b2)) /\ DOMAIN b2 = 1..(Len(b) + 1)
  <2> HIDE DEF b
  <2>1. b2 \in Seq(ToSet(b) \cup {a})
    BY <1>4
  <2>2. \A t \in 1..Len(b2) : b2[t] \in ToSet(b2)
    BY <2>1 DEF ToSet
  <2>3. Len(b2) = Len(b) + 1 /\ b2[Len(b) + 1] = a /\ \A t \in 1..Len(b) : b2[t] = b[t]
    BY <1>4
  <2> HIDE DEF b2
  <2> QED
    BY <2>1, <2>2, <2>3
<1>6. \A t \in 1..(Len(b) + 1) : t \in 1..Len(b) \/ t = Len(b) + 1
  BY <1>4
<1>7. arts2 = [arts EXCEPT ![i] = [arts[i] EXCEPT !.attestations = b2]]
  BY <1>3
<1> HIDE DEF b2, arts2
<1>8. /\ DOMAIN arts2 = 1..Len(arts) /\ \A k \in 1..Len(arts) : k # i => arts2[k] = arts[k]
      /\ arts2[i] = [arts[i] EXCEPT !.attestations = b2]
      /\ arts2 \in Seq(ToSet(arts2)) /\ Len(arts2) = Len(arts)
  <2>1. DOMAIN arts2 = 1..Len(arts) /\ arts2 = [k \in 1..Len(arts) |-> arts2[k]]
    BY <1>3, <1>7
  <2>2. \A k \in 1..Len(arts) : k # i => arts2[k] = arts[k]
    BY <1>3, <1>7
  <2>3. arts2[i] = [arts[i] EXCEPT !.attestations = b2]
    BY <1>3, <1>7
  <2>4. arts2 \in [1..Len(arts) -> ToSet(arts2)]
    BY <2>1 DEF ToSet
  <2> QED
    BY <1>3, <2>1, <2>2, <2>3, <2>4
<1>9. IsArtifact(arts2[i]) /\ arts2[i].attestations = b2 /\ Alike(arts2[i], arts[i])
  <2>1. IsArtifact(arts[i])
    BY <1>1, <1>3 DEF WellShaped
  <2>2. arts2[i] = [kind |-> "artifact", name |-> arts[i].name, path |-> arts[i].name,
                    target |-> arts[i].target, sum |-> arts[i].sum, attestations |-> b2]
    BY <1>8, <2>1 DEF IsArtifact
  <2>3. arts[i].path = arts[i].name /\ arts[i].kind = "artifact"
    BY <2>1 DEF IsArtifact
  <2>4. Alike(arts2[i], arts[i])
    BY <2>2, <2>3 DEF Alike
  <2> QED
    BY <1>5, <2>2, <2>4 DEF IsArtifact, IsSequence
<1>10. WellShaped(arts2, sups)
  <2>1. \A t \in DOMAIN b2 : IsAttestation(b2[t])
    BY <1>1, <1>2, <1>3, <1>4, <1>5, <1>6 DEF WellShaped
  <2>2. ASSUME NEW k \in 1..Len(arts)
        PROVE  IsArtifact(arts2[k]) /\ \A t \in DOMAIN arts2[k].attestations :
                                         IsAttestation(arts2[k].attestations[t])
    <3>1. CASE k = i
      BY <1>9, <2>1, <3>1
    <3>2. CASE k # i
      BY <1>1, <1>3, <1>8, <3>2 DEF WellShaped
    <3> QED
      BY <3>1, <3>2
  <2> QED
    BY <1>1, <1>8, <2>2 DEF WellShaped, IsSequence
<1> DEFINE z == <<i, Len(b) + 1>>
<1>11. z \in Places(arts2, sups) /\ ListedAt(arts2, sups, z) = a
  <2>1. Len(b) + 1 \in 1..Len(arts2[i].attestations) /\ i \in 1..Len(arts2)
    BY <1>4, <1>5, <1>8, <1>9
  <2> HIDE DEF b
  <2> QED
    BY <1>5, <1>9, <1>10, <2>1, PlacesThereAre
<1>12. ASSUME NEW p \in Places(arts2, sups), p # z
       PROVE  /\ p \in Places(arts, sups)
              /\ Alike(ListedAt(arts2, sups, p), ListedAt(arts, sups, p))
  <2>0. \A e : Alike(e, e)
    BY DEF Alike
  <2>1. CASE \E k \in 1..Len(arts2) : p = <<k, 0>> /\ ListedAt(arts2, sups, p) = arts2[k]
    <3>1. PICK k \in 1..Len(arts2) : p = <<k, 0>> /\ ListedAt(arts2, sups, p) = arts2[k]
      BY <2>1
    <3>2. k \in 1..Len(arts) /\ Alike(arts2[k], arts[k])
      BY <1>8, <1>9, <2>0, <3>1
    <3> QED
      BY <1>1, <3>1, <3>2, PlacesThereAre
  <2>2. CASE \E j \in 1..Len(sups) : p = <<0, j>> /\ ListedAt(arts2, sups, p) = sups[j]
    <3>1. PICK j \in 1..Len(sups) : p = <<0, j>> /\ ListedAt(arts2, sups, p) = sups[j]
      BY <2>2
    <3> QED
      BY <1>1, <2>0, <3>1, PlacesThereAre
  <2>3. CASE \E k \in 1..Len(arts2) : \E t \in 1..Len(arts2[k].attestations) :
               p = <<k, t>> /\ ListedAt(arts2, sups, p) = arts2[k].attestations[t]
    <3>1. PICK k \in 1..Len(arts2) : \E t \in 1..Len(arts2[k].attestations) :
               p = <<k, t>> /\ ListedAt(arts2, sups, p) = arts2[k].attestations[t]
      BY <2>3
    <3>2. PICK t \in 1..Len(arts2[k].attestations) :
               p = <<k, t>> /\ ListedAt(arts2, sups, p) = arts2[k].attestations[t]
      BY <3>1
    <3>3. /\ k \in 1..Len(arts) /\ t \in 1..Len(arts[k].attestations)
          /\ arts2[k].attestations[t] = arts[k].attestations[t]
      <4>1. CASE k = i
        <5>1. t \in 1..(Len(b) + 1) /\ t # Len(b) + 1
          BY <1>5, <1>9, <1>12, <3>2, <4>1
        <5>2. t \in 1..Len(b) /\ b2[t] = b[t]
          BY <1>5, <1>6, <5>1
        <5> QED
          BY <1>9, <4>1, <5>2
      <4>2. CASE k # i
        BY <1>8, <3>2, <4>2
      <4> QED
        BY <4>1, <4>2
    <3> QED
      BY <1>1, <2>0, <3>2, <3>3, PlacesThereAre
  <2> QED
    BY <1>10, <2>1, <2>2, <2>3, PlaceIs
<1> HIDE DEF z
<1>13. PathsApart(arts2, sups)
  BY <1>1, <1>2, <1>11, <1>12, PlaceAdded DEF Alike
<1>14. Adds(arts, sups, arts2, sups, a)
  BY <1>11, <1>12 DEF Adds
<1> QED
  BY <1>10, <1>13, <1>14 DEF WellListed, arts2, a

\* Entries with other digests are listed as before.
LEMMA RedigestedListed ==
  ASSUME NEW arts, NEW sups, WellListed(arts, sups)
  PROVE  WellListed([k \in DOMAIN arts |->
                       [Redigested(arts[k]) EXCEPT !.attestations = [t \in DOMAIN @ |-> Redigested(@[t])]]],
                    [k \in DOMAIN sups |-> Redigested(sups[k])])
<1> DEFINE arts2 == [k \in DOMAIN arts |->
                       [Redigested(arts[k]) EXCEPT !.attestations = [t \in DOMAIN @ |-> Redigested(@[t])]]]
           sups2 == [k \in DOMAIN sups |-> Redigested(sups[k])]
<1>1. WellShaped(arts, sups) /\ PathsApart(arts, sups)
  BY DEF WellListed
<1>2. /\ Len(arts) \in Nat /\ DOMAIN arts = 1..Len(arts) /\ Len(sups) \in Nat /\ DOMAIN sups = 1..Len(sups)
      /\ \A i \in 1..Len(arts) : /\ Len(arts[i].attestations) \in Nat
                                 /\ DOMAIN arts[i].attestations = 1..Len(arts[i].attestations)
  BY <1>1, ShapedLists
<1>3. /\ DOMAIN arts2 = 1..Len(arts) /\ Len(arts2) = Len(arts) /\ IsSequence(arts2)
      /\ DOMAIN sups2 = 1..Len(sups) /\ Len(sups2) = Len(sups) /\ IsSequence(sups2)
  <2>1. DOMAIN arts2 = 1..Len(arts) /\ arts2 = [k \in 1..Len(arts) |-> arts2[k]]
    BY <1>2
  <2>2. DOMAIN sups2 = 1..Len(sups) /\ sups2 = [k \in 1..Len(sups) |-> sups2[k]]
    BY <1>2
  <2> HIDE DEF arts2, sups2
  <2>3. arts2 \in [1..Len(arts) -> ToSet(arts2)] /\ sups2 \in [1..Len(sups) -> ToSet(sups2)]
    BY <2>1, <2>2 DEF ToSet
  <2> QED
    BY <1>2, <2>1, <2>2, <2>3 DEF IsSequence
<1>4. ASSUME NEW i \in 1..Len(arts)
      PROVE  /\ IsArtifact(arts2[i]) /\ arts2[i].path = arts[i].path
             /\ Len(arts2[i].attestations) = Len(arts[i].attestations)
             /\ DOMAIN arts2[i].attestations = 1..Len(arts[i].attestations)
             /\ \A t \in 1..Len(arts[i].attestations) :
                  /\ IsAttestation(arts2[i].attestations[t])
                  /\ arts2[i].attestations[t].path = arts[i].attestations[t].path
  <2> DEFINE a == arts[i]
             b == arts[i].attestations
             b2 == [t \in DOMAIN b |-> Redigested(b[t])]
             d == At(dir, a.path)
  <2>1. IsArtifact(a) /\ \A t \in DOMAIN b : IsAttestation(b[t])
    BY <1>1, <1>2 DEF WellShaped
  <2>2. arts2[i] = [Redigested(a) EXCEPT !.attestations = [t \in DOMAIN @ |-> Redigested(@[t])]]
    BY <1>2
  <2>3. a = [kind |-> "artifact", name |-> a.name, path |-> a.name, target |-> a.target,
             sum |-> a.sum, attestations |-> b]
    BY <2>1 DEF IsArtifact
  <2>4. Redigested(a) = [kind |-> "artifact", name |-> a.name, path |-> a.name, target |-> a.target,
                         sum |-> d, attestations |-> b]
    <3> HIDE DEF d
    <3> QED
      BY <2>3 DEF Redigested, d
  <2> HIDE DEF b, d
  <2>5. arts2[i] = [kind |-> "artifact", name |-> a.name, path |-> a.name, target |-> a.target,
                    sum |-> d, attestations |-> b2]
    <3> HIDE DEF arts2
    <3> QED
      BY <2>2, <2>4
  <2>6. /\ DOMAIN b2 = 1..Len(b) /\ Len(b2) = Len(b) /\ IsSequence(b2) /\ \A t \in 1..Len(b) : b2[t] = Redigested(b[t])
    <3>1. DOMAIN b = 1..Len(b) /\ Len(b) \in Nat
      BY <1>2 DEF b
    <3>2. b2 = [t \in 1..Len(b) |-> b2[t]] /\ DOMAIN b2 = 1..Len(b) /\ \A t \in 1..Len(b) : b2[t] = Redigested(b[t])
      BY <3>1
    <3> HIDE DEF b2
    <3>3. b2 \in [1..Len(b) -> ToSet(b2)]
      BY <3>2 DEF ToSet
    <3> QED
      BY <3>1, <3>2, <3>3 DEF IsSequence
  <2> HIDE DEF b2, arts2
  <2>7. IsArtifact(arts2[i]) /\ arts2[i].path = a.path /\ arts2[i].attestations = b2
    BY <2>3, <2>5, <2>6 DEF IsArtifact
  <2>8. ASSUME NEW t \in 1..Len(b) PROVE IsAttestation(b2[t]) /\ b2[t].path = b[t].path
    <3>1. b[t] = [kind |-> "attestation", name |-> b[t].name, path |-> b[t].path, sum |-> b[t].sum]
      BY <1>2, <2>1 DEF IsAttestation, b
    <3>2. b2[t] = [kind |-> "attestation", name |-> b[t].name, path |-> b[t].path, sum |-> At(dir, b[t].path)]
      BY <2>6, <3>1 DEF Redigested
    <3> QED
      BY <3>1, <3>2 DEF IsAttestation
  <2> QED
    BY <2>6, <2>7, <2>8 DEF b
<1>5. ASSUME NEW j \in 1..Len(sups) PROVE IsSupplement(sups2[j]) /\ sups2[j].path = sups[j].path
  <2>1. IsSupplement(sups[j]) /\ sups2[j] = Redigested(sups[j])
    BY <1>1, <1>2 DEF WellShaped
  <2> DEFINE e == sups[j]
             d == At(dir, e.path)
  <2>2. e = [kind |-> e.kind, name |-> e.name, path |-> e.name, sum |-> e.sum] /\ e.kind \in {"sbom", "provenance"}
    BY <2>1 DEF IsSupplement
  <2>3. sups2[j] = [e EXCEPT !.sum = d]
    BY <2>1 DEF Redigested
  <2> HIDE DEF e, d, sups2
  <2>4. sups2[j] = [kind |-> e.kind, name |-> e.name, path |-> e.name, sum |-> d]
    BY <2>2, <2>3
  <2> QED
    BY <2>2, <2>4 DEF IsSupplement, e
<1> HIDE DEF arts2, sups2
<1>6. WellShaped(arts2, sups2)
  BY <1>3, <1>4, <1>5 DEF WellShaped
<1>7. ASSUME NEW p \in Places(arts2, sups2)
      PROVE  p \in Places(arts, sups) /\ ListedAt(arts2, sups2, p).path = ListedAt(arts, sups, p).path
  <2>1. CASE \E k \in 1..Len(arts2) : p = <<k, 0>> /\ ListedAt(arts2, sups2, p) = arts2[k]
    <3>1. PICK k \in 1..Len(arts2) : p = <<k, 0>> /\ ListedAt(arts2, sups2, p) = arts2[k]
      BY <2>1
    <3> QED
      BY <1>1, <1>3, <1>4, <3>1, PlacesThereAre
  <2>2. CASE \E j \in 1..Len(sups2) : p = <<0, j>> /\ ListedAt(arts2, sups2, p) = sups2[j]
    <3>1. PICK j \in 1..Len(sups2) : p = <<0, j>> /\ ListedAt(arts2, sups2, p) = sups2[j]
      BY <2>2
    <3> QED
      BY <1>1, <1>3, <1>5, <3>1, PlacesThereAre
  <2>3. CASE \E k \in 1..Len(arts2) : \E t \in 1..Len(arts2[k].attestations) :
               p = <<k, t>> /\ ListedAt(arts2, sups2, p) = arts2[k].attestations[t]
    <3>1. PICK k \in 1..Len(arts2) : \E t \in 1..Len(arts2[k].attestations) :
               p = <<k, t>> /\ ListedAt(arts2, sups2, p) = arts2[k].attestations[t]
      BY <2>3
    <3>2. PICK t \in 1..Len(arts2[k].attestations) :
               p = <<k, t>> /\ ListedAt(arts2, sups2, p) = arts2[k].attestations[t]
      BY <3>1
    <3>3. k \in 1..Len(arts) /\ t \in 1..Len(arts[k].attestations)
          /\ arts2[k].attestations[t].path = arts[k].attestations[t].path
      BY <1>3, <1>4, <3>2
    <3> QED
      BY <1>1, <3>2, <3>3, PlacesThereAre
  <2> QED
    BY <1>6, <2>1, <2>2, <2>3, PlaceIs
<1>8. PathsApart(arts2, sups2)
  BY <1>1, <1>7 DEF PathsApart
<1> QED
  BY <1>6, <1>8 DEF WellListed, arts2, sups2

\* What lies under a name after a write.
LEMMA AtWith ==
  ASSUME NEW d, NEW name, NEW c, NEW n
  PROVE  At(With(d, name, c), n) = IF n = name THEN c ELSE At(d, n)
BY DEF At, With

LEMMA AtPut ==
  ASSUME NEW name, NEW c, NEW n
  PROVE  At(Put(name, c), n) = IF n = name THEN c ELSE At(dir, n)
BY AtWith DEF Put

LEMMA AtWithout ==
  ASSUME NEW name, NEW n
  PROVE  At(Without(name), n) = IF n = name THEN Absent ELSE At(dir, n)
BY DEF At, Without

\* Nothing but what is written, or a part of it, comes to lie in the directory.
LEMMA WritesOnly ==
  ASSUME NEW name, NEW c, dir' \in {dir, Put(name, Partial), Put(name, c)}, NEW n
  PROVE  At(dir', n) = At(dir, n) \/ (n = name /\ At(dir', n) \in {Partial, c})
BY AtPut

\* The files Package writes last, and no binary or attestation is named like them.
Own == {ManifestName, ChecksumsName, SignatureName}

LEMMA OwnNames ==
  /\ \A v, t : <<v, t>> \notin Own
  /\ \A v, t, s : s \in Seq(ToSet(s)) => <<v, t>> \o s \notin Own
<1>1. Len(ChecksumsName) = 1 /\ Len(ManifestName) = 1 /\ Len(SignatureName) = 1
  BY DEF ManifestName, SignatureName, ChecksumsName
<1>2. ASSUME NEW v, NEW t PROVE <<v, t>> \notin Own
  <2>1. Len(<<v, t>>) = 2
    OBVIOUS
  <2> QED
    BY <1>1, <2>1 DEF Own
<1>3. ASSUME NEW v, NEW t, NEW s, s \in Seq(ToSet(s)) PROVE <<v, t>> \o s \notin Own
  <2> DEFINE S == {v, t} \cup ToSet(s)
             p == <<v, t>>
  <2>1. p \in Seq(S) /\ s \in Seq(S) /\ Len(p) = 2
    <3>1. s \in Seq(S)
      <4>1. \A i \in 1..Len(s) : s[i] \in ToSet(s)
        BY <1>3 DEF ToSet
      <4> QED
        BY <1>3, <4>1
    <3> QED
      BY <3>1
  <2> HIDE DEF S, p
  <2>2. Len(p \o s) = Len(p) + Len(s)
    BY <2>1, ConcatProperties, Zenon
  <2>3. Len(s) \in Nat
    BY <2>1
  <2>4. p \o s \notin Own
    <3>1. Len(p \o s) # 1
      BY <2>1, <2>2, <2>3
    <3>2. \A n \in Own : Len(n) = 1
      BY <1>1 DEF Own
    <3> QED
      BY <3>1, <3>2
  <2> QED
    BY <2>4, Zenon DEF p
<1> QED
  BY <1>2, <1>3

LEMMA NamesDiffer ==
  /\ ManifestName # SignatureName /\ ManifestName # ChecksumsName /\ SignatureName # ChecksumsName
  /\ \A v, t : <<v, t>> \notin {ManifestName, SignatureName}
  /\ \A v, t, s : s \in Seq(ToSet(s)) => <<v, t>> \o s \notin {ManifestName, SignatureName}
<1>1. ManifestName # SignatureName /\ ManifestName # ChecksumsName /\ SignatureName # ChecksumsName
  BY DEF ManifestName, SignatureName, ChecksumsName
<1>2. {ManifestName, SignatureName} \subseteq Own
  BY DEF Own
<1> QED
  BY <1>1, <1>2, OwnNames

LEMMA FirstIsThere ==
  ASSUME NEW T \in SUBSET Nat, T # {}
  PROVE  Min(T) \in T
<1>1. \E i \in T : \A j \in T : i <= j
  BY LeastNumber
<1> QED
  BY <1>1 DEF Min

Plain(c) == c[1] \notin {"manifest", "signature"}

\* No manifest and no signature comes to lie where they are looked for.
Harmless == \A n \in {ManifestName, SignatureName} : At(dir', n) = At(dir, n) \/ Plain(At(dir', n))

\* What Package has put together can be listed, and no binary is named like a manifest.
Building ==
  /\ pk \in {"idle", "build", "checksums", "sign", "signed"}
  /\ pk # "idle" => opt \in Options
  /\ attached \in Nat
  /\ WellListed(artifacts, supplements)
  /\ \A i \in DOMAIN artifacts : \E v, t : artifacts[i].name = <<v, t>>

LEMMA NothingIsListed == WellListed(<<>>, <<>>) /\ DOMAIN <<>> = {}
<1>1. DOMAIN <<>> = {} /\ <<>> \in Seq(ToSet(<<>>))
  OBVIOUS
<1>2. Places(<<>>, <<>>) = {}
  BY <1>1 DEF Places
<1> QED
  BY <1>1, <1>2 DEF WellListed, WellShaped, PathsApart, IsSequence

LEMMA PlainContents ==
  /\ Plain(Partial) /\ Plain(Other) /\ Plain(Absent)
  /\ \A x : Plain(AsChecksums(x))
BY DEF Plain, Partial, Other, Absent, AsChecksums

\* A call that ends leaves nothing behind.
LEMMA EndedBuilding ==
  ASSUME Building, NEW how, End(how)
  PROVE  Building'
BY NothingIsListed DEF Building, End

LEMMA WriteIsHarmless ==
  ASSUME NEW name, NEW c, dir' \in {dir, Put(name, Partial), Put(name, c)},
         name \in {ManifestName, SignatureName} => Plain(c)
  PROVE  Harmless
<1>1. ASSUME NEW n \in {ManifestName, SignatureName}
      PROVE  At(dir', n) = At(dir, n) \/ Plain(At(dir', n))
  <2>1. At(dir', n) = At(dir, n) \/ (n = name /\ At(dir', n) \in {Partial, c})
    BY WritesOnly
  <2> QED
    BY <2>1, PlainContents
<1> QED
  BY <1>1 DEF Harmless

LEMMA BinaryBuilds ==
  ASSUME Building, BuildNext
  PROVE  Building' /\ Harmless /\ made' = made /\ forged' = forged /\ pk' \in {"idle", "build"}
<1> DEFINE target == opt.targets[Len(artifacts) + 1]
           name == ArtifactName(opt.release, target)
<1>1. pk = "build" /\ UNCHANGED <<opt, made, forged>>
  BY DEF BuildNext, othersVars
<1>2. \/ Refuse
      \/ /\ name \notin Occupied
         /\ \E b : Write(name, b, /\ artifacts' = Append(artifacts, Artifact(name, target, b))
                                  /\ UNCHANGED <<pk, supplements, attached>>)
  BY DEF BuildNext
<1> HIDE DEF target
<1>3. name = <<opt.release.version, target>>
  BY DEF ArtifactName
<1> HIDE DEF name
<1>4. CASE Refuse
  BY <1>1, <1>4, EndedBuilding DEF Refuse, Harmless, End
<1>5. ASSUME name \notin Occupied, NEW b,
             Write(name, b, /\ artifacts' = Append(artifacts, Artifact(name, target, b))
                            /\ UNCHANGED <<pk, supplements, attached>>)
      PROVE  Building' /\ Harmless /\ pk' \in {"idle", "build"}
  <2>1. Harmless
    <3>1. dir' \in {dir, Put(name, Partial), Put(name, b)}
      BY <1>5 DEF Write
    <3>2. name \notin {ManifestName, SignatureName}
      BY <1>3, NamesDiffer
    <3> QED
      BY <3>1, <3>2, WriteIsHarmless
  <2>2. CASE End("failed")
    BY <2>1, <2>2, EndedBuilding DEF End
  <2>3. CASE /\ artifacts' = Append(artifacts, Artifact(name, target, b))
             /\ UNCHANGED <<pk, supplements, attached>>
    <3>1. WellListed(artifacts', supplements')
      <4>1. \A e \in Entries(artifacts, supplements) : e.path # name
        BY <1>5 DEF Occupied
      <4> QED
        BY <2>3, <4>1, ArtifactListed DEF Building
    <3>2. \A i \in DOMAIN artifacts' : \E v, t : artifacts'[i].name = <<v, t>>
      <4>1. DOMAIN artifacts = 1..Len(artifacts) /\ artifacts \in Seq(ToSet(artifacts)) /\ Len(artifacts) \in Nat
        BY ShapedLists DEF Building, WellListed, WellShaped, IsSequence
      <4> DEFINE a == Artifact(name, target, b)
      <4>2. a.name = name
        BY DEF Artifact
      <4> HIDE DEF a
      <4>3. /\ DOMAIN artifacts' = 1..(Len(artifacts) + 1) /\ artifacts'[Len(artifacts) + 1] = a
            /\ \A i \in 1..Len(artifacts) : artifacts'[i] = artifacts[i]
        BY <2>3, <4>1 DEF a
      <4>4. \A i \in 1..(Len(artifacts) + 1) : i \in 1..Len(artifacts) \/ i = Len(artifacts) + 1
        BY <4>1
      <4>5. ASSUME NEW i \in DOMAIN artifacts' PROVE \E v, t : artifacts'[i].name = <<v, t>>
        <5>1. CASE i \in 1..Len(artifacts)
          BY <4>1, <4>3, <5>1 DEF Building
        <5>2. CASE i = Len(artifacts) + 1
          BY <1>3, <4>2, <4>3, <5>2
        <5> QED
          BY <4>3, <4>4, <5>1, <5>2
      <4> QED
        BY <4>5
    <3> QED
      BY <1>1, <2>1, <2>3, <3>1, <3>2 DEF Building
  <2> QED
    BY <1>5, <2>1, <2>2, <2>3 DEF Write
<1> QED
  BY <1>1, <1>2, <1>4, <1>5

LEMMA AttestationBuilds ==
  ASSUME Building, AttachNext
  PROVE  Building' /\ Harmless /\ made' = made /\ forged' = forged /\ pk' \in {"idle", "build"}
<1> DEFINE spec == opt.attestations[attached + 1]
           i == SelectInSeq(artifacts, LAMBDA a : Selects(spec.selector, a))
           path == artifacts[i].name \o spec.name
           Recorded(c) == /\ artifacts' = [artifacts EXCEPT ![i].attestations =
                                Append(@, Attestation(spec.name, path, c))]
                          /\ attached' = attached + 1
                          /\ UNCHANGED <<pk, supplements>>
<1>1. pk = "build" /\ UNCHANGED <<opt, made, forged>> /\ attached < Len(opt.attestations)
  BY DEF AttachNext, Built, othersVars
<1>2. \/ Refuse
      \/ i # 0 /\ path \notin Occupied /\ Place(path, spec.content, Recorded(Given(path, spec.content)))
  BY DEF AttachNext
<1>3. CASE Refuse
  BY <1>1, <1>3, EndedBuilding DEF Refuse, Harmless, End
<1>4. ASSUME i # 0, path \notin Occupied, Place(path, spec.content, Recorded(Given(path, spec.content)))
      PROVE  Building' /\ Harmless /\ pk' \in {"idle", "build"}
  <2>0. attached \in Nat /\ WellListed(artifacts, supplements) /\ opt \in Options
    BY <1>1 DEF Building
  <2>1. DOMAIN artifacts = 1..Len(artifacts) /\ Len(artifacts) \in Nat
    BY <2>0, ShapedLists DEF WellListed
  <2>2. i \in 1..Len(artifacts)
    <3> DEFINE T == {k \in 1..Len(artifacts) : Selects(spec.selector, artifacts[k])}
    <3>1. i = IF T # {} THEN Min(T) ELSE 0
      BY DEF SelectInSeq
    <3>2. T \in SUBSET Nat /\ T \subseteq 1..Len(artifacts)
      OBVIOUS
    <3> HIDE DEF T, i
    <3> QED
      BY <1>4, <3>1, <3>2, FirstIsThere
  <2> HIDE DEF i
  <2>3. spec.name \in Seq(ToSet(spec.name))
    <3>1. opt.attestations \in Seq(ToSet(opt.attestations))
      BY <2>0, CallsAssumption
    <3>2. attached + 1 \in 1..Len(opt.attestations)
      BY <1>1, <2>0, <3>1
    <3>3. spec \in ToSet(opt.attestations)
      BY <3>1, <3>2 DEF ToSet
    <3> HIDE DEF spec
    <3> QED
      BY <2>0, <3>3, CallsAssumption
  <2> HIDE DEF spec
  <2>4. path \notin {ManifestName, SignatureName}
    <3>1. PICK v, t : artifacts[i].name = <<v, t>>
      BY <2>1, <2>2 DEF Building
    <3> QED
      BY <2>3, <3>1, NamesDiffer
  <2> HIDE DEF path, Recorded
  <2>5. dir' \in {dir, Put(path, Partial), Put(path, spec.content)}
    BY <1>4 DEF Place, Write
  <2>6. Harmless
    BY <2>4, <2>5, WriteIsHarmless
  <2>7. CASE End("failed")
    BY <2>6, <2>7, EndedBuilding DEF End
  <2>8. ASSUME NEW c, Recorded(c) PROVE Building' /\ pk' = pk
    <3>0. \A e \in Entries(artifacts, supplements) : e.path # path
      BY <1>4 DEF Occupied
    <3>1. artifacts' = [artifacts EXCEPT ![i].attestations = Append(@, Attestation(spec.name, path, c))]
          /\ UNCHANGED <<pk, supplements>> /\ attached' = attached + 1
      BY <2>8 DEF Recorded
    <3>2. WellListed(artifacts', supplements')
      BY <2>0, <2>2, <3>0, <3>1, AttestationListed
    <3>3. \A k \in DOMAIN artifacts' : \E v, t : artifacts'[k].name = <<v, t>>
      <4>1. \A k \in 1..Len(artifacts) : IsArtifact(artifacts[k])
        BY <2>0, <2>1 DEF WellListed, WellShaped
      <4> DEFINE a == Attestation(spec.name, path, c)
      <4>2. artifacts' = [artifacts EXCEPT ![i] = [artifacts[i] EXCEPT !.attestations = Append(artifacts[i].attestations, a)]]
        BY <2>1, <2>2, <3>1
      <4> HIDE DEF a
      <4>3. ASSUME NEW k \in 1..Len(artifacts) PROVE artifacts'[k].name = artifacts[k].name
        <5>1. artifacts[k] = [kind |-> "artifact", name |-> artifacts[k].name, path |-> artifacts[k].name,
                 target |-> artifacts[k].target, sum |-> artifacts[k].sum, attestations |-> artifacts[k].attestations]
          BY <4>1 DEF IsArtifact
        <5>2. CASE k = i
          <6> DEFINE z == Append(artifacts[i].attestations, a)
          <6>1. artifacts'[k] = [artifacts[k] EXCEPT !.attestations = z]
            BY <2>1, <4>2, <5>2
          <6> HIDE DEF z
          <6> QED
            BY <5>1, <6>1
        <5>3. CASE k # i
          BY <2>1, <4>2, <5>3
        <5> QED
          BY <5>2, <5>3
      <4>4. DOMAIN artifacts' = 1..Len(artifacts)
        BY <2>1, <4>2
      <4> QED
        BY <2>1, <4>3, <4>4 DEF Building
    <3> QED
      BY <1>1, <2>0, <3>1, <3>2, <3>3 DEF Building
  <2> QED
    BY <1>1, <1>4, <2>6, <2>7, <2>8 DEF Place, Write
<1> QED
  BY <1>1, <1>2, <1>3, <1>4

LEMMA SupplementBuilds ==
  ASSUME Building, SupplementNext
  PROVE  Building' /\ Harmless /\ made' = made /\ forged' = forged /\ pk' \in {"idle", "build"}
<1> DEFINE s == opt.supplements[Len(supplements) + 1]
           Recorded(c) == /\ supplements' = Append(supplements, Supplemental(s.kind, s.name, c))
                          /\ UNCHANGED <<pk, artifacts, attached>>
<1>1. pk = "build" /\ UNCHANGED <<opt, made, forged>> /\ Len(supplements) < Len(opt.supplements)
  BY DEF SupplementNext, Attached, Built, othersVars
<1>2. \/ Refuse
      \/ s.name \notin Occupied /\ Place(s.name, s.content, Recorded(Given(s.name, s.content)))
  BY DEF SupplementNext
<1>3. CASE Refuse
  BY <1>1, <1>3, EndedBuilding DEF Refuse, Harmless, End
<1>4. ASSUME s.name \notin Occupied, Place(s.name, s.content, Recorded(Given(s.name, s.content)))
      PROVE  Building' /\ Harmless /\ pk' \in {"idle", "build"}
  <2>0. WellListed(artifacts, supplements) /\ opt \in Options
    BY <1>1 DEF Building
  <2>1. /\ s.kind \in {"sbom", "provenance"}
        /\ s.name \in {ManifestName, SignatureName} /\ s.content # InPlace => Plain(s.content)
    <3>1. opt.supplements \in Seq(ToSet(opt.supplements))
      BY <2>0, CallsAssumption
    <3>2. Len(supplements) + 1 \in 1..Len(opt.supplements)
      <4>1. Len(supplements) \in Nat
        BY <2>0, ShapedLists DEF WellListed
      <4> QED
        BY <1>1, <3>1, <4>1
    <3>3. s \in ToSet(opt.supplements)
      BY <3>1, <3>2 DEF ToSet
    <3> HIDE DEF s
    <3> QED
      BY <2>0, <3>3, CallsAssumption DEF Plain
  <2> HIDE DEF s, Recorded
  <2>2. Harmless
    <3>1. CASE s.content = InPlace
      BY <1>4, <3>1 DEF Place, Harmless
    <3>2. CASE s.content # InPlace
      <4>1. dir' \in {dir, Put(s.name, Partial), Put(s.name, s.content)}
        BY <1>4, <3>2 DEF Place, Write
      <4> QED
        BY <2>1, <3>2, <4>1, WriteIsHarmless
    <3> QED
      BY <3>1, <3>2
  <2>3. CASE End("failed")
    BY <2>2, <2>3, EndedBuilding DEF End
  <2>4. ASSUME NEW c, Recorded(c) PROVE Building' /\ pk' = pk
    <3>0. \A e \in Entries(artifacts, supplements) : e.path # s.name
      BY <1>4 DEF Occupied
    <3>1. WellListed(artifacts', supplements')
      BY <2>0, <2>1, <2>4, <3>0, SupplementListed DEF Recorded
    <3> QED
      BY <1>1, <2>4, <3>1 DEF Recorded, Building
  <2> QED
    BY <1>1, <1>4, <2>2, <2>3, <2>4 DEF Place, Write
<1> QED
  BY <1>1, <1>2, <1>3, <1>4

\* The manifest in a directory, if there is one, can be listed; is one that a call
\* wrote; and so is the one its signature is of.
ListedIn(d) ==
  LET c == At(d, ManifestName)
  IN IsManifest(c) => c = AsManifest(c[2]) /\ WellListed(c[2].artifacts, c[2].supplements)
OursIn(d) == LET c == At(d, ManifestName) IN IsManifest(c) => c[2] \in made
SignedIn(d) ==
  LET c == At(d, SignatureName)
  IN c[1] = "signature" /\ IsManifest(c[2].manifest) => c[2].manifest[2] \in made

Closing == {"checksums", "sign", "signed"}

Manifests ==
  /\ ListedIn(dir) /\ ListedIn(archive)
  /\ forged = {} => OursIn(dir)
  /\ forged \subseteq {"idle"} =>
       SignedIn(dir) /\ SignedIn(archive) /\ (pk \in Closing => OursIn(dir))

LEMMA HarmlessKeepsManifests ==
  ASSUME Manifests, Harmless, made' = made, forged' = forged, archive' = archive,
         pk' \in Closing => pk \in Closing
  PROVE  Manifests'
<1>1. /\ At(dir', ManifestName) = At(dir, ManifestName) \/ Plain(At(dir', ManifestName))
      /\ At(dir', SignatureName) = At(dir, SignatureName) \/ Plain(At(dir', SignatureName))
  BY DEF Harmless
<1>2. ListedIn(dir') /\ ListedIn(archive')
  BY <1>1 DEF Manifests, ListedIn, IsManifest, Plain
<1>3. OursIn(dir) => OursIn(dir)'
  BY <1>1 DEF OursIn, IsManifest, Plain
<1>4. SignedIn(dir) => SignedIn(dir)'
  BY <1>1 DEF SignedIn, Plain
<1>5. SignedIn(archive) => SignedIn(archive)'
  BY DEF SignedIn
<1> QED
  BY <1>2, <1>3, <1>4, <1>5 DEF Manifests, ListedIn

\* What Package writes at the end, in order.
LEMMA ManifestIsOurs ==
  ASSUME Building, Manifests, WriteManifest, archive' = archive
  PROVE  Building' /\ Manifests' /\ made \subseteq made' /\ forged' = forged
<1> DEFINE m == Manifest(opt.release, artifacts, supplements)
<1>1. pk = "build" /\ UNCHANGED <<opt, forged>>
  BY DEF WriteManifest, Attached, Built, othersVars
<1>2. \/ Refuse /\ UNCHANGED made
      \/ /\ made' = made \cup {m}
         /\ Write(ManifestName, AsManifest(m),
                  pk' = "checksums" /\ UNCHANGED <<artifacts, supplements, attached>>)
  BY DEF WriteManifest
<1>3. CASE Refuse /\ UNCHANGED made
  <2>1. Harmless /\ pk' = "idle" /\ Building'
    BY <1>3, EndedBuilding DEF Refuse, Harmless, End
  <2> QED
    BY <1>1, <1>3, <2>1, HarmlessKeepsManifests DEF Closing
<1>4. CASE /\ made' = made \cup {m}
           /\ Write(ManifestName, AsManifest(m),
                    pk' = "checksums" /\ UNCHANGED <<artifacts, supplements, attached>>)
  <2>1. m.artifacts = artifacts /\ m.supplements = supplements
    BY DEF Manifest
  <2> HIDE DEF m
  <2>2. dir' \in {dir, Put(ManifestName, Partial), Put(ManifestName, AsManifest(m))}
    BY <1>4 DEF Write
  <2>3. At(dir', SignatureName) = At(dir, SignatureName)
    BY <2>2, WritesOnly, NamesDiffer
  <2>4. \/ At(dir', ManifestName) = At(dir, ManifestName)
        \/ Plain(At(dir', ManifestName))
        \/ At(dir', ManifestName) = AsManifest(m)
    BY <2>2, WritesOnly, PlainContents
  <2>5. ListedIn(dir') /\ ListedIn(archive')
    <3>1. AsManifest(m)[2] = m /\ WellListed(m.artifacts, m.supplements)
      BY <2>1 DEF AsManifest, Building
    <3> QED
      BY <2>4, <3>1 DEF Manifests, ListedIn, IsManifest, Plain
  <2>6. OursIn(dir) => OursIn(dir)'
    <3>1. AsManifest(m)[2] = m
      BY DEF AsManifest
    <3> QED
      BY <1>4, <2>4, <3>1 DEF OursIn, IsManifest, Plain
  <2>7. (SignedIn(dir) => SignedIn(dir)') /\ (SignedIn(archive) => SignedIn(archive)')
    BY <1>4, <2>3 DEF SignedIn
  <2>8. Building' /\ (pk' \in Closing => OursIn(dir)')
    <3>1. CASE End("failed")
      BY <3>1, EndedBuilding DEF End, Closing
    <3>2. CASE /\ dir' = Put(ManifestName, AsManifest(m))
               /\ pk' = "checksums" /\ UNCHANGED <<artifacts, supplements, attached>>
      <4>1. At(dir', ManifestName) = AsManifest(m) /\ AsManifest(m)[2] = m
        BY <3>2, AtPut DEF AsManifest
      <4>2. OursIn(dir)'
        BY <1>4, <4>1 DEF OursIn
      <4> QED
        BY <1>1, <3>2, <4>2 DEF Building
    <3> QED
      BY <1>4, <3>1, <3>2 DEF Write
  <2> QED
    BY <1>1, <1>4, <2>5, <2>6, <2>7, <2>8 DEF Manifests, ListedIn
<1> QED
  BY <1>1, <1>2, <1>3, <1>4

LEMMA ChecksumsAreHarmless ==
  ASSUME Building, Manifests, WriteChecksums, archive' = archive
  PROVE  Building' /\ Manifests' /\ made' = made /\ forged' = forged
<1> DEFINE c == AsChecksums(Checksums(artifacts, supplements))
<1>1. /\ pk = "checksums" /\ UNCHANGED <<opt, made, forged>>
      /\ Write(ChecksumsName, c, pk' = "sign" /\ UNCHANGED <<artifacts, supplements, attached>>)
  BY DEF WriteChecksums, othersVars
<1> HIDE DEF c
<1>2. Harmless
  BY <1>1, WriteIsHarmless, NamesDiffer DEF Write
<1>3. Building'
  <2>1. CASE End("failed")
    BY <2>1, EndedBuilding
  <2>2. CASE pk' = "sign" /\ UNCHANGED <<artifacts, supplements, attached>>
    BY <1>1, <2>2 DEF Building
  <2> QED
    BY <1>1, <2>1, <2>2 DEF Write
<1> QED
  BY <1>1, <1>2, <1>3, HarmlessKeepsManifests DEF Closing

LEMMA SignatureIsOfOurs ==
  ASSUME Building, Manifests, Sign, archive' = archive
  PROVE  Building' /\ Manifests' /\ made' = made /\ forged' = forged
<1> DEFINE s == AsSignature(opt.key, dir[ManifestName])
<1>1. pk = "sign" /\ UNCHANGED <<opt, made, forged>>
  BY DEF Sign, othersVars
<1>2. \/ Refuse
      \/ /\ At(dir, ManifestName) # Absent
         /\ Write(SignatureName, s, pk' = "signed" /\ UNCHANGED <<artifacts, supplements, attached>>)
  BY DEF Sign
<1>3. CASE Refuse
  <2>1. Harmless /\ pk' = "idle" /\ Building'
    BY <1>3, EndedBuilding DEF Refuse, Harmless, End
  <2> QED
    BY <1>1, <2>1, HarmlessKeepsManifests DEF Closing
<1>4. CASE /\ At(dir, ManifestName) # Absent
           /\ Write(SignatureName, s, pk' = "signed" /\ UNCHANGED <<artifacts, supplements, attached>>)
  <2>1. s[2].manifest = At(dir, ManifestName)
    BY <1>4 DEF At, AsSignature
  <2> HIDE DEF s
  <2>2. dir' \in {dir, Put(SignatureName, Partial), Put(SignatureName, s)}
    BY <1>4 DEF Write
  <2>3. At(dir', ManifestName) = At(dir, ManifestName)
    BY <2>2, WritesOnly, NamesDiffer
  <2>4. \/ At(dir', SignatureName) = At(dir, SignatureName)
        \/ Plain(At(dir', SignatureName))
        \/ At(dir', SignatureName) = s
    BY <2>2, WritesOnly, PlainContents
  <2>5. ListedIn(dir') /\ ListedIn(archive') /\ (OursIn(dir) => OursIn(dir)')
        /\ (SignedIn(archive) => SignedIn(archive)')
    BY <1>1, <2>3 DEF Manifests, ListedIn, OursIn, SignedIn
  <2>6. OursIn(dir) /\ SignedIn(dir) => SignedIn(dir)'
    BY <1>1, <2>1, <2>4 DEF OursIn, SignedIn, Plain
  <2>7. Building'
    <3>1. CASE End("failed")
      BY <3>1, EndedBuilding
    <3>2. CASE pk' = "signed" /\ UNCHANGED <<artifacts, supplements, attached>>
      BY <1>1, <3>2 DEF Building
    <3> QED
      BY <1>4, <3>1, <3>2 DEF Write
  <2> QED
    BY <1>1, <2>5, <2>6, <2>7 DEF Manifests, ListedIn, Closing
<1> QED
  BY <1>1, <1>2, <1>3, <1>4

LEMMA PackageKeepsManifests ==
  ASSUME Building, Manifests, Package, archive' = archive
  PROVE  Building' /\ Manifests' /\ made \subseteq made' /\ forged' = forged
<1>1. ASSUME NEW o \in Options, BeginPackage(o)
      PROVE  Building' /\ Manifests' /\ made \subseteq made' /\ forged' = forged
  <2>1. /\ opt' = o /\ dir' = dir /\ made' = made /\ forged' = forged
        /\ \/ End("failed")
           \/ pk' = "build" /\ UNCHANGED <<artifacts, supplements, attached>>
    BY <1>1 DEF BeginPackage
  <2>2. Building' /\ pk' \notin Closing
    BY <2>1, EndedBuilding DEF Building, Closing, End
  <2> QED
    BY <2>1, <2>2, HarmlessKeepsManifests DEF Harmless
<1>2. CASE BuildNext
  BY <1>2, BinaryBuilds, HarmlessKeepsManifests DEF Closing
<1>3. CASE AttachNext
  BY <1>3, AttestationBuilds, HarmlessKeepsManifests DEF Closing
<1>4. CASE SupplementNext
  BY <1>4, SupplementBuilds, HarmlessKeepsManifests DEF Closing
<1>5. CASE WriteManifest
  BY <1>5, ManifestIsOurs
<1>6. CASE WriteChecksums
  BY <1>6, ChecksumsAreHarmless
<1>7. CASE Sign
  BY <1>7, SignatureIsOfOurs
<1>8. CASE EndPackage
  <2>1. End("ok") /\ dir' = dir /\ made' = made /\ forged' = forged
    BY <1>8 DEF EndPackage, othersVars
  <2>2. Building' /\ pk' = "idle"
    BY <2>1, EndedBuilding DEF End
  <2> QED
    BY <2>1, <2>2, HarmlessKeepsManifests DEF Harmless, Closing
<1> QED
  BY <1>1, <1>2, <1>3, <1>4, <1>5, <1>6, <1>7, <1>8 DEF Package

LEMMA OthersKeepManifests ==
  ASSUME Building, Manifests, Edit \/ Forge \/ PutBack, archive' = archive
  PROVE  Building' /\ Manifests' /\ made' = made /\ forged \subseteq forged'
<1>0. ASSUME NEW d, Change(d) PROVE UNCHANGED packageVars /\ dir' = d
  BY <1>0 DEF Change
<1>1. UNCHANGED packageVars
  <2>1. CASE Edit
    BY <1>0, <2>1 DEF Edit
  <2>2. CASE Forge
    BY <2>2, Zenon DEF Forge, Change
  <2>3. CASE PutBack
    BY <1>0, <2>3 DEF PutBack
  <2> QED
    BY <2>1, <2>2, <2>3
<1>2. Building' /\ made' = made /\ pk' = pk
  BY <1>1 DEF Building, packageVars
<1>3. CASE Edit
  <2>1. PICK n \in DOMAIN dir : dir' = Put(n, Other) \/ dir' = Without(n)
    BY <1>3 DEF Edit, Change
  <2>2. \A x : At(dir', x) = At(dir, x) \/ Plain(At(dir', x))
    BY <2>1, AtPut, AtWithout, PlainContents
  <2>3. Harmless /\ forged' = forged
    BY <1>3, <2>2 DEF Harmless, Edit
  <2> QED
    BY <1>2, <2>3, HarmlessKeepsManifests
<1>4. CASE Forge
  <2> DEFINE m    == dir[ManifestName][2]
             arts == [i \in DOMAIN m.artifacts |->
                        [Redigested(m.artifacts[i]) EXCEPT !.attestations =
                           [j \in DOMAIN @ |-> Redigested(@[j])]]]
             sups == [i \in DOMAIN m.supplements |-> Redigested(m.supplements[i])]
             f    == Manifest(m.release, arts, sups)
             c    == AsChecksums(Checksums(arts, sups))
  <2>1. /\ IsManifest(At(dir, ManifestName)) /\ forged' = forged \cup {pk}
        /\ dir' = With(Put(ChecksumsName, c), ManifestName, AsManifest(f))
    BY <1>4, Zenon DEF Forge, Change
  <2>2. WellListed(m.artifacts, m.supplements)
    <3>1. dir[ManifestName] = At(dir, ManifestName)
      BY <2>1 DEF At, IsManifest, Absent
    <3> QED
      BY <2>1, <3>1 DEF Manifests, ListedIn
  <2>3. WellListed(arts, sups) /\ f.artifacts = arts /\ f.supplements = sups
    <3>1. WellListed(arts, sups)
      BY <2>2, RedigestedListed
    <3> HIDE DEF arts, sups
    <3> QED
      BY <3>1 DEF Manifest
  <2> HIDE DEF f, c, arts, sups, m
  <2>4. At(dir', ManifestName) = AsManifest(f) /\ At(dir', SignatureName) = At(dir, SignatureName)
    BY <2>1, AtWith, AtPut, NamesDiffer
  <2>5. ListedIn(dir') /\ ListedIn(archive')
    BY <2>3, <2>4 DEF Manifests, ListedIn, AsManifest
  <2>6. (SignedIn(dir) => SignedIn(dir)') /\ (SignedIn(archive) => SignedIn(archive)')
    BY <1>2, <2>4 DEF SignedIn
  <2>7. forged' # {} /\ forged \subseteq forged' /\ (forged' \subseteq {"idle"} => pk' \notin Closing)
    BY <1>2, <2>1 DEF Closing
  <2> QED
    BY <1>2, <2>5, <2>6, <2>7 DEF Manifests, ListedIn
<1>5. CASE PutBack
  <2>1. PICK n \in DOMAIN archive :
          /\ dir' = Put(n, archive[n])
          /\ forged' = IF n = ManifestName /\ IsManifest(archive[n]) /\ archive[n][2] \notin made
                       THEN forged \cup {pk} ELSE forged
    BY <1>5 DEF PutBack, Change
  <2>2. At(archive, n) = archive[n] /\ \A x : At(dir', x) = IF x = n THEN archive[n] ELSE At(dir, x)
    BY <2>1, AtPut DEF At
  <2>3. ListedIn(dir') /\ ListedIn(archive')
    BY <2>2 DEF Manifests, ListedIn
  <2>4. (SignedIn(dir) /\ SignedIn(archive) => SignedIn(dir)') /\ (SignedIn(archive) => SignedIn(archive)')
    BY <1>2, <2>2 DEF SignedIn
  <2>5. CASE n = ManifestName /\ IsManifest(archive[n]) /\ archive[n][2] \notin made
    <3>1. forged' = forged \cup {pk}
      BY <2>1, <2>5
    <3>2. forged' # {} /\ forged \subseteq forged' /\ (forged' \subseteq {"idle"} => pk' \notin Closing)
      BY <1>2, <3>1 DEF Closing
    <3> QED
      BY <1>2, <2>3, <2>4, <3>2 DEF Manifests, ListedIn
  <2>6. CASE ~(n = ManifestName /\ IsManifest(archive[n]) /\ archive[n][2] \notin made)
    <3>1. forged' = forged
      BY <2>1, <2>6
    <3>2. OursIn(dir) => OursIn(dir)'
      BY <1>2, <2>2, <2>6 DEF OursIn
    <3> QED
      BY <1>2, <2>3, <2>4, <3>1, <3>2 DEF Manifests, ListedIn
  <2> QED
    BY <2>5, <2>6
<1> QED
  BY <1>2, <1>3, <1>4, <1>5

-----------------------------------------------------------------------------
(* The release: what an audit has looked at. *)

\* A listed file was read as listed, or a problem says that it was not.
Told(e, r, ps) == Problem(e) \in ps \/ (e.path \in DOMAIN r /\ r[e.path] = e.sum)

\* Of the first k entries each is told, or is an attestation that was passed over:
\* its binary is one of them and could not be read.  The others were not read yet.
LookedAt(m, k, r, ps) ==
  LET L == Listing(m)
  IN /\ \A x \in 1..k :
          \/ Told(L[x], r, ps)
          \/ \E y \in 1..k, i \in 1..Len(m.artifacts) :
               /\ L[y] = m.artifacts[i] /\ L[y].path \notin DOMAIN r
               /\ \E t \in 1..Len(m.artifacts[i].attestations) : L[x] = m.artifacts[i].attestations[t]
     /\ \A x \in (k + 1)..Len(L) : L[x].path \notin DOMAIN r

\* What is left of a sequence from a place on, and what is left of that.
LEMMA TailIs ==
  ASSUME NEW S, NEW s \in Seq(S), NEW a \in Nat, NEW q \in Nat, Len(s) = a + q
  PROVE  SubSeq(s, a + 1, Len(s)) = [i \in 1..q |-> s[a + i]]
BY SMT

LEMMA RestOfRest ==
  ASSUME NEW S, NEW L \in Seq(S), NEW k \in 0..Len(L), NEW p \in Nat, k + 1 + p <= Len(L)
  PROVE  LET T == SubSeq(L, k + 1, Len(L))
         IN /\ Head(T) = L[k + 1]
            /\ SubSeq(T, 2 + p, Len(T)) = SubSeq(L, (k + 1 + p) + 1, Len(L))
<1> DEFINE T == SubSeq(L, k + 1, Len(L))
           n == Len(L)
<1>1. n \in Nat /\ k \in Nat /\ k + 1 <= n
  OBVIOUS
<1>3. T \in Seq(S) /\ Len(T) = n - k /\ \A i \in 1..(n - k) : T[i] = L[k + i]
  <2>1. k + 1 \in Int /\ n \in Int /\ \A i \in (k + 1)..n : L[i] \in S
    BY <1>1
  <2>2. /\ T \in Seq(S) /\ Len(T) = IF k + 1 <= n THEN n - (k + 1) + 1 ELSE 0
        /\ \A i \in 1..(n - (k + 1) + 1) : T[i] = L[k + 1 + i - 1]
    BY <2>1, SubSeqProperties
  <2> HIDE DEF T
  <2>3. \A i \in 1..(n - k) : i \in 1..(n - (k + 1) + 1) /\ k + 1 + i - 1 = k + i
    BY <1>1
  <2> QED
    BY <1>1, <2>2, <2>3
<1> HIDE DEF T
<1>4. Head(T) = L[k + 1]
  BY <1>1, <1>3
<1>5. SubSeq(T, 2 + p, n - k) = [i \in 1..(n - k - 1 - p) |-> L[k + (1 + p) + i]]
  <2> DEFINE q == n - k - 1 - p
  <2>1. q \in Nat /\ n - k = (1 + p) + q /\ 1 + p \in Nat
    BY <1>1
  <2>2. SubSeq(T, (1 + p) + 1, Len(T)) = [i \in 1..q |-> T[(1 + p) + i]]
    <3>1. T \in Seq(S) /\ Len(T) = (1 + p) + q
      BY <1>3, <2>1
    <3> QED
      BY <2>1, <3>1, TailIs
  <2>3. 2 + p = (1 + p) + 1 /\ Len(T) = n - k
    BY <1>3
  <2>4. ASSUME NEW i \in 1..q PROVE T[(1 + p) + i] = L[k + (1 + p) + i]
    <3>1. (1 + p) + i \in 1..(n - k) /\ k + ((1 + p) + i) = k + (1 + p) + i
      BY <1>1, <2>1
    <3> QED
      BY <1>3, <3>1
  <2> QED
    BY <2>2, <2>3, <2>4
<1>6. SubSeq(L, (k + 1 + p) + 1, n) = [i \in 1..(n - k - 1 - p) |-> L[k + (1 + p) + i]]
  BY <1>1
<1> QED
  BY <1>3, <1>4, <1>5, <1>6 DEF T

\* Which kind of entry it is tells where in the manifest it is.
LEMMA BinariesAreListed ==
  ASSUME NEW m, WellListed(m.artifacts, m.supplements)
  PROVE  /\ \A e \in Entries(m.artifacts, m.supplements) :
              e.kind = "artifact" => \E i \in 1..Len(m.artifacts) : e = m.artifacts[i]
         /\ \A i \in 1..Len(m.artifacts) :
              /\ m.artifacts[i].kind = "artifact"
              /\ m.artifacts[i] \in Entries(m.artifacts, m.supplements)
              /\ \A t \in 1..Len(m.artifacts[i].attestations) :
                   /\ m.artifacts[i].attestations[t].kind = "attestation"
                   /\ m.artifacts[i].attestations[t] \in Entries(m.artifacts, m.supplements)
         /\ \A j \in 1..Len(m.supplements) :
              /\ m.supplements[j].kind \in {"sbom", "provenance"}
              /\ m.supplements[j] \in Entries(m.artifacts, m.supplements)
<1> DEFINE arts == m.artifacts
           sups == m.supplements
<1>1. WellShaped(arts, sups)
  BY DEF WellListed
<1> HIDE DEF arts, sups
<1>2. /\ DOMAIN arts = 1..Len(arts) /\ DOMAIN sups = 1..Len(sups)
      /\ \A i \in 1..Len(arts) : DOMAIN arts[i].attestations = 1..Len(arts[i].attestations)
  BY <1>1, ShapedLists
<1>3. ASSUME NEW i \in 1..Len(arts)
      PROVE  /\ arts[i].kind = "artifact"
             /\ \A t \in 1..Len(arts[i].attestations) : arts[i].attestations[t].kind = "attestation"
  <2> DEFINE a == arts[i]
  <2>1. IsArtifact(a) /\ \A t \in 1..Len(a.attestations) : IsAttestation(a.attestations[t])
    BY <1>1, <1>2 DEF WellShaped
  <2> HIDE DEF a
  <2>2. a.kind = "artifact"
    BY <2>1 DEF IsArtifact
  <2>3. \A e : IsAttestation(e) => e.kind = "attestation"
    BY DEF IsAttestation
  <2> QED
    BY <2>1, <2>2, <2>3 DEF a
<1>4. ASSUME NEW j \in 1..Len(sups) PROVE sups[j].kind \in {"sbom", "provenance"}
  BY <1>1, <1>2 DEF WellShaped, IsSupplement
<1>5. Entries(arts, sups) = {ListedAt(arts, sups, p) : p \in Places(arts, sups)}
  BY <1>1, EntriesAreListed
<1>6. ASSUME NEW e \in Entries(arts, sups), e.kind = "artifact"
      PROVE  \E i \in 1..Len(arts) : e = arts[i]
  <2>1. PICK p \in Places(arts, sups) : e = ListedAt(arts, sups, p)
    BY <1>5
  <2> QED
    BY <1>1, <1>3, <1>4, <1>6, <2>1, PlaceIs
<1>7. /\ \A i \in 1..Len(arts) :
           /\ arts[i] \in Entries(arts, sups)
           /\ \A t \in 1..Len(arts[i].attestations) : arts[i].attestations[t] \in Entries(arts, sups)
      /\ \A j \in 1..Len(sups) : sups[j] \in Entries(arts, sups)
  <2>1. \A p \in Places(arts, sups) : ListedAt(arts, sups, p) \in Entries(arts, sups)
    BY <1>5
  <2>2. ASSUME NEW i \in 1..Len(arts)
        PROVE  /\ arts[i] \in Entries(arts, sups)
               /\ \A t \in 1..Len(arts[i].attestations) : arts[i].attestations[t] \in Entries(arts, sups)
    <3>1. <<i, 0>> \in Places(arts, sups) /\ ListedAt(arts, sups, <<i, 0>>) = arts[i]
      BY <1>1, PlacesThereAre
    <3>2. ASSUME NEW t \in 1..Len(arts[i].attestations)
          PROVE  /\ <<i, t>> \in Places(arts, sups)
                 /\ ListedAt(arts, sups, <<i, t>>) = arts[i].attestations[t]
      BY <1>1, PlacesThereAre
    <3> QED
      BY <2>1, <3>1, <3>2
  <2>3. ASSUME NEW j \in 1..Len(sups) PROVE sups[j] \in Entries(arts, sups)
    <3>1. <<0, j>> \in Places(arts, sups) /\ ListedAt(arts, sups, <<0, j>>) = sups[j]
      BY <1>1, PlacesThereAre
    <3> QED
      BY <2>1, <3>1
  <2> QED
    BY <2>2, <2>3
<1> QED
  BY <1>3, <1>4, <1>6, <1>7 DEF arts, sups

\* What is noted down of an entry under whose path c lies.
Noted(e, c, r, ps, r2, ps2) ==
  /\ ps \subseteq ps2
  /\ c = Absent => r2 = r /\ Problem(e) \in ps2
  /\ c # Absent => r2 = With(r, e.path, c) /\ (c = e.sum \/ Problem(e) \in ps2)

PassedOver(e, c) == IF e.kind = "artifact" /\ c = Absent THEN Len(e.attestations) ELSE 0

LEMMA NextIsLookedAt ==
  ASSUME NEW m, WellListed(m.artifacts, m.supplements),
         NEW k \in Nat, k + 1 \in 1..Len(Listing(m)),
         NEW r, NEW ps, LookedAt(m, k, r, ps), NEW r2, NEW ps2, NEW c,
         NEW e, e = Listing(m)[k + 1], Noted(e, c, r, ps, r2, ps2)
  PROVE  LET p == PassedOver(e, c)
         IN p \in Nat /\ k + 1 + p <= Len(Listing(m)) /\ LookedAt(m, k + 1 + p, r2, ps2)
<1> DEFINE L == Listing(m)
           n == Len(L)
           S == Entries(m.artifacts, m.supplements)
           p == PassedOver(e, c)
<1>1. /\ L \in Seq(S)
      /\ \A x, y \in 1..n : L[x].path = L[y].path => x = y
      /\ \A x \in 1..n : \A i \in 1..Len(m.artifacts) : L[x] = m.artifacts[i] =>
           \A t \in 1..Len(m.artifacts[i].attestations) :
             x + t \in 1..n /\ L[x + t] = m.artifacts[i].attestations[t]
  BY ListingGoesThrough
<1> HIDE DEF S
<1>2. n \in Nat /\ k \in Nat /\ k + 1 \in 1..n
  BY <1>1
<1>3. \/ e.kind = "artifact" /\ c = Absent /\ p = Len(e.attestations)
      \/ ~(e.kind = "artifact" /\ c = Absent) /\ p = 0
  BY DEF PassedOver
<1>4. e \in S /\ e = L[k + 1]
  BY <1>1, <1>2
<1>5. WellShaped(m.artifacts, m.supplements)
  BY DEF WellListed
<1>6. e.kind = "artifact" => \E i \in 1..Len(m.artifacts) : e = m.artifacts[i]
  BY <1>4, BinariesAreListed DEF S
<1>7. (c = Absent => r2 = r /\ Problem(e) \in ps2)
      /\ (c # Absent => r2 = With(r, e.path, c) /\ (c = e.sum \/ Problem(e) \in ps2))
      /\ ps \subseteq ps2
  BY DEF Noted
<1>8. /\ \A x \in 1..k :
           \/ Told(L[x], r, ps)
           \/ \E y \in 1..k, i \in 1..Len(m.artifacts) :
                /\ L[y] = m.artifacts[i] /\ L[y].path \notin DOMAIN r
                /\ \E t \in 1..Len(m.artifacts[i].attestations) : L[x] = m.artifacts[i].attestations[t]
      /\ \A x \in (k + 1)..n : L[x].path \notin DOMAIN r
  BY DEF LookedAt
<1> HIDE DEF L, p, n
<1>9. p \in Nat /\ k + 1 + p \in 0..n /\ k + 1 + p <= n
  <2>1. CASE e.kind = "artifact" /\ c = Absent
    <3>1. PICK i \in 1..Len(m.artifacts) : e = m.artifacts[i]
      BY <1>6, <2>1
    <3>2. p = Len(m.artifacts[i].attestations) /\ p \in Nat
      BY <1>5, <1>3, <2>1, <3>1, ShapedLists
    <3>3. \A t \in 1..Len(m.artifacts[i].attestations) : (k + 1) + t \in 1..n
      BY <1>1, <1>2, <1>4, <3>1
    <3>4. p = 0 \/ (p \in 1..Len(m.artifacts[i].attestations) /\ (k + 1) + p = k + 1 + p)
      BY <3>2
    <3>5. k + 1 + p \in 1..n
      BY <1>2, <3>3, <3>4
    <3>6. k + 1 + p <= n /\ k + 1 + p \in 0..n
      BY <1>2, <3>5
    <3> QED
      BY <3>2, <3>6
  <2>2. CASE ~(e.kind = "artifact" /\ c = Absent)
    BY <1>2, <1>3, <2>2
  <2> QED
    BY <2>1, <2>2
<1>10. e.path \notin DOMAIN r /\ DOMAIN r \subseteq DOMAIN r2 /\ (\A z \in DOMAIN r : r2[z] = r[z])
       /\ DOMAIN r2 \subseteq DOMAIN r \cup {e.path} /\ (c = Absent => r2 = r) /\ Told(e, r2, ps2)
  <2>1. e.path \notin DOMAIN r
    BY <1>2, <1>4, <1>8
  <2>2. CASE c = Absent
    BY <1>7, <2>1, <2>2 DEF Told
  <2>3. CASE c # Absent
    <3>1. r2 = With(r, e.path, c) /\ (c = e.sum \/ Problem(e) \in ps2)
      BY <1>7, <2>3
    <3>2. /\ DOMAIN r2 = DOMAIN r \cup {e.path} /\ r2[e.path] = c
          /\ \A z \in DOMAIN r : r2[z] = r[z]
      BY <2>1, <3>1 DEF With
    <3> QED
      BY <2>1, <2>3, <3>1, <3>2 DEF Told
  <2> QED
    BY <2>2, <2>3
<1>11. \A z : Told(z, r, ps) => Told(z, r2, ps2)
  BY <1>7, <1>10 DEF Told
<1> DEFINE Passed(x, l) == \E y \in 1..l, i \in 1..Len(m.artifacts) :
                             /\ L[y] = m.artifacts[i] /\ L[y].path \notin DOMAIN r2
                             /\ \E t \in 1..Len(m.artifacts[i].attestations) :
                                  L[x] = m.artifacts[i].attestations[t]
<1>12. ASSUME NEW x \in 1..(k + 1 + p) PROVE Told(L[x], r2, ps2) \/ Passed(x, k + 1 + p)
  <2>1. CASE x \in 1..k
    <3>1. CASE Told(L[x], r, ps)
      BY <1>11, <3>1
    <3>2. ASSUME NEW y \in 1..k, NEW i \in 1..Len(m.artifacts), NEW t \in 1..Len(m.artifacts[i].attestations),
                 L[y] = m.artifacts[i], L[y].path \notin DOMAIN r, L[x] = m.artifacts[i].attestations[t]
          PROVE  Passed(x, k + 1 + p)
      <4>1. y \in 1..(k + 1 + p) /\ y \in 1..n /\ y # k + 1
        BY <1>2, <1>9
      <4>2. L[y].path # e.path
        BY <1>1, <1>2, <1>4, <4>1
      <4>3. L[y].path \notin DOMAIN r2
        BY <1>10, <3>2, <4>2
      <4> QED
        BY <3>2, <4>1, <4>3
    <3> HIDE DEF Passed
    <3> QED
      BY <1>8, <2>1, <3>1, <3>2
  <2>2. CASE x = k + 1
    BY <1>4, <1>10, <2>2
  <2>3. CASE x > k + 1
    <3>1. e.kind = "artifact" /\ c = Absent
      BY <1>2, <1>3, <2>3
    <3>2. PICK i \in 1..Len(m.artifacts) : e = m.artifacts[i]
      BY <1>6, <3>1
    <3>3. p = Len(m.artifacts[i].attestations) /\ x - (k + 1) \in 1..p /\ (k + 1) + (x - (k + 1)) = x
      BY <1>2, <1>9, <1>3, <2>3, <3>1, <3>2
    <3>4. L[x] = m.artifacts[i].attestations[x - (k + 1)]
      <4>1. \A t \in 1..Len(m.artifacts[i].attestations) : L[(k + 1) + t] = m.artifacts[i].attestations[t]
        <5>1. k + 1 \in 1..n /\ L[k + 1] = m.artifacts[i]
          BY <1>2, <1>4, <3>2
        <5>2. \A z \in 1..n : L[z] = m.artifacts[i] =>
                \A t \in 1..Len(m.artifacts[i].attestations) : L[z + t] = m.artifacts[i].attestations[t]
          BY <1>1
        <5> QED
          BY <5>1, <5>2
      <4> QED
        BY <3>3, <4>1
    <3>5. L[k + 1].path \notin DOMAIN r2 /\ L[k + 1] = m.artifacts[i] /\ k + 1 \in 1..(k + 1 + p)
      BY <1>2, <1>4, <1>9, <1>10, <3>1, <3>2
    <3> QED
      BY <3>3, <3>4, <3>5
  <2> HIDE DEF Passed
  <2> QED
    BY <1>2, <1>9, <2>1, <2>2, <2>3
<1>13. ASSUME NEW x \in ((k + 1 + p) + 1)..n PROVE L[x].path \notin DOMAIN r2
  <2>1. x \in (k + 1)..n /\ x \in 1..n /\ x # k + 1
    BY <1>2, <1>9
  <2>2. L[x].path \notin DOMAIN r /\ L[x].path # e.path
    BY <1>1, <1>2, <1>4, <1>8, <2>1
  <2> QED
    BY <1>10, <2>2
<1>14. LookedAt(m, k + 1 + p, r2, ps2)
  BY <1>12, <1>13 DEF LookedAt, L, n
<1> QED
  BY <1>9, <1>14 DEF L, n, p

\* Nobody else put a manifest there, or the signature would tell.
Trusted(s) == forged = {} \/ (s # NoKey /\ forged \subseteq {"idle"})

AuditHolds ==
  /\ au \in {"idle", "signature", "checksums", "files"}
  /\ au \in {"idle", "signature"} => signer = NoKey /\ problems = {}
  /\ au # "files" => read = <<>>
  /\ au # "idle" =>
       /\ WellListed(seen.artifacts, seen.supplements)
       /\ Trusted(signer) => seen \in made
       /\ au # "signature" => signer = audit.key \/ OfRelease \in problems
       /\ \E k \in Nat :
            /\ k <= Len(Listing(seen)) /\ (au # "files" => k = 0)
            /\ todo = SubSeq(Listing(seen), k + 1, Len(Listing(seen)))
            /\ LookedAt(seen, k, read, problems)

AnswerHolds ==
  answer.how = "done" =>
    /\ WellListed(answer.manifest.artifacts, answer.manifest.supplements)
    /\ Trusted(answer.signer) => answer.manifest \in made
    /\ answer.signer = answer.audit.key \/ OfRelease \in answer.problems
    /\ LookedAt(answer.manifest, Len(Listing(answer.manifest)), answer.read, answer.problems)

LEMMA AnswersAre == Error.how # "done" /\ NoAnswer.how # "done"
BY DEF Error, NoAnswer

\* What the audit does not do leaves it as it is.
LEMMA OthersKeepAudit ==
  ASSUME AuditHolds, AnswerHolds, UNCHANGED auditVars, made \subseteq made', forged \subseteq forged'
  PROVE  AuditHolds' /\ AnswerHolds'
<1>1. UNCHANGED <<au, audit, seen, signer, todo, read, problems, answer>>
  BY DEF auditVars, auditLocals
<1>2. \A s : Trusted(s)' => Trusted(s)
  BY DEF Trusted
<1>3. AuditHolds'
  BY <1>1, <1>2 DEF AuditHolds
<1>4. AnswerHolds'
  BY <1>1, <1>2 DEF AnswerHolds
<1> QED
  BY <1>3, <1>4

LEMMA AuditBegins ==
  ASSUME Manifests, AuditHolds, AnswerHolds, NEW a, BeginAudit(a)
  PROVE  AuditHolds' /\ AnswerHolds'
<1>1. au = "idle" /\ made' = made /\ forged' = forged
  BY DEF BeginAudit, releaseVars, packageVars, othersVars
<1>2. signer = NoKey /\ problems = {} /\ read = <<>>
  BY <1>1 DEF AuditHolds
<1>3. \A s : Trusted(s)' = Trusted(s)
  BY <1>1 DEF Trusted
<1>4. CASE IsManifest(At(dir, ManifestName))
  <2>1. /\ au' = "signature" /\ seen' = dir[ManifestName][2] /\ todo' = Listing(seen')
        /\ UNCHANGED <<signer, read, problems, answer>>
    BY <1>4 DEF BeginAudit
  <2>2. dir[ManifestName] = At(dir, ManifestName)
    BY <1>4 DEF At, IsManifest, Absent
  <2>3. WellListed(seen'.artifacts, seen'.supplements)
    BY <1>4, <2>1, <2>2 DEF Manifests, ListedIn
  <2>4. Trusted(signer)' => seen' \in made'
    BY <1>1, <1>2, <1>4, <2>1, <2>2 DEF Trusted, Manifests, OursIn
  <2> DEFINE L == Listing(seen')
  <2>5. L \in Seq(Entries(seen'.artifacts, seen'.supplements))
    BY <2>3, ListingGoesThrough
  <2>6. todo' = SubSeq(L, 0 + 1, Len(L)) /\ 0 <= Len(L)
    <3>1. todo' = L /\ SubSeq(L, 1, Len(L)) = L
      <4>1. todo' = L
        BY <2>1
      <4> HIDE DEF L
      <4> QED
        BY <2>5, <4>1, SubSeqFull
    <3> HIDE DEF L
    <3> QED
      BY <2>5, <3>1
  <2>7. LookedAt(seen', 0, read', problems')
    <3>1. DOMAIN read' = {} /\ 1..0 = {}
      BY <1>2, <2>1
    <3> QED
      BY <3>1 DEF LookedAt
  <2>8. \E k \in Nat :
          /\ k <= Len(Listing(seen')) /\ (au' # "files" => k = 0)
          /\ todo' = SubSeq(Listing(seen'), k + 1, Len(Listing(seen')))
          /\ LookedAt(seen', k, read', problems')
    <3> WITNESS 0 \in Nat
    <3> QED
      BY <2>6, <2>7
  <2>9. AuditHolds'
    BY <1>2, <2>1, <2>3, <2>4, <2>8 DEF AuditHolds
  <2>10. AnswerHolds'
    BY <1>1, <1>3, <2>1 DEF AnswerHolds
  <2> QED
    BY <2>9, <2>10
<1>5. CASE ~IsManifest(At(dir, ManifestName))
  <2>1. au' = "idle" /\ answer' = Error /\ UNCHANGED auditLocals
    BY <1>5 DEF BeginAudit, Answer
  <2>2. AuditHolds'
    BY <1>2, <2>1 DEF AuditHolds, auditLocals
  <2> QED
    BY <2>1, <2>2, AnswersAre DEF AnswerHolds
<1> QED
  BY <1>4, <1>5

LEMMA SignatureIsChecked ==
  ASSUME Manifests, AuditHolds, AnswerHolds, CheckSignature
  PROVE  AuditHolds' /\ AnswerHolds'
<1>1. /\ au = "signature" /\ au' = "checksums" /\ made' = made /\ forged' = forged
      /\ UNCHANGED <<audit, seen, todo, read, answer>>
      /\ IF audit.key = NoKey THEN UNCHANGED <<signer, problems>>
         ELSE IF SignatureHolds(At(dir, SignatureName), audit.key, seen)
              THEN signer' = audit.key /\ UNCHANGED problems
              ELSE problems' = problems \cup {OfRelease} /\ UNCHANGED signer
  BY DEF CheckSignature, releaseVars, packageVars, othersVars
<1>2. signer = NoKey /\ problems = {} /\ read = <<>>
  BY <1>1 DEF AuditHolds
<1>3. \A s : Trusted(s)' = Trusted(s)
  BY <1>1 DEF Trusted
<1>4. signer' = audit'.key \/ OfRelease \in problems'
  BY <1>1, <1>2
<1>5. Trusted(signer)' => seen' \in made'
  <2>1. CASE forged = {} \/ signer' = NoKey
    BY <1>1, <1>2, <2>1 DEF AuditHolds, Trusted
  <2>2. CASE signer' # NoKey /\ forged \subseteq {"idle"}
    <3>1. At(dir, SignatureName) = AsSignature(audit.key, AsManifest(seen))
      BY <1>1, <1>2, <2>2 DEF SignatureHolds
    <3>2. SignedIn(dir)
      BY <2>2 DEF Manifests
    <3> QED
      BY <1>1, <3>1, <3>2 DEF SignedIn, AsSignature, AsManifest, IsManifest
  <2> QED
    BY <1>1, <2>1, <2>2 DEF Trusted
<1>6. PICK k \in Nat :
        /\ k <= Len(Listing(seen)) /\ k = 0
        /\ todo = SubSeq(Listing(seen), k + 1, Len(Listing(seen)))
        /\ LookedAt(seen, k, read, problems)
  BY <1>1 DEF AuditHolds
<1>7. LookedAt(seen, k, read, problems')
  BY <1>6 DEF LookedAt
<1>8. WellListed(seen.artifacts, seen.supplements)
  BY <1>1 DEF AuditHolds
<1>9. AuditHolds'
  BY <1>1, <1>2, <1>4, <1>5, <1>6, <1>7, <1>8 DEF AuditHolds
<1>10. AnswerHolds'
  BY <1>1, <1>3 DEF AnswerHolds
<1> QED
  BY <1>9, <1>10

LEMMA Forgotten ==
  ASSUME Forget, au' = "idle"
  PROVE  AuditHolds'
BY DEF Forget, AuditHolds

LEMMA ChecksumsAreRead ==
  ASSUME AuditHolds, AnswerHolds, ReadChecksums
  PROVE  AuditHolds' /\ AnswerHolds'
<1>1. au = "checksums" /\ made' = made /\ forged' = forged
  BY DEF ReadChecksums, releaseVars, packageVars, othersVars
<1>2. CASE Answer(Error) /\ Forget
  BY <1>2, Forgotten, AnswersAre DEF Answer, AnswerHolds
<1>3. CASE au' = "files" /\ UNCHANGED <<audit, seen, signer, todo, read, problems, answer>>
  <2>1. Trusted(signer)' = Trusted(signer) /\ Trusted(answer.signer)' = Trusted(answer.signer)
    BY <1>1, <1>3 DEF Trusted
  <2>2. AuditHolds'
    BY <1>1, <1>3, <2>1 DEF AuditHolds
  <2> QED
    BY <1>1, <1>3, <2>1, <2>2 DEF AnswerHolds
<1> QED
  BY <1>2, <1>3 DEF ReadChecksums

LEMMA NextIsChecked ==
  ASSUME AuditHolds, AnswerHolds, CheckNext
  PROVE  AuditHolds' /\ AnswerHolds'
<1> DEFINE e == Head(todo)
           c == At(dir, e.path)
           p == PassedOver(e, c)
           L == Listing(seen)
           n == Len(L)
<1>1. /\ au = "files" /\ au' = au /\ todo # <<>> /\ made' = made /\ forged' = forged
      /\ UNCHANGED <<audit, seen, signer, answer>>
      /\ todo' = SubSeq(todo, 2 + p, Len(todo))
      /\ read' = IF c = Absent THEN read ELSE With(read, e.path, c)
  BY DEF CheckNext, releaseVars, packageVars, othersVars, PassedOver
<1>2. \E late \in {FALSE, Runnable(audit.mode, e)} :
        problems' = IF late \/ Faulty(audit.mode, e, c, sums, seen.release)
                    THEN problems \cup {Problem(e)} ELSE problems
  BY DEF CheckNext
<1>3. problems \subseteq problems' /\ (c # e.sum \/ c = Absent => Problem(e) \in problems')
  <2>1. c # e.sum \/ c = Absent => Faulty(audit.mode, e, c, sums, seen.release)
    BY DEF Faulty, Unlike
  <2> HIDE DEF e, c
  <2> QED
    BY <1>2, <2>1
<1>4. Noted(e, c, read, problems, read', problems')
  <2> HIDE DEF e, c
  <2> QED
    BY <1>1, <1>3 DEF Noted
<1>5. PICK k \in Nat :
        /\ k <= n /\ todo = SubSeq(L, k + 1, n) /\ LookedAt(seen, k, read, problems)
  BY <1>1 DEF AuditHolds
<1>6. WellListed(seen.artifacts, seen.supplements)
  BY <1>1 DEF AuditHolds
<1> DEFINE S == Entries(seen.artifacts, seen.supplements)
<1>7. L \in Seq(S)
  BY <1>6, ListingGoesThrough
<1> HIDE DEF S, L, c, p
<1>8. n \in Nat /\ k \in 0..n /\ k + 1 \in 1..n
  <2>1. n \in Nat /\ k \in 0..n
    BY <1>5, <1>7
  <2>2. k # n
    <3>1. SubSeq(L, n + 1, n) = <<>>
      BY <2>1, SubSeqEmpty
    <3> QED
      BY <1>1, <1>5, <3>1
  <2> QED
    BY <2>1, <2>2
<1>9. e = L[k + 1]
  <2>1. Head(SubSeq(L, k + 1, n)) = L[k + 1]
    BY <1>7, <1>8, RestOfRest
  <2> QED
    BY <1>5, <2>1
<1> HIDE DEF e
<1>10. p \in Nat /\ k + 1 + p <= n /\ LookedAt(seen, k + 1 + p, read', problems')
  BY <1>4, <1>5, <1>6, <1>8, <1>9, NextIsLookedAt DEF L, p
<1>11. todo' = SubSeq(L, (k + 1 + p) + 1, n)
  <2>1. SubSeq(SubSeq(L, k + 1, n), 2 + p, Len(SubSeq(L, k + 1, n))) = SubSeq(L, (k + 1 + p) + 1, n)
    BY <1>7, <1>8, <1>10, RestOfRest
  <2> QED
    BY <1>1, <1>5, <2>1
<1>12. Trusted(signer)' = Trusted(signer) /\ Trusted(answer.signer)' = Trusted(answer.signer)
  BY <1>1 DEF Trusted
<1>13. \E l \in Nat :
         /\ l <= Len(Listing(seen')) /\ (au' # "files" => l = 0)
         /\ todo' = SubSeq(Listing(seen'), l + 1, Len(Listing(seen')))
         /\ LookedAt(seen', l, read', problems')
  <2>1. k + 1 + p \in Nat
    BY <1>10
  <2>2. seen' = seen /\ au' = "files"
    BY <1>1
  <2> QED
    BY <1>10, <1>11, <2>1, <2>2 DEF L
<1>14. AuditHolds'
  BY <1>1, <1>3, <1>6, <1>12, <1>13 DEF AuditHolds
<1>15. AnswerHolds'
  BY <1>1, <1>12 DEF AnswerHolds
<1> QED
  BY <1>14, <1>15

LEMMA AuditAnswers ==
  ASSUME AuditHolds, AnswerHolds, EndAudit
  PROVE  AuditHolds' /\ AnswerHolds'
<1>1. au = "files" /\ todo = <<>> /\ made' = made /\ forged' = forged /\ au' = "idle" /\ Forget
  BY DEF EndAudit, releaseVars, packageVars, othersVars, Answer
<1>2. PICK found, s : problems \subseteq found /\ answer' =
        [how |-> "done", audit |-> audit, manifest |-> seen, signer |-> signer,
         named |-> named, read |-> read, problems |-> found, status |-> s]
  BY DEF EndAudit, Answer
<1>3. /\ answer'.audit = audit /\ answer'.manifest = seen /\ answer'.signer = signer
      /\ answer'.read = read /\ answer'.problems = found
  BY <1>2
<1>4. PICK k \in Nat :
        /\ k <= Len(Listing(seen)) /\ todo = SubSeq(Listing(seen), k + 1, Len(Listing(seen)))
        /\ LookedAt(seen, k, read, problems)
  BY <1>1 DEF AuditHolds
<1>5. WellListed(seen.artifacts, seen.supplements)
  BY <1>1 DEF AuditHolds
<1>6. k = Len(Listing(seen))
  <2> DEFINE L == Listing(seen)
  <2>1. L \in Seq(Entries(seen.artifacts, seen.supplements))
    BY <1>5, ListingGoesThrough
  <2> HIDE DEF L
  <2>2. SubSeq(L, k + 1, Len(L)) = <<>> /\ k <= Len(L)
    BY <1>1, <1>4 DEF L
  <2>3. Len(SubSeq(L, k + 1, Len(L))) = Len(L) - k /\ Len(L) \in Nat
    BY <2>1, <2>2
  <2> DEFINE x == Len(SubSeq(L, k + 1, Len(L)))
  <2>4. x = 0
    <3>1. Len(<<>>) = 0
      OBVIOUS
    <3> QED
      BY <2>2, <3>1, Zenon
  <2> HIDE DEF x
  <2>5. x = Len(L) - k
    BY <2>3 DEF x
  <2>6. k = Len(L)
    BY <2>3, <2>4, <2>5
  <2> QED
    BY <2>6 DEF L
<1>7. LookedAt(seen, Len(Listing(seen)), read, found)
  <2>1. \A z : Told(z, read, problems) => Told(z, read, found)
    BY <1>2 DEF Told
  <2> QED
    BY <1>4, <1>6, <2>1 DEF LookedAt
<1>8. (Trusted(signer) => seen \in made) /\ (signer = audit.key \/ OfRelease \in found)
  BY <1>1, <1>2 DEF AuditHolds
<1>9. Trusted(answer.signer)' => Trusted(signer)
  BY <1>1, <1>3 DEF Trusted
<1>10. AnswerHolds'
  BY <1>1, <1>3, <1>5, <1>7, <1>8, <1>9 DEF AnswerHolds
<1> QED
  BY <1>1, <1>10, Forgotten

\* All of a manifest has been looked at: only the attestations of a binary that
\* could not be read are not told of.
LEMMA LookedThrough ==
  ASSUME NEW m, WellListed(m.artifacts, m.supplements), NEW r, NEW ps,
         LookedAt(m, Len(Listing(m)), r, ps)
  PROVE  /\ \A i \in 1..Len(m.artifacts) :
              /\ Told(m.artifacts[i], r, ps)
              /\ m.artifacts[i].path \in DOMAIN r =>
                   \A t \in 1..Len(m.artifacts[i].attestations) : Told(m.artifacts[i].attestations[t], r, ps)
         /\ \A j \in 1..Len(m.supplements) : Told(m.supplements[j], r, ps)
<1> DEFINE S == Entries(m.artifacts, m.supplements)
           Passed(e) == \E i \in 1..Len(m.artifacts) :
                          /\ m.artifacts[i].path \notin DOMAIN r
                          /\ \E t \in 1..Len(m.artifacts[i].attestations) : e = m.artifacts[i].attestations[t]
<1>1. WellShaped(m.artifacts, m.supplements) /\ PathsApart(m.artifacts, m.supplements)
  BY DEF WellListed
<1>2. ASSUME NEW e \in S PROVE Told(e, r, ps) \/ Passed(e)
  <2> DEFINE L == Listing(m)
  <2>1. PICK x \in 1..Len(L) : L[x] = e
    BY ListingGoesThrough
  <2>2. \/ Told(L[x], r, ps)
        \/ \E y \in 1..Len(L), i \in 1..Len(m.artifacts) :
             /\ L[y] = m.artifacts[i] /\ L[y].path \notin DOMAIN r
             /\ \E t \in 1..Len(m.artifacts[i].attestations) : L[x] = m.artifacts[i].attestations[t]
    BY DEF LookedAt
  <2> HIDE DEF L
  <2> QED
    BY <2>1, <2>2
<1>3. ASSUME NEW e, Passed(e) PROVE e.kind = "attestation"
  <2>1. PICK i \in 1..Len(m.artifacts) :
          \E t \in 1..Len(m.artifacts[i].attestations) : e = m.artifacts[i].attestations[t]
    BY <1>3
  <2>2. \A t \in 1..Len(m.artifacts[i].attestations) : m.artifacts[i].attestations[t].kind = "attestation"
    BY BinariesAreListed
  <2> HIDE DEF Passed
  <2> QED
    BY <2>1, <2>2
<1>4. ASSUME NEW i \in 1..Len(m.artifacts), NEW t \in 1..Len(m.artifacts[i].attestations),
             m.artifacts[i].path \in DOMAIN r
      PROVE  ~Passed(m.artifacts[i].attestations[t])
  <2> SUFFICES ASSUME NEW k \in 1..Len(m.artifacts), NEW u \in 1..Len(m.artifacts[k].attestations),
                      m.artifacts[k].path \notin DOMAIN r,
                      m.artifacts[i].attestations[t] = m.artifacts[k].attestations[u]
               PROVE  FALSE
    OBVIOUS
  <2> HIDE DEF Passed
  <2>1. /\ <<i, t>> \in Places(m.artifacts, m.supplements)
        /\ ListedAt(m.artifacts, m.supplements, <<i, t>>) = m.artifacts[i].attestations[t]
    BY <1>1, PlacesThereAre
  <2>2. /\ <<k, u>> \in Places(m.artifacts, m.supplements)
        /\ ListedAt(m.artifacts, m.supplements, <<k, u>>) = m.artifacts[k].attestations[u]
    BY <1>1, PlacesThereAre
  <2>3. <<i, t>> = <<k, u>>
    BY <1>1, <2>1, <2>2 DEF PathsApart
  <2> QED
    BY <1>4, <2>3
<1>5. ASSUME NEW i \in 1..Len(m.artifacts) PROVE Told(m.artifacts[i], r, ps)
  <2>1. m.artifacts[i] \in S /\ m.artifacts[i].kind = "artifact"
    BY BinariesAreListed
  <2> HIDE DEF S, Passed
  <2> QED
    BY <1>2, <1>3, <2>1
<1>6. ASSUME NEW j \in 1..Len(m.supplements) PROVE Told(m.supplements[j], r, ps)
  <2>1. m.supplements[j] \in S /\ m.supplements[j].kind \in {"sbom", "provenance"}
    BY BinariesAreListed
  <2> HIDE DEF S, Passed
  <2> QED
    BY <1>2, <1>3, <2>1
<1>7. ASSUME NEW i \in 1..Len(m.artifacts), NEW t \in 1..Len(m.artifacts[i].attestations),
             m.artifacts[i].path \in DOMAIN r
      PROVE  Told(m.artifacts[i].attestations[t], r, ps)
  <2>1. m.artifacts[i].attestations[t] \in S
    BY BinariesAreListed
  <2> HIDE DEF S, Passed
  <2> QED
    BY <1>2, <1>4, <1>7, <2>1
<1> QED
  BY <1>5, <1>6, <1>7

ReleaseInv == Building /\ Manifests /\ AuditHolds /\ AnswerHolds

LEMMA ReleaseStarts == AuditInit => ReleaseInv
<1> SUFFICES ASSUME AuditInit PROVE ReleaseInv
  OBVIOUS
<1> USE DEF AuditInit, ReleaseInit
<1>1. Building
  BY NothingIsListed DEF Building
<1>2. \A n : At(<<>>, n) = Absent
  BY DEF At
<1>3. Manifests
  BY <1>2 DEF Manifests, ListedIn, OursIn, SignedIn, IsManifest, Absent
<1>4. AuditHolds
  BY DEF AuditHolds
<1>5. AnswerHolds
  BY AnswersAre DEF AnswerHolds
<1> QED
  BY <1>1, <1>3, <1>4, <1>5 DEF ReleaseInv

LEMMA ReleaseGoesOn == ReleaseInv /\ [ReleaseNext]_allVars => ReleaseInv'
<1> SUFFICES ASSUME ReleaseInv, [ReleaseNext]_allVars PROVE ReleaseInv'
  OBVIOUS
<1> USE DEF ReleaseInv
<1>1. ASSUME UNCHANGED <<releaseVars, archive>> PROVE Building' /\ Manifests'
  <2>1. UNCHANGED <<dir, pk, opt, artifacts, supplements, attached, made, forged, archive>>
    BY <1>1 DEF releaseVars, packageVars, othersVars
  <2>2. Building'
    BY <2>1 DEF Building
  <2>3. Manifests'
    BY <2>1 DEF Manifests, ListedIn, OursIn, SignedIn
  <2> QED
    BY <2>2, <2>3
<1>2. CASE Elsewhere
  <2>1. UNCHANGED auditVars /\ archive' = archive
    BY <1>2 DEF Elsewhere
  <2>2. Building' /\ Manifests' /\ made \subseteq made' /\ forged \subseteq forged'
    <3>1. CASE Package
      BY <2>1, <3>1, PackageKeepsManifests
    <3>2. CASE Edit \/ Forge \/ PutBack
      BY <2>1, <3>2, OthersKeepManifests
    <3> QED
      BY <1>2, <3>1, <3>2 DEF Elsewhere
  <2> QED
    BY <2>1, <2>2, OthersKeepAudit
<1>3. CASE Audit
  <2>1. UNCHANGED <<releaseVars, archive>>
    BY <1>3 DEF Audit, BeginAudit, CheckSignature, ReadChecksums, CheckNext, EndAudit
  <2>2. AuditHolds' /\ AnswerHolds'
    BY <1>3, AuditBegins, SignatureIsChecked, ChecksumsAreRead, NextIsChecked, AuditAnswers DEF Audit
  <2> QED
    BY <1>1, <2>1, <2>2
<1>4. CASE Download
  <2>1. archive' = dir /\ UNCHANGED <<releaseVars, auditVars>>
    BY <1>4 DEF Download
  <2>2. UNCHANGED <<dir, pk, opt, artifacts, supplements, attached, made, forged>>
    BY <2>1 DEF releaseVars, packageVars, othersVars
  <2>3. Building'
    BY <2>2 DEF Building
  <2>4. Manifests'
    BY <2>1, <2>2 DEF Manifests, ListedIn, OursIn, SignedIn
  <2> QED
    BY <2>1, <2>2, <2>3, <2>4, OthersKeepAudit
<1>5. CASE UNCHANGED allVars
  <2>1. UNCHANGED <<releaseVars, auditVars, archive>>
    BY <1>5 DEF allVars
  <2>2. made' = made /\ forged' = forged
    BY <2>1 DEF releaseVars, packageVars, othersVars
  <2> QED
    BY <1>1, <2>1, <2>2, OthersKeepAudit
<1> QED
  BY <1>2, <1>3, <1>4, <1>5 DEF ReleaseNext

LEMMA ReleaseInvariant == ReleaseSpec => []ReleaseInv
<1> QED
  BY ReleaseStarts, ReleaseGoesOn, PTL DEF ReleaseSpec

\* An audit without problems has read one release, whole (publication_verify.go:22-221).
THEOREM AcceptedReleases == ReleaseSpec => []AcceptedReleaseIsOnePackage
<1>1. ASSUME ReleaseInv PROVE AcceptedReleaseIsOnePackage
  <2> SUFFICES ASSUME answer.how = "done", answer.problems = {}, Trusted(answer.signer)
               PROVE  /\ answer.manifest \in made
                      /\ \A e \in Entries(answer.manifest.artifacts, answer.manifest.supplements) :
                           e.path \in DOMAIN answer.read /\ answer.read[e.path] = e.sum
    BY DEF AcceptedReleaseIsOnePackage, Trusted
  <2> DEFINE m == answer.manifest
             r == answer.read
             ps == answer.problems
  <2>1. /\ WellListed(m.artifacts, m.supplements) /\ m \in made
        /\ LookedAt(m, Len(Listing(m)), r, ps)
    BY <1>1 DEF ReleaseInv, AnswerHolds
  <2>2. ps = {}
    OBVIOUS
  <2> HIDE DEF m, r, ps
  <2>3. /\ \A i \in 1..Len(m.artifacts) :
              /\ Told(m.artifacts[i], r, ps)
              /\ m.artifacts[i].path \in DOMAIN r =>
                   \A t \in 1..Len(m.artifacts[i].attestations) : Told(m.artifacts[i].attestations[t], r, ps)
        /\ \A j \in 1..Len(m.supplements) : Told(m.supplements[j], r, ps)
    BY <2>1, LookedThrough
  <2>4. \A e : Told(e, r, ps) => e.path \in DOMAIN r /\ r[e.path] = e.sum
    BY <2>2 DEF Told
  <2>5. WellShaped(m.artifacts, m.supplements)
    BY <2>1 DEF WellListed
  <2>6. ASSUME NEW e \in Entries(m.artifacts, m.supplements)
        PROVE  e.path \in DOMAIN r /\ r[e.path] = e.sum
    <3>1. PICK q \in Places(m.artifacts, m.supplements) : e = ListedAt(m.artifacts, m.supplements, q)
      BY <2>5, EntriesAreListed
    <3>2. \/ \E i \in 1..Len(m.artifacts) : e = m.artifacts[i]
          \/ \E j \in 1..Len(m.supplements) : e = m.supplements[j]
          \/ \E i \in 1..Len(m.artifacts) : \E t \in 1..Len(m.artifacts[i].attestations) :
               e = m.artifacts[i].attestations[t]
      BY <2>5, <3>1, PlaceIs
    <3>3. Told(e, r, ps)
      <4>1. CASE \E i \in 1..Len(m.artifacts) : e = m.artifacts[i]
        BY <2>3, <4>1
      <4>2. CASE \E j \in 1..Len(m.supplements) : e = m.supplements[j]
        BY <2>3, <4>2
      <4>3. CASE \E i \in 1..Len(m.artifacts) : \E t \in 1..Len(m.artifacts[i].attestations) :
                   e = m.artifacts[i].attestations[t]
        <5>1. PICK i \in 1..Len(m.artifacts) : \E t \in 1..Len(m.artifacts[i].attestations) :
                   e = m.artifacts[i].attestations[t]
          BY <4>3
        <5>2. m.artifacts[i].path \in DOMAIN r
          BY <2>3, <2>4
        <5> QED
          BY <2>3, <5>1, <5>2
      <4> QED
        BY <3>2, <4>1, <4>2, <4>3
    <3> QED
      BY <2>4, <3>3
  <2> QED
    BY <2>1, <2>6 DEF m, r
<1> QED
  BY <1>1, ReleaseInvariant, PTL

\* What exit status 0 lets through was accepted, finding by finding (cli_release.go:196-307).
THEOREM ZeroExits == ReleaseSpec => []ZeroExitIsAccepted
<1>1. ASSUME ReleaseInv PROVE ZeroExitIsAccepted
  <2> SUFFICES ASSUME ExitsZero(answer)
               PROVE  LET ok(e) == \/ Accepted(Problem(e), answer.audit.baseline)
                                   \/ e.path \in DOMAIN answer.read /\ answer.read[e.path] = e.sum
                      IN /\ \A i \in DOMAIN answer.manifest.artifacts :
                              LET a == answer.manifest.artifacts[i]
                              IN ok(a) /\ (a.path \in DOMAIN answer.read => \A e \in ToSet(a.attestations) : ok(e))
                         /\ \A e \in ToSet(answer.manifest.supplements) : ok(e)
                         /\ \/ answer.signer = answer.audit.key
                            \/ Accepted(OfRelease, answer.audit.baseline)
    BY DEF ZeroExitIsAccepted
  <2> DEFINE m == answer.manifest
             r == answer.read
             ps == answer.problems
             b == answer.audit.baseline
             okay(e) == Accepted(Problem(e), b) \/ (e.path \in DOMAIN r /\ r[e.path] = e.sum)
  <2>1. \A p \in ps : Accepted(p, b)
    BY DEF ExitsZero, Valid, AllSuppressed
  <2>2. /\ WellListed(m.artifacts, m.supplements)
        /\ LookedAt(m, Len(Listing(m)), r, ps)
        /\ answer.signer = answer.audit.key \/ OfRelease \in ps
    BY <1>1 DEF ReleaseInv, AnswerHolds, ExitsZero
  <2> HIDE DEF m, r, ps, b
  <2>3. /\ \A i \in 1..Len(m.artifacts) :
              /\ Told(m.artifacts[i], r, ps)
              /\ m.artifacts[i].path \in DOMAIN r =>
                   \A t \in 1..Len(m.artifacts[i].attestations) : Told(m.artifacts[i].attestations[t], r, ps)
        /\ \A j \in 1..Len(m.supplements) : Told(m.supplements[j], r, ps)
    BY <2>2, LookedThrough
  <2>4. \A e : Told(e, r, ps) => okay(e)
    BY <2>1 DEF Told
  <2> HIDE DEF okay
  <2>5. /\ DOMAIN m.artifacts = 1..Len(m.artifacts)
        /\ DOMAIN m.supplements = 1..Len(m.supplements)
        /\ \A i \in 1..Len(m.artifacts) : DOMAIN m.artifacts[i].attestations = 1..Len(m.artifacts[i].attestations)
    BY <2>2, ShapedLists DEF WellListed
  <2>6. ASSUME NEW i \in DOMAIN m.artifacts
        PROVE  /\ okay(m.artifacts[i])
               /\ m.artifacts[i].path \in DOMAIN r => \A e \in ToSet(m.artifacts[i].attestations) : okay(e)
    BY <2>3, <2>4, <2>5 DEF ToSet
  <2>7. \A e \in ToSet(m.supplements) : okay(e)
    <3> TAKE e \in ToSet(m.supplements)
    <3>1. PICK j \in 1..Len(m.supplements) : e = m.supplements[j]
      BY <2>5 DEF ToSet
    <3> QED
      BY <2>3, <2>4, <3>1
  <2>8. answer.signer = answer.audit.key \/ Accepted(OfRelease, b)
    BY <2>1, <2>2
  <2> QED
    BY <2>6, <2>7, <2>8 DEF okay, m, r, b
<1> QED
  BY <1>1, ReleaseInvariant, PTL

-----------------------------------------------------------------------------
(* The release: a directory that nobody is changing. *)

\* What a directory without problems holds is what its manifest lists.
LEMMA ProblemFreeFiles ==
  ASSUME NEW d, NEW mode, NEW key, ListedIn(d), IsManifest(At(d, ManifestName)),
         Problems(mode, d, key) = {}
  PROVE  LET m == d[ManifestName][2]
             whole(e) == e.path \in DOMAIN d /\ d[e.path] = e.sum
         IN /\ WellListed(m.artifacts, m.supplements)
            /\ \A i \in 1..Len(m.artifacts) : whole(m.artifacts[i])
            /\ \A j \in 1..Len(m.supplements) : whole(m.supplements[j])
<1> DEFINE m == d[ManifestName][2]
           whole(e) == e.path \in DOMAIN d /\ d[e.path] = e.sum
           lines == AsRead(d[ChecksumsName][2])
<1>1. WellListed(m.artifacts, m.supplements)
  <2>1. d[ManifestName] = At(d, ManifestName)
    BY DEF At, IsManifest, Absent
  <2> QED
    BY <2>1 DEF ListedIn
<1>2. \A e \in Visited(m, d) : ~Faulty(mode, e, At(d, e.path), lines, m.release)
  BY DEF Problems
<1> HIDE DEF m, lines
<1>3. ASSUME NEW e \in Visited(m, d) PROVE whole(e)
  <2>1. At(d, e.path) # Absent /\ At(d, e.path) = e.sum
    BY <1>2 DEF Faulty, Unlike
  <2> QED
    BY <2>1 DEF At
<1>4. ASSUME NEW e \in Entries(m.artifacts, m.supplements), e.kind # "attestation"
      PROVE  e \in Visited(m, d)
  <2>1. ASSUME NEW a \in ToSet(m.artifacts), e \in ToSet(a.attestations) PROVE FALSE
    <3>1. PICK i \in 1..Len(m.artifacts) : a = m.artifacts[i]
      BY <1>1, ShapedLists DEF ToSet, WellListed
    <3>2. PICK t \in 1..Len(m.artifacts[i].attestations) : e = m.artifacts[i].attestations[t]
      BY <1>1, <2>1, <3>1, ShapedLists DEF ToSet, WellListed
    <3>3. \A u \in 1..Len(m.artifacts[i].attestations) : IsAttestation(m.artifacts[i].attestations[u])
      BY <1>1, ShapedLists DEF WellListed, WellShaped
    <3> QED
      <4>1. IsAttestation(e)
        BY <3>2, <3>3
      <4> QED
        BY <1>4, <4>1 DEF IsAttestation
  <2> QED
    BY <2>1 DEF Visited
<1>5. ASSUME NEW i \in 1..Len(m.artifacts) PROVE whole(m.artifacts[i])
  <2>1. m.artifacts[i] \in Entries(m.artifacts, m.supplements) /\ m.artifacts[i].kind = "artifact"
    BY <1>1, BinariesAreListed
  <2> HIDE DEF whole
  <2> QED
    BY <1>3, <1>4, <2>1
<1>6. ASSUME NEW j \in 1..Len(m.supplements) PROVE whole(m.supplements[j])
  <2>1. /\ m.supplements[j] \in Entries(m.artifacts, m.supplements)
        /\ m.supplements[j].kind \in {"sbom", "provenance"}
    BY <1>1, BinariesAreListed
  <2> HIDE DEF whole
  <2> QED
    BY <1>3, <1>4, <2>1
<1> QED
  BY <1>1, <1>5, <1>6 DEF m

\* Where names are given once, a name stands for its entry.
LEMMA NamedOnce ==
  ASSUME NEW s, Len(s) \in Nat, DOMAIN s = 1..Len(s),
         \A i, j \in 1..Len(s) : s[i].name = s[j].name => i = j
  PROVE  /\ DOMAIN ByName(s) = {s[i].name : i \in 1..Len(s)}
         /\ \A i \in 1..Len(s) : ByName(s)[s[i].name] = s[i].sum
<1>1. DOMAIN ByName(s) = {s[i].name : i \in 1..Len(s)}
  BY DEF ByName
<1>2. ASSUME NEW i \in 1..Len(s) PROVE ByName(s)[s[i].name] = s[i].sum
  <2> DEFINE n == s[i].name
             T == {j \in 1..Len(s) : s[j].name = n}
             last == SelectLastInSeq(s, LAMBDA e : e.name = n)
  <2>1. last = IF T # {} THEN Max(T) ELSE 0
    BY DEF SelectLastInSeq
  <2>2. T = {i}
    OBVIOUS
  <2> HIDE DEF T, last
  <2>3. last = Max({i})
    BY <2>1, <2>2
  <2>4. Max({i}) = i
    BY DEF Max
  <2>5. ByName(s)[n] = s[last].sum
    BY DEF ByName, last
  <2> QED
    BY <2>3, <2>4, <2>5
<1> QED
  BY <1>1, <1>2

\* The names in a list are paths and given once; a directory holds what is listed.
NamesApart(s) ==
  /\ Len(s) \in Nat /\ DOMAIN s = 1..Len(s)
  /\ \A i, j \in 1..Len(s) : s[i].name = s[j].name => i = j
  /\ \A i \in 1..Len(s) : s[i].path = s[i].name
HeldBy(s, files) == \A i \in 1..Len(s) : files[s[i].path] = s[i].sum
PathsOf(s) == {e.path : e \in ToSet(s)}

\* In both directories an undiffering name stands for the same bytes.
LEMMA SameFiles ==
  ASSUME NEW s, NEW r, NEW c, NEW d, NamesApart(s), NamesApart(r), HeldBy(s, c), HeldBy(r, d),
         NEW n \in PathsOf(s) \cup PathsOf(r),
         n \notin Differing(ByName(s), ByName(r))
  PROVE  n \in PathsOf(s) \cap PathsOf(r) /\ c[n] = d[n]
<1>0. /\ Len(s) \in Nat /\ DOMAIN s = 1..Len(s) /\ Len(r) \in Nat /\ DOMAIN r = 1..Len(r)
      /\ \A i, j \in 1..Len(s) : s[i].name = s[j].name => i = j
      /\ \A i, j \in 1..Len(r) : r[i].name = r[j].name => i = j
      /\ \A i \in 1..Len(s) : s[i].path = s[i].name /\ c[s[i].path] = s[i].sum
      /\ \A i \in 1..Len(r) : r[i].path = r[i].name /\ d[r[i].path] = r[i].sum
  BY DEF NamesApart, HeldBy
<1>1. /\ PathsOf(s) = {s[i].name : i \in 1..Len(s)}
      /\ PathsOf(r) = {r[i].name : i \in 1..Len(r)}
  BY <1>0 DEF PathsOf, ToSet
<1>2. /\ DOMAIN ByName(s) = {s[i].name : i \in 1..Len(s)}
      /\ \A i \in 1..Len(s) : ByName(s)[s[i].name] = s[i].sum
  BY <1>0, NamedOnce
<1>3. /\ DOMAIN ByName(r) = {r[i].name : i \in 1..Len(r)}
      /\ \A i \in 1..Len(r) : ByName(r)[r[i].name] = r[i].sum
  BY <1>0, NamedOnce
<1>4. n \in DOMAIN ByName(s) /\ n \in DOMAIN ByName(r) /\ ByName(s)[n] = ByName(r)[n]
  BY <1>1, <1>2, <1>3 DEF Differing
<1>5. PICK i \in 1..Len(s) : n = s[i].name
  BY <1>2, <1>4
<1>6. PICK j \in 1..Len(r) : n = r[j].name
  BY <1>3, <1>4
<1>7. c[n] = ByName(s)[n] /\ d[n] = ByName(r)[n]
  <2>1. s[i].path = n /\ c[s[i].path] = s[i].sum /\ r[j].path = n /\ d[r[j].path] = r[j].sum
    BY <1>0, <1>5, <1>6
  <2>2. ByName(s)[n] = s[i].sum /\ ByName(r)[n] = r[j].sum
    BY <1>2, <1>3, <1>5, <1>6
  <2> QED
    BY <2>1, <2>2
<1> QED
  BY <1>1, <1>2, <1>3, <1>4, <1>7

\* In a manifest names are paths, and given once.
LEMMA NamesAreGivenOnce ==
  ASSUME NEW arts, NEW sups, WellListed(arts, sups)
  PROVE  NamesApart(arts) /\ NamesApart(sups)
<1>1. WellShaped(arts, sups) /\ PathsApart(arts, sups)
  BY DEF WellListed
<1>2. Len(arts) \in Nat /\ DOMAIN arts = 1..Len(arts) /\ Len(sups) \in Nat /\ DOMAIN sups = 1..Len(sups)
  BY <1>1, ShapedLists
<1>3. ASSUME NEW i \in 1..Len(arts) PROVE arts[i].path = arts[i].name
  BY <1>1, <1>2 DEF WellShaped, IsArtifact
<1>4. ASSUME NEW j \in 1..Len(sups) PROVE sups[j].path = sups[j].name
  BY <1>1, <1>2 DEF WellShaped, IsSupplement
<1>5. ASSUME NEW i \in 1..Len(arts), NEW j \in 1..Len(arts), arts[i].name = arts[j].name PROVE i = j
  <2>1. /\ <<i, 0>> \in Places(arts, sups) /\ ListedAt(arts, sups, <<i, 0>>) = arts[i]
        /\ <<j, 0>> \in Places(arts, sups) /\ ListedAt(arts, sups, <<j, 0>>) = arts[j]
    BY <1>1, PlacesThereAre
  <2>2. <<i, 0>> = <<j, 0>>
    BY <1>1, <1>3, <1>5, <2>1 DEF PathsApart
  <2> QED
    BY <2>2
<1>6. ASSUME NEW i \in 1..Len(sups), NEW j \in 1..Len(sups), sups[i].name = sups[j].name PROVE i = j
  <2>1. /\ <<0, i>> \in Places(arts, sups) /\ ListedAt(arts, sups, <<0, i>>) = sups[i]
        /\ <<0, j>> \in Places(arts, sups) /\ ListedAt(arts, sups, <<0, j>>) = sups[j]
    BY <1>1, PlacesThereAre
  <2>2. <<0, i>> = <<0, j>>
    BY <1>1, <1>4, <1>6, <2>1 DEF PathsApart
  <2> QED
    BY <2>2
<1> QED
  BY <1>2, <1>3, <1>4, <1>5, <1>6 DEF NamesApart

\* Exit status 0 of Diff lets through only the drift that was accepted by name
\* (publication_report.go:161-215).
THEOREM AcceptedDrifts == ReleaseSpec => []DriftIsAccepted
<1>1. ASSUME ReleaseInv PROVE DriftIsAccepted
  <2> SUFFICES ASSUME NEW baseline \in DiffBaselines, DiffExitsZero(archive, dir, NoKey, baseline),
                      \A side \in {"from", "to"} : ~Accepted(Entry("problems", side), baseline),
                      NEW part \in {"artifacts", "supplements"},
                      NEW n \in {e.path : e \in ToSet(archive[ManifestName][2][part])} \cup
                                {e.path : e \in ToSet(dir[ManifestName][2][part])},
                      ~Accepted(Entry(part, n), baseline)
               PROVE  /\ n \in {e.path : e \in ToSet(archive[ManifestName][2][part])} \cap
                               {e.path : e \in ToSet(dir[ManifestName][2][part])}
                      /\ archive[n] = dir[n]
    BY Zenon DEF DriftIsAccepted
  <2> DEFINE a == archive[ManifestName][2]
             b == dir[ManifestName][2]
  <2>1. /\ IsManifest(At(archive, ManifestName)) /\ IsManifest(At(dir, ManifestName))
        /\ \A x \in Drift(archive, dir, NoKey) : Accepted(x, baseline)
    BY DEF DiffExitsZero, Inspectable
  <2>2. /\ \A x \in Problems("inspect", archive, NoKey) : Entry("problems", "from") \in Drift(archive, dir, NoKey)
        /\ \A x \in Problems("inspect", dir, NoKey) : Entry("problems", "to") \in Drift(archive, dir, NoKey)
        /\ \A x \in Differing(ByName(a.artifacts), ByName(b.artifacts)) :
             Entry("artifacts", x) \in Drift(archive, dir, NoKey)
        /\ \A x \in Differing(ByName(a.supplements), ByName(b.supplements)) :
             Entry("supplements", x) \in Drift(archive, dir, NoKey)
    BY DEF Drift
  <2>3. Problems("inspect", archive, NoKey) = {} /\ Problems("inspect", dir, NoKey) = {}
    BY <2>1, <2>2
  <2>4. ListedIn(archive) /\ ListedIn(dir)
    BY <1>1 DEF ReleaseInv, Manifests
  <2>5. /\ WellListed(a.artifacts, a.supplements)
        /\ \A i \in 1..Len(a.artifacts) : archive[a.artifacts[i].path] = a.artifacts[i].sum
        /\ \A j \in 1..Len(a.supplements) : archive[a.supplements[j].path] = a.supplements[j].sum
    BY <2>1, <2>3, <2>4, ProblemFreeFiles
  <2>6. /\ WellListed(b.artifacts, b.supplements)
        /\ \A i \in 1..Len(b.artifacts) : dir[b.artifacts[i].path] = b.artifacts[i].sum
        /\ \A j \in 1..Len(b.supplements) : dir[b.supplements[j].path] = b.supplements[j].sum
    BY <2>1, <2>3, <2>4, ProblemFreeFiles
  <2> HIDE DEF a, b
  <2>7. CASE part = "artifacts"
    <3>1. n \in PathsOf(a.artifacts) \cup PathsOf(b.artifacts)
      BY <2>7 DEF a, b, PathsOf
    <3>2. n \notin Differing(ByName(a.artifacts), ByName(b.artifacts))
      BY <2>1, <2>2, <2>7
    <3>3. n \in PathsOf(a.artifacts) \cap PathsOf(b.artifacts) /\ archive[n] = dir[n]
      <4>1. /\ NamesApart(a.artifacts) /\ HeldBy(a.artifacts, archive)
            /\ NamesApart(b.artifacts) /\ HeldBy(b.artifacts, dir)
        BY <2>5, <2>6, NamesAreGivenOnce DEF HeldBy
      <4> QED
        BY <3>1, <3>2, <4>1, SameFiles
    <3> QED
      BY <2>7, <3>3 DEF a, b, PathsOf
  <2>8. CASE part = "supplements"
    <3>1. n \in PathsOf(a.supplements) \cup PathsOf(b.supplements)
      BY <2>8 DEF a, b, PathsOf
    <3>2. n \notin Differing(ByName(a.supplements), ByName(b.supplements))
      BY <2>1, <2>2, <2>8
    <3>3. n \in PathsOf(a.supplements) \cap PathsOf(b.supplements) /\ archive[n] = dir[n]
      <4>1. /\ NamesApart(a.supplements) /\ HeldBy(a.supplements, archive)
            /\ NamesApart(b.supplements) /\ HeldBy(b.supplements, dir)
        BY <2>5, <2>6, NamesAreGivenOnce DEF HeldBy
      <4> QED
        BY <3>1, <3>2, <4>1, SameFiles
    <3> QED
      BY <2>8, <3>3 DEF a, b, PathsOf
  <2> QED
    BY <2>7, <2>8
<1> QED
  BY <1>1, ReleaseInvariant, PTL

-----------------------------------------------------------------------------
(* The release: what Package leaves when nobody else changes the directory. *)

\* The value for a file that is not there is the content of none.
NothingAbsent(d) == \A n \in DOMAIN d : d[n] # Absent

\* A listed file lies there as it is listed, its line will be read as it is
\* written, and none of the three written last will take its place.
Stands(e, d, o) ==
  /\ e.path \in DOMAIN d /\ d[e.path] = e.sum /\ e.path \notin Own /\ e.path \notin DOMAIN Blanks
  /\ e.kind = "artifact" => e.path \in {ArtifactName(o.release, t) : t \in ToSet(o.targets)}
  /\ e.kind = "artifact" /\ e.target = Host => e.sum = Binary(o.release, Host)

Standing == \A e \in Entries(artifacts, supplements) : Stands(e, dir, opt)

\* How far Package has come.
Progress ==
  /\ pk # "idle" => Standing
  /\ pk \in Closing =>
       At(dir, ManifestName) = AsManifest(Manifest(opt.release, artifacts, supplements))
  /\ pk \in {"sign", "signed"} =>
       At(dir, ChecksumsName) = AsChecksums(Checksums(artifacts, supplements))
  /\ pk = "signed" => At(dir, SignatureName) = AsSignature(opt.key, At(dir, ManifestName))

Usual == ~Overwrites(opt) /\ RightCandidate(opt) /\ PlainNames(opt)

Quiet ==
  /\ NothingAbsent(dir) /\ NothingAbsent(archive)
  /\ pk = "idle" => artifacts = <<>> /\ supplements = <<>>
  /\ ~disturbed /\ Usual => Progress
  /\ QuietReleaseVerifies

\* What is written leaves no file without a content.
LEMMA WriteLeavesContents ==
  ASSUME NothingAbsent(dir), NEW name, NEW c, c # Absent,
         dir' \in {dir, Put(name, Partial), Put(name, c)}
  PROVE  NothingAbsent(dir')
<1>1. Partial # Absent
  BY DEF Partial, Absent
<1>2. ASSUME NEW x, x # Absent PROVE NothingAbsent(Put(name, x))
  BY <1>2 DEF NothingAbsent, Put, With
<1> QED
  BY <1>1, <1>2 DEF NothingAbsent

\* Nothing is listed yet.
LEMMA NoEntries == Entries(<<>>, <<>>) = {}
<1>1. WellShaped(<<>>, <<>>) /\ DOMAIN <<>> = {}
  BY NothingIsListed DEF WellListed
<1>2. Places(<<>>, <<>>) = {}
  BY <1>1 DEF Places
<1> QED
  BY <1>1, <1>2, EntriesAreListed

\* A file under a name that none has leaves the others standing, and stands.
LEMMA AddedStands ==
  ASSUME NEW a, WellListed(artifacts, supplements), Standing, opt' = opt, WellListed(artifacts', supplements'),
         Adds(artifacts, supplements, artifacts', supplements', a), Stands(a, dir', opt'),
         \A n \in DOMAIN dir : n # a.path => n \in DOMAIN dir' /\ dir'[n] = dir[n],
         \A e \in Entries(artifacts, supplements) : e.path # a.path
  PROVE  Standing'
<1>1. ASSUME NEW e \in Entries(artifacts', supplements') PROVE Stands(e, dir', opt')
  <2>1. PICK p \in Places(artifacts', supplements') : e = ListedAt(artifacts', supplements', p)
    BY EntriesAreListed DEF WellListed
  <2>2. CASE e = a
    BY <2>2
  <2>3. CASE p \in Places(artifacts, supplements) /\ Alike(e, ListedAt(artifacts, supplements, p))
    <3> DEFINE f == ListedAt(artifacts, supplements, p)
    <3>1. f \in Entries(artifacts, supplements) /\ Alike(e, f)
      BY <2>3, EntriesAreListed DEF WellListed
    <3> HIDE DEF f
    <3>2. Stands(f, dir, opt) /\ f.path # a.path
      BY <3>1 DEF Standing
    <3> QED
      BY <3>1, <3>2 DEF Stands, Alike
  <2> QED
    BY <2>1, <2>2, <2>3 DEF Adds
<1> QED
  BY <1>1 DEF Standing

\* So does what Package writes at the end.
LEMMA OwnWriteStands ==
  ASSUME NEW name \in Own, NEW c, Standing, dir' = Put(name, c), UNCHANGED <<opt, artifacts, supplements>>
  PROVE  Standing'
<1>1. ASSUME NEW e \in Entries(artifacts, supplements) PROVE Stands(e, dir', opt')
  <2>1. Stands(e, dir, opt)
    BY DEF Standing
  <2> QED
    BY <2>1 DEF Stands, Put, With
<1> QED
  BY <1>1 DEF Standing

\* A call that fails promises nothing.
LEMMA FailedQuiet ==
  ASSUME Quiet, End("failed"), NothingAbsent(dir'), archive' = archive
  PROVE  Quiet'
BY DEF Quiet, End, Progress, Closing, QuietReleaseVerifies

LEMMA RefusedQuiet ==
  ASSUME Quiet, Refuse, archive' = archive
  PROVE  Quiet'
<1>1. End("failed") /\ dir' = dir
  BY DEF Refuse
<1>2. NothingAbsent(dir')
  BY <1>1 DEF Quiet
<1> QED
  BY <1>1, <1>2, FailedQuiet

\* One that goes on has to keep what it has done.
LEMMA UnderwayQuiet ==
  ASSUME Quiet, pk' # "idle", NothingAbsent(dir'), archive' = archive,
         UNCHANGED <<opt, disturbed>>, ~disturbed /\ Usual => Progress'
  PROVE  Quiet'
<1>1. Usual' = Usual
  BY DEF Usual, Overwrites, RightCandidate, PlainNames
<1> QED
  BY <1>1 DEF Quiet, QuietReleaseVerifies

LEMMA BinaryQuiet ==
  ASSUME Building, Quiet, BuildNext, archive' = archive
  PROVE  Quiet'
<1> DEFINE target == opt.targets[Len(artifacts) + 1]
           name == ArtifactName(opt.release, target)
           a(b) == Artifact(name, target, b)
<1>1. /\ pk = "build" /\ UNCHANGED <<opt, disturbed>> /\ Len(artifacts) < Len(opt.targets)
      /\ opt \in Options
  BY DEF BuildNext, othersVars, Building
<1>2. \/ Refuse
      \/ /\ name \notin Occupied
         /\ \E b \in Binaries(name, target) :
              Write(name, b, /\ artifacts' = Append(artifacts, a(b))
                             /\ UNCHANGED <<pk, supplements, attached>>)
  BY DEF BuildNext
<1>3. target \in ToSet(opt.targets)
  <2>1. opt.targets \in Seq(ToSet(opt.targets))
    BY <1>1, CallsAssumption
  <2>2. Len(artifacts) \in Nat
    BY ShapedLists DEF Building, WellListed
  <2>3. Len(artifacts) + 1 \in DOMAIN opt.targets
    BY <1>1, <2>1, <2>2
  <2> QED
    BY <2>3 DEF ToSet
<1> HIDE DEF target
<1>4. /\ name \notin Own
      /\ name \in {ArtifactName(opt.release, t) : t \in ToSet(opt.targets)}
      /\ Usual => name \notin DOMAIN Blanks
  <2>1. name = <<opt.release.version, target>>
    BY DEF ArtifactName
  <2>2. name \in {ArtifactName(opt.release, t) : t \in ToSet(opt.targets)}
    BY <1>3
  <2>3. Usual => name \notin DOMAIN Blanks
    BY <2>2 DEF Usual, PlainNames
  <2> QED
    BY <2>1, <2>2, <2>3, OwnNames
<1> HIDE DEF name
<1>5. ASSUME name \notin Occupied, NEW b \in Binaries(name, target),
             Write(name, b, /\ artifacts' = Append(artifacts, a(b))
                            /\ UNCHANGED <<pk, supplements, attached>>)
      PROVE  Quiet'
  <2>1. IF opt.prebuilt = NotPrebuilt THEN b = Binary(opt.release, target)
        ELSE target \in DOMAIN opt.prebuilt /\ b = opt.prebuilt[target]
    BY <1>5 DEF Binaries, Candidate
  <2>2. b # Absent
    <3>1. Binary(opt.release, target) # Absent
      BY DEF Binary, Absent
    <3> QED
      BY <1>1, <2>1, <3>1, CallsAssumption
  <2>3. NothingAbsent(dir')
    BY <1>5, <2>2, WriteLeavesContents DEF Write, Quiet
  <2>4. CASE End("failed")
    BY <2>3, <2>4, FailedQuiet
  <2>5. CASE dir' = Put(name, b) /\ artifacts' = Append(artifacts, a(b))
             /\ UNCHANGED <<pk, supplements, attached>>
    <3>1. WellListed(artifacts, supplements) /\ WellListed(artifacts', supplements')
      BY BinaryBuilds DEF Building
    <3>2. \A e \in Entries(artifacts, supplements) : e.path # name
      BY <1>5 DEF Occupied
    <3>3. Adds(artifacts, supplements, artifacts', supplements', a(b))
      BY <2>5, <3>1, <3>2, ArtifactListed
    <3>4. ASSUME ~disturbed, Usual PROVE Progress'
      <4>1. Standing
        BY <1>1, <3>4 DEF Quiet, Progress
      <4>2. target = Host => b = Binary(opt.release, Host)
        BY <1>3, <2>1, <3>4 DEF Usual, RightCandidate
      <4>3. /\ a(b).path = name /\ a(b).sum = b /\ a(b).target = target
            /\ name \in DOMAIN dir' /\ dir'[name] = b
            /\ \A n \in DOMAIN dir : n # name => n \in DOMAIN dir' /\ dir'[n] = dir[n]
        BY <2>5 DEF Artifact, Put, With
      <4> HIDE DEF a
      <4>4. Stands(a(b), dir', opt')
        BY <1>1, <1>4, <3>4, <4>2, <4>3 DEF Stands
      <4>5. Standing'
        BY <1>1, <3>1, <3>2, <3>3, <4>1, <4>3, <4>4, AddedStands
      <4> QED
        BY <1>1, <2>5, <4>5 DEF Progress, Closing
    <3> QED
      BY <1>1, <2>3, <2>5, <3>4, UnderwayQuiet
  <2> QED
    BY <1>5, <2>4, <2>5 DEF Write
<1> QED
  BY <1>2, <1>5, RefusedQuiet

\* A file that is given lies in the directory afterwards as it is digested.
LEMMA PlacedFile ==
  ASSUME NothingAbsent(dir), NEW name, NEW content, content # Absent,
         \/ content # InPlace /\ dir' = Put(name, content)
         \/ content = InPlace /\ name \in DOMAIN dir /\ dir' = dir
  PROVE  /\ name \in DOMAIN dir' /\ dir'[name] = Given(name, content) /\ NothingAbsent(dir')
         /\ \A n \in DOMAIN dir : n # name => n \in DOMAIN dir' /\ dir'[n] = dir[n]
<1>1. CASE content # InPlace /\ dir' = Put(name, content)
  <2>1. NothingAbsent(dir')
    BY <1>1, WriteLeavesContents
  <2> QED
    BY <1>1, <2>1 DEF Put, With, Given
<1>2. CASE content = InPlace /\ name \in DOMAIN dir /\ dir' = dir
  BY <1>2 DEF Given, At
<1> QED
  BY <1>1, <1>2

LEMMA AttestationQuiet ==
  ASSUME Building, Quiet, AttachNext, archive' = archive
  PROVE  Quiet'
<1> DEFINE spec == opt.attestations[attached + 1]
           i == SelectInSeq(artifacts, LAMBDA x : Selects(spec.selector, x))
           path == artifacts[i].name \o spec.name
           c == Given(path, spec.content)
           a == Attestation(spec.name, path, c)
           Recorded(x) == /\ artifacts' = [artifacts EXCEPT ![i].attestations =
                                Append(@, Attestation(spec.name, path, x))]
                          /\ attached' = attached + 1
                          /\ UNCHANGED <<pk, supplements>>
<1>1. /\ pk = "build" /\ UNCHANGED <<opt, disturbed>> /\ attached < Len(opt.attestations)
      /\ opt \in Options /\ attached \in Nat /\ WellListed(artifacts, supplements)
  BY DEF AttachNext, Built, othersVars, Building
<1>2. \/ Refuse
      \/ i # 0 /\ path \notin Occupied /\ Place(path, spec.content, Recorded(c))
  BY DEF AttachNext
<1>3. ASSUME i # 0, path \notin Occupied, Place(path, spec.content, Recorded(c))
      PROVE  Quiet'
  <2>1. DOMAIN artifacts = 1..Len(artifacts) /\ Len(artifacts) \in Nat
    BY <1>1, ShapedLists DEF WellListed
  <2>2. i \in 1..Len(artifacts)
    <3> DEFINE T == {k \in 1..Len(artifacts) : Selects(spec.selector, artifacts[k])}
    <3>1. i = IF T # {} THEN Min(T) ELSE 0
      BY DEF SelectInSeq
    <3>2. T \in SUBSET Nat /\ T \subseteq 1..Len(artifacts)
      OBVIOUS
    <3> HIDE DEF T, i
    <3> QED
      BY <1>3, <3>1, <3>2, FirstIsThere
  <2> HIDE DEF i
  <2>3. spec \in ToSet(opt.attestations) /\ spec.name \in Seq(ToSet(spec.name)) /\ spec.content # Absent
    <3>1. opt.attestations \in Seq(ToSet(opt.attestations))
      BY <1>1, CallsAssumption
    <3>2. attached + 1 \in 1..Len(opt.attestations)
      BY <1>1, <3>1
    <3>3. spec \in ToSet(opt.attestations)
      BY <3>1, <3>2 DEF ToSet
    <3> HIDE DEF spec
    <3> QED
      BY <1>1, <3>3, CallsAssumption
  <2> HIDE DEF spec
  <2>4. path \notin Own
    <3>1. PICK v, t : artifacts[i].name = <<v, t>>
      BY <2>1, <2>2 DEF Building
    <3> QED
      BY <2>3, <3>1, OwnNames
  <2>7. Standing /\ Usual => path \notin DOMAIN Blanks
    <3>1. artifacts[i] \in Entries(artifacts, supplements)
      BY <2>1, <2>2 DEF Entries, ToSet
    <3>2. artifacts[i].kind = "artifact" /\ artifacts[i].path = artifacts[i].name
      BY <1>1, <2>1, <2>2 DEF WellListed, WellShaped, IsArtifact
    <3>3. Standing => artifacts[i].name \in {ArtifactName(opt.release, t) : t \in ToSet(opt.targets)}
      BY <3>1, <3>2 DEF Standing, Stands
    <3>4. ASSUME Usual, NEW b \in {ArtifactName(opt.release, t) : t \in ToSet(opt.targets)}
          PROVE  b \o spec.name \notin DOMAIN Blanks
      BY <2>3, <3>4 DEF Usual, PlainNames
    <3> QED
      BY <3>3, <3>4
  <2> HIDE DEF path
  <2>5. CASE End("failed") /\ dir' \in {dir, Put(path, Partial), Put(path, spec.content)}
    <3>1. NothingAbsent(dir')
      BY <2>3, <2>5, WriteLeavesContents DEF Quiet
    <3> QED
      BY <2>5, <3>1, FailedQuiet
  <2>6. CASE /\ Recorded(c)
             /\ \/ spec.content # InPlace /\ dir' = Put(path, spec.content)
                \/ spec.content = InPlace /\ path \in DOMAIN dir /\ dir' = dir
    <3>1. /\ path \in DOMAIN dir' /\ dir'[path] = c /\ NothingAbsent(dir')
          /\ \A n \in DOMAIN dir : n # path => n \in DOMAIN dir' /\ dir'[n] = dir[n]
      BY <2>3, <2>6, PlacedFile DEF Quiet
    <3> HIDE DEF c
    <3>2. /\ artifacts' = [artifacts EXCEPT ![i].attestations = Append(@, Attestation(spec.name, path, c))]
          /\ UNCHANGED <<pk, supplements>>
      BY <2>6
    <3>3. \A e \in Entries(artifacts, supplements) : e.path # path
      BY <1>3 DEF Occupied
    <3>4. WellListed(artifacts', supplements') /\ Adds(artifacts, supplements, artifacts', supplements', a)
      BY <1>1, <2>2, <3>2, <3>3, AttestationListed
    <3>5. ASSUME ~disturbed, Usual PROVE Progress'
      <4>1. Standing
        BY <1>1, <3>5 DEF Quiet, Progress
      <4>2. a.kind = "attestation" /\ a.path = path /\ a.sum = c
        BY DEF Attestation
      <4> HIDE DEF a
      <4>3. Stands(a, dir', opt')
        BY <2>4, <2>7, <3>1, <3>5, <4>1, <4>2 DEF Stands
      <4>4. Standing'
        BY <1>1, <3>1, <3>3, <3>4, <4>1, <4>2, <4>3, AddedStands
      <4> QED
        BY <1>1, <3>2, <4>4 DEF Progress, Closing
    <3> QED
      BY <1>1, <3>1, <3>2, <3>5, UnderwayQuiet
  <2> QED
    BY <1>3, <2>5, <2>6 DEF Place, Write
<1> QED
  BY <1>2, <1>3, RefusedQuiet

LEMMA SupplementQuiet ==
  ASSUME Building, Quiet, SupplementNext, archive' = archive
  PROVE  Quiet'
<1> DEFINE k == Len(supplements) + 1
           s == opt.supplements[k]
           c == Given(s.name, s.content)
           a == Supplemental(s.kind, s.name, c)
           Recorded(x) == /\ supplements' = Append(supplements, Supplemental(s.kind, s.name, x))
                          /\ UNCHANGED <<pk, artifacts, attached>>
<1>1. /\ pk = "build" /\ UNCHANGED <<opt, disturbed>> /\ Len(supplements) < Len(opt.supplements)
      /\ opt \in Options /\ WellListed(artifacts, supplements)
  BY DEF SupplementNext, Attached, Built, othersVars, Building
<1>2. \/ Refuse
      \/ s.name \notin Occupied /\ Place(s.name, s.content, Recorded(c))
  BY DEF SupplementNext
<1>3. ASSUME s.name \notin Occupied, Place(s.name, s.content, Recorded(c))
      PROVE  Quiet'
  <2>1. opt.supplements \in Seq(ToSet(opt.supplements))
    BY <1>1, CallsAssumption
  <2>2. k \in 1..Len(opt.supplements)
    <3>1. Len(supplements) \in Nat
      BY <1>1, ShapedLists DEF WellListed
    <3> QED
      BY <1>1, <2>1, <3>1
  <2>3. k \in DOMAIN opt.supplements
    BY <2>1, <2>2
  <2> HIDE DEF k
  <2>4. s \in ToSet(opt.supplements) /\ s.kind \in {"sbom", "provenance"} /\ s.content # Absent
    <3>1. s \in ToSet(opt.supplements)
      BY <2>3 DEF ToSet
    <3> HIDE DEF s
    <3> QED
      BY <1>1, <3>1, CallsAssumption
  <2>5. Usual => s.name \notin Own /\ s.name \notin DOMAIN Blanks
    <3>1. Usual => s.name \notin Own
      BY <2>3 DEF Usual, Overwrites, Own
    <3>2. Usual => s.name \notin DOMAIN Blanks
      BY <2>4 DEF Usual, PlainNames
    <3> QED
      BY <3>1, <3>2
  <2> HIDE DEF s
  <2>6. CASE End("failed") /\ dir' \in {dir, Put(s.name, Partial), Put(s.name, s.content)}
    <3>1. NothingAbsent(dir')
      BY <2>4, <2>6, WriteLeavesContents DEF Quiet
    <3> QED
      BY <2>6, <3>1, FailedQuiet
  <2>7. CASE /\ Recorded(c)
             /\ \/ s.content # InPlace /\ dir' = Put(s.name, s.content)
                \/ s.content = InPlace /\ s.name \in DOMAIN dir /\ dir' = dir
    <3>1. /\ s.name \in DOMAIN dir' /\ dir'[s.name] = c /\ NothingAbsent(dir')
          /\ \A n \in DOMAIN dir : n # s.name => n \in DOMAIN dir' /\ dir'[n] = dir[n]
      BY <2>4, <2>7, PlacedFile DEF Quiet
    <3> HIDE DEF c
    <3>2. supplements' = Append(supplements, a) /\ UNCHANGED <<pk, artifacts>>
      BY <2>7
    <3>3. \A e \in Entries(artifacts, supplements) : e.path # s.name
      BY <1>3 DEF Occupied
    <3>4. WellListed(artifacts', supplements') /\ Adds(artifacts, supplements, artifacts', supplements', a)
      BY <1>1, <2>4, <3>2, <3>3, SupplementListed
    <3>5. ASSUME ~disturbed, Usual PROVE Progress'
      <4>1. Standing
        BY <1>1, <3>5 DEF Quiet, Progress
      <4>2. a.kind # "artifact" /\ a.path = s.name /\ a.sum = c
        BY <2>4 DEF Supplemental
      <4> HIDE DEF a
      <4>3. Stands(a, dir', opt')
        BY <2>5, <3>1, <3>5, <4>2 DEF Stands
      <4>4. Standing'
        BY <1>1, <3>1, <3>3, <3>4, <4>1, <4>2, <4>3, AddedStands
      <4> QED
        BY <1>1, <3>2, <4>4 DEF Progress, Closing
    <3> QED
      BY <1>1, <3>1, <3>2, <3>5, UnderwayQuiet
  <2> QED
    BY <1>3, <2>6, <2>7 DEF Place, Write
<1> QED
  BY <1>2, <1>3, RefusedQuiet

\* What is written last is written beside what stands.
LEMMA ManifestQuiet ==
  ASSUME Quiet, WriteManifest, archive' = archive
  PROVE  Quiet'
<1> DEFINE m == Manifest(opt.release, artifacts, supplements)
           c == AsManifest(m)
<1>1. pk = "build" /\ UNCHANGED <<opt, disturbed>>
  BY DEF WriteManifest, Attached, Built, othersVars
<1>2. Refuse \/ Write(ManifestName, c, pk' = "checksums" /\ UNCHANGED <<artifacts, supplements, attached>>)
  BY DEF WriteManifest
<1>3. c # Absent /\ ManifestName \in Own
  BY DEF AsManifest, Absent, Own
<1>4. CASE Write(ManifestName, c, pk' = "checksums" /\ UNCHANGED <<artifacts, supplements, attached>>)
  <2> HIDE DEF c, m
  <2>1. NothingAbsent(dir')
    BY <1>3, <1>4, WriteLeavesContents DEF Write, Quiet
  <2>2. CASE End("failed")
    BY <2>1, <2>2, FailedQuiet
  <2>3. CASE dir' = Put(ManifestName, c) /\ pk' = "checksums" /\ UNCHANGED <<artifacts, supplements, attached>>
    <3>1. ASSUME ~disturbed, Usual PROVE Progress'
      <4>1. Standing
        BY <1>1, <3>1 DEF Quiet, Progress
      <4>2. Standing'
        BY <1>1, <1>3, <2>3, <4>1, OwnWriteStands
      <4>3. At(dir', ManifestName) = c
        BY <2>3, AtPut
      <4>4. c = AsManifest(Manifest(opt'.release, artifacts', supplements'))
        BY <1>1, <2>3 DEF c, m
      <4> QED
        BY <2>3, <4>2, <4>3, <4>4 DEF Progress
    <3> QED
      BY <1>1, <2>1, <2>3, <3>1, UnderwayQuiet
  <2> QED
    BY <1>4, <2>2, <2>3 DEF Write
<1> QED
  BY <1>2, <1>4, RefusedQuiet

LEMMA ChecksumsQuiet ==
  ASSUME Quiet, WriteChecksums, archive' = archive
  PROVE  Quiet'
<1> DEFINE c == AsChecksums(Checksums(artifacts, supplements))
<1>1. /\ pk = "checksums" /\ UNCHANGED <<opt, disturbed>>
      /\ Write(ChecksumsName, c, pk' = "sign" /\ UNCHANGED <<artifacts, supplements, attached>>)
  BY DEF WriteChecksums, othersVars
<1>2. c # Absent /\ ChecksumsName \in Own
  BY DEF AsChecksums, Absent, Own
<1> HIDE DEF c
<1>3. NothingAbsent(dir')
  BY <1>1, <1>2, WriteLeavesContents DEF Write, Quiet
<1>4. CASE End("failed")
  BY <1>3, <1>4, FailedQuiet
<1>5. CASE dir' = Put(ChecksumsName, c) /\ pk' = "sign" /\ UNCHANGED <<artifacts, supplements, attached>>
  <2>1. ASSUME ~disturbed, Usual PROVE Progress'
    <3>1. Standing /\ At(dir, ManifestName) = AsManifest(Manifest(opt.release, artifacts, supplements))
      BY <1>1, <2>1 DEF Quiet, Progress, Closing
    <3>2. Standing'
      BY <1>1, <1>2, <1>5, <3>1, OwnWriteStands
    <3>3. At(dir', ChecksumsName) = c /\ At(dir', ManifestName) = At(dir, ManifestName)
      BY <1>5, AtPut, NamesDiffer
    <3>4. c = AsChecksums(Checksums(artifacts', supplements'))
      BY <1>5 DEF c
    <3> QED
      BY <1>1, <1>5, <3>1, <3>2, <3>3, <3>4 DEF Progress
  <2> QED
    BY <1>1, <1>3, <1>5, <2>1, UnderwayQuiet
<1> QED
  BY <1>1, <1>4, <1>5 DEF Write

LEMMA SignatureQuiet ==
  ASSUME Quiet, Sign, archive' = archive
  PROVE  Quiet'
<1> DEFINE c == AsSignature(opt.key, dir[ManifestName])
<1>1. pk = "sign" /\ UNCHANGED <<opt, disturbed>>
  BY DEF Sign, othersVars
<1>2. \/ Refuse
      \/ /\ At(dir, ManifestName) # Absent
         /\ Write(SignatureName, c, pk' = "signed" /\ UNCHANGED <<artifacts, supplements, attached>>)
  BY DEF Sign
<1>3. c # Absent /\ SignatureName \in Own
  BY DEF AsSignature, Absent, Own
<1>4. CASE /\ At(dir, ManifestName) # Absent
           /\ Write(SignatureName, c, pk' = "signed" /\ UNCHANGED <<artifacts, supplements, attached>>)
  <2>1. c = AsSignature(opt.key, At(dir, ManifestName))
    BY <1>4 DEF At
  <2> HIDE DEF c
  <2>2. NothingAbsent(dir')
    BY <1>3, <1>4, WriteLeavesContents DEF Write, Quiet
  <2>3. CASE End("failed")
    BY <2>2, <2>3, FailedQuiet
  <2>4. CASE dir' = Put(SignatureName, c) /\ pk' = "signed" /\ UNCHANGED <<artifacts, supplements, attached>>
    <3>1. ASSUME ~disturbed, Usual PROVE Progress'
      <4>1. /\ Standing /\ At(dir, ManifestName) = AsManifest(Manifest(opt.release, artifacts, supplements))
            /\ At(dir, ChecksumsName) = AsChecksums(Checksums(artifacts, supplements))
        BY <1>1, <3>1 DEF Quiet, Progress, Closing
      <4>2. Standing'
        BY <1>1, <1>3, <2>4, <4>1, OwnWriteStands
      <4>3. /\ At(dir', SignatureName) = c /\ At(dir', ManifestName) = At(dir, ManifestName)
            /\ At(dir', ChecksumsName) = At(dir, ChecksumsName)
        BY <2>4, AtPut, NamesDiffer
      <4> QED
        BY <1>1, <2>1, <2>4, <4>1, <4>2, <4>3 DEF Progress
    <3> QED
      BY <1>1, <2>2, <2>4, <3>1, UnderwayQuiet
  <2> QED
    BY <1>4, <2>3, <2>4 DEF Write
<1> QED
  BY <1>2, <1>4, RefusedQuiet

\* A line of SHA256SUMS is of the one file with its path.
LEMMA LinesAre ==
  ASSUME NEW arts, NEW sups, WellListed(arts, sups), NEW e \in Entries(arts, sups)
  PROVE  LineFor(e, Checksums(arts, sups)) = e.sum
<1> DEFINE listed == Entries(arts, sups)
           sums1 == Checksums(arts, sups)
<1>1. ASSUME NEW f \in listed, f.path = e.path PROVE f = e
  <2>1. PICK p \in Places(arts, sups) : e = ListedAt(arts, sups, p)
    BY EntriesAreListed DEF WellListed
  <2>2. PICK q \in Places(arts, sups) : f = ListedAt(arts, sups, q)
    BY EntriesAreListed DEF WellListed
  <2> QED
    BY <1>1, <2>1, <2>2 DEF WellListed, PathsApart
<1>2. e.path \in DOMAIN sums1 /\ sums1[e.path] = (CHOOSE f \in listed : f.path = e.path).sum
  BY DEF Checksums
<1>3. (CHOOSE f \in listed : f.path = e.path) = e
  <2> HIDE DEF listed
  <2> QED
    BY <1>1
<1> QED
  BY <1>2, <1>3 DEF LineFor, At

\* A directory with all that is listed and the three files of Package verifies.
LEMMA ReleasedVerifies ==
  ASSUME NEW arts, NEW sups, WellListed(arts, sups), NothingAbsent(dir),
         \A e \in Entries(arts, sups) : Stands(e, dir, opt),
         At(dir, ManifestName) = AsManifest(Manifest(opt.release, arts, sups)),
         At(dir, ChecksumsName) = AsChecksums(Checksums(arts, sups)),
         opt.key # NoKey => At(dir, SignatureName) = AsSignature(opt.key, At(dir, ManifestName))
  PROVE  Inspectable(dir) /\ Problems("verify", dir, opt.key) = {}
<1> DEFINE m == Manifest(opt.release, arts, sups)
           lines == Checksums(arts, sups)
           listed == Entries(arts, sups)
<1>1. dir[ManifestName] = AsManifest(m) /\ dir[ChecksumsName] = AsChecksums(lines)
  BY DEF At, AsManifest, AsChecksums, Absent
<1>0. DOMAIN lines \cap DOMAIN Blanks = {}
  BY DEF Checksums, Stands
<1>2. Inspectable(dir)
  <2>1. Legible(AsChecksums(lines))
    BY <1>0 DEF Legible, Fields, AsChecksums
  <2> QED
    BY <2>1 DEF Inspectable, IsManifest, AsManifest
<1>3. dir[ManifestName][2] = m /\ AsRead(dir[ChecksumsName][2]) = lines
  BY <1>1, <1>0 DEF AsManifest, AsChecksums, AsRead
<1>4. m.release = opt.release /\ m.artifacts = arts /\ m.supplements = sups
  BY DEF Manifest
<1>5. \A e \in listed : LineFor(e, lines) = e.sum
  BY LinesAre
<1>6. DOMAIN lines = {e.path : e \in listed}
  BY DEF Checksums
<1>7. Visited(m, dir) = listed
  <2>1. \A a \in ToSet(arts) : a \in Entries(arts, sups)
    BY DEF Entries
  <2>2. {a \in ToSet(arts) : a.path \notin DOMAIN dir} = {}
    BY <2>1 DEF Stands
  <2> HIDE DEF m
  <2>3. Visited(m, dir) = listed \ UNION {ToSet(a.attestations) : a \in {x \in ToSet(arts) : x.path \notin DOMAIN dir}}
    BY <1>4 DEF Visited
  <2> HIDE DEF listed
  <2> QED
    BY <2>2, <2>3
<1>8. opt.key # NoKey => SignatureHolds(At(dir, SignatureName), opt.key, m)
  BY DEF SignatureHolds
<1> HIDE DEF m, lines, listed
<1>9. ASSUME NEW e \in listed PROVE ~Faulty("verify", e, At(dir, e.path), lines, m.release)
  <2>1. Stands(e, dir, opt)
    BY DEF listed
  <2>2. At(dir, e.path) = e.sum /\ e.sum # Absent
    BY <2>1 DEF Stands, At, NothingAbsent
  <2>3. LineFor(e, lines) = e.sum
    BY <1>5
  <2>4. ~(Runnable("verify", e) /\ Misreports(e, At(dir, e.path), m.release))
    BY <1>4, <2>1, <2>2 DEF Runnable, Misreports, Stands
  <2> QED
    BY <2>2, <2>3, <2>4 DEF Faulty, Unlike
<1>10. DOMAIN lines \ ({e.path : e \in listed} \cup {e.name : e \in listed}) = {}
  BY <1>6
<1>11. Problems("verify", dir, opt.key) =
         {Problem(e) : e \in {f \in listed : Faulty("verify", f, At(dir, f.path), lines, m.release)}}
         \cup (IF \/ opt.key # NoKey /\ ~SignatureHolds(At(dir, SignatureName), opt.key, m)
                \/ DOMAIN lines \ ({e.path : e \in listed} \cup {e.name : e \in listed}) # {} THEN {OfRelease} ELSE {})
  BY <1>3, <1>7 DEF Problems
<1>12. {f \in listed : Faulty("verify", f, At(dir, f.path), lines, m.release)} = {}
  BY <1>9
<1> QED
  BY <1>2, <1>8, <1>10, <1>11, <1>12

LEMMA EndQuiet ==
  ASSUME Building, Quiet, EndPackage, archive' = archive
  PROVE  Quiet'
<1>1. /\ pk = "signed" \/ (pk = "sign" /\ opt.key = NoKey)
      /\ pk' = "idle" /\ packaged' = "ok" /\ artifacts' = <<>> /\ supplements' = <<>>
      /\ UNCHANGED <<dir, opt, disturbed>>
  BY DEF EndPackage, End, othersVars
<1>2. ASSUME ~disturbed, Usual
      PROVE  Inspectable(dir) /\ Problems("verify", dir, opt.key) = {}
  <2>1. Progress
    BY <1>2 DEF Quiet
  <2>2. /\ \A e \in Entries(artifacts, supplements) : Stands(e, dir, opt)
        /\ At(dir, ManifestName) = AsManifest(Manifest(opt.release, artifacts, supplements))
        /\ At(dir, ChecksumsName) = AsChecksums(Checksums(artifacts, supplements))
        /\ opt.key # NoKey => At(dir, SignatureName) = AsSignature(opt.key, At(dir, ManifestName))
    BY <1>1, <2>1 DEF Progress, Standing, Closing
  <2> QED
    BY <2>2, ReleasedVerifies DEF Building, Quiet
<1>3. QuietReleaseVerifies'
  <2>1. /\ Overwrites(opt') = Overwrites(opt) /\ RightCandidate(opt') = RightCandidate(opt)
        /\ PlainNames(opt') = PlainNames(opt)
    BY <1>1
  <2> QED
    BY <1>1, <1>2, <2>1 DEF QuietReleaseVerifies, Usual
<1> QED
  BY <1>1, <1>3 DEF Quiet, Progress, Closing

LEMMA PackageQuiet ==
  ASSUME Building, Quiet, Package, archive' = archive
  PROVE  Quiet'
<1>1. ASSUME NEW o \in Options, BeginPackage(o) PROVE Quiet'
  <2>1. /\ pk = "idle" /\ dir' = dir /\ disturbed' = FALSE
        /\ \/ End("failed")
           \/ pk' = "build" /\ UNCHANGED <<artifacts, supplements>>
    BY <1>1 DEF BeginPackage
  <2>2. NothingAbsent(dir')
    BY <2>1 DEF Quiet
  <2>3. CASE End("failed")
    BY <2>2, <2>3, FailedQuiet
  <2>4. CASE pk' = "build" /\ UNCHANGED <<artifacts, supplements>>
    <3>1. Entries(artifacts', supplements') = {}
      BY <2>1, <2>4, NoEntries DEF Quiet
    <3>2. Standing'
      BY <3>1 DEF Standing
    <3> QED
      BY <2>2, <2>4, <3>2 DEF Quiet, Progress, Closing, QuietReleaseVerifies
  <2> QED
    BY <2>1, <2>3, <2>4
<1> QED
  BY <1>1, BinaryQuiet, AttestationQuiet, SupplementQuiet, ManifestQuiet, ChecksumsQuiet,
     SignatureQuiet, EndQuiet DEF Package

\* Somebody else at the directory leaves it disturbed.
LEMMA OthersQuiet ==
  ASSUME Quiet, Edit \/ Forge \/ PutBack, archive' = archive
  PROVE  Quiet'
<1>1. ASSUME NothingAbsent(dir'), disturbed' = TRUE, UNCHANGED packageVars PROVE Quiet'
  BY <1>1 DEF Quiet, QuietReleaseVerifies, packageVars
<1>2. ASSUME NEW d, NEW n, NEW c, NothingAbsent(d), c # Absent PROVE NothingAbsent(With(d, n, c))
  BY <1>2 DEF NothingAbsent, With
<1>3. NothingAbsent(dir) /\ NothingAbsent(archive)
  BY DEF Quiet
<1>4. CASE Edit
  <2>1. PICK n \in DOMAIN dir : Change(Put(n, Other)) \/ Change(Without(n))
    BY <1>4 DEF Edit
  <2>2. Other # Absent
    BY DEF Other, Absent
  <2>3. NothingAbsent(Put(n, Other)) /\ NothingAbsent(Without(n))
    BY <1>2, <1>3, <2>2 DEF Put, Without, NothingAbsent
  <2> QED
    BY <1>1, <2>1, <2>3 DEF Change
<1>5. CASE Forge
  <2>1. PICK x, y : Change(With(Put(ChecksumsName, AsChecksums(x)), ManifestName, AsManifest(y)))
    BY <1>5, Zenon DEF Forge
  <2>2. AsChecksums(x) # Absent /\ AsManifest(y) # Absent
    BY DEF AsChecksums, AsManifest, Absent
  <2>3. NothingAbsent(With(Put(ChecksumsName, AsChecksums(x)), ManifestName, AsManifest(y)))
    BY <1>2, <1>3, <2>2 DEF Put
  <2> QED
    BY <1>1, <2>1, <2>3 DEF Change
<1>6. CASE PutBack
  <2>1. PICK n \in DOMAIN archive : Change(Put(n, archive[n]))
    BY <1>6 DEF PutBack
  <2>2. NothingAbsent(Put(n, archive[n]))
    BY <1>2, <1>3 DEF Put, NothingAbsent
  <2> QED
    BY <1>1, <2>1, <2>2 DEF Change
<1> QED
  BY <1>4, <1>5, <1>6

\* What Package reports done verifies as long as nobody else changes it
\* (publication_package.go:220-335, publication_verify.go:22-221).
THEOREM QuietReleases == ReleaseSpec => []QuietReleaseVerifies
<1>1. AuditInit => Quiet
  BY DEF AuditInit, ReleaseInit, Quiet, NothingAbsent, Progress, Closing, QuietReleaseVerifies
<1>2. ReleaseInv /\ Quiet /\ [ReleaseNext]_allVars => Quiet'
  <2> SUFFICES ASSUME ReleaseInv, Quiet, [ReleaseNext]_allVars PROVE Quiet'
    OBVIOUS
  <2>1. ASSUME UNCHANGED releaseVars, archive' \in {archive, dir} PROVE Quiet'
    <3>1. UNCHANGED <<dir, pk, opt, artifacts, supplements, packaged, disturbed>>
      BY <2>1 DEF releaseVars, packageVars, othersVars
    <3>2. Progress' = Progress /\ Usual' = Usual /\ QuietReleaseVerifies' = QuietReleaseVerifies
      BY <3>1 DEF Progress, Standing, Usual, QuietReleaseVerifies
    <3> QED
      BY <2>1, <3>1, <3>2 DEF Quiet
  <2>2. CASE Elsewhere
    BY <2>2, PackageQuiet, OthersQuiet DEF Elsewhere, ReleaseInv
  <2>3. CASE Audit
    BY <2>1, <2>3 DEF Audit, BeginAudit, CheckSignature, ReadChecksums, CheckNext, EndAudit
  <2>4. CASE Download
    BY <2>1, <2>4 DEF Download
  <2>5. CASE UNCHANGED allVars
    BY <2>1, <2>5 DEF allVars
  <2> QED
    BY <2>2, <2>3, <2>4, <2>5 DEF ReleaseNext
<1>3. Quiet => QuietReleaseVerifies
  BY DEF Quiet
<1> QED
  BY <1>1, <1>2, <1>3, ReleaseInvariant, PTL DEF ReleaseSpec
=============================================================================
