------------------------- MODULE FlagJournalProofs --------------------------
(* Theorems about the pass that derives flag corrections, for every number of *)
(* commands, segments and entries: the types; where no append straddles       *)
(* midnight, that no correction journaled a pass's time before its window     *)
(* closes is skipped, and that every pair is of a failure and its next        *)
(* invocation; with one command at a time, that the anchor of a pair is the   *)
(* latest recall before its failure, and missing only if none is left.  The   *)
(* clock may move during every command.                                       *)
EXTENDS FlagDerivationProofs, DataInduction, SequenceTheorems

(* The day of the segment the x-th written entry went to, and whether that    *)
(* segment is still there.                                                    *)
DayOf(x) == Day(written[x].at)
Alive(x) == seg[DayOf(x)].exists

(* Every readable line is an entry that was written that day, and the other   *)
(* way round as long as the segment is there; lines are in the order written. *)
LinesAreWritten ==
    \A d \in Days : \A k \in DOMAIN seg[d].lines : seg[d].lines[k] # Junk =>
        \E x \in DOMAIN written : written[x].n = seg[d].lines[k] /\ DayOf(x) = d

WrittenAreLines ==
    \A x \in DOMAIN written : Alive(x) =>
        \E k \in DOMAIN seg[DayOf(x)].lines : seg[DayOf(x)].lines[k] = written[x].n

LinesInOrder ==
    \A d \in Days : \A k, l \in DOMAIN seg[d].lines : \A x, y \in DOMAIN written :
        (k < l /\ written[x].n = seg[d].lines[k] /\ written[y].n = seg[d].lines[l]) => x < y

(* The caps remove the oldest segments first, and never the one of today.     *)
OldestGoFirst ==
    \A x \in DOMAIN written :
        /\ \A d \in Days : d < DayOf(x) /\ seg[d].exists => Alive(x)
        /\ DayOf(x) = Day(clock) => Alive(x)

(* Entries are written once, in the order of time, on the day of their stamp. *)
WrittenOnce ==
    /\ \A x, y \in DOMAIN written : written[x].n = written[y].n => x = y
    /\ \A x, y \in DOMAIN written : x < y => written[x].at <= written[y].at
    /\ \A x \in DOMAIN written : /\ written[x].at <= clock
                                 /\ written[x].n \in 1 .. Len(log)
                                 /\ Day(log[written[x].n].ts) = DayOf(x)

Appending(p) == pc[p] \in {"repair", "write"}
Torn(d) == seg[d].tail # None /\ seg[d].tail # Junk

(* What is not written yet: the entries in flight, stamped today, and the     *)
(* torn lines.                                                                *)
LooseEnds ==
    /\ \A p \in Procs : Appending(p) =>
          /\ mine[p] \in 1 .. Len(log) /\ Day(log[mine[p]].ts) = Day(clock)
          /\ \A x \in DOMAIN written : written[x].n # mine[p]
          /\ \A q \in Procs : Appending(q) /\ mine[q] = mine[p] => q = p
          /\ \A d \in Days : Torn(d) => seg[d].tail # mine[p]
    /\ \A d \in Days : Torn(d) =>
          /\ seg[d].tail \in 1 .. Len(log) /\ Day(log[seg[d].tail].ts) = d
          /\ \A x \in DOMAIN written : written[x].n # seg[d].tail
          /\ \A e \in Days : Torn(e) /\ seg[e].tail = seg[d].tail => e = d

GoneIsEmpty == \A d \in Days : ~seg[d].exists => seg[d] = NoSegment

FilesInv ==
    /\ LinesAreWritten /\ WrittenAreLines /\ LinesInOrder
    /\ OldestGoFirst /\ WrittenOnce /\ GoneIsEmpty

JournalInv == FilesInv /\ LooseEnds

-----------------------------------------------------------------------------
(* What a pass holds of the journal. *)

(* Entry n is in the segments, in front of offset o.                          *)
InFront(segs, o, n) ==
    /\ o.seg # None
    /\ \E d \in Days : \E k \in DOMAIN segs[d].lines :
          segs[d].lines[k] = n /\ (d < o.seg \/ (d = o.seg /\ k <= o.line))

InBatch(p, x) == \E k \in DOMAIN batch[p] : batch[p][k] = written[x].n

BatchIsWritten(p) ==
    \A k \in DOMAIN batch[p] : batch[p][k] # Junk =>
        \E x \in DOMAIN written : written[x].n = batch[p][k]

BatchInOrder(p) ==
    \A k, l \in DOMAIN batch[p] : \A x, y \in DOMAIN written :
        (k < l /\ written[x].n = batch[p][k] /\ written[y].n = batch[p][l]) => x < y

(* What the batch leaves out between two of its entries are whole days whose  *)
(* segments went, and the first entry's with them.                            *)
BatchIsDense(p) ==
    \A x, y, z \in DOMAIN written :
        (InBatch(p, z) /\ InBatch(p, y) /\ z < x /\ x < y) =>
            \/ InBatch(p, x)
            \/ DayOf(z) < DayOf(x) /\ DayOf(x) < DayOf(y) /\ ~Alive(z)

(* A segment is read to the end it then has: what it lacks came after the     *)
(* pass had listed the segments.                                              *)
BatchReachesEnd(p) ==
    \A x, z \in DOMAIN written :
        (InBatch(p, z) /\ z < x /\ DayOf(x) = DayOf(z)) =>
            InBatch(p, x) \/ written[x].at >= began[p]

BatchBehindOffset(p) ==
    \A z \in DOMAIN written : InBatch(p, z) =>
        /\ \A d \in left[p] : DayOf(z) < d
        /\ from[p].seg # None => from[p].seg <= DayOf(z)
        /\ Alive(z) => ~InFront(seg, from[p], written[z].n)

LeftBehindOffset(p) ==
    \A d \in left[p] : d <= Day(began[p]) /\ (from[p].seg # None => from[p].seg <= d)

Reading == {"read", "decide", "derive", "store"}

(* What is in the journal the pass has in its batch, or has still to read,    *)
(* unless the offset is past it or it came after the segments were listed.    *)
NothingElse(p) ==
    pc[p] \in Reading =>
        \A x \in DOMAIN written : Alive(x) =>
            \/ InFront(seg, from[p], written[x].n) \/ InBatch(p, x)
            \/ DayOf(x) \in left[p] \/ written[x].at >= began[p]

NextPassesBatch(p) ==
    \A x \in DOMAIN written : Alive(x) /\ InFront(seg, next[p], written[x].n) =>
        InFront(seg, from[p], written[x].n) \/ InBatch(p, x)

(* The parts of a pass are empty before they are filled.                      *)
PassShape(p) ==
    /\ pc[p] \notin Reading => batch[p] = <<>> /\ left[p] = {}
    /\ pc[p] # "read" => left[p] = {}
    /\ pc[p] # "derive" => todo[p] = {}
    /\ pc[p] \in {"idle", "repair", "write", "cleanup", "load"} => from[p] = Start /\ next[p] = Start
    /\ pc[p] = "list" => next[p] = from[p]

(* A pass lists the segments, and then decides within PassTime.               *)
BeganBefore(p) ==
    /\ began[p] <= clock
    /\ pc[p] \in {"read", "decide"} => clock <= began[p] + PassTime

PassTyped ==
    /\ batch \in [Procs -> Seq(Ids \cup {Junk})]
    /\ todo = [p \in Procs |-> todo[p]]
    /\ counted \in [Ids -> 0 .. 2]

BatchInv(p) ==
    /\ BatchIsWritten(p) /\ BatchInOrder(p) /\ BatchIsDense(p) /\ BatchReachesEnd(p)
    /\ BatchBehindOffset(p) /\ LeftBehindOffset(p) /\ NothingElse(p)
    /\ NextPassesBatch(p) /\ PassShape(p) /\ BeganBefore(p)

-----------------------------------------------------------------------------
(* What becomes of a failure. *)

(* Failure written[x] is counted, or no correction can count any more.        *)
Settles(x) ==
    \/ counted[written[x].n] > 0
    \/ ~CorrectedInTime(x) /\ (Retries(x) # {} \/ clock > log[written[x].n].ts + Window)

(* Nothing in front of offset o still waits for its correction.               *)
AllSettled(o) ==
    \A x \in DOMAIN written :
        Alive(x) /\ Failure(written[x].n) /\ InFront(seg, o, written[x].n) => Settles(x)

(* Of a batch that is decided, the rest is about to be counted.               *)
BatchSettled(p) ==
    pc[p] \in {"derive", "store"} =>
        \A x \in DOMAIN written :
            InBatch(p, x) /\ Alive(x) /\ Failure(written[x].n) =>
                Settles(x) \/ \E c \in todo[p] : c.n = written[x].n

PairsSound(p) ==
    \A c \in todo[p] : \E x \in DOMAIN written : written[x].n = c.n /\ Corrected(x)

CountInv ==
    /\ AllSettled(offset)
    /\ \A p \in Procs : AllSettled(from[p]) /\ BatchSettled(p) /\ PairsSound(p)
    /\ PairSound

AllBatchInv == \A p \in Procs : BatchInv(p)
-----------------------------------------------------------------------------
(* Steps that add a line to the segment of today. *)

Loose(line) ==
    line # Junk => /\ line \in 1 .. Len(log) /\ Day(log[line].ts) = Day(clock)
                   /\ \A x \in DOMAIN written : written[x].n # line

(* What Repair and Write have in common.                                      *)
LineAdded(line) ==
    /\ written' = written \o Readable(line)
    /\ seg' \in [Days -> Segment]
    /\ seg'[Day(clock)].exists
    /\ seg'[Day(clock)].lines = Append(seg[Day(clock)].lines, line)
    /\ \A d \in Days : d # Day(clock) => seg'[d] = seg[d]
    /\ UNCHANGED <<clock, log>>

LEMMA ReadableAdds ==
  ASSUME Typed, NEW line \in Ids \cup {Junk}, written' = written \o Readable(line)
  PROVE  /\ DOMAIN written = 1 .. Len(written) /\ Len(written) \in Nat
         /\ DOMAIN written' = 1 .. Len(written')
         /\ Len(written') = Len(written) + (IF line = Junk THEN 0 ELSE 1)
         /\ \A x \in DOMAIN written : written'[x] = written[x]
         /\ line # Junk => written'[Len(written) + 1] = [n |-> line, at |-> clock]
<1> DEFINE S == [n : Ids, at : 0 .. MaxClock]
<1>1. written \in Seq(S)
  BY DEF Typed
<1>2. CASE line = Junk
  <2>1. Readable(line) = <<>>
    BY <1>2 DEF Readable
  <2>2. written' = written
    BY <1>1, <2>1
  <2> QED BY <1>1, <1>2, <2>2
<1>3. CASE line # Junk
  <2> DEFINE e == [n |-> line, at |-> clock]
  <2>1. e \in S
    BY <1>3 DEF Typed
  <2>2. written' = written \o <<e>>
    BY <1>3 DEF Readable
  <2> HIDE DEF e, S
  <2>3. /\ Len(written') = Len(written) + 1 /\ written' \in Seq(S)
        /\ \A x \in 1 .. Len(written) : written'[x] = written[x]
        /\ written'[Len(written) + 1] = e
    BY <1>1, <2>1, <2>2
  <2> QED BY <1>1, <1>3, <2>3 DEF e
<1> QED BY <1>2, <1>3

(* A command only adds to what is written and logged; a segment is added to,  *)
(* comes today, or goes on a later day.                                       *)
Grows ==
    /\ clock' = clock
    /\ Len(written) <= Len(written')
    /\ \A x \in DOMAIN written : written'[x] = written[x]
    /\ \A x \in DOMAIN written' : x \notin DOMAIN written => written'[x].at = clock
    /\ Len(log) <= Len(log') /\ \A n \in 1 .. Len(log) : log'[n] = log[n]
    /\ \A d \in Days : seg'[d].exists =>
          IF seg[d].exists
          THEN /\ Len(seg[d].lines) <= Len(seg'[d].lines)
               /\ \A k \in DOMAIN seg[d].lines : seg'[d].lines[k] = seg[d].lines[k]
               /\ d # Day(clock) => seg'[d] = seg[d]
          ELSE d = Day(clock)
    /\ \A d \in Days : ~seg'[d].exists => seg'[d] = seg[d] \/ d < Day(clock)

WrittenIsTyped ==
    /\ DOMAIN written = 1 .. Len(written) /\ Len(written) \in Nat
    /\ \A x \in DOMAIN written :
          /\ x \in Nat
          /\ written[x].n \in Ids /\ written[x].n \in Nat /\ written[x].n # Junk
          /\ written[x].at \in 0 .. MaxClock /\ written[x].at \in Nat
          /\ DayOf(x) \in Days /\ DayOf(x) \in Nat

LEMMA WrittenTyped == Typed => WrittenIsTyped
<1> SUFFICES ASSUME Typed PROVE WrittenIsTyped
  OBVIOUS
<1> DEFINE S == [n : Ids, at : 0 .. MaxClock]
<1>1. written \in Seq(S) /\ MaxClock \in Nat /\ MaxEntries \in Nat
  BY FlagDerivationAssumption DEF Typed
<1>2. \A e \in S : /\ e.n \in Ids /\ e.n \in Nat /\ e.n # Junk
                    /\ e.at \in 0 .. MaxClock /\ e.at \in Nat
  BY <1>1 DEF Ids, Junk
<1> HIDE DEF S
<1>3. DOMAIN written = 1 .. Len(written) /\ Len(written) \in Nat
      /\ \A x \in DOMAIN written : x \in Nat /\ written[x] \in S
  BY <1>1
<1>4. \A x \in DOMAIN written : DayOf(x) \in Days /\ DayOf(x) \in Nat
  BY <1>2, <1>3, DayInRange DEF DayOf, Days
<1> QED BY <1>2, <1>3, <1>4 DEF WrittenIsTyped

SegIsTyped ==
    /\ Day(clock) \in Days /\ Day(clock) \in Nat /\ Days \subseteq Nat
    /\ clock \in Nat /\ Len(log) \in Nat
    /\ \A d \in Days :
          /\ d \in Nat /\ d # None
          /\ seg[d].exists \in BOOLEAN
          /\ seg[d].lines \in Seq(Ids \cup {Junk})
          /\ seg[d].tail \in Ids \cup {Junk, None}
          /\ DOMAIN seg[d].lines = 1 .. Len(seg[d].lines) /\ Len(seg[d].lines) \in Nat
          /\ \A k \in DOMAIN seg[d].lines : k \in Nat /\ seg[d].lines[k] \in Ids \cup {Junk}

LEMMA SegmentTyped == Typed => SegIsTyped
<1> SUFFICES ASSUME Typed PROVE SegIsTyped
  OBVIOUS
<1>1. Day(clock) \in Days /\ Days \subseteq Nat
  BY DayInRange DEF Days, Typed
<1>2. clock \in Nat /\ Len(log) \in Nat
  BY DEF Typed
<1>3. \A d \in Days : seg[d] \in Segment
  BY DEF Typed
<1>4. ASSUME NEW g \in Segment
      PROVE  /\ g.exists \in BOOLEAN
             /\ g.lines \in Seq(Ids \cup {Junk})
             /\ g.tail \in Ids \cup {Junk, None}
  BY DEF Segment
<1>5. ASSUME NEW S, NEW l \in Seq(S)
      PROVE  /\ DOMAIN l = 1 .. Len(l) /\ Len(l) \in Nat
             /\ \A k \in DOMAIN l : k \in Nat /\ l[k] \in S
  OBVIOUS
<1> QED BY <1>1, <1>2, <1>3, <1>4, <1>5, FlagDerivationAssumption DEF SegIsTyped

LEMMA LineKeepsFiles ==
  ASSUME Typed, WritersAreCurrent, FilesInv,
         NEW line \in Ids \cup {Junk}, Loose(line), LineAdded(line)
  PROVE  FilesInv' /\ Grows
<1> DEFINE t == Day(clock)
           L == seg[t].lines
           w == Len(written)
<1>1. /\ t \in Days /\ t \in Nat /\ clock \in Nat
      /\ \A d \in Days : d \in Nat
      /\ L \in Seq(Ids \cup {Junk})
      /\ \A d \in Days : /\ DOMAIN seg[d].lines = 1 .. Len(seg[d].lines)
                          /\ Len(seg[d].lines) \in Nat
  BY SegmentTyped DEF SegIsTyped
<1>2. /\ DOMAIN written = 1 .. w /\ w \in Nat
      /\ DOMAIN written' = 1 .. Len(written')
      /\ Len(written') = w + (IF line = Junk THEN 0 ELSE 1)
      /\ \A x \in 1 .. w : written'[x] = written[x]
      /\ line # Junk => written'[w + 1] = [n |-> line, at |-> clock]
  BY ReadableAdds DEF LineAdded
<1>3. /\ seg'[t].exists
      /\ DOMAIN L = 1 .. Len(L) /\ Len(L) \in Nat
      /\ DOMAIN seg'[t].lines = 1 .. Len(L) + 1 /\ Len(seg'[t].lines) = Len(L) + 1
      /\ \A k \in 1 .. Len(L) : seg'[t].lines[k] = L[k]
      /\ seg'[t].lines[Len(L) + 1] = line
      /\ \A d \in Days : d # t => seg'[d] = seg[d]
  <2>1. seg'[t].lines = Append(L, line)
    BY DEF LineAdded
  <2> QED BY <1>1, <2>1 DEF LineAdded
<1>w. \A x \in 1 .. w : /\ written[x].n \in Nat /\ written[x].n # Junk
                        /\ written[x].at \in Nat /\ written[x].at <= clock
                        /\ DayOf(x) \in Days /\ DayOf(x) \in Nat /\ DayOf(x) <= t
  BY <1>1, WrittenTyped, DayMonotone DEF FilesInv, WrittenOnce, DayOf, WrittenIsTyped
<1>4. ~seg[t].exists => Len(L) = 0 /\ \A x \in 1 .. w : DayOf(x) # t
  BY <1>1, <1>2 DEF FilesInv, GoneIsEmpty, NoSegment, OldestGoFirst, Alive
<1>5. /\ \A x \in 1 .. w : DayOf(x)' = DayOf(x) /\ x \in DOMAIN written'
      /\ line # Junk => w + 1 \in DOMAIN written' /\ written'[w + 1].n = line
      /\ \A x \in DOMAIN written' :
            \/ x \in 1 .. w
            \/ /\ x = w + 1 /\ line # Junk /\ DayOf(x)' = t
               /\ written'[x].n = line /\ written'[x].at = clock
  <2> HIDE DEF w
  <2>1. \A x \in 1 .. w : DayOf(x)' = DayOf(x)
    BY <1>2 DEF DayOf, Day
  <2>2. \A x \in 1 .. w : x \in DOMAIN written'
    BY <1>2
  <2>3. ASSUME line # Junk
        PROVE  written'[w + 1].n = line /\ written'[w + 1].at = clock /\ w + 1 \in DOMAIN written'
    BY <1>2, <2>3
  <2>4. \A x \in DOMAIN written' : x \in 1 .. w \/ (x = w + 1 /\ line # Junk)
    BY <1>2
  <2>5. ASSUME NEW x \in DOMAIN written', x = w + 1, line # Junk
        PROVE  DayOf(x)' = t /\ written'[x].n = line /\ written'[x].at = clock
    BY <2>3, <2>5 DEF DayOf, Day
  <2> QED BY <2>1, <2>2, <2>3, <2>4, <2>5
<1>k. \A d \in Days :
        /\ \A k \in DOMAIN seg'[d].lines :
              \/ d = t /\ k = Len(L) + 1
              \/ k \in DOMAIN seg[d].lines /\ seg'[d].lines[k] = seg[d].lines[k]
                 /\ ~(d = t /\ k = Len(L) + 1)
        /\ \A k \in DOMAIN seg[d].lines :
              k \in DOMAIN seg'[d].lines /\ seg'[d].lines[k] = seg[d].lines[k]
  <2> HIDE DEF t
  <2>1. ASSUME NEW d \in Days, d # t
        PROVE  seg'[d] = seg[d]
    BY <1>3, <2>1
  <2>2. DOMAIN seg[t].lines = 1 .. Len(L) /\ DOMAIN seg'[t].lines = 1 .. Len(L) + 1
        /\ Len(L) \in Nat /\ \A k \in 1 .. Len(L) : seg'[t].lines[k] = seg[t].lines[k]
    BY <1>3
  <2> HIDE DEF L
  <2> QED BY <2>1, <2>2
<1>6. clock' = clock /\ log' = log /\ t' = t
  BY DEF LineAdded, Day
<1> HIDE DEF L, w, t
<1>7. LinesAreWritten'
  <2>1. ASSUME NEW d \in Days, NEW k \in DOMAIN seg'[d].lines, seg'[d].lines[k] # Junk
        PROVE  \E x \in DOMAIN written' : written'[x].n = seg'[d].lines[k] /\ DayOf(x)' = d
    <3>1. CASE d = t /\ k = Len(L) + 1
      <4>1. seg'[d].lines[k] = line /\ line # Junk
        BY <1>3, <2>1, <3>1
      <4>2. PICK x \in DOMAIN written' : x = w + 1
        BY <1>5, <4>1
      <4>3. x \notin 1 .. w
        BY <1>2, <4>2
      <4> QED BY <1>5, <3>1, <4>1, <4>2, <4>3
    <3>2. CASE ~(d = t /\ k = Len(L) + 1)
      <4>1. k \in DOMAIN seg[d].lines /\ seg'[d].lines[k] = seg[d].lines[k]
        BY <1>k, <3>2, <2>1
      <4>2. PICK x \in DOMAIN written : written[x].n = seg[d].lines[k] /\ DayOf(x) = d
        BY <2>1, <4>1 DEF FilesInv, LinesAreWritten
      <4> QED BY <1>2, <1>5, <4>1, <4>2
    <3> QED BY <3>1, <3>2
  <2> QED BY <2>1 DEF LinesAreWritten
<1>8. WrittenAreLines'
  <2>1. ASSUME NEW x \in DOMAIN written', Alive(x)'
        PROVE  \E k \in DOMAIN seg'[DayOf(x)'].lines : seg'[DayOf(x)'].lines[k] = written'[x].n
    <3>1. CASE x = w + 1
      <4>1. DayOf(x)' = t /\ written'[x].n = line
        <5>1. x \notin 1 .. w
          BY <1>2, <3>1
        <5> QED BY <1>5, <2>1, <5>1
      <4>2. Len(L) + 1 \in DOMAIN seg'[t].lines /\ seg'[t].lines[Len(L) + 1] = line
        BY <1>3
      <4> QED BY <4>1, <4>2
    <3>2. CASE x \in 1 .. w
      <4>1. DayOf(x)' = DayOf(x) /\ DayOf(x) \in Days /\ written'[x] = written[x]
        BY <1>2, <1>5, <1>w, <3>2
      <4>2. Alive(x)
        BY <1>3, <1>4, <2>1, <3>2, <4>1 DEF Alive
      <4>3. PICK k \in DOMAIN seg[DayOf(x)].lines : seg[DayOf(x)].lines[k] = written[x].n
        BY <1>2, <3>2, <4>2 DEF FilesInv, WrittenAreLines
      <4>4. k \in DOMAIN seg'[DayOf(x)].lines /\ seg'[DayOf(x)].lines[k] = seg[DayOf(x)].lines[k]
        BY <1>k, <4>1, <4>3
      <4> QED BY <4>1, <4>3, <4>4
    <3> QED BY <1>5, <2>1, <3>1, <3>2
  <2> QED BY <2>1 DEF WrittenAreLines
<1>9. LinesInOrder'
  <2>1. ASSUME NEW d \in Days, NEW k \in DOMAIN seg'[d].lines, NEW l \in DOMAIN seg'[d].lines,
               NEW x \in DOMAIN written', NEW y \in DOMAIN written',
               k < l, written'[x].n = seg'[d].lines[k], written'[y].n = seg'[d].lines[l]
        PROVE  x < y
    <3>1. seg'[d].lines[k] # Junk /\ seg'[d].lines[l] # Junk
      BY <1>2, <1>5, <1>w, <2>1
    <3>2. k \in DOMAIN seg[d].lines /\ seg'[d].lines[k] = seg[d].lines[k]
      <4>1. ~(d = t /\ k = Len(L) + 1)
        BY <1>3, <2>1
      <4> QED BY <1>k, <2>1, <4>1
    <3>3. PICK z \in DOMAIN written : written[z].n = seg[d].lines[k]
      BY <2>1, <3>1, <3>2 DEF FilesInv, LinesAreWritten
    <3>4. x \in 1 .. w
      BY <1>5, <2>1, <3>2, <3>3 DEF Loose
    <3>5. CASE d = t /\ l = Len(L) + 1
      <4>1. written'[y].n = line
        BY <1>3, <2>1, <3>5
      <4>2. y \notin 1 .. w
        BY <1>2, <3>1, <4>1, <2>1 DEF Loose
      <4>3. y = w + 1
        BY <1>5, <2>1, <4>2
      <4> QED BY <1>2, <3>4, <4>3
    <3>6. CASE ~(d = t /\ l = Len(L) + 1)
      <4>1. l \in DOMAIN seg[d].lines /\ seg'[d].lines[l] = seg[d].lines[l]
        BY <1>k, <3>6, <2>1
      <4>2. PICK u \in DOMAIN written : written[u].n = seg[d].lines[l]
        BY <2>1, <3>1, <4>1 DEF FilesInv, LinesAreWritten
      <4>3. y \in 1 .. w
        BY <1>5, <2>1, <4>1, <4>2 DEF Loose
      <4>4. written[x].n = seg[d].lines[k] /\ written[y].n = seg[d].lines[l]
        BY <1>2, <2>1, <3>2, <3>4, <4>1, <4>3
      <4> QED BY <1>2, <2>1, <3>2, <3>4, <4>1, <4>3, <4>4 DEF FilesInv, LinesInOrder
    <3> QED BY <3>5, <3>6
  <2> QED BY <2>1 DEF LinesInOrder
<1>10. OldestGoFirst'
  <2>1. ASSUME NEW x \in DOMAIN written'
        PROVE  /\ \A d \in Days : d < DayOf(x)' /\ seg'[d].exists => Alive(x)'
               /\ DayOf(x)' = t => Alive(x)'
    <3>1. CASE DayOf(x)' = t
      BY <1>3, <3>1 DEF Alive
    <3>2. CASE DayOf(x)' # t
      <4>1. x \in 1 .. w /\ DayOf(x)' = DayOf(x) /\ DayOf(x) \in Days /\ DayOf(x) < t
            /\ DayOf(x) \in Nat /\ DayOf(x) # t
        <5>1. x \in 1 .. w
          BY <1>5, <2>1, <3>2
        <5> QED BY <1>1, <1>5, <1>w, <3>2, <5>1
      <4>2. Alive(x)' = Alive(x)
        <5>1. seg'[DayOf(x)] = seg[DayOf(x)]
          BY <1>1, <1>3, <4>1
        <5> QED BY <4>1, <5>1 DEF Alive
      <4>3. \A d \in Days : d < DayOf(x) => seg'[d] = seg[d]
        <5>1. \A d \in Days : d < DayOf(x) => d # t
          BY <1>1, <4>1
        <5> QED BY <1>3, <5>1
      <4> QED BY <1>2, <3>2, <4>1, <4>2, <4>3 DEF FilesInv, OldestGoFirst
    <3> QED BY <3>1, <3>2
  <2> QED BY <1>6, <2>1 DEF OldestGoFirst, t
<1>11. WrittenOnce'
  <2>2. ASSUME NEW x \in DOMAIN written', NEW y \in DOMAIN written', written'[x].n = written'[y].n
        PROVE  x = y
    <3>1. CASE x \in 1 .. w /\ y \in 1 .. w
      BY <1>2, <2>2, <3>1 DEF FilesInv, WrittenOnce
    <3>2. CASE ~(x \in 1 .. w /\ y \in 1 .. w)
      BY <1>2, <1>5, <2>2, <3>2 DEF Loose
    <3> QED BY <3>1, <3>2
  <2>3. ASSUME NEW x \in DOMAIN written', NEW y \in DOMAIN written', x < y
        PROVE  written'[x].at <= written'[y].at
    <3>1. CASE y \in 1 .. w
      BY <1>2, <1>5, <2>3, <3>1 DEF FilesInv, WrittenOnce
    <3>2. CASE y = w + 1 /\ line # Junk
      <4>1. x \in 1 .. w
        BY <1>2, <1>5, <2>3, <3>2
      <4> QED BY <1>2, <1>5, <1>w, <3>2, <4>1
    <3> QED BY <1>5, <2>3, <3>1, <3>2
  <2>4. ASSUME NEW x \in DOMAIN written'
        PROVE  /\ written'[x].at <= clock /\ written'[x].n \in 1 .. Len(log)
               /\ Day(log[written'[x].n].ts) = DayOf(x)'
    <3>1. CASE x = w + 1 /\ line # Junk
      <4>1. written'[x].n = line /\ written'[x].at = clock /\ DayOf(x)' = t
        <5>1. x \notin 1 .. w
          BY <1>2, <3>1
        <5> QED BY <1>5, <2>4, <5>1
      <4>2. line \in 1 .. Len(log) /\ Day(log[line].ts) = t
        BY <3>1 DEF Loose, t
      <4> QED BY <1>1, <4>1, <4>2
    <3>2. CASE x \in 1 .. w
      BY <1>2, <1>5, <3>2 DEF FilesInv, WrittenOnce
    <3> QED BY <1>5, <2>4, <3>1, <3>2
  <2> QED BY <1>6, <2>2, <2>3, <2>4 DEF WrittenOnce, Day
<1>12. GoneIsEmpty'
  BY <1>3 DEF FilesInv, GoneIsEmpty
<1>13. Grows
  <2>1. Len(log) <= Len(log') /\ \A n \in 1 .. Len(log) : log'[n] = log[n]
    BY <1>6, SegmentTyped DEF SegIsTyped
  <2>2. /\ \A x \in DOMAIN written' : x \notin DOMAIN written => written'[x].at = clock
        /\ Len(written) <= Len(written') /\ \A x \in DOMAIN written : written'[x] = written[x]
    BY <1>2, <1>5 DEF w
  <2>3. ASSUME NEW d \in Days
        PROVE  /\ seg'[d].exists =>
                    IF seg[d].exists
                    THEN /\ Len(seg[d].lines) <= Len(seg'[d].lines)
                         /\ \A k \in DOMAIN seg[d].lines : seg'[d].lines[k] = seg[d].lines[k]
                         /\ d # t => seg'[d] = seg[d]
                    ELSE d = t
               /\ ~seg'[d].exists => seg'[d] = seg[d] \/ d < t
    <3>1. CASE d = t
      <4>1. Len(seg[d].lines) <= Len(seg'[d].lines)
            /\ \A k \in DOMAIN seg[d].lines : seg'[d].lines[k] = seg[d].lines[k]
        <5>1. \A k \in DOMAIN seg[d].lines : seg'[d].lines[k] = seg[d].lines[k]
          BY <1>k
        <5>2. Len(seg[t].lines) <= Len(seg'[t].lines)
          BY <1>3 DEF L
        <5> QED BY <3>1, <5>1, <5>2
      <4> QED BY <1>3, <3>1, <4>1
    <3>2. CASE d # t
      <4>1. seg'[d] = seg[d]
        BY <1>3, <3>2
      <4> QED BY <1>1, <3>2, <4>1
    <3> QED BY <3>1, <3>2
  <2> QED BY <1>6, <2>1, <2>2, <2>3 DEF Grows, t
<1> QED BY <1>7, <1>8, <1>9, <1>10, <1>11, <1>12, <1>13 DEF FilesInv

-----------------------------------------------------------------------------
(* The other steps *)

(* A step that leaves the files alone, and starts no append.                  *)
LEMMA QuietKeepsJournal ==
  ASSUME Typed, JournalInv, UNCHANGED <<clock, log, written, seg, mine>>,
         \A q \in Procs : pc'[q] \in {"repair", "write"} => pc[q] \in {"repair", "write"}
  PROVE  JournalInv' /\ Grows
<1>1. FilesInv'
  BY DEF JournalInv, FilesInv, LinesAreWritten, WrittenAreLines, LinesInOrder, OldestGoFirst,
         WrittenOnce, GoneIsEmpty, DayOf, Alive, Day
<1>2. LooseEnds'
  BY DEF JournalInv, LooseEnds, Appending, Torn, Day
<1>3. Grows
  BY WrittenTyped, SegmentTyped DEF Grows, WrittenIsTyped, SegIsTyped
<1> QED BY <1>1, <1>2, <1>3 DEF JournalInv

LEMMA TickKeepsJournal ==
  ASSUME Midnight = FALSE, Typed, JournalInv, Tick
  PROVE  JournalInv'
<1>1. UNCHANGED <<log, written, seg, mine, pc>> /\ clock' = clock + 1
  BY DEF Tick, journal
<1>2. /\ clock \in Nat /\ clock + 1 \in Nat
      /\ Day(clock) \in Nat /\ Day(clock + 1) \in Nat /\ Day(clock) <= Day(clock + 1)
  <2>1. clock \in Nat /\ clock + 1 \in Nat
    BY DEF Typed
  <2> QED BY <2>1, DayMonotone
<1>3. \A x \in DOMAIN written : DayOf(x) \in Nat /\ DayOf(x) <= Day(clock) /\ written[x].at <= clock + 1
  <2>1. \A x \in DOMAIN written : written[x].at <= clock /\ written[x].at \in Nat
    BY WrittenTyped DEF JournalInv, FilesInv, WrittenOnce, WrittenIsTyped
  <2>2. \A x \in DOMAIN written : Day(written[x].at) \in Nat /\ Day(written[x].at) <= Day(clock)
    BY <1>2, <2>1, DayMonotone
  <2> QED BY <1>2, <2>1, <2>2 DEF DayOf
<1>4. OldestGoFirst'
  <2>1. ASSUME NEW x \in DOMAIN written, DayOf(x) = Day(clock + 1)
        PROVE  Alive(x)
    <3>1. DayOf(x) = Day(clock)
      BY <1>2, <1>3, <2>1
    <3> QED BY <3>1 DEF JournalInv, FilesInv, OldestGoFirst
  <2> QED BY <1>1, <2>1 DEF JournalInv, FilesInv, OldestGoFirst, DayOf, Alive, Day
<1>5. WrittenOnce'
  BY <1>1, <1>3 DEF JournalInv, FilesInv, WrittenOnce, DayOf, Day
<1>6. LinesAreWritten' /\ WrittenAreLines' /\ LinesInOrder' /\ GoneIsEmpty'
  BY <1>1 DEF JournalInv, FilesInv, LinesAreWritten, WrittenAreLines, LinesInOrder, GoneIsEmpty,
              DayOf, Alive, Day
<1>7. LooseEnds'
  <2>1. \A p \in Procs : Appending(p) => Day(clock + 1) = Day(clock)
    BY DEF Tick, Appending
  <2> QED BY <1>1, <2>1 DEF JournalInv, LooseEnds, Appending, Torn, Day
<1> QED BY <1>4, <1>5, <1>6, <1>7 DEF JournalInv, FilesInv

LEMMA BeginKeepsJournal ==
  ASSUME Typed, JournalInv, NEW p \in Procs, NEW k \in Kinds, NEW s \in Sessions,
         NEW f \in Families \cup {None}, Begin(p, k, s, f)
  PROVE  JournalInv' /\ Grows
<1> DEFINE e == [kind |-> k, session |-> s, ts |-> clock, family |-> f]
<1>1. /\ Len(log') = Len(log) + 1 /\ log'[Len(log) + 1].ts = clock
      /\ \A n \in 1 .. Len(log) : log'[n] = log[n]
      /\ 1 .. Len(log) \subseteq 1 .. Len(log')
      /\ Len(log) \in Nat
  <2>1. log \in Seq(Entry) /\ log' = Append(log, e)
    BY DEF Typed, Begin
  <2>2. e.ts = clock
    OBVIOUS
  <2> HIDE DEF e
  <2> QED BY <2>1, <2>2
<1>2. UNCHANGED <<clock, written, seg>> /\ pc[p] = "idle"
      /\ mine' = [mine EXCEPT ![p] = Len(log')] /\ pc' = [pc EXCEPT ![p] = "repair"]
  BY DEF Begin, Goto
<1>3. \A q \in Procs : /\ q # p => mine'[q] = mine[q] /\ pc'[q] = pc[q]
                       /\ q = p => mine'[q] = Len(log) + 1 /\ pc'[q] = "repair"
  BY <1>1, <1>2 DEF Typed
<1>4. \A n \in 1 .. Len(log) : n # Len(log) + 1 /\ n \in 1 .. Len(log')
  BY <1>1
<1>5. FilesInv'
  <2>1. WrittenOnce'
    BY <1>1, <1>2, <1>4 DEF JournalInv, FilesInv, WrittenOnce, DayOf, Day
  <2> QED BY <1>2, <2>1 DEF JournalInv, FilesInv, LinesAreWritten, WrittenAreLines, LinesInOrder,
                            OldestGoFirst, GoneIsEmpty, DayOf, Alive, Day
<1>6. LooseEnds'
  <2>1. ASSUME NEW q \in Procs, Appending(q)'
        PROVE  /\ mine'[q] \in 1 .. Len(log') /\ Day(log'[mine'[q]].ts) = Day(clock)
               /\ \A x \in DOMAIN written : written[x].n # mine'[q]
               /\ \A r \in Procs : Appending(r)' /\ mine'[r] = mine'[q] => r = q
               /\ \A d \in Days : Torn(d) => seg[d].tail # mine'[q]
    <3>1. CASE q = p
      <4>1. mine'[q] = Len(log) + 1
        BY <1>3, <3>1
      <4>2. \A x \in DOMAIN written : written[x].n \in 1 .. Len(log)
        BY DEF JournalInv, FilesInv, WrittenOnce
      <4>3. \A r \in Procs : r # p /\ Appending(r)' => mine'[r] \in 1 .. Len(log)
        BY <1>3 DEF JournalInv, LooseEnds, Appending
      <4>4. \A d \in Days : Torn(d) => seg[d].tail \in 1 .. Len(log)
        BY DEF JournalInv, LooseEnds
      <4> QED BY <1>1, <1>4, <3>1, <4>1, <4>2, <4>3, <4>4
    <3>2. CASE q # p
      <4>1. mine'[q] = mine[q] /\ Appending(q) /\ mine[q] \in 1 .. Len(log)
        BY <1>3, <2>1, <3>2 DEF Appending, JournalInv, LooseEnds
      <4>2. \A r \in Procs : Appending(r)' /\ mine'[r] = mine'[q] => r # p /\ Appending(r) /\ mine[r] = mine[q]
        BY <1>3, <1>4, <4>1 DEF Appending
      <4> QED BY <1>1, <1>4, <4>1, <4>2 DEF JournalInv, LooseEnds
    <3> QED BY <3>1, <3>2
  <2>2. ASSUME NEW d \in Days, Torn(d)
        PROVE  /\ seg[d].tail \in 1 .. Len(log') /\ Day(log'[seg[d].tail].ts) = d
               /\ \A x \in DOMAIN written : written[x].n # seg[d].tail
               /\ \A c \in Days : Torn(c) /\ seg[c].tail = seg[d].tail => c = d
    BY <1>1, <1>4, <2>2 DEF JournalInv, LooseEnds
  <2> QED BY <1>2, <2>1, <2>2 DEF LooseEnds, Torn, Day
<1>7. Grows
  BY <1>1, <1>2, WrittenTyped, SegmentTyped DEF Grows, WrittenIsTyped, SegIsTyped
<1> QED BY <1>5, <1>6, <1>7 DEF JournalInv

(* What is loose stays so when another entry becomes a line.                  *)
LEMMA OthersStayLoose ==
  ASSUME Typed, JournalInv, NEW line \in Ids \cup {Junk}, written' = written \o Readable(line)
  PROVE  \A n \in Ids : n # line /\ (\A x \in DOMAIN written : written[x].n # n) =>
            \A x \in DOMAIN written' : written'[x].n # n
<1>1. /\ DOMAIN written = 1 .. Len(written) /\ Len(written) \in Nat
      /\ DOMAIN written' = 1 .. Len(written')
      /\ Len(written') = Len(written) + (IF line = Junk THEN 0 ELSE 1)
      /\ \A x \in DOMAIN written : written'[x] = written[x]
      /\ line # Junk => written'[Len(written) + 1] = [n |-> line, at |-> clock]
  BY ReadableAdds
<1>2. ASSUME NEW x \in DOMAIN written', x \notin DOMAIN written
      PROVE  written'[x].n = line
  <2>1. x = Len(written) + 1 /\ line # Junk
    BY <1>1, <1>2
  <2> QED BY <1>1, <2>1
<1> QED BY <1>1, <1>2

LEMMA RepairKeepsJournal ==
  ASSUME Typed, WritersAreCurrent, JournalInv, NEW p \in Procs, Repair(p)
  PROVE  JournalInv' /\ Grows
<1> DEFINE t == Day(clock)
<1>1. /\ UNCHANGED <<clock, log, mine>> /\ pc[p] = "repair"
      /\ \A q \in Procs : pc'[q] = IF q = p THEN "write" ELSE pc[q]
  BY DEF Repair, Goto, Typed
<1>2. \A q \in Procs : Appending(q)' <=> Appending(q)
  BY <1>1 DEF Appending
<1>3. CASE seg[t].tail = None
  <2>1. UNCHANGED <<seg, written>>
    BY <1>3 DEF Repair
  <2> QED BY <1>1, <1>2, <2>1, QuietKeepsJournal DEF Appending
<1>4. CASE seg[t].tail # None
  <2> DEFINE line == seg[t].tail
  <2>1. /\ seg' = [seg EXCEPT ![t].lines = Append(@, line), ![t].tail = None]
        /\ written' = written \o Readable(line)
    BY <1>4 DEF Repair
  <2>2. t \in Days /\ line \in Ids \cup {Junk}
    BY <1>4, SegmentTyped DEF SegIsTyped
  <2>3. seg[t].exists
    BY <1>4, <2>2 DEF JournalInv, FilesInv, GoneIsEmpty, NoSegment
  <2>4. /\ seg'[t].exists /\ seg'[t].lines = Append(seg[t].lines, line) /\ seg'[t].tail = None
        /\ \A d \in Days : d # t => seg'[d] = seg[d]
    BY <2>1, <2>2, <2>3 DEF Typed, Segment
  <2>5. Typed'
    BY NextTyped DEF Next, Step
  <2>6. Loose(line)
    BY <1>4, <2>2 DEF Loose, JournalInv, LooseEnds, Torn
  <2>7. LineAdded(line)
    BY <1>1, <2>1, <2>4, <2>5 DEF LineAdded, Typed
  <2>8. FilesInv' /\ Grows
    BY <2>2, <2>6, <2>7, LineKeepsFiles DEF JournalInv
  <2>9. \A n \in Ids : n # line /\ (\A x \in DOMAIN written : written[x].n # n) =>
            \A x \in DOMAIN written' : written'[x].n # n
    BY <2>1, <2>2, OthersStayLoose
  <2>10. \A d \in Days : Torn(d)' => d # t /\ Torn(d) /\ seg'[d].tail = seg[d].tail
    BY <2>4 DEF Torn
  <2>11. 1 .. Len(log) \subseteq Ids
    BY FlagDerivationAssumption, SegmentTyped DEF Typed, Ids, SegIsTyped
  <2>12. LooseEnds'
    <3>1. ASSUME NEW q \in Procs, Appending(q)
          PROVE  /\ mine[q] \in 1 .. Len(log) /\ Day(log[mine[q]].ts) = Day(clock)
                 /\ \A x \in DOMAIN written' : written'[x].n # mine[q]
                 /\ \A r \in Procs : Appending(r) /\ mine[r] = mine[q] => r = q
                 /\ \A d \in Days : Torn(d)' => seg'[d].tail # mine[q]
      <4>1. mine[q] # line
        BY <1>4, <2>2, <3>1, FlagDerivationAssumption DEF JournalInv, LooseEnds, Torn, Typed, Ids, Junk, Appending
      <4> QED BY <2>9, <2>10, <2>11, <3>1, <4>1 DEF JournalInv, LooseEnds
    <3>2. ASSUME NEW d \in Days, Torn(d)'
          PROVE  /\ seg'[d].tail \in 1 .. Len(log) /\ Day(log[seg'[d].tail].ts) = d
                 /\ \A x \in DOMAIN written' : written'[x].n # seg'[d].tail
                 /\ \A c \in Days : Torn(c)' /\ seg'[c].tail = seg'[d].tail => c = d
      <4>1. Torn(d) /\ seg'[d].tail = seg[d].tail /\ seg[d].tail # line
        BY <1>4, <2>2, <2>10, <3>2 DEF JournalInv, LooseEnds, Torn
      <4> QED BY <2>9, <2>10, <2>11, <4>1 DEF JournalInv, LooseEnds
    <3> QED BY <1>1, <1>2, <3>1, <3>2 DEF LooseEnds, Day
  <2> QED BY <2>8, <2>12 DEF JournalInv
<1> QED BY <1>3, <1>4

LEMMA WriteKeepsJournal ==
  ASSUME Typed, WritersAreCurrent, JournalInv, NEW p \in Procs, Write(p)
  PROVE  JournalInv' /\ Grows
<1> DEFINE t == Day(clock)
           line == IF seg[t].tail = None THEN mine[p] ELSE Junk
<1>1. /\ UNCHANGED <<clock, log, mine>> /\ pc[p] = "write" /\ target[p] = t
      /\ \A q \in Procs : pc'[q] = IF q = p THEN "cleanup" ELSE pc[q]
  BY DEF Write, Goto, Typed, WritersAreCurrent
<1>2. \A q \in Procs : Appending(q)' <=> Appending(q) /\ q # p
  BY <1>1 DEF Appending
<1>3. Appending(p)
  BY <1>1 DEF Appending
<1>4. t \in Days /\ line \in {mine[p], Junk} /\ mine[p] \in 1 .. Len(log) /\ mine[p] \in Ids
  BY <1>3, SegmentTyped DEF JournalInv, LooseEnds, Typed, Appending, SegIsTyped
<1>5. /\ seg' = [seg EXCEPT ![t] = [exists |-> TRUE, lines |-> Append(@.lines, line), tail |-> None]]
      /\ written' = written \o Readable(line)
  BY <1>1 DEF Write
<1> HIDE DEF line
<1>6. /\ seg'[t].exists /\ seg'[t].lines = Append(seg[t].lines, line) /\ seg'[t].tail = None
      /\ \A d \in Days : d # t => seg'[d] = seg[d]
  BY <1>4, <1>5 DEF Typed, Segment
<1>7. Typed'
  BY NextTyped DEF Next, Step
<1>8. Loose(line) /\ line \in Ids \cup {Junk}
  BY <1>3, <1>4 DEF Loose, JournalInv, LooseEnds
<1>9. LineAdded(line)
  BY <1>1, <1>5, <1>6, <1>7 DEF LineAdded, Typed
<1>10. FilesInv' /\ Grows
  BY <1>8, <1>9, LineKeepsFiles DEF JournalInv
<1>11. \A n \in Ids : n # line /\ (\A x \in DOMAIN written : written[x].n # n) =>
          \A x \in DOMAIN written' : written'[x].n # n
  BY <1>5, <1>8, OthersStayLoose
<1>12. \A d \in Days : Torn(d)' => d # t /\ Torn(d) /\ seg'[d].tail = seg[d].tail
  BY <1>6 DEF Torn
<1>13. \A n \in 1 .. Len(log) : n \in Ids /\ n # Junk
  BY FlagDerivationAssumption, SegmentTyped DEF Typed, Ids, Junk, SegIsTyped
<1>14. LooseEnds'
  <2>1. ASSUME NEW q \in Procs, Appending(q), q # p
        PROVE  /\ mine[q] \in 1 .. Len(log) /\ Day(log[mine[q]].ts) = Day(clock)
               /\ \A x \in DOMAIN written' : written'[x].n # mine[q]
               /\ \A r \in Procs : Appending(r) /\ mine[r] = mine[q] => r = q
               /\ \A d \in Days : Torn(d)' => seg'[d].tail # mine[q]
    <3>1. mine[q] # line
      BY <1>3, <1>4, <1>13, <2>1 DEF JournalInv, LooseEnds
    <3> QED BY <1>11, <1>12, <1>13, <2>1, <3>1 DEF JournalInv, LooseEnds
  <2>2. ASSUME NEW d \in Days, Torn(d)'
        PROVE  /\ seg'[d].tail \in 1 .. Len(log) /\ Day(log[seg'[d].tail].ts) = d
               /\ \A x \in DOMAIN written' : written'[x].n # seg'[d].tail
               /\ \A c \in Days : Torn(c)' /\ seg'[c].tail = seg'[d].tail => c = d
    <3>1. Torn(d) /\ seg'[d].tail = seg[d].tail /\ seg[d].tail # line
      BY <1>3, <1>4, <1>12, <1>13, <2>2 DEF JournalInv, LooseEnds
    <3> QED BY <1>11, <1>12, <1>13, <3>1 DEF JournalInv, LooseEnds
  <2> QED BY <1>1, <1>2, <2>1, <2>2 DEF LooseEnds, Day
<1> QED BY <1>10, <1>14 DEF JournalInv

LEMMA TornWriteKeepsJournal ==
  ASSUME Typed, WritersAreCurrent, JournalInv, NEW p \in Procs, TornWrite(p)
  PROVE  JournalInv' /\ Grows
<1> DEFINE t == Day(clock)
<1>1. /\ UNCHANGED <<clock, log, mine, written>> /\ pc[p] = "write" /\ target[p] = t
      /\ \A q \in Procs : pc'[q] = IF q = p THEN pc'[p] ELSE pc[q]
      /\ pc'[p] \in {"idle", "load"}
  BY DEF TornWrite, AfterAppend, Goto, Typed, WritersAreCurrent
<1>2. \A q \in Procs : Appending(q)' <=> Appending(q) /\ q # p
  BY <1>1 DEF Appending
<1>3. Appending(p)
  BY <1>1 DEF Appending
<1>4. /\ t \in Days /\ t \in Nat /\ mine[p] \in 1 .. Len(log)
      /\ \A d \in Days : d \in Nat
  BY <1>3, SegmentTyped DEF JournalInv, LooseEnds, SegIsTyped
<1>5. PICK rest \in {mine[p], Junk} :
        seg' = [seg EXCEPT ![t].exists = TRUE, ![t].tail = IF @ = None THEN rest ELSE Junk]
  BY <1>1 DEF TornWrite
<1>6. /\ seg'[t].exists /\ seg'[t].lines = seg[t].lines
      /\ seg'[t].tail = IF seg[t].tail = None THEN rest ELSE Junk
      /\ \A d \in Days : d # t => seg'[d] = seg[d]
  <2>1. seg[t] \in Segment
    BY <1>4 DEF Typed
  <2> QED BY <1>4, <1>5, <2>1 DEF Typed, Segment
<1> HIDE DEF t
<1>7. \A d \in Days : seg'[d].lines = seg[d].lines /\ (seg[d].exists => seg'[d].exists)
  BY <1>6
<1>8. \A x \in DOMAIN written : /\ DayOf(x)' = DayOf(x) /\ DayOf(x) \in Days
                                /\ DayOf(x) \in Nat /\ DayOf(x) <= t
  <2>1. \A x \in DOMAIN written : DayOf(x) \in Days /\ DayOf(x) \in Nat
    BY WrittenTyped DEF WrittenIsTyped
  <2>2. \A x \in DOMAIN written : written[x].at \in Nat /\ written[x].at <= clock /\ clock \in Nat
    BY WrittenTyped, SegmentTyped DEF JournalInv, FilesInv, WrittenOnce, WrittenIsTyped, SegIsTyped
  <2>3. \A x \in DOMAIN written : DayOf(x) <= t
    BY <2>2, DayMonotone DEF DayOf, t
  <2>4. \A x \in DOMAIN written : DayOf(x)' = DayOf(x)
    BY <1>1 DEF DayOf, Day
  <2> QED BY <2>1, <2>3, <2>4
<1>9. \A x \in DOMAIN written : Alive(x)' <=> Alive(x)
  <2>1. ASSUME NEW x \in DOMAIN written, DayOf(x) = t
        PROVE  Alive(x) /\ Alive(x)'
    BY <1>6, <1>8, <2>1 DEF JournalInv, FilesInv, OldestGoFirst, Alive, t
  <2>2. ASSUME NEW x \in DOMAIN written, DayOf(x) # t
        PROVE  Alive(x)' <=> Alive(x)
    BY <1>6, <1>8, <2>2 DEF Alive
  <2> QED BY <2>1, <2>2
<1>10. LinesAreWritten'
  BY <1>1, <1>7, <1>8 DEF JournalInv, FilesInv, LinesAreWritten
<1>11. WrittenAreLines'
  <2>1. ASSUME NEW x \in DOMAIN written', Alive(x)'
        PROVE  \E k \in DOMAIN seg'[DayOf(x)'].lines : seg'[DayOf(x)'].lines[k] = written'[x].n
    <3>1. x \in DOMAIN written /\ written'[x] = written[x] /\ DayOf(x)' = DayOf(x)
          /\ seg'[DayOf(x)].lines = seg[DayOf(x)].lines
      BY <1>1, <1>7, <1>8
    <3>2. Alive(x)
      BY <1>9, <2>1, <3>1
    <3> QED BY <3>1, <3>2 DEF JournalInv, FilesInv, WrittenAreLines
  <2> QED BY <2>1 DEF WrittenAreLines
<1>12. LinesInOrder'
  BY <1>1, <1>7 DEF JournalInv, FilesInv, LinesInOrder
<1>13. OldestGoFirst'
  <2>1. ASSUME NEW x \in DOMAIN written
        PROVE  /\ \A d \in Days : d < DayOf(x) /\ seg'[d].exists => Alive(x)
               /\ DayOf(x) = t => Alive(x)
    <3>1. \A d \in Days : d < DayOf(x) => d # t
      BY <1>4, <1>8
    <3>2. DayOf(x) = t => Alive(x)
      BY DEF JournalInv, FilesInv, OldestGoFirst, t
    <3> QED BY <1>6, <3>1, <3>2 DEF JournalInv, FilesInv, OldestGoFirst
  <2>2. t = Day(clock') /\ DOMAIN written' = DOMAIN written
    BY <1>1 DEF t
  <2> QED BY <1>8, <1>9, <2>1, <2>2 DEF OldestGoFirst, Day
<1>14. WrittenOnce'
  BY <1>1, <1>8 DEF JournalInv, FilesInv, WrittenOnce, Day
<1>15. GoneIsEmpty'
  BY <1>6 DEF JournalInv, FilesInv, GoneIsEmpty
<1>16. \A d \in Days : Torn(d)' => \/ d # t /\ Torn(d) /\ seg'[d].tail = seg[d].tail
                                   \/ d = t /\ ~Torn(d) /\ seg'[d].tail = mine[p]
  BY <1>6 DEF Torn
<1>17. LooseEnds'
  <2>1. ASSUME NEW q \in Procs, Appending(q), q # p
        PROVE  /\ mine[q] \in 1 .. Len(log) /\ Day(log[mine[q]].ts) = Day(clock)
               /\ \A x \in DOMAIN written : written[x].n # mine[q]
               /\ \A r \in Procs : Appending(r) /\ mine[r] = mine[q] => r = q
               /\ \A d \in Days : Torn(d)' => seg'[d].tail # mine[q]
    <3>1. mine[q] # mine[p]
      BY <1>3, <2>1 DEF JournalInv, LooseEnds
    <3> QED BY <1>16, <2>1, <3>1 DEF JournalInv, LooseEnds
  <2>2. ASSUME NEW d \in Days, Torn(d)'
        PROVE  /\ seg'[d].tail \in 1 .. Len(log) /\ Day(log[seg'[d].tail].ts) = d
               /\ \A x \in DOMAIN written : written[x].n # seg'[d].tail
               /\ \A c \in Days : Torn(c)' /\ seg'[c].tail = seg'[d].tail => c = d
    <3>1. CASE d = t
      <4>1. /\ seg'[d].tail = mine[p] /\ Day(log[mine[p]].ts) = t /\ mine[p] \in 1 .. Len(log)
            /\ \A x \in DOMAIN written : written[x].n # mine[p]
            /\ \A c \in Days : Torn(c) => seg[c].tail # mine[p]
        BY <1>3, <1>16, <2>2, <3>1 DEF JournalInv, LooseEnds, t
      <4>2. ASSUME NEW c \in Days, Torn(c)', seg'[c].tail = mine[p], c # d
            PROVE  FALSE
        <5>1. Torn(c) /\ seg[c].tail = mine[p]
          BY <1>16, <3>1, <4>2
        <5> QED BY <4>1, <5>1
      <4> QED BY <3>1, <4>1, <4>2 DEF t
    <3>2. CASE d # t
      <4>1. Torn(d) /\ seg'[d].tail = seg[d].tail /\ seg[d].tail # mine[p]
        BY <1>3, <1>16, <2>2, <3>2 DEF JournalInv, LooseEnds
      <4>2. \A c \in Days : Torn(c)' /\ seg'[c].tail = seg'[d].tail => Torn(c) /\ seg[c].tail = seg[d].tail
        BY <1>16, <4>1
      <4> QED BY <4>1, <4>2 DEF JournalInv, LooseEnds
    <3> QED BY <3>1, <3>2
  <2> QED BY <1>1, <1>2, <2>1, <2>2 DEF LooseEnds, Day
<1>18. Grows
  <2>1. ASSUME NEW d \in Days
        PROVE  /\ seg'[d].exists =>
                    IF seg[d].exists
                    THEN /\ Len(seg[d].lines) <= Len(seg'[d].lines)
                         /\ \A k \in DOMAIN seg[d].lines : seg'[d].lines[k] = seg[d].lines[k]
                         /\ d # t => seg'[d] = seg[d]
                    ELSE d = t
               /\ ~seg'[d].exists => seg'[d] = seg[d] \/ d < t
    <3>1. Len(seg[d].lines) \in Nat
      BY SegmentTyped DEF SegIsTyped
    <3> QED BY <1>6, <1>7, <3>1
  <2> QED BY <1>1, <2>1, WrittenTyped, SegmentTyped DEF Grows, t, WrittenIsTyped, SegIsTyped
<1> QED BY <1>10, <1>11, <1>12, <1>13, <1>14, <1>15, <1>17, <1>18 DEF JournalInv, FilesInv

(* The caps remove segments of earlier days, and all of those before the last *)
(* they remove.                                                               *)
LEMMA CleanupKeepsJournal ==
  ASSUME Typed, WritersAreCurrent, JournalInv, NEW p \in Procs, Cleanup(p)
  PROVE  JournalInv' /\ Grows
<1> DEFINE t == Day(clock)
<1>1. /\ UNCHANGED <<clock, log, mine, written>>
      /\ \A q \in Procs : pc'[q] \in {"repair", "write"} => pc[q] \in {"repair", "write"}
  BY DEF Cleanup, AfterAppend, Goto, Typed
<1>2. /\ t \in Days /\ t \in Nat /\ \A d \in Days : d \in Nat
  BY SegmentTyped DEF SegIsTyped
<1>3. \A d \in Days : seg'[d] = IF d \in Doomed THEN NoSegment ELSE seg[d]
  BY DEF Cleanup
<1>4. \A d \in Doomed : d \in Days /\ seg[d].exists /\ d < t
  <2>1. ASSUME NEW d \in Doomed PROVE d \in Days /\ seg[d].exists /\ d < t
    <3>1. d \in Existing /\ ~Newest(d)
      BY DEF Doomed
    <3>2. PICK e \in Existing : ~(e <= d)
      BY <3>1 DEF Newest
    <3>3. d \in Days /\ e \in Days /\ seg[d].exists /\ seg[e].exists
      BY <3>1, <3>2 DEF Existing
    <3>4. e <= t
      BY <3>3 DEF WritersAreCurrent
    <3> HIDE DEF t
    <3> QED BY <1>2, <3>2, <3>3, <3>4
  <2> QED BY <2>1
<1>5. \A d \in Doomed, e \in Existing : e < d => e \in Doomed
  <2>1. ASSUME NEW d \in Doomed, NEW e \in Existing, e < d
        PROVE  e \in Doomed
    <3>1. d \in Existing /\ d \in Nat /\ e \in Nat /\ \A c \in Existing : c \in Nat
      BY <1>2 DEF Doomed, Existing
    <3>2. ~Newest(e)
      BY <2>1, <3>1 DEF Newest
    <3>3. \A c \in Existing : c <= e => c <= d
      BY <2>1, <3>1
    <3> QED BY <3>2, <3>3 DEF Doomed
  <2> QED BY <2>1
<1> HIDE DEF t
<1>6. /\ ~NoSegment.exists /\ NoSegment.lines = <<>> /\ NoSegment.tail = None
      /\ DOMAIN NoSegment.lines = {}
  BY DEF NoSegment
<1>7. \A d \in Days : \/ seg'[d] = seg[d]
                      \/ ~seg'[d].exists /\ DOMAIN seg'[d].lines = {} /\ seg'[d].tail = None
                         /\ seg'[d] = NoSegment /\ d < t
  BY <1>3, <1>4, <1>6
<1>8. \A x \in DOMAIN written : DayOf(x)' = DayOf(x) /\ DayOf(x) \in Days /\ DayOf(x) \in Nat
  <2>1. \A x \in DOMAIN written : DayOf(x) \in Days /\ DayOf(x) \in Nat
    BY WrittenTyped DEF WrittenIsTyped
  <2>2. \A x \in DOMAIN written : DayOf(x)' = DayOf(x)
    BY <1>1 DEF DayOf, Day
  <2> QED BY <2>1, <2>2
<1>9. LinesAreWritten'
  BY <1>1, <1>7, <1>8 DEF JournalInv, FilesInv, LinesAreWritten
<1>10. WrittenAreLines'
  <2>1. ASSUME NEW x \in DOMAIN written', Alive(x)'
        PROVE  \E k \in DOMAIN seg'[DayOf(x)'].lines : seg'[DayOf(x)'].lines[k] = written'[x].n
    <3>1. x \in DOMAIN written /\ written'[x] = written[x] /\ DayOf(x)' = DayOf(x)
          /\ seg'[DayOf(x)].exists /\ DayOf(x) \in Days
      BY <1>1, <1>8, <2>1 DEF Alive
    <3>2. seg'[DayOf(x)] = seg[DayOf(x)]
      BY <1>7, <3>1
    <3> QED BY <3>1, <3>2 DEF JournalInv, FilesInv, WrittenAreLines, Alive
  <2> QED BY <2>1 DEF WrittenAreLines
<1>11. LinesInOrder'
  BY <1>1, <1>7 DEF JournalInv, FilesInv, LinesInOrder
<1>12. OldestGoFirst'
  <2>1. ASSUME NEW x \in DOMAIN written, NEW d \in Days, d < DayOf(x), seg'[d].exists
        PROVE  Alive(x)'
    <3>1. seg[d].exists /\ d \notin Doomed /\ d \in Existing
      BY <1>3, <1>6, <2>1 DEF Existing
    <3>2. DayOf(x) \notin Doomed
      BY <1>5, <2>1, <3>1
    <3>3. seg[DayOf(x)].exists
      BY <2>1, <3>1 DEF JournalInv, FilesInv, OldestGoFirst, Alive
    <3> QED BY <1>3, <1>8, <3>2, <3>3 DEF Alive
  <2>2. ASSUME NEW x \in DOMAIN written, DayOf(x) = t
        PROVE  Alive(x)'
    <3>1. t \notin Doomed
      BY <1>2, <1>4
    <3>2. seg[t].exists
      BY <2>2 DEF JournalInv, FilesInv, OldestGoFirst, Alive, t
    <3> QED BY <1>2, <1>3, <1>8, <2>2, <3>1, <3>2 DEF Alive
  <2>3. t = Day(clock') /\ DOMAIN written' = DOMAIN written
    BY <1>1 DEF t
  <2> QED BY <1>8, <2>1, <2>2, <2>3 DEF OldestGoFirst, Day
<1>13. WrittenOnce'
  BY <1>1, <1>8 DEF JournalInv, FilesInv, WrittenOnce, Day
<1>14. GoneIsEmpty'
  BY <1>7 DEF JournalInv, FilesInv, GoneIsEmpty
<1>15. LooseEnds'
  <2>1. \A q \in Procs : Appending(q)' => Appending(q)
    BY <1>1 DEF Appending
  <2>2. \A d \in Days : Torn(d)' => Torn(d) /\ seg'[d].tail = seg[d].tail
    BY <1>7 DEF Torn
  <2> QED BY <1>1, <2>1, <2>2 DEF JournalInv, LooseEnds, Day
<1>16. Grows
  <2>1. ASSUME NEW d \in Days
        PROVE  /\ seg'[d].exists =>
                    IF seg[d].exists
                    THEN /\ Len(seg[d].lines) <= Len(seg'[d].lines)
                         /\ \A k \in DOMAIN seg[d].lines : seg'[d].lines[k] = seg[d].lines[k]
                         /\ d # t => seg'[d] = seg[d]
                    ELSE d = t
               /\ ~seg'[d].exists => seg'[d] = seg[d] \/ d < t
    <3>1. Len(seg[d].lines) \in Nat
      BY SegmentTyped DEF SegIsTyped
    <3> QED BY <1>7, <3>1
  <2> QED BY <1>1, <2>1, WrittenTyped, SegmentTyped DEF Grows, t, WrittenIsTyped, SegIsTyped
<1> QED BY <1>9, <1>10, <1>11, <1>12, <1>13, <1>14, <1>15, <1>16 DEF JournalInv, FilesInv

(* What a command may do, whatever command it is.                             *)
Acts(p) ==
    \/ \E k \in Kinds, s \in Sessions, f \in Families \cup {None} : Begin(p, k, s, f)
    \/ Pass(p) \/ Step(p) \/ TornWrite(p) \/ Fail(p)

LEMMA JournalKept ==
  ASSUME Typed, WritersAreCurrent, JournalInv, NEW p \in Procs, Acts(p)
  PROVE  JournalInv' /\ Grows
<1>1. CASE \E k \in Kinds, s \in Sessions, f \in Families \cup {None} : Begin(p, k, s, f)
  BY <1>1, BeginKeepsJournal
<1>2. CASE Repair(p) \/ Write(p) \/ TornWrite(p) \/ Cleanup(p)
  BY <1>2, RepairKeepsJournal, WriteKeepsJournal, TornWriteKeepsJournal, CleanupKeepsJournal
<1>3. CASE \/ Pass(p) \/ Load(p) \/ List(p) \/ Read(p) \/ ReadDone(p)
           \/ Decide(p) \/ Derive(p) \/ Store(p) \/ Fail(p)
  <2>1. UNCHANGED <<clock, log, written, seg, mine>>
    BY <1>3 DEF Pass, Load, List, Read, ReadDone, Decide, Derive, Store, Fail, journal
  <2>2. \A q \in Procs : pc'[q] \in {"repair", "write"} => pc[q] \in {"repair", "write"}
    BY <1>3 DEF Pass, Load, List, Read, ReadDone, Decide, Derive, Store, Fail, Goto, Typed
  <2> QED BY <2>1, <2>2, QuietKeepsJournal
<1> QED BY <1>1, <1>2, <1>3 DEF Acts, Step

LEMMA InitJournal == Init => JournalInv
<1> SUFFICES ASSUME Init PROVE JournalInv
  OBVIOUS
<1>1. DOMAIN written = {} /\ \A d \in Days : seg[d] = NoSegment
  BY DEF Init
<1>2. \A d \in Days : ~seg[d].exists /\ DOMAIN seg[d].lines = {} /\ ~Torn(d)
  BY <1>1 DEF NoSegment, Torn
<1>3. \A q \in Procs : ~Appending(q)
  BY DEF Init, Appending
<1> QED BY <1>1, <1>2, <1>3 DEF JournalInv, FilesInv, LooseEnds, LinesAreWritten, WrittenAreLines,
        LinesInOrder, OldestGoFirst, WrittenOnce, GoneIsEmpty
-----------------------------------------------------------------------------
(* Offsets *)

(* A written entry has its line on its day and nowhere else, and an offset is *)
(* past it or not by the place of that line.                                  *)
LinePlaces ==
    \A x \in DOMAIN written :
      /\ \A d \in Days : \A k \in DOMAIN seg[d].lines :
            seg[d].lines[k] = written[x].n => DayOf(x) = d
      /\ \A k \in DOMAIN seg[DayOf(x)].lines : seg[DayOf(x)].lines[k] = written[x].n =>
            \A o \in Offset : InFront(seg, o, written[x].n) <=>
                o.seg # None /\ (DayOf(x) < o.seg \/ (DayOf(x) = o.seg /\ k <= o.line))

LEMMA LinesHavePlaces == Typed /\ FilesInv => LinePlaces
<1> SUFFICES ASSUME Typed, FilesInv, NEW x \in DOMAIN written
             PROVE  /\ \A d \in Days : \A k \in DOMAIN seg[d].lines :
                          seg[d].lines[k] = written[x].n => DayOf(x) = d
                    /\ \A k \in DOMAIN seg[DayOf(x)].lines : seg[DayOf(x)].lines[k] = written[x].n =>
                          \A o \in Offset : InFront(seg, o, written[x].n) <=>
                              o.seg # None /\ (DayOf(x) < o.seg \/ (DayOf(x) = o.seg /\ k <= o.line))
  BY DEF LinePlaces
<1>1. DayOf(x) \in Days /\ written[x].n # Junk
  BY WrittenTyped DEF WrittenIsTyped
<1>2. ASSUME NEW d \in Days, NEW k \in DOMAIN seg[d].lines, seg[d].lines[k] = written[x].n
      PROVE  DayOf(x) = d
  <2>1. PICK y \in DOMAIN written : written[y].n = seg[d].lines[k] /\ DayOf(y) = d
    BY <1>1, <1>2 DEF FilesInv, LinesAreWritten
  <2>2. y = x
    BY <1>2, <2>1 DEF FilesInv, WrittenOnce
  <2> QED BY <2>1, <2>2
<1>3. ASSUME NEW k \in DOMAIN seg[DayOf(x)].lines, seg[DayOf(x)].lines[k] = written[x].n,
             NEW o \in Offset
      PROVE  InFront(seg, o, written[x].n) <=>
                o.seg # None /\ (DayOf(x) < o.seg \/ (DayOf(x) = o.seg /\ k <= o.line))
  <2>1. ASSUME NEW l \in DOMAIN seg[DayOf(x)].lines, seg[DayOf(x)].lines[l] = written[x].n
        PROVE  l = k
    <3>1. l \in Nat /\ k \in Nat /\ x \in Nat
      BY <1>1, SegmentTyped, WrittenTyped DEF WrittenIsTyped, SegIsTyped
    <3>2. ~(l < k) /\ ~(k < l)
      BY <1>1, <1>3, <2>1, <3>1 DEF FilesInv, LinesInOrder
    <3> QED BY <3>1, <3>2
  <2>2. ASSUME InFront(seg, o, written[x].n)
        PROVE  o.seg # None /\ (DayOf(x) < o.seg \/ (DayOf(x) = o.seg /\ k <= o.line))
    <3>1. PICK d \in Days : \E l \in DOMAIN seg[d].lines :
             seg[d].lines[l] = written[x].n /\ (d < o.seg \/ (d = o.seg /\ l <= o.line))
      BY <2>2 DEF InFront
    <3>2. PICK l \in DOMAIN seg[d].lines :
             seg[d].lines[l] = written[x].n /\ (d < o.seg \/ (d = o.seg /\ l <= o.line))
      BY <3>1
    <3>3. DayOf(x) = d
      BY <1>2, <3>2
    <3>4. l = k
      BY <2>1, <3>2, <3>3
    <3> QED BY <2>2, <3>2, <3>3, <3>4 DEF InFront
  <2>3. ASSUME o.seg # None, DayOf(x) < o.seg \/ (DayOf(x) = o.seg /\ k <= o.line)
        PROVE  InFront(seg, o, written[x].n)
    BY <1>1, <1>3, <2>3 DEF InFront
  <2> QED BY <2>2, <2>3
<1> QED BY <1>2, <1>3

(* A step of a command moves no line past a settled offset: what it adds to   *)
(* the journal is behind, and the rest stays where it was.                    *)
LEMMA InFrontKept ==
  ASSUME Typed, Typed', FilesInv, FilesInv', Grows, NEW x \in DOMAIN written', Alive(x)'
  PROVE  /\ x \in DOMAIN written =>
               /\ Alive(x) /\ written'[x] = written[x] /\ DayOf(x)' = DayOf(x)
               /\ \A o \in Offset : Settled(o) =>
                     (InFront(seg', o, written'[x].n) <=> InFront(seg, o, written[x].n))
         /\ x \notin DOMAIN written =>
               /\ written'[x].at = clock /\ DayOf(x)' = Day(clock)
               /\ \A o \in Offset : Settled(o) => ~InFront(seg', o, written'[x].n)
<1>1. /\ Day(clock) \in Days /\ Day(clock) \in Nat
      /\ \A d \in Days : /\ d \in Nat
                          /\ DOMAIN seg[d].lines = 1 .. Len(seg[d].lines)
                          /\ Len(seg[d].lines) \in Nat
  BY SegmentTyped DEF SegIsTyped
<1>2. WrittenIsTyped /\ WrittenIsTyped'
  <2>1. (Typed => WrittenIsTyped)'
    BY WrittenTyped, PTL
  <2> QED BY <2>1, WrittenTyped DEF WrittenIsTyped
<1>3. LinePlaces /\ LinePlaces'
  <2>1. (Typed /\ FilesInv => LinePlaces)'
    BY LinesHavePlaces, PTL
  <2> QED BY <2>1, LinesHavePlaces
<1>4. PICK k \in DOMAIN seg'[DayOf(x)'].lines : seg'[DayOf(x)'].lines[k] = written'[x].n
  BY DEF FilesInv, WrittenAreLines
<1>5. ASSUME x \in DOMAIN written
      PROVE  /\ Alive(x) /\ written'[x] = written[x] /\ DayOf(x)' = DayOf(x)
             /\ \A o \in Offset : Settled(o) =>
                   (InFront(seg', o, written'[x].n) <=> InFront(seg, o, written[x].n))
  <2>1. written'[x] = written[x] /\ DayOf(x)' = DayOf(x) /\ DayOf(x) \in Days
    BY <1>5, WrittenTyped DEF Grows, DayOf, Day, WrittenIsTyped
  <2>2. Alive(x)
    <3>1. seg'[DayOf(x)].exists
      BY <2>1 DEF Alive
    <3>2. seg[DayOf(x)].exists \/ DayOf(x) = Day(clock)
      BY <2>1, <3>1 DEF Grows
    <3> QED BY <1>5, <3>2 DEF Alive, FilesInv, OldestGoFirst
  <2>3. PICK l \in DOMAIN seg[DayOf(x)].lines : seg[DayOf(x)].lines[l] = written[x].n
    BY <1>5, <2>2 DEF FilesInv, WrittenAreLines
  <2>4. l \in DOMAIN seg'[DayOf(x)].lines /\ seg'[DayOf(x)].lines[l] = written[x].n
    <3>1. /\ seg'[DayOf(x)].exists /\ seg[DayOf(x)].exists
          /\ Len(seg[DayOf(x)].lines) <= Len(seg'[DayOf(x)].lines)
          /\ seg'[DayOf(x)].lines[l] = seg[DayOf(x)].lines[l]
      BY <2>1, <2>2, <2>3 DEF Alive, Grows
    <3>2. seg'[DayOf(x)].lines \in Seq(Ids \cup {Junk})
      BY <2>1 DEF Typed, Segment
    <3>3. DOMAIN seg'[DayOf(x)].lines = 1 .. Len(seg'[DayOf(x)].lines)
          /\ Len(seg'[DayOf(x)].lines) \in Nat
      BY <3>2
    <3> QED BY <1>1, <2>1, <2>3, <3>1, <3>3
  <2>5. ASSUME NEW o \in Offset
        PROVE  InFront(seg', o, written'[x].n) <=> InFront(seg, o, written[x].n)
    <3>1. InFront(seg, o, written[x].n) <=>
            o.seg # None /\ (DayOf(x) < o.seg \/ (DayOf(x) = o.seg /\ l <= o.line))
      BY <1>5, <2>3, LinesHavePlaces DEF LinePlaces
    <3>2. InFront(seg', o, written'[x].n) <=>
            o.seg # None /\ (DayOf(x) < o.seg \/ (DayOf(x) = o.seg /\ l <= o.line))
      BY <1>3, <2>1, <2>4 DEF LinePlaces
    <3> QED BY <3>1, <3>2
  <2> QED BY <2>1, <2>2, <2>5
<1>6. ASSUME x \notin DOMAIN written
      PROVE  /\ written'[x].at = clock /\ DayOf(x)' = Day(clock)
             /\ \A o \in Offset : Settled(o) => ~InFront(seg', o, written'[x].n)
  <2>1. written'[x].at = clock /\ DayOf(x)' = Day(clock)
    BY <1>6 DEF Grows, DayOf, Day
  <2>2. ASSUME NEW o \in Offset, Settled(o), InFront(seg', o, written'[x].n)
        PROVE  FALSE
    <3> DEFINE t == Day(clock)
    <3>1. o.seg # None /\ (t < o.seg \/ (t = o.seg /\ k <= o.line))
      BY <1>3, <1>4, <2>1, <2>2 DEF LinePlaces
    <3>2. o.seg \in Days /\ o.seg \in Nat /\ o.line \in Nat
      BY <1>1, <3>1 DEF Offset
    <3>3. o.seg <= t /\ IF seg[o.seg].exists THEN o.line <= Len(seg[o.seg].lines) ELSE o.seg < t
      BY <2>2, <3>1 DEF Settled, Within
    <3> HIDE DEF t
    <3>4. t = o.seg /\ k <= o.line
      BY <1>1, <3>1, <3>2, <3>3 DEF t
    <3>5. seg[t].exists /\ o.line <= Len(seg[t].lines)
      BY <1>1, <3>2, <3>3, <3>4 DEF t
    <3>6. k \in DOMAIN seg[t].lines
      <4>1. k \in 1 .. Len(seg'[t].lines) /\ Len(seg'[t].lines) \in Nat
        <5>1. seg'[t].lines \in Seq(Ids \cup {Junk})
          BY <1>1 DEF Typed, Segment, t
        <5>2. DOMAIN seg'[t].lines = 1 .. Len(seg'[t].lines) /\ Len(seg'[t].lines) \in Nat
          BY <5>1
        <5> QED BY <1>4, <2>1, <5>2 DEF t
      <4>2. DOMAIN seg[t].lines = 1 .. Len(seg[t].lines) /\ Len(seg[t].lines) \in Nat
        BY <1>1 DEF t
      <4> QED BY <3>2, <3>4, <3>5, <4>1, <4>2
    <3>7. seg[t].lines[k] = written'[x].n
      <4>1. seg'[t].exists
        BY <2>1 DEF Alive, t
      <4>2. seg'[t].lines[k] = seg[t].lines[k]
        BY <1>1, <3>5, <3>6, <4>1 DEF Grows, t
      <4> QED BY <1>4, <2>1, <4>2 DEF t
    <3>8. PICK z \in DOMAIN written : written[z].n = seg[t].lines[k]
      <4>1. written'[x].n # Junk
        BY <1>2 DEF WrittenIsTyped
      <4> QED BY <1>1, <3>6, <3>7, <4>1 DEF FilesInv, LinesAreWritten, t
    <3>9. z \in DOMAIN written' /\ written'[z] = written[z]
      BY <1>2, <3>8, WrittenTyped DEF Grows, WrittenIsTyped
    <3>10. z = x
      BY <3>7, <3>8, <3>9 DEF FilesInv, WrittenOnce
    <3> QED BY <1>6, <3>8, <3>10
  <2> QED BY <2>1, <2>2
<1> QED BY <1>5, <1>6
-----------------------------------------------------------------------------
(* The batch of a pass *)

LEMMA EmptyBatch ==
  ASSUME NEW p \in Procs, batch'[p] = <<>>, left'[p] = {}, todo'[p] = {}, next'[p] = from'[p],
         began'[p] <= clock', pc'[p] \in PCs \ Reading, pc'[p] # "list" => from'[p] = Start
  PROVE  BatchInv(p)'
<1>1. DOMAIN batch'[p] = {}
  OBVIOUS
<1>2. \A x : ~InBatch(p, x)'
  BY <1>1 DEF InBatch
<1> QED
  BY <1>1, <1>2 DEF BatchInv, BatchIsWritten, BatchInOrder, BatchIsDense, BatchReachesEnd,
     BatchBehindOffset, LeftBehindOffset, NothingElse, NextPassesBatch, PassShape, BeganBefore,
     Reading, PCs

(* A pass that does not read goes from stage to stage with what it has.       *)
LEMMA SameBatch ==
  ASSUME NEW p \in Procs, BatchInv(p), UNCHANGED <<clock, written, seg>>,
         batch'[p] = batch[p], left'[p] = left[p], next'[p] = next[p], from'[p] = from[p],
         began'[p] = began[p], pc[p] \in Reading, pc'[p] \in Reading,
         left[p] = {} \/ pc'[p] = "read", todo'[p] = {} \/ pc'[p] = "derive",
         pc'[p] \in {"read", "decide"} => pc[p] \in {"read", "decide"}
  PROVE  BatchInv(p)'
<1>1. BatchIsWritten(p)' /\ BatchInOrder(p)' /\ BatchIsDense(p)' /\ BatchReachesEnd(p)'
  BY DEF BatchInv, BatchIsWritten, BatchInOrder, BatchIsDense, BatchReachesEnd, InBatch, DayOf,
         Alive, Day
<1>2. BatchBehindOffset(p)' /\ LeftBehindOffset(p)' /\ NothingElse(p)' /\ NextPassesBatch(p)'
  BY DEF BatchInv, BatchBehindOffset, LeftBehindOffset, NothingElse, NextPassesBatch, InBatch,
         DayOf, Alive, Day
<1>3. PassShape(p)' /\ BeganBefore(p)'
  BY DEF BatchInv, PassShape, BeganBefore, Reading
<1> QED BY <1>1, <1>2, <1>3 DEF BatchInv

(* What other commands do to the journal leaves a pass what it has.           *)
LEMMA OthersKeepBatch ==
  ASSUME Typed, Typed', FilesInv, FilesInv', Grows, NEW p \in Procs, BatchInv(p),
         Settled(from[p]), Settled(next[p]),
         batch'[p] = batch[p], left'[p] = left[p], todo'[p] = todo[p], next'[p] = next[p],
         from'[p] = from[p], began'[p] = began[p], pc'[p] = pc[p]
  PROVE  BatchInv(p)'
<1>1. /\ clock' = clock /\ from[p] \in Offset /\ next[p] \in Offset
      /\ clock \in Nat /\ began[p] \in Nat /\ clock >= began[p]
  BY DEF Grows, Typed, BatchInv, BeganBefore
<1>2. WrittenIsTyped /\ WrittenIsTyped'
  <2>1. (Typed => WrittenIsTyped)'
    BY WrittenTyped, PTL
  <2> QED BY <2>1, WrittenTyped
<1>3. \A x \in DOMAIN written :
        /\ x \in DOMAIN written' /\ written'[x] = written[x] /\ DayOf(x)' = DayOf(x)
        /\ InBatch(p, x)' <=> InBatch(p, x)
  <2>1. \A x \in DOMAIN written :
          x \in DOMAIN written' /\ written'[x] = written[x] /\ DayOf(x)' = DayOf(x)
    BY <1>2 DEF WrittenIsTyped, Grows, DayOf, Day
  <2> QED BY <2>1 DEF InBatch
<1>4. \A x \in DOMAIN written' : InBatch(p, x)' => x \in DOMAIN written
  <2>1. ASSUME NEW x \in DOMAIN written', InBatch(p, x)'
        PROVE  x \in DOMAIN written
    <3>1. PICK k \in DOMAIN batch[p] : batch[p][k] = written'[x].n
      BY <2>1 DEF InBatch
    <3>2. written'[x].n # Junk
      BY <1>2 DEF WrittenIsTyped
    <3>3. PICK z \in DOMAIN written : written[z].n = batch[p][k]
      BY <3>1, <3>2 DEF BatchInv, BatchIsWritten
    <3>4. z = x
      BY <1>3, <3>1, <3>3 DEF FilesInv, WrittenOnce
    <3> QED BY <3>3, <3>4
  <2> QED BY <2>1
<1>5. \A x \in DOMAIN written' : Alive(x)' =>
        /\ x \in DOMAIN written =>
              /\ Alive(x)
              /\ InFront(seg', from[p], written'[x].n) <=> InFront(seg, from[p], written[x].n)
              /\ InFront(seg', next[p], written'[x].n) <=> InFront(seg, next[p], written[x].n)
        /\ x \notin DOMAIN written =>
              written'[x].at = clock /\ ~InFront(seg', next[p], written'[x].n)
  BY <1>1, InFrontKept
<1>6. BatchIsWritten(p)'
  BY <1>3 DEF BatchInv, BatchIsWritten
<1>7. BatchInOrder(p)'
  <2>1. ASSUME NEW k \in DOMAIN batch[p], NEW l \in DOMAIN batch[p],
               NEW x \in DOMAIN written', NEW y \in DOMAIN written',
               k < l, written'[x].n = batch[p][k], written'[y].n = batch[p][l]
        PROVE  x < y
    <3>1. x \in DOMAIN written /\ y \in DOMAIN written
      BY <1>4, <2>1 DEF InBatch
    <3> QED BY <1>3, <2>1, <3>1 DEF BatchInv, BatchInOrder
  <2> QED BY <2>1 DEF BatchInOrder
<1>8. BatchIsDense(p)'
  <2>1. ASSUME NEW x \in DOMAIN written', NEW y \in DOMAIN written', NEW z \in DOMAIN written',
               InBatch(p, z)', InBatch(p, y)', z < x, x < y
        PROVE  \/ InBatch(p, x)'
               \/ DayOf(z)' < DayOf(x)' /\ DayOf(x)' < DayOf(y)' /\ ~Alive(z)'
    <3>1. y \in DOMAIN written /\ z \in DOMAIN written
      BY <1>4, <2>1
    <3>2. x \in DOMAIN written
      BY <1>2, <2>1, <3>1 DEF WrittenIsTyped
    <3>3. InBatch(p, x) \/ (DayOf(z) < DayOf(x) /\ DayOf(x) < DayOf(y) /\ ~Alive(z))
      BY <1>3, <2>1, <3>1, <3>2 DEF BatchInv, BatchIsDense
    <3> QED BY <1>3, <1>5, <2>1, <3>1, <3>2, <3>3
  <2> QED BY <2>1 DEF BatchIsDense
<1>9. BatchReachesEnd(p)'
  <2>1. ASSUME NEW x \in DOMAIN written', NEW z \in DOMAIN written',
               InBatch(p, z)', z < x, DayOf(x)' = DayOf(z)'
        PROVE  InBatch(p, x)' \/ written'[x].at >= began[p]
    <3>1. z \in DOMAIN written /\ InBatch(p, z)
      BY <1>3, <1>4, <2>1
    <3>2. CASE x \in DOMAIN written
      <4>1. InBatch(p, x) \/ written[x].at >= began[p]
        BY <1>3, <2>1, <3>1, <3>2 DEF BatchInv, BatchReachesEnd
      <4> QED BY <1>3, <3>2, <4>1
    <3>3. CASE x \notin DOMAIN written
      BY <1>1, <2>1, <3>3 DEF Grows
    <3> QED BY <3>2, <3>3
  <2> QED BY <1>1, <2>1 DEF BatchReachesEnd
<1>10. BatchBehindOffset(p)'
  <2>1. ASSUME NEW z \in DOMAIN written', InBatch(p, z)'
        PROVE  /\ \A d \in left[p] : DayOf(z)' < d
               /\ from[p].seg # None => from[p].seg <= DayOf(z)'
               /\ Alive(z)' => ~InFront(seg', from[p], written'[z].n)
    <3>1. z \in DOMAIN written /\ InBatch(p, z) /\ DayOf(z)' = DayOf(z)
      BY <1>3, <1>4, <2>1
    <3>2. /\ \A d \in left[p] : DayOf(z) < d
          /\ from[p].seg # None => from[p].seg <= DayOf(z)
          /\ Alive(z) => ~InFront(seg, from[p], written[z].n)
      BY <3>1 DEF BatchInv, BatchBehindOffset
    <3> QED BY <1>5, <3>1, <3>2
  <2> QED BY <2>1 DEF BatchBehindOffset
<1>11. LeftBehindOffset(p)'
  BY <1>1 DEF BatchInv, LeftBehindOffset, Day
<1>12. NothingElse(p)'
  <2>1. ASSUME pc[p] \in Reading, NEW x \in DOMAIN written', Alive(x)'
        PROVE  \/ InFront(seg', from[p], written'[x].n) \/ InBatch(p, x)'
               \/ DayOf(x)' \in left[p] \/ written'[x].at >= began[p]
    <3>1. CASE x \in DOMAIN written
      <4>1. \/ InFront(seg, from[p], written[x].n) \/ InBatch(p, x)
            \/ DayOf(x) \in left[p] \/ written[x].at >= began[p]
        BY <1>5, <2>1, <3>1 DEF BatchInv, NothingElse
      <4> QED BY <1>3, <1>5, <2>1, <3>1, <4>1
    <3>2. CASE x \notin DOMAIN written
      BY <1>1, <1>5, <2>1, <3>2
    <3> QED BY <3>1, <3>2
  <2> QED BY <1>1, <2>1 DEF NothingElse, Reading
<1>13. NextPassesBatch(p)'
  <2>1. ASSUME NEW x \in DOMAIN written', Alive(x)', InFront(seg', next[p], written'[x].n)
        PROVE  InFront(seg', from[p], written'[x].n) \/ InBatch(p, x)'
    <3>1. x \in DOMAIN written /\ Alive(x) /\ InFront(seg, next[p], written[x].n)
      BY <1>5, <2>1
    <3>2. InFront(seg, from[p], written[x].n) \/ InBatch(p, x)
      BY <3>1 DEF BatchInv, NextPassesBatch
    <3> QED BY <1>3, <1>5, <2>1, <3>1, <3>2
  <2> QED BY <2>1 DEF NextPassesBatch
<1>14. PassShape(p)' /\ BeganBefore(p)'
  BY <1>1 DEF BatchInv, PassShape, BeganBefore, Reading
<1> QED BY <1>6, <1>7, <1>8, <1>9, <1>10, <1>11, <1>12, <1>13, <1>14 DEF BatchInv

LEMMA ListKeepsBatch ==
  ASSUME Typed, WritersAreCurrent, FilesInv, NEW p \in Procs, BatchInv(p), List(p)
  PROVE  BatchInv(p)'
<1>1. /\ UNCHANGED <<clock, log, written, seg>> /\ pc[p] = "list" /\ pc'[p] = "read"
      /\ from'[p] = from[p] /\ next'[p] = next[p] /\ batch'[p] = batch[p] /\ todo'[p] = todo[p]
      /\ left'[p] = {d \in Existing : from[p].seg = None \/ d >= from[p].seg}
      /\ began'[p] = clock
  BY DEF List, Goto, Typed, journal
<1>2. batch[p] = <<>> /\ todo[p] = {} /\ next[p] = from[p]
  BY <1>1 DEF BatchInv, PassShape, Reading
<1>3. DOMAIN batch'[p] = {} /\ \A x : ~InBatch(p, x)'
  BY <1>1, <1>2 DEF InBatch
<1>4. \A d \in left'[p] : d \in Days /\ seg[d].exists /\ d <= Day(clock) /\ d \in Nat
  BY <1>1, SegmentTyped DEF Existing, WritersAreCurrent, SegIsTyped
<1>5. LeftBehindOffset(p)'
  <2>1. \A d \in left'[p] : from[p].seg # None => from[p].seg <= d
    <3>1. from[p].seg # None => from[p].seg \in Nat
      BY SegmentTyped DEF Typed, Offset, SegIsTyped
    <3> QED BY <1>1, <1>4, <3>1
  <2> QED BY <1>1, <1>4, <2>1 DEF LeftBehindOffset, Day
<1>6. ASSUME NEW x \in DOMAIN written, Alive(x)
      PROVE  InFront(seg, from[p], written[x].n) \/ DayOf(x) \in left'[p]
  <2>1. DayOf(x) \in Days /\ DayOf(x) \in Nat /\ DayOf(x) \in Existing
    BY <1>6, WrittenTyped DEF WrittenIsTyped, Existing, Alive
  <2>2. from[p] \in Offset /\ (from[p].seg # None => from[p].seg \in Nat)
    BY SegmentTyped DEF Typed, Offset, SegIsTyped
  <2>3. PICK k \in DOMAIN seg[DayOf(x)].lines : seg[DayOf(x)].lines[k] = written[x].n
    BY <1>6 DEF FilesInv, WrittenAreLines
  <2>4. InFront(seg, from[p], written[x].n) <=>
           from[p].seg # None /\ (DayOf(x) < from[p].seg \/ (DayOf(x) = from[p].seg /\ k <= from[p].line))
    BY <2>2, <2>3, LinesHavePlaces DEF LinePlaces
  <2> QED BY <1>1, <2>1, <2>2, <2>4
<1>7. NothingElse(p)'
  <2>1. \A x \in DOMAIN written : Alive(x)' = Alive(x) /\ DayOf(x)' = DayOf(x)
    BY <1>1 DEF Alive, DayOf, Day
  <2> QED BY <1>1, <1>6, <2>1 DEF NothingElse
<1>8. PassShape(p)' /\ BeganBefore(p)'
  <2>1. PassTime \in Nat /\ clock \in Nat
    BY FlagDerivationAssumption DEF Typed
  <2> QED BY <1>1, <1>2, <2>1 DEF PassShape, BeganBefore, Reading
<1> QED
  BY <1>1, <1>2, <1>3, <1>5, <1>7, <1>8 DEF BatchInv, BatchIsWritten, BatchInOrder, BatchIsDense,
     BatchReachesEnd, BatchBehindOffset, NextPassesBatch

(* What SubSeq and \o do. *)
LEMMA RestOf ==
  ASSUME NEW S, NEW l \in Seq(S), NEW n \in Nat, n <= Len(l)
  PROVE  /\ SubSeq(l, n + 1, Len(l)) \in Seq(S) /\ Len(SubSeq(l, n + 1, Len(l))) = Len(l) - n
         /\ \A i \in 1 .. Len(l) - n : SubSeq(l, n + 1, Len(l))[i] = l[n + i]
<1>1. Len(l) \in Nat /\ DOMAIN l = 1 .. Len(l) /\ n + 1 \in Int /\ Len(l) \in Int
  OBVIOUS
<1>2. \A i \in n + 1 .. Len(l) : l[i] \in S
  BY <1>1
<1>3. /\ SubSeq(l, n + 1, Len(l)) \in Seq(S)
      /\ Len(SubSeq(l, n + 1, Len(l))) = IF n + 1 <= Len(l) THEN Len(l) - (n + 1) + 1 ELSE 0
      /\ \A i \in 1 .. Len(l) - (n + 1) + 1 : SubSeq(l, n + 1, Len(l))[i] = l[(n + 1) + i - 1]
  BY <1>1, <1>2, SubSeqProperties
<1>4. Len(l) - (n + 1) + 1 = Len(l) - n /\ \A i \in Int : (n + 1) + i - 1 = n + i
  BY <1>1
<1>5. Len(SubSeq(l, n + 1, Len(l))) = Len(l) - n
  <2>1. CASE n + 1 <= Len(l)
    BY <1>3, <1>4, <2>1
  <2>2. CASE ~(n + 1 <= Len(l))
    <3>1. \A i, j \in Nat : i <= j /\ ~(i + 1 <= j) => j = i
      OBVIOUS
    <3>3. Len(l) = n
      BY <1>1, <2>2, <3>1
    <3>2. Len(l) - n = 0
      BY <3>3
    <3> QED BY <1>3, <2>2, <3>2
  <2> QED BY <2>1, <2>2
<1>6. ASSUME NEW i \in 1 .. Len(l) - n PROVE SubSeq(l, n + 1, Len(l))[i] = l[n + i]
  <2>1. SubSeq(l, n + 1, Len(l))[i] = l[(n + 1) + i - 1]
    BY <1>3, <1>4
  <2>2. (n + 1) + i - 1 = n + i
    BY <1>1, <1>4
  <2> QED BY <2>1, <2>2
<1> QED BY <1>3, <1>5, <1>6

Joined(a, b, c) ==
    /\ Len(c) = Len(a) + Len(b) /\ DOMAIN c = 1 .. Len(a) + Len(b)
    /\ DOMAIN a = 1 .. Len(a) /\ Len(a) \in Nat /\ Len(b) \in Nat
    /\ \A k \in 1 .. Len(a) : c[k] = a[k]
    /\ \A i \in 1 .. Len(b) : c[Len(a) + i] = b[i]

LEMMA ConcatOf ==
  ASSUME NEW S, NEW a \in Seq(S), NEW b \in Seq(S)
  PROVE  Joined(a, b, a \o b)
<1>1. /\ a \o b \in Seq(S) /\ Len(a \o b) = Len(a) + Len(b)
      /\ \A i \in 1 .. Len(a) + Len(b) : (a \o b)[i] = IF i <= Len(a) THEN a[i] ELSE b[i - Len(a)]
  BY ConcatProperties
<1>2. DOMAIN (a \o b) = 1 .. Len(a) + Len(b) /\ DOMAIN a = 1 .. Len(a) /\ Len(a) \in Nat /\ Len(b) \in Nat
  BY <1>1
<1>3. \A k \in 1 .. Len(a) : (a \o b)[k] = a[k]
  BY <1>1, <1>2
<1>4. ASSUME NEW i \in 1 .. Len(b) PROVE (a \o b)[Len(a) + i] = b[i]
  <2>1. Len(a) + i \in 1 .. Len(a) + Len(b) /\ ~(Len(a) + i <= Len(a)) /\ Len(a) + i - Len(a) = i
    BY <1>2
  <2> QED BY <1>1, <2>1
<1> QED BY <1>1, <1>2, <1>3, <1>4 DEF Joined

(* b is a followed by what l has behind its n-th element.                     *)
ReadsOn(a, l, n, b) ==
    /\ DOMAIN a = 1 .. Len(a) /\ Len(a) \in Nat
    /\ \A k \in DOMAIN b : k \in Nat
    /\ \A k \in DOMAIN a : k \in DOMAIN b /\ b[k] = a[k]
    /\ \A k \in DOMAIN l : k > n => Len(a) + (k - n) \in DOMAIN b /\ b[Len(a) + (k - n)] = l[k]
    /\ \A k \in DOMAIN b : k \notin DOMAIN a =>
          k > Len(a) /\ (k - Len(a)) + n \in DOMAIN l /\ b[k] = l[(k - Len(a)) + n]

LEMMA ReadingOn ==
  ASSUME NEW S, NEW a \in Seq(S), NEW l \in Seq(S), NEW n \in Nat, n <= Len(l)
  PROVE  ReadsOn(a, l, n, a \o SubSeq(l, n + 1, Len(l)))
<1> DEFINE r == SubSeq(l, n + 1, Len(l))
           b == a \o r
           la == Len(a)
           ll == Len(l)
<1>1. r \in Seq(S) /\ Len(r) = ll - n /\ \A i \in 1 .. ll - n : r[i] = l[n + i]
  BY RestOf
<1>2. la \in Nat /\ ll \in Nat /\ DOMAIN l = 1 .. ll /\ n <= ll
  OBVIOUS
<1> HIDE DEF r
<1>3. /\ DOMAIN b = 1 .. la + (ll - n) /\ DOMAIN a = 1 .. la
      /\ \A k \in 1 .. la : b[k] = a[k]
      /\ \A i \in 1 .. ll - n : b[la + i] = r[i]
  <2>1. Joined(a, r, b)
    BY <1>1, ConcatOf
  <2>2. Len(r) = ll - n
    BY <1>1
  <2> HIDE DEF b
  <2> QED BY <2>1, <2>2 DEF Joined
<1> HIDE DEF b, la, ll
<1>4. \A k \in DOMAIN b : k \in Nat
  BY <1>2, <1>3
<1>5. ASSUME NEW k \in DOMAIN a PROVE k \in DOMAIN b /\ b[k] = a[k]
  BY <1>2, <1>3
<1>6. ASSUME NEW k \in DOMAIN l, k > n
      PROVE  la + (k - n) \in DOMAIN b /\ b[la + (k - n)] = l[k]
  <2>1. k \in Nat /\ k - n \in 1 .. ll - n /\ n + (k - n) = k
    BY <1>2, <1>6
  <2>2. la + (k - n) \in DOMAIN b
    BY <1>2, <1>3, <2>1
  <2>3. b[la + (k - n)] = r[k - n] /\ r[k - n] = l[n + (k - n)]
    BY <1>1, <1>3, <2>1
  <2> QED BY <2>1, <2>2, <2>3
<1>7. ASSUME NEW k \in DOMAIN b, k \notin DOMAIN a
      PROVE  k > la /\ (k - la) + n \in DOMAIN l /\ b[k] = l[(k - la) + n]
  <2>1. k > la /\ k \in Nat
    BY <1>2, <1>3, <1>7
  <2>2. /\ k - la \in 1 .. ll - n /\ la + (k - la) = k /\ n + (k - la) = (k - la) + n
        /\ (k - la) + n \in DOMAIN l
    BY <1>2, <1>3, <1>7, <2>1
  <2>3. b[la + (k - la)] = r[k - la] /\ r[k - la] = l[n + (k - la)]
    BY <1>1, <1>3, <2>2
  <2> QED BY <2>1, <2>2, <2>3
<1> QED BY <1>2, <1>3, <1>4, <1>5, <1>6, <1>7 DEF ReadsOn, b, r, la, ll

(* The lines a pass reads of the segment of day d begin behind the offset.    *)
DoneOf(p, d) == IF d = from[p].seg THEN Smaller(from[p].line, Len(seg[d].lines)) ELSE 0

LEMMA ReadLines ==
  ASSUME Typed, PassTyped, NEW p \in Procs, NEW d \in Days,
         batch'[p] = batch[p] \o LinesAfter(d, DoneOf(p, d))
  PROVE  /\ DoneOf(p, d) \in Nat
         /\ d = from[p].seg => \A k \in DOMAIN seg[d].lines :
                                   k <= DoneOf(p, d) <=> k <= from[p].line
         /\ d # from[p].seg => DoneOf(p, d) = 0
         /\ ReadsOn(batch[p], seg[d].lines, DoneOf(p, d), batch'[p])
<1>1. /\ seg[d].lines \in Seq(Ids \cup {Junk}) /\ batch[p] \in Seq(Ids \cup {Junk})
      /\ Len(seg[d].lines) \in Nat /\ DOMAIN seg[d].lines = 1 .. Len(seg[d].lines)
  BY SegmentTyped DEF SegIsTyped, PassTyped
<1>2. /\ DoneOf(p, d) \in Nat /\ DoneOf(p, d) <= Len(seg[d].lines)
      /\ d = from[p].seg => \A k \in DOMAIN seg[d].lines : k <= DoneOf(p, d) <=> k <= from[p].line
      /\ d # from[p].seg => DoneOf(p, d) = 0
  <2>1. from[p].line \in Nat
    BY DEF Typed, Offset
  <2> QED BY <1>1, <2>1 DEF DoneOf, Smaller
<1>3. batch'[p] = batch[p] \o SubSeq(seg[d].lines, DoneOf(p, d) + 1, Len(seg[d].lines))
  BY DEF LinesAfter
<1>4. ReadsOn(batch[p], seg[d].lines, DoneOf(p, d), batch'[p])
  BY <1>1, <1>2, <1>3, ReadingOn
<1> QED BY <1>2, <1>4

(* A segment that is gone when its turn comes is passed over.                 *)
LEMMA SkipKeepsBatch ==
  ASSUME Typed, NEW p \in Procs, BatchInv(p), Read(p), NEW d \in left[p], ~seg[d].exists,
         left' = [left EXCEPT ![p] = @ \ {d}], UNCHANGED <<batch, next>>
  PROVE  BatchInv(p)'
<1>1. /\ UNCHANGED <<clock, log, written, seg>> /\ pc[p] = "read" /\ pc'[p] = "read"
      /\ from'[p] = from[p] /\ next'[p] = next[p] /\ batch'[p] = batch[p] /\ todo'[p] = todo[p]
      /\ left'[p] = left[p] \ {d} /\ began'[p] = began[p]
  BY DEF Read, Typed, journal
<1>2. BatchIsWritten(p)' /\ BatchInOrder(p)' /\ BatchIsDense(p)' /\ BatchReachesEnd(p)'
  BY <1>1 DEF BatchInv, BatchIsWritten, BatchInOrder, BatchIsDense, BatchReachesEnd, InBatch,
              DayOf, Alive, Day
<1>3. BatchBehindOffset(p)' /\ LeftBehindOffset(p)' /\ NextPassesBatch(p)'
  BY <1>1 DEF BatchInv, BatchBehindOffset, LeftBehindOffset, NextPassesBatch, InBatch,
              DayOf, Alive, Day
<1>4. NothingElse(p)'
  <2>1. \A x \in DOMAIN written : /\ Alive(x)' <=> Alive(x) /\ DayOf(x)' = DayOf(x)
                                  /\ InBatch(p, x)' <=> InBatch(p, x)
                                  /\ Alive(x) => DayOf(x) # d
    BY <1>1 DEF Alive, DayOf, Day, InBatch
  <2> QED BY <1>1, <2>1 DEF BatchInv, NothingElse, Reading
<1>5. PassShape(p)' /\ BeganBefore(p)'
  BY <1>1 DEF BatchInv, PassShape, BeganBefore, Reading
<1> QED BY <1>2, <1>3, <1>4, <1>5 DEF BatchInv

(* A segment that is there is read from the offset to the end it has.         *)
LEMMA ReadKeepsBatch ==
  ASSUME Typed, WritersAreCurrent, PassTyped, FilesInv, NEW p \in Procs, BatchInv(p), Read(p),
         NEW d \in left[p], \A e \in left[p] : d <= e, seg[d].exists,
         left' = [left EXCEPT ![p] = @ \ {d}],
         batch' = [batch EXCEPT ![p] = @ \o LinesAfter(d, DoneOf(p, d))],
         next' = [next EXCEPT ![p] = [seg |-> d, line |-> Len(seg[d].lines)]]
  PROVE  BatchInv(p)'
<1> DEFINE t == Day(began[p])
           L == seg[d].lines
           n == DoneOf(p, d)
           o == from[p]
<1>1. /\ UNCHANGED <<clock, log, written, seg>> /\ pc[p] = "read" /\ pc'[p] = "read"
      /\ from'[p] = o /\ began'[p] = began[p] /\ todo'[p] = todo[p] /\ left'[p] = left[p] \ {d}
      /\ next'[p] = [seg |-> d, line |-> Len(L)]
      /\ batch'[p] = batch[p] \o LinesAfter(d, n)
  BY DEF Read, Typed, PassTyped, journal
<1>2. /\ d \in Days /\ d \in Nat /\ d <= t /\ t \in Nat /\ o \in Offset
      /\ o.seg # None => o.seg \in Nat /\ o.seg <= d
      /\ \A e \in Days : e \in Nat /\ e # None
      /\ left[p] \subseteq Days
  <2>1. left[p] \subseteq Days /\ o \in Offset
    BY DEF Typed
  <2>2. o.seg # None => o.seg \in Nat /\ o.seg <= d
    BY <2>1, SegmentTyped DEF Offset, SegIsTyped, BatchInv, LeftBehindOffset
  <2>3. began[p] \in Nat /\ t \in Nat
    BY DayMonotone DEF Typed
  <2> QED BY <2>1, <2>2, <2>3, SegmentTyped DEF SegIsTyped, BatchInv, LeftBehindOffset
<1> HIDE DEF t, L, n, o
<1>3. /\ n \in Nat
      /\ d = o.seg => \A k \in DOMAIN L : k <= n <=> k <= o.line
      /\ d # o.seg => n = 0
      /\ ReadsOn(batch[p], L, n, batch'[p])
  BY <1>1, <1>2, ReadLines DEF L, n, o
<1> USE DEF ReadsOn
<1>4. /\ DOMAIN L = 1 .. Len(L) /\ Len(L) \in Nat /\ \A k \in DOMAIN L : k \in Nat
      /\ \A k \in DOMAIN batch'[p] : k \in Nat
  BY <1>2, <1>3, SegmentTyped DEF SegIsTyped, L
<1>5. \A x \in DOMAIN written :
        /\ x \in Nat /\ written[x].n # Junk /\ DayOf(x) \in Days /\ DayOf(x) \in Nat
        /\ written[x].at >= began[p] => t <= DayOf(x)
        /\ DayOf(x)' = DayOf(x) /\ (Alive(x)' <=> Alive(x))
  <2>1. \A x \in DOMAIN written :
          /\ x \in Nat /\ written[x].n # Junk /\ DayOf(x) \in Days /\ DayOf(x) \in Nat
          /\ written[x].at \in Nat
    BY WrittenTyped DEF WrittenIsTyped
  <2>2. began[p] \in Nat
    BY DEF Typed
  <2>3. \A x \in DOMAIN written : written[x].at >= began[p] => t <= DayOf(x)
    BY <2>1, <2>2, DayMonotone DEF DayOf, t
  <2>4. \A x \in DOMAIN written : DayOf(x)' = DayOf(x) /\ (Alive(x)' <=> Alive(x))
    BY <1>1 DEF DayOf, Day, Alive
  <2> QED BY <2>1, <2>3, <2>4
<1>6. \A x, y \in DOMAIN written : x <= y => DayOf(x) <= DayOf(y)
  <2>1. ASSUME NEW x \in DOMAIN written, NEW y \in DOMAIN written, x <= y
        PROVE  DayOf(x) <= DayOf(y)
    <3>1. written[x].at <= written[y].at
      <4>1. x < y \/ x = y
        BY <1>5, <2>1
      <4> QED BY <4>1, WrittenTyped DEF FilesInv, WrittenOnce, WrittenIsTyped
    <3> QED BY <3>1, WrittenTyped, DayMonotone DEF DayOf, WrittenIsTyped
  <2> QED BY <2>1
<1>7. ASSUME NEW x \in DOMAIN written, DayOf(x) = d
      PROVE  \E k \in DOMAIN L : /\ L[k] = written[x].n
                                 /\ InFront(seg, o, written[x].n) <=> k <= n
                                 /\ k > n => InBatch(p, x)'
  <2>1. Alive(x)
    BY <1>7 DEF Alive
  <2>2. PICK k \in DOMAIN L : L[k] = written[x].n
    BY <1>7, <2>1 DEF FilesInv, WrittenAreLines, L
  <2>3. InFront(seg, o, written[x].n) <=>
           o.seg # None /\ (d < o.seg \/ (d = o.seg /\ k <= o.line))
    BY <1>2, <1>7, <2>2, LinesHavePlaces DEF LinePlaces, L
  <2>4. InFront(seg, o, written[x].n) <=> k <= n
    <3>1. CASE d = o.seg
      <4>1. d # None /\ ~(d < d)
        BY <1>2
      <4>2. k <= n <=> k <= o.line
        BY <1>3, <2>2, <3>1
      <4> QED BY <2>3, <3>1, <4>1, <4>2
    <3>2. CASE d # o.seg
      BY <1>2, <1>3, <1>4, <2>2, <2>3, <3>2
    <3> QED BY <3>1, <3>2
  <2>5. ASSUME k > n PROVE InBatch(p, x)'
    <3> DEFINE i == Len(batch[p]) + (k - n)
    <3>1. i \in DOMAIN batch'[p] /\ batch'[p][i] = written[x].n
      BY <1>3, <2>2, <2>5
    <3> HIDE DEF i
    <3> QED BY <1>1, <3>1 DEF InBatch
  <2> QED BY <2>2, <2>4, <2>5
<1>8. ASSUME NEW x \in DOMAIN written, InBatch(p, x)', ~InBatch(p, x)
      PROVE  DayOf(x) = d /\ \E k \in DOMAIN L : k > n /\ L[k] = written[x].n
  <2>1. PICK i \in DOMAIN batch'[p] : batch'[p][i] = written[x].n
    BY <1>1, <1>8 DEF InBatch
  <2>2. i \notin DOMAIN batch[p]
    BY <1>3, <1>8, <2>1 DEF InBatch
  <2> DEFINE k == (i - Len(batch[p])) + n
  <2>3. k \in DOMAIN L /\ L[k] = written[x].n /\ i > Len(batch[p])
    BY <1>3, <2>1, <2>2
  <2>4. k > n
    BY <1>3, <1>4, <2>1, <2>3
  <2> HIDE DEF k
  <2>5. DayOf(x) = d
    BY <1>2, <2>3, LinesHavePlaces DEF LinePlaces, L
  <2> QED BY <2>3, <2>4, <2>5
<1>9. \A x \in DOMAIN written : InBatch(p, x) =>
        /\ InBatch(p, x)' /\ DayOf(x) < d /\ (o.seg # None => o.seg <= DayOf(x))
        /\ Alive(x) => ~InFront(seg, o, written[x].n)
  <2>1. \A x \in DOMAIN written : InBatch(p, x) => InBatch(p, x)'
    BY <1>1, <1>3 DEF InBatch
  <2> QED BY <2>1 DEF BatchInv, BatchBehindOffset, o
<1>10. ASSUME NEW x \in DOMAIN written, NEW y \in DOMAIN written, NEW k \in DOMAIN L, NEW l \in DOMAIN L,
              L[k] = written[x].n, L[l] = written[y].n
       PROVE  x < y <=> k < l
  <2>1. k < l => x < y
    BY <1>2, <1>10 DEF FilesInv, LinesInOrder, L
  <2>2. l < k => y < x
    BY <1>2, <1>10 DEF FilesInv, LinesInOrder, L
  <2>3. k = l => x = y
    BY <1>10 DEF FilesInv, WrittenOnce
  <2> QED BY <1>4, <1>5, <2>1, <2>2, <2>3
<1>11. BatchIsWritten(p)'
  <2>1. ASSUME NEW i \in DOMAIN batch'[p], batch'[p][i] # Junk
        PROVE  \E x \in DOMAIN written : written[x].n = batch'[p][i]
    <3>1. CASE i \in DOMAIN batch[p]
      BY <1>3, <2>1, <3>1 DEF BatchInv, BatchIsWritten
    <3>2. CASE i \notin DOMAIN batch[p]
      <4>1. PICK k \in DOMAIN L : L[k] = batch'[p][i]
        BY <1>3, <3>2
      <4> QED BY <1>2, <2>1, <4>1 DEF FilesInv, LinesAreWritten, L
    <3> QED BY <3>1, <3>2
  <2> QED BY <1>1, <2>1 DEF BatchIsWritten
<1>12. BatchInOrder(p)'
  <2>1. ASSUME NEW i \in DOMAIN batch'[p], NEW j \in DOMAIN batch'[p],
               NEW x \in DOMAIN written, NEW y \in DOMAIN written,
               i < j, written[x].n = batch'[p][i], written[y].n = batch'[p][j]
        PROVE  x < y
    <3>1. CASE i \in DOMAIN batch[p] /\ j \in DOMAIN batch[p]
      BY <1>3, <2>1, <3>1 DEF BatchInv, BatchInOrder
    <3>2. CASE i \in DOMAIN batch[p] /\ j \notin DOMAIN batch[p]
      <4>1. DayOf(x) < d
        BY <1>3, <1>9, <2>1, <3>2 DEF InBatch
      <4>2. DayOf(y) = d
        <5>1. PICK k \in DOMAIN L : L[k] = written[y].n
          BY <1>3, <2>1, <3>2
        <5> QED BY <1>2, <5>1, LinesHavePlaces DEF LinePlaces, L
      <4> QED BY <1>2, <1>5, <1>6, <4>1, <4>2
    <3>3. CASE i \notin DOMAIN batch[p]
      <4> DEFINE k == (i - Len(batch[p])) + n
                 l == (j - Len(batch[p])) + n
      <4>1. j \notin DOMAIN batch[p]
        <5>1. i > Len(batch[p])
          BY <1>3, <3>3
        <5> QED BY <1>3, <1>4, <2>1, <5>1
      <4>2. k \in DOMAIN L /\ l \in DOMAIN L /\ L[k] = written[x].n /\ L[l] = written[y].n
        BY <1>3, <2>1, <3>3, <4>1
      <4>3. k < l
        BY <1>3, <1>4, <2>1
      <4> HIDE DEF k, l
      <4> QED BY <1>10, <4>2, <4>3
    <3> QED BY <3>1, <3>2, <3>3
  <2>2. \A k, l \in DOMAIN batch'[p] : \A x, y \in DOMAIN written :
           (k < l /\ written[x].n = batch'[p][k] /\ written[y].n = batch'[p][l]) => x < y
    BY <2>1
  <2>3. written' = written
    BY <1>1
  <2> QED BY <2>2, <2>3 DEF BatchInOrder
<1>13. ASSUME NEW x \in DOMAIN written, Alive(x), InFront(seg, o, written[x].n)
       PROVE  o.seg # None /\ DayOf(x) <= o.seg
  <2>1. PICK k \in DOMAIN seg[DayOf(x)].lines : seg[DayOf(x)].lines[k] = written[x].n
    BY <1>13 DEF FilesInv, WrittenAreLines
  <2>2. o.seg # None /\ (DayOf(x) < o.seg \/ (DayOf(x) = o.seg /\ k <= o.line))
    BY <1>2, <1>13, <2>1, LinesHavePlaces DEF LinePlaces
  <2> QED BY <1>2, <1>5, <2>2
<1>14. ASSUME NEW x \in DOMAIN written, NEW z \in DOMAIN written, InBatch(p, z)',
              ~InBatch(p, z), z < x, DayOf(x) = d
       PROVE  InBatch(p, x)'
  <2>1. PICK k \in DOMAIN L : k > n /\ L[k] = written[z].n
    BY <1>8, <1>14
  <2>2. PICK l \in DOMAIN L : L[l] = written[x].n /\ (l > n => InBatch(p, x)')
    BY <1>7, <1>14
  <2>3. k < l
    BY <1>10, <1>14, <2>1, <2>2
  <2> QED BY <1>3, <1>4, <2>1, <2>2, <2>3
<1>15. BatchIsDense(p)'
  <2>1. ASSUME NEW x \in DOMAIN written, NEW y \in DOMAIN written, NEW z \in DOMAIN written,
               InBatch(p, z)', InBatch(p, y)', z < x, x < y
        PROVE  InBatch(p, x)' \/ (DayOf(z) < DayOf(x) /\ DayOf(x) < DayOf(y) /\ ~Alive(z))
    <3>0. /\ DayOf(z) <= DayOf(x) /\ DayOf(x) <= DayOf(y)
          /\ DayOf(x) \in Nat /\ DayOf(y) \in Nat /\ DayOf(z) \in Nat
      BY <1>5, <1>6, <2>1
    <3>1. CASE InBatch(p, z) /\ InBatch(p, y)
      <4>1. InBatch(p, x) \/ (DayOf(z) < DayOf(x) /\ DayOf(x) < DayOf(y) /\ ~Alive(z))
        BY <2>1, <3>1 DEF BatchInv, BatchIsDense
      <4> QED BY <1>9, <4>1
    <3>2. CASE InBatch(p, z) /\ ~InBatch(p, y)
      <4>1. DayOf(y) = d /\ DayOf(z) < d
        BY <1>8, <1>9, <2>1, <3>2
      <4>2. CASE DayOf(x) = d
        <5>1. PICK k \in DOMAIN L : k > n => InBatch(p, x)'
          BY <1>7, <4>2
        <5>2. o.seg # d
          BY <1>2, <1>9, <3>0, <3>2, <4>1
        <5> QED BY <1>3, <1>4, <5>1, <5>2
      <4>3. CASE DayOf(x) = DayOf(z)
        <5>1. InBatch(p, x) \/ written[x].at >= began[p]
          BY <2>1, <3>2, <4>3 DEF BatchInv, BatchReachesEnd
        <5>2. ~(t <= DayOf(x))
          BY <1>2, <3>0, <4>1, <4>3
        <5> QED BY <1>5, <1>9, <5>1, <5>2
      <4>4. CASE DayOf(z) < DayOf(x) /\ DayOf(x) < d
        <5>1. SUFFICES ASSUME Alive(z) PROVE InBatch(p, x)'
          BY <4>1, <4>4
        <5>2. Alive(x)
          BY <1>5, <4>4, <5>1 DEF FilesInv, OldestGoFirst, Alive
        <5>3. \/ InFront(seg, o, written[x].n) \/ InBatch(p, x)
              \/ DayOf(x) \in left[p] \/ written[x].at >= began[p]
          BY <1>1, <5>2 DEF BatchInv, NothingElse, Reading, o
        <5>4. ~InFront(seg, o, written[x].n)
          <6>1. o.seg # None => o.seg <= DayOf(z)
            BY <1>9, <3>2
          <6> QED BY <1>2, <1>13, <3>0, <4>4, <5>2, <6>1
        <5>5. DayOf(x) \notin left[p]
          <6>1. ~(d <= DayOf(x))
            BY <1>2, <3>0, <4>4
          <6> QED BY <6>1
        <5>6. ~(written[x].at >= began[p])
          BY <1>2, <1>5, <3>0, <4>4
        <5> QED BY <1>9, <5>3, <5>4, <5>5, <5>6
      <4> QED BY <1>2, <3>0, <4>1, <4>2, <4>3, <4>4
    <3>3. CASE ~InBatch(p, z)
      <4>1. DayOf(z) = d
        BY <1>8, <2>1, <3>3
      <4>2. ~InBatch(p, y)
        BY <1>2, <1>9, <3>0, <4>1
      <4>3. DayOf(y) = d
        BY <1>8, <2>1, <4>2
      <4>4. DayOf(x) = d
        BY <1>2, <3>0, <4>1, <4>3
      <4> QED BY <1>14, <2>1, <3>3, <4>4
    <3> QED BY <3>1, <3>2, <3>3
  <2> QED BY <1>1, <1>5, <2>1 DEF BatchIsDense
<1>16. BatchReachesEnd(p)'
  <2>1. ASSUME NEW x \in DOMAIN written, NEW z \in DOMAIN written,
               InBatch(p, z)', z < x, DayOf(x) = DayOf(z)
        PROVE  InBatch(p, x)' \/ written[x].at >= began[p]
    <3>1. CASE InBatch(p, z)
      <4>1. InBatch(p, x) \/ written[x].at >= began[p]
        BY <2>1, <3>1 DEF BatchInv, BatchReachesEnd
      <4> QED BY <1>9, <4>1
    <3>2. CASE ~InBatch(p, z)
      BY <1>8, <1>14, <2>1, <3>2
    <3> QED BY <3>1, <3>2
  <2> QED BY <1>1, <1>5, <2>1 DEF BatchReachesEnd
<1>17. BatchBehindOffset(p)'
  <2>1. ASSUME NEW z \in DOMAIN written, InBatch(p, z)'
        PROVE  /\ \A e \in left[p] \ {d} : DayOf(z) < e
               /\ o.seg # None => o.seg <= DayOf(z)
               /\ Alive(z) => ~InFront(seg, o, written[z].n)
    <3>1. CASE InBatch(p, z)
      BY <1>9, <3>1 DEF BatchInv, BatchBehindOffset
    <3>2. CASE ~InBatch(p, z)
      <4>1. DayOf(z) = d /\ \E k \in DOMAIN L : k > n /\ L[k] = written[z].n
        BY <1>8, <2>1, <3>2
      <4>2. PICK k \in DOMAIN L : k > n /\ L[k] = written[z].n
        BY <4>1
      <4>3. PICK l \in DOMAIN L : L[l] = written[z].n /\ (InFront(seg, o, written[z].n) <=> l <= n)
        BY <1>7, <4>1
      <4>4. k = l
        <5>1. ~(k < l) /\ ~(l < k)
          <6>1. ~(z < z)
            BY <1>5
          <6> QED BY <1>10, <4>2, <4>3, <6>1
        <5> QED BY <1>4, <5>1
      <4>5. ~InFront(seg, o, written[z].n)
        BY <1>3, <1>4, <4>2, <4>3, <4>4
      <4>6. ASSUME NEW e \in left[p] \ {d} PROVE d < e
        <5>1. e \in Nat /\ d <= e /\ e # d
          BY <1>2
        <5> QED BY <1>2, <5>1
      <4> QED BY <1>2, <4>1, <4>5, <4>6
    <3> QED BY <3>1, <3>2
  <2> QED BY <1>1, <1>5, <2>1 DEF BatchBehindOffset
<1>18. LeftBehindOffset(p)'
  BY <1>1 DEF BatchInv, LeftBehindOffset, Day, o
<1>19. \A x \in DOMAIN written : Alive(x) =>
         \/ InFront(seg, o, written[x].n) \/ InBatch(p, x)'
         \/ DayOf(x) # d /\ (DayOf(x) \in left[p] \/ written[x].at >= began[p])
  <2>1. ASSUME NEW x \in DOMAIN written, Alive(x)
        PROVE  \/ InFront(seg, o, written[x].n) \/ InBatch(p, x)'
               \/ DayOf(x) # d /\ (DayOf(x) \in left[p] \/ written[x].at >= began[p])
    <3>1. CASE DayOf(x) = d
      BY <1>3, <1>4, <1>7, <3>1
    <3>2. CASE DayOf(x) # d
      <4>1. \/ InFront(seg, o, written[x].n) \/ InBatch(p, x)
            \/ DayOf(x) \in left[p] \/ written[x].at >= began[p]
        BY <1>1, <2>1 DEF BatchInv, NothingElse, Reading, o
      <4> QED BY <1>9, <3>2, <4>1
    <3> QED BY <3>1, <3>2
  <2> QED BY <2>1
<1>20. NothingElse(p)'
  BY <1>1, <1>5, <1>19 DEF NothingElse
<1>21. NextPassesBatch(p)'
  <2>1. ASSUME NEW x \in DOMAIN written, Alive(x), InFront(seg, next'[p], written[x].n)
        PROVE  InFront(seg, o, written[x].n) \/ InBatch(p, x)'
    <3>1. DayOf(x) <= d
      <4>1. PICK k \in DOMAIN seg[DayOf(x)].lines : seg[DayOf(x)].lines[k] = written[x].n
        BY <2>1 DEF FilesInv, WrittenAreLines
      <4>2. next'[p] \in Offset /\ next'[p].seg = d
        BY <1>1, <1>2, <1>4 DEF Offset
      <4>3. DayOf(x) < d \/ DayOf(x) = d
        BY <2>1, <4>1, <4>2, LinesHavePlaces DEF LinePlaces
      <4> QED BY <1>2, <1>5, <4>3
    <3>2. SUFFICES ASSUME DayOf(x) # d, DayOf(x) \in left[p] \/ written[x].at >= began[p] PROVE FALSE
      BY <1>19, <2>1
    <3>3. DayOf(x) < d /\ DayOf(x) \in Nat
      BY <1>2, <1>5, <3>1, <3>2
    <3>4. DayOf(x) \notin left[p]
      <4>1. ~(d <= DayOf(x))
        BY <1>2, <3>3
      <4> QED BY <4>1
    <3>5. ~(t <= DayOf(x))
      BY <1>2, <3>3
    <3> QED BY <1>5, <3>2, <3>4, <3>5
  <2> QED BY <1>1, <1>5, <2>1 DEF NextPassesBatch
<1>22. PassShape(p)' /\ BeganBefore(p)'
  BY <1>1 DEF BatchInv, PassShape, BeganBefore, Reading
<1> QED BY <1>11, <1>12, <1>15, <1>16, <1>17, <1>18, <1>20, <1>21, <1>22 DEF BatchInv

LEMMA ForgetEmpties ==
  ASSUME Typed, PassTyped, NEW p \in Procs, Forget(p)
  PROVE  /\ batch'[p] = <<>> /\ left'[p] = {} /\ todo'[p] = {}
         /\ next'[p] = Start /\ from'[p] = Start /\ began'[p] = 0
         /\ \A q \in Procs : q # p => /\ batch'[q] = batch[q] /\ left'[q] = left[q]
                                      /\ todo'[q] = todo[q] /\ next'[q] = next[q]
                                      /\ from'[q] = from[q] /\ began'[q] = began[q]
         /\ batch' \in [Procs -> Seq(Ids \cup {Junk})] /\ todo' = [q \in Procs |-> todo'[q]]
<1>1. <<>> \in Seq(Ids \cup {Junk})
  OBVIOUS
<1>2. /\ batch' = [batch EXCEPT ![p] = <<>>] /\ left' = [left EXCEPT ![p] = {}]
      /\ todo' = [todo EXCEPT ![p] = {}] /\ next' = [next EXCEPT ![p] = Start]
      /\ from' = [from EXCEPT ![p] = Start] /\ began' = [began EXCEPT ![p] = 0]
  BY DEF Forget
<1>3. batch \in [Procs -> Seq(Ids \cup {Junk})] /\ todo = [q \in Procs |-> todo[q]]
  BY DEF PassTyped
<1>4. /\ left \in [Procs -> SUBSET Days] /\ from \in [Procs -> Offset] /\ next \in [Procs -> Offset]
      /\ began \in [Procs -> 0 .. MaxClock]
  BY DEF Typed
<1> QED BY <1>1, <1>2, <1>3, <1>4

(* A command changes its own pass and no other.                               *)
LEMMA OthersUnchanged ==
  ASSUME Typed, PassTyped, NEW q \in Procs, Acts(q), NEW p \in Procs, p # q
  PROVE  /\ batch'[p] = batch[p] /\ left'[p] = left[p] /\ todo'[p] = todo[p]
         /\ next'[p] = next[p] /\ from'[p] = from[p] /\ began'[p] = began[p]
         /\ pc'[p] = pc[p]
<1> USE DEF Goto
<1>0. pc \in [Procs -> PCs] /\ left \in [Procs -> SUBSET Days] /\ from \in [Procs -> Offset]
      /\ next \in [Procs -> Offset] /\ began \in [Procs -> 0 .. MaxClock]
  BY DEF Typed
<1>b. batch \in [Procs -> Seq(Ids \cup {Junk})] /\ todo = [r \in Procs |-> todo[r]]
  BY DEF PassTyped
<1>1. CASE \E k \in Kinds, s \in Sessions, f \in Families \cup {None} : Begin(q, k, s, f)
  BY <1>0, <1>1 DEF Begin, pass
<1>2. CASE Pass(q) \/ TornWrite(q) \/ Repair(q) \/ Write(q) \/ Cleanup(q)
  BY <1>0, <1>2 DEF Pass, TornWrite, Repair, Write, Cleanup, pass
<1>3. CASE Load(q) \/ List(q)
  BY <1>0, <1>3 DEF Load, List
<1>4. CASE Read(q)
  <2>1. PICK d \in left[q] :
          /\ left' = [left EXCEPT ![q] = @ \ {d}]
          /\ \/ UNCHANGED <<batch, next>>
             \/ \E b, n : batch' = [batch EXCEPT ![q] = b] /\ next' = [next EXCEPT ![q] = n]
    BY <1>4 DEF Read
  <2>2. UNCHANGED <<pc, from, began, todo>>
    BY <1>4 DEF Read
  <2> QED BY <1>0, <1>b, <2>1, <2>2
<1>5. CASE ReadDone(q) \/ Fail(q) \/ Store(q)
  <2>1. \E l \in PCs : pc' = [pc EXCEPT ![q] = l]
    BY <1>5 DEF ReadDone, Fail, Store, PCs
  <2>2. Forget(q) \/ UNCHANGED pass
    BY <1>5 DEF ReadDone, Fail, Store
  <2> QED BY <1>0, <2>1, <2>2, ForgetEmpties DEF pass
<1>6. CASE Decide(q)
  <2>1. \E l : pc' = [pc EXCEPT ![q] = l]
    BY <1>6 DEF Decide
  <2>2. Forget(q) \/ (UNCHANGED <<from, began, left, batch, next>> /\ \E S : todo' = [todo EXCEPT ![q] = S])
    BY <1>6 DEF Decide
  <2> QED BY <1>0, <1>b, <2>1, <2>2, ForgetEmpties
<1>7. CASE Derive(q)
  <2>1. \E l : pc' = [pc EXCEPT ![q] = l]
    BY <1>7 DEF Derive
  <2>2. UNCHANGED <<from, began, left, batch, next>> /\ \E S : todo' = [todo EXCEPT ![q] = S]
    BY <1>7 DEF Derive
  <2> QED BY <1>0, <1>b, <2>1, <2>2
<1> QED BY <1>1, <1>2, <1>3, <1>4, <1>5, <1>6, <1>7 DEF Acts, Step

LEMMA NextPassTyped ==
  ASSUME Typed, PassTyped, [Next]_vars
  PROVE  PassTyped'
<1> USE DEF PassTyped
<1>1. CASE Tick \/ UNCHANGED vars
  BY <1>1 DEF Tick, vars, journal, pass
<1>2. ASSUME NEW q \in Procs, Acts(q) PROVE PassTyped'
  <2>1. CASE \/ \E k \in Kinds, s \in Sessions, f \in Families \cup {None} : Begin(q, k, s, f)
             \/ Pass(q) \/ TornWrite(q) \/ Repair(q) \/ Write(q) \/ Cleanup(q) \/ Load(q) \/ List(q)
    BY <2>1 DEF Begin, Pass, TornWrite, Repair, Write, Cleanup, Load, List, journal, pass
  <2>2. CASE Read(q)
    <3>1. UNCHANGED <<counted, todo>>
      BY <2>2 DEF Read, journal
    <3>2. PICK d \in left[q] :
             IF seg[d].exists
             THEN batch' = [batch EXCEPT ![q] = @ \o LinesAfter(d, DoneOf(q, d))]
             ELSE batch' = batch
      BY <2>2 DEF Read, DoneOf
    <3>3. batch' \in [Procs -> Seq(Ids \cup {Junk})]
      <4>1. d \in Days /\ seg[d].lines \in Seq(Ids \cup {Junk}) /\ DoneOf(q, d) \in Nat
            /\ Len(seg[d].lines) \in Nat
        <5>1. d \in Days
          BY DEF Typed
        <5> QED BY <5>1, SegmentTyped DEF SegIsTyped, DoneOf, Smaller, Typed, Offset
      <4>2. LinesAfter(d, DoneOf(q, d)) \in Seq(Ids \cup {Junk})
        BY <4>1 DEF LinesAfter
      <4>3. batch[q] \o LinesAfter(d, DoneOf(q, d)) \in Seq(Ids \cup {Junk})
        BY <4>2
      <4> QED BY <3>2, <4>3
    <3> QED BY <3>1, <3>3
  <2>3. CASE ReadDone(q) \/ Fail(q) \/ Store(q)
    <3>1. counted' = counted /\ (Forget(q) \/ UNCHANGED pass)
      BY <2>3 DEF ReadDone, Fail, Store, journal
    <3> QED BY <3>1, ForgetEmpties DEF pass
  <2>4. CASE Decide(q)
    <3>1. Forget(q) \/ (batch' = batch /\ \E S : todo' = [todo EXCEPT ![q] = S])
      BY <2>4 DEF Decide
    <3>2. counted' = counted
      BY <2>4 DEF Decide, journal
    <3> QED BY <3>1, <3>2, ForgetEmpties
  <2>5. CASE Derive(q)
    <3>1. batch' = batch /\ \E S : todo' = [todo EXCEPT ![q] = S]
      BY <2>5 DEF Derive
    <3>2. PICK c \in todo[q] : counted' = [counted EXCEPT ![c.n] = Smaller(@ + 1, 2)]
      BY <2>5 DEF Derive
    <3>3. \A i \in 0 .. 2 : Smaller(i + 1, 2) \in 0 .. 2
      BY DEF Smaller
    <3> QED BY <3>1, <3>2, <3>3
  <2> QED BY <1>2, <2>1, <2>2, <2>3, <2>4, <2>5 DEF Acts, Step
<1> QED BY <1>1, <1>2 DEF Next, Acts

(* Every step of every command leaves the batches in order.                   *)
LEMMA BatchKept ==
  ASSUME Typed, Typed', PassTyped, OffsetInv, JournalInv, JournalInv', Grows, AllBatchInv,
         NEW q \in Procs, Acts(q)
  PROVE  AllBatchInv'
<1>1. WritersAreCurrent /\ FilesInv /\ FilesInv'
  BY DEF OffsetInv, JournalInv
<1>2. ASSUME NEW p \in Procs, p # q PROVE BatchInv(p)'
  <2>1. BatchInv(p) /\ Settled(from[p]) /\ Settled(next[p])
    BY DEF AllBatchInv, OffsetInv
  <2> QED BY <1>1, <1>2, <2>1, OthersUnchanged, OthersKeepBatch
<1>3. BatchInv(q)'
  <2> USE DEF Goto
  <2>0. BatchInv(q) /\ PassShape(q) /\ pc \in [Procs -> PCs] /\ pc[q] \in PCs
    BY DEF AllBatchInv, BatchInv, Typed
  <2>b. /\ from \in [Procs -> Offset] /\ next \in [Procs -> Offset] /\ left \in [Procs -> SUBSET Days]
        /\ batch \in [Procs -> Seq(Ids \cup {Junk})] /\ todo = [r \in Procs |-> todo[r]]
    BY DEF Typed, PassTyped
  <2>c. clock' = clock /\ clock \in Nat /\ began[q] <= clock
    BY <2>0 DEF Grows, Typed, BatchInv, BeganBefore
  <2>1. CASE \/ \E k \in Kinds, s \in Sessions, f \in Families \cup {None} : Begin(q, k, s, f)
             \/ Pass(q) \/ TornWrite(q) \/ Repair(q) \/ Write(q) \/ Cleanup(q)
    <3>1. UNCHANGED <<from, began, left, batch, next, todo>>
      BY <2>1 DEF Begin, Pass, TornWrite, Repair, Write, Cleanup, pass
    <3>2. pc[q] \in {"idle", "repair", "write", "cleanup"}
      BY <2>1 DEF Begin, Pass, TornWrite, Repair, Write, Cleanup
    <3>3. pc'[q] \in {"idle", "repair", "write", "cleanup", "load"}
      BY <2>0, <2>1 DEF Begin, Pass, TornWrite, Repair, Write, Cleanup, AfterAppend
    <3>4. batch'[q] = <<>> /\ left'[q] = {} /\ todo'[q] = {} /\ next'[q] = from'[q] /\ from'[q] = Start
      BY <2>0, <3>1, <3>2 DEF PassShape, Reading
    <3>5. pc'[q] \in PCs \ Reading
      BY <3>3 DEF PCs, Reading
    <3> QED BY <2>c, <3>1, <3>4, <3>5, EmptyBatch
  <2>2. CASE Load(q)
    <3>1. UNCHANGED <<began, left, batch, todo>> /\ pc[q] = "load" /\ pc'[q] = "list"
          /\ from'[q] = offset /\ next'[q] = offset
      BY <2>0, <2>b, <2>2 DEF Load
    <3>2. batch'[q] = <<>> /\ left'[q] = {} /\ todo'[q] = {}
      BY <2>0, <3>1 DEF PassShape, Reading
    <3>3. pc'[q] \in PCs \ Reading
      BY <3>1 DEF PCs, Reading
    <3> QED BY <2>c, <3>1, <3>2, <3>3, EmptyBatch
  <2>3. CASE List(q)
    BY <1>1, <2>0, <2>3, ListKeepsBatch
  <2>4. CASE Read(q)
    <3>1. PICK d \in left[q] :
            /\ \A e \in left[q] : d <= e
            /\ left' = [left EXCEPT ![q] = @ \ {d}]
            /\ IF seg[d].exists
               THEN /\ batch' = [batch EXCEPT ![q] = @ \o LinesAfter(d, DoneOf(q, d))]
                    /\ next' = [next EXCEPT ![q] = [seg |-> d, line |-> Len(seg[d].lines)]]
               ELSE UNCHANGED <<batch, next>>
      BY <2>4 DEF Read, DoneOf
    <3>2. CASE seg[d].exists
      BY <1>1, <2>0, <2>4, <3>1, <3>2, ReadKeepsBatch
    <3>3. CASE ~seg[d].exists
      BY <2>0, <2>4, <3>1, <3>3, SkipKeepsBatch
    <3> QED BY <3>2, <3>3
  <2>5. ASSUME Forget(q), pc' = [pc EXCEPT ![q] = "idle"] PROVE BatchInv(q)'
    <3>1. pc'[q] = "idle" /\ "idle" \in PCs \ Reading
      BY <2>0, <2>5 DEF PCs, Reading
    <3> QED BY <2>5, <2>c, <3>1, ForgetEmpties, EmptyBatch
  <2>6. CASE Fail(q) \/ Store(q)
    BY <2>5, <2>6 DEF Fail, Store
  <2>7. CASE ReadDone(q)
    <3>1. CASE UNCHANGED pass /\ pc' = [pc EXCEPT ![q] = "decide"]
      <4>1. UNCHANGED <<clock, written, seg, from, began, left, batch, next, todo>> /\ pc[q] = "read"
            /\ pc'[q] = "decide" /\ left[q] = {}
        BY <2>0, <2>7, <3>1 DEF ReadDone, journal, pass
      <4>2. todo'[q] = {}
        BY <2>0, <4>1 DEF PassShape
      <4> QED BY <2>0, <4>1, <4>2, SameBatch DEF Reading
    <3> QED BY <2>5, <2>7, <3>1 DEF ReadDone
  <2>8. CASE Decide(q)
    <3>1. CASE Pending(batch[q])
      BY <2>5, <2>8, <3>1 DEF Decide
    <3>2. CASE ~Pending(batch[q])
      <4>1. UNCHANGED <<clock, written, seg, from, began, left, batch, next>> /\ pc[q] = "decide"
        BY <2>8, <3>2 DEF Decide, journal
      <4>2. PICK T : /\ pc' = [pc EXCEPT ![q] = IF T = {} THEN "store" ELSE "derive"]
                     /\ T = {} => todo' = [todo EXCEPT ![q] = {}]
        BY <2>8, <3>2 DEF Decide
      <4>3. pc'[q] \in {"store", "derive"} /\ (pc'[q] = "store" => todo'[q] = {})
        BY <2>0, <2>b, <4>2
      <4>4. left[q] = {}
        BY <2>0, <4>1 DEF PassShape
      <4> QED BY <2>0, <4>1, <4>3, <4>4, SameBatch DEF Reading
    <3> QED BY <3>1, <3>2
  <2>9. CASE Derive(q)
    <3>1. PICK c \in todo[q] : /\ todo' = [todo EXCEPT ![q] = @ \ {c}]
                              /\ pc' = [pc EXCEPT ![q] = IF todo[q] = {c} THEN "store" ELSE "derive"]
      BY <2>9 DEF Derive
    <3>2. UNCHANGED <<clock, written, seg, from, began, left, batch, next>> /\ pc[q] = "derive"
      BY <2>9 DEF Derive
    <3>3. pc'[q] \in {"store", "derive"} /\ (pc'[q] = "store" => todo'[q] = {})
      BY <2>0, <2>b, <3>1
    <3>4. left[q] = {}
      BY <2>0, <3>2 DEF PassShape
    <3> QED BY <2>0, <3>2, <3>3, <3>4, SameBatch DEF Reading
  <2> QED BY <2>1, <2>2, <2>3, <2>4, <2>6, <2>7, <2>8, <2>9 DEF Acts, Step
<1> QED BY <1>2, <1>3 DEF AllBatchInv

LEMMA TickKeepsBatch ==
  ASSUME Typed, AllBatchInv, Tick
  PROVE  AllBatchInv'
<1>1. ASSUME NEW p \in Procs PROVE BatchInv(p)'
  <2>1. UNCHANGED <<written, seg, from, began, left, batch, next, todo, pc>> /\ BatchInv(p)
    BY DEF Tick, journal, pass, AllBatchInv
  <2>2. BatchIsWritten(p)' /\ BatchInOrder(p)' /\ BatchIsDense(p)' /\ BatchReachesEnd(p)'
    BY <2>1 DEF BatchInv, BatchIsWritten, BatchInOrder, BatchIsDense, BatchReachesEnd, InBatch,
       DayOf, Alive, Day
  <2>3. BatchBehindOffset(p)' /\ LeftBehindOffset(p)' /\ NothingElse(p)' /\ NextPassesBatch(p)'
    BY <2>1 DEF BatchInv, BatchBehindOffset, LeftBehindOffset, NothingElse, NextPassesBatch,
       InBatch, DayOf, Alive, Day
  <2>4. PassShape(p)'
    BY <2>1 DEF BatchInv, PassShape
  <2>5. BeganBefore(p)'
    <3>1. /\ clock' = clock + 1 /\ clock \in Nat /\ began[p] \in Nat /\ PassTime \in Nat
          /\ pc[p] \in {"read", "decide"} => clock < began[p] + PassTime
      BY FlagDerivationAssumption DEF Tick, Typed
    <3> QED BY <2>1, <3>1 DEF BatchInv, BeganBefore
  <2> QED BY <2>2, <2>3, <2>4, <2>5 DEF BatchInv
<1> QED BY <1>1 DEF AllBatchInv

LEMMA InitBatch == Init => PassTyped /\ AllBatchInv
<1> SUFFICES ASSUME Init PROVE PassTyped /\ AllBatchInv
  OBVIOUS
<1>1. PassTyped
  <2>1. <<>> \in Seq(Ids \cup {Junk})
    OBVIOUS
  <2> QED BY <2>1 DEF Init, PassTyped
<1>2. ASSUME NEW p \in Procs PROVE BatchInv(p)
  <2>1. /\ batch[p] = <<>> /\ left[p] = {} /\ todo[p] = {} /\ pc[p] = "idle"
        /\ from[p] = Start /\ next[p] = Start /\ began[p] = 0 /\ clock = 0
    BY DEF Init
  <2>2. DOMAIN batch[p] = {} /\ \A x : ~InBatch(p, x)
    BY <2>1 DEF InBatch
  <2> QED BY <2>1, <2>2 DEF BatchInv, BatchIsWritten, BatchInOrder, BatchIsDense, BatchReachesEnd,
       BatchBehindOffset, LeftBehindOffset, NothingElse, NextPassesBatch, PassShape,
       BeganBefore, Reading, InFront, Start
<1> QED BY <1>1, <1>2 DEF AllBatchInv
-----------------------------------------------------------------------------
(* First retries, and what is settled *)

(* Times that are two days apart are more than a day's length apart.          *)
LEMMA DaysApart ==
  ASSUME NEW s \in Nat, NEW t \in Nat, Day(s) + 1 < Day(t)
  PROVE  t - s > DayLength
<1>1. DayLength \in Nat /\ DayLength > 0
  BY FlagDerivationAssumption
<1> DEFINE a == s \div DayLength
           b == t \div DayLength
<1>2. a \in Int /\ b \in Int /\ s < DayLength * a + DayLength /\ DayLength * b <= t
  BY <1>1
<1>3. a + 2 <= b
  BY <1>2 DEF Day
<1>4. DayLength * (a + 2) <= DayLength * b
  <2>1. ASSUME NEW u \in Int, NEW v \in Int, NEW l \in Nat, u <= v PROVE l * u <= l * v
    <3>1. v - u \in Nat
      BY <2>1
    <3>2. l * (v - u) >= 0
      BY <3>1
    <3>3. l * (v - u) = l * v - l * u
      OBVIOUS
    <3>4. l * u \in Int /\ l * v \in Int
      OBVIOUS
    <3> QED BY <3>2, <3>3, <3>4
  <2> QED BY <1>1, <1>2, <1>3, <2>1
<1>5. DayLength * (a + 2) = DayLength * a + 2 * DayLength
  BY <1>1, <1>2
<1>6. DayLength * a \in Int /\ DayLength * b \in Int
  BY <1>1, <1>2
<1> HIDE DEF a, b
<1> QED BY <1>1, <1>2, <1>4, <1>5, <1>6

(* What can be read of a written entry.                                       *)
EntryIsTyped ==
    \A x \in DOMAIN written :
        /\ written[x].n \in 1 .. Len(log)
        /\ log[written[x].n].ts \in Nat
        /\ Retries(x) \subseteq Nat /\ Retries(x) \subseteq DOMAIN written
        /\ Retries(x) # {} => /\ Min(Retries(x)) \in Retries(x)
                              /\ \A y \in Retries(x) : Min(Retries(x)) <= y

LEMMA EntryTyped == Typed /\ FilesInv => EntryIsTyped
<1> SUFFICES ASSUME Typed, FilesInv, NEW x \in DOMAIN written
             PROVE  /\ written[x].n \in 1 .. Len(log)
                    /\ log[written[x].n].ts \in Nat
                    /\ Retries(x) \subseteq Nat /\ Retries(x) \subseteq DOMAIN written
                    /\ Retries(x) # {} => /\ Min(Retries(x)) \in Retries(x)
                                          /\ \A y \in Retries(x) : Min(Retries(x)) <= y
  BY DEF EntryIsTyped
<1>1. written[x].n \in 1 .. Len(log)
  BY DEF FilesInv, WrittenOnce
<1>2. log[written[x].n].ts \in Nat
  <2>1. log[written[x].n] \in Entry
    BY <1>1 DEF Typed
  <2> QED BY <2>1, FlagDerivationAssumption DEF Entry
<1>3. Retries(x) \subseteq Nat /\ Retries(x) \subseteq DOMAIN written
  BY WrittenTyped DEF Retries, WrittenIsTyped
<1>4. Retries(x) # {} => /\ Min(Retries(x)) \in Retries(x)
                         /\ \A y \in Retries(x) : Min(Retries(x)) <= y
  BY <1>3, MinIsLeast
<1> QED BY <1>1, <1>2, <1>3, <1>4

(* A command only appends: a failure keeps its first retry, and gets its      *)
(* first one when that is written.                                            *)
Prospers(x) ==
    /\ x \in DOMAIN written' /\ written'[x] = written[x]
    /\ log'[written'[x].n] = log[written[x].n]
    /\ Failure(written[x].n)' <=> Failure(written[x].n)
    /\ Retries(x) # {} => /\ Retries(x)' # {} /\ Min(Retries(x))' = Min(Retries(x))
                          /\ CorrectedInTime(x)' <=> CorrectedInTime(x)
                          /\ Corrected(x)' <=> Corrected(x)
    /\ Retries(x) = {} => \A y \in Retries(x)' : written'[y].at = clock

LEMMA RetriesKept ==
  ASSUME Typed, Typed', FilesInv, FilesInv', Grows, NEW x \in DOMAIN written
  PROVE  Prospers(x)
<1>1. WrittenIsTyped /\ WrittenIsTyped' /\ EntryIsTyped /\ EntryIsTyped'
  <2>1. (Typed => WrittenIsTyped)'
    BY WrittenTyped, PTL
  <2>2. (Typed /\ FilesInv => EntryIsTyped)'
    BY EntryTyped, PTL
  <2> QED BY <2>1, <2>2, WrittenTyped, EntryTyped
<1>2. \A y \in DOMAIN written : y \in DOMAIN written' /\ written'[y] = written[y]
  BY <1>1 DEF Grows, WrittenIsTyped
<1>3. \A y \in DOMAIN written : log'[written'[y].n] = log[written[y].n]
  BY <1>1, <1>2 DEF Grows, EntryIsTyped
<1>4. Failure(written[x].n)' <=> Failure(written[x].n)
  BY <1>2, <1>3 DEF Failure
<1>5. \A y \in DOMAIN written : y \in Retries(x)' <=> y \in Retries(x)
  BY <1>2, <1>3 DEF Retries, Invokes
<1>6. \A y \in Retries(x)' : y \in Retries(x) \/ (y \notin DOMAIN written /\ written'[y].at = clock)
  <2>1. ASSUME NEW y \in Retries(x)', y \notin Retries(x)
        PROVE  y \notin DOMAIN written /\ written'[y].at = clock
    <3>1. y \in DOMAIN written' /\ y \notin DOMAIN written
      BY <1>5, <2>1 DEF Retries
    <3> QED BY <3>1 DEF Grows
  <2> QED BY <2>1
<1>7. ASSUME Retries(x) # {}
      PROVE  /\ Retries(x)' # {} /\ Min(Retries(x))' = Min(Retries(x))
             /\ CorrectedInTime(x)' <=> CorrectedInTime(x)
             /\ Corrected(x)' <=> Corrected(x)
  <2> DEFINE m == Min(Retries(x))
             n == Min(Retries(x))'
  <2>1. m \in Retries(x) /\ m \in DOMAIN written /\ m \in Retries(x)' /\ \A y \in Retries(x) : m <= y
    BY <1>1, <1>5, <1>7 DEF EntryIsTyped
  <2>2. n \in Retries(x)' /\ \A y \in Retries(x)' : n <= y
    BY <1>1, <1>2, <2>1 DEF EntryIsTyped
  <2>3. m \in Nat /\ n \in Nat /\ n <= m
    BY <1>1, <1>2, <2>1, <2>2 DEF EntryIsTyped
  <2>4. n \in DOMAIN written
    <3>1. n \in DOMAIN written' /\ DOMAIN written' = 1 .. Len(written')
      BY <1>1, <1>2, <2>2 DEF WrittenIsTyped, EntryIsTyped
    <3>2. DOMAIN written = 1 .. Len(written) /\ Len(written) \in Nat /\ Len(written') \in Nat
      BY <1>1 DEF WrittenIsTyped
    <3> HIDE DEF m, n
    <3> QED BY <2>1, <2>3, <3>1, <3>2
  <2>5. m <= n
    BY <1>5, <2>1, <2>2, <2>4
  <2>6. n = m
    BY <2>3, <2>5
  <2>7. Retries(x)' # {}
    BY <2>2
  <2>8. Corrected(x)' <=> Corrected(x)
    BY <1>2, <1>3, <1>4, <1>7, <2>1, <2>6, <2>7 DEF Corrected
  <2>9. CorrectedInTime(x)' <=> CorrectedInTime(x)
    BY <1>2, <1>3, <2>1, <2>6, <2>8 DEF CorrectedInTime, JournaledBy
  <2> QED BY <2>6, <2>7, <2>8, <2>9
<1>8. ASSUME Retries(x) = {} PROVE \A y \in Retries(x)' : written'[y].at = clock
  BY <1>6, <1>8
<1> QED BY <1>2, <1>3, <1>4, <1>7, <1>8 DEF Prospers

(* What is settled stays settled.                                             *)
LEMMA SettlesKept ==
  ASSUME Typed, Typed', FilesInv, FilesInv', Grows, \A n \in Ids : counted'[n] >= counted[n],
         PassTyped, PassTyped', NEW x \in DOMAIN written, Settles(x)
  PROVE  Settles(x)'
<1>1. Prospers(x)
  BY RetriesKept
<1>2. WrittenIsTyped /\ EntryIsTyped /\ EntryIsTyped'
  <2>1. (Typed /\ FilesInv => EntryIsTyped)'
    BY EntryTyped, PTL
  <2> QED BY <2>1, WrittenTyped, EntryTyped
<1>3. written[x].n \in Ids /\ counted[written[x].n] \in 0 .. 2 /\ counted'[written[x].n] \in 0 .. 2
  BY <1>2 DEF WrittenIsTyped, PassTyped
<1>4. CASE counted[written[x].n] > 0
  BY <1>1, <1>3, <1>4 DEF Settles, Prospers
<1>5. CASE ~CorrectedInTime(x) /\ Retries(x) # {}
  BY <1>1, <1>5 DEF Settles, Prospers
<1>6. CASE Retries(x) = {} /\ clock > log[written[x].n].ts + Window
  <2>1. clock' = clock /\ clock' > log'[written'[x].n].ts + Window
    BY <1>1, <1>6 DEF Grows, Prospers
  <2>2. ASSUME CorrectedInTime(x)' PROVE FALSE
    <3>1. /\ Retries(x)' # {}
          /\ written'[Min(Retries(x))'].at + PassTime <= log'[written'[x].n].ts + Window
      BY <2>2 DEF CorrectedInTime, JournaledBy, Corrected
    <3>2. Min(Retries(x))' \in Retries(x)'
      BY <1>1, <1>2, <3>1 DEF EntryIsTyped, Prospers
    <3>3. written'[Min(Retries(x))'].at = clock
      BY <1>1, <1>6, <3>2 DEF Prospers
    <3>4. clock \in Nat /\ log'[written'[x].n].ts \in Nat /\ Window \in Nat
          /\ PassTime \in Nat
      BY <1>1, <1>2, FlagDerivationAssumption DEF Typed, EntryIsTyped, Prospers
    <3> QED BY <2>1, <3>1, <3>3, <3>4
  <2> QED BY <2>1, <2>2 DEF Settles
<1> QED BY <1>4, <1>5, <1>6 DEF Settles

(* ... and with it all that is in front of an offset.                         *)
LEMMA FrontStaysSettled ==
  ASSUME Typed, Typed', FilesInv, FilesInv', Grows, \A n \in Ids : counted'[n] >= counted[n],
         PassTyped, PassTyped', NEW o \in Offset, Settled(o), AllSettled(o)
  PROVE  \A x \in DOMAIN written' :
            Alive(x)' /\ Failure(written[x].n)' /\ InFront(seg', o, written'[x].n) => Settles(x)'
<1> SUFFICES ASSUME NEW x \in DOMAIN written', Alive(x)', Failure(written[x].n)',
                    InFront(seg', o, written'[x].n)
             PROVE  Settles(x)'
  OBVIOUS
<1>1. x \in DOMAIN written /\ Alive(x) /\ InFront(seg, o, written[x].n)
  BY InFrontKept
<1>2. Failure(written[x].n)
  BY <1>1, RetriesKept DEF Prospers
<1>3. Settles(x)
  BY <1>1, <1>2 DEF AllSettled
<1> QED BY <1>1, <1>3, SettlesKept

(* A batch holds no entry that is only now written.                           *)
LEMMA BatchStaysOld ==
  ASSUME Typed, Typed', FilesInv, FilesInv', Grows, NEW p \in Procs, BatchIsWritten(p),
         batch'[p] = batch[p], NEW x \in DOMAIN written', InBatch(p, x)'
  PROVE  x \in DOMAIN written /\ InBatch(p, x)
<1>1. WrittenIsTyped /\ WrittenIsTyped'
  <2>1. (Typed => WrittenIsTyped)'
    BY WrittenTyped, PTL
  <2> QED BY <2>1, WrittenTyped
<1>2. \A y \in DOMAIN written : y \in DOMAIN written' /\ written'[y] = written[y]
  BY <1>1 DEF Grows, WrittenIsTyped
<1>3. PICK k \in DOMAIN batch[p] : batch[p][k] = written'[x].n
  BY DEF InBatch
<1>4. written'[x].n # Junk
  BY <1>1 DEF WrittenIsTyped
<1>5. PICK z \in DOMAIN written : written[z].n = batch[p][k]
  BY <1>3, <1>4 DEF BatchIsWritten
<1>6. z = x
  BY <1>2, <1>3, <1>5 DEF FilesInv, WrittenOnce
<1> QED BY <1>3, <1>5, <1>6 DEF InBatch

LEMMA BatchIsTyped ==
  ASSUME PassTyped, NEW p \in Procs
  PROVE  /\ DOMAIN batch[p] = 1 .. Len(batch[p]) /\ Len(batch[p]) \in Nat
         /\ \A i \in DOMAIN batch[p] : i \in Nat
BY DEF PassTyped

(* What is the next invocation in the batch is the first retry of the journal *)
(* as a whole: what the batch passed over went with its segment, and then the *)
(* correction came too late.                                                  *)
LEMMA FirstRetry ==
  ASSUME Typed, FilesInv, PassTyped, NEW p \in Procs, BatchInOrder(p), BatchIsDense(p),
         NEW x \in DOMAIN written, NEW y \in DOMAIN written,
         NEW i \in DOMAIN batch[p], NEW j \in DOMAIN batch[p],
         batch[p][i] = written[x].n, batch[p][j] = written[y].n, NextOf(batch[p], i, j),
         Alive(x) \/ Corrects(batch[p][j], batch[p][i])
  PROVE  Retries(x) # {} /\ Min(Retries(x)) = y
<1>0. WrittenIsTyped /\ EntryIsTyped
  BY WrittenTyped, EntryTyped
<1>1. i \in Nat /\ j \in Nat /\ DOMAIN batch[p] = 1 .. Len(batch[p])
  BY BatchIsTyped
<1>2. /\ i < j /\ Invokes(written[y].n, log[written[x].n].session)
      /\ \A k \in i + 1 .. j - 1 : ~Invokes(batch[p][k], log[written[x].n].session)
  BY DEF NextOf
<1>3. x < y
  BY <1>2 DEF BatchInOrder
<1>4. y \in Retries(x)
  BY <1>2, <1>3 DEF Retries
<1> DEFINE m == Min(Retries(x))
<1>5. m \in Retries(x) /\ m <= y /\ m \in DOMAIN written /\ m \in Nat /\ y \in Nat
  BY <1>0, <1>4 DEF EntryIsTyped
<1>6. x < m /\ Invokes(written[m].n, log[written[x].n].session)
  BY <1>5 DEF Retries
<1> HIDE DEF m
<1>7. ASSUME m # y PROVE FALSE
  <2>1. m < y
    BY <1>5, <1>7
  <2>2. InBatch(p, m) \/ (DayOf(x) < DayOf(m) /\ DayOf(m) < DayOf(y) /\ ~Alive(x))
    <3>1. InBatch(p, x) /\ InBatch(p, y)
      BY DEF InBatch
    <3> QED BY <1>5, <1>6, <2>1, <3>1 DEF BatchIsDense
  <2>3. CASE InBatch(p, m)
    <3>1. PICK k \in DOMAIN batch[p] : batch[p][k] = written[m].n
      BY <2>3 DEF InBatch
    <3>2. k \in Nat /\ x \in Nat
      BY <1>0, BatchIsTyped DEF WrittenIsTyped
    <3>3. ~(k < i) /\ ~(j < k)
      BY <1>5, <1>6, <2>1, <3>1, <3>2 DEF BatchInOrder
    <3>4. k # i /\ k # j
      BY <1>5, <1>6, <2>1, <3>1, <3>2 DEF FilesInv, WrittenOnce
    <3>5. k \in i + 1 .. j - 1
      BY <1>1, <3>2, <3>3, <3>4
    <3> QED BY <1>2, <1>6, <3>1, <3>5
  <2>4. CASE DayOf(x) < DayOf(m) /\ DayOf(m) < DayOf(y) /\ ~Alive(x)
    <3>1. /\ DayOf(x) \in Nat /\ DayOf(m) \in Nat /\ DayOf(y) \in Nat
      BY <1>0, <1>5 DEF WrittenIsTyped
    <3>2. Day(log[written[x].n].ts) = DayOf(x) /\ Day(log[written[y].n].ts) = DayOf(y)
      BY DEF FilesInv, WrittenOnce
    <3>3. log[written[x].n].ts \in Nat /\ log[written[y].n].ts \in Nat
      BY <1>0 DEF EntryIsTyped
    <3>4. Day(log[written[x].n].ts) + 1 < Day(log[written[y].n].ts)
      BY <2>4, <3>1, <3>2
    <3>5. log[written[y].n].ts - log[written[x].n].ts > DayLength
      BY <3>3, <3>4, DaysApart
    <3>6. log[written[y].n].ts - log[written[x].n].ts <= Window
      BY <2>4 DEF Corrects
    <3> QED BY <3>3, <3>5, <3>6, FlagDerivationAssumption
  <2> QED BY <2>2, <2>3, <2>4
<1> QED BY <1>4, <1>7 DEF m

(* A pair is of a failure and its first retry in the journal.                 *)
LEMMA PairIsCorrected ==
  ASSUME Typed, FilesInv, PassTyped, NEW p \in Procs, BatchInv(p),
         NEW i \in DOMAIN batch[p], PairedAt(batch[p], i)
  PROVE  \E x \in DOMAIN written : written[x].n = batch[p][i] /\ Corrected(x)
<1>1. Failure(batch[p][i]) /\ BatchIsWritten(p) /\ BatchInOrder(p) /\ BatchIsDense(p)
  BY DEF PairedAt, BatchInv
<1>2. PICK j \in DOMAIN batch[p] : NextOf(batch[p], i, j) /\ Corrects(batch[p][j], batch[p][i])
  BY DEF PairedAt
<1>3. batch[p][i] # Junk /\ batch[p][j] # Junk
  BY <1>1, <1>2 DEF Failure, NextOf, Invokes
<1>4. PICK x \in DOMAIN written : written[x].n = batch[p][i]
  BY <1>1, <1>3 DEF BatchIsWritten
<1>5. PICK y \in DOMAIN written : written[y].n = batch[p][j]
  BY <1>1, <1>3 DEF BatchIsWritten
<1>6. Retries(x) # {} /\ Min(Retries(x)) = y
  BY <1>1, <1>2, <1>4, <1>5, FirstRetry
<1>7. /\ log[written[y].n].kind = "fixed"
      /\ log[written[y].n].ts >= log[written[x].n].ts
      /\ log[written[y].n].ts - log[written[x].n].ts <= Window
  BY <1>2, <1>4, <1>5 DEF Corrects
<1>8. log[written[y].n].ts \in Nat /\ log[written[x].n].ts \in Nat /\ Window \in Nat
  BY EntryTyped, FlagDerivationAssumption DEF EntryIsTyped
<1>9. log[written[y].n].ts - log[written[x].n].ts \in 0 .. Window
  BY <1>7, <1>8
<1>10. Corrected(x)
  BY <1>1, <1>4, <1>6, <1>7, <1>9 DEF Corrected
<1> QED BY <1>4, <1>10

(* A failure with no next invocation in a batch that is not pending can no    *)
(* longer be corrected in time.                                               *)
LEMMA AgedIsSettled ==
  ASSUME Typed, FilesInv, PassTyped, NEW p \in Procs, BatchInv(p), pc[p] = "decide",
         ~Pending(batch[p]),
         NEW x \in DOMAIN written, Alive(x), Failure(written[x].n),
         NEW i \in DOMAIN batch[p], batch[p][i] = written[x].n,
         \A j \in DOMAIN batch[p] : ~NextOf(batch[p], i, j)
  PROVE  Settles(x)
<1>0. WrittenIsTyped /\ EntryIsTyped
  BY WrittenTyped, EntryTyped
<1>1. ~(clock <= log[written[x].n].ts + Window)
  BY DEF Pending
<1>2. clock \in Nat /\ log[written[x].n].ts \in Nat /\ Window \in Nat
  BY <1>0, FlagDerivationAssumption DEF Typed, EntryIsTyped
<1>3. clock > log[written[x].n].ts + Window
  BY <1>1, <1>2
<1>4. ASSUME CorrectedInTime(x) PROVE FALSE
  <2> DEFINE y == Min(Retries(x))
  <2>1. /\ y \in Retries(x) /\ y \in DOMAIN written /\ y \in Nat
        /\ written[y].at + PassTime <= log[written[x].n].ts + Window
    BY <1>0, <1>4 DEF EntryIsTyped, CorrectedInTime, JournaledBy, Corrected
  <2>2. x < y /\ Invokes(written[y].n, log[written[x].n].session)
    BY <2>1 DEF Retries
  <2> HIDE DEF y
  <2>3. written[y].at \in Nat /\ ~(written[y].at >= began[p]) /\ x \in Nat
    <3>1. written[y].at \in Nat /\ x \in Nat
      BY <1>0, <2>1 DEF WrittenIsTyped
    <3>2. clock <= began[p] + PassTime /\ began[p] \in Nat /\ PassTime \in Nat
      BY FlagDerivationAssumption DEF BatchInv, BeganBefore, Typed
    <3> QED BY <1>2, <1>3, <2>1, <3>1, <3>2
  <2>4. ASSUME InBatch(p, y) PROVE FALSE
    <3>1. PICK k \in DOMAIN batch[p] : batch[p][k] = written[y].n
      BY <2>4 DEF InBatch
    <3>2. i \in Nat /\ k \in Nat /\ DOMAIN batch[p] = 1 .. Len(batch[p]) /\ Len(batch[p]) \in Nat
      BY BatchIsTyped
    <3>3. ~(k < i)
      BY <2>1, <2>2, <2>3, <3>1 DEF BatchInv, BatchInOrder
    <3>4. k # i
      BY <2>1, <2>2, <2>3, <3>1 DEF FilesInv, WrittenOnce
    <3> DEFINE T == {l \in DOMAIN batch[p] : i < l /\ Invokes(batch[p][l], log[batch[p][i]].session)}
    <3>5. k \in T /\ T \subseteq Nat
      BY <2>2, <3>1, <3>2, <3>3, <3>4
    <3>6. PICK l \in T : \A u \in T : l <= u
      <4> HIDE DEF T
      <4> QED BY <3>5, LeastExists
    <3>7. \A u \in i + 1 .. l - 1 : ~Invokes(batch[p][u], log[batch[p][i]].session)
      <4>1. ASSUME NEW u \in i + 1 .. l - 1, Invokes(batch[p][u], log[batch[p][i]].session)
            PROVE  FALSE
        <5>1. l \in Nat /\ l \in 1 .. Len(batch[p])
          BY <3>2, <3>6
        <5>2. u \in Nat /\ u < l /\ i < u /\ u \in 1 .. Len(batch[p])
          BY <3>2, <4>1, <5>1
        <5>3. u \in T
          BY <3>2, <4>1, <5>2
        <5> HIDE DEF T
        <5> QED BY <3>6, <5>1, <5>2, <5>3
      <4> QED BY <4>1
    <3>8. NextOf(batch[p], i, l)
      BY <3>6, <3>7 DEF NextOf
    <3> QED BY <3>6, <3>8
  <2>5. DayOf(x) \in Nat /\ DayOf(y) \in Nat /\ DayOf(x) <= DayOf(y) /\ DayOf(x) \in Days
    <3>1. written[x].at <= written[y].at /\ written[x].at \in Nat
      BY <1>0, <2>1, <2>2 DEF FilesInv, WrittenOnce, WrittenIsTyped
    <3>2. Day(written[x].at) <= Day(written[y].at)
      BY <2>3, <3>1, DayMonotone
    <3> QED BY <1>0, <2>1, <3>2 DEF WrittenIsTyped, DayOf
  <2>6. InBatch(p, x)
    BY DEF InBatch
  <2>7. CASE DayOf(x) = DayOf(y)
    BY <2>1, <2>2, <2>3, <2>4, <2>6, <2>7 DEF BatchInv, BatchReachesEnd
  <2>8. CASE DayOf(x) < DayOf(y)
    <3>1. Alive(y)
      BY <2>1, <2>5, <2>8 DEF FilesInv, OldestGoFirst, Alive
    <3>2. InFront(seg, from[p], written[y].n)
      <4>1. left[p] = {} /\ pc[p] \in Reading
        BY DEF BatchInv, PassShape, Reading
      <4> QED BY <2>1, <2>3, <2>4, <3>1, <4>1 DEF BatchInv, NothingElse
    <3>3. PICK k \in DOMAIN seg[DayOf(y)].lines : seg[DayOf(y)].lines[k] = written[y].n
      BY <2>1, <3>1 DEF FilesInv, WrittenAreLines
    <3>4. from[p] \in Offset
      BY DEF Typed
    <3>5. from[p].seg # None /\ (DayOf(y) < from[p].seg \/ DayOf(y) = from[p].seg)
      BY <2>1, <3>2, <3>3, <3>4, LinesHavePlaces DEF LinePlaces
    <3>6. from[p].seg <= DayOf(x)
      BY <2>6, <3>5 DEF BatchInv, BatchBehindOffset
    <3> HIDE DEF y
    <3>7. from[p].seg \in Days
      BY <3>4, <3>5 DEF Offset
    <3> QED BY <2>5, <2>8, <3>5, <3>6, <3>7, SegmentTyped DEF SegIsTyped
  <2> QED BY <2>5, <2>7, <2>8
<1> QED BY <1>3, <1>4 DEF Settles

(* A batch that is not pending is settled by what its pairs will count.       *)
LEMMA DecidedIsSettled ==
  ASSUME Typed, FilesInv, PassTyped, NEW p \in Procs, BatchInv(p), pc[p] = "decide",
         ~Pending(batch[p]),
         NEW x \in DOMAIN written, Alive(x), Failure(written[x].n), InBatch(p, x)
  PROVE  Settles(x) \/ \E i \in DOMAIN batch[p] : batch[p][i] = written[x].n /\ PairedAt(batch[p], i)
<1>1. PICK i \in DOMAIN batch[p] : batch[p][i] = written[x].n
  BY DEF InBatch
<1>2. CASE \A j \in DOMAIN batch[p] : ~NextOf(batch[p], i, j)
  BY <1>1, <1>2, AgedIsSettled
<1>3. ASSUME NEW j \in DOMAIN batch[p], NextOf(batch[p], i, j)
      PROVE  Settles(x) \/ PairedAt(batch[p], i)
  <2>1. CASE Corrects(batch[p][j], batch[p][i])
    BY <1>1, <1>3, <2>1 DEF PairedAt
  <2>2. CASE ~Corrects(batch[p][j], batch[p][i])
    <3>1. PICK y \in DOMAIN written : written[y].n = batch[p][j]
      BY <1>3 DEF NextOf, Invokes, BatchInv, BatchIsWritten
    <3>2. Retries(x) # {} /\ Min(Retries(x)) = y
      BY <1>1, <1>3, <3>1, FirstRetry DEF BatchInv
    <3>3. ~Corrected(x)
      <4>1. log[written[y].n].ts \in Nat /\ log[written[x].n].ts \in Nat /\ Window \in Nat
        BY EntryTyped, FlagDerivationAssumption DEF EntryIsTyped
      <4>2. ASSUME Corrected(x) PROVE FALSE
        <5>1. /\ log[written[y].n].kind = "fixed"
              /\ log[written[y].n].ts - log[written[x].n].ts \in 0 .. Window
          BY <3>2, <4>2 DEF Corrected
        <5>2. /\ log[written[y].n].ts >= log[written[x].n].ts
              /\ log[written[y].n].ts - log[written[x].n].ts <= Window
          BY <4>1, <5>1
        <5> QED BY <1>1, <2>2, <3>1, <5>1, <5>2 DEF Corrects
      <4> QED BY <4>2
    <3> QED BY <3>2, <3>3 DEF Settles, CorrectedInTime, JournaledBy
  <2> QED BY <2>1, <2>2
<1> QED BY <1>1, <1>2, <1>3
-----------------------------------------------------------------------------
(* Steps, and what they settle *)

(* Only a pass that derives counts, and what it counts it adds.               *)
LEMMA CountsGrow ==
  ASSUME PassTyped, NEW q \in Procs, Acts(q)
  PROVE  /\ \A n \in Ids : counted'[n] >= counted[n]
         /\ pc[q] # "derive" => counted' = counted
<1>1. counted \in [Ids -> 0 .. 2]
  BY DEF PassTyped
<1>2. CASE Derive(q)
  <2>1. PICK c \in todo[q] : counted' = [counted EXCEPT ![c.n] = Smaller(@ + 1, 2)]
    BY <1>2 DEF Derive
  <2>2. \A i \in 0 .. 2 : Smaller(i + 1, 2) >= i /\ i >= i
    BY DEF Smaller
  <2>3. pc[q] = "derive"
    BY <1>2 DEF Derive
  <2> QED BY <1>1, <2>1, <2>2, <2>3
<1>3. CASE counted' = counted
  BY <1>1, <1>3
<1>4. Acts(q) => Derive(q) \/ counted' = counted
  BY DEF Acts, Step, Begin, Pass, TornWrite, Fail, Repair, Write, Cleanup, Load, List, Read,
         ReadDone, Decide, Store, journal
<1> QED BY <1>2, <1>3, <1>4

(* Another command's step leaves a pass its settled batch and sound pairs.    *)
LEMMA OthersStaySettled ==
  ASSUME Typed, Typed', FilesInv, FilesInv', Grows, \A n \in Ids : counted'[n] >= counted[n],
         PassTyped, PassTyped', NEW p \in Procs, BatchInv(p), Settled(from[p]),
         AllSettled(from[p]), BatchSettled(p), PairsSound(p),
         todo'[p] = todo[p], from'[p] = from[p],
         (batch'[p] = batch[p] /\ pc'[p] = pc[p]) \/ pc'[p] \notin {"derive", "store"}
  PROVE  AllSettled(from[p])' /\ BatchSettled(p)' /\ PairsSound(p)'
<1>1. AllSettled(from[p])'
  <2>1. from[p] \in Offset
    BY DEF Typed
  <2> QED BY <2>1, FrontStaysSettled DEF AllSettled
<1>2. BatchSettled(p)'
  <2>1. ASSUME pc'[p] \in {"derive", "store"}, NEW x \in DOMAIN written', InBatch(p, x)',
               Alive(x)', Failure(written[x].n)'
        PROVE  Settles(x)' \/ \E c \in todo[p] : c.n = written'[x].n
    <3>1. x \in DOMAIN written /\ InBatch(p, x)
      BY <2>1, BatchStaysOld DEF BatchInv
    <3>2. Prospers(x) /\ Alive(x)
      BY <2>1, <3>1, RetriesKept, InFrontKept
    <3>3. Settles(x) \/ \E c \in todo[p] : c.n = written[x].n
      BY <2>1, <3>1, <3>2 DEF BatchSettled, Prospers
    <3> QED BY <3>1, <3>2, <3>3, SettlesKept DEF Prospers
  <2> QED BY <2>1 DEF BatchSettled
<1>3. PairsSound(p)'
  <2>1. ASSUME NEW x \in DOMAIN written, Corrected(x)
        PROVE  x \in DOMAIN written' /\ written'[x].n = written[x].n /\ Corrected(x)'
    BY <2>1, RetriesKept DEF Prospers, Corrected
  <2> QED BY <2>1 DEF PairsSound
<1> QED BY <1>1, <1>2, <1>3

(* What is said of the journal alone is as it was when the journal is.        *)
LEMMA JournalAsItWas ==
  ASSUME UNCHANGED <<log, written, seg>>, NEW x
  PROVE  /\ Retries(x)' = Retries(x)
         /\ Failure(written[x].n)' <=> Failure(written[x].n)
         /\ Corrected(x)' <=> Corrected(x)
         /\ CorrectedInTime(x)' <=> CorrectedInTime(x)
         /\ DayOf(x)' = DayOf(x)
         /\ Alive(x)' <=> Alive(x)
<1>1. Retries(x)' = Retries(x) /\ (Failure(written[x].n)' <=> Failure(written[x].n))
  BY DEF Retries, Invokes, Failure
<1>2. Corrected(x)' <=> Corrected(x)
  BY <1>1 DEF Corrected
<1>3. CorrectedInTime(x)' <=> CorrectedInTime(x)
  BY <1>1, <1>2 DEF CorrectedInTime, JournaledBy
<1>4. DayOf(x)' = DayOf(x) /\ (Alive(x)' <=> Alive(x))
  BY DEF DayOf, Alive, Day
<1> QED BY <1>1, <1>2, <1>3, <1>4

LEMMA NothingBeforeStart == \A segs, n : ~InFront(segs, Start, n)
BY DEF InFront, Start

LEMMA DecideSettles ==
  ASSUME Typed, FilesInv, PassTyped, NEW p \in Procs, BatchInv(p), Decide(p),
         ~Pending(batch[p])
  PROVE  BatchSettled(p)' /\ PairsSound(p)'
<1>1. /\ UNCHANGED <<clock, log, written, seg, counted>> /\ batch' = batch /\ pc[p] = "decide"
  BY DEF Decide, journal
<1>2. PICK f : todo'[p] = {[n |-> batch[p][i], at |-> i, family |-> f[i]]
                            : i \in {k \in DOMAIN batch[p] : PairedAt(batch[p], k)}}
  <2> DEFINE g == [i \in DOMAIN batch[p] |->
                      LET s == log[batch[p][i]].session
                      IN  LastRecall(SubSeq(batch[p], 1, i), s, Seed(from[p], s))]
             T == {[n |-> batch[p][i], at |-> i, family |-> g[i]]
                            : i \in {k \in DOMAIN batch[p] : PairedAt(batch[p], k)}}
  <2>1. todo' = [todo EXCEPT ![p] = T]
    BY DEF Decide
  <2> HIDE DEF g, T
  <2>2. todo'[p] = T
    BY <2>1 DEF PassTyped
  <2> QED BY <2>2 DEF T
<1>3. /\ \A i \in DOMAIN batch[p] : PairedAt(batch[p], i) => \E c \in todo'[p] : c.n = batch[p][i]
      /\ \A c \in todo'[p] : \E i \in DOMAIN batch[p] : PairedAt(batch[p], i) /\ c.n = batch[p][i]
  <2>1. ASSUME NEW i \in DOMAIN batch[p], PairedAt(batch[p], i)
        PROVE  \E c \in todo'[p] : c.n = batch[p][i]
    <3> DEFINE c == [n |-> batch[p][i], at |-> i, family |-> f[i]]
    <3>1. c \in todo'[p]
      BY <1>2, <2>1
    <3> QED BY <3>1
  <2>2. ASSUME NEW c \in todo'[p]
        PROVE  \E i \in DOMAIN batch[p] : PairedAt(batch[p], i) /\ c.n = batch[p][i]
    BY <1>2
  <2> QED BY <2>1, <2>2
<1>4. ASSUME NEW x \in DOMAIN written, InBatch(p, x), Alive(x), Failure(written[x].n)
      PROVE  Settles(x) \/ \E c \in todo'[p] : c.n = written[x].n
  <2>1. Settles(x) \/ \E i \in DOMAIN batch[p] : batch[p][i] = written[x].n /\ PairedAt(batch[p], i)
    BY <1>1, <1>4, DecidedIsSettled
  <2> QED BY <1>3, <2>1
<1>5. ASSUME NEW c \in todo'[p]
      PROVE  \E x \in DOMAIN written : written[x].n = c.n /\ Corrected(x)
  BY <1>3, PairIsCorrected
<1>6. ASSUME NEW x
      PROVE  /\ Settles(x)' <=> Settles(x)
             /\ Corrected(x)' <=> Corrected(x)
             /\ InBatch(p, x)' <=> InBatch(p, x)
             /\ Alive(x)' <=> Alive(x)
             /\ Failure(written[x].n)' <=> Failure(written[x].n)
  BY <1>1, JournalAsItWas DEF InBatch, Settles
<1>7. BatchSettled(p)'
  BY <1>1, <1>4, <1>6 DEF BatchSettled
<1>8. PairsSound(p)'
  BY <1>1, <1>5, <1>6 DEF PairsSound
<1> QED BY <1>7, <1>8

(* Counting a pair settles its failure; the others wait.                      *)
LEMMA DeriveSettles ==
  ASSUME Typed, Typed', PassTyped, PassTyped', NEW p \in Procs, Derive(p),
         BatchSettled(p), PairsSound(p), PairSound
  PROVE  BatchSettled(p)' /\ PairsSound(p)' /\ PairSound'
<1>1. PICK c \in todo[p] : /\ counted' = [counted EXCEPT ![c.n] = Smaller(@ + 1, 2)]
                            /\ todo' = [todo EXCEPT ![p] = @ \ {c}]
  BY DEF Derive
<1>2. /\ UNCHANGED <<clock, log, written, seg>> /\ batch' = batch /\ pc[p] = "derive"
  BY DEF Derive
<1>3. PICK z \in DOMAIN written : written[z].n = c.n /\ Corrected(z)
  BY DEF PairsSound
<1>4. c.n \in Ids
  BY <1>3, WrittenTyped DEF WrittenIsTyped
<1>5. counted'[c.n] > 0 /\ \A n \in Ids : counted'[n] >= counted[n] /\ (n # c.n => counted'[n] = counted[n])
  <2>1. counted[c.n] \in 0 .. 2 /\ counted \in [Ids -> 0 .. 2]
    BY <1>4 DEF PassTyped
  <2>2. \A i \in 0 .. 2 : Smaller(i + 1, 2) > 0 /\ Smaller(i + 1, 2) >= i
    BY DEF Smaller
  <2>3. counted'[c.n] = Smaller(counted[c.n] + 1, 2)
    BY <1>1, <1>4, <2>1
  <2>4. \A n \in Ids : n # c.n => counted'[n] = counted[n]
    BY <1>1, <2>1
  <2>5. \A n \in Ids : counted[n] >= counted[n]
    BY <2>1
  <2> QED BY <2>1, <2>2, <2>3, <2>4, <2>5
<1>6. todo'[p] = todo[p] \ {c}
  BY <1>1 DEF PassTyped
<1>7. ASSUME NEW x
      PROVE  /\ Corrected(x)' <=> Corrected(x)
             /\ CorrectedInTime(x)' <=> CorrectedInTime(x)
             /\ Retries(x)' = Retries(x)
             /\ InBatch(p, x)' <=> InBatch(p, x)
             /\ Alive(x)' <=> Alive(x)
             /\ Failure(written[x].n)' <=> Failure(written[x].n)
  BY <1>2, JournalAsItWas DEF InBatch
<1>8. ASSUME NEW x \in DOMAIN written, Settles(x) PROVE Settles(x)'
  <2>1. written[x].n \in Ids /\ counted[written[x].n] \in 0 .. 2 /\ counted'[written[x].n] \in 0 .. 2
    BY WrittenTyped DEF WrittenIsTyped, PassTyped
  <2> QED BY <1>2, <1>5, <1>7, <1>8, <2>1 DEF Settles
<1>9. BatchSettled(p)'
  <2>1. ASSUME NEW x \in DOMAIN written, InBatch(p, x), Alive(x), Failure(written[x].n)
        PROVE  Settles(x)' \/ \E e \in todo'[p] : e.n = written[x].n
    <3>1. Settles(x) \/ \E e \in todo[p] : e.n = written[x].n
      BY <1>2, <2>1 DEF BatchSettled
    <3>2. CASE c.n = written[x].n
      BY <1>2, <1>5, <3>2 DEF Settles
    <3> QED BY <1>6, <1>8, <3>1, <3>2
  <2> QED BY <1>2, <1>7, <2>1 DEF BatchSettled
<1>10. PairsSound(p)'
  BY <1>2, <1>6, <1>7 DEF PairsSound
<1>11. PairSound'
  <2>1. ASSUME NEW n \in Ids, counted'[n] > 0
        PROVE  \E i \in DOMAIN written : written[i].n = n /\ Corrected(i)
    <3>1. CASE n = c.n
      BY <1>3, <3>1
    <3>2. CASE n # c.n
      BY <1>5, <2>1, <3>2 DEF PairSound
    <3> QED BY <3>1, <3>2
  <2> QED BY <1>2, <1>7, <2>1 DEF PairSound
<1> QED BY <1>9, <1>10, <1>11

(* A pass that stores its offset has counted all its pairs.                   *)
LEMMA StoreSettles ==
  ASSUME Typed, PassTyped, NEW p \in Procs, BatchInv(p), Store(p),
         AllSettled(from[p]), BatchSettled(p)
  PROVE  AllSettled(offset)'
<1>1. /\ UNCHANGED <<clock, log, written, seg, counted>> /\ offset' = next[p] /\ pc[p] = "store"
  BY DEF Store
<1>2. todo[p] = {}
  BY <1>1 DEF BatchInv, PassShape
<1>3. ASSUME NEW x \in DOMAIN written, Alive(x), Failure(written[x].n),
             InFront(seg, next[p], written[x].n)
      PROVE  Settles(x)
  <2>1. InFront(seg, from[p], written[x].n) \/ InBatch(p, x)
    BY <1>3 DEF BatchInv, NextPassesBatch
  <2> QED BY <1>1, <1>2, <1>3, <2>1 DEF AllSettled, BatchSettled
<1>4. ASSUME NEW x
      PROVE  /\ Settles(x)' <=> Settles(x)
             /\ Alive(x)' <=> Alive(x)
             /\ Failure(written[x].n)' <=> Failure(written[x].n)
  BY <1>1, JournalAsItWas DEF Settles
<1> QED BY <1>1, <1>3, <1>4 DEF AllSettled

LEMMA CountKept ==
  ASSUME Typed, Typed', PassTyped, PassTyped', OffsetInv, JournalInv, JournalInv', Grows,
         AllBatchInv, CountInv, NEW q \in Procs, Acts(q)
  PROVE  CountInv'
<1>0. FilesInv /\ FilesInv' /\ Settled(offset) /\ AllSettled(offset) /\ PairSound
      /\ offset \in Offset
  BY DEF JournalInv, OffsetInv, CountInv, Typed
<1>1. \A p \in Procs : BatchInv(p) /\ Settled(from[p]) /\ AllSettled(from[p])
                       /\ BatchSettled(p) /\ PairsSound(p)
  BY DEF AllBatchInv, OffsetInv, CountInv
<1>2. \A n \in Ids : counted'[n] >= counted[n]
  BY CountsGrow
<1>3. \A x \in DOMAIN written' :
         Alive(x)' /\ Failure(written[x].n)' /\ InFront(seg', offset, written'[x].n) => Settles(x)'
  BY <1>0, <1>2, FrontStaysSettled
<1>4. AllSettled(offset)'
  <2>1. CASE Store(q)
    BY <1>0, <1>1, <2>1, StoreSettles
  <2>2. CASE offset' = offset
    BY <1>3, <2>2 DEF AllSettled
  <2>3. Store(q) \/ offset' = offset
    BY DEF Acts, Step, Begin, Pass, TornWrite, Fail, Repair, Write, Cleanup, Load, List, Read,
           ReadDone, Decide, Derive, journal
  <2> QED BY <2>1, <2>2, <2>3
<1>5. PairSound'
  <2>1. CASE Derive(q)
    BY <1>0, <1>1, <2>1, DeriveSettles
  <2>2. CASE counted' = counted
    <3>1. ASSUME NEW x \in DOMAIN written, Corrected(x)
          PROVE  x \in DOMAIN written' /\ written'[x].n = written[x].n /\ Corrected(x)'
      BY <1>0, <3>1, RetriesKept DEF Prospers, Corrected
    <3> QED BY <1>0, <2>2, <3>1 DEF PairSound
  <2>3. Derive(q) \/ counted' = counted
    BY CountsGrow DEF Acts, Step, Begin, Pass, TornWrite, Fail, Repair, Write, Cleanup, Load, List,
           Read, ReadDone, Decide, Store, journal
  <2> QED BY <2>1, <2>2, <2>3
<1>6. ASSUME NEW p \in Procs, p # q
      PROVE  AllSettled(from[p])' /\ BatchSettled(p)' /\ PairsSound(p)'
  BY <1>0, <1>1, <1>2, <1>6, OthersUnchanged, OthersStaySettled
<1>7. AllSettled(from[q])' /\ BatchSettled(q)' /\ PairsSound(q)'
  <2> USE DEF Goto
  <2>0. /\ pc \in [Procs -> PCs] /\ from \in [Procs -> Offset] /\ next \in [Procs -> Offset]
        /\ left \in [Procs -> SUBSET Days] /\ batch \in [Procs -> Seq(Ids \cup {Junk})]
        /\ todo = [r \in Procs |-> todo[r]]
    BY DEF Typed, PassTyped
  <2>1. ASSUME todo'[q] = todo[q], from'[q] = from[q], pc'[q] \notin {"derive", "store"}
        PROVE  AllSettled(from[q])' /\ BatchSettled(q)' /\ PairsSound(q)'
    BY <1>0, <1>1, <1>2, <2>1, OthersStaySettled
  <2>2. ASSUME todo'[q] = {}, from'[q] = Start, pc'[q] \notin {"derive", "store"}
        PROVE  AllSettled(from[q])' /\ BatchSettled(q)' /\ PairsSound(q)'
    BY <2>2, NothingBeforeStart DEF AllSettled, BatchSettled, PairsSound
  <2>3. CASE \/ \E k \in Kinds, s \in Sessions, f \in Families \cup {None} : Begin(q, k, s, f)
             \/ Pass(q) \/ TornWrite(q) \/ Repair(q) \/ Write(q) \/ Cleanup(q)
    <3>1. UNCHANGED <<from, todo>>
      BY <2>3 DEF Begin, Pass, TornWrite, Repair, Write, Cleanup, pass
    <3>2. pc'[q] \in {"idle", "repair", "write", "cleanup", "load"}
      BY <2>0, <2>3 DEF Begin, Pass, TornWrite, Repair, Write, Cleanup, AfterAppend
    <3> QED BY <2>1, <3>1, <3>2
  <2>4. CASE List(q) \/ Read(q)
    <3>1. UNCHANGED <<from, todo>> /\ pc'[q] \in {"read"}
      BY <2>0, <2>4 DEF List, Read
    <3> QED BY <2>1, <3>1
  <2>5. CASE Load(q)
    <3>1. todo' = todo /\ from'[q] = offset /\ offset' = offset /\ pc'[q] = "list"
      BY <2>0, <2>5 DEF Load, journal
    <3>2. AllSettled(from[q])'
      BY <1>3, <3>1 DEF AllSettled
    <3>3. PairsSound(q)'
      <4>1. ASSUME NEW x \in DOMAIN written, Corrected(x)
            PROVE  x \in DOMAIN written' /\ written'[x].n = written[x].n /\ Corrected(x)'
        BY <1>0, <4>1, RetriesKept DEF Prospers, Corrected
      <4> QED BY <1>1, <3>1, <4>1 DEF PairsSound
    <3> QED BY <3>1, <3>2, <3>3 DEF BatchSettled
  <2>6. ASSUME Forget(q), pc' = [pc EXCEPT ![q] = "idle"]
        PROVE  AllSettled(from[q])' /\ BatchSettled(q)' /\ PairsSound(q)'
    <3>1. pc'[q] = "idle"
      BY <2>0, <2>6
    <3> QED BY <2>2, <2>6, <3>1, ForgetEmpties
  <2>7. CASE Fail(q) \/ Store(q)
    BY <2>6, <2>7 DEF Fail, Store
  <2>8. CASE ReadDone(q)
    <3>1. CASE UNCHANGED pass /\ pc' = [pc EXCEPT ![q] = "decide"]
      BY <2>0, <2>1, <3>1 DEF pass
    <3> QED BY <2>6, <2>8, <3>1 DEF ReadDone
  <2>9. CASE Decide(q)
    <3>1. CASE Pending(batch[q])
      BY <2>6, <2>9, <3>1 DEF Decide
    <3>2. CASE ~Pending(batch[q])
      <4>1. from' = from
        BY <2>9, <3>2 DEF Decide
      <4>2. AllSettled(from[q])'
        <5>1. from[q] \in Offset
          BY <2>0
        <5> QED BY <1>0, <1>1, <1>2, <4>1, <5>1, FrontStaysSettled DEF AllSettled
      <4> QED BY <1>0, <1>1, <2>9, <3>2, <4>2, DecideSettles
    <3> QED BY <3>1, <3>2
  <2>10. CASE Derive(q)
    <3>1. from' = from
      BY <2>10 DEF Derive
    <3>2. AllSettled(from[q])'
      <4>1. from[q] \in Offset
        BY <2>0
      <4> QED BY <1>0, <1>1, <1>2, <3>1, <4>1, FrontStaysSettled DEF AllSettled
    <3> QED BY <1>0, <1>1, <2>10, <3>2, DeriveSettles
  <2> QED BY <2>3, <2>4, <2>5, <2>7, <2>8, <2>9, <2>10 DEF Acts, Step
<1> QED BY <1>4, <1>5, <1>6, <1>7 DEF CountInv

LEMMA TickKeepsCount ==
  ASSUME Typed, FilesInv, CountInv, Tick
  PROVE  CountInv'
<1>1. UNCHANGED <<log, written, seg, offset, counted, from, batch, todo, pc>> /\ clock' = clock + 1
  BY DEF Tick, journal, pass
<1>2. ASSUME NEW x
      PROVE  /\ Failure(written[x].n)' <=> Failure(written[x].n)
             /\ Corrected(x)' <=> Corrected(x)
             /\ Alive(x)' <=> Alive(x)
  BY <1>1, JournalAsItWas
<1>3. ASSUME NEW x \in DOMAIN written, Settles(x) PROVE Settles(x)'
  <2>1. Retries(x)' = Retries(x) /\ (CorrectedInTime(x)' <=> CorrectedInTime(x))
    BY <1>1, JournalAsItWas
  <2>2. clock > log[written[x].n].ts + Window => clock + 1 > log[written[x].n].ts + Window
    <3>1. clock \in Nat /\ Window \in Nat
      BY FlagDerivationAssumption DEF Typed
    <3>2. log[written[x].n].ts \in Nat
      BY <1>3, EntryTyped DEF EntryIsTyped
    <3> QED BY <3>1, <3>2
  <2> QED BY <1>1, <1>3, <2>1, <2>2 DEF Settles
<1>4. AllSettled(offset)' /\ \A p \in Procs : AllSettled(from[p])'
  BY <1>1, <1>2, <1>3 DEF CountInv, AllSettled
<1>5. ASSUME NEW p \in Procs PROVE BatchSettled(p)' /\ PairsSound(p)'
  <2>1. BatchSettled(p) /\ PairsSound(p)
    BY DEF CountInv
  <2>2. BatchSettled(p)'
    BY <1>1, <1>2, <1>3, <2>1 DEF BatchSettled, InBatch
  <2>3. PairsSound(p)'
    BY <1>1, <1>2, <2>1 DEF PairsSound
  <2> QED BY <2>2, <2>3
<1>6. PairSound'
  BY <1>1, <1>2 DEF CountInv, PairSound
<1> QED BY <1>4, <1>5, <1>6 DEF CountInv

LEMMA InitCount == Init => CountInv
<1> SUFFICES ASSUME Init PROVE CountInv
  OBVIOUS
<1>1. /\ offset = Start /\ \A n \in Ids : ~(counted[n] > 0)
      /\ \A p \in Procs : from[p] = Start /\ todo[p] = {} /\ pc[p] = "idle"
  BY DEF Init
<1> QED BY <1>1, NothingBeforeStart DEF CountInv, AllSettled, BatchSettled, PairsSound, PairSound

(* The inductive invariant of the journal and its passes.                     *)
PassInv == Typed /\ PassTyped /\ OffsetInv /\ JournalInv /\ AllBatchInv /\ CountInv

LEMMA InitPass == Init => PassInv
BY InitTyped, InitBatch, InitOffset, InitJournal, InitCount DEF PassInv

LEMMA NextPass == Midnight = FALSE /\ PassInv /\ [Next]_vars => PassInv'
<1> SUFFICES ASSUME Midnight = FALSE, PassInv, [Next]_vars PROVE PassInv'
  OBVIOUS
<1> USE DEF PassInv
<1>1. Typed' /\ PassTyped' /\ OffsetInv'
  BY NextTyped, NextPassTyped, NextOffset
<1>2. CASE Tick
  <2>1. JournalInv'
    BY <1>2, TickKeepsJournal DEF OffsetInv
  <2> QED BY <1>1, <1>2, <2>1, TickKeepsBatch, TickKeepsCount DEF JournalInv
<1>3. ASSUME NEW q \in Procs, Acts(q) PROVE PassInv'
  <2>1. JournalInv' /\ Grows
    BY <1>3, JournalKept DEF OffsetInv
  <2>2. AllBatchInv'
    BY <1>1, <1>3, <2>1, BatchKept
  <2>3. CountInv'
    BY <1>1, <1>3, <2>1, CountKept
  <2> QED BY <1>1, <2>1, <2>2, <2>3
<1>4. CASE UNCHANGED vars
  <2>1. JournalInv' /\ Grows
    BY <1>4, QuietKeepsJournal DEF vars, journal
  <2>2. /\ UNCHANGED <<clock, log, written, seg, offset, counted, pc, from, began, left, batch, next, todo>>
        /\ \A n \in Ids : counted'[n] >= counted[n]
    <3>1. \A n \in Ids : counted[n] >= counted[n]
      BY DEF PassTyped
    <3> QED BY <1>4, <3>1 DEF vars, journal, pass
  <2>3. ASSUME NEW p \in Procs
        PROVE  BatchInv(p)' /\ AllSettled(from[p])' /\ BatchSettled(p)' /\ PairsSound(p)'
    <3>1. /\ BatchInv(p) /\ Settled(from[p]) /\ Settled(next[p]) /\ AllSettled(from[p])
          /\ BatchSettled(p) /\ PairsSound(p) /\ FilesInv /\ FilesInv'
      BY <2>1 DEF AllBatchInv, OffsetInv, CountInv, JournalInv
    <3> QED BY <1>1, <2>1, <2>2, <3>1, OthersKeepBatch, OthersStaySettled
  <2>4. AllSettled(offset)'
    <3>1. offset \in Offset /\ Settled(offset) /\ AllSettled(offset) /\ FilesInv /\ FilesInv'
      BY <2>1 DEF OffsetInv, CountInv, JournalInv, Typed
    <3> QED BY <1>1, <2>1, <2>2, <3>1, FrontStaysSettled DEF AllSettled
  <2>5. PairSound'
    <3>1. \A x : Corrected(x)' <=> Corrected(x)
      BY <2>2, JournalAsItWas
    <3> QED BY <2>2, <3>1 DEF CountInv, PairSound
  <2> QED BY <1>1, <2>1, <2>3, <2>4, <2>5 DEF AllBatchInv, CountInv
<1> QED BY <1>2, <1>3, <1>4 DEF Next, Acts

(* Where no append runs over midnight, the offset never moves past a failure  *)
(* whose correction was journaled at least PassTime, the longest a pass takes *)
(* from its listing to its decision, before the window closed, and was not    *)
(* counted: however passes overlap and die, and though the window may close   *)
(* amid any of them.  StoreJournalOffset only passes what                     *)
(* DeriveFlagCorrections has counted, what an earlier offset had passed, and  *)
(* what no correction can reach any more: a pass that meets a failure with    *)
(* its window closed listed the journal late enough to have found the         *)
(* correction.                                                                *)
THEOREM NoCorrectionIsSkipped ==
  ASSUME Midnight = FALSE
  PROVE  Spec => []NothingSkipped
<1>1. PassInv => NothingSkipped
  <2> SUFFICES ASSUME PassInv, NEW i \in DOMAIN written, CorrectedInTime(i), Consumed(written[i].n)
               PROVE  counted[written[i].n] > 0
    BY DEF NothingSkipped
  <2>1. FilesInv /\ Typed /\ AllSettled(offset)
    BY DEF PassInv, JournalInv, CountInv
  <2>2. offset.seg # None
    BY DEF Consumed
  <2>3. PICK d \in Days :
           \/ d < offset.seg /\ written[i].n \in ToSet(seg[d].lines)
           \/ /\ d = offset.seg
              /\ written[i].n \in ToSet(SubSeq(seg[d].lines, 1, Smaller(offset.line, Len(seg[d].lines))))
    BY DEF Consumed
  <2>4. PICK k \in DOMAIN seg[d].lines :
           seg[d].lines[k] = written[i].n /\ (d < offset.seg \/ (d = offset.seg /\ k <= offset.line))
    <3>1. seg[d].lines \in Seq(Ids \cup {Junk}) /\ Len(seg[d].lines) \in Nat
          /\ DOMAIN seg[d].lines = 1 .. Len(seg[d].lines)
      BY <2>1, SegmentTyped DEF SegIsTyped
    <3>2. CASE d < offset.seg /\ written[i].n \in ToSet(seg[d].lines)
      BY <3>2 DEF ToSet
    <3>3. CASE /\ d = offset.seg
               /\ written[i].n \in ToSet(SubSeq(seg[d].lines, 1, Smaller(offset.line, Len(seg[d].lines))))
      <4> DEFINE m == Smaller(offset.line, Len(seg[d].lines))
      <4>1. m \in Nat /\ m <= Len(seg[d].lines) /\ m <= offset.line /\ offset.line \in Nat
        BY <2>1, <3>1 DEF Smaller, Typed, Offset
      <4> HIDE DEF m
      <4>2. /\ DOMAIN SubSeq(seg[d].lines, 1, m) = 1 .. m
            /\ \A k \in 1 .. m : SubSeq(seg[d].lines, 1, m)[k] = seg[d].lines[k]
        BY <3>1, <4>1
      <4>3. PICK k \in 1 .. m : seg[d].lines[k] = written[i].n
        BY <3>3, <4>2 DEF ToSet, m
      <4> QED BY <3>1, <3>3, <4>1, <4>3
    <3> QED BY <2>3, <3>2, <3>3
  <2>5. InFront(seg, offset, written[i].n)
    BY <2>2, <2>4 DEF InFront
  <2>6. Alive(i)
    <3>1. DayOf(i) = d
      BY <2>1, <2>4, LinesHavePlaces DEF LinePlaces
    <3>2. seg[d].exists
      <4>1. DOMAIN NoSegment.lines = {}
        BY DEF NoSegment
      <4> QED BY <2>1, <2>4, <4>1 DEF FilesInv, GoneIsEmpty
    <3> QED BY <3>1, <3>2 DEF Alive
  <2>7. Failure(written[i].n)
    BY DEF CorrectedInTime, JournaledBy, Corrected
  <2>8. Settles(i)
    BY <2>1, <2>5, <2>6, <2>7 DEF AllSettled
  <2> QED BY <2>8 DEF Settles
<1> QED BY InitPass, NextPass, <1>1, PTL DEF Spec

(* Only a failure is counted that the next invocation of its command, in the  *)
(* session and in the journal as a whole, has corrected: pairFlagCorrections  *)
(* never takes a later invocation for the next one, whatever part of the      *)
(* journal its pass has read and whatever the caps have removed meanwhile.    *)
(* Again where no append runs over midnight.                                  *)
THEOREM PairsAreSound ==
  ASSUME Midnight = FALSE
  PROVE  Spec => []PairSound
<1>1. PassInv => PairSound
  BY DEF PassInv, CountInv
<1> QED BY InitPass, NextPass, <1>1, PTL DEF Spec
-----------------------------------------------------------------------------
(* Types *)

(* f is the family of the last recall of session s in es, or, without one,    *)
(* what it was before.                                                        *)
FromLastRecall(es, s, before, f) ==
    \/ f = before /\ \A k \in DOMAIN es : ~Recalls(es[k], s)
    \/ \E i \in DOMAIN es : /\ Recalls(es[i], s) /\ f = log[es[i]].family
                            /\ \A k \in DOMAIN es : Recalls(es[k], s) => k <= i

LEMMA LastRecallIsLast ==
  ASSUME NEW es, NEW s, NEW before, DOMAIN es = 1 .. Len(es), Len(es) \in Nat
  PROVE  FromLastRecall(es, s, before, LastRecall(es, s, before))
<1> DEFINE I == {i \in 1 .. Len(es) : Recalls(es[i], s)}
           last == IF I # {} THEN Max(I) ELSE 0
<1>1. LastRecall(es, s, before) = IF last = 0 THEN before ELSE log[es[last]].family
  BY DEF LastRecall, SelectLastInSeq
<1>2. CASE I = {}
  <2>1. last = 0 /\ \A k \in DOMAIN es : ~Recalls(es[k], s)
    BY <1>2
  <2> QED BY <1>1, <2>1 DEF FromLastRecall
<1>3. CASE I # {}
  <2>1. I \subseteq Nat /\ \A i \in I : i <= Len(es)
    OBVIOUS
  <2>2. Max(I) \in I /\ \A k \in I : k <= Max(I)
    <3> HIDE DEF I
    <3> QED BY <1>3, <2>1, MaxIsGreatest
  <2>3. last = Max(I) /\ last # 0 /\ last \in DOMAIN es /\ Recalls(es[last], s)
    BY <1>3, <2>2
  <2>4. \A k \in DOMAIN es : Recalls(es[k], s) => k <= last
    BY <2>2, <2>3
  <2> HIDE DEF last
  <2> QED BY <1>1, <2>3, <2>4 DEF FromLastRecall
<1> QED BY <1>2, <1>3

(* What TypeOK needs beyond Typed: lines, tails and batches hold entries of   *)
(* the log, and a pass that is not deriving has no pairs.                     *)
Logged(n) == n \in Nat /\ n <= Len(log)

Pairs(p) == [n : Ids, at : DOMAIN batch[p], family : Families \cup {None}]

TypeInv ==
    /\ Typed /\ PassTyped /\ GoneIsEmpty
    /\ faults <= MaxFaults
    /\ anchor \in [Ids -> SUBSET (Families \cup {None})]
    /\ \A x \in DOMAIN written : Logged(written[x].n)
    /\ \A d \in Days : /\ \A k \in DOMAIN seg[d].lines : Logged(seg[d].lines[k])
                       /\ seg[d].tail = None \/ Logged(seg[d].tail)
    /\ \A p \in Procs :
          /\ \A k \in DOMAIN batch[p] : Logged(batch[p][k])
          /\ todo[p] \subseteq Pairs(p)
          /\ pc[p] # "derive" => todo[p] = {}
          /\ pc[p] \in {"repair", "write", "cleanup"} => mine[p] \in 1 .. Len(log)

(* Elements that are in the log make a sequence of its entries.               *)
LEMMA SequenceOfLogged ==
  ASSUME Len(log) \in Nat, NEW S, NEW s \in Seq(S), \A k \in DOMAIN s : Logged(s[k])
  PROVE  s \in Seq(0 .. Len(log))
<1>1. Len(s) \in Nat /\ DOMAIN s = 1 .. Len(s) /\ s = [k \in 1 .. Len(s) |-> s[k]]
  OBVIOUS
<1>2. \A k \in 1 .. Len(s) : s[k] \in 0 .. Len(log)
  BY <1>1 DEF Logged
<1>3. s \in [1 .. Len(s) -> 0 .. Len(log)]
  BY <1>1, <1>2
<1> QED BY <1>1, <1>3, SeqDef

LEMMA TypesSuffice == TypeInv => TypeOK
<1> SUFFICES ASSUME TypeInv PROVE TypeOK
  OBVIOUS
<1>1. Typed /\ PassTyped /\ GoneIsEmpty /\ Len(log) \in Nat
  BY DEF TypeInv, Typed
<1>2. written \in Seq([n : 1 .. Len(log), at : 0 .. MaxClock])
  <2> DEFINE E == [n : 1 .. Len(log), at : 0 .. MaxClock]
  <2>1. Len(written) \in Nat /\ DOMAIN written = 1 .. Len(written)
        /\ written = [x \in 1 .. Len(written) |-> written[x]]
    BY <1>1 DEF Typed
  <2>2. ASSUME NEW x \in 1 .. Len(written) PROVE written[x] \in E
    <3>1. written[x].n \in Ids /\ written[x] \in [n : Ids, at : 0 .. MaxClock] /\ Logged(written[x].n)
      <4>1. written \in Seq([n : Ids, at : 0 .. MaxClock])
        BY <1>1 DEF Typed
      <4>2. written[x] \in [n : Ids, at : 0 .. MaxClock]
        <5>1. \A W : written \in Seq(W) => written[x] \in W
          BY <2>1, <2>2
        <5> QED BY <4>1, <5>1
      <4> QED BY <2>1, <2>2, <4>2 DEF TypeInv
    <3>2. written[x].n \in 1 .. Len(log)
      BY <1>1, <3>1 DEF Logged, Ids
    <3> QED BY <3>1, <3>2
  <2>3. written \in [1 .. Len(written) -> E]
    <3> HIDE DEF E
    <3> QED BY <2>1, <2>2
  <2> HIDE DEF E
  <2>4. written \in Seq(E)
    BY <2>1, <2>3, SeqDef
  <2> QED BY <2>4 DEF E
<1>3. ASSUME NEW p \in Procs
      PROVE  /\ batch[p] \in Seq(0 .. Len(log))
             /\ todo[p] \subseteq [n : Ids, at : DOMAIN batch[p], family : Families \cup {None}]
             /\ pc[p] \in {"repair", "write", "cleanup"} => mine[p] \in 1 .. Len(log)
  <2>1. batch[p] \in Seq(0 .. Len(log))
    BY <1>1, SequenceOfLogged DEF TypeInv, PassTyped
  <2> QED BY <2>1 DEF TypeInv, Pairs
<1>4. faults \in 0 .. MaxFaults
  BY <1>1, FlagDerivationAssumption DEF TypeInv, Typed
<1>5. /\ clock \in 0 .. MaxClock /\ log \in Seq(Entry) /\ Len(log) <= MaxEntries
      /\ seg \in [Days -> Segment] /\ (\A d \in Days : ~seg[d].exists => seg[d] = NoSegment)
      /\ offset \in Offset /\ counted \in [Ids -> 0 .. 2]
      /\ pc \in [Procs -> PCs] /\ mine \in [Procs -> Ids \cup {Junk}] /\ target \in [Procs -> Days]
      /\ from \in [Procs -> Offset] /\ next \in [Procs -> Offset] /\ left \in [Procs -> SUBSET Days]
      /\ began \in [Procs -> 0 .. MaxClock]
  BY <1>1 DEF Typed, PassTyped, GoneIsEmpty
<1>6. anchor \in [Ids -> SUBSET (Families \cup {None})]
  BY DEF TypeInv
<1> QED BY <1>2, <1>3, <1>4, <1>5, <1>6 DEF TypeOK

LEMMA InitTypeInv == Init => TypeInv
<1> SUFFICES ASSUME Init PROVE TypeInv
  OBVIOUS
<1>1. Typed /\ PassTyped
  BY InitTyped, InitBatch
<1>2. DOMAIN written = {} /\ \A d \in Days : seg[d] = NoSegment
  BY DEF Init
<1>3. \A d \in Days : DOMAIN seg[d].lines = {} /\ seg[d].tail = None /\ seg[d] = NoSegment
  <2>1. DOMAIN NoSegment.lines = {} /\ NoSegment.tail = None
    BY DEF NoSegment
  <2> QED BY <1>2, <2>1
<1>4. \A p \in Procs : DOMAIN batch[p] = {} /\ todo[p] = {} /\ pc[p] = "idle"
  BY DEF Init
<1>5. faults <= MaxFaults /\ anchor \in [Ids -> SUBSET (Families \cup {None})]
  BY FlagDerivationAssumption DEF Init
<1> QED BY <1>1, <1>2, <1>3, <1>4, <1>5 DEF TypeInv, GoneIsEmpty

(* A segment gets one line more, of the log, and the entry in it is written.  *)
LEMMA LineStaysLogged ==
  ASSUME TypeInv, NEW d \in Days, NEW line \in Ids \cup {Junk}, Logged(line),
         written' = written \o Readable(line),
         seg'[d].lines = Append(seg[d].lines, line), seg'[d].tail = None, seg'[d].exists,
         \A e \in Days : e # d => seg'[e] = seg[e], UNCHANGED log
  PROVE  /\ GoneIsEmpty' /\ \A x \in DOMAIN written' : Logged(written[x].n)'
         /\ \A e \in Days : /\ \A k \in DOMAIN seg'[e].lines : Logged(seg[e].lines[k])'
                            /\ seg'[e].tail = None \/ Logged(seg[e].tail)'
<1>1. Typed /\ \A n : Logged(n)' <=> Logged(n)
  BY DEF TypeInv, Logged
<1>2. ASSUME NEW x \in DOMAIN written' PROVE Logged(written'[x].n)
  <2>1. /\ DOMAIN written = 1 .. Len(written) /\ Len(written) \in Nat
        /\ DOMAIN written' = 1 .. Len(written')
        /\ Len(written') = Len(written) + (IF line = Junk THEN 0 ELSE 1)
        /\ \A y \in DOMAIN written : written'[y] = written[y]
        /\ line # Junk => written'[Len(written) + 1] = [n |-> line, at |-> clock]
    BY <1>1, ReadableAdds
  <2>2. CASE x \in DOMAIN written
    BY <2>1, <2>2 DEF TypeInv
  <2>3. CASE x \notin DOMAIN written
    <3>1. line # Junk /\ x = Len(written) + 1
      BY <1>2, <2>1, <2>3
    <3>2. written'[x].n = line
      BY <2>1, <3>1
    <3> QED BY <3>2
  <2> QED BY <2>2, <2>3
<1>3. ASSUME NEW k \in DOMAIN seg'[d].lines PROVE Logged(seg'[d].lines[k])
  <2>1. seg[d].lines \in Seq(Ids \cup {Junk}) /\ DOMAIN seg[d].lines = 1 .. Len(seg[d].lines)
        /\ Len(seg[d].lines) \in Nat
    BY <1>1, SegmentTyped DEF SegIsTyped
  <2>2. /\ DOMAIN Append(seg[d].lines, line) = 1 .. Len(seg[d].lines) + 1
        /\ Append(seg[d].lines, line)[Len(seg[d].lines) + 1] = line
        /\ \A i \in 1 .. Len(seg[d].lines) : Append(seg[d].lines, line)[i] = seg[d].lines[i]
    BY <2>1
  <2>3. k \in DOMAIN seg[d].lines \/ k = Len(seg[d].lines) + 1
    BY <1>3, <2>1, <2>2
  <2> QED BY <2>1, <2>2, <2>3 DEF TypeInv
<1>4. ASSUME NEW e \in Days
      PROVE  /\ \A k \in DOMAIN seg'[e].lines : Logged(seg'[e].lines[k])
             /\ seg'[e].tail = None \/ Logged(seg'[e].tail)
  <2>1. CASE e = d
    BY <1>3, <2>1
  <2>2. CASE e # d
    BY <2>2 DEF TypeInv
  <2> QED BY <2>1, <2>2
<1>5. GoneIsEmpty'
  BY DEF TypeInv, GoneIsEmpty
<1> QED BY <1>1, <1>2, <1>4, <1>5

(* What a pass alone changes.                                                 *)
LEMMA PassKeepsTypes ==
  ASSUME TypeInv, Typed', PassTyped', UNCHANGED <<log, written, seg, mine>>,
         faults' <= MaxFaults, anchor' \in [Ids -> SUBSET (Families \cup {None})],
         NEW p \in Procs, \A k \in DOMAIN batch'[p] : Logged(batch'[p][k]),
         todo'[p] \subseteq Pairs(p)', pc'[p] # "derive" => todo'[p] = {},
         pc'[p] \notin {"repair", "write", "cleanup"},
         \A q \in Procs : q # p => /\ batch'[q] = batch[q] /\ todo'[q] = todo[q] /\ pc'[q] = pc[q]
  PROVE  TypeInv'
<1>1. \A n : Logged(n)' <=> Logged(n)
  BY DEF Logged
<1>2. ASSUME NEW q \in Procs
      PROVE  /\ \A k \in DOMAIN batch'[q] : Logged(batch'[q][k])
             /\ todo'[q] \subseteq Pairs(q)'
             /\ pc'[q] # "derive" => todo'[q] = {}
             /\ pc'[q] \in {"repair", "write", "cleanup"} => mine'[q] \in 1 .. Len(log')
  <2>1. CASE q = p
    BY <2>1
  <2>2. CASE q # p
    <3>1. Pairs(q)' = Pairs(q)
      BY <2>2 DEF Pairs, Ids
    <3> QED BY <2>2, <3>1 DEF TypeInv
  <2> QED BY <2>1, <2>2
<1>3. GoneIsEmpty'
  BY DEF TypeInv, GoneIsEmpty
<1> QED BY <1>1, <1>2, <1>3 DEF TypeInv

(* What an append changes. *)
LEMMA AppendKeepsTypes ==
  ASSUME TypeInv, Typed', PassTyped', UNCHANGED <<anchor, batch, todo>>, faults' <= MaxFaults,
         Len(log') \in Nat, Len(log) <= Len(log'), Len(log) \in Nat,
         GoneIsEmpty', \A x \in DOMAIN written' : Logged(written[x].n)',
         \A e \in Days : /\ \A k \in DOMAIN seg'[e].lines : Logged(seg[e].lines[k])'
                         /\ seg'[e].tail = None \/ Logged(seg[e].tail)',
         NEW p \in Procs, pc[p] # "derive", pc'[p] # "derive",
         pc'[p] \in {"repair", "write", "cleanup"} => mine'[p] \in 1 .. Len(log'),
         \A q \in Procs : q # p => pc'[q] = pc[q] /\ mine'[q] = mine[q]
  PROVE  TypeInv'
<1>1. \A n : Logged(n) => Logged(n)'
  BY DEF Logged
<1>2. ASSUME NEW q \in Procs
      PROVE  /\ \A k \in DOMAIN batch'[q] : Logged(batch[q][k])'
             /\ todo'[q] \subseteq Pairs(q)'
             /\ pc'[q] # "derive" => todo'[q] = {}
             /\ pc'[q] \in {"repair", "write", "cleanup"} => mine'[q] \in 1 .. Len(log')
  <2>1. /\ \A k \in DOMAIN batch[q] : Logged(batch[q][k])
        /\ todo[q] \subseteq Pairs(q) /\ (pc[q] # "derive" => todo[q] = {})
        /\ pc[q] \in {"repair", "write", "cleanup"} => mine[q] \in 1 .. Len(log)
    BY DEF TypeInv
  <2>2. Pairs(q)' = Pairs(q)
    BY DEF Pairs, Ids
  <2>3. CASE q = p
    BY <1>1, <2>1, <2>2, <2>3
  <2>4. CASE q # p
    BY <1>1, <2>1, <2>2, <2>4
  <2> QED BY <2>3, <2>4
<1> QED BY <1>2 DEF TypeInv

(* A pair that is decided on is typed: its family is one a recall was logged  *)
(* with, or none.                                                             *)
LEMMA LastRecallTyped ==
  ASSUME Typed, NEW es, DOMAIN es = 1 .. Len(es), Len(es) \in Nat,
         \A k \in DOMAIN es : Logged(es[k]), NEW s, NEW before \in Families \cup {None}
  PROVE  LastRecall(es, s, before) \in Families \cup {None}
<1> DEFINE f == LastRecall(es, s, before)
<1>1. FromLastRecall(es, s, before, f)
  BY LastRecallIsLast
<1>2. ASSUME NEW i \in DOMAIN es, Recalls(es[i], s), f = log[es[i]].family
      PROVE  f \in Families \cup {None}
  <2>1. es[i] \in 1 .. Len(log)
    BY <1>2 DEF Logged, Recalls, Junk
  <2>2. log[es[i]] \in Entry
    BY <2>1 DEF Typed
  <2> HIDE DEF f
  <2> QED BY <1>2, <2>2 DEF Entry
<1> HIDE DEF f
<1>3. f \in Families \cup {None}
  BY <1>1, <1>2 DEF FromLastRecall
<1> QED BY <1>3 DEF f

LEMMA BeforeTyped ==
  ASSUME TypeInv, NEW o \in Offset, NEW d \in Days
  PROVE  /\ DOMAIN Before(o, d) = 1 .. Len(Before(o, d)) /\ Len(Before(o, d)) \in Nat
         /\ \A k \in DOMAIN Before(o, d) : Logged(Before(o, d)[k])
<1> DEFINE whole == IF seg[d].tail = None THEN seg[d].lines ELSE Append(seg[d].lines, seg[d].tail)
<1>1. /\ seg[d].lines \in Seq(Ids \cup {Junk}) /\ seg[d].tail \in Ids \cup {Junk, None}
      /\ DOMAIN seg[d].lines = 1 .. Len(seg[d].lines) /\ Len(seg[d].lines) \in Nat
      /\ \A k \in DOMAIN seg[d].lines : Logged(seg[d].lines[k])
      /\ seg[d].tail = None \/ Logged(seg[d].tail)
  BY SegmentTyped DEF SegIsTyped, TypeInv
<1>2. /\ whole \in Seq(Ids \cup {Junk}) /\ DOMAIN whole = 1 .. Len(whole) /\ Len(whole) \in Nat
      /\ \A k \in DOMAIN whole : Logged(whole[k])
  <2>1. CASE seg[d].tail = None
    BY <1>1, <2>1
  <2>2. CASE seg[d].tail # None
    <3>1. whole = Append(seg[d].lines, seg[d].tail) /\ seg[d].tail \in Ids \cup {Junk}
      BY <1>1, <2>2
    <3>2. /\ whole \in Seq(Ids \cup {Junk}) /\ Len(whole) = Len(seg[d].lines) + 1
          /\ DOMAIN whole = 1 .. Len(seg[d].lines) + 1
          /\ \A k \in 1 .. Len(seg[d].lines) : whole[k] = seg[d].lines[k]
          /\ whole[Len(seg[d].lines) + 1] = seg[d].tail
      <4> HIDE DEF whole
      <4> QED BY <1>1, <3>1
    <3> HIDE DEF whole
    <3> QED BY <1>1, <2>2, <3>2
  <2> QED BY <2>1, <2>2
<1> HIDE DEF whole
<1>3. CASE d < o.seg
  <2>1. Before(o, d) = whole
    BY <1>3 DEF Before, whole
  <2> QED BY <1>2, <2>1
<1>4. CASE ~(d < o.seg)
  <2> DEFINE m == Smaller(o.line, Len(whole))
  <2>1. Before(o, d) = SubSeq(whole, 1, m)
    BY <1>4 DEF Before, whole
  <2>2. m \in Nat /\ m <= Len(whole)
    BY <1>2 DEF Smaller, Offset
  <2> HIDE DEF m
  <2>3. /\ Len(SubSeq(whole, 1, m)) = m /\ DOMAIN SubSeq(whole, 1, m) = 1 .. m
        /\ \A k \in 1 .. m : SubSeq(whole, 1, m)[k] = whole[k]
    BY <1>2, <2>2
  <2> QED BY <1>2, <2>1, <2>2, <2>3
<1> QED BY <1>3, <1>4

LEMMA SeedTyped ==
  ASSUME TypeInv, NEW o \in Offset, NEW s
  PROVE  Seed(o, s) \in Families \cup {None}
<1> DEFINE days == IF o.seg = None THEN {}
                   ELSE {d \in 0 .. o.seg : \E n \in ToSet(Before(o, d)) : Recalls(n, s)}
<1>1. Seed(o, s) = IF days = {} THEN None ELSE LastRecall(Before(o, Max(days)), s, None)
  BY DEF Seed
<1>2. CASE days = {}
  BY <1>1, <1>2
<1>3. CASE days # {}
  <2>1. o.seg \in Days /\ o.seg \in Nat /\ Typed
    BY <1>3, SegmentTyped DEF Offset, TypeInv, SegIsTyped
  <2>2. days \subseteq Days /\ \A d \in days : d <= o.seg /\ d \in Nat
    <3>1. Day(MaxClock) \in Nat
      BY FlagDerivationAssumption, DayMonotone
    <3>2. days \subseteq 0 .. o.seg
      OBVIOUS
    <3> HIDE DEF days
    <3> QED BY <2>1, <3>1, <3>2 DEF Days
  <2>3. Max(days) \in days
    <3> HIDE DEF days
    <3>1. days \subseteq Nat
      BY <2>2
    <3> QED BY <1>3, <2>1, <2>2, <3>1, MaxIsGreatest
  <2> HIDE DEF days
  <2>4. Max(days) \in Days
    BY <2>2, <2>3
  <2>5. LastRecall(Before(o, Max(days)), s, None) \in Families \cup {None}
    BY <2>1, <2>4, BeforeTyped, LastRecallTyped
  <2> QED BY <1>1, <2>5
<1> QED BY <1>2, <1>3

LEMMA DecideTyped ==
  ASSUME TypeInv, NEW p \in Procs, Decide(p), ~Pending(batch[p])
  PROVE  /\ todo'[p] \subseteq Pairs(p) /\ UNCHANGED batch
         /\ pc'[p] # "derive" => todo'[p] = {}
         /\ \A q \in Procs : q # p => todo'[q] = todo[q]
<1> DEFINE fam(i) == LastRecall(SubSeq(batch[p], 1, i), log[batch[p][i]].session,
                                Seed(from[p], log[batch[p][i]].session))
           pairs == {i \in DOMAIN batch[p] : PairedAt(batch[p], i)}
           T == {[n |-> batch[p][i], at |-> i, family |-> fam(i)] : i \in pairs}
<1>0. Typed /\ batch[p] \in Seq(Ids \cup {Junk}) /\ from[p] \in Offset
  BY DEF TypeInv, Typed, PassTyped
<1>1. todo' = [todo EXCEPT ![p] = T] /\ UNCHANGED batch
      /\ Goto(p, IF pairs = {} THEN "store" ELSE "derive")
  BY DEF Decide
<1>2. ASSUME NEW i \in pairs
      PROVE  [n |-> batch[p][i], at |-> i, family |-> fam(i)] \in Pairs(p)
  <2>1. batch[p][i] \in Ids
    BY <1>0, <1>2 DEF PairedAt, Failure
  <2>2. i \in DOMAIN batch[p] /\ i \in 1 .. Len(batch[p]) /\ Len(batch[p]) \in Nat /\ i \in Nat
    BY <1>0, <1>2
  <2>3. fam(i) \in Families \cup {None}
    <3> DEFINE es == SubSeq(batch[p], 1, i)
    <3>1. DOMAIN es = 1 .. i /\ Len(es) = i /\ \A k \in 1 .. i : es[k] = batch[p][k]
      BY <1>0, <2>2
    <3>2. \A k \in DOMAIN es : Logged(es[k])
      <4>1. \A k \in 1 .. i : k \in DOMAIN batch[p]
        BY <1>0, <2>2
      <4> HIDE DEF es
      <4> QED BY <3>1, <4>1 DEF TypeInv
    <3>3. Seed(from[p], log[batch[p][i]].session) \in Families \cup {None}
      BY <1>0, SeedTyped
    <3> HIDE DEF es
    <3>4. LastRecall(es, log[batch[p][i]].session, Seed(from[p], log[batch[p][i]].session))
             \in Families \cup {None}
      BY <1>0, <2>2, <3>1, <3>2, <3>3, LastRecallTyped
    <3> QED BY <3>4 DEF es
  <2> HIDE DEF fam
  <2> QED BY <2>1, <2>2, <2>3 DEF Pairs
<1>3. T \subseteq Pairs(p)
  <2> HIDE DEF fam, pairs
  <2> QED BY <1>2
<1>4. pairs = {} => T = {}
  OBVIOUS
<1> HIDE DEF T, pairs
<1>5. todo'[p] = T /\ \A q \in Procs : q # p => todo'[q] = todo[q]
  BY <1>1 DEF TypeInv, PassTyped
<1>6. pc'[p] # "derive" => pairs = {}
  BY <1>0, <1>1 DEF Goto, Typed
<1> QED BY <1>1, <1>3, <1>4, <1>5, <1>6

LEMMA NextTypeInv == TypeInv /\ [Next]_vars => TypeInv'
<1> SUFFICES ASSUME TypeInv, [Next]_vars PROVE TypeInv'
  OBVIOUS
<1>0. Typed /\ PassTyped /\ Typed' /\ PassTyped'
  BY NextTyped, NextPassTyped DEF TypeInv
<1>g. /\ Len(log) \in Nat /\ Len(log') \in Nat /\ faults <= MaxFaults
      /\ anchor \in [Ids -> SUBSET (Families \cup {None})] /\ GoneIsEmpty
      /\ \A x \in DOMAIN written : Logged(written[x].n)
      /\ \A d \in Days : /\ \A k \in DOMAIN seg[d].lines : Logged(seg[d].lines[k])
                         /\ seg[d].tail = None \/ Logged(seg[d].tail)
      /\ \A p \in Procs : /\ \A k \in DOMAIN batch[p] : Logged(batch[p][k])
                          /\ todo[p] \subseteq Pairs(p) /\ (pc[p] # "derive" => todo[p] = {})
                          /\ pc[p] \in {"repair", "write", "cleanup"} => mine[p] \in 1 .. Len(log)
  BY <1>0 DEF TypeInv, Typed
<1>1. CASE Tick \/ UNCHANGED vars
  <2>1. UNCHANGED <<log, written, seg, anchor, faults, pc, mine, batch, todo>>
    BY <1>1 DEF Tick, vars, journal, pass
  <2> QED BY <1>0, <2>1 DEF TypeInv, Logged, Pairs, GoneIsEmpty, Ids
<1>2. ASSUME NEW p \in Procs, Acts(p) PROVE TypeInv'
  <2> USE DEF Goto
  <2>0. pc \in [Procs -> PCs] /\ mine \in [Procs -> Ids \cup {Junk}] /\ target \in [Procs -> Days]
        /\ seg \in [Days -> Segment] /\ Day(clock) \in Days
        /\ batch \in [Procs -> Seq(Ids \cup {Junk})] /\ todo = [q \in Procs |-> todo[q]]
    BY <1>0, DayInRange DEF Typed, PassTyped
  <2>o. \A q \in Procs : q # p => /\ batch'[q] = batch[q] /\ todo'[q] = todo[q] /\ pc'[q] = pc[q]
    BY <1>0, <1>2, OthersUnchanged
  <2>1. ASSUME NEW k \in Kinds, NEW s \in Sessions, NEW f \in Families \cup {None}, Begin(p, k, s, f)
        PROVE  TypeInv'
    <3>1. /\ UNCHANGED <<written, seg, anchor, batch, todo, faults>> /\ pc[p] = "idle"
          /\ pc'[p] = "repair" /\ mine'[p] = Len(log') /\ \A q \in Procs : q # p => mine'[q] = mine[q]
      BY <2>0, <2>1 DEF Begin, pass
    <3>2. Len(log') = Len(log) + 1
      <4>1. log \in Seq(Entry)
        BY <1>0 DEF Typed
      <4> QED BY <2>1, <4>1 DEF Begin
    <3>3. \A n : Logged(n) => Logged(n)'
      BY <1>g, <3>2 DEF Logged
    <3>4. GoneIsEmpty' /\ (\A x \in DOMAIN written' : Logged(written[x].n)')
          /\ \A e \in Days : /\ \A i \in DOMAIN seg'[e].lines : Logged(seg[e].lines[i])'
                             /\ seg'[e].tail = None \/ Logged(seg[e].tail)'
      BY <1>g, <3>1, <3>3 DEF GoneIsEmpty
    <3>5. mine'[p] \in 1 .. Len(log') /\ Len(log) <= Len(log')
      BY <1>g, <3>1, <3>2
    <3>6. pc[p] # "derive" /\ pc'[p] # "derive" /\ faults' <= MaxFaults
      BY <1>g, <3>1
    <3> QED BY <1>0, <1>g, <2>o, <3>1, <3>4, <3>5, <3>6, AppendKeepsTypes
  <2>2. ASSUME UNCHANGED <<log, anchor, batch, todo, mine>>, faults' <= MaxFaults,
               GoneIsEmpty', \A x \in DOMAIN written' : Logged(written[x].n)',
               \A e \in Days : /\ \A k \in DOMAIN seg'[e].lines : Logged(seg[e].lines[k])'
                               /\ seg'[e].tail = None \/ Logged(seg[e].tail)',
               pc[p] # "derive", pc'[p] # "derive",
               pc'[p] \in {"repair", "write", "cleanup"} => pc[p] \in {"repair", "write", "cleanup"}
        PROVE  TypeInv'
    <3>1. pc'[p] \in {"repair", "write", "cleanup"} => mine'[p] \in 1 .. Len(log')
      BY <1>g, <2>2
    <3>2. Len(log) <= Len(log')
      BY <1>g, <2>2
    <3> QED BY <1>0, <1>g, <2>o, <2>2, <3>1, <3>2, AppendKeepsTypes
  <2>3. CASE Repair(p)
    <3> DEFINE d == Day(clock)
    <3>1. /\ UNCHANGED <<log, anchor, batch, todo, mine, faults>> /\ pc[p] = "repair" /\ pc'[p] = "write"
      BY <2>0, <2>3 DEF Repair, pass
    <3>2. CASE seg[d].tail = None
      <4>1. UNCHANGED <<seg, written>>
        BY <2>3, <3>2 DEF Repair
      <4>2. \A n : Logged(n)' <=> Logged(n)
        BY <3>1 DEF Logged
      <4>3. GoneIsEmpty'
        BY <1>g, <4>1 DEF GoneIsEmpty
      <4> QED BY <1>g, <2>2, <3>1, <4>1, <4>2, <4>3
    <3>3. CASE seg[d].tail # None
      <4>1. seg' = [seg EXCEPT ![d].lines = Append(@, seg[d].tail), ![d].tail = None]
            /\ written' = written \o Readable(seg[d].tail)
        BY <2>3, <3>3 DEF Repair
      <4>2. seg[d].exists
        BY <1>g, <2>0, <3>3 DEF GoneIsEmpty, NoSegment
      <4>3. seg[d] \in Segment
        BY <2>0
      <4>4. /\ seg'[d].lines = Append(seg[d].lines, seg[d].tail) /\ seg'[d].tail = None
            /\ seg'[d].exists /\ \A e \in Days : e # d => seg'[e] = seg[e]
        BY <2>0, <4>1, <4>2, <4>3 DEF Segment
      <4>5. seg[d].tail \in Ids \cup {Junk} /\ Logged(seg[d].tail) /\ d \in Days
        BY <1>g, <2>0, <3>3, <4>3 DEF Segment
      <4> HIDE DEF d
      <4>6. /\ GoneIsEmpty' /\ \A x \in DOMAIN written' : Logged(written[x].n)'
            /\ \A e \in Days : /\ \A k \in DOMAIN seg'[e].lines : Logged(seg[e].lines[k])'
                               /\ seg'[e].tail = None \/ Logged(seg[e].tail)'
        BY <3>1, <4>1, <4>4, <4>5, LineStaysLogged
      <4> QED BY <1>g, <2>2, <3>1, <4>6
    <3> QED BY <3>2, <3>3
  <2>4. CASE Write(p)
    <3> DEFINE d == target[p]
               line == IF seg[d].tail = None THEN mine[p] ELSE Junk
    <3>1. /\ UNCHANGED <<log, anchor, batch, todo, mine, faults>> /\ pc[p] = "write" /\ pc'[p] = "cleanup"
      BY <2>0, <2>4 DEF Write, pass
    <3>2. /\ seg' = [seg EXCEPT ![d] = [exists |-> TRUE, lines |-> Append(@.lines, line), tail |-> None]]
          /\ written' = written \o Readable(line)
      BY <2>4 DEF Write
    <3>3. d \in Days /\ line \in Ids \cup {Junk} /\ Logged(line)
      BY <1>g, <2>0, <3>1 DEF Logged, Junk
    <3> HIDE DEF d, line
    <3>4. /\ seg'[d].lines = Append(seg[d].lines, line) /\ seg'[d].tail = None
          /\ seg'[d].exists /\ \A e \in Days : e # d => seg'[e] = seg[e]
      BY <2>0, <3>2, <3>3
    <3>5. /\ GoneIsEmpty' /\ \A x \in DOMAIN written' : Logged(written[x].n)'
          /\ \A e \in Days : /\ \A k \in DOMAIN seg'[e].lines : Logged(seg[e].lines[k])'
                             /\ seg'[e].tail = None \/ Logged(seg[e].tail)'
      BY <3>1, <3>2, <3>3, <3>4, LineStaysLogged
    <3> QED BY <1>g, <2>2, <3>1, <3>5
  <2>5. CASE TornWrite(p)
    <3>1. /\ UNCHANGED <<log, written, anchor, batch, todo, mine>> /\ pc[p] = "write"
          /\ pc'[p] \in {"idle", "load"}
      BY <2>0, <2>5 DEF TornWrite, pass, AfterAppend
    <3>2. faults' <= MaxFaults
      <4>1. faults \in Nat /\ MaxFaults \in Nat
        BY <1>0, FlagDerivationAssumption DEF Typed
      <4> QED BY <2>5, <4>1 DEF TornWrite
    <3>3. PICK rest \in {mine[p], Junk} :
             seg' = [seg EXCEPT ![target[p]].exists = TRUE,
                                ![target[p]].tail = IF @ = None THEN rest ELSE Junk]
      BY <2>5 DEF TornWrite
    <3> DEFINE d == target[p]
    <3>4. d \in Days /\ seg[d] \in Segment /\ Logged(rest) /\ Logged(Junk)
      BY <1>g, <2>0, <3>1 DEF Logged, Junk
    <3>5. /\ seg'[d].exists /\ seg'[d].lines = seg[d].lines
          /\ seg'[d].tail \in {rest, Junk} /\ \A e \in Days : e # d => seg'[e] = seg[e]
      <4> HIDE DEF d
      <4> QED BY <2>0, <3>3, <3>4 DEF Segment, d
    <3> HIDE DEF d
    <3>6. \A n : Logged(n)' <=> Logged(n)
      BY <3>1 DEF Logged
    <3>7. GoneIsEmpty'
      BY <1>g, <3>4, <3>5 DEF GoneIsEmpty
    <3>8. \A e \in Days : /\ \A k \in DOMAIN seg'[e].lines : Logged(seg'[e].lines[k])
                          /\ seg'[e].tail = None \/ Logged(seg'[e].tail)
      BY <1>g, <3>4, <3>5
    <3> QED BY <1>g, <2>2, <3>1, <3>2, <3>6, <3>7, <3>8
  <2>6. CASE Cleanup(p)
    <3>1. /\ UNCHANGED <<log, written, anchor, batch, todo, mine, faults>> /\ pc[p] = "cleanup"
          /\ pc'[p] \in {"idle", "load"}
      BY <2>0, <2>6 DEF Cleanup, pass, AfterAppend
    <3>2. \A e \in Days : seg'[e] = NoSegment \/ seg'[e] = seg[e]
      BY <2>6 DEF Cleanup
    <3>3. DOMAIN NoSegment.lines = {} /\ NoSegment.tail = None
      BY DEF NoSegment
    <3>4. \A n : Logged(n)' <=> Logged(n)
      BY <3>1 DEF Logged
    <3>5. GoneIsEmpty'
      BY <1>g, <3>2 DEF GoneIsEmpty
    <3>6. \A e \in Days : /\ \A k \in DOMAIN seg'[e].lines : Logged(seg'[e].lines[k])
                          /\ seg'[e].tail = None \/ Logged(seg'[e].tail)
      BY <1>g, <3>2, <3>3
    <3> QED BY <1>g, <2>2, <3>1, <3>4, <3>5, <3>6
  <2>7. ASSUME UNCHANGED <<log, written, seg, mine, anchor>>, faults' <= MaxFaults,
               \A k \in DOMAIN batch'[p] : Logged(batch'[p][k]), todo'[p] = {},
               pc'[p] \notin {"repair", "write", "cleanup"}
        PROVE  TypeInv'
    BY <1>0, <1>g, <2>o, <2>7, PassKeepsTypes
  <2>8. CASE Pass(p) \/ Load(p) \/ List(p)
    <3>1. UNCHANGED <<log, written, seg, mine, anchor, faults, batch, todo>>
          /\ pc[p] \in {"idle", "load", "list"} /\ pc'[p] \in {"load", "list", "read"}
      BY <2>0, <2>8 DEF Pass, Load, List, journal, pass
    <3> QED BY <1>g, <2>7, <3>1
  <2>9. CASE Read(p)
    <3>1. UNCHANGED <<log, written, seg, mine, anchor, faults, todo, pc>> /\ pc[p] = "read"
      BY <2>9 DEF Read, journal
    <3>2. PICK d \in left[p] :
             IF seg[d].exists
             THEN batch' = [batch EXCEPT ![p] = @ \o LinesAfter(d, DoneOf(p, d))]
             ELSE batch' = batch
      BY <2>9 DEF Read, DoneOf
    <3>3. d \in Days
      BY <1>0 DEF Typed
    <3>4. \A k \in DOMAIN batch'[p] : Logged(batch'[p][k])
      <4>1. CASE batch' = batch
        BY <1>g, <4>1
      <4>2. CASE batch' = [batch EXCEPT ![p] = @ \o LinesAfter(d, DoneOf(p, d))]
        <5>1. batch'[p] = batch[p] \o LinesAfter(d, DoneOf(p, d))
          BY <2>0, <4>2
        <5>2. ReadsOn(batch[p], seg[d].lines, DoneOf(p, d), batch'[p])
          BY <1>0, <3>3, <5>1, ReadLines
        <5> QED BY <1>g, <3>3, <5>2 DEF ReadsOn
      <4> QED BY <3>2, <4>1, <4>2
    <3> QED BY <1>g, <2>7, <3>1, <3>4
  <2>10. ASSUME Forget(p), pc' = [pc EXCEPT ![p] = "idle"], faults' <= MaxFaults,
                UNCHANGED <<log, written, seg, mine, anchor>>
         PROVE  TypeInv'
    <3>1. batch'[p] = <<>> /\ todo'[p] = {} /\ DOMAIN batch'[p] = {} /\ pc'[p] = "idle"
      BY <1>0, <2>0, <2>10, ForgetEmpties
    <3> QED BY <2>7, <2>10, <3>1
  <2>11. CASE Store(p) \/ Fail(p)
    <3>1. faults' <= MaxFaults
      <4>1. faults \in Nat /\ MaxFaults \in Nat
        BY <1>0, FlagDerivationAssumption DEF Typed
      <4> QED BY <1>g, <2>11, <4>1 DEF Store, Fail
    <3> QED BY <2>10, <2>11, <3>1 DEF Store, Fail, journal
  <2>12. CASE ReadDone(p)
    <3>1. UNCHANGED <<log, written, seg, mine, anchor, faults>> /\ pc[p] = "read"
      BY <2>12 DEF ReadDone, journal
    <3>2. CASE UNCHANGED pass /\ pc' = [pc EXCEPT ![p] = "decide"]
      <4>1. UNCHANGED <<batch, todo>> /\ pc'[p] = "decide"
        BY <2>0, <3>2 DEF pass
      <4> QED BY <1>g, <2>7, <3>1, <4>1
    <3>3. CASE Forget(p) /\ pc' = [pc EXCEPT ![p] = "idle"]
      BY <1>g, <2>10, <3>1, <3>3
    <3> QED BY <2>12, <3>2, <3>3 DEF ReadDone
  <2>13. CASE Decide(p)
    <3>1. UNCHANGED <<log, written, seg, mine, anchor, faults>>
      BY <2>13 DEF Decide, journal
    <3>2. CASE Pending(batch[p])
      BY <1>g, <2>10, <2>13, <3>1, <3>2 DEF Decide
    <3>3. CASE ~Pending(batch[p])
      <4>1. UNCHANGED batch /\ todo'[p] \subseteq Pairs(p) /\ (pc'[p] # "derive" => todo'[p] = {})
        BY <2>13, <3>3, DecideTyped
      <4>2. pc'[p] \in {"store", "derive"}
        BY <2>0, <2>13, <3>3 DEF Decide
      <4>3. Pairs(p)' = Pairs(p)
        BY <4>1 DEF Pairs, Ids
      <4> QED BY <1>0, <1>g, <2>o, <3>1, <4>1, <4>2, <4>3, PassKeepsTypes
    <3> QED BY <3>2, <3>3
  <2>14. CASE Derive(p)
    <3>1. PICK c \in todo[p] : /\ anchor' = [anchor EXCEPT ![c.n] = @ \cup {c.family}]
                               /\ todo' = [todo EXCEPT ![p] = @ \ {c}]
                               /\ pc' = [pc EXCEPT ![p] = IF todo[p] = {c} THEN "store" ELSE "derive"]
      BY <2>14 DEF Derive
    <3>2. UNCHANGED <<log, written, seg, mine, faults, batch>>
      BY <2>14 DEF Derive
    <3>3. c.n \in Ids /\ c.family \in Families \cup {None}
      BY <1>g, <3>1 DEF Pairs
    <3>4. anchor' \in [Ids -> SUBSET (Families \cup {None})]
      BY <1>g, <3>1, <3>3
    <3>5. todo'[p] \subseteq Pairs(p) /\ (pc'[p] # "derive" => todo'[p] = {})
      BY <1>g, <2>0, <3>1
    <3>6. Pairs(p)' = Pairs(p)
      BY <3>2 DEF Pairs, Ids
    <3>7. pc'[p] \in {"store", "derive"}
      BY <2>0, <3>1
    <3> QED BY <1>0, <1>g, <2>o, <3>2, <3>4, <3>5, <3>6, <3>7, PassKeepsTypes
  <2> QED BY <1>2, <2>1, <2>3, <2>4, <2>5, <2>6, <2>8, <2>9, <2>11, <2>12, <2>13, <2>14 DEF Acts, Step
<1> QED BY <1>1, <1>2 DEF Next, Acts

(* Whatever commands do and wherever they die, the journal holds entries that *)
(* were made, a segment that is not there is empty, and a pass has pairs only *)
(* of the lines it has read.                                                  *)
THEOREM TypesAreKept == Spec => []TypeOK
BY InitTypeInv, NextTypeInv, TypesSuffice, PTL DEF Spec
-----------------------------------------------------------------------------
(* Anchors *)

(* With one command at a time, entries are written in the order they are made *)
(* in, and a pass has the whole journal behind its offset in its batch.       *)
LogInOrder ==
    /\ \A n \in 1 .. Len(log) : log[n].ts <= clock
    /\ \A m, n \in 1 .. Len(log) : m < n => log[m].ts <= log[n].ts

WrittenInLogOrder == \A x, y \in DOMAIN written : x < y => written[x].n < written[y].n

RecallsNameFamilies == \A n \in 1 .. Len(log) : log[n].kind = "recall" => log[n].family # None

LatestAppends == \A p \in Procs : Appending(p) => mine[p] = Len(log)

TornIsLatest ==
    \A d \in Days : Torn(d) =>
        \A x \in DOMAIN written : DayOf(x) <= d => written[x].n < seg[d].tail

ReadsEverything(p) ==
    pc[p] \in Reading => \A x \in DOMAIN written :
        /\ InBatch(p, x) => Alive(x)
        /\ Alive(x) => \/ InFront(seg, from[p], written[x].n) \/ InBatch(p, x)
                       \/ DayOf(x) \in left[p]

(* f is the family of a recall in the session of failure n and before it, and *)
(* no readable recall of that session is between the two.                     *)
AnchoredAt(n, f) ==
    \E m \in 1 .. n - 1 :
        /\ Recalls(m, log[n].session) /\ log[m].family = f
        /\ \A i \in DOMAIN written :
              Recalls(written[i].n, log[n].session) => written[i].n \notin m + 1 .. n - 1

(* No readable recall before failure n in its session is in the journal.      *)
Unanchored(n) ==
    \A i \in DOMAIN written :
        Recalls(written[i].n, log[n].session) /\ written[i].n < n => ~Alive(i)

AnchorHolds(n, f) == IF f = None THEN Unanchored(n) ELSE AnchoredAt(n, f)

Anchored ==
    /\ \A n \in Ids : anchor[n] # {} => \E x \in DOMAIN written : written[x].n = n
    /\ \A n \in Ids : \A f \in anchor[n] : AnchorHolds(n, f)
    /\ \A p \in Procs : \A c \in todo[p] : AnchorHolds(c.n, c.family)

SoleInv ==
    /\ LogInOrder /\ WrittenInLogOrder /\ RecallsNameFamilies /\ LatestAppends /\ TornIsLatest
    /\ \A p \in Procs : ReadsEverything(p)
    /\ Anchored

(* A line more keeps the order when its entry is the latest.                  *)
LEMMA LatestLineKeepsOrder ==
  ASSUME Typed, WritersAreCurrent, GoneIsEmpty, WrittenInLogOrder, TornIsLatest,
         NEW line \in Ids \cup {Junk}, written' = written \o Readable(line),
         line # Junk => \A x \in DOMAIN written : written[x].n < line,
         seg'[Day(clock)].tail = None,
         \A d \in Days : d # Day(clock) => seg'[d] = seg[d]
  PROVE  WrittenInLogOrder' /\ TornIsLatest'
<1>1. /\ DOMAIN written = 1 .. Len(written) /\ Len(written) \in Nat
      /\ DOMAIN written' = 1 .. Len(written')
      /\ Len(written') = Len(written) + (IF line = Junk THEN 0 ELSE 1)
      /\ \A y \in DOMAIN written : written'[y] = written[y]
      /\ line # Junk => written'[Len(written) + 1] = [n |-> line, at |-> clock]
  BY ReadableAdds
<1>2. \A x \in DOMAIN written' : x \in DOMAIN written \/
         (line # Junk /\ x = Len(written) + 1 /\ written'[x].n = line /\ written'[x].at = clock)
  <2>1. ASSUME NEW x \in DOMAIN written', x \notin DOMAIN written
        PROVE  line # Junk /\ x = Len(written) + 1
    BY <1>1, <2>1
  <2>2. line # Junk => written'[Len(written) + 1].n = line /\ written'[Len(written) + 1].at = clock
    BY <1>1
  <2> QED BY <2>1, <2>2
<1>3. WrittenInLogOrder'
  <2>1. ASSUME NEW x \in DOMAIN written', NEW y \in DOMAIN written', x < y
        PROVE  written'[x].n < written'[y].n
    <3>1. CASE y \in DOMAIN written
      <4>1. x \in DOMAIN written
        BY <1>1, <2>1, <3>1
      <4> QED BY <1>1, <2>1, <3>1, <4>1 DEF WrittenInLogOrder
    <3>2. CASE y \notin DOMAIN written
      <4>1. line # Junk /\ y = Len(written) + 1 /\ written'[y].n = line
        BY <1>2, <3>2
      <4>2. x \in DOMAIN written
        BY <1>1, <2>1, <4>1
      <4> QED BY <1>1, <4>1, <4>2
    <3> QED BY <3>1, <3>2
  <2> QED BY <2>1 DEF WrittenInLogOrder
<1>4. TornIsLatest'
  <2>1. ASSUME NEW d \in Days, Torn(d)', NEW x \in DOMAIN written', DayOf(x)' <= d
        PROVE  written'[x].n < seg'[d].tail
    <3>1. d # Day(clock) /\ seg'[d] = seg[d] /\ Torn(d)
      BY <2>1 DEF Torn
    <3>2. d < Day(clock)
      <4>1. seg[d].exists
        BY <3>1 DEF Torn, GoneIsEmpty, NoSegment
      <4> QED BY <3>1, <4>1, SegmentTyped DEF WritersAreCurrent, SegIsTyped
    <3>3. x \in DOMAIN written
      <4>1. ASSUME x \notin DOMAIN written PROVE DayOf(x)' = Day(clock)
        <5>1. written'[x].at = clock
          BY <1>2, <4>1
        <5> QED BY <5>1 DEF DayOf, Day
      <4> QED BY <2>1, <3>2, <4>1, SegmentTyped DEF SegIsTyped
    <3>4. DayOf(x)' = DayOf(x) /\ written'[x] = written[x]
      BY <1>1, <3>3 DEF DayOf, Day
    <3> QED BY <2>1, <3>1, <3>3, <3>4 DEF TornIsLatest
  <2> QED BY <2>1 DEF TornIsLatest
<1> QED BY <1>3, <1>4

LEMMA OrderKept ==
  ASSUME NEW p, Procs = {p}, Typed, WritersAreCurrent, JournalInv, Grows, LossInv,
         LogInOrder, WrittenInLogOrder, LatestAppends, TornIsLatest, Acts(p)
  PROVE  LogInOrder' /\ WrittenInLogOrder' /\ LatestAppends' /\ TornIsLatest'
<1> USE DEF Goto
<1>0. /\ p \in Procs /\ pc \in [Procs -> PCs] /\ mine \in [Procs -> Ids \cup {Junk}]
      /\ target \in [Procs -> Days] /\ seg \in [Days -> Segment] /\ Len(log) \in Nat /\ clock \in Nat
      /\ Day(clock) \in Days /\ clock' = clock /\ GoneIsEmpty
  BY SegmentTyped DEF Typed, SegIsTyped, Grows, JournalInv, FilesInv
<1>1. CASE \E k \in Kinds, s \in Sessions, f \in Families \cup {None} : Begin(p, k, s, f)
  <2>1. PICK k \in Kinds, s \in Sessions, f \in Families \cup {None} : Begin(p, k, s, f)
    BY <1>1
  <2>2. /\ log' = Append(log, [kind |-> k, session |-> s, ts |-> clock, family |-> f])
        /\ mine' = [mine EXCEPT ![p] = Len(log')] /\ UNCHANGED <<written, seg>>
    BY <2>1 DEF Begin
  <2>3. /\ Len(log') = Len(log) + 1 /\ log'[Len(log) + 1].ts = clock
        /\ \A n \in 1 .. Len(log) : log'[n] = log[n]
    <3>1. log \in Seq(Entry)
      BY DEF Typed
    <3> QED BY <2>2, <3>1
  <2>4. LogInOrder'
    <3>1. ASSUME NEW n \in 1 .. Len(log') PROVE n \in 1 .. Len(log) \/ (n = Len(log) + 1 /\ log'[n].ts = clock)
      BY <1>0, <2>3
    <3>2. \A n \in 1 .. Len(log') : log'[n].ts <= clock
      BY <1>0, <2>3, <3>1 DEF LogInOrder
    <3>3. ASSUME NEW m \in 1 .. Len(log'), NEW n \in 1 .. Len(log'), m < n
          PROVE  log'[m].ts <= log'[n].ts
      <4>1. CASE n \in 1 .. Len(log)
        <5>1. m \in 1 .. Len(log)
          BY <1>0, <3>3, <4>1
        <5> QED BY <2>3, <3>3, <4>1, <5>1 DEF LogInOrder
      <4>2. CASE n = Len(log) + 1 /\ log'[n].ts = clock
        BY <3>2, <4>2
      <4> QED BY <3>1, <4>1, <4>2
    <3> QED BY <1>0, <3>2, <3>3 DEF LogInOrder
  <2>5. LatestAppends'
    BY <1>0, <2>2 DEF LatestAppends
  <2>6. WrittenInLogOrder' /\ TornIsLatest'
    BY <2>2 DEF WrittenInLogOrder, TornIsLatest, Torn, DayOf, Day
  <2> QED BY <2>4, <2>5, <2>6
<1>2. ASSUME log' = log PROVE LogInOrder'
  BY <1>0, <1>2 DEF LogInOrder
<1>3. ASSUME UNCHANGED <<log, mine>>, pc'[p] \in {"repair", "write"} => pc[p] \in {"repair", "write"}
      PROVE  LatestAppends'
  BY <1>3 DEF LatestAppends, Appending
<1>4. CASE Repair(p)
  <2>1. UNCHANGED <<log, mine>> /\ pc[p] = "repair"
    BY <1>4 DEF Repair
  <2>2. CASE seg[Day(clock)].tail = None
    <3>1. UNCHANGED <<written, seg>>
      BY <1>4, <2>2 DEF Repair
    <3>2. WrittenInLogOrder' /\ TornIsLatest'
      BY <3>1 DEF WrittenInLogOrder, TornIsLatest, Torn, DayOf, Day
    <3> QED BY <1>2, <1>3, <2>1, <3>2
  <2>3. CASE seg[Day(clock)].tail # None
    <3> DEFINE d == Day(clock)
               line == seg[d].tail
    <3>1. seg' = [seg EXCEPT ![d].lines = Append(@, line), ![d].tail = None]
          /\ written' = written \o Readable(line)
      BY <1>4, <2>3 DEF Repair
    <3>2. seg[d] \in Segment /\ line \in Ids \cup {Junk}
      BY <1>0, <2>3 DEF Segment
    <3>3. seg'[d].tail = None /\ \A e \in Days : e # d => seg'[e] = seg[e]
      BY <1>0, <3>1, <3>2 DEF Segment
    <3>4. ASSUME line # Junk, NEW x \in DOMAIN written PROVE written[x].n < line
      <4>1. DayOf(x) <= d
        BY <1>0, <3>4, WrittenTyped, DayMonotone DEF WrittenIsTyped, JournalInv, FilesInv, WrittenOnce, DayOf
      <4> QED BY <1>0, <2>3, <3>4, <4>1 DEF TornIsLatest, Torn
    <3> HIDE DEF d, line
    <3>5. WrittenInLogOrder' /\ TornIsLatest'
      BY <1>0, <3>1, <3>2, <3>3, <3>4, LatestLineKeepsOrder DEF d
    <3> QED BY <1>2, <1>3, <2>1, <3>5
  <2> QED BY <2>2, <2>3
<1>5. CASE Write(p)
  <2> DEFINE d == target[p]
             line == IF seg[d].tail = None THEN mine[p] ELSE Junk
  <2>1. UNCHANGED <<log, mine>> /\ pc[p] = "write" /\ d = Day(clock)
    BY <1>0, <1>5 DEF Write, WritersAreCurrent
  <2>2. /\ seg' = [seg EXCEPT ![d] = [exists |-> TRUE, lines |-> Append(@.lines, line), tail |-> None]]
        /\ written' = written \o Readable(line)
    BY <1>5 DEF Write
  <2>3. line \in Ids \cup {Junk} /\ seg'[d].tail = None /\ \A e \in Days : e # d => seg'[e] = seg[e]
    <3>1. line \in Ids \cup {Junk}
      BY <1>0
    <3> QED BY <1>0, <2>2, <3>1
  <2>4. ASSUME line # Junk, NEW x \in DOMAIN written PROVE written[x].n < line
    <3>1. line = mine[p] /\ line = Len(log)
      BY <1>0, <2>1, <2>4 DEF LatestAppends, Appending
    <3>2. written[x].n \in 1 .. Len(log) /\ written[x].n # line
      BY <1>0, <2>1, <2>4, <3>1 DEF JournalInv, LooseEnds, Appending, FilesInv, WrittenOnce
    <3> QED BY <1>0, <3>1, <3>2
  <2> HIDE DEF line
  <2>5. WrittenInLogOrder' /\ TornIsLatest'
    BY <1>0, <2>1, <2>2, <2>3, <2>4, LatestLineKeepsOrder
  <2> QED BY <1>2, <1>3, <2>1, <2>5
<1>6. CASE TornWrite(p)
  <2> DEFINE d == target[p]
  <2>1. UNCHANGED <<log, mine, written>> /\ pc[p] = "write" /\ seg[d].tail = None /\ pc'[p] \in {"idle", "load"}
    BY <1>0, <1>6 DEF TornWrite, LossInv, AfterAppend
  <2>2. PICK rest \in {mine[p], Junk} :
           seg' = [seg EXCEPT ![d].exists = TRUE, ![d].tail = IF @ = None THEN rest ELSE Junk]
    BY <1>6 DEF TornWrite
  <2>3. d \in Days /\ seg[d] \in Segment
    BY <1>0
  <2>4. /\ seg'[d].tail \in {mine[p], Junk} /\ \A e \in Days : e # d => seg'[e] = seg[e]
    <3> HIDE DEF d
    <3> QED BY <1>0, <2>2, <2>3 DEF Segment
  <2> HIDE DEF d
  <2>5. WrittenInLogOrder'
    BY <2>1 DEF WrittenInLogOrder
  <2>6. \A x \in DOMAIN written : written[x].n < mine[p]
    <3>1. mine[p] = Len(log)
      BY <1>0, <2>1 DEF LatestAppends, Appending
    <3>2. \A x \in DOMAIN written : written[x].n \in 1 .. Len(log) /\ written[x].n # mine[p]
      BY <1>0, <2>1 DEF JournalInv, LooseEnds, Appending, FilesInv, WrittenOnce
    <3> QED BY <1>0, <3>1, <3>2
  <2>7. TornIsLatest'
    <3>1. ASSUME NEW e \in Days, Torn(e)', NEW x \in DOMAIN written, DayOf(x) <= e
          PROVE  written[x].n < seg'[e].tail
      <4>1. CASE e = d
        BY <2>4, <2>6, <3>1, <4>1 DEF Torn
      <4>2. CASE e # d
        BY <2>4, <3>1, <4>2 DEF Torn, TornIsLatest
      <4> QED BY <4>1, <4>2
    <3> QED BY <2>1, <3>1 DEF TornIsLatest, DayOf, Day
  <2>8. pc'[p] \notin {"repair", "write"}
    BY <2>1
  <2> QED BY <1>2, <1>3, <2>1, <2>5, <2>7, <2>8
<1>7. CASE Cleanup(p)
  <2>1. UNCHANGED <<log, mine, written>> /\ pc'[p] \in {"idle", "load"}
    BY <1>0, <1>7 DEF Cleanup, AfterAppend
  <2>2. \A e \in Days : seg'[e] = NoSegment \/ seg'[e] = seg[e]
    BY <1>7 DEF Cleanup
  <2>3. NoSegment.tail = None
    BY DEF NoSegment
  <2>4. \A e \in Days : Torn(e)' => Torn(e) /\ seg'[e] = seg[e]
    BY <2>2, <2>3 DEF Torn
  <2>5. WrittenInLogOrder' /\ TornIsLatest'
    BY <2>1, <2>4 DEF WrittenInLogOrder, TornIsLatest, DayOf, Day
  <2> QED BY <1>2, <1>3, <2>1, <2>5
<1>8. CASE \/ Pass(p) \/ Load(p) \/ List(p) \/ Read(p) \/ ReadDone(p)
           \/ Decide(p) \/ Derive(p) \/ Store(p) \/ Fail(p)
  <2>1. UNCHANGED <<log, written, seg, mine>>
    BY <1>8 DEF Pass, Load, List, Read, ReadDone, Decide, Derive, Store, Fail, journal
  <2>2. pc'[p] \in {"repair", "write"} => pc[p] \in {"repair", "write"}
    BY <1>0, <1>8 DEF Pass, Load, List, Read, ReadDone, Decide, Derive, Store, Fail
  <2>3. WrittenInLogOrder' /\ TornIsLatest'
    BY <2>1 DEF WrittenInLogOrder, TornIsLatest, Torn, DayOf, Day
  <2> QED BY <1>2, <1>3, <2>1, <2>2, <2>3
<1> QED BY <1>1, <1>4, <1>5, <1>6, <1>7, <1>8 DEF Acts, Step

(* Nothing is written and no segment goes while the only command reads.       *)
LEMMA PassStaysComplete ==
  ASSUME UNCHANGED <<written, seg>>, NEW p \in Procs, ReadsEverything(p), pc[p] \in Reading,
         batch'[p] = batch[p], left'[p] = left[p], from'[p] = from[p]
  PROVE  ReadsEverything(p)'
BY DEF ReadsEverything, InBatch, Alive, DayOf, Day, Reading

LEMMA ListIsComplete ==
  ASSUME Typed, PassTyped, FilesInv, NEW p \in Procs, BatchInv(p), List(p)
  PROVE  ReadsEverything(p)'
<1> USE DEF Goto
<1>1. /\ UNCHANGED <<written, seg, batch, from>> /\ pc[p] = "list"
      /\ left'[p] = {d \in Existing : from[p].seg = None \/ d >= from[p].seg}
  BY DEF List, Typed, journal
<1>2. batch[p] = <<>>
  BY <1>1 DEF BatchInv, PassShape, Reading
<1>3. \A x : ~InBatch(p, x)'
  <2>1. DOMAIN batch'[p] = {}
    BY <1>1, <1>2
  <2> QED BY <2>1 DEF InBatch
<1>4. ASSUME NEW x \in DOMAIN written, Alive(x)
      PROVE  InFront(seg, from[p], written[x].n) \/ DayOf(x) \in left'[p]
  <2>1. DayOf(x) \in Existing /\ DayOf(x) \in Nat /\ DayOf(x) \in Days
    BY <1>4, WrittenTyped DEF Alive, Existing, WrittenIsTyped
  <2>2. CASE from[p].seg = None \/ DayOf(x) >= from[p].seg
    BY <1>1, <2>1, <2>2
  <2>3. CASE ~(from[p].seg = None \/ DayOf(x) >= from[p].seg)
    <3>1. from[p] \in Offset
      BY DEF Typed
    <3>2. from[p].seg \in Days
      BY <2>3, <3>1 DEF Offset
    <3>3. from[p].seg # None /\ DayOf(x) < from[p].seg
      BY <2>1, <2>3, <3>2, SegmentTyped DEF SegIsTyped
    <3>4. PICK k \in DOMAIN seg[DayOf(x)].lines : seg[DayOf(x)].lines[k] = written[x].n
      BY <1>4 DEF FilesInv, WrittenAreLines
    <3> QED BY <2>1, <3>3, <3>4 DEF InFront
  <2> QED BY <2>2, <2>3
<1>5. \A x : Alive(x)' <=> Alive(x)
  BY <1>1 DEF Alive, DayOf, Day
<1>6. \A x : DayOf(x)' = DayOf(x)
  BY <1>1 DEF DayOf, Day
<1> QED BY <1>1, <1>3, <1>4, <1>5, <1>6 DEF ReadsEverything

LEMMA ReadIsComplete ==
  ASSUME Typed, PassTyped, FilesInv, NEW p \in Procs, BatchInv(p), Read(p), ReadsEverything(p)
  PROVE  ReadsEverything(p)'
<1>1. UNCHANGED <<written, seg, from, pc>> /\ pc[p] = "read" /\ pc[p] \in Reading
  BY DEF Read, journal, Reading
<1>2. PICK d \in left[p] :
        /\ left' = [left EXCEPT ![p] = @ \ {d}]
        /\ IF seg[d].exists
           THEN batch' = [batch EXCEPT ![p] = @ \o LinesAfter(d, DoneOf(p, d))]
           ELSE batch' = batch
  BY DEF Read, DoneOf
<1>3. d \in Days /\ left'[p] = left[p] \ {d} /\ from[p] \in Offset
  BY <1>2 DEF Typed
<1>4. \A x : (Alive(x)' <=> Alive(x)) /\ DayOf(x)' = DayOf(x)
  BY <1>1 DEF Alive, DayOf, Day
<1>5. CASE ~seg[d].exists
  <2>1. batch'[p] = batch[p]
    BY <1>2, <1>5
  <2>2. \A x : InBatch(p, x)' <=> InBatch(p, x)
    BY <1>1, <2>1 DEF InBatch
  <2>3. \A x \in DOMAIN written : Alive(x) => DayOf(x) # d
    BY <1>5 DEF Alive
  <2> QED BY <1>1, <1>3, <1>4, <2>2, <2>3 DEF ReadsEverything
<1>6. CASE seg[d].exists
  <2>1. batch'[p] = batch[p] \o LinesAfter(d, DoneOf(p, d))
    BY <1>2, <1>6 DEF PassTyped
  <2>2. /\ d = from[p].seg => \A k \in DOMAIN seg[d].lines :
                                   k <= DoneOf(p, d) <=> k <= from[p].line
        /\ d # from[p].seg => DoneOf(p, d) = 0
        /\ ReadsOn(batch[p], seg[d].lines, DoneOf(p, d), batch'[p])
    BY <1>3, <2>1, ReadLines
  <2>3. ASSUME NEW x \in DOMAIN written, InBatch(p, x)'
        PROVE  Alive(x)
    <3>1. PICK k \in DOMAIN batch'[p] : batch'[p][k] = written[x].n
      BY <1>1, <2>3 DEF InBatch
    <3>2. CASE k \in DOMAIN batch[p]
      <4>1. InBatch(p, x)
        BY <2>2, <3>1, <3>2 DEF ReadsOn, InBatch
      <4> QED BY <1>1, <4>1 DEF ReadsEverything
    <3>3. CASE k \notin DOMAIN batch[p]
      <4>1. PICK l \in DOMAIN seg[d].lines : batch'[p][k] = seg[d].lines[l]
        BY <2>2, <3>1, <3>3 DEF ReadsOn
      <4>2. DayOf(x) = d
        BY <1>3, <3>1, <4>1, LinesHavePlaces DEF LinePlaces
      <4> QED BY <1>6, <4>2 DEF Alive
    <3> QED BY <3>2, <3>3
  <2>4. ASSUME NEW x \in DOMAIN written, Alive(x)
        PROVE  \/ InFront(seg, from[p], written[x].n) \/ InBatch(p, x)' \/ DayOf(x) \in left'[p]
    <3>1. CASE InBatch(p, x)
      <4>1. InBatch(p, x)'
        BY <1>1, <2>2, <3>1 DEF ReadsOn, InBatch
      <4> QED BY <4>1
    <3>2. CASE DayOf(x) = d
      <4>1. PICK k \in DOMAIN seg[d].lines : seg[d].lines[k] = written[x].n
        BY <2>4, <3>2 DEF FilesInv, WrittenAreLines
      <4>2. k \in Nat /\ d \in Nat /\ d # None /\ k >= 1
        BY <1>3, SegmentTyped DEF SegIsTyped
      <4>3. CASE d = from[p].seg /\ k <= from[p].line
        <5>1. InFront(seg, from[p], written[x].n)
          BY <1>3, <4>1, <4>2, <4>3 DEF InFront
        <5> QED BY <5>1
      <4>4. CASE ~(d = from[p].seg /\ k <= from[p].line)
        <5>1. k > DoneOf(p, d)
          <6>1. DoneOf(p, d) \in Nat
            BY <1>3, <2>1, ReadLines
          <6> QED BY <2>2, <4>1, <4>2, <4>4, <6>1
        <5>2. InBatch(p, x)'
          BY <1>1, <2>2, <4>1, <5>1 DEF ReadsOn, InBatch
        <5> QED BY <5>2
      <4> QED BY <4>3, <4>4
    <3>3. CASE ~InBatch(p, x) /\ DayOf(x) # d
      BY <1>1, <1>3, <2>4, <3>3 DEF ReadsEverything
    <3> QED BY <3>1, <3>2, <3>3
  <2> QED BY <1>1, <1>4, <2>3, <2>4 DEF ReadsEverything
<1> QED BY <1>5, <1>6

LEMMA CompleteKept ==
  ASSUME Typed, PassTyped, FilesInv, NEW p \in Procs, BatchInv(p), ReadsEverything(p), Acts(p)
  PROVE  ReadsEverything(p)'
<1> USE DEF Goto
<1>0. /\ pc \in [Procs -> PCs] /\ batch \in [Procs -> Seq(Ids \cup {Junk})]
      /\ left \in [Procs -> SUBSET Days] /\ from \in [Procs -> Offset]
  BY DEF Typed, PassTyped
<1>1. ASSUME pc'[p] \notin Reading PROVE ReadsEverything(p)'
  BY <1>1 DEF ReadsEverything, Reading
<1>2. CASE \/ \E k \in Kinds, s \in Sessions, f \in Families \cup {None} : Begin(p, k, s, f)
           \/ Pass(p) \/ TornWrite(p) \/ Repair(p) \/ Write(p) \/ Cleanup(p) \/ Load(p)
  <2>1. pc'[p] \in {"idle", "repair", "write", "cleanup", "load", "list"}
    BY <1>0, <1>2 DEF Begin, Pass, TornWrite, Repair, Write, Cleanup, Load, AfterAppend
  <2> QED BY <1>1, <2>1 DEF Reading
<1>3. CASE List(p)
  BY <1>3, ListIsComplete
<1>4. CASE Read(p)
  BY <1>4, ReadIsComplete
<1>5. ASSUME pc' = [pc EXCEPT ![p] = "idle"] PROVE ReadsEverything(p)'
  <2>1. pc'[p] \notin Reading
    BY <1>0, <1>5 DEF Reading
  <2> QED BY <1>1, <2>1
<1>6. ASSUME UNCHANGED <<written, seg, from, left, batch>>, pc[p] \in Reading
      PROVE  ReadsEverything(p)'
  BY <1>6, PassStaysComplete
<1>7. CASE Store(p) \/ Fail(p)
  BY <1>5, <1>7 DEF Store, Fail
<1>8. CASE ReadDone(p)
  <2>1. UNCHANGED <<written, seg>> /\ pc[p] \in Reading
    BY <1>8 DEF ReadDone, journal, Reading
  <2> QED BY <1>5, <1>6, <1>8, <2>1 DEF ReadDone, pass
<1>9. CASE Decide(p)
  <2>1. UNCHANGED <<written, seg>> /\ pc[p] \in Reading
    BY <1>9 DEF Decide, journal, Reading
  <2> QED BY <1>5, <1>6, <1>9, <2>1 DEF Decide
<1>10. CASE Derive(p)
  <2>1. UNCHANGED <<written, seg, from, left, batch>> /\ pc[p] \in Reading
    BY <1>10 DEF Derive, Reading
  <2> QED BY <1>6, <2>1
<1> QED BY <1>2, <1>3, <1>4, <1>7, <1>8, <1>9, <1>10 DEF Acts, Step

(* What an earlier day's segment or the offset's own has before the offset.   *)
HasBefore(o, d) ==
    /\ \A k \in DOMAIN Before(o, d) :
          \/ /\ k \in DOMAIN seg[d].lines /\ Before(o, d)[k] = seg[d].lines[k]
             /\ d = o.seg => k <= o.line
          \/ /\ d < o.seg /\ k = Len(seg[d].lines) + 1
             /\ Before(o, d)[k] = seg[d].tail /\ seg[d].tail # None
    /\ \A k \in DOMAIN seg[d].lines : d < o.seg \/ k <= o.line =>
          k \in DOMAIN Before(o, d) /\ Before(o, d)[k] = seg[d].lines[k]

LEMMA BeforeIsBefore ==
  ASSUME Typed, GoneIsEmpty, NEW o \in Offset, Settled(o), o.seg # None, NEW d \in Days, d <= o.seg
  PROVE  HasBefore(o, d)
<1> DEFINE l == seg[d].lines
           whole == IF seg[d].tail = None THEN l ELSE Append(l, seg[d].tail)
           m == Smaller(o.line, Len(whole))
<1>1. /\ l \in Seq(Ids \cup {Junk}) /\ seg[d].tail \in Ids \cup {Junk, None} /\ d \in Nat
      /\ DOMAIN l = 1 .. Len(l) /\ Len(l) \in Nat
      /\ o.line \in Nat /\ o.seg \in Days /\ o.seg \in Nat
  BY SegmentTyped DEF SegIsTyped, Offset
<1>2. /\ DOMAIN whole = 1 .. Len(whole) /\ Len(whole) \in Nat /\ whole \in Seq(Ids \cup {Junk})
      /\ Len(l) <= Len(whole) /\ \A k \in 1 .. Len(l) : whole[k] = l[k]
      /\ \A k \in DOMAIN whole : k \notin DOMAIN l =>
            k = Len(l) + 1 /\ seg[d].tail # None /\ whole[k] = seg[d].tail
  <2> HIDE DEF l, m
  <2>1. CASE seg[d].tail = None
    BY <1>1, <2>1
  <2>2. CASE seg[d].tail # None
    <3> DEFINE t == seg[d].tail
    <3>1. whole = Append(l, t) /\ t \in Ids \cup {Junk}
      BY <1>1, <2>2
    <3> HIDE DEF whole, t
    <3>2. /\ whole \in Seq(Ids \cup {Junk}) /\ Len(whole) = Len(l) + 1
          /\ DOMAIN whole = 1 .. Len(l) + 1 /\ whole[Len(l) + 1] = t
          /\ \A k \in 1 .. Len(l) : whole[k] = l[k]
      BY <1>1, <3>1
    <3>3. ASSUME NEW k \in DOMAIN whole, k \notin DOMAIN l PROVE k = Len(l) + 1
      BY <1>1, <3>2, <3>3
    <3> QED BY <1>1, <2>2, <3>2, <3>3 DEF t
  <2> QED BY <2>1, <2>2
<1> HIDE DEF whole
<1>3. CASE d < o.seg
  <2>1. Before(o, d) = whole
    BY <1>3 DEF Before, whole
  <2>2. d # o.seg
    BY <1>1, <1>3
  <2> HIDE DEF l, m
  <2>3. /\ \A k \in DOMAIN whole :
             \/ k \in DOMAIN l /\ whole[k] = l[k]
             \/ k = Len(l) + 1 /\ whole[k] = seg[d].tail /\ seg[d].tail # None
        /\ \A k \in DOMAIN l : k \in DOMAIN whole /\ whole[k] = l[k]
    BY <1>1, <1>2
  <2> QED BY <1>3, <2>1, <2>2, <2>3 DEF HasBefore, l
<1>4. CASE d = o.seg
  <2>1. Before(o, d) = SubSeq(whole, 1, m)
    <3>1. Before(o, d) = IF d < o.seg THEN whole ELSE SubSeq(whole, 1, m)
      BY DEF Before, whole
    <3>2. ~(d < o.seg)
      BY <1>1, <1>4
    <3> HIDE DEF m
    <3> QED BY <3>1, <3>2
  <2>2. m \in Nat /\ m <= Len(l) /\ m <= Len(whole) /\ m <= o.line /\ (o.line <= Len(l) => m = o.line)
        /\ (m = o.line \/ Len(l) = 0)
    <3>1. CASE seg[d].exists
      <4>1. o.line <= Len(l)
        BY <1>4, <3>1 DEF Settled, Within
      <4> QED BY <1>1, <1>2, <4>1 DEF Smaller
    <3>2. CASE ~seg[d].exists
      <4>1. seg[d].tail = None /\ Len(l) = 0
        BY <3>2 DEF GoneIsEmpty, NoSegment
      <4>2. whole = l
        BY <4>1 DEF whole
      <4> QED BY <1>1, <1>2, <4>1, <4>2 DEF Smaller
    <3> QED BY <3>1, <3>2
  <2> HIDE DEF m
  <2>3. /\ DOMAIN SubSeq(whole, 1, m) = 1 .. m
        /\ \A k \in 1 .. m : SubSeq(whole, 1, m)[k] = whole[k]
    BY <1>2, <2>2
  <2> HIDE DEF l
  <2>4. /\ \A k \in 1 .. m : k \in DOMAIN l /\ SubSeq(whole, 1, m)[k] = l[k] /\ k <= o.line
        /\ \A k \in DOMAIN l : k <= o.line => k \in 1 .. m /\ SubSeq(whole, 1, m)[k] = l[k]
    BY <1>1, <1>2, <2>2, <2>3
  <2>5. ~(d < o.seg)
    BY <1>1, <1>4
  <2> QED BY <2>1, <2>3, <2>4, <2>5 DEF HasBefore, l
<1> QED BY <1>1, <1>3, <1>4

(* The seed is of the last recall before the offset.                          *)
SeededAt(o, s, f, d, k) ==
    /\ d <= o.seg /\ k \in DOMAIN Before(o, d)
    /\ Recalls(Before(o, d)[k], s) /\ f = log[Before(o, d)[k]].family
    /\ \A l \in DOMAIN Before(o, d) : Recalls(Before(o, d)[l], s) => l <= k
    /\ \A e \in Days : d < e /\ e <= o.seg => \A l \in DOMAIN Before(o, e) : ~Recalls(Before(o, e)[l], s)

LEMMA SeedIsLatest ==
  ASSUME TypeInv, NEW o \in Offset, NEW s, o.seg # None,
         \E e \in 0 .. o.seg : \E n \in ToSet(Before(o, e)) : Recalls(n, s)
  PROVE  \E d \in Days : \E k \in DOMAIN Before(o, d) : SeededAt(o, s, Seed(o, s), d, k)
<1> DEFINE days == IF o.seg = None THEN {}
                   ELSE {d \in 0 .. o.seg : \E n \in ToSet(Before(o, d)) : Recalls(n, s)}
<1>1. Seed(o, s) = IF days = {} THEN None ELSE LastRecall(Before(o, Max(days)), s, None)
  BY DEF Seed
<1>2. days # {} /\ o.seg \in Days /\ o.seg \in Nat /\ Typed
  BY SegmentTyped DEF Offset, TypeInv, SegIsTyped
<1>3. days = {d \in 0 .. o.seg : \E n \in ToSet(Before(o, d)) : Recalls(n, s)}
  BY <1>2
<1>4. days \subseteq Days /\ days \subseteq Nat /\ \A d \in days : d <= o.seg
  <2>1. Day(MaxClock) \in Nat
    BY FlagDerivationAssumption, DayMonotone
  <2>2. days \subseteq 0 .. o.seg
    OBVIOUS
  <2> HIDE DEF days
  <2> QED BY <1>2, <2>1, <2>2 DEF Days
<1> HIDE DEF days
<1> DEFINE d == Max(days)
<1>5. d \in days /\ \A e \in days : e <= d
  BY <1>2, <1>4, MaxIsGreatest
<1> HIDE DEF d
<1>6. d \in Days /\ d <= o.seg /\ d \in Nat
  BY <1>4, <1>5
<1> DEFINE b == Before(o, d)
<1>7. DOMAIN b = 1 .. Len(b) /\ Len(b) \in Nat
  BY <1>6, BeforeTyped
<1>8. Seed(o, s) = LastRecall(b, s, None)
  BY <1>1, <1>2 DEF d
<1>9. FromLastRecall(b, s, None, Seed(o, s))
  BY <1>7, <1>8, LastRecallIsLast
<1>10. PICK k \in DOMAIN b : /\ Recalls(b[k], s) /\ Seed(o, s) = log[b[k]].family
                             /\ \A l \in DOMAIN b : Recalls(b[l], s) => l <= k
  <2>1. PICK n \in ToSet(b) : Recalls(n, s)
    BY <1>3, <1>5
  <2>2. PICK l \in DOMAIN b : b[l] = n
    BY <2>1 DEF ToSet
  <2>3. ~\A k \in DOMAIN b : ~Recalls(b[k], s)
    BY <2>1, <2>2
  <2> QED BY <1>9, <2>3 DEF FromLastRecall
<1>11. ASSUME NEW e \in Days, d < e, e <= o.seg, NEW l \in DOMAIN Before(o, e)
       PROVE  ~Recalls(Before(o, e)[l], s)
  <2>1. e \in 0 .. o.seg /\ e \in Nat
    BY <1>2, <1>11, SegmentTyped DEF SegIsTyped
  <2>2. ~(e <= d)
    BY <1>6, <1>11, <2>1
  <2>3. e \notin days
    BY <1>5, <2>2
  <2> QED BY <1>3, <2>1, <2>3 DEF ToSet
<1>12. SeededAt(o, s, Seed(o, s), d, k)
  BY <1>6, <1>10, <1>11 DEF SeededAt
<1> QED BY <1>6, <1>12 DEF SeededAt

(* There is a seed exactly where there is a recall before the offset.         *)
LEMMA SeedIsSome ==
  ASSUME TypeInv, NEW o \in Offset, NEW s, Seed(o, s) # None
  PROVE  o.seg # None /\ \E e \in 0 .. o.seg : \E n \in ToSet(Before(o, e)) : Recalls(n, s)
BY DEF Seed

LEMMA SeedIsThere ==
  ASSUME TypeInv, RecallsNameFamilies, NEW o \in Offset, NEW s, o.seg # None,
         NEW e \in Days, e <= o.seg, NEW l \in DOMAIN Before(o, e), Recalls(Before(o, e)[l], s)
  PROVE  Seed(o, s) # None
<1>1. o.seg \in Nat /\ e \in 0 .. o.seg
  BY SegmentTyped DEF Offset, TypeInv, SegIsTyped
<1>2. Before(o, e)[l] \in ToSet(Before(o, e))
  BY DEF ToSet
<1>3. PICK d \in Days : \E k \in DOMAIN Before(o, d) : SeededAt(o, s, Seed(o, s), d, k)
  BY <1>1, <1>2, SeedIsLatest
<1>4. PICK k \in DOMAIN Before(o, d) : SeededAt(o, s, Seed(o, s), d, k)
  BY <1>3
<1> DEFINE m == Before(o, d)[k]
<1>5. Logged(m) /\ Recalls(m, s) /\ Seed(o, s) = log[m].family
  BY <1>4, BeforeTyped DEF SeededAt
<1> HIDE DEF m
<1>6. m \in 1 .. Len(log) /\ log[m].kind = "recall"
  BY <1>5, SegmentTyped DEF Logged, Recalls, Junk, TypeInv, SegIsTyped
<1> QED BY <1>5, <1>6 DEF RecallsNameFamilies

(* What PairAnchored needs, with one command at a time.                       *)
Quiet(p) ==
    /\ Typed /\ PassTyped /\ TypeInv /\ FilesInv /\ LooseEnds /\ Settled(from[p])
    /\ BatchInv(p) /\ LogInOrder /\ WrittenInLogOrder /\ RecallsNameFamilies /\ TornIsLatest
    /\ ReadsEverything(p)
    /\ pc[p] = "decide"

(* The last recall before the failure is in the batch.                        *)
LEMMA RecallInBatch ==
  ASSUME NEW p \in Procs, Quiet(p), NEW x \in DOMAIN written,
         NEW i \in DOMAIN batch[p], batch[p][i] = written[x].n,
         NEW k \in DOMAIN batch[p], k < i, Recalls(batch[p][k], log[written[x].n].session),
         \A j \in DOMAIN batch[p] :
            j <= i /\ Recalls(batch[p][j], log[written[x].n].session) => j <= k
  PROVE  AnchoredAt(written[x].n, log[batch[p][k]].family)
<1> USE DEF Quiet
<1>1. WrittenIsTyped /\ EntryIsTyped
  BY WrittenTyped, EntryTyped
<1>2. PICK z \in DOMAIN written : written[z].n = batch[p][k]
  BY DEF BatchInv, BatchIsWritten, Recalls
<1>3. z < x
  BY <1>2 DEF BatchInv, BatchInOrder
<1>4. written[z].n < written[x].n /\ written[z].n \in Nat /\ written[x].n \in Nat /\ written[z].n >= 1
  BY <1>1, <1>2, <1>3 DEF WrittenInLogOrder, WrittenIsTyped, EntryIsTyped
<1>5. InBatch(p, z) /\ InBatch(p, x) /\ Alive(z)
  <2>1. InBatch(p, z) /\ InBatch(p, x)
    BY <1>2 DEF InBatch
  <2> QED BY <2>1 DEF ReadsEverything, Reading
<1>6. ASSUME NEW w \in DOMAIN written, Recalls(written[w].n, log[written[x].n].session),
             written[w].n \in written[z].n + 1 .. written[x].n - 1
      PROVE  FALSE
  <2>1. written[w].n \in Nat /\ written[z].n < written[w].n /\ written[w].n < written[x].n
    BY <1>4, <1>6
  <2>2. w \in Nat /\ x \in Nat /\ z \in Nat
    BY <1>1 DEF WrittenIsTyped
  <2>3. ~(w < z) /\ ~(x < w) /\ w # x /\ w # z
    BY <1>4, <2>1 DEF WrittenInLogOrder
  <2>4. z < w /\ w < x
    BY <2>2, <2>3
  <2>5. InBatch(p, w)
    BY <1>5, <2>4 DEF BatchInv, BatchIsDense
  <2>6. PICK j \in DOMAIN batch[p] : batch[p][j] = written[w].n
    BY <2>5 DEF InBatch
  <2>7. j \in Nat /\ i \in Nat /\ k \in Nat
    BY BatchIsTyped
  <2>8. ~(i < j) /\ ~(j < k)
    BY <1>2, <2>2, <2>4, <2>6 DEF BatchInv, BatchInOrder
  <2>9. j # k
    BY <1>2, <1>4, <2>1, <2>6
  <2>10. j <= i /\ ~(j <= k)
    BY <2>7, <2>8, <2>9
  <2> QED BY <1>6, <2>6, <2>10
<1>7. written[z].n \in 1 .. written[x].n - 1
  BY <1>4
<1>8. Recalls(written[z].n, log[written[x].n].session)
  BY <1>2
<1> QED BY <1>2, <1>6, <1>7, <1>8 DEF AnchoredAt

(* It is before the offset the pass started at.                               *)
LEMMA RecallBeforeBatch ==
  ASSUME NEW p \in Procs, Quiet(p), NEW x \in DOMAIN written,
         NEW i \in DOMAIN batch[p], batch[p][i] = written[x].n,
         \A j \in DOMAIN batch[p] : j <= i => ~Recalls(batch[p][j], log[written[x].n].session),
         from[p].seg # None, NEW d \in Days, NEW k \in DOMAIN Before(from[p], d), NEW f,
         SeededAt(from[p], log[written[x].n].session, f, d, k)
  PROVE  AnchoredAt(written[x].n, f)
<1> USE DEF Quiet
<1> DEFINE o == from[p]
           s == log[written[x].n].session
           m == Before(o, d)[k]
<1>1. WrittenIsTyped /\ EntryIsTyped /\ SegIsTyped /\ GoneIsEmpty
  BY WrittenTyped, EntryTyped, SegmentTyped DEF FilesInv
<1>2. o \in Offset /\ o.seg \in Days /\ o.seg \in Nat /\ d \in Nat /\ d <= o.seg /\ Settled(o)
  BY <1>1 DEF Typed, Offset, SegIsTyped, SeededAt
<1>3. Recalls(m, s) /\ f = log[m].family /\ m # Junk
  BY DEF SeededAt, Recalls
<1>4. HasBefore(o, d)
  BY <1>1, <1>2, BeforeIsBefore
<1>5. \/ /\ k \in DOMAIN seg[d].lines /\ m = seg[d].lines[k] /\ (d = o.seg => k <= o.line)
      \/ d < o.seg /\ k = Len(seg[d].lines) + 1 /\ m = seg[d].tail /\ Torn(d)
  BY <1>3, <1>4 DEF HasBefore, Torn
<1> HIDE DEF o, s, m
<1>6. m \in 1 .. Len(log) /\ m \in Nat /\ Day(log[m].ts) = d /\ seg[d].exists
  <2>1. CASE k \in DOMAIN seg[d].lines /\ m = seg[d].lines[k]
    <3>1. PICK z \in DOMAIN written : written[z].n = m /\ DayOf(z) = d
      BY <1>3, <2>1 DEF FilesInv, LinesAreWritten
    <3>2. seg[d].exists
      <4>1. DOMAIN NoSegment.lines = {}
        BY DEF NoSegment
      <4> QED BY <1>1, <2>1, <4>1 DEF GoneIsEmpty
    <3> QED BY <1>1, <3>1, <3>2 DEF FilesInv, WrittenOnce, EntryIsTyped
  <2>2. CASE m = seg[d].tail /\ Torn(d)
    <3>1. seg[d].exists
      BY <1>1, <2>2 DEF GoneIsEmpty, NoSegment, Torn
    <3>2. m \in 1 .. Len(log) /\ Day(log[m].ts) = d
      BY <2>2 DEF LooseEnds
    <3> QED BY <3>1, <3>2
  <2> QED BY <1>5, <2>1, <2>2
<1>7. /\ InBatch(p, x) /\ Alive(x) /\ o.seg <= DayOf(x) /\ ~InFront(seg, o, written[x].n)
      /\ DayOf(x) \in Nat /\ DayOf(x) \in Days /\ x \in Nat
      /\ written[x].n \in Nat /\ written[x].n \in 1 .. Len(log) /\ Len(log) \in Nat
      /\ Day(log[written[x].n].ts) = DayOf(x)
  <2>1. InBatch(p, x)
    BY DEF InBatch
  <2>2. Alive(x)
    BY <2>1 DEF ReadsEverything, Reading
  <2>3. o.seg <= DayOf(x) /\ ~InFront(seg, o, written[x].n)
    BY <2>1, <2>2 DEF BatchInv, BatchBehindOffset, o
  <2> QED BY <1>1, <2>1, <2>2, <2>3 DEF WrittenIsTyped, EntryIsTyped, SegIsTyped, FilesInv, WrittenOnce
<1>8. \A a, b \in 1 .. Len(log) : a <= b => Day(log[a].ts) <= Day(log[b].ts)
  <2>1. ASSUME NEW a \in 1 .. Len(log), NEW b \in 1 .. Len(log), a <= b
        PROVE  Day(log[a].ts) <= Day(log[b].ts)
    <3>1. log[a].ts \in Nat /\ log[b].ts \in Nat
      <4>1. log[a] \in Entry /\ log[b] \in Entry
        BY <2>1 DEF Typed
      <4> QED BY <4>1, FlagDerivationAssumption DEF Entry
    <3>2. log[a].ts <= log[b].ts
      BY <1>7, <2>1, <3>1 DEF LogInOrder
    <3> QED BY <3>1, <3>2, DayMonotone
  <2> QED BY <2>1
<1>9. m < written[x].n
  <2>1. CASE d < DayOf(x)
    <3>1. ~(written[x].n <= m)
      BY <1>2, <1>6, <1>7, <1>8, <2>1
    <3> QED BY <1>6, <1>7, <3>1
  <2>2. CASE ~(d < DayOf(x))
    <3>1. d = o.seg /\ d = DayOf(x)
      BY <1>2, <1>7, <2>2
    <3>2. k \in DOMAIN seg[d].lines /\ m = seg[d].lines[k] /\ k <= o.line /\ k \in Nat
      BY <1>1, <1>2, <1>5, <3>1 DEF SegIsTyped
    <3>3. PICK z \in DOMAIN written : written[z].n = m /\ DayOf(z) = d
      BY <1>3, <3>2 DEF FilesInv, LinesAreWritten
    <3>4. PICK l \in DOMAIN seg[d].lines : seg[d].lines[l] = written[x].n
      BY <1>7, <3>1 DEF FilesInv, WrittenAreLines
    <3>5. ~(l <= o.line) /\ l \in Nat /\ o.line \in Nat
      BY <1>1, <1>2, <1>7, <3>1, <3>4 DEF InFront, SegIsTyped, Offset
    <3>6. k < l
      BY <3>2, <3>5
    <3>7. z < x
      BY <3>2, <3>3, <3>4, <3>6 DEF FilesInv, LinesInOrder
    <3> QED BY <3>3, <3>7 DEF WrittenInLogOrder
  <2> QED BY <2>1, <2>2
<1>10. ASSUME NEW w \in DOMAIN written, Recalls(written[w].n, s),
              written[w].n \in m + 1 .. written[x].n - 1
       PROVE  FALSE
  <2>1. /\ written[w].n \in Nat /\ m < written[w].n /\ written[w].n < written[x].n
        /\ w \in Nat /\ DayOf(w) \in Nat /\ DayOf(w) \in Days /\ written[w].n \in 1 .. Len(log)
        /\ Day(log[written[w].n].ts) = DayOf(w)
    BY <1>1, <1>6, <1>7, <1>10 DEF WrittenIsTyped, EntryIsTyped, FilesInv, WrittenOnce
  <2>2. ~(x < w) /\ w # x
    BY <1>7, <2>1 DEF WrittenInLogOrder
  <2>3. w < x
    BY <1>7, <2>1, <2>2
  <2>4. d <= DayOf(w)
    BY <1>6, <1>8, <2>1
  <2>5. Alive(w)
    <3>1. CASE d < DayOf(w)
      BY <1>6, <2>1, <3>1 DEF FilesInv, OldestGoFirst
    <3>2. CASE d = DayOf(w)
      BY <1>6, <3>2 DEF Alive
    <3> QED BY <1>2, <2>1, <2>4, <3>1, <3>2
  <2>6. InFront(seg, o, written[w].n) \/ InBatch(p, w)
    <3>1. left[p] = {} /\ pc[p] \in Reading
      BY DEF BatchInv, PassShape, Reading
    <3> QED BY <2>5, <3>1 DEF ReadsEverything, o
  <2>7. ASSUME InBatch(p, w) PROVE FALSE
    <3>1. PICK j \in DOMAIN batch[p] : batch[p][j] = written[w].n
      BY <2>7 DEF InBatch
    <3>2. j \in Nat /\ i \in Nat
      BY BatchIsTyped
    <3>3. ~(i < j)
      BY <1>7, <2>1, <2>3, <3>1 DEF BatchInv, BatchInOrder
    <3> QED BY <1>10, <3>1, <3>2, <3>3 DEF s
  <2>8. ASSUME InFront(seg, o, written[w].n) PROVE FALSE
    <3>1. PICK l \in DOMAIN seg[DayOf(w)].lines : seg[DayOf(w)].lines[l] = written[w].n
      BY <2>5 DEF FilesInv, WrittenAreLines
    <3>2. DayOf(w) < o.seg \/ (DayOf(w) = o.seg /\ l <= o.line)
      BY <1>2, <2>8, <3>1, LinesHavePlaces DEF LinePlaces
    <3>3. DayOf(w) <= o.seg
      BY <1>2, <2>1, <3>2
    <3>4. HasBefore(o, DayOf(w))
      BY <1>1, <1>2, <2>1, <3>3, BeforeIsBefore DEF o
    <3>5. l \in DOMAIN Before(o, DayOf(w)) /\ Before(o, DayOf(w))[l] = written[w].n
      BY <3>1, <3>2, <3>4 DEF HasBefore
    <3>6. ~(d < DayOf(w))
      BY <1>10, <2>1, <3>3, <3>5 DEF SeededAt, o, s
    <3>7. DayOf(w) = d
      BY <1>2, <2>1, <2>4, <3>6
    <3>8. l <= k
      BY <1>10, <3>5, <3>7 DEF SeededAt, o, s
    <3>9. CASE k \in DOMAIN seg[d].lines /\ m = seg[d].lines[k]
      <4>1. PICK z \in DOMAIN written : written[z].n = m /\ DayOf(z) = d
        BY <1>3, <3>9 DEF FilesInv, LinesAreWritten
      <4>2. l # k
        BY <2>1, <1>6, <3>1, <3>7, <3>9
      <4>3. l < k
        BY <1>1, <1>2, <3>1, <3>7, <3>8, <3>9, <4>2 DEF SegIsTyped
      <4>4. w < z
        BY <3>1, <3>7, <3>9, <4>1, <4>3 DEF FilesInv, LinesInOrder
      <4>5. written[w].n < m
        BY <4>1, <4>4 DEF WrittenInLogOrder
      <4> QED BY <1>6, <2>1, <4>5
    <3>10. CASE m = seg[d].tail /\ Torn(d)
      <4>1. written[w].n < m
        BY <1>2, <3>7, <3>10 DEF TornIsLatest
      <4> QED BY <1>6, <2>1, <4>1
    <3> QED BY <1>5, <3>9, <3>10
  <2> QED BY <2>6, <2>7, <2>8
<1>11. m \in 1 .. written[x].n - 1
  BY <1>6, <1>7, <1>9
<1> QED BY <1>3, <1>10, <1>11 DEF AnchoredAt, s

(* There is none, in the batch or before it.                                  *)
LEMMA NoRecallLeft ==
  ASSUME NEW p \in Procs, Quiet(p), NEW x \in DOMAIN written,
         NEW i \in DOMAIN batch[p], batch[p][i] = written[x].n,
         \A j \in DOMAIN batch[p] : j <= i => ~Recalls(batch[p][j], log[written[x].n].session),
         Seed(from[p], log[written[x].n].session) = None
  PROVE  Unanchored(written[x].n)
<1> USE DEF Quiet
<1> DEFINE o == from[p]
           s == log[written[x].n].session
<1>1. WrittenIsTyped /\ EntryIsTyped /\ SegIsTyped /\ GoneIsEmpty /\ o \in Offset /\ Settled(o)
  BY WrittenTyped, EntryTyped, SegmentTyped DEF FilesInv, Typed
<1> HIDE DEF o, s
<1>2. ASSUME NEW w \in DOMAIN written, Recalls(written[w].n, s), written[w].n < written[x].n, Alive(w)
      PROVE  FALSE
  <2>1. w \in Nat /\ x \in Nat /\ written[w].n \in Nat /\ written[x].n \in Nat
        /\ DayOf(w) \in Days /\ DayOf(w) \in Nat
    BY <1>1 DEF WrittenIsTyped
  <2>2. ~(x < w) /\ w # x
    BY <1>2, <2>1 DEF WrittenInLogOrder
  <2>3. w < x
    BY <2>1, <2>2
  <2>4. InFront(seg, o, written[w].n) \/ InBatch(p, w)
    <3>1. left[p] = {} /\ pc[p] \in Reading
      BY DEF BatchInv, PassShape, Reading
    <3> QED BY <1>2, <3>1 DEF ReadsEverything, o
  <2>5. ASSUME InBatch(p, w) PROVE FALSE
    <3>1. PICK j \in DOMAIN batch[p] : batch[p][j] = written[w].n
      BY <2>5 DEF InBatch
    <3>2. j \in Nat /\ i \in Nat
      BY BatchIsTyped
    <3>3. ~(i < j)
      BY <2>1, <2>3, <3>1 DEF BatchInv, BatchInOrder
    <3> QED BY <1>2, <3>1, <3>2, <3>3 DEF s
  <2>6. ASSUME InFront(seg, o, written[w].n) PROVE FALSE
    <3>1. PICK l \in DOMAIN seg[DayOf(w)].lines : seg[DayOf(w)].lines[l] = written[w].n
      BY <1>2 DEF FilesInv, WrittenAreLines
    <3>2. o.seg # None /\ (DayOf(w) < o.seg \/ (DayOf(w) = o.seg /\ l <= o.line))
      BY <1>1, <2>6, <3>1, LinesHavePlaces DEF LinePlaces
    <3>3. o.seg \in Nat /\ DayOf(w) <= o.seg
      BY <1>1, <2>1, <3>2 DEF Offset, SegIsTyped
    <3>4. HasBefore(o, DayOf(w))
      BY <1>1, <2>1, <3>2, <3>3, BeforeIsBefore
    <3>5. l \in DOMAIN Before(o, DayOf(w)) /\ Before(o, DayOf(w))[l] = written[w].n
      BY <3>1, <3>2, <3>4 DEF HasBefore
    <3>6. Seed(o, s) # None
      BY <1>1, <1>2, <2>1, <3>2, <3>3, <3>5, SeedIsThere
    <3> QED BY <3>6 DEF o, s
  <2> QED BY <2>4, <2>5, <2>6
<1> QED BY <1>2 DEF Unanchored, s

(* What Decide stores with a pair is the family it is anchored at.            *)
LEMMA PairAnchored ==
  ASSUME NEW p \in Procs, Quiet(p), NEW i \in DOMAIN batch[p], PairedAt(batch[p], i), NEW f,
         f = LastRecall(SubSeq(batch[p], 1, i), log[batch[p][i]].session,
                        Seed(from[p], log[batch[p][i]].session))
  PROVE  AnchorHolds(batch[p][i], f)
<1> DEFINE es == SubSeq(batch[p], 1, i)
           s == log[batch[p][i]].session
           before == Seed(from[p], s)
<1>1. /\ batch[p] \in Seq(Ids \cup {Junk}) /\ from[p] \in Offset /\ TypeInv
      /\ i \in 1 .. Len(batch[p]) /\ Len(batch[p]) \in Nat /\ i \in Nat
  BY DEF Quiet, Typed, PassTyped
<1>2. DOMAIN es = 1 .. i /\ Len(es) = i /\ \A k \in 1 .. i : es[k] = batch[p][k] /\ k \in DOMAIN batch[p]
  BY <1>1
<1>3. PICK x \in DOMAIN written : written[x].n = batch[p][i]
  BY DEF Quiet, BatchInv, BatchIsWritten, PairedAt, Failure
<1>4. ~Recalls(batch[p][i], s)
  BY DEF PairedAt, Failure, Recalls
<1> HIDE DEF es, before
<1>5. FromLastRecall(es, s, before, f)
  <2>1. FromLastRecall(es, s, before, LastRecall(es, s, before))
    BY <1>1, <1>2, LastRecallIsLast
  <2> QED BY <2>1 DEF es, before
<1>6. CASE f = before /\ \A k \in DOMAIN es : ~Recalls(es[k], s)
  <2>1. ASSUME NEW j \in DOMAIN batch[p], j <= i PROVE ~Recalls(batch[p][j], s)
    <3>1. j \in 1 .. i
      BY <1>1, <2>1
    <3> QED BY <1>2, <1>6, <3>1
  <2>2. CASE f = None
    <3>1. Unanchored(batch[p][i])
      BY <1>3, <1>6, <2>1, <2>2, NoRecallLeft DEF before
    <3> QED BY <2>2, <3>1 DEF AnchorHolds
  <2>3. CASE f # None
    <3>1. from[p].seg # None /\ \E e \in 0 .. from[p].seg : \E n \in ToSet(Before(from[p], e)) : Recalls(n, s)
      BY <1>1, <1>6, <2>3, SeedIsSome DEF before
    <3>2. \E d \in Days : \E k \in DOMAIN Before(from[p], d) : SeededAt(from[p], s, f, d, k)
      BY <1>1, <1>6, <3>1, SeedIsLatest DEF before
    <3>3. PICK d \in Days : \E k \in DOMAIN Before(from[p], d) : SeededAt(from[p], s, f, d, k)
      BY <3>2
    <3>4. PICK k \in DOMAIN Before(from[p], d) : SeededAt(from[p], s, f, d, k)
      BY <3>3
    <3>5. AnchoredAt(batch[p][i], f)
      BY <1>3, <2>1, <3>1, <3>4, RecallBeforeBatch
    <3> QED BY <2>3, <3>5 DEF AnchorHolds
  <2> QED BY <2>2, <2>3
<1>7. CASE \E k \in DOMAIN es : /\ Recalls(es[k], s) /\ f = log[es[k]].family
                                 /\ \A j \in DOMAIN es : Recalls(es[j], s) => j <= k
  <2>1. PICK k \in 1 .. i : /\ Recalls(batch[p][k], s) /\ f = log[batch[p][k]].family
                            /\ \A j \in 1 .. i : Recalls(batch[p][j], s) => j <= k
    BY <1>2, <1>7
  <2>2. k \in DOMAIN batch[p] /\ k < i
    BY <1>1, <1>2, <1>4, <2>1
  <2>3. ASSUME NEW j \in DOMAIN batch[p], j <= i, Recalls(batch[p][j], s) PROVE j <= k
    BY <1>1, <2>1, <2>3
  <2>4. AnchoredAt(batch[p][i], f)
    BY <1>3, <2>1, <2>2, <2>3, RecallInBatch
  <2>5. f # None
    <3>1. Logged(batch[p][k]) /\ batch[p][k] # Junk /\ log[batch[p][k]].kind = "recall" /\ Len(log) \in Nat
      BY <1>1, <2>1, <2>2, SegmentTyped DEF TypeInv, Recalls, SegIsTyped
    <3>2. batch[p][k] \in 1 .. Len(log)
      BY <3>1 DEF Logged, Junk
    <3> QED BY <2>1, <3>1, <3>2 DEF RecallsNameFamilies, Quiet
  <2> QED BY <2>4, <2>5 DEF AnchorHolds
<1> QED BY <1>5, <1>6, <1>7 DEF FromLastRecall

(* What is written later is later in the log.                                 *)
LEMMA AnchoredKept ==
  ASSUME Typed, FilesInv, Typed', FilesInv', Grows, WrittenInLogOrder',
         NEW n, NEW x \in DOMAIN written, written[x].n = n, NEW f, AnchoredAt(n, f)
  PROVE  AnchoredAt(n, f)'
<1>1. WrittenIsTyped /\ EntryIsTyped /\ WrittenIsTyped'
  <2>1. (Typed => WrittenIsTyped)'
    BY WrittenTyped, PTL
  <2> QED BY <2>1, WrittenTyped, EntryTyped
<1>2. /\ n \in 1 .. Len(log) /\ n \in Nat /\ Len(log) \in Nat /\ x \in Nat
      /\ \A y \in DOMAIN written : y \in DOMAIN written' /\ written'[y] = written[y]
      /\ \A e \in 1 .. Len(log) : log'[e] = log[e]
  <2>1. n \in 1 .. Len(log) /\ n \in Nat /\ x \in Nat
    BY <1>1 DEF WrittenIsTyped, EntryIsTyped
  <2>2. Len(log) \in Nat
    BY SegmentTyped DEF SegIsTyped
  <2>3. \A y \in DOMAIN written : y \in DOMAIN written' /\ written'[y] = written[y]
    BY <1>1 DEF WrittenIsTyped, Grows
  <2> QED BY <2>1, <2>2, <2>3 DEF Grows
<1>3. PICK m \in 1 .. n - 1 :
        /\ Recalls(m, log[n].session) /\ log[m].family = f
        /\ \A i \in DOMAIN written :
              Recalls(written[i].n, log[n].session) => written[i].n \notin m + 1 .. n - 1
  BY DEF AnchoredAt
<1>4. m \in 1 .. Len(log) /\ log'[m] = log[m] /\ log'[n] = log[n]
  BY <1>2, <1>3
<1>5. ASSUME NEW i \in DOMAIN written', Recalls(written[i].n, log[n].session)',
             written'[i].n \in m + 1 .. n - 1
      PROVE  FALSE
  <2>1. CASE i \in DOMAIN written
    <3>1. written'[i] = written[i] /\ log'[written[i].n] = log[written[i].n]
      BY <1>1, <1>2, <2>1 DEF EntryIsTyped
    <3>2. Recalls(written[i].n, log[n].session)
      BY <1>4, <1>5, <3>1 DEF Recalls
    <3> QED BY <1>3, <1>5, <2>1, <3>1, <3>2
  <2>2. CASE i \notin DOMAIN written
    <3>1. x < i
      BY <1>1, <2>2 DEF WrittenIsTyped
    <3>2. n < written'[i].n
      BY <1>2, <3>1 DEF WrittenInLogOrder
    <3> QED BY <1>2, <1>3, <1>5, <3>2
  <2> QED BY <2>1, <2>2
<1>6. Recalls(m, log[n].session)' /\ log'[m].family = f
  BY <1>3, <1>4 DEF Recalls
<1> QED BY <1>3, <1>5, <1>6 DEF AnchoredAt, Recalls

(* A segment that has gone stays gone.                                        *)
LEMMA UnanchoredKept ==
  ASSUME Typed, FilesInv, Typed', FilesInv', Grows, WrittenInLogOrder',
         NEW n, NEW x \in DOMAIN written, written[x].n = n, Unanchored(n)
  PROVE  Unanchored(n)'
<1>1. WrittenIsTyped /\ EntryIsTyped /\ WrittenIsTyped'
  <2>1. (Typed => WrittenIsTyped)'
    BY WrittenTyped, PTL
  <2> QED BY <2>1, WrittenTyped, EntryTyped
<1>2. /\ n \in 1 .. Len(log) /\ n \in Nat /\ x \in Nat
      /\ \A y \in DOMAIN written : y \in DOMAIN written' /\ written'[y] = written[y]
      /\ \A e \in 1 .. Len(log) : log'[e] = log[e]
  BY <1>1 DEF WrittenIsTyped, EntryIsTyped, Grows
<1>3. ASSUME NEW i \in DOMAIN written', Recalls(written[i].n, log[n].session)', written'[i].n < n, Alive(i)'
      PROVE  FALSE
  <2>1. CASE i \in DOMAIN written
    <3>1. Alive(i)
      BY <1>3, <2>1, InFrontKept
    <3>2. written'[i] = written[i] /\ log'[written[i].n] = log[written[i].n] /\ log'[n] = log[n]
      BY <1>1, <1>2, <2>1 DEF EntryIsTyped
    <3>3. Recalls(written[i].n, log[n].session)
      BY <1>3, <3>2 DEF Recalls
    <3> QED BY <1>3, <2>1, <3>1, <3>2, <3>3 DEF Unanchored
  <2>2. CASE i \notin DOMAIN written
    <3>1. x < i /\ x \in DOMAIN written'
      BY <1>1, <1>2, <2>2 DEF WrittenIsTyped
    <3>2. n < written'[i].n
      BY <1>2, <3>1 DEF WrittenInLogOrder
    <3>3. written'[i].n \in Nat
      BY <1>1 DEF WrittenIsTyped
    <3> QED BY <1>2, <1>3, <3>2, <3>3
  <2> QED BY <2>1, <2>2
<1> QED BY <1>3 DEF Unanchored, Recalls, Alive, DayOf, Day

(* An anchor stays sound while its failure's pass goes on.                    *)
LEMMA AnchorsKept ==
  ASSUME NEW p, Procs = {p}, Typed, FilesInv, Typed', FilesInv', Grows, WrittenInLogOrder',
         Anchored, PairsSound(p), anchor' = anchor, todo'[p] \subseteq todo[p]
  PROVE  Anchored'
<1>1. \A x \in DOMAIN written : x \in DOMAIN written' /\ written'[x] = written[x]
  <2>1. (Typed => WrittenIsTyped)'
    BY WrittenTyped, PTL
  <2> QED BY <2>1, WrittenTyped DEF WrittenIsTyped, Grows
<1>2. \A n \in Ids : anchor'[n] # {} => \E x \in DOMAIN written' : written'[x].n = n
  BY <1>1 DEF Anchored
<1>3. ASSUME NEW n, NEW x \in DOMAIN written, written[x].n = n, NEW f, AnchorHolds(n, f)
      PROVE  AnchorHolds(n, f)'
  <2>1. CASE f = None
    BY <1>3, <2>1, UnanchoredKept DEF AnchorHolds
  <2>2. CASE f # None
    BY <1>3, <2>2, AnchoredKept DEF AnchorHolds
  <2> QED BY <2>1, <2>2
<1>4. ASSUME NEW n \in Ids, NEW f \in anchor'[n] PROVE AnchorHolds(n, f)'
  <2>1. AnchorHolds(n, f) /\ anchor[n] # {}
    BY <1>4 DEF Anchored
  <2>2. PICK x \in DOMAIN written : written[x].n = n
    BY <1>4, <2>1 DEF Anchored
  <2> QED BY <1>3, <2>1, <2>2
<1>5. ASSUME NEW c \in todo'[p] PROVE AnchorHolds(c.n, c.family)'
  <2>1. PICK x \in DOMAIN written : written[x].n = c.n
    BY <1>5 DEF PairsSound
  <2>2. AnchorHolds(c.n, c.family)
    BY <1>5 DEF Anchored
  <2> QED BY <1>3, <2>1, <2>2
<1> QED BY <1>2, <1>4, <1>5 DEF Anchored

LEMMA AnchorsAsTheyWere ==
  ASSUME UNCHANGED <<log, written, seg>>, NEW n, NEW f
  PROVE  AnchorHolds(n, f)' <=> AnchorHolds(n, f)
BY DEF AnchorHolds, AnchoredAt, Unanchored, Recalls, Alive, DayOf, Day

LEMMA DecideAnchors ==
  ASSUME NEW p, Procs = {p}, p \in Procs, Quiet(p), Anchored, Decide(p), ~Pending(batch[p])
  PROVE  Anchored'
<1> DEFINE fam(i) == LastRecall(SubSeq(batch[p], 1, i), log[batch[p][i]].session,
                                Seed(from[p], log[batch[p][i]].session))
           T == {[n |-> batch[p][i], at |-> i, family |-> fam(i)]
                    : i \in {k \in DOMAIN batch[p] : PairedAt(batch[p], k)}}
<1>1. todo' = [todo EXCEPT ![p] = T] /\ UNCHANGED <<log, written, seg, anchor>>
  BY DEF Decide, journal
<1>2. ASSUME NEW i \in DOMAIN batch[p], PairedAt(batch[p], i)
      PROVE  AnchorHolds(batch[p][i], fam(i))
  BY <1>2, PairAnchored
<1>3. \A c \in T : AnchorHolds(c.n, c.family)
  <2> HIDE DEF fam
  <2> QED BY <1>2
<1> HIDE DEF T
<1>4. todo'[p] = T
  BY <1>1 DEF Quiet, PassTyped
<1>5. \A n, f : AnchorHolds(n, f)' <=> AnchorHolds(n, f)
  BY <1>1, AnchorsAsTheyWere
<1> QED BY <1>1, <1>3, <1>4, <1>5 DEF Anchored

LEMMA DeriveAnchors ==
  ASSUME NEW p, Procs = {p}, p \in Procs, TypeInv, Anchored, PairsSound(p), Derive(p)
  PROVE  Anchored'
<1>1. PICK c \in todo[p] : /\ anchor' = [anchor EXCEPT ![c.n] = @ \cup {c.family}]
                           /\ todo' = [todo EXCEPT ![p] = @ \ {c}]
  BY DEF Derive
<1>2. UNCHANGED <<log, written, seg>>
  BY DEF Derive
<1>3. todo'[p] = todo[p] \ {c} /\ c.n \in Ids
  BY <1>1 DEF TypeInv, PassTyped, Pairs
<1>4. /\ anchor'[c.n] = anchor[c.n] \cup {c.family}
      /\ \A n \in Ids : n # c.n => anchor'[n] = anchor[n]
  BY <1>1, <1>3 DEF TypeInv
<1>5. \A n, f : AnchorHolds(n, f)' <=> AnchorHolds(n, f)
  BY <1>2, AnchorsAsTheyWere
<1>6. PICK x \in DOMAIN written : written[x].n = c.n
  BY DEF PairsSound
<1>7. AnchorHolds(c.n, c.family)
  BY DEF Anchored
<1>8. \A n \in Ids : anchor'[n] # {} => \E y \in DOMAIN written' : written'[y].n = n
  BY <1>2, <1>4, <1>6 DEF Anchored
<1>9. ASSUME NEW n \in Ids, NEW f \in anchor'[n] PROVE AnchorHolds(n, f)
  BY <1>4, <1>7, <1>9 DEF Anchored
<1>10. \A e \in todo'[p] : AnchorHolds(e.n, e.family)
  BY <1>3 DEF Anchored
<1> QED BY <1>5, <1>8, <1>9, <1>10 DEF Anchored

LEMMA AnchorsFollow ==
  ASSUME NEW p, Procs = {p}, PassInv, PassInv', TypeInv, Grows, WrittenInLogOrder', SoleInv, Acts(p)
  PROVE  Anchored'
<1>0. /\ p \in Procs /\ Typed /\ Typed' /\ FilesInv /\ FilesInv' /\ Anchored /\ PairsSound(p) /\ BatchInv(p)
      /\ PassTyped /\ PassTyped' /\ todo = [q \in Procs |-> todo[q]]
  BY DEF PassInv, JournalInv, CountInv, AllBatchInv, SoleInv, PassTyped
<1>1. CASE Decide(p) /\ ~Pending(batch[p])
  <2>1. pc[p] = "decide" /\ Settled(from[p]) /\ LooseEnds
    BY <1>0, <1>1 DEF Decide, PassInv, OffsetInv, JournalInv
  <2>2. Quiet(p)
    BY <1>0, <2>1 DEF Quiet, SoleInv
  <2> QED BY <1>0, <1>1, <2>2, DecideAnchors
<1>2. CASE Derive(p)
  BY <1>0, <1>2, DeriveAnchors
<1>3. CASE anchor' = anchor /\ todo'[p] \subseteq todo[p]
  BY <1>0, <1>3, AnchorsKept
<1>4. CASE \/ \E k \in Kinds, s \in Sessions, f \in Families \cup {None} : Begin(p, k, s, f)
           \/ Pass(p) \/ TornWrite(p) \/ Repair(p) \/ Write(p) \/ Cleanup(p) \/ Load(p) \/ List(p) \/ Read(p)
  <2>1. anchor' = anchor /\ todo' = todo
    BY <1>4 DEF Begin, Pass, TornWrite, Repair, Write, Cleanup, Load, List, Read, journal, pass
  <2> QED BY <1>3, <2>1
<1>5. CASE ReadDone(p) \/ Store(p) \/ Fail(p) \/ (Decide(p) /\ Pending(batch[p]))
  <2>1. anchor' = anchor /\ (Forget(p) \/ todo' = todo)
    BY <1>5 DEF ReadDone, Store, Fail, Decide, journal, pass
  <2>2. ASSUME Forget(p) PROVE todo'[p] \subseteq todo[p]
    BY <1>0, <2>2 DEF Forget
  <2> QED BY <1>3, <2>1, <2>2
<1> QED BY <1>1, <1>2, <1>4, <1>5 DEF Acts, Step

LEMMA InitSole == Init => SoleInv
<1> SUFFICES ASSUME Init PROVE SoleInv
  OBVIOUS
<1>1. /\ log = <<>> /\ written = <<>> /\ DOMAIN written = {} /\ Len(log) = 0
      /\ \A p \in Procs : pc[p] = "idle" /\ todo[p] = {}
      /\ \A n \in Ids : anchor[n] = {}
  BY DEF Init
<1>2. \A d \in Days : ~Torn(d)
  BY DEF Init, Torn, NoSegment
<1>3. LogInOrder
  BY <1>1 DEF LogInOrder
<1> QED BY <1>1, <1>2, <1>3 DEF SoleInv, WrittenInLogOrder, RecallsNameFamilies, LatestAppends, Appending, TornIsLatest,
                                ReadsEverything, Reading, Anchored

LEMMA FamiliesNamed ==
  ASSUME NEW p \in Procs, Typed, RecallsNameFamilies, Acts(p)
  PROVE  RecallsNameFamilies'
<1>1. CASE log' = log
  BY <1>1 DEF RecallsNameFamilies
<1>2. ASSUME NEW k, NEW s, NEW f, Begin(p, k, s, f) PROVE RecallsNameFamilies'
  <2> DEFINE e == [kind |-> k, session |-> s, ts |-> clock, family |-> f]
  <2>1. log' = Append(log, e) /\ (e.kind = "recall" => e.family # None)
    BY <1>2 DEF Begin
  <2> HIDE DEF e
  <2>2. log \in Seq(Entry)
    BY DEF Typed
  <2>3. ASSUME NEW n \in 1 .. Len(log') PROVE (n \in 1 .. Len(log) /\ log'[n] = log[n]) \/ log'[n] = e
    BY <2>1, <2>2
  <2> QED BY <2>1, <2>3 DEF RecallsNameFamilies
<1>3. log' = log \/ \E k \in Kinds, s \in Sessions, f \in Families \cup {None} : Begin(p, k, s, f)
  BY DEF Acts, Step, Pass, TornWrite, Fail, Repair, Write, Cleanup, Load, List, Read,
         ReadDone, Decide, Derive, Store, journal
<1> QED BY <1>1, <1>2, <1>3

LEMMA NextSole ==
  ASSUME NEW p, Procs = {p}, Midnight = FALSE, PassInv, PassInv', TypeInv, LossInv, SoleInv, [Next]_vars
  PROVE  SoleInv'
<1>0. /\ p \in Procs /\ Typed /\ PassTyped /\ FilesInv /\ JournalInv /\ WritersAreCurrent /\ BatchInv(p)
      /\ LogInOrder /\ WrittenInLogOrder /\ RecallsNameFamilies /\ LatestAppends /\ TornIsLatest
      /\ ReadsEverything(p) /\ Anchored
  BY DEF PassInv, OffsetInv, JournalInv, AllBatchInv, SoleInv
<1>1. CASE Acts(p)
  <2>1. Grows
    BY <1>0, <1>1, JournalKept
  <2>2. LogInOrder' /\ WrittenInLogOrder' /\ LatestAppends' /\ TornIsLatest'
    BY <1>0, <1>1, <2>1, OrderKept
  <2>3. ReadsEverything(p)'
    BY <1>0, <1>1, CompleteKept
  <2>4. Anchored'
    BY <1>1, <2>1, <2>2, AnchorsFollow
  <2>5. RecallsNameFamilies'
    BY <1>0, <1>1, FamiliesNamed
  <2> QED BY <2>2, <2>3, <2>4, <2>5 DEF SoleInv
<1>2. ASSUME UNCHANGED <<log, written, seg, anchor>>
      PROVE  /\ WrittenInLogOrder' /\ RecallsNameFamilies' /\ TornIsLatest'
             /\ todo'[p] = todo[p] => Anchored'
  <2>1. WrittenInLogOrder' /\ RecallsNameFamilies' /\ TornIsLatest'
    BY <1>0, <1>2 DEF WrittenInLogOrder, RecallsNameFamilies, TornIsLatest, Torn, DayOf, Day
  <2>2. \A n, f : AnchorHolds(n, f)' <=> AnchorHolds(n, f)
    BY <1>2, AnchorsAsTheyWere
  <2> QED BY <1>0, <1>2, <2>1, <2>2 DEF Anchored
<1>3. CASE Tick
  <2>1. /\ UNCHANGED <<log, written, seg, anchor, todo, pc, mine, batch, left, from>>
        /\ clock' = clock + 1
    BY <1>3 DEF Tick, journal, pass
  <2>2. LogInOrder'
    <3>1. \A n \in 1 .. Len(log) : log[n].ts \in Nat
      <4>1. \A n \in 1 .. Len(log) : log[n] \in Entry
        BY <1>0 DEF Typed
      <4> QED BY <4>1, FlagDerivationAssumption DEF Entry
    <3>2. clock \in Nat
      BY <1>0, SegmentTyped DEF SegIsTyped
    <3> QED BY <1>0, <2>1, <3>1, <3>2 DEF LogInOrder
  <2>3. LatestAppends' /\ ReadsEverything(p)'
    BY <1>0, <2>1 DEF LatestAppends, Appending, ReadsEverything, Reading, InBatch, Alive, DayOf, Day
  <2> QED BY <1>2, <2>1, <2>2, <2>3 DEF SoleInv
<1>4. CASE UNCHANGED vars
  <2>1. UNCHANGED <<clock, log, written, seg, anchor, todo, pc, mine, batch, left, from>>
    BY <1>4 DEF vars, journal, pass
  <2>2. LogInOrder' /\ LatestAppends' /\ ReadsEverything(p)'
    BY <1>0, <2>1 DEF LogInOrder, LatestAppends, Appending, ReadsEverything, Reading, InBatch, Alive, DayOf, Day
  <2> QED BY <1>2, <2>1, <2>2 DEF SoleInv
<1> QED BY <1>1, <1>3, <1>4 DEF Next, Acts

(* With one command at a time, the family a candidate is anchored at is that  *)
(* of the session's last readable recall before the failure: whether          *)
(* pairFlagCorrections met it in the batch or scanRecallFamiliesReverse found *)
(* it before the offset, nothing that the caps, a torn line or a held batch   *)
(* does puts an earlier recall, or a later one, in its place.  A candidate    *)
(* without a family means that no readable recall of the session before the   *)
(* failure is left in the journal.                                            *)
THEOREM AnchorsAreSound ==
  ASSUME NEW only, Procs = {only}, Midnight = FALSE
  PROVE  Spec => []AnchorSound
<1> DEFINE Inv == PassInv /\ TypeInv /\ LossInv /\ SoleInv
<1>1. Init => Inv
  BY InitPass, InitTypeInv, InitLoss, InitSole
<1>2. Inv /\ [Next]_vars => Inv'
  <2> SUFFICES ASSUME Inv, [Next]_vars PROVE Inv'
    OBVIOUS
  <2>1. PassInv'
    BY NextPass
  <2>2. TypeInv'
    BY NextTypeInv
  <2>3. LossInv'
    BY NextLoss DEF PassInv
  <2>4. SoleInv'
    BY <2>1, NextSole
  <2> QED BY <2>1, <2>2, <2>3, <2>4
<1>3. Inv => AnchorSound
  <2> SUFFICES ASSUME Inv, NEW n \in 1 .. Len(log), NEW f \in anchor[n]
               PROVE  IF f = None
                      THEN \A i \in DOMAIN written :
                              Recalls(written[i].n, log[n].session) /\ written[i].n < n
                                => ~Journaled(written[i].n)
                      ELSE \E m \in 1 .. n - 1 :
                              /\ Recalls(m, log[n].session) /\ log[m].family = f
                              /\ \A i \in DOMAIN written :
                                    Recalls(written[i].n, log[n].session) /\ written[i].n < n
                                        => written[i].n <= m
    BY DEF AnchorSound
  <2>1. n \in Ids /\ n \in Nat /\ WrittenIsTyped /\ FilesInv /\ Typed /\ SegIsTyped
    BY FlagDerivationAssumption, WrittenTyped, SegmentTyped DEF TypeInv, Typed, Ids, PassInv, JournalInv
  <2>2. AnchorHolds(n, f)
    BY <2>1 DEF SoleInv, Anchored
  <2>3. CASE f = None
    <3>1. ASSUME NEW i \in DOMAIN written, ~Alive(i), Journaled(written[i].n) PROVE FALSE
      <4>1. PICK d \in Days : written[i].n \in ToSet(seg[d].lines)
        BY <3>1 DEF Journaled
      <4>2. PICK k \in DOMAIN seg[d].lines : seg[d].lines[k] = written[i].n
        BY <4>1 DEF ToSet
      <4>3. DayOf(i) = d
        BY <2>1, <4>2, LinesHavePlaces DEF LinePlaces
      <4>4. DOMAIN NoSegment.lines = {}
        BY DEF NoSegment
      <4> QED BY <2>1, <3>1, <4>2, <4>3, <4>4 DEF FilesInv, GoneIsEmpty, Alive
    <3> QED BY <2>2, <2>3, <3>1 DEF AnchorHolds, Unanchored
  <2>4. CASE f # None
    <3>1. PICK m \in 1 .. n - 1 :
             /\ Recalls(m, log[n].session) /\ log[m].family = f
             /\ \A i \in DOMAIN written :
                   Recalls(written[i].n, log[n].session) => written[i].n \notin m + 1 .. n - 1
      BY <2>2, <2>4 DEF AnchorHolds, AnchoredAt
    <3>2. ASSUME NEW i \in DOMAIN written, Recalls(written[i].n, log[n].session), written[i].n < n
          PROVE  written[i].n <= m
      <4>1. written[i].n \in Nat /\ m \in Nat /\ written[i].n \notin m + 1 .. n - 1
        BY <2>1, <3>1, <3>2 DEF WrittenIsTyped
      <4> QED BY <2>1, <3>2, <4>1
    <3> QED BY <2>4, <3>1, <3>2
  <2> QED BY <2>3, <2>4
<1> HIDE DEF Inv
<1> QED BY <1>1, <1>2, <1>3, PTL DEF Spec
=============================================================================
