------------------------ MODULE FlagDerivationProofs ------------------------
(* Theorems about the journal and its offset file, for every number of        *)
(* commands, segments and entries: where no append straddles midnight a       *)
(* stored offset never points past the end of its segment, and with one       *)
(* command at a time a torn write costs the journal nothing but itself.       *)
EXTENDS FlagDerivation, TLAPS

(* What the theorems need to know of the types.                               *)
Typed ==
    /\ clock \in 0 .. MaxClock
    /\ log \in Seq(Entry) /\ Len(log) <= MaxEntries
    /\ written \in Seq([n : Ids, at : 0 .. MaxClock])
    /\ seg \in [Days -> Segment]
    /\ offset \in Offset
    /\ faults \in Nat
    /\ pc \in [Procs -> PCs]
    /\ mine \in [Procs -> Ids \cup {Junk}]
    /\ target \in [Procs -> Days]
    /\ from \in [Procs -> Offset] /\ next \in [Procs -> Offset]
    /\ began \in [Procs -> 0 .. MaxClock]
    /\ left \in [Procs -> SUBSET Days]
    /\ \A p \in Procs : pc[p] \in {"repair", "write"} => mine[p] \in Ids

(* Commands write to the segment of today, and none is of a later day.        *)
WritersAreCurrent ==
    /\ \A p \in Procs : pc[p] = "write" => target[p] = Day(clock)
    /\ \A d \in Days : seg[d].exists => d <= Day(clock)

(* Offset o is within its segment; a segment that is gone is of an earlier    *)
(* day, so that no command can create it again, shorter than it was.          *)
Within(o, segs, today) ==
    o.seg # None =>
        /\ o.seg <= today
        /\ IF segs[o.seg].exists THEN o.line <= Len(segs[o.seg].lines) ELSE o.seg < today

Settled(o) == Within(o, seg, Day(clock))

(* No segment gets shorter, only one of an earlier day goes, and only one of  *)
(* today comes.                                                               *)
Evolves(segs, later, today) ==
    \A d \in Days :
        IF later[d].exists
        THEN IF segs[d].exists THEN Len(segs[d].lines) <= Len(later[d].lines) ELSE d = today
        ELSE segs[d].exists => d < today

OffsetInv ==
    /\ WritersAreCurrent
    /\ Settled(offset)
    /\ \A p \in Procs : Settled(from[p]) /\ Settled(next[p])

(* An entry that is neither readable nor paid for by a fault is in flight,    *)
(* and what it is written behind ends in a newline.                           *)
InFlight == IF \E p \in Procs : pc[p] \in {"repair", "write"} THEN 1 ELSE 0

LossInv ==
    /\ Len(log) <= Len(written) + faults + InFlight
    /\ \A p \in Procs : pc[p] = "write" => seg[target[p]].tail = None
-----------------------------------------------------------------------------
(* Days *)

LEMMA DayMonotone ==
  ASSUME NEW s \in Nat, NEW t \in Nat, s <= t
  PROVE  Day(s) \in Nat /\ Day(t) \in Nat /\ Day(s) <= Day(t)
<1>1. DayLength \in Nat /\ DayLength > 0
  BY FlagDerivationAssumption
<1>2. s \div DayLength \in Int /\ t \div DayLength \in Int
  BY <1>1
<1>3. /\ DayLength * (s \div DayLength) <= s
      /\ s < DayLength * (s \div DayLength) + DayLength
      /\ DayLength * (t \div DayLength) <= t
      /\ t < DayLength * (t \div DayLength) + DayLength
  BY <1>1
<1>4. ASSUME NEW a \in Int, NEW b \in Int, NEW l \in Nat, l > 0, l * a < l * b + l
      PROVE  a <= b
  <2>1. SUFFICES ASSUME b + 1 <= a PROVE FALSE
    BY <1>4
  <2>2. a - (b + 1) \in Nat
    BY <2>1, <1>4
  <2>3. l * (a - (b + 1)) >= 0
    BY <2>2, <1>4
  <2>4. l * (a - (b + 1)) = l * a - (l * b + l)
    BY <1>4
  <2> QED BY <2>3, <2>4, <1>4
<1>5. DayLength * (s \div DayLength) < DayLength * (t \div DayLength) + DayLength
  BY <1>1, <1>2, <1>3
<1>6. s \div DayLength <= t \div DayLength
  BY <1>1, <1>2, <1>4, <1>5
<1>7. 0 <= s \div DayLength
  <2>1. DayLength * 0 < DayLength * (s \div DayLength) + DayLength
    BY <1>1, <1>2, <1>3
  <2> QED BY <2>1, <1>1, <1>2, <1>4
<1> QED BY <1>2, <1>6, <1>7 DEF Day

(* A time of the clock belongs to one of the days.                            *)
LEMMA DayInRange ==
  ASSUME NEW t \in 0 .. MaxClock
  PROVE  Day(t) \in Days
<1>1. MaxClock \in Nat
  BY FlagDerivationAssumption
<1> QED BY <1>1, DayMonotone DEF Days
-----------------------------------------------------------------------------
(* Types *)

(* What the actions do to pc and to the offsets of a pass.                    *)
LEMMA GotoTyped ==
  ASSUME pc \in [Procs -> PCs], NEW p \in Procs, NEW l \in PCs, Goto(p, l)
  PROVE  pc' \in [Procs -> PCs] /\ \A q \in Procs : pc'[q] = (IF q = p THEN l ELSE pc[q])
BY DEF Goto

LEMMA StartIsOffset == Start \in Offset
BY DEF Start, Offset

(* A pass that ends leaves the offsets of the others as they are.             *)
LEMMA ForgetTyped ==
  ASSUME Typed, NEW p \in Procs, Forget(p)
  PROVE  /\ from' \in [Procs -> Offset] /\ next' \in [Procs -> Offset]
         /\ left' \in [Procs -> SUBSET Days] /\ began' \in [Procs -> 0 .. MaxClock]
         /\ \A q \in Procs : from'[q] \in {from[q], Start} /\ next'[q] \in {next[q], Start}
<1>1. 0 \in 0 .. MaxClock
  BY FlagDerivationAssumption
<1> QED BY <1>1, StartIsOffset DEF Typed, Forget

LEMMA ReadableTyped ==
  ASSUME clock \in 0 .. MaxClock, NEW line \in Ids \cup {Junk}
  PROVE  /\ Readable(line) \in Seq([n : Ids, at : 0 .. MaxClock])
         /\ Len(Readable(line)) = (IF line = Junk THEN 0 ELSE 1)
<1>1. CASE line = Junk
  BY <1>1 DEF Readable
<1>2. CASE line # Junk
  <2> DEFINE e == [n |-> line, at |-> clock]
  <2>1. e \in [n : Ids, at : 0 .. MaxClock]
    BY <1>2
  <2>2. Readable(line) = <<e>>
    BY <1>2 DEF Readable
  <2> HIDE DEF e
  <2> QED BY <1>2, <2>1, <2>2
<1> QED BY <1>1, <1>2

LEMMA InitTyped == Init => Typed
<1> SUFFICES ASSUME Init PROVE Typed
  OBVIOUS
<1>1. MaxClock \in Nat /\ MaxEntries \in Nat
  BY FlagDerivationAssumption
<1>2. 0 \in Days /\ Day(0) \in Days
  <2>1. Day(0) \in Days /\ Day(MaxClock) \in Nat
    BY <1>1, DayInRange, DayMonotone
  <2> QED BY <2>1 DEF Days
<1>3. NoSegment \in Segment
  BY DEF NoSegment, Segment
<1>4. seg \in [Days -> Segment]
  BY <1>3 DEF Init
<1>5. from \in [Procs -> Offset] /\ next \in [Procs -> Offset] /\ offset \in Offset
  BY StartIsOffset DEF Init
<1>6. pc \in [Procs -> PCs] /\ \A p \in Procs : pc[p] = "idle"
  BY DEF Init, PCs
<1> QED BY <1>1, <1>2, <1>4, <1>5, <1>6 DEF Init, Typed

LEMMA NextTyped == Typed /\ [Next]_vars => Typed'
<1> SUFFICES ASSUME Typed, [Next]_vars PROVE Typed'
  OBVIOUS
<1> USE DEF Typed
<1>0. MaxClock \in Nat /\ MaxEntries \in Nat /\ Window \in Nat
  BY FlagDerivationAssumption
<1>t. Day(clock) \in Days
  BY DayInRange
<1>1. CASE Tick
  BY <1>1, <1>0 DEF Tick, journal, pass
<1>2. ASSUME NEW p \in Procs, NEW k \in Kinds, NEW s \in Sessions,
             NEW f \in Families \cup {None}, Begin(p, k, s, f)
      PROVE  Typed'
  <2>1. log' \in Seq(Entry) /\ Len(log') = Len(log) + 1 /\ Len(log') \in Ids
    BY <1>2, <1>0 DEF Begin, Entry, Ids
  <2>2. pc' \in [Procs -> PCs] /\ mine' \in [Procs -> Ids \cup {Junk}]
    BY <1>2, <2>1 DEF Begin, Goto, PCs
  <2>3. \A q \in Procs : pc'[q] \in {"repair", "write"} => mine'[q] \in Ids
    BY <1>2, <2>1 DEF Begin, Goto
  <2> QED BY <1>2, <2>1, <2>2, <2>3 DEF Begin, pass, Ids
<1>3. ASSUME NEW p \in Procs, Pass(p) PROVE Typed'
  BY <1>3 DEF Pass, Goto, PCs, journal, pass
<1>4. ASSUME NEW p \in Procs, Repair(p) PROVE Typed'
  <2>1. pc' \in [Procs -> PCs] /\ target' \in [Procs -> Days]
    BY <1>4, <1>t DEF Repair, Goto, PCs
  <2>2. \A q \in Procs : pc'[q] \in {"repair", "write"} => mine'[q] \in Ids
    BY <1>4 DEF Repair, Goto, PCs
  <2>3. seg' \in [Days -> Segment] /\ written' \in Seq([n : Ids, at : 0 .. MaxClock])
    <3> DEFINE d == Day(clock)
    <3>1. CASE seg[d].tail = None
      BY <3>1, <1>4 DEF Repair
    <3>2. CASE seg[d].tail # None
      <4>1. seg[d] \in Segment /\ seg[d].tail \in Ids \cup {Junk}
        BY <3>2, <1>t DEF Segment
      <4>2. seg' = [seg EXCEPT ![d].lines = Append(@, seg[d].tail), ![d].tail = None]
        BY <3>2, <1>4 DEF Repair
      <4>3. written' = written \o Readable(seg[d].tail)
        BY <3>2, <1>4 DEF Repair
      <4>4. Append(seg[d].lines, seg[d].tail) \in Seq(Ids \cup {Junk})
        BY <4>1 DEF Segment
      <4>5. [seg[d] EXCEPT !.lines = Append(seg[d].lines, seg[d].tail), !.tail = None] \in Segment
        BY <4>1, <4>4 DEF Segment
      <4>6. seg' \in [Days -> Segment]
        <5>1. seg'[d] = [seg[d] EXCEPT !.lines = Append(seg[d].lines, seg[d].tail), !.tail = None]
          BY <4>1, <4>2, <1>t DEF Segment
        <5>2. seg' = [q \in Days |-> seg'[q]] /\ \A q \in Days : q # d => seg'[q] = seg[q]
          BY <4>2
        <5> QED BY <4>5, <5>1, <5>2
      <4>7. Readable(seg[d].tail) \in Seq([n : Ids, at : 0 .. MaxClock])
        BY <4>1, ReadableTyped
      <4>8. written' \in Seq([n : Ids, at : 0 .. MaxClock])
        BY <4>3, <4>7
      <4> QED BY <4>6, <4>8
    <3> QED BY <3>1, <3>2
  <2> QED BY <1>4, <2>1, <2>2, <2>3 DEF Repair, pass
<1>5. ASSUME NEW p \in Procs, Write(p) PROVE Typed'
  <2> DEFINE d == target[p]
             line == IF seg[d].tail = None THEN mine[p] ELSE Junk
  <2>1. line \in Ids \cup {Junk} /\ d \in Days
    OBVIOUS
  <2>2. pc' \in [Procs -> PCs]
        /\ \A q \in Procs : pc'[q] \in {"repair", "write"} => pc[q] \in {"repair", "write"}
    BY <1>5 DEF Write, Goto, PCs
  <2>3. [exists |-> TRUE, lines |-> Append(seg[d].lines, line), tail |-> None] \in Segment
    BY <2>1 DEF Segment
  <2>4. seg' \in [Days -> Segment]
    BY <1>5, <2>1, <2>3 DEF Write
  <2>5. written' \in Seq([n : Ids, at : 0 .. MaxClock])
    <3> HIDE DEF line
    <3>1. written' = written \o Readable(line)
      BY <1>5 DEF Write, line
    <3>2. Readable(line) \in Seq([n : Ids, at : 0 .. MaxClock])
      BY <2>1, ReadableTyped
    <3> QED BY <3>1, <3>2
  <2> QED BY <1>5, <2>2, <2>4, <2>5 DEF Write, pass
<1>6. ASSUME NEW p \in Procs, TornWrite(p) PROVE Typed'
  <2> DEFINE d == target[p]
  <2>1. PICK rest \in {mine[p], Junk} :
           seg' = [seg EXCEPT ![d].exists = TRUE, ![d].tail = IF @ = None THEN rest ELSE Junk]
    BY <1>6 DEF TornWrite
  <2>2. [seg[d] EXCEPT !.exists = TRUE, !.tail = IF @ = None THEN rest ELSE Junk] \in Segment
    <3>1. seg[d] \in Segment /\ rest \in Ids \cup {Junk}
      OBVIOUS
    <3> QED BY <3>1 DEF Segment
  <2>3. seg' \in [Days -> Segment]
    BY <2>1, <2>2
  <2>4. pc' \in [Procs -> PCs]
        /\ \A q \in Procs : pc'[q] \in {"repair", "write"} => pc[q] \in {"repair", "write"}
    BY <1>6 DEF TornWrite, AfterAppend, Goto, PCs
  <2>5. faults' \in Nat
    BY <1>6 DEF TornWrite
  <2> QED BY <1>6, <2>3, <2>4, <2>5 DEF TornWrite, pass
<1>7. ASSUME NEW p \in Procs, Cleanup(p) PROVE Typed'
  <2>1. NoSegment \in Segment
    BY DEF NoSegment, Segment
  <2>2. seg' \in [Days -> Segment]
    BY <1>7, <2>1 DEF Cleanup
  <2>3. pc' \in [Procs -> PCs]
        /\ \A q \in Procs : pc'[q] \in {"repair", "write"} => pc[q] \in {"repair", "write"}
    BY <1>7 DEF Cleanup, AfterAppend, Goto, PCs
  <2> QED BY <1>7, <2>2, <2>3 DEF Cleanup, pass
<1>8. ASSUME NEW p \in Procs, Load(p) PROVE Typed'
  BY <1>8 DEF Load, Goto, PCs, journal
<1>9. ASSUME NEW p \in Procs, List(p) PROVE Typed'
  BY <1>9 DEF List, Existing, Goto, PCs, journal
<1>10. ASSUME NEW p \in Procs, Read(p) PROVE Typed'
  <2>1. PICK d \in left[p] :
           /\ left' = [left EXCEPT ![p] = @ \ {d}]
           /\ next' = next \/ next' = [next EXCEPT ![p] = [seg |-> d, line |-> Len(seg[d].lines)]]
    BY <1>10 DEF Read
  <2>2. [seg |-> d, line |-> Len(seg[d].lines)] \in Offset
    BY DEF Offset, Segment
  <2>3. left' \in [Procs -> SUBSET Days] /\ next' \in [Procs -> Offset]
    BY <2>1, <2>2
  <2>4. UNCHANGED <<clock, log, written, seg, offset, faults, pc, mine, target, from, began>>
    BY <1>10 DEF Read, journal
  <2> QED BY <2>3, <2>4
<1>11. ASSUME NEW p \in Procs, ReadDone(p) PROVE Typed'
  <2>1. /\ from' \in [Procs -> Offset] /\ next' \in [Procs -> Offset]
        /\ left' \in [Procs -> SUBSET Days] /\ began' \in [Procs -> 0 .. MaxClock]
    BY <1>11, ForgetTyped DEF ReadDone, pass
  <2> QED BY <1>11, <2>1 DEF ReadDone, Goto, PCs, journal
<1>12. ASSUME NEW p \in Procs, Decide(p) PROVE Typed'
  <2>1. /\ from' \in [Procs -> Offset] /\ next' \in [Procs -> Offset]
        /\ left' \in [Procs -> SUBSET Days] /\ began' \in [Procs -> 0 .. MaxClock]
    BY <1>12, ForgetTyped DEF Decide
  <2>2. \E l \in {"idle", "store", "derive"} : Goto(p, l)
    BY <1>12 DEF Decide
  <2> QED BY <1>12, <2>1, <2>2 DEF Decide, Goto, PCs, journal
<1>13. ASSUME NEW p \in Procs, Derive(p) PROVE Typed'
  <2>1. \E l \in {"store", "derive"} : Goto(p, l)
    BY <1>13 DEF Derive
  <2> QED BY <1>13, <2>1 DEF Derive, Goto, PCs
<1>14. ASSUME NEW p \in Procs, Store(p) PROVE Typed'
  BY <1>14, ForgetTyped DEF Store, Goto, PCs
<1>15. ASSUME NEW p \in Procs, Fail(p) PROVE Typed'
  BY <1>15, ForgetTyped DEF Fail, Goto, PCs, journal
<1>16. CASE UNCHANGED vars
  BY <1>16 DEF vars, journal, pass
<1> QED
  BY <1>1, <1>2, <1>3, <1>4, <1>5, <1>6, <1>7, <1>8, <1>9, <1>10, <1>11, <1>12, <1>13,
     <1>14, <1>15, <1>16 DEF Next, Step
-----------------------------------------------------------------------------
(* The offset *)

LEMMA WithinKept ==
  ASSUME NEW segs \in [Days -> Segment], NEW later \in [Days -> Segment],
         NEW today \in Nat, NEW o \in Offset,
         Within(o, segs, today), Evolves(segs, later, today)
  PROVE  Within(o, later, today)
<1>1. SUFFICES ASSUME o.seg # None PROVE Within(o, later, today)
  BY DEF Within
<1>2. o.seg \in Days /\ o.line \in Nat /\ Days \subseteq Int
  BY <1>1 DEF Offset, Days
<1>3. segs[o.seg] \in Segment /\ later[o.seg] \in Segment
  BY <1>2
<1>4. Len(segs[o.seg].lines) \in Nat /\ Len(later[o.seg].lines) \in Nat
  BY <1>3 DEF Segment
<1>5. /\ o.seg <= today
      /\ IF segs[o.seg].exists THEN o.line <= Len(segs[o.seg].lines) ELSE o.seg < today
  BY <1>1 DEF Within
<1>6. IF later[o.seg].exists
      THEN IF segs[o.seg].exists
           THEN Len(segs[o.seg].lines) <= Len(later[o.seg].lines)
           ELSE o.seg = today
      ELSE segs[o.seg].exists => o.seg < today
  BY <1>2 DEF Evolves
<1>7. o.seg <= today /\ IF later[o.seg].exists
                        THEN o.line <= Len(later[o.seg].lines)
                        ELSE o.seg < today
  BY <1>2, <1>4, <1>5, <1>6
<1> QED BY <1>7 DEF Within

LEMMA NothingEvolves == ASSUME Typed PROVE Evolves(seg, seg, Day(clock))
<1>1. \A d \in Days : Len(seg[d].lines) \in Nat
  BY DEF Typed, Segment
<1> QED BY <1>1 DEF Evolves

LEMMA StartIsWithin == \A segs, today : Within(Start, segs, today)
BY DEF Start, Within

(* The day ends only while nobody appends.                                    *)
LEMMA TickKeepsOffset ==
  ASSUME Midnight = FALSE, Typed, OffsetInv, Tick
  PROVE  OffsetInv'
<1>1. Day(clock) \in Nat /\ Day(clock') \in Nat /\ Day(clock) <= Day(clock')
  <2>1. clock \in Nat /\ clock' \in Nat /\ clock <= clock'
    BY DEF Typed, Tick
  <2> QED BY <2>1, DayMonotone
<1>2. UNCHANGED <<seg, pc, target, offset, from, next>>
  BY DEF Tick, journal, pass
<1>3. \A p \in Procs : pc[p] = "write" => target[p] = Day(clock')
  <2>1. ASSUME NEW p \in Procs, pc[p] = "write" PROVE Day(clock') = Day(clock)
    BY <2>1 DEF Tick
  <2> QED BY <2>1 DEF OffsetInv, WritersAreCurrent
<1>4. ASSUME NEW o \in Offset, Within(o, seg, Day(clock))
      PROVE  Within(o, seg, Day(clock'))
  BY <1>1, <1>4 DEF Within, Offset, Days
<1>5. WritersAreCurrent'
  <2>1. \A d \in Days : seg[d].exists => d <= Day(clock')
    BY <1>1 DEF OffsetInv, WritersAreCurrent, Days
  <2> QED BY <1>2, <1>3, <2>1 DEF WritersAreCurrent, Days, Day
<1>6. Within(offset, seg, Day(clock'))
      /\ \A p \in Procs : Within(from[p], seg, Day(clock')) /\ Within(next[p], seg, Day(clock'))
  BY <1>4 DEF OffsetInv, Settled, Typed
<1> QED BY <1>2, <1>5, <1>6 DEF OffsetInv, Settled, Day

(* What a command does to the segments.                                       *)
LEMMA SegmentsEvolve ==
  ASSUME Typed, WritersAreCurrent, NEW p \in Procs,
         \/ \E k \in Kinds, s \in Sessions, f \in Families \cup {None} : Begin(p, k, s, f)
         \/ Pass(p) \/ Step(p) \/ TornWrite(p) \/ Fail(p)
  PROVE  /\ clock' = clock
         /\ Evolves(seg, seg', Day(clock))
         /\ WritersAreCurrent'
<1> DEFINE today == Day(clock)
<1>1. today \in Days /\ today \in Nat /\ Days \subseteq Nat
  <2>1. today \in Days
    BY DayInRange DEF Typed
  <2> QED BY <2>1 DEF Days
<1>2. \A d \in Days : seg[d] \in Segment /\ Len(seg[d].lines) \in Nat
  BY DEF Typed, Segment
<1>3. pc \in [Procs -> PCs] /\ target \in [Procs -> Days] /\ seg \in [Days -> Segment]
  BY DEF Typed
(* A step that leaves the files alone and writes nothing.                     *)
<1>4. ASSUME clock' = clock, seg' = seg, target' = target,
             \A q \in Procs : pc'[q] = "write" => pc[q] = "write"
      PROVE  clock' = clock /\ Evolves(seg, seg', today) /\ WritersAreCurrent'
  BY <1>4, NothingEvolves DEF WritersAreCurrent, Day, Days
<1>5. CASE \E k \in Kinds, s \in Sessions, f \in Families \cup {None} : Begin(p, k, s, f)
  BY <1>3, <1>4, <1>5 DEF Begin, Goto
<1>6. CASE Pass(p) \/ Load(p) \/ List(p) \/ Read(p) \/ ReadDone(p)
  BY <1>3, <1>4, <1>6 DEF Pass, Load, List, Read, ReadDone, Goto, journal
<1>7. CASE Decide(p) \/ Derive(p) \/ Store(p) \/ Fail(p)
  BY <1>3, <1>4, <1>7 DEF Decide, Derive, Store, Fail, Goto, journal
<1>8. CASE Repair(p)
  <2>1. clock' = clock /\ target' = [target EXCEPT ![p] = today] /\ pc' = [pc EXCEPT ![p] = "write"]
    BY <1>8 DEF Repair, Goto
  <2>2. \A d \in Days : seg'[d].exists = seg[d].exists /\ Len(seg[d].lines) <= Len(seg'[d].lines)
    <3>1. CASE seg[today].tail = None
      BY <3>1, <1>2, <1>8 DEF Repair
    <3>2. CASE seg[today].tail # None
      <4>1. seg' = [seg EXCEPT ![today].lines = Append(@, seg[today].tail), ![today].tail = None]
        BY <3>2, <1>8 DEF Repair
      <4>2. seg[today].tail \in Ids \cup {Junk} /\ seg[today].lines \in Seq(Ids \cup {Junk})
        BY <3>2, <1>1, <1>2 DEF Segment
      <4>3. Len(Append(seg[today].lines, seg[today].tail)) = Len(seg[today].lines) + 1
        BY <4>2
      <4>4. /\ seg'[today].exists = seg[today].exists
            /\ seg'[today].lines = Append(seg[today].lines, seg[today].tail)
            /\ \A d \in Days : d # today => seg'[d] = seg[d]
        BY <1>1, <1>2, <1>3, <4>1 DEF Segment
      <4> QED BY <1>2, <4>3, <4>4
    <3> QED BY <3>1, <3>2
  <2>3. Evolves(seg, seg', today)
    BY <2>2 DEF Evolves
  <2>4. WritersAreCurrent'
    BY <1>3, <2>1, <2>2 DEF WritersAreCurrent, Day, Days
  <2> QED BY <2>1, <2>3, <2>4
<1>9. CASE Write(p) \/ TornWrite(p)
  <2>1. clock' = clock /\ target' = target /\ target[p] = today
    BY <1>9 DEF Write, TornWrite, WritersAreCurrent
  <2>2. \A q \in Procs : pc'[q] = "write" => pc[q] = "write"
    <3>1. CASE Write(p)
      BY <3>1, <1>3 DEF Write, Goto
    <3>2. CASE TornWrite(p)
      BY <3>2, <1>3 DEF TornWrite, AfterAppend, Goto
    <3> QED BY <1>9, <3>1, <3>2
  <2>3. /\ seg'[today].exists /\ Len(seg[today].lines) <= Len(seg'[today].lines)
        /\ \A d \in Days : d # today => seg'[d] = seg[d]
    <3>1. CASE Write(p)
      <4> DEFINE line == IF seg[today].tail = None THEN mine[p] ELSE Junk
      <4>1. seg' = [seg EXCEPT ![today] = [exists |-> TRUE, lines |-> Append(seg[today].lines, line), tail |-> None]]
        BY <3>1, <2>1 DEF Write
      <4>2. line \in Ids \cup {Junk} /\ seg[today].lines \in Seq(Ids \cup {Junk})
        BY <1>1, <1>2 DEF Typed, Segment
      <4> HIDE DEF line
      <4>3. Len(Append(seg[today].lines, line)) = Len(seg[today].lines) + 1
        BY <4>2
      <4> QED BY <4>1, <4>3, <1>1, <1>2, <1>3
    <3>2. CASE TornWrite(p)
      <4>1. PICK rest \in {mine[p], Junk} :
               seg' = [seg EXCEPT ![today].exists = TRUE,
                                  ![today].tail = IF @ = None THEN rest ELSE Junk]
        BY <3>2, <2>1 DEF TornWrite
      <4>2. seg'[today].exists /\ seg'[today].lines = seg[today].lines
        BY <4>1, <1>1, <1>2, <1>3 DEF Segment
      <4>3. \A d \in Days : d # today => seg'[d] = seg[d]
        BY <4>1, <1>3
      <4> QED BY <4>2, <4>3, <1>1, <1>2
    <3> QED BY <1>9, <3>1, <3>2
  <2>4. Evolves(seg, seg', today)
    BY <1>1, <1>2, <2>3 DEF Evolves
  <2>5. WritersAreCurrent'
    BY <1>1, <2>1, <2>2, <2>3 DEF WritersAreCurrent, Day, Days
  <2> QED BY <2>1, <2>4, <2>5
<1>10. CASE Cleanup(p)
  <2>1. clock' = clock /\ target' = target
    BY <1>10 DEF Cleanup
  <2>2. \A q \in Procs : pc'[q] = "write" => pc[q] = "write"
    BY <1>10, <1>3 DEF Cleanup, AfterAppend, Goto
  <2>3. \A d \in Days : seg'[d] = seg[d] \/ (seg'[d] = NoSegment /\ d \in Doomed)
    BY <1>10 DEF Cleanup
  <2>4. \A d \in Doomed : d < today
    <3>1. ASSUME NEW d \in Doomed PROVE d \in Days /\ ~Newest(d)
      BY <3>1, Zenon DEF Doomed, Existing
    <3>2. ASSUME NEW d \in Doomed PROVE d < today
      <4>1. PICK e \in Existing : ~(e <= d)
        BY <3>1, <3>2 DEF Newest
      <4>2. e \in Days /\ seg[e].exists /\ d \in Days
        BY <3>1, <3>2, <4>1 DEF Existing
      <4>3. e <= today
        BY <4>2 DEF WritersAreCurrent
      <4>4. d \in Nat /\ e \in Nat /\ today \in Nat
        BY <1>1, <4>2
      <4> HIDE DEF today
      <4> QED BY <4>1, <4>3, <4>4
    <3> QED BY <3>2
  <2>5. Evolves(seg, seg', today)
    BY <1>2, <2>3, <2>4 DEF Evolves, NoSegment
  <2>6. WritersAreCurrent'
    BY <2>1, <2>2, <2>3 DEF WritersAreCurrent, NoSegment, Day, Days
  <2> QED BY <2>1, <2>5, <2>6
<1> QED BY <1>5, <1>6, <1>7, <1>8, <1>9, <1>10 DEF Step

(* What a command does to the offsets: each is one there was, or the end of a *)
(* segment that is there.                                                     *)
LEMMA OffsetsWithin ==
  ASSUME Typed, OffsetInv, NEW p \in Procs,
         \/ \E k \in Kinds, s \in Sessions, f \in Families \cup {None} : Begin(p, k, s, f)
         \/ Pass(p) \/ Step(p) \/ TornWrite(p) \/ Fail(p)
  PROVE  /\ Settled(offset) /\ Within(offset', seg, Day(clock))
         /\ \A q \in Procs : /\ Within(from'[q], seg, Day(clock))
                             /\ Within(next'[q], seg, Day(clock))
<1> DEFINE today == Day(clock)
<1>1. /\ Within(offset, seg, today)
      /\ \A q \in Procs : Within(from[q], seg, today) /\ Within(next[q], seg, today)
  BY DEF OffsetInv, Settled
<1>2. from \in [Procs -> Offset] /\ next \in [Procs -> Offset]
  BY DEF Typed
<1>3. ASSUME Forget(p)
      PROVE  \A q \in Procs : Within(from'[q], seg, today) /\ Within(next'[q], seg, today)
  BY <1>1, <1>3, ForgetTyped, StartIsWithin
<1>4. CASE UNCHANGED <<offset, from, next>>
  BY <1>1, <1>4 DEF Settled
<1>5. CASE \/ \E k \in Kinds, s \in Sessions, f \in Families \cup {None} : Begin(p, k, s, f)
           \/ Pass(p) \/ TornWrite(p) \/ Repair(p) \/ Write(p) \/ Cleanup(p)
  BY <1>4, <1>5 DEF Begin, Pass, TornWrite, Repair, Write, Cleanup, journal, pass
<1>6. CASE List(p) \/ Derive(p)
  BY <1>4, <1>6 DEF List, Derive, journal
<1>7. CASE Load(p)
  <2>1. offset' = offset /\ from' = [from EXCEPT ![p] = offset] /\ next' = [next EXCEPT ![p] = offset]
    BY <1>7 DEF Load, journal
  <2> QED BY <1>1, <1>2, <2>1 DEF Settled
<1>8. CASE Read(p)
  <2>1. offset' = offset /\ from' = from
    BY <1>8 DEF Read, journal
  <2>2. PICK d \in left[p] :
           IF seg[d].exists
           THEN next' = [next EXCEPT ![p] = [seg |-> d, line |-> Len(seg[d].lines)]]
           ELSE next' = next
    BY <1>8 DEF Read
  <2>3. CASE seg[d].exists
    <3>1. d \in Days /\ Len(seg[d].lines) \in Nat
      BY DEF Typed, Segment
    <3>2. Within([seg |-> d, line |-> Len(seg[d].lines)], seg, today)
      BY <2>3, <3>1 DEF Within, OffsetInv, WritersAreCurrent
    <3> QED BY <1>1, <1>2, <2>1, <2>2, <2>3, <3>2 DEF Settled
  <2>4. CASE ~seg[d].exists
    BY <1>4, <2>1, <2>2, <2>4
  <2> QED BY <2>3, <2>4
<1>9. CASE ReadDone(p) \/ Decide(p) \/ Fail(p)
  <2>1. offset' = offset /\ (Forget(p) \/ UNCHANGED <<from, next>>)
    BY <1>9 DEF ReadDone, Decide, Fail, journal, pass
  <2> QED BY <1>1, <1>3, <1>4, <2>1 DEF Settled
<1>10. CASE Store(p)
  BY <1>1, <1>3, <1>10 DEF Store, Settled
<1> QED BY <1>5, <1>6, <1>7, <1>8, <1>9, <1>10 DEF Step

LEMMA InitOffset == Init => OffsetInv
<1> SUFFICES ASSUME Init PROVE OffsetInv
  OBVIOUS
<1>1. \A p \in Procs : pc[p] # "write" /\ from[p] = Start /\ next[p] = Start
  BY DEF Init
<1>2. \A d \in Days : ~seg[d].exists
  BY DEF Init, NoSegment
<1> QED BY <1>1, <1>2, StartIsWithin DEF Init, OffsetInv, WritersAreCurrent, Settled

LEMMA NextOffset == Midnight = FALSE /\ Typed /\ OffsetInv /\ [Next]_vars => OffsetInv'
<1> SUFFICES ASSUME Midnight = FALSE, Typed, OffsetInv, [Next]_vars PROVE OffsetInv'
  OBVIOUS
<1>1. CASE Tick
  BY <1>1, TickKeepsOffset
<1>2. ASSUME NEW p \in Procs,
             \/ \E k \in Kinds, s \in Sessions, f \in Families \cup {None} : Begin(p, k, s, f)
             \/ Pass(p) \/ Step(p) \/ TornWrite(p) \/ Fail(p)
      PROVE  OffsetInv'
  <2>1. clock' = clock /\ Evolves(seg, seg', Day(clock)) /\ WritersAreCurrent'
    BY <1>2, SegmentsEvolve DEF OffsetInv
  <2>2. /\ Within(offset', seg, Day(clock))
        /\ \A q \in Procs : Within(from'[q], seg, Day(clock)) /\ Within(next'[q], seg, Day(clock))
    BY <1>2, OffsetsWithin
  <2>3. Typed'
    BY NextTyped
  <2>4. Day(clock) \in Nat
    BY DayMonotone DEF Typed
  <2>5. /\ seg \in [Days -> Segment] /\ seg' \in [Days -> Segment] /\ offset' \in Offset
        /\ \A q \in Procs : from'[q] \in Offset /\ next'[q] \in Offset
    BY <2>3 DEF Typed
  <2>6. \A o \in Offset : Within(o, seg, Day(clock)) => Within(o, seg', Day(clock))
    BY <2>1, <2>4, <2>5, WithinKept
  <2>7. /\ Within(offset', seg', Day(clock'))
        /\ \A q \in Procs : Within(from'[q], seg', Day(clock')) /\ Within(next'[q], seg', Day(clock'))
    BY <2>1, <2>2, <2>5, <2>6
  <2> QED BY <2>1, <2>7 DEF OffsetInv, Settled, Day
<1>3. CASE UNCHANGED vars
  BY <1>3 DEF vars, journal, pass, OffsetInv, WritersAreCurrent, Settled, Within, Days, Day
<1> QED BY <1>1, <1>2, <1>3 DEF Next

(* Where no append runs over midnight, the stored offset is always inside     *)
(* its segment, or the segment is gone for good: StoreJournalOffset never     *)
(* writes a position that a later, shorter segment of that name could fail.   *)
THEOREM OffsetsStayInside ==
  ASSUME Midnight = FALSE
  PROVE  Spec => []OffsetWithinSegment
<1>1. OffsetInv => OffsetWithinSegment
  BY DEF OffsetInv, Settled, Within, OffsetWithinSegment
<1> QED BY InitTyped, NextTyped, InitOffset, NextOffset, <1>1, PTL DEF Spec
-----------------------------------------------------------------------------
(* The torn line *)

(* A command that is not appending, and goes on not to, changes nothing that  *)
(* counts.                                                                    *)
LEMMA QuietStep ==
  ASSUME LossInv, UNCHANGED <<log, written, seg, target>>,
         faults' = faults, \A q \in Procs : pc'[q] \notin {"repair", "write"},
         \A q \in Procs : pc[q] \notin {"repair", "write"}
  PROVE  LossInv'
<1>1. InFlight = 0 /\ InFlight' = 0
  BY DEF InFlight
<1> QED BY <1>1 DEF LossInv

(* An append accounts for its entry: it is readable, or a fault paid for it.  *)
LEMMA AppendStep ==
  ASSUME NEW only, Procs = {only}, Typed, LossInv,
         Repair(only) \/ Write(only) \/ TornWrite(only)
  PROVE  LossInv'
<1>1. only \in Procs /\ Len(log) \in Nat /\ Len(written) \in Nat /\ faults \in Nat
  BY DEF Typed
<1>2. pc[only] \in {"repair", "write"} /\ InFlight = 1
  BY DEF Repair, Write, TornWrite, InFlight
<1>3. Len(log) <= Len(written) + faults + 1
  BY <1>2 DEF LossInv
<1>4. target[only] \in Days /\ Day(clock) \in Days /\ \A d \in Days : seg[d] \in Segment
  BY <1>1, DayInRange DEF Typed
<1>5. CASE Repair(only)
  <2> DEFINE d == Day(clock)
  <2>1. target' = [target EXCEPT ![only] = d] /\ log' = log /\ faults' = faults
        /\ pc' = [pc EXCEPT ![only] = "write"]
    BY <1>5 DEF Repair, Goto
  <2>2. InFlight' = 1
    BY <1>1, <2>1 DEF InFlight, Typed
  <2>3. Len(written') >= Len(written) /\ seg'[d].tail = None
    <3>1. CASE seg[d].tail = None
      BY <3>1, <1>1, <1>5 DEF Repair
    <3>2. CASE seg[d].tail # None
      <4>1. seg' = [seg EXCEPT ![d].lines = Append(@, seg[d].tail), ![d].tail = None]
            /\ written' = written \o Readable(seg[d].tail)
        BY <3>2, <1>5 DEF Repair
      <4>2. seg[d].tail \in Ids \cup {Junk}
        BY <3>2, <1>4 DEF Segment
      <4>3. Readable(seg[d].tail) \in Seq([n : Ids, at : 0 .. MaxClock])
        BY <4>2, ReadableTyped DEF Typed
      <4>4. Len(written') >= Len(written)
        BY <4>1, <4>3 DEF Typed
      <4>5. seg'[d].tail = None
        BY <4>1, <1>4 DEF Typed, Segment
      <4> QED BY <4>4, <4>5
    <3> QED BY <3>1, <3>2
  <2>4. target'[only] = d
    BY <1>1, <2>1 DEF Typed
  <2>5. written' \in Seq([n : Ids, at : 0 .. MaxClock])
    BY <1>5, NextTyped DEF Next, Step, Typed
  <2>6. Len(log') <= Len(written') + faults' + InFlight'
    BY <1>1, <1>3, <2>1, <2>2, <2>3, <2>5
  <2> QED BY <2>3, <2>4, <2>6 DEF LossInv
<1>6. CASE Write(only)
  <2>1. pc' = [pc EXCEPT ![only] = "cleanup"] /\ log' = log /\ faults' = faults
    BY <1>6 DEF Write, Goto
  <2>2. InFlight' = 0 /\ pc'[only] # "write"
    BY <1>1, <2>1 DEF InFlight, Typed
  <2>3. seg[target[only]].tail = None
    BY <1>1, <1>6 DEF Write, LossInv
  <2>4. mine[only] \in Ids /\ mine[only] # Junk
    BY <1>1, <1>2, FlagDerivationAssumption DEF Typed, Ids, Junk
  <2>5. written' = written \o Readable(mine[only])
    BY <1>6, <2>3 DEF Write
  <2>6. /\ Readable(mine[only]) \in Seq([n : Ids, at : 0 .. MaxClock])
        /\ Len(Readable(mine[only])) = 1
    BY <2>4, ReadableTyped DEF Typed
  <2>7. Len(written') = Len(written) + 1
    <3>1. written \in Seq([n : Ids, at : 0 .. MaxClock])
      BY DEF Typed
    <3>2. ASSUME NEW S, NEW r \in Seq(S), NEW w \in Seq(S) PROVE Len(w \o r) = Len(w) + Len(r)
      OBVIOUS
    <3>3. Len(written \o Readable(mine[only])) = Len(written) + Len(Readable(mine[only]))
      BY <2>6, <3>1, <3>2
    <3> QED BY <2>5, <2>6, <3>3
  <2> QED BY <1>1, <1>3, <2>1, <2>2, <2>7 DEF LossInv
<1>7. CASE TornWrite(only)
  <2>1. log' = log /\ written' = written /\ faults' = faults + 1
    BY <1>7 DEF TornWrite
  <2>2. InFlight' = 0 /\ pc'[only] # "write"
    BY <1>1, <1>7 DEF InFlight, TornWrite, AfterAppend, Goto, Typed
  <2> QED BY <1>1, <1>3, <2>1, <2>2 DEF LossInv
<1> QED BY <1>5, <1>6, <1>7

LEMMA InitLoss == Init => LossInv
BY DEF Init, LossInv, InFlight

LEMMA NextLoss ==
  ASSUME NEW only, Procs = {only}
  PROVE  Typed /\ LossInv /\ [Next]_vars => LossInv'
<1> SUFFICES ASSUME Typed, LossInv, [Next]_vars PROVE LossInv'
  OBVIOUS
<1>1. only \in Procs /\ Len(log) \in Nat /\ Len(written) \in Nat /\ faults \in Nat
      /\ pc \in [Procs -> PCs]
  BY DEF Typed
<1>2. CASE Tick \/ UNCHANGED vars
  <2>1. UNCHANGED <<log, written, seg, target, faults, pc>>
    BY <1>2 DEF Tick, vars, journal, pass
  <2> QED BY <2>1 DEF LossInv, InFlight
<1>3. ASSUME NEW k \in Kinds, NEW s \in Sessions, NEW f \in Families \cup {None},
             Begin(only, k, s, f)
      PROVE  LossInv'
  <2>1. pc[only] = "idle" /\ pc'[only] = "repair"
    BY <1>1, <1>3 DEF Begin, Goto
  <2>2. InFlight = 0 /\ InFlight' = 1
    BY <2>1 DEF InFlight
  <2>3. Len(log') = Len(log) + 1 /\ written' = written /\ faults' = faults
    <3>1. log \in Seq(Entry)
      BY DEF Typed
    <3> QED BY <3>1, <1>3 DEF Begin
  <2> QED BY <1>1, <2>1, <2>2, <2>3 DEF LossInv
<1>4. CASE Repair(only) \/ Write(only) \/ TornWrite(only)
  BY <1>4, AppendStep
<1>5. CASE Fail(only)
  <2>1. pc'[only] = "idle" /\ faults' = faults + 1 /\ UNCHANGED <<log, written, seg, target>>
    BY <1>1, <1>5 DEF Fail, Goto, journal
  <2>2. InFlight' = 0 /\ InFlight \in {0, 1}
    BY <2>1 DEF InFlight
  <2> QED BY <1>1, <2>1, <2>2 DEF LossInv
<1>6. CASE Cleanup(only)
  <2>1. pc[only] = "cleanup" /\ pc'[only] \in {"idle", "load"}
    BY <1>1, <1>6 DEF Cleanup, AfterAppend, Goto
  <2>2. InFlight = 0 /\ InFlight' = 0
    BY <2>1 DEF InFlight
  <2>3. UNCHANGED <<log, written, faults>>
    BY <1>6 DEF Cleanup
  <2> QED BY <2>1, <2>2, <2>3 DEF LossInv
<1>7. CASE \/ Pass(only) \/ Load(only) \/ List(only) \/ Read(only) \/ ReadDone(only)
           \/ Decide(only) \/ Derive(only) \/ Store(only)
  <2>1. UNCHANGED <<log, written, seg, target, faults>>
    BY <1>7 DEF Pass, Load, List, Read, ReadDone, Decide, Derive, Store, journal
  <2>2. pc[only] \notin {"repair", "write"} /\ pc'[only] \notin {"repair", "write"}
    BY <1>1, <1>7 DEF Pass, Load, List, Read, ReadDone, Decide, Derive, Store, Goto
  <2> QED BY <2>1, <2>2, QuietStep
<1> QED BY <1>2, <1>3, <1>4, <1>5, <1>6, <1>7 DEF Next, Step

(* With one command at a time a torn write costs the journal its own entry:   *)
(* repairJournalSegmentTail has terminated what an earlier one left before    *)
(* AppendJournalEntry writes, so that no two entries share a line.            *)
THEOREM TornLosesOneEntry ==
  ASSUME NEW only, Procs = {only}
  PROVE  Spec => []LosesOnlyTheTorn
<1>1. Typed /\ LossInv => LosesOnlyTheTorn
  <2> SUFFICES ASSUME Typed, LossInv, \A p \in Procs : pc[p] \notin {"repair", "write"}
               PROVE  Len(log) <= Len(written) + faults
    BY DEF LosesOnlyTheTorn
  <2>1. InFlight = 0
    BY DEF InFlight
  <2> QED BY <2>1 DEF LossInv, Typed
<1> QED BY InitTyped, NextTyped, InitLoss, NextLoss, <1>1, PTL DEF Spec
=============================================================================
