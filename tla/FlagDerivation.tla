--------------------------- MODULE FlagDerivation ---------------------------
(* The invocation journal and the flag-correction pass that every command     *)
(* runs over it: append one entry to the segment of the day, enforce the      *)
(* retention caps, read the tail from the persisted offset, pair failed flags *)
(* with their corrections, count each pair in the candidate table and store   *)
(* the offset.  Nothing locks the journal or the offset: any two commands may *)
(* interleave, and any of them may be killed.                                 *)
EXTENDS Integers, Sequences, SequencesExt

CONSTANTS
    Procs,       \* concurrently running CLI processes
    Kinds,       \* the kinds of entries journaled, of AllKinds
    Sessions,    \* session keys
    Families,    \* query families a recall entry carries
    None,        \* no family, no segment
    Window,      \* flagCorrectionWindow
    DayLength,   \* clock ticks per journal segment
    MaxSize,     \* journalMaxTotalBytes, in lines
    MaxAge,      \* journalMaxSegmentAgeDays
    MaxClock,    \* bound on the clock
    MaxEntries,  \* bound on the entries appended
    MaxFaults,   \* bound on crashes and failed writes
    PassTime,    \* most ticks from a pass's listing of the journal to its decision
    Midnight     \* may the day end between the stamp of an entry and its write?

(* fail: an unknown flag; fixed: a later success of the same command with the *)
(* corrected flag; plain: a success without it; recall: a learn command.      *)
AllKinds == {"fail", "fixed", "plain", "recall"}

ASSUME FlagDerivationAssumption ==
    /\ Kinds \subseteq AllKinds
    /\ None \notin Families \cup Nat
    /\ DayLength \in Nat \ {0} /\ Window <= DayLength
    /\ {Window, MaxSize, MaxAge, MaxClock, MaxEntries, MaxFaults, PassTime} \subseteq Nat
    /\ Midnight \in BOOLEAN

Day(t)  == t \div DayLength
Days    == 0 .. Day(MaxClock)
Ids     == 1 .. MaxEntries
Junk    == 0

VARIABLES
    clock,    \* wall-clock time
    log,      \* log[n]: the n-th entry any command has made
    written,  \* the entries that became readable lines, in that order, and when
    seg,      \* seg[d]: the segment file of day d
    offset,   \* the offset file
    counted,  \* counted[n]: observations of failure n, 2 standing for several
    anchor,   \* anchor[n]: the families failure n was derived under
    faults,   \* crashes and failed writes so far
    pc,       \* pc[p]: what process p does next
    mine,     \* mine[p]: the entry p appends
    target,   \* target[p]: the day whose segment p appends to
    from,     \* from[p]: the offset p's pass started at
    began,    \* began[p]: when p's pass listed the segments
    left,     \* left[p]: the listed segments p has still to read
    batch,    \* batch[p]: the lines p has read, in journal order
    next,     \* next[p]: the offset p stores when its pass succeeds
    todo      \* todo[p]: the pairs p has still to count

journal == <<log, written, seg, offset, counted, anchor>>
pass    == <<from, began, left, batch, next, todo>>
vars    == <<clock, journal, faults, pc, mine, target, pass>>

Entry  == [kind : Kinds, session : Sessions, ts : 0 .. MaxClock, family : Families \cup {None}]
(* A segment's complete lines, and its last line when that lacks a newline.   *)
Segment == [exists : BOOLEAN, lines : Seq(Ids \cup {Junk}), tail : Ids \cup {Junk, None}]
NoSegment == [exists |-> FALSE, lines |-> <<>>, tail |-> None]
Offset  == [seg : Days \cup {None}, line : Nat]
Start   == [seg |-> None, line |-> 0]

PCs == {"idle", "repair", "write", "cleanup", "load", "list", "read", "decide", "derive", "store"}

TypeOK ==
    /\ clock \in 0 .. MaxClock
    /\ log \in Seq(Entry) /\ Len(log) <= MaxEntries
    /\ written \in Seq([n : 1 .. Len(log), at : 0 .. MaxClock])
    /\ seg \in [Days -> Segment]
    /\ \A d \in Days : ~seg[d].exists => seg[d] = NoSegment
    /\ offset \in Offset
    /\ counted \in [Ids -> 0 .. 2]
    /\ anchor \in [Ids -> SUBSET (Families \cup {None})]
    /\ faults \in 0 .. MaxFaults
    /\ pc \in [Procs -> PCs]
    /\ mine \in [Procs -> Ids \cup {Junk}]
    /\ target \in [Procs -> Days]
    /\ from \in [Procs -> Offset] /\ next \in [Procs -> Offset]
    /\ began \in [Procs -> 0 .. MaxClock]
    /\ left \in [Procs -> SUBSET Days]
    /\ \A p \in Procs :
          /\ batch[p] \in Seq(0 .. Len(log))
          /\ todo[p] \subseteq [n : Ids, at : DOMAIN batch[p], family : Families \cup {None}]
          /\ pc[p] \in {"repair", "write", "cleanup"} => mine[p] \in 1 .. Len(log)

Init ==
    /\ clock = 0
    /\ log = <<>> /\ written = <<>>
    /\ seg = [d \in Days |-> NoSegment]
    /\ offset = Start
    /\ counted = [n \in Ids |-> 0]
    /\ anchor = [n \in Ids |-> {}]
    /\ faults = 0
    /\ pc = [p \in Procs |-> "idle"]
    /\ mine = [p \in Procs |-> Junk]
    /\ target = [p \in Procs |-> 0]
    /\ from = [p \in Procs |-> Start] /\ next = [p \in Procs |-> Start]
    /\ began = [p \in Procs |-> 0]
    /\ left = [p \in Procs |-> {}]
    /\ batch = [p \in Procs |-> <<>>]
    /\ todo = [p \in Procs |-> {}]

Goto(p, l) == pc' = [pc EXCEPT ![p] = l]

(* Mutant: the pairs outlive the pass they came from.                         *)
ForgetAllButPairs(p) ==
    /\ from' = [from EXCEPT ![p] = Start]
    /\ next' = [next EXCEPT ![p] = Start]
    /\ began' = [began EXCEPT ![p] = 0]
    /\ left' = [left EXCEPT ![p] = {}]
    /\ batch' = [batch EXCEPT ![p] = <<>>]
    /\ UNCHANGED todo

(* The pass of p is over, whether it stored its offset or not.                *)
Forget(p) ==
    /\ from' = [from EXCEPT ![p] = Start]
    /\ next' = [next EXCEPT ![p] = Start]
    /\ began' = [began EXCEPT ![p] = 0]
    /\ left' = [left EXCEPT ![p] = {}]
    /\ batch' = [batch EXCEPT ![p] = <<>>]
    /\ todo' = [todo EXCEPT ![p] = {}]

(* The clock moves amid the commands.  A pass takes at most PassTime from its *)
(* listing to its decision; an append keeps to one day, unless Midnight.      *)
Tick ==
    /\ clock < MaxClock
    /\ \A p \in Procs :
          /\ pc[p] \in {"read", "decide"} => clock < began[p] + PassTime
          /\ pc[p] \in {"repair", "write"} => Midnight \/ Day(clock + 1) = Day(clock)
    /\ clock' = clock + 1
    /\ UNCHANGED <<journal, faults, pc, mine, target, pass>>
-----------------------------------------------------------------------------
(* AppendJournalEntry *)

(* A command has run: stamp its entry.  The bound leaves a failure the time   *)
(* to age past the window.                                                    *)
Begin(p, kind, session, family) ==
    /\ pc[p] = "idle"
    /\ Len(log) < MaxEntries
    /\ clock + Window < MaxClock
    /\ kind = "recall" <=> family # None
    /\ log' = Append(log, [kind |-> kind, session |-> session, ts |-> clock, family |-> family])
    /\ mine' = [mine EXCEPT ![p] = Len(log')]
    /\ Goto(p, "repair")
    /\ UNCHANGED <<clock, written, seg, offset, counted, anchor, faults, target, pass>>

(* An entry that is on a line of its own can be read.                         *)
Readable(line) == IF line = Junk THEN <<>> ELSE <<[n |-> line, at |-> clock]>>

(* Mutant: the torn line is left to run into the next entry.                  *)
RepairNothing(p) ==
    /\ pc[p] = "repair"
    /\ target' = [target EXCEPT ![p] = Day(clock)]
    /\ Goto(p, "write")
    /\ UNCHANGED <<clock, journal, faults, mine, pass>>

(* repairJournalSegmentTail: terminate the line a crashed writer has left.    *)
Repair(p) ==
    LET d == Day(clock)
    IN  /\ pc[p] = "repair"
        /\ target' = [target EXCEPT ![p] = d]
        /\ IF seg[d].tail # None
           THEN /\ seg' = [seg EXCEPT ![d].lines = Append(@, seg[d].tail), ![d].tail = None]
                /\ written' = written \o Readable(seg[d].tail)
           ELSE UNCHANGED <<seg, written>>
        /\ Goto(p, "write")
        /\ UNCHANGED <<clock, log, offset, counted, anchor, faults, mine, pass>>

(* One O_APPEND write.  A torn line that was not there when the tail was      *)
(* checked swallows the entry.                                                *)
Write(p) ==
    LET d == target[p]
        line == IF seg[d].tail = None THEN mine[p] ELSE Junk
    IN  /\ pc[p] = "write"
        /\ seg' = [seg EXCEPT ![d] = [exists |-> TRUE, lines |-> Append(@.lines, line), tail |-> None]]
        /\ written' = written \o Readable(line)
        /\ Goto(p, "cleanup")
        /\ UNCHANGED <<clock, log, offset, counted, anchor, faults, mine, target, pass>>

(* A learn command does not derive.                                           *)
AfterAppend(p) == IF log[mine[p]].kind = "recall" THEN "idle" ELSE "load"

(* The write is cut short: the line lacks its newline, or more.  The process  *)
(* was killed, or it got the error and goes on without the entry.             *)
TornWrite(p) ==
    /\ pc[p] = "write"
    /\ faults < MaxFaults
    /\ faults' = faults + 1
    /\ \E rest \in {mine[p], Junk} :
          seg' = [seg EXCEPT ![target[p]].exists = TRUE,
                             ![target[p]].tail = IF @ = None THEN rest ELSE Junk]
    /\ \E l \in {"idle", AfterAppend(p)} : Goto(p, l)
    /\ UNCHANGED <<clock, log, written, offset, counted, anchor, mine, target, pass>>

Existing == {d \in Days : seg[d].exists}
Newest(d) == \A e \in Existing : e <= d

Size(d) == Len(seg[d].lines) + (IF seg[d].tail = None THEN 0 ELSE 1)

(* The size of the segments from d on.                                        *)
SizeFrom[d \in Nat] ==
    IF d > Day(MaxClock) THEN 0 ELSE Size(d) + SizeFrom[d + 1]

(* The segments cleanupJournalSegments removes, walking oldest first and      *)
(* stopping at the first that breaks neither cap.                             *)
Doomed == {d \in Existing :
             /\ ~Newest(d)
             /\ \A e \in Existing : e <= d => (e + MaxAge) * DayLength < clock \/ SizeFrom[e] > MaxSize}

(* Mutant: the oldest segment is truncated in place rather than deleted.      *)
CleanupTruncates(p) ==
    /\ pc[p] = "cleanup"
    /\ seg' = [d \in Days |-> IF d \in Doomed THEN [NoSegment EXCEPT !.exists = TRUE] ELSE seg[d]]
    /\ Goto(p, AfterAppend(p))
    /\ UNCHANGED <<clock, log, written, offset, counted, anchor, faults, mine, target, pass>>

Cleanup(p) ==
    /\ pc[p] = "cleanup"
    /\ seg' = [d \in Days |-> IF d \in Doomed THEN NoSegment ELSE seg[d]]
    /\ Goto(p, AfterAppend(p))
    /\ UNCHANGED <<clock, log, written, offset, counted, anchor, faults, mine, target, pass>>
-----------------------------------------------------------------------------
(* DeriveFlagCorrections *)

(* A command whose append failed before it wrote runs its pass all the same.  *)
Pass(p) ==
    /\ pc[p] = "idle"
    /\ Goto(p, "load")
    /\ UNCHANGED <<clock, journal, faults, mine, target, pass>>

Load(p) ==
    /\ pc[p] = "load"
    /\ from' = [from EXCEPT ![p] = offset]
    /\ next' = [next EXCEPT ![p] = offset]
    /\ Goto(p, "list")
    /\ UNCHANGED <<clock, journal, faults, mine, target, began, left, batch, todo>>

(* ReadJournalFrom: the segments of the offset's day and later, as listed.    *)
List(p) ==
    /\ pc[p] = "list"
    /\ left' = [left EXCEPT ![p] = {d \in Existing : from[p].seg = None \/ d >= from[p].seg}]
    /\ began' = [began EXCEPT ![p] = clock]
    /\ Goto(p, "read")
    /\ UNCHANGED <<clock, journal, faults, mine, target, from, batch, next, todo>>

Smaller(a, b) == IF a < b THEN a ELSE b

(* The lines of a segment behind the first n.                                 *)
LinesAfter(d, n) == SubSeq(seg[d].lines, n + 1, Len(seg[d].lines))

(* The oldest listed segment is read whole; a torn last line is left for the  *)
(* next pass, and a segment removed since the listing is skipped.             *)
Read(p) ==
    /\ pc[p] = "read"
    /\ \E d \in left[p] :
          /\ \A e \in left[p] : d <= e
          /\ left' = [left EXCEPT ![p] = @ \ {d}]
          /\ IF seg[d].exists
             THEN LET done == IF d = from[p].seg THEN Smaller(from[p].line, Len(seg[d].lines)) ELSE 0
                  IN  /\ batch' = [batch EXCEPT ![p] = @ \o LinesAfter(d, done)]
                      /\ next' = [next EXCEPT ![p] = [seg |-> d, line |-> Len(seg[d].lines)]]
             ELSE UNCHANGED <<batch, next>>
    /\ UNCHANGED <<clock, journal, faults, pc, mine, target, from, began, todo>>

ReadDone(p) ==
    /\ pc[p] = "read"
    /\ left[p] = {}
    /\ IF batch[p] = <<>> /\ next[p] = from[p]
       THEN Goto(p, "idle") /\ Forget(p)
       ELSE Goto(p, "decide") /\ UNCHANGED pass
    /\ UNCHANGED <<clock, journal, faults, mine, target>>

-----------------------------------------------------------------------------
(* pairFlagCorrections, over the entries es[1], es[2], ... *)

(* What a line says; one that is Junk parses as nothing and is passed over.   *)
Failure(n)    == n # Junk /\ log[n].kind = "fail"
Invokes(n, s) == n # Junk /\ log[n].kind # "recall" /\ log[n].session = s
Recalls(n, s) == n # Junk /\ log[n].kind = "recall" /\ log[n].session = s

(* Mutant: any later success within the window pairs.                         *)
AnyLater(es, i, j) == i < j /\ Invokes(es[j], log[es[i]].session)

(* es[j] is the next invocation, in the session of es[i], of its command.     *)
NextOf(es, i, j) ==
    LET s == log[es[i]].session
    IN  i < j /\ Invokes(es[j], s) /\ \A k \in i + 1 .. j - 1 : ~Invokes(es[k], s)

Corrects(s, f) ==
    /\ log[s].kind = "fixed"
    /\ log[s].ts >= log[f].ts /\ log[s].ts - log[f].ts <= Window

PairedAt(es, i) ==
    /\ Failure(es[i])
    /\ \E j \in DOMAIN es : NextOf(es, i, j) /\ Corrects(es[j], es[i])

(* Mutant: an unpaired failure never ages.                                    *)
PendingForever(es) ==
    \E i \in DOMAIN es : Failure(es[i]) /\ \A j \in DOMAIN es : ~NextOf(es, i, j)

(* Mutant: the window closes a tick early.                                    *)
PendingUntilClose(es) ==
    \E i \in DOMAIN es :
        /\ Failure(es[i])
        /\ \A j \in DOMAIN es : ~NextOf(es, i, j)
        /\ clock < log[es[i]].ts + Window

(* Some failure has no next invocation yet and is fresh enough to get one.    *)
Pending(es) ==
    \E i \in DOMAIN es :
        /\ Failure(es[i])
        /\ \A j \in DOMAIN es : ~NextOf(es, i, j)
        /\ clock <= log[es[i]].ts + Window

(* Mutant: the family of the first.                                           *)
FirstRecall(es, s, before) ==
    LET i == SelectInSeq(es, LAMBDA n : Recalls(n, s))
    IN  IF i = 0 THEN before ELSE log[es[i]].family

(* The family of the last recall of session s in es, or what it was before.   *)
LastRecall(es, s, before) ==
    LET i == SelectLastInSeq(es, LAMBDA n : Recalls(n, s))
    IN  IF i = 0 THEN before ELSE log[es[i]].family

(* Mutant: the segment of the offset is searched to its end.                  *)
BeforeAndAfter(o, d) == seg[d].lines

(* What the segment of day d holds before offset o, the unterminated last     *)
(* line of an earlier day included.                                           *)
Before(o, d) ==
    LET whole == IF seg[d].tail = None THEN seg[d].lines ELSE Append(seg[d].lines, seg[d].tail)
    IN  IF d < o.seg THEN whole ELSE SubSeq(whole, 1, Smaller(o.line, Len(whole)))

(* Mutant: only the segment of the offset is searched.                        *)
SeedOfSegment(o, s) == IF o.seg = None THEN None ELSE LastRecall(Before(o, o.seg), s, None)

(* sessionRecallFamiliesBeforeBatch: the newest segment that has a recall of  *)
(* session s before the offset decides.                                       *)
Seed(o, s) ==
    LET days == IF o.seg = None THEN {}
                ELSE {d \in 0 .. o.seg : \E n \in ToSet(Before(o, d)) : Recalls(n, s)}
    IN  IF days = {} THEN None ELSE LastRecall(Before(o, Max(days)), s, None)

(* Pair the batch.  A pending failure holds all of it for a later pass.       *)
Decide(p) ==
    LET pairs == {i \in DOMAIN batch[p] : PairedAt(batch[p], i)}
    IN  /\ pc[p] = "decide"
        /\ IF Pending(batch[p])
           THEN Goto(p, "idle") /\ Forget(p)
           ELSE /\ Goto(p, IF pairs = {} THEN "store" ELSE "derive")
                /\ todo' = [todo EXCEPT ![p] = {[n     |-> batch[p][i],
                                                 at    |-> i,
                                                 family |-> LET s == log[batch[p][i]].session
                                                            IN  LastRecall(SubSeq(batch[p], 1, i), s, Seed(from[p], s))]
                                                : i \in pairs}]
                /\ UNCHANGED <<from, began, left, batch, next>>
        /\ UNCHANGED <<clock, journal, faults, mine, target>>

(* One DeriveCandidate: the next pair, in journal order.                      *)
Derive(p) ==
    /\ pc[p] = "derive"
    /\ \E c \in todo[p] :
          /\ \A e \in todo[p] : c.at <= e.at
          /\ counted' = [counted EXCEPT ![c.n] = Smaller(@ + 1, 2)]
          /\ anchor' = [anchor EXCEPT ![c.n] = @ \cup {c.family}]
          /\ todo' = [todo EXCEPT ![p] = @ \ {c}]
          /\ Goto(p, IF todo[p] = {c} THEN "store" ELSE "derive")
    /\ UNCHANGED <<clock, log, written, seg, offset, faults, mine, target, from, began, left, batch, next>>

(* StoreJournalOffset: the file is replaced as a whole.                       *)
Store(p) ==
    /\ pc[p] = "store"
    /\ offset' = next[p]
    /\ Goto(p, "idle")
    /\ Forget(p)
    /\ UNCHANGED <<clock, log, written, seg, counted, anchor, faults, mine, target>>

(* Mutant: the offset is stored although the pass failed.                     *)
FailStores(p) ==
    /\ pc[p] # "idle"
    /\ faults < MaxFaults
    /\ faults' = faults + 1
    /\ offset' = next[p]
    /\ Goto(p, "idle")
    /\ Forget(p)
    /\ UNCHANGED <<clock, log, written, seg, counted, anchor, mine, target>>

(* The process is killed, or a call it makes fails and it gives up: the rest  *)
(* of its steps never happen.                                                 *)
Fail(p) ==
    /\ pc[p] # "idle"
    /\ faults < MaxFaults
    /\ faults' = faults + 1
    /\ Goto(p, "idle")
    /\ Forget(p)
    /\ UNCHANGED <<clock, journal, mine, target>>
-----------------------------------------------------------------------------
Step(p) ==
    \/ Repair(p) \/ Write(p) \/ Cleanup(p)
    \/ Load(p) \/ List(p) \/ Read(p) \/ ReadDone(p)
    \/ Decide(p) \/ Derive(p) \/ Store(p)

Next ==
    \/ Tick
    \/ \E p \in Procs :
          \/ \E k \in Kinds, s \in Sessions, f \in Families \cup {None} : Begin(p, k, s, f)
          \/ Pass(p)
          \/ Step(p)
          \/ TornWrite(p)
          \/ Fail(p)

Spec == Init /\ [][Next]_vars

(* A command that runs goes on until it ends; people go on running commands;  *)
(* and time passes, though a pass or an append may keep it waiting.           *)
LiveSpec ==
    /\ Spec
    /\ SF_vars(Tick)
    /\ \A p \in Procs : WF_vars(Step(p)) /\ WF_vars(Pass(p))
-----------------------------------------------------------------------------
(* The later invocations of its command in the session of written[i].         *)
Retries(i) ==
    {j \in DOMAIN written :
        j > i /\ Invokes(written[j].n, log[written[i].n].session)}

(* Failure written[i] is corrected by the first of them, ...                  *)
Corrected(i) ==
    /\ Failure(written[i].n)
    /\ Retries(i) # {}
    /\ LET success == log[written[Min(Retries(i))].n]
       IN  success.kind = "fixed" /\ success.ts - log[written[i].n].ts \in 0 .. Window

(* ... and the correction was in the journal `grace` before the window closed.*)
JournaledBy(i, grace) ==
    Corrected(i) /\ written[Min(Retries(i))].at + grace <= log[written[i].n].ts + Window

(* A pass that has listed the journal without the correction decides before   *)
(* the window closes.                                                         *)
CorrectedInTime(i) == JournaledBy(i, PassTime)

(* Entry n is in the journal, in front of the offset.                         *)
Consumed(n) ==
    /\ offset.seg # None
    /\ \E d \in Days :
          \/ d < offset.seg /\ n \in ToSet(seg[d].lines)
          \/ d = offset.seg /\ n \in ToSet(SubSeq(seg[d].lines, 1, Smaller(offset.line, Len(seg[d].lines))))

(* The offset never moves past a correction that was not counted: not when    *)
(* passes overlap, when one dies between two pairs or after the last of them, *)
(* when a torn line swallows an entry, when the window closes amid a pass,    *)
(* nor when segments are removed.                                             *)
NothingSkipped ==
    \A i \in DOMAIN written :
        CorrectedInTime(i) /\ Consumed(written[i].n) => counted[written[i].n] > 0

(* The same of every correction journaled within the window.  It fails: the   *)
(* pass reads the clock after the journal.                                    *)
NoneComesTooLate ==
    \A i \in DOMAIN written :
        JournaledBy(i, 0) /\ Consumed(written[i].n) => counted[written[i].n] > 0

(* Only a failure is counted whose session's next invocation of the command   *)
(* corrected it, in the journal as a whole: a pass that reads only a part of  *)
(* it, or reads it while others append, never pairs across a retry.           *)
PairSound ==
    \A n \in Ids : counted[n] > 0 =>
        \E i \in DOMAIN written : written[i].n = n /\ Corrected(i)

Journaled(n) == \E d \in Days : n \in ToSet(seg[d].lines)

(* With one command at a time, a candidate is anchored at the family of the   *)
(* session's last recall before the failure, whether the pass read that       *)
(* recall in its batch or before its offset; a later one is passed over only  *)
(* if it never got a line of its own, and there is no family only where every *)
(* earlier recall that had one is gone from the journal.                      *)
AnchorSound ==
    \A n \in 1 .. Len(log) : \A f \in anchor[n] :
        LET Earlier(i) == Recalls(written[i].n, log[n].session) /\ written[i].n < n
        IN  IF f = None
            THEN \A i \in DOMAIN written : Earlier(i) => ~Journaled(written[i].n)
            ELSE \E m \in 1 .. n - 1 :
                    /\ Recalls(m, log[n].session) /\ log[m].family = f
                    /\ \A i \in DOMAIN written : Earlier(i) => written[i].n <= m

(* A stored offset either stays valid or its segment disappears entirely.     *)
OffsetWithinSegment ==
    offset.seg # None /\ seg[offset.seg].exists => offset.line <= Len(seg[offset.seg].lines)

(* With one command at a time, a torn write costs the journal its own entry   *)
(* and no other: the next append does not run into what it left.              *)
LosesOnlyTheTorn ==
    (\A p \in Procs : pc[p] \notin {"repair", "write"}) => Len(log) <= Len(written) + faults

(* A correction that is in the journal is counted in the end, unless the caps *)
(* remove its failure first.                                                  *)
EveryCorrectionCounted ==
    \A n \in Ids :
        (\E i \in DOMAIN written : written[i].n = n /\ CorrectedInTime(i))
            ~> (counted[n] > 0 \/ ~Journaled(n))

(* What the comment of DeriveFlagCorrections says: every observation is       *)
(* counted exactly once.  It is not: two commands may read the same batch.    *)
CountedOnce == \A n \in Ids : counted[n] <= 1

(* What the comment of cleanupJournalSegments says: the caps can never race   *)
(* an appender.  They can at midnight.                                        *)
CapsNeverRaceAppender ==
    [][\A p \in Procs, d \in Days :
          pc[p] = "write" /\ target[p] = d /\ seg[d].exists => seg'[d].exists]_vars
=============================================================================
