------------------------------ MODULE LearnEvents -------------------------------
(* The learn_events table and what `learnings stats` makes of it: pure        *)
(* operations on a log, the rows in the order of their ids.  Every operation  *)
(* but the statistics is one or two statements under the store's write lock;  *)
(* the statistics are separate reads of whatever the log is at each.          *)
EXTENDS Integers, Sequences, FiniteSets

CONSTANTS
    Hashes,   \* family hashes
    NoHash,   \* SQL's NULL: a query without a family
    RowIds    \* ids of learnings, 0 for NULL

Events == {"recall_hit", "recall_miss", "recall_playbook_hit", "teach", "teach_playbook",
           "amend", "forget", "candidate_confirmed", "candidate_rejected"}

Logged == [event : Events, fam : Hashes \cup {NoHash}, row : RowIds, ts : Nat]

ASSUME EventsAssumption == NoHash \notin Hashes /\ 0 \in RowIds /\ RowIds \subseteq Nat

(* A harness writes nothing, and nobody an event the table does not know.     *)
InsertLearnEvent(log, e, harness) ==
    IF harness \/ e.event \notin Events THEN log
    ELSE Append(log, [e EXCEPT !.row = IF @ > 0 THEN @ ELSE 0])

(* recordRecallEvents: hit or miss, then the playbook of the family.  The top *)
(* hit of a pattern has no row of its own.                                    *)
RecallEvents(log, result, ts, harness) ==
    LET Row(event, row) == [event |-> event, fam |-> result.fam, row |-> row, ts |-> ts]
        asked == InsertLearnEvent(log, IF result.found THEN Row("recall_hit", result.row)
                                       ELSE Row("recall_miss", 0), harness)
    IN  IF result.playbook THEN InsertLearnEvent(asked, Row("recall_playbook_hit", 0), harness)
        ELSE asked

(* The clock of a row may be behind that of an older one: (ts, id) decides.   *)
Later(log, i, j) == log[i].ts > log[j].ts \/ (log[i].ts = log[j].ts /\ i > j)

(* The rows at the positions that satisfy Keep, in order.                     *)
Those(log, Keep(_)) ==
    LET kept == {i \in DOMAIN log : Keep(i)}
        Nth(n) == CHOOSE i \in kept : Cardinality({j \in kept : j <= i}) = n
    IN  [n \in 1 .. Cardinality(kept) |-> log[Nth(n)]]

(* Retention: the old go, then the oldest beyond the cap.                     *)
PruneLearnEvents(log, maxRows, cutoff) ==
    LET young == Those(log, LAMBDA i : log[i].ts >= cutoff)
    IN  Those(young, LAMBDA i : Cardinality({j \in DOMAIN young : Later(young, j, i)}) < maxRows)

(* The cascade of a forget.                                                   *)
DeleteByFamily(log, hash) ==
    IF hash = NoHash THEN log ELSE Those(log, LAMBDA i : log[i].fam # hash)

(* What forgetting some rows of a query appends after the cascade.            *)
Forgotten(log, hash, ts, harness) ==
    InsertLearnEvent(DeleteByFamily(log, hash),
                     [event |-> "forget", fam |-> hash, row |-> 0, ts |-> ts], harness)

At(log, event) == {i \in DOMAIN log : log[i].event = event}
Count(log, event) == Cardinality(At(log, event))

(* Is some event of a kind later than i and about the same learning, family?  *)
LaterOnRow(log, event, i) ==
    \E j \in At(log, event) : log[j].row = log[i].row /\ Later(log, j, i)
LaterOnFamily(log, event, i) ==
    log[i].fam # NoHash /\ \E j \in At(log, event) : log[j].fam = log[i].fam /\ Later(log, j, i)

(* A teach counts by the id of its row, one from before ids by its family.    *)
Numbered(log) == {i \in At(log, "teach") : log[i].row # 0}
Legacy(log)   == {i \in At(log, "teach") : log[i].row = 0 /\ log[i].fam # NoHash}

Distinct(log, byRow, byFamily) ==
    Cardinality({log[i].row : i \in byRow}) + Cardinality({log[i].fam : i \in byFamily})

LearnEventStats(log) ==
    [hits      |-> Count(log, "recall_hit"),
     misses    |-> Count(log, "recall_miss"),
     taught    |-> Distinct(log, Numbered(log), Legacy(log)),
     reused    |-> Distinct(log, {i \in Numbered(log) : LaterOnRow(log, "recall_hit", i)},
                                 {i \in Legacy(log) : LaterOnFamily(log, "recall_hit", i)}),
     playbooks |-> Count(log, "recall_playbook_hit"),
     amended   |-> Cardinality({i \in At(log, "recall_playbook_hit") :
                                   LaterOnFamily(log, "amend", i)})]

(* A rate over nothing is no rate.                                            *)
Ratio(num, den) == IF den = 0 THEN <<>> ELSE <<num, den>>
IsShare(ratio) == ratio = <<>> \/ (0 <= ratio[1] /\ ratio[1] <= ratio[2])

Rates(s) == [hitRate    |-> Ratio(s.hits, s.hits + s.misses),
             reuse      |-> Ratio(s.reused, s.taught),
             resolution |-> Ratio(s.playbooks - s.amended, s.playbooks)]
=================================================================================
