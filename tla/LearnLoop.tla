------------------------------- MODULE LearnLoop --------------------------------
(* The learn loop on one data.db: processes run one command at a time, teach, *)
(* recall, teach-lookup, teach-pattern, teach-playbook, playbook amend,       *)
(* learnings forget, and the theater command that caches what it reads.  A    *)
(* step of a command is one statement or transaction of SQLite, or the read   *)
(* that opens one.                                                            *)
EXTENDS Recall, ResponseShapes

CONSTANTS
    Procs,        \* processes
    Commands,     \* the commands they may run
    MaxCommands,  \* bound on the commands run
    Resources,    \* resource ids a command can name, in pieces (see Recall)
    Id,           \* Id[r]: the same id as the text a row is stored under
    Seeds,        \* rows initLearn puts into entity_lookups
    Replies,      \* Replies[slug]: JSON bodies the theater endpoint answers
    Faults        \* statements of a row's upsert that may fail, see Upserted

AsksQuery == {"teach", "recall", "teach-playbook", "amend"}
Kinded(k) == {c \in Commands : c.kind = k}

ASSUME LearnAssumption ==
    /\ MaxCommands \in Nat
    /\ \A c \in Commands : c.kind \in AsksQuery \cup {"teach-lookup", "teach-pattern",
                                                     "forget", "theater"}
    /\ \A c \in Commands : c.kind \in AsksQuery => c.query \in Queries
    /\ \A r \in Resources : IsResource(r)
    /\ Resources \subseteq DOMAIN Id
    /\ Seeds \subseteq LookupRows
    /\ \A c \in Kinded("teach") : /\ c.playbook \in BOOLEAN
                                  /\ c.resources \in Seq(Resources) /\ c.resources # <<>>
    /\ \A c \in Kinded("forget") : c.query \in Queries /\ c.resources \subseteq Resources
    /\ \A c \in Kinded("teach-lookup") : c.row \in LookupRows
    /\ \A s \in DOMAIN Replies : \A reply \in Replies[s] : Len(Rows(Items(reply))) \in Nat
    /\ \A c \in Kinded("teach-pattern") : c.pattern.shape \subseteq Words
    /\ \A c \in Kinded("theater") : c.slug \in DOMAIN Replies
                                    /\ c.source \in {"auto", "live", "local"}

VARIABLES
    lookups,    \* entity_lookups, of the one kind seeded
    learnings,  \* search_learnings: rows by <<pattern, resource>>
    patterns,   \* search_patterns: confidence by pattern
    playbooks,  \* families of learning_playbooks
    misses,     \* recall_misses
    rows,       \* resources: JSON by id
    index,      \* resources_fts: the JSON its row was built from, by id
    clock,      \* logical time of the last write of a learning
    pc,         \* pc[p]: the step process p is at
    loc,        \* loc[p]: what its command has read so far
    current,    \* processes in a transaction whose snapshot is the newest
    left,       \* commands that may still be run
    taught,     \* ghost: acknowledged teachings since the last forget, by key
    origin,     \* ghost: the normalized query a row was inserted under, by key
    warned,     \* ghost: ids whose last upsert printed an index warning
    stored,     \* ghost: slugs whose reply has been committed to the cache
    answer      \* ghost: what the last recall or offline read of p said

tables == <<lookups, learnings, patterns, playbooks, misses, rows, index>>
ghosts == <<taught, origin, warned, stored>>
vars == <<tables, clock, pc, loc, current, left, ghosts, answer>>

Nothing == [kind |-> "none"]
NoWork  == [cmd |-> Nothing, norm |-> [ents |-> {}, rest |-> {}], cache |-> <<>>,
            todo |-> <<>>, found |-> FALSE, inferred |-> {}, reply |-> Nothing]
Steps   == {"idle", "promote", "misses", "match", "measure", "read", "write", "infer",
            "generalize", "playbook", "family", "teach-lookup", "teach-pattern", "forget", "ask",
            "store", "local"}

LearningKeys == (SUBSET Words) \X Resources

TypeOK ==
    /\ lookups \subseteq LookupRows
    /\ DOMAIN learnings \subseteq LearningKeys
    /\ \A k \in DOMAIN learnings : learnings[k] \in Learnings
    /\ \A p \in DOMAIN patterns : patterns[p] \in Nat \ {0}
    /\ playbooks \in SUBSET SUBSET Words /\ misses \subseteq Words
    /\ clock \in Nat /\ left \in 0 .. MaxCommands
    /\ pc \in [Procs -> Steps]
    /\ DOMAIN loc = Procs /\ DOMAIN answer = Procs
    /\ \A p \in Procs : loc[p].norm \in Normals
    /\ current \subseteq Procs

Init ==
    /\ lookups = Seeds
    /\ learnings = <<>> /\ patterns = <<>> /\ playbooks = {} /\ misses = {}
    /\ rows = <<>> /\ index = <<>>
    /\ clock = 0 /\ current = {} /\ left = MaxCommands
    /\ pc = [p \in Procs |-> "idle"] /\ loc = [p \in Procs |-> NoWork]
    /\ taught = <<>> /\ origin = <<>> /\ warned = {} /\ stored = {}
    /\ answer = [p \in Procs |-> Nothing]

--------------------------------------------------------------------------------
(* Steps.                                                                     *)

Cmd(p) == loc[p].cmd

(* f with k mapped to v, whether k was there or not.                          *)
Put(f, k, v) == [x \in DOMAIN f \cup {k} |-> IF x = k THEN v ELSE f[x]]
Without(f, S) == [x \in DOMAIN f \ S |-> f[x]]

To(p, step) == pc' = [pc EXCEPT ![p] = step]
Keep(p, work) == loc' = [loc EXCEPT ![p] = work]

(* The end of a command: nothing of the process outlives it.                  *)
Ends(p) == To(p, "idle") /\ Keep(p, NoWork)

(* A commit makes every other open snapshot old: its writer gets SQLITE_BUSY. *)
Commits == current' = {}

Begin(p) ==
    /\ pc[p] = "idle" /\ left > 0
    /\ \E c \in Commands :
         /\ Keep(p, [NoWork EXCEPT !.cmd = c])
         /\ To(p, CASE c.kind \in AsksQuery -> "promote"
                    [] c.kind = "theater" -> IF c.source = "local" THEN "local" ELSE "ask"
                    [] OTHER -> c.kind)
    /\ left' = left - 1
    /\ answer' = [answer EXCEPT ![p] = Nothing]
    /\ UNCHANGED <<tables, clock, current, ghosts>>

(* The resolver of a call keeps what it has resolved.                         *)
Seen(p) == [w \in Words |-> IF w \in DOMAIN loc[p].cache THEN loc[p].cache[w]
                            ELSE Resolve(lookups, w)]

Unresolved(n, cache) == {w \in n.ents : cache[w] = {}}

(* Normalize and PromoteEntities, the same for every command with a query.    *)
Promote(p) ==
    /\ pc[p] = "promote"
    /\ LET raw   == Normalize(Cmd(p).query)
           cache == [w \in raw.ents \cup raw.rest |-> Resolve(lookups, w)]
           n     == PromoteEntities(raw, cache)
           read  == [loc[p] EXCEPT !.norm = n, !.cache = cache]
       IN  CASE Cmd(p).kind = "teach" ->
                  To(p, "read") /\ Keep(p, [read EXCEPT !.todo = Cmd(p).resources])
             [] Cmd(p).kind \in {"teach-playbook", "amend"} ->
                  IF QueryFamily(n) = {} THEN Ends(p) ELSE To(p, "family") /\ Keep(p, read)
             [] OTHER ->
                  IF Cold(raw) THEN Ends(p)
                  ELSE /\ To(p, IF Unresolved(n, cache) # {} THEN "misses" ELSE "match")
                       /\ Keep(p, read)
    /\ UNCHANGED <<tables, clock, current, left, ghosts, answer>>

--------------------------------------------------------------------------------
(* recall.                                                                    *)

RecordMisses(p) ==
    /\ pc[p] = "misses"
    /\ \/ misses' = misses \cup Unresolved(loc[p].norm, loc[p].cache) /\ Commits
       \/ UNCHANGED <<misses, current>>
    /\ To(p, "match")
    /\ UNCHANGED <<lookups, learnings, patterns, playbooks, rows, index, clock, loc, left, ghosts,
                   answer>>

Cached == {r \in Resources : Id[r] \in DOMAIN rows}

(* due: the rows of queries that were read as this one is, and that the two   *)
(* normalizers agree on, no word of it being a name in one place and not in   *)
(* another: of the stored query both go with the names.                       *)
Due(n) == {k \in DOMAIN learnings : /\ origin[k] = n /\ k[1] = n.ents \cup n.rest
                                    /\ n.ents \cap n.rest = {}}

Answer(p) ==
    LET n == loc[p].norm
    IN  [kind |-> "recall", query |-> Cmd(p).query, norm |-> n,
         results |-> Results(n, learnings, patterns, Cached, Seen(p)),
         mismatches |-> Mismatches(n, learnings, Cached, Seen(p)),
         playbook |-> QueryFamily(n) # {} /\ QueryFamily(n) \in playbooks,
         written |-> {k \in DOMAIN learnings : k[1] = NormalizeQuery(Cmd(p).query)},
         due |-> Due(n), cached |-> Cached, known |-> lookups]

Match(p) ==
    /\ pc[p] = "match"
    /\ answer' = [answer EXCEPT ![p] = Answer(p)]
    /\ To(p, "measure")
    /\ UNCHANGED <<tables, clock, loc, current, left, ghosts>>

(* The measurement rows of a command, written or failed: see LearnEvents for  *)
(* what they say, here only their commits matter.                             *)
Measure(p) ==
    /\ pc[p] = "measure"
    /\ Commits \/ UNCHANGED current
    /\ IF Cmd(p).kind = "teach" THEN To(p, "infer") /\ UNCHANGED loc ELSE Ends(p)
    /\ UNCHANGED <<tables, clock, left, ghosts, answer>>

--------------------------------------------------------------------------------
(* teach: one transaction a resource, then patterns, then the playbook.       *)

Key(p) == <<NormalizeQuery(Cmd(p).query), Head(loc[p].todo)>>

TeachRead(p) ==
    /\ pc[p] = "read"
    /\ IF NormalizeQuery(Cmd(p).query) = {} THEN Ends(p) /\ UNCHANGED current
       ELSE /\ Keep(p, [loc[p] EXCEPT !.found = Key(p) \in DOMAIN learnings])
            /\ current' = current \cup {p}
            /\ To(p, "write")
    /\ UNCHANGED <<tables, clock, left, ghosts, answer>>

(* SQLite lets a transaction write only while nobody has committed since its  *)
(* snapshot.                                                                  *)
(* Mutant: read and write are statements without a transaction around them.   *)
UpToDateOrNot(p) == TRUE

UpToDate(p) == p \in current

(* A re-teach bumps the confidence and leaves the entities of the first one.  *)
Upserted(p) ==
    Put(learnings, Key(p),
        IF loc[p].found THEN [learnings[Key(p)] EXCEPT !.conf = @ + 1, !.at = clock + 1]
        ELSE [ents |-> loc[p].norm.ents, conf |-> 2, at |-> clock + 1])

TeachWrite(p) ==
    /\ pc[p] = "write" /\ UpToDate(p)
    /\ learnings' = Upserted(p)
    /\ clock' = clock + 1
    /\ taught' = Put(taught, Key(p), IF Key(p) \in DOMAIN taught THEN taught[Key(p)] + 1 ELSE 1)
    /\ origin' = IF Key(p) \in DOMAIN origin THEN origin ELSE Put(origin, Key(p), loc[p].norm)
    /\ Commits
    /\ Keep(p, [loc[p] EXCEPT !.todo = Tail(@)])
    /\ To(p, IF Len(loc[p].todo) > 1 THEN "read" ELSE "measure")
    /\ UNCHANGED <<lookups, patterns, playbooks, misses, rows, index, left, warned, stored, answer>>

(* An old snapshot, or the lock for longer than the busy timeout: exit 1.     *)
TeachFails(p) ==
    /\ pc[p] = "write"
    /\ current' = current \ {p}
    /\ Ends(p)
    /\ UNCHANGED <<tables, clock, left, ghosts, answer>>

TeachInfer(p) ==
    /\ pc[p] = "infer"
    /\ Keep(p, [loc[p] EXCEPT !.inferred = Inferred(learnings)])
    /\ To(p, "generalize")
    /\ UNCHANGED <<tables, clock, current, left, ghosts, answer>>

(* Mutant: a pattern is inserted without a confidence.                        *)
GeneralizedUnsure(new) == [x \in DOMAIN patterns \cup new |->
                              IF x \notin DOMAIN patterns THEN 0
                              ELSE IF x \in new THEN patterns[x] + 1 ELSE patterns[x]]

(* patterns.Upsert of each: insert at confidence 2, or bump.                  *)
Generalized(new) == [x \in DOMAIN patterns \cup new |->
                        IF x \notin DOMAIN patterns THEN 2
                        ELSE IF x \in new THEN patterns[x] + 1 ELSE patterns[x]]

TeachGeneralize(p) ==
    /\ pc[p] = "generalize"
    /\ \E done \in SUBSET loc[p].inferred :
         /\ patterns' = Generalized(done)
         /\ IF done = {} THEN UNCHANGED current ELSE Commits
    /\ IF Cmd(p).playbook /\ QueryFamily(loc[p].norm) # {}
       THEN To(p, "playbook") /\ UNCHANGED loc ELSE Ends(p)
    /\ UNCHANGED <<lookups, learnings, playbooks, misses, rows, index, clock, left, ghosts, answer>>

PlaybookWrite(p) ==
    /\ pc[p] = "playbook"
    /\ \/ playbooks' = playbooks \cup {QueryFamily(loc[p].norm)} /\ Commits
       \/ UNCHANGED <<playbooks, current>>
    /\ Ends(p)
    /\ UNCHANGED <<lookups, learnings, patterns, misses, rows, index, clock, left, ghosts, answer>>

--------------------------------------------------------------------------------
(* teach-playbook replaces what it names of the family's playbook, playbook   *)
(* amend appends a note; either makes the row if there is none.               *)

WritesFamily(p, kind) ==
    /\ pc[p] = "family" /\ Cmd(p).kind = kind
    /\ \/ /\ playbooks' = playbooks \cup {QueryFamily(loc[p].norm)}
          /\ Commits /\ To(p, "measure") /\ UNCHANGED loc
       \/ UNCHANGED <<playbooks, current>> /\ Ends(p)
    /\ UNCHANGED <<lookups, learnings, patterns, misses, rows, index, clock, left, ghosts, answer>>

TeachPlaybook(p) == WritesFamily(p, "teach-playbook")
AmendPlaybook(p) == WritesFamily(p, "amend")

--------------------------------------------------------------------------------
(* One statement each.                                                        *)

TeachLookup(p) ==
    /\ pc[p] = "teach-lookup"
    /\ lookups' = lookups \cup {Cmd(p).row}
    /\ Commits /\ Ends(p)
    /\ UNCHANGED <<learnings, patterns, playbooks, misses, rows, index, clock, left, ghosts, answer>>

TeachPattern(p) ==
    /\ pc[p] = "teach-pattern"
    /\ patterns' = Generalized({Cmd(p).pattern})
    /\ Commits /\ Ends(p)
    /\ UNCHANGED <<lookups, learnings, playbooks, misses, rows, index, clock, left, ghosts, answer>>

(* learnings forget: --resource names some, --all is every one.               *)
Forget(p) ==
    LET gone == {k \in DOMAIN learnings : /\ k[1] = NormalizeQuery(Cmd(p).query)
                                          /\ k[2] \in Cmd(p).resources}
    IN  /\ pc[p] = "forget"
        /\ learnings' = Without(learnings, gone)
        /\ taught' = Without(taught, gone) /\ origin' = Without(origin, gone)
        /\ IF gone = {} THEN Ends(p) /\ UNCHANGED current
           ELSE To(p, "measure") /\ UNCHANGED loc /\ Commits
        /\ UNCHANGED <<lookups, patterns, playbooks, misses, rows, index, clock, left, warned,
                       stored, answer>>

--------------------------------------------------------------------------------
(* theater: resolveRead and the write-through cache.                          *)

(* Only auto caches a reply, and only auto falls back, when there is no       *)
(* answer at all; a status of 4xx or 5xx is the error it is.                  *)
Ask(p) ==
    /\ pc[p] = "ask"
    /\ \/ \E reply \in Replies[Cmd(p).slug] :
            IF Cmd(p).source = "auto"
            THEN To(p, "store") /\ Keep(p, [loc[p] EXCEPT !.reply = reply])
            ELSE Ends(p)
       \/ Ends(p)
       \/ Cmd(p).source = "auto" /\ To(p, "local") /\ UNCHANGED loc
    /\ UNCHANGED <<tables, clock, current, left, ghosts, answer>>

(* Mutant: the index row is inserted or ignored, and never deleted.           *)
UpsertRowIgnored(db, item, fault) ==
    LET id == ResourceId(item)
    IN  [rows |-> Put(db.rows, id, item),
         index |-> IF id \in DOMAIN db.index \/ fault # "none" THEN db.index
                   ELSE Put(db.index, id, item),
         warned |-> IF fault = "none" THEN db.warned \ {id} ELSE db.warned \cup {id}]

(* upsertGenericResourceTx: a row, its index row deleted, its index row       *)
(* inserted.  The latter two may fail with a warning; an insert over an index *)
(* row that could not be deleted fails too.                                   *)
UpsertRow(db, item, fault) ==
    LET id      == ResourceId(item)
        deleted == IF fault \in {"delete", "both"} THEN db.index ELSE Without(db.index, {id})
        inserts == fault \notin {"insert", "both"} /\ id \notin DOMAIN deleted
    IN  [rows |-> Put(db.rows, id, item),
         index |-> IF inserts THEN Put(deleted, id, item) ELSE deleted,
         warned |-> IF fault = "none" THEN db.warned \ {id} ELSE db.warned \cup {id}]

(* UpsertBatch: one transaction, whose first failing row rolls all back.      *)
UpsertBatch(db, items, faults) ==
    LET after[k \in 0 .. Len(items)] ==
            IF k = 0 THEN db ELSE UpsertRow(after[k - 1], items[k], faults[k])
    IN  after[Len(items)]

Store(p) ==
    /\ pc[p] = "store"
    /\ LET items == Rows(Items(loc[p].reply)) IN
       \/ \E faults \in [DOMAIN items -> Faults \cup {"none"}] :
            LET db == UpsertBatch([rows |-> rows, index |-> index, warned |-> warned], items, faults)
            IN  /\ rows' = db.rows /\ index' = db.index /\ warned' = db.warned
                /\ stored' = IF items = <<>> THEN stored ELSE stored \cup {Cmd(p).slug}
                /\ IF items = <<>> THEN UNCHANGED current ELSE Commits
       \/ UNCHANGED <<rows, index, warned, stored, current>>
    /\ Ends(p)
    /\ UNCHANGED <<lookups, learnings, patterns, playbooks, misses, clock, left, taught, origin,
                   answer>>

(* resolveLocal: the row whose id is the last segment of the path, the slug.  *)
Local(p) ==
    /\ pc[p] = "local"
    /\ answer' = [answer EXCEPT ![p] =
          [kind |-> "offline", found |-> Cmd(p).slug \in DOMAIN rows,
           stored |-> Cmd(p).slug \in stored]]
    /\ Ends(p)
    /\ UNCHANGED <<tables, clock, current, left, ghosts>>

--------------------------------------------------------------------------------

(* A process may die anywhere; its open transaction is rolled back.           *)
Crash(p) ==
    /\ pc[p] # "idle"
    /\ current' = current \ {p}
    /\ Ends(p)
    /\ answer' = [answer EXCEPT ![p] = Nothing]
    /\ UNCHANGED <<tables, clock, left, ghosts>>

Step(p) ==
    \/ Begin(p) \/ Promote(p) \/ RecordMisses(p) \/ Match(p) \/ Measure(p)
    \/ TeachRead(p) \/ TeachWrite(p) \/ TeachFails(p)
    \/ TeachInfer(p) \/ TeachGeneralize(p) \/ PlaybookWrite(p)
    \/ TeachPlaybook(p) \/ AmendPlaybook(p)
    \/ TeachLookup(p) \/ TeachPattern(p) \/ Forget(p)
    \/ Ask(p) \/ Store(p) \/ Local(p) \/ Crash(p)

Next == \E p \in Procs : Step(p)

Spec == Init /\ [][Next]_vars

--------------------------------------------------------------------------------
(* Properties.                                                                *)

(* Concurrent teaches of one pair, and a forget between the two statements of *)
(* a teach, lose or revive nothing: a row exists exactly when it was taught   *)
(* after the last forget, with one confidence more than the teaches that      *)
(* were acknowledged.  Two processes share no mutex, only SQLite's snapshots. *)
NoTeachingLost ==
    /\ DOMAIN learnings = DOMAIN taught
    /\ \A k \in DOMAIN learnings : learnings[k].conf = taught[k] + 1

Recalled(a) == {<<h.from, h.resource>> : h \in a.results}

(* A query read as it was when its row was written is answered by that row,   *)
(* or by as many others as a recall returns; with a name in it, and its       *)
(* resource not in the cache, the verdict is exact.  Lookups taught to the    *)
(* row's disadvantage while the recall runs do not matter.                    *)
UndisturbedIsRecalled ==
    \A p \in Procs : LET a == answer[p] IN a.kind = "recall" =>
        /\ a.due \subseteq Recalled(a) \/ Cardinality(a.results) >= Limit
        /\ \A h \in a.results :
              (/\ <<h.from, h.resource>> \in a.due
               /\ a.norm.ents # {} /\ h.resource \notin a.cached) => h.verdict = "exact"

(* An agent skips discovery on an exact verdict: the row then is about a name *)
(* of the query, or about one with the same canonical in entity_lookups.      *)
ExactNamesTheSame ==
    \A p \in Procs : LET a == answer[p] IN a.kind = "recall" =>
        \A h \in a.results : h.verdict = "exact" /\ ~h.pattern =>
            \E x \in a.norm.ents, y \in h.ents :
                Related(x, y) \/ Resolve(a.known, x) \cap Resolve(a.known, y) # {}

(* The full-text index agrees with the table on every row whose last upsert   *)
(* printed no warning, whatever failed for the row before, and holds no other.*)
IndexFollowsTable ==
    /\ DOMAIN index \subseteq DOMAIN rows
    /\ \A id \in DOMAIN rows \ warned : id \in DOMAIN index /\ index[id] = rows[id]

(* What registering one synonym map on both normalizers is for: a query finds *)
(* the rows a teach of the same query wrote, or as many others as it returns. *)
TaughtIsRecalled ==
    \A p \in Procs : LET a == answer[p] IN a.kind = "recall" =>
        a.written \subseteq Recalled(a) \/ Cardinality(a.results) >= Limit

(* "covers everything the user has looked up": a theater read and cached      *)
(* while online is found offline.                                             *)
OfflineFindsWhatWasRead ==
    \A p \in Procs : answer[p].kind = "offline" => (answer[p].stored => answer[p].found)

(* A learning that names another theater is no answer.                        *)
OtherTheaterIsNoAnswer ==
    \A p \in Procs : LET a == answer[p] IN a.kind = "recall" =>
        \A h \in a.results : (a.norm.ents # {} /\ h.ents # {}) => h.verdict = "exact"
=================================================================================
