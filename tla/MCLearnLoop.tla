------------------------------ MODULE MCLearnLoop ------------------------------
(* Instances of LearnLoop for TLC.  rockwell and powerplant are phrasings of  *)
(* one theater, power-plant-mall, the first one seeded; trinoma folds to      *)
(* trinoma-mall in both normalizers, and only the write side splits that.     *)
EXTENDS LearnLoop, LearnEvents, Projection, TLC

MCWords == {"show", "odds", "rockwell", "powerplant", "power-plant-mall", "gateway",
            "trinoma", "trinoma-mall", "mall"}
MCReadFold == [w \in MCWords |-> IF w = "trinoma" THEN "trinoma-mall" ELSE w]
MCTokens == [w \in MCWords |->
    CASE w \in {"trinoma", "trinoma-mall"} -> {"trinoma", "mall"}
      [] w = "power-plant-mall" -> {"powerplant", "mall"}
      [] OTHER -> {w}]
MCWithin == {<<"trinoma", "trinoma-mall">>, <<"mall", "trinoma-mall">>,
             <<"mall", "power-plant-mall">>}
MCKinds == <<"lowercase", "capitalize-first">>
MCComputed == [k \in {"lowercase", "capitalize-first"} |->
    IF k = "lowercase" THEN [w \in MCWords |-> w]
    ELSE [w \in MCWords |-> CASE w = "rockwell" -> "Rockwell" [] w = "gateway" -> "Gateway"
                               [] w = "powerplant" -> "Powerplant" [] OTHER -> ""]]

MCSeeds == {[canonical |-> "power-plant-mall", value |-> "rockwell"],
            [canonical |-> "trinoma-mall", value |-> "trinoma"]}

(* Resources are theater names, the ids the theater command stores them under.*)
Theater(name) == [stem |-> "", value |-> name, tail |-> <<>>]
MCResources == {Theater("Rockwell"), Theater("Gateway"), Theater("Powerplant")}
MCId == [r \in MCResources |-> r.value]

MCWrapperKeys  == <<"data", "results">>
MCNestedKeys   == <<"data", "result">>
MCMetadataKeys == {"data", "results", "status", "count"}
MCIdKeys       == <<"id", "name", "slug">>

Detail(name, slug, film) ==
    Obj([status |-> Text("true"),
         theater |-> Obj([name |-> Text(name), slug |-> Text(slug), film |-> Text(film)]),
         now_showing |-> Arr(<<Obj([title |-> Text(film)])>>),
         schedules |-> Arr(<<>>)])
NoSuch == Obj([status |-> Text("false")])
MCReplies == [rockwell |-> {Detail("Rockwell", "rockwell", "a"),
                            Detail("Rockwell", "rockwell", "b"), NoSuch}]

Ask1(caps, plain) == [caps |-> caps, plain |-> plain]
Teach(q, r, b) == [kind |-> "teach", query |-> q, resources |-> <<Theater(r)>>, playbook |-> b]
Recall1(q)     == [kind |-> "recall", query |-> q]

Rockwell   == Ask1({"rockwell"}, {"show"})
Powerplant == Ask1({}, {"show", "powerplant"})
Gateway    == Ask1({"gateway"}, {"show"})
Trinoma    == Ask1({}, {"show", "trinoma"})
Odds       == Ask1({}, {"odds"})

MCCommands ==
    {Teach(Rockwell, "Rockwell", TRUE), Teach(Gateway, "Gateway", FALSE),
     Teach(Odds, "Gateway", FALSE),
     Recall1(Rockwell), Recall1(Powerplant), Recall1(Gateway),
     [kind |-> "teach-lookup", row |-> [canonical |-> "power-plant-mall", value |-> "powerplant"]],
     [kind |-> "teach-playbook", query |-> Gateway], [kind |-> "amend", query |-> Gateway],
     [kind |-> "teach-pattern",
      pattern |-> [shape |-> {"show"},
                   template |-> [strategy |-> "substitute", kind |-> "capitalize-first",
                                 stem |-> "", tail |-> <<>>]]],
     [kind |-> "forget", query |-> Rockwell, resources |-> {Theater("Rockwell")}],
     [kind |-> "theater", slug |-> "rockwell", source |-> "auto"],
     [kind |-> "theater", slug |-> "rockwell", source |-> "local"]}

MCOnlyTrinoma == {Teach(Trinoma, "Rockwell", FALSE), Recall1(Trinoma)}

(* One word twice, as a name and in lower case.                               *)
GatewayTwice == Ask1({"gateway"}, {"gateway"})
MCOnlyTwice  == {Teach(GatewayTwice, "Gateway", FALSE), Recall1(GatewayTwice)}

(* The rows of each shape the code tells apart: a detail envelope, pages of   *)
(* three layouts, an empty page, items without an id.                         *)
Film(name) == Obj([name |-> Text(name)])
NoName     == Obj([title |-> Text("c")])
ASSUME RowsOfTheShapes ==
    LET Stored(v) == Rows(Items(v))
        two == <<Film("a"), NoName, Film("b")>>
        named == <<Film("a"), Film("b")>>
    IN  /\ Stored(Detail("Rockwell", "rockwell", "a"))
              = <<Detail("Rockwell", "rockwell", "a").fields.theater>>
        /\ Stored(Arr(two)) = named
        /\ Stored(Obj([results |-> Arr(two), count |-> Text("3")])) = named
        /\ Stored(Obj([data |-> Obj([films |-> Arr(two), status |-> Text("1")])])) = named
        /\ Stored(Obj([films |-> Arr(two), tags |-> Arr(<<Text("x")>>)])) = named
        /\ Stored(Obj([films |-> Arr(two), name |-> Text("list")]))
              = <<Obj([films |-> Arr(two), name |-> Text("list")])>>
        /\ Stored(Obj([results |-> Arr(<<>>), status |-> Text("1")])) = <<>>
        /\ Stored(Obj([data |-> Obj([results |-> Arr(<<>>), count |-> Text("0")])])) = <<>>
        /\ Stored(NoName) = <<>> /\ Stored(Text("a")) = <<>> /\ Stored(Arr(<<>>)) = <<>>

(* The template of each way two learnings can relate: the same tail, a shared *)
(* beginning of tails, values of the second kind, no template.                *)
ASSUME TemplatesInferred ==
    LET Taught(w, v, t) == <<{"show", w}, [stem |-> "f", value |-> v, tail |-> t]>>
        Of(a, b) == {x.template : x \in Inferred([k \in {a, b} |->
                        [ents |-> k[1] \ {"show"}, conf |-> 2, at |-> 1]])}
    IN  /\ Of(Taught("rockwell", "rockwell", <<"x">>), Taught("gateway", "gateway", <<"x">>))
              = {[strategy |-> "substitute", kind |-> "lowercase", stem |-> "f", tail |-> <<"x">>]}
        /\ Of(Taught("rockwell", "Rockwell", <<>>), Taught("gateway", "Gateway", <<>>))
              = {[strategy |-> "substitute", kind |-> "capitalize-first", stem |-> "f", tail |-> <<>>]}
        /\ Of(Taught("rockwell", "rockwell", <<"x", "y">>), Taught("gateway", "gateway", <<"x">>))
              = {[strategy |-> "search-prefix", kind |-> "lowercase", stem |-> "f", tail |-> <<"x">>]}
        /\ Of(Taught("rockwell", "rockwell", <<"y">>), Taught("gateway", "gateway", <<"x">>)) = {}
        /\ Of(Taught("rockwell", "Rockwell", <<>>), Taught("gateway", "gateway", <<>>)) = {}

(* What the statistics say of every log of up to three rows.  A taught        *)
(* learning is reused when, read in (ts, id) order, a hit on it follows.      *)
MCLogged == {e \in [event : {"recall_hit", "recall_playbook_hit", "teach", "amend"},
                     fam : Hashes \cup {NoHash}, row : RowIds, ts : 0 .. 1] :
    e.row # 0 => e.event \in {"recall_hit", "teach"}}
MCLogs == UNION {[1 .. n -> MCLogged] : n \in 0 .. 3}

InTime(log) == SortSeq([i \in DOMAIN log |-> i], LAMBDA i, j : Later(log, j, i))
Heard(log, seen, i) ==
    LET e == log[i] IN
    CASE e.event = "teach" -> [seen EXCEPT !.taught = @ \cup {<<e.row, e.fam>>}]
      [] e.event = "recall_hit" ->
           [seen EXCEPT !.reused = @ \cup {IF x[1] = 0 THEN <<0, x[2]>> ELSE <<x[1], NoHash>> :
               x \in {y \in seen.taught : IF y[1] # 0 THEN y[1] = e.row
                                         ELSE y[2] = e.fam /\ e.fam # NoHash}}]
      [] OTHER -> seen
ASSUME ReuseIsHitAfterTeach ==
    \A log \in MCLogs : LearnEventStats(log).reused =
        Cardinality(FoldLeft(LAMBDA seen, i : Heard(log, seen, i),
                             [taught |-> {}, reused |-> {}], InTime(log)).reused)

ASSUME RatesAreShares ==
    \A log \in MCLogs : LET r == Rates(LearnEventStats(log)) IN
        IsShare(r.hitRate) /\ IsShare(r.reuse) /\ IsShare(r.resolution)

(* Pruning keeps the newest rows in their order, and pruned again is no less. *)
ASSUME PruningKeepsTheNewest ==
    \A log \in MCLogs, n \in 1 .. 2, cutoff \in 0 .. 1 :
        LET kept == PruneLearnEvents(log, n, cutoff)
            young == Cardinality({i \in DOMAIN log : log[i].ts >= cutoff})
            newest == SubSeq(InTime(log), Len(log) + 1 - Len(kept), Len(log))
        IN  /\ Len(kept) = (IF young < n THEN young ELSE n)
            /\ \A e \in ToSet(kept) : e \in {log[i] : i \in ToSet(newest)}
            /\ PruneLearnEvents(kept, n, cutoff) = kept

(* A forget leaves of its family the forget alone, and of the others all.     *)
ASSUME ForgottenLeavesNoTrace ==
    \A log \in MCLogs, h \in Hashes : LET trail == Forgotten(log, h, 1, FALSE) IN
        /\ Cardinality({i \in DOMAIN trail : trail[i].fam = h}) = 1 /\ Last(trail).event = "forget"
        /\ Len(trail) = 1 + Cardinality({i \in DOMAIN log : log[i].fam # h})

(* A recall answered by a learning reuses it; one answered by a pattern, or   *)
(* under a harness, counts for no learning; a miss is no hit.                 *)
ASSUME RecallsCount ==
    LET Taught(h) == <<[event |-> "teach", fam |-> h, row |-> 1, ts |-> 0]>>
        Asked(h, found, row, harness) == LearnEventStats(RecallEvents(Taught(h),
            [fam |-> h, found |-> found, row |-> row, playbook |-> TRUE], 0, harness))
    IN  \A h \in Hashes :
            /\ Asked(h, TRUE, 1, FALSE).reused = 1 /\ Asked(h, TRUE, 0, FALSE).reused = 0
            /\ Asked(h, TRUE, 0, FALSE).hits = 1 /\ Asked(h, FALSE, 0, FALSE).misses = 1
            /\ Asked(h, FALSE, 0, FALSE).playbooks = 1
            /\ LearnEventStats(RecallEvents(Taught(h), [fam |-> h, found |-> TRUE, row |-> 1,
                   playbook |-> TRUE], 0, TRUE)) = LearnEventStats(Taught(h))

(* Projections, over values of the shapes a command prints: lists of rows, an *)
(* object, envelopes of lists and objects beside a field of their own.        *)
MCSpelled == [k \in {"name", "description", "items", "endTime"} |->
    IF k = "endTime" THEN <<"endtime", "end-time">> ELSE <<k>>]

With(keys, values) == {Obj(f) : f \in UNION {[d -> values] : d \in SUBSET keys}}
MCRows   == With({"name", "description"}, {Text("x")}) \cup {Obj([description |-> Arr(<<>>)])}
MCLists  == {Arr(s) : s \in UNION {[1 .. n -> MCRows] : n \in 0 .. 2}}
MCShort  == {Arr(<<>>), Arr(<<Obj(<<>>)>>)} \cup {Arr(<<r>>) : r \in MCRows}
MCValues == MCLists \cup With({"name", "items"}, {Text("x")} \cup MCRows \cup MCShort)
MCPaths  == LET segments == {"name", "description", "items"}
            IN  UNION {[1 .. n -> segments] : n \in 1 .. 2}
MCSelections == {{p, q} : p, q \in MCPaths}

RECURSIVE PartOf(_, _)
PartOf(u, v) ==
    \/ u = v
    \/ /\ IsArray(u) /\ IsArray(v) /\ Len(u.items) = Len(v.items)
       /\ \A i \in DOMAIN u.items : PartOf(u.items[i], v.items[i])
    \/ /\ IsObject(u) /\ IsObject(v) /\ DOMAIN u.fields \subseteq DOMAIN v.fields
       /\ \A k \in DOMAIN u.fields : PartOf(u.fields[k], v.fields[k])

ASSUME SelectionIsPart ==
    \A v \in MCValues, P \in MCSelections : PartOf(Selected(v, P), v)

(* A warning for every path leaves the value as it was, unless an empty list  *)
(* was met that might have held the fields: then other lists lose theirs.     *)
ASSUME AllMissedLeavesAll ==
    /\ \A v \in MCValues, P \in MCSelections :
           Warned(v, P) = P => \/ Selected(v, P) = v
                               \/ Filter(v, P, TRUE).looseEmpty
    /\ LET some == Obj([name |-> Arr(<<>>), items |-> Arr(<<Obj([name |-> Text("x")])>>)])
           lost == [some.fields EXCEPT !.items = Arr(<<Obj(<<>>)>>)]
       IN  /\ Selected(some, {<<"description">>}) = Obj(lost) /\ Warned(some, {<<"description">>}) = {}

(* A path that names something is not lost to another one in the selection,   *)
(* unless that other names a field of the envelope itself.                    *)
ASSUME PathsAddUp ==
    /\ \A v \in MCValues, P \in MCSelections : \A p \in P \ Warned(v, P) :
           \/ PartOf(Selected(v, {p}), Selected(v, P))
           \/ IsObject(v) /\ \E q \in P \ {p} : q[1] \in DOMAIN v.fields
    /\ LET page == Obj([name |-> Text("x"), items |-> Arr(<<Obj([description |-> Text("x")])>>)])
           both == {<<"name">>, <<"description">>}
       IN  Selected(page, both) = Obj([name |-> Text("x")]) /\ Warned(page, both) = {}

(* Field names in the two spellings; null where no list is.                   *)
ASSUME Spellings ==
    LET end == Obj([endTime |-> Text("x")]) IN
    /\ \A s \in {"endtime", "end-time"} : Selected(end, {<<s>>}) = end
    /\ Selected(Obj([name |-> Null]), {<<"name", "description">>}) = Obj([name |-> Arr(<<>>)])

(* A compact list has as many rows, none of them emptied; what every row has  *)
(* and is not verbose stays.  A compact value is a part of the value.         *)
ASSUME CompactKeepsRows ==
    /\ \A v \in MCValues : PartOf(CompactFields(v), v)
    /\ \A v \in MCLists : \A i \in DOMAIN v.items :
           LET row == CompactFields(v).items[i].fields
               all == {k \in {"name"} : \A j \in DOMAIN v.items : k \in DOMAIN v.items[j].fields}
           IN  /\ row = <<>> => v.items[i].fields = <<>>
               /\ all \subseteq DOMAIN row
    /\ LET x == Text("x")
           named == <<Obj([name |-> x, film |-> x]), Obj([name |-> x, film |-> x]),
                      Obj([name |-> x, odd |-> x]), Obj([name |-> x])>>
           Kept(n) == [i \in 1 .. n |-> DOMAIN CompactListFields(SubSeq(named, 1, n))[i].fields]
       IN  /\ Kept(3) = <<{"name", "film"}, {"name", "film"}, {"name"}>>
           /\ Kept(4) = <<{"name"}, {"name"}, {"name"}, {"name"}>>

(* A selection is not compacted, and only a live collection is flattened.     *)
ASSUME PrintedInOrder ==
    LET Flags(P, compact, agent) == [select |-> P, compact |-> compact, agent |-> agent]
        page == Obj([items |-> Arr(<<Obj([name |-> Text("x"), description |-> Text("y")])>>)])
    IN  /\ Printed(page, Flags({<<"description">>}, TRUE, FALSE), "live")
              = Obj([items |-> Arr(<<Obj([description |-> Text("y")])>>)])
        /\ Printed(page, Flags({}, TRUE, TRUE), "live").fields.results
              = Arr(<<Obj([name |-> Text("x")])>>)
        /\ Printed(page, Flags({}, TRUE, TRUE), "local").fields.results
              = Obj([items |-> Arr(<<Obj([name |-> Text("x")])>>)])

MCFaults == {"delete", "insert", "both"}
MCSymmetry == Permutations(Procs)
=================================================================================
