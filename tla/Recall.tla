--------------------------------- MODULE Recall ---------------------------------
(* The pure part of the learn loop: how a query is read (learn.Normalize and  *)
(* PromoteEntities) and how it is written (store.NormalizeQuery), which of    *)
(* the learnings a recall returns and with what verdict, what patterns are    *)
(* inferred from them and what a pattern adds.  A query is a set of words;    *)
(* scores are fractions <<numerator, denominator>>.                           *)
EXTENDS Naturals, FiniteSets, Sequences, SequencesExt

CONSTANTS
    Words,       \* lowercased words and tokens
    ReadFold,    \* ReadFold[w]: the word the read side folds a phrasing to
    Tokens,      \* Tokens[w]: the tokens the write side folds and splits w into
    ReadStop,    \* stopwords of the entity extractor
    WriteStop,   \* queryStopwords
    Within,      \* pairs <<a, b>>: word a is part of the longer word b
    Kinds,       \* sequence: candidateKinds, all of them computed
    Computed,    \* Computed[k][w]: the value of kind k for the word w
    Limit        \* hits a recall returns at most

ASSUME RecallAssumption ==
    /\ IsFiniteSet(Words)
    /\ ReadFold \in [Words -> Words] /\ Tokens \in [Words -> SUBSET Words]
    /\ ReadStop \subseteq Words /\ WriteStop \subseteq Words
    /\ Within \subseteq Words \X Words
    /\ Limit \in Nat \ {0}
    /\ Kinds \in Seq(DOMAIN Computed)
    /\ \A k \in DOMAIN Kinds : Words \subseteq DOMAIN Computed[Kinds[k]]

(* A query: its words with a capital letter and the others.                   *)
Queries == [caps : SUBSET Words, plain : SUBSET Words]

(* What Normalize makes of it; the query family is the rest alone.            *)
Normals == [ents : SUBSET Words, rest : SUBSET Words]

(* Rows of entity_lookups; of learnings, keyed <<pattern, resource>>.         *)
LookupRows == [canonical : Words, value : Words]
Learnings  == [ents : SUBSET Words, conf : Nat \ {0}, at : Nat]

(* A resource id in three pieces, the middle one a value some kind computes.  *)
IsResource(r) == DOMAIN r = {"stem", "value", "tail"}

--------------------------------------------------------------------------------
(* Reading and writing a query.                                               *)

(* A folded phrasing comes back in lower case: its capitals no longer count.  *)
FoldSynonyms(q) ==
    LET kept == {w \in q.caps : ReadFold[w] = w}
    IN  [caps |-> kept, plain |-> {ReadFold[w] : w \in q.plain \cup (q.caps \ kept)}]

(* A capital letter makes a name.                                             *)
Extract(q) == [ents |-> q.caps, rest |-> q.plain \ ReadStop]

Normalize(q) == Extract(FoldSynonyms(q))

(* CanonicalResolver.Resolve: an alias, or the canonical itself.  Below, res  *)
(* is what a call has learned so: res[w] for every word it asks for.          *)
Resolve(lookups, w) == {l.canonical : l \in {x \in lookups : w \in {x.value, x.canonical}}}

PromoteEntities(n, res) ==
    LET known == {w \in n.rest : res[w] # {}}
    IN  [ents |-> n.ents \cup known, rest |-> n.rest \ known]

QueryFamily(n) == n.rest

(* The key a learning is stored under.                                        *)
FoldQueryTokens(q) == UNION {Tokens[w] : w \in q.caps \cup q.plain}
NormalizeQuery(q)  == FoldQueryTokens(q) \ WriteStop

--------------------------------------------------------------------------------
(* Scores.                                                                    *)

Zero == <<0, 1>>
JaccardMin    == <<6, 10>>
CrossAliasMin == <<3, 10>>

Geq(s, t) == s[1] * t[2] >= t[1] * s[2]

Jaccard(a, b) ==
    IF a = {} \/ b = {} THEN Zero ELSE <<Cardinality(a \cap b), Cardinality(a \cup b)>>

Better(s, t) == IF Geq(s, t) THEN s ELSE t

ResolveSet(ents, res) == UNION {res[w] : w \in ents}

(* The stored side of a comparison: the entities kept with the row, or those  *)
(* its pattern resolves to when it has none, and the tokens left.             *)
StoredEntities(pattern, row, res) ==
    IF row.ents # {} THEN row.ents
    ELSE {w \in pattern \ ReadStop : res[w] # {}}

(* Mutant: the names of the stored query count as its words too.              *)
StoredRestWithNames(pattern, ents) == pattern \ ReadStop

StoredRest(pattern, ents) == (pattern \ ents) \ ReadStop

(* Zero drops the row.  Below the floor, names may stand in for the tokens;   *)
(* and other names for the same canonical, or for another one (which then     *)
(* shows as a mismatch), pass a lower floor.                                  *)
Score(n, pattern, row, res) ==
    LET ents   == StoredEntities(pattern, row, res)
        rest   == StoredRest(pattern, ents)
        named  == n.ents # {} /\ ents # {}
        shape  == IF n.rest = {} /\ rest = {} /\ named
                  THEN Jaccard(n.ents, ents) ELSE Jaccard(n.rest, rest)
        alias  == Better(Jaccard(ResolveSet(n.ents, res), ResolveSet(ents, res)), shape)
    IN  IF Geq(shape, JaccardMin) THEN shape
        ELSE IF named /\ n.ents \cap ents = {} /\ Geq(alias, CrossAliasMin)
             THEN alias ELSE Zero

CanonicalOverlap(n, ents, res) == ResolveSet(n.ents, res) \cap ResolveSet(ents, res) # {}

Related(a, b) == a = b \/ <<a, b>> \in Within \/ <<b, a>> \in Within

ClassifyEntityMatch(a, b) ==
    IF a = {} \/ b = {} THEN "partial"
    ELSE IF \E x \in a, y \in b : Related(x, y) THEN "exact" ELSE "mismatch"

(* Mutant: whatever passed the floor under another name counts as an alias.   *)
VerdictByScore(n, ents, cached, res) ==
    LET plain == IF cached THEN "partial"
                 ELSE IF n.ents = {} /\ ents = {} THEN "unknown"
                 ELSE ClassifyEntityMatch(n.ents, ents)
    IN  IF plain = "mismatch" THEN "exact" ELSE plain

(* validateResource: a cached resource yields no entities of its own, since   *)
(* the command names no fields to read them from.                             *)
Verdict(n, ents, cached, res) ==
    LET plain == IF cached THEN ClassifyEntityMatch(n.ents, {})
                 ELSE IF n.ents = {} /\ ents = {} THEN "unknown"
                 ELSE ClassifyEntityMatch(n.ents, ents)
    IN  IF plain = "mismatch" /\ CanonicalOverlap(n, ents, res) THEN "exact" ELSE plain

--------------------------------------------------------------------------------
(* Patterns.                                                                  *)

(* queryStructural: the pattern without the names stored with it.             *)
Structural(key, row) == key[1] \ row.ents

TheEntity(row) == CHOOSE w \in row.ents : TRUE

(* tryExactBinding and tryPrefixBinding: all members follow one template.     *)
Binds(kind, keys, learnings) ==
    \A k \in keys : /\ k[2].value = Computed[kind][TheEntity(learnings[k])]
                    /\ \A j \in keys : j[2].stem = k[2].stem

Bound(kind, keys, learnings) ==
    LET stem == (CHOOSE k \in keys : TRUE)[2].stem
        tails == {k[2].tail : k \in keys}
        Template(strategy, tail) == [strategy |-> strategy, kind |-> kind,
                                     stem |-> stem, tail |-> tail]
    IN  IF ~Binds(kind, keys, learnings) THEN {}
        ELSE IF Cardinality(tails) = 1 THEN {Template("substitute", CHOOSE t \in tails : TRUE)}
        ELSE IF LongestCommonPrefix(tails) # <<>>
             THEN {Template("search-prefix", LongestCommonPrefix(tails))}
        ELSE {}

(* Extract: groups of two or more learnings of one shape and one name each;   *)
(* the first kind that binds makes the pattern.                               *)
Inferred(learnings) ==
    LET named  == {k \in DOMAIN learnings : learnings[k].ents # {}}
        shapes == {Structural(k, learnings[k]) : k \in named} \ {{}}
        Group(s) == {k \in named : Structural(k, learnings[k]) = s}
        Ok(s) == /\ Cardinality(Group(s)) >= 2
                 /\ \A k \in Group(s) : Cardinality(learnings[k].ents) = 1
        First(s) == {i \in DOMAIN Kinds :
                       /\ Bound(Kinds[i], Group(s), learnings) # {}
                       /\ \A j \in 1 .. i - 1 : Bound(Kinds[j], Group(s), learnings) = {}}
    IN  UNION {{[shape |-> s, template |-> t] : t \in UNION {Bound(Kinds[i], Group(s), learnings)
                                                             : i \in First(s)}}
               : s \in {x \in shapes : Ok(x)}}

(* substituteCandidate and verifyCandidate: only cached resources are hits.   *)
Fits(r, template, w) ==
    /\ r.stem = template.stem /\ r.value = Computed[template.kind][w]
    /\ IF template.strategy = "substitute" THEN r.tail = template.tail
       ELSE IsPrefix(template.tail, r.tail)

PatternHits(n, patterns, cached) ==
    UNION {LET fits == {r \in cached : \E w \in n.ents : Fits(r, p.template, w)}
           IN  IF ~Geq(Jaccard(n.rest, p.shape), JaccardMin) \/ fits = {} THEN {}
               ELSE {[resource |-> CHOOSE r \in fits : TRUE, from |-> {}, verdict |-> "exact",
                      pattern |-> TRUE, ents |-> {}, conf |-> patterns[p], at |-> 0,
                      score |-> Jaccard(n.rest, p.shape)]}
           : p \in DOMAIN patterns}

--------------------------------------------------------------------------------
(* The answer.                                                                *)

DirectHit(n, key, row, cached, res) ==
    [resource |-> key[2], from |-> key[1], pattern |-> FALSE, conf |-> row.conf, at |-> row.at,
     ents |-> StoredEntities(key[1], row, res),
     score |-> Score(n, key[1], row, res),
     verdict |-> Verdict(n, StoredEntities(key[1], row, res), key[2] \in cached, res)]

Priority(h) == CASE h.verdict = "exact" -> 0 [] h.verdict = "partial" -> 1
                 [] h.verdict = "unknown" -> 2 [] OTHER -> 3

(* sortHits: verdict, taught before pattern, confidence, score, recency.      *)
Before(a, b) ==
    \/ Priority(a) < Priority(b)
    \/ /\ Priority(a) = Priority(b)
       /\ \/ ~a.pattern /\ b.pattern
          \/ /\ a.pattern = b.pattern
             /\ \/ a.conf > b.conf
                \/ /\ a.conf = b.conf
                   /\ \/ Geq(a.score, b.score) /\ ~Geq(b.score, a.score)
                      \/ /\ Geq(a.score, b.score) /\ Geq(b.score, a.score)
                         /\ a.at > b.at

Top(hits) == {h \in hits : Cardinality({g \in hits : Before(g, h)}) < Limit}

(* All that a recall finds, and what of it it returns.                        *)
Matches(n, learnings, cached, res) ==
    {h \in {DirectHit(n, k, learnings[k], cached, res) : k \in DOMAIN learnings} : h.score # Zero}

Results(n, learnings, patterns, cached, res) ==
    LET direct == {h \in Matches(n, learnings, cached, res) : h.verdict # "mismatch"}
        extra  == {h \in PatternHits(n, patterns, cached) :
                      \A d \in direct : d.resource # h.resource}
    IN  Top(direct \cup extra)

Mismatches(n, learnings, cached, res) ==
    Top({h \in Matches(n, learnings, cached, res) : h.verdict = "mismatch"})

(* A query with no word left is a cold exit.                                  *)
Cold(n) == n.ents = {} /\ n.rest = {}
=================================================================================
