---------------------------- MODULE LearnLoopProofs ----------------------------
(* What holds of the learn loop for any number of processes, commands, words, *)
(* resources and lookup rows: the types, that no acknowledged teaching is     *)
(* lost or counted twice, that an exact verdict is about the same name, that  *)
(* the index follows the table, and that a query finds the rows due to it.    *)
EXTENDS LearnLoop, DataInduction, FiniteSetTheorems, SequenceTheorems, TLAPS

--------------------------------------------------------------------------------
(* Reading a query.                                                           *)

LEMMA NormalizeType == ASSUME NEW q \in Queries PROVE Normalize(q) \in Normals
<1>1. FoldSynonyms(q) \in Queries
  <2>1. \A w \in Words : ReadFold[w] \in Words BY RecallAssumption
  <2> QED BY <2>1 DEF FoldSynonyms, Queries
<1> QED BY <1>1 DEF Normalize, Extract, Queries, Normals

LEMMA PromoteType ==
  ASSUME NEW n \in Normals, NEW res PROVE PromoteEntities(n, res) \in Normals
BY DEF PromoteEntities, Normals

LEMMA KeyType == ASSUME NEW q \in Queries PROVE NormalizeQuery(q) \in SUBSET Words
<1>1. \A w \in q.caps \cup q.plain : Tokens[w] \in SUBSET Words
  BY RecallAssumption DEF Queries
<1> QED BY <1>1 DEF NormalizeQuery, FoldQueryTokens

(* A lookup row more resolves no word to less.                                *)
LEMMA ResolveGrows ==
  ASSUME NEW S, NEW T, S \subseteq T, NEW w PROVE Resolve(S, w) \subseteq Resolve(T, w)
BY DEF Resolve

(* What an exact verdict means, whatever the cache and the resolver: a name   *)
(* of the query is a name of the row, or they share what they resolve to.     *)
LEMMA ExactShares ==
  ASSUME NEW n, NEW rows0, NEW pats, NEW cached, NEW res,
         NEW h \in Results(n, rows0, pats, cached, res), h.verdict = "exact", ~h.pattern
  PROVE  \E x \in n.ents, y \in h.ents : Related(x, y) \/ res[x] \cap res[y] # {}
<1>1. PICK k \in DOMAIN rows0 : h = DirectHit(n, k, rows0[k], cached, res)
  <2>1. h \in Matches(n, rows0, cached, res) \/ h \in PatternHits(n, pats, cached)
    BY DEF Results, Top
  <2>2. h \notin PatternHits(n, pats, cached)
    BY DEF PatternHits
  <2> QED BY <2>1, <2>2 DEF Matches
<1> DEFINE ents == StoredEntities(k[1], rows0[k], res)
<1>2. h.ents = ents /\ h.verdict = Verdict(n, ents, k[2] \in cached, res)
  BY <1>1 DEF DirectHit
<1>3. \/ ClassifyEntityMatch(n.ents, ents) = "exact"
      \/ CanonicalOverlap(n, ents, res)
  BY <1>2 DEF Verdict, ClassifyEntityMatch
<1>4. CASE ClassifyEntityMatch(n.ents, ents) = "exact"
  BY <1>2, <1>4 DEF ClassifyEntityMatch
<1>5. CASE CanonicalOverlap(n, ents, res)
  BY <1>2, <1>5 DEF CanonicalOverlap, ResolveSet
<1> QED BY <1>3, <1>4, <1>5

(* The names of a hit are words.                                              *)
LEMMA NamesAreWords ==
  ASSUME NEW n, NEW rows0, NEW pats, NEW cached, NEW res,
         DOMAIN rows0 \subseteq LearningKeys, \A k \in DOMAIN rows0 : rows0[k] \in Learnings,
         NEW h \in Results(n, rows0, pats, cached, res)
  PROVE  h.ents \subseteq Words
<1>1. CASE h \in PatternHits(n, pats, cached)
  BY <1>1 DEF PatternHits
<1>2. CASE h \in Matches(n, rows0, cached, res)
  <2>1. PICK k \in DOMAIN rows0 : h = DirectHit(n, k, rows0[k], cached, res)
    BY <1>2 DEF Matches
  <2>2. h.ents = StoredEntities(k[1], rows0[k], res)
    BY <2>1 DEF DirectHit
  <2>3. k[1] \subseteq Words /\ rows0[k].ents \subseteq Words
    BY DEF LearningKeys, Learnings
  <2> QED BY <2>2, <2>3 DEF StoredEntities
<1> QED BY <1>1, <1>2 DEF Results, Top

--------------------------------------------------------------------------------
(* The inductive invariant: types, what a process holds at each of its steps, *)
(* what an open snapshot has read, and the three promises themselves.         *)

WorkOK(p) ==
    /\ DOMAIN loc[p] = DOMAIN NoWork
    /\ loc[p].norm \in Normals
    /\ loc[p].todo \in Seq(Resources)
    /\ loc[p].found \in BOOLEAN
    /\ pc[p] # "idle" => Cmd(p) \in Commands
    /\ pc[p] = "promote" => Cmd(p).kind \in AsksQuery
    /\ pc[p] \in {"read", "write"} => Cmd(p).kind = "teach" /\ loc[p].todo # <<>>
    /\ pc[p] \in {"forget", "teach-lookup"} => Cmd(p).kind = pc[p]
    /\ pc[p] \in {"misses", "match"} =>
          \A w \in DOMAIN loc[p].cache : loc[p].cache[w] \subseteq Resolve(lookups, w)

(* A process whose snapshot is current has read what the table holds.         *)
Snapshot ==
    \A p \in current : pc[p] = "write" /\ (loc[p].found <=> Key(p) \in DOMAIN learnings)

Counted == \A k \in DOMAIN taught : taught[k] \in Nat

IInv ==
    /\ TypeOK
    /\ \A p \in Procs : WorkOK(p)
    /\ Snapshot
    /\ Counted
    /\ NoTeachingLost
    /\ ExactNamesTheSame

LEMMA InitInv == Init => IInv
<1> SUFFICES ASSUME Init PROVE IInv OBVIOUS
<1>1. TypeOK
  BY LearnAssumption DEF Init, TypeOK, NoWork, Normals, Steps
<1>2. ASSUME NEW p \in Procs PROVE WorkOK(p)
  <2>1. loc[p] = NoWork /\ pc[p] = "idle"
    BY DEF Init
  <2>2. NoWork.norm \in Normals /\ NoWork.todo \in Seq(Resources) /\ NoWork.found \in BOOLEAN
    BY DEF NoWork, Normals
  <2> QED BY <2>1, <2>2 DEF WorkOK
<1>3. Snapshot /\ Counted /\ NoTeachingLost
  BY LearnAssumption DEF Init, Snapshot, Counted, NoTeachingLost
<1>4. ExactNamesTheSame
  BY DEF Init, ExactNamesTheSame, Nothing
<1> QED BY <1>1, <1>2, <1>3, <1>4 DEF IInv

(* A step of one process leaves the others what they hold.                    *)
Own(p) ==
    /\ pc' \in [Procs -> Steps]
    /\ DOMAIN loc' = Procs
    /\ \A q \in Procs \ {p} : pc'[q] = pc[q] /\ loc'[q] = loc[q]

LEMMA OthersKeep ==
  ASSUME IInv, NEW p \in Procs, Own(p), lookups \subseteq lookups', WorkOK(p)'
  PROVE  \A q \in Procs : WorkOK(q)'
<1> SUFFICES ASSUME NEW q \in Procs, q # p PROVE WorkOK(q)'
  OBVIOUS
<1>1. pc'[q] = pc[q] /\ loc'[q] = loc[q] /\ WorkOK(q)
  BY DEF Own, IInv
<1>2. \A w : Resolve(lookups, w) \subseteq Resolve(lookups', w)
  BY ResolveGrows
<1> QED BY <1>1, <1>2 DEF WorkOK, Cmd, Resolve

LEMMA AnswersKeep ==
  ASSUME IInv, \A q \in Procs : answer'[q] = answer[q] \/ answer'[q].kind # "recall"
  PROVE  ExactNamesTheSame'
<1> SUFFICES ASSUME NEW q \in Procs, answer'[q].kind = "recall",
                    NEW h \in answer'[q].results, h.verdict = "exact" /\ ~h.pattern
             PROVE  \E x \in answer'[q].norm.ents, y \in h.ents :
                       Related(x, y)
                       \/ Resolve(answer'[q].known, x) \cap Resolve(answer'[q].known, y) # {}
  BY DEF ExactNamesTheSame, Related, Resolve
<1>1. answer'[q] = answer[q]
  OBVIOUS
<1> QED BY <1>1 DEF IInv, ExactNamesTheSame

LEMMA SameAnswers == ASSUME IInv, UNCHANGED answer PROVE ExactNamesTheSame'
BY AnswersKeep

(* A step that writes no learning and opens no snapshot keeps the invariant,  *)
(* if it keeps the types, what its process holds and the verdicts.            *)
LEMMA QuietInv ==
  ASSUME IInv, NEW p \in Procs, Own(p), WorkOK(p)', TypeOK', ExactNamesTheSame',
         lookups \subseteq lookups', learnings' = learnings, taught' = taught,
         current' \subseteq current \ {p}
  PROVE  IInv'
<1>1. \A q \in Procs : WorkOK(q)'
  BY OthersKeep
<1>2. ASSUME NEW q \in current'
      PROVE  pc'[q] = "write" /\ (loc'[q].found <=> Key(q)' \in DOMAIN learnings')
  <2>1. q \in Procs /\ q # p
    BY <1>2 DEF IInv, TypeOK
  <2>2. pc'[q] = pc[q] /\ loc'[q] = loc[q]
    BY <2>1 DEF Own
  <2>3. Key(q)' = Key(q)
    BY <2>2 DEF Key, Cmd
  <2> QED BY <1>2, <2>2, <2>3 DEF IInv, Snapshot
<1>3. Snapshot'
  BY <1>2 DEF Snapshot
<1>4. Counted' /\ NoTeachingLost'
  BY DEF IInv, Counted, NoTeachingLost
<1> QED BY <1>1, <1>3, <1>4 DEF IInv

(* Only a process at "write" has a snapshot.                                  *)
LEMMA NotWriting ==
  ASSUME IInv, NEW p \in Procs, pc[p] # "write" PROVE current = current \ {p}
BY DEF IInv, Snapshot

(* The end of a command, whatever it was.                                     *)
LEMMA EndsOK ==
  ASSUME IInv, NEW p \in Procs, Ends(p) PROVE Own(p) /\ WorkOK(p)'
<1>1. pc' \in [Procs -> Steps] /\ pc'[p] = "idle"
  BY DEF Ends, To, IInv, TypeOK, Steps
<1>2. DOMAIN loc' = Procs /\ loc'[p] = NoWork
  BY DEF Ends, Keep, IInv, TypeOK
<1>3. Own(p)
  BY <1>1, <1>2 DEF Own, Ends, To, Keep, IInv, TypeOK
<1>4. NoWork.norm \in Normals /\ NoWork.todo \in Seq(Resources) /\ NoWork.found \in BOOLEAN
  BY DEF NoWork, Normals
<1> QED BY <1>1, <1>2, <1>3, <1>4 DEF WorkOK

(* A step that keeps what the process holds.                                  *)
LEMMA ToOK ==
  ASSUME IInv, NEW p \in Procs, NEW step \in Steps, To(p, step), UNCHANGED loc
  PROVE  Own(p) /\ pc'[p] = step
BY DEF To, Own, IInv, TypeOK

LEMMA KeepOK ==
  ASSUME IInv, NEW p \in Procs, NEW step \in Steps, NEW work, To(p, step), Keep(p, work)
  PROVE  Own(p) /\ pc'[p] = step /\ loc'[p] = work
BY DEF To, Keep, Own, IInv, TypeOK

--------------------------------------------------------------------------------
(* Each action keeps the invariant.                                           *)

LEMMA BeginInv == ASSUME IInv, NEW p \in Procs, Begin(p) PROVE IInv'
<1>1. PICK c \in Commands :
        /\ Keep(p, [NoWork EXCEPT !.cmd = c])
        /\ To(p, CASE c.kind \in AsksQuery -> "promote"
                   [] c.kind = "theater" -> IF c.source = "local" THEN "local" ELSE "ask"
                   [] OTHER -> c.kind)
  BY DEF Begin
<1>2. PICK step \in Steps :
        /\ To(p, step)
        /\ step \in {"promote", "local", "ask", "teach-lookup", "teach-pattern", "forget"}
        /\ step = "promote" => c.kind \in AsksQuery
        /\ step \in {"forget", "teach-lookup"} => c.kind = step
  <2>1. c.kind \in AsksQuery \cup {"teach-lookup", "teach-pattern", "forget", "theater"}
    BY LearnAssumption
  <2> QED BY <1>1, <2>1 DEF Steps, AsksQuery
<1>3. Own(p) /\ pc'[p] = step /\ loc'[p] = [NoWork EXCEPT !.cmd = c]
  BY <1>1, <1>2, KeepOK
<1>4. WorkOK(p)'
  BY <1>2, <1>3 DEF WorkOK, NoWork, Normals, Cmd
<1>5. TypeOK'
  <2>1. \A q \in Procs : loc'[q].norm \in Normals
    BY <1>3, <1>4 DEF Own, IInv, TypeOK, WorkOK
  <2>2. left' \in 0 .. MaxCommands
    BY LearnAssumption DEF Begin, IInv, TypeOK
  <2> QED BY <1>3, <2>1, <2>2 DEF Begin, tables, Own, IInv, TypeOK
<1>6. current' = current \ {p}
  BY NotWriting DEF Begin
<1>7. ExactNamesTheSame'
  BY AnswersKeep DEF Begin, Nothing, IInv, TypeOK
<1> QED BY <1>3, <1>4, <1>5, <1>6, <1>7, QuietInv DEF Begin, tables, ghosts

LEMMA PromoteInv == ASSUME IInv, NEW p \in Procs, Promote(p) PROVE IInv'
<1> DEFINE raw   == Normalize(Cmd(p).query)
           cache == [w \in raw.ents \cup raw.rest |-> Resolve(lookups, w)]
           n     == PromoteEntities(raw, cache)
           read  == [loc[p] EXCEPT !.norm = n, !.cache = cache]
<1>1. WorkOK(p) /\ pc[p] = "promote"
  BY DEF Promote, IInv
<1>2. Cmd(p) \in Commands /\ Cmd(p).kind \in AsksQuery /\ Cmd(p).query \in Queries
  BY <1>1, LearnAssumption DEF WorkOK
<1>3. n \in Normals
  BY <1>2, NormalizeType, PromoteType
<1>4. Own(p) /\ WorkOK(p)'
  <2>1. CASE Ends(p)
    BY <2>1, EndsOK
  <2>2. CASE Cmd(p).kind = "teach"
    <3> DEFINE work == [read EXCEPT !.todo = Cmd(p).resources]
    <3>1. To(p, "read") /\ Keep(p, work)
      BY <2>2 DEF Promote
    <3>2. Own(p) /\ pc'[p] = "read" /\ loc'[p] = work
      BY <3>1, KeepOK DEF Steps
    <3>3. Cmd(p).resources \in Seq(Resources) /\ Cmd(p).resources # <<>>
      BY <1>2, <2>2, LearnAssumption DEF Kinded
    <3>4. /\ DOMAIN work = DOMAIN NoWork /\ work.cmd = Cmd(p) /\ work.norm = n
          /\ work.todo = Cmd(p).resources /\ work.found = loc[p].found
      BY <1>1 DEF WorkOK, NoWork, Cmd
    <3> HIDE DEF work, n
    <3> QED BY <1>1, <1>2, <1>3, <2>2, <3>2, <3>3, <3>4 DEF WorkOK, Cmd
  <2>3. CASE \E step \in {"family", "misses", "match"} : To(p, step) /\ Keep(p, read)
    <3>1. PICK step \in {"family", "misses", "match"} : To(p, step) /\ Keep(p, read)
      BY <2>3
    <3>2. Own(p) /\ pc'[p] = step /\ loc'[p] = read
      BY <3>1, KeepOK DEF Steps
    <3>3. /\ DOMAIN read = DOMAIN NoWork /\ read.cmd = Cmd(p) /\ read.norm = n
          /\ read.todo = loc[p].todo /\ read.found = loc[p].found /\ read.cache = cache
      BY <1>1 DEF WorkOK, NoWork, Cmd
    <3>4. \A w \in DOMAIN cache : cache[w] \subseteq Resolve(lookups', w)
      BY DEF Promote, tables
    <3> HIDE DEF read, n, cache
    <3> QED BY <1>1, <1>2, <1>3, <3>1, <3>2, <3>3, <3>4 DEF WorkOK, Cmd, Resolve
  <2> QED BY <2>1, <2>2, <2>3 DEF Promote
<1>5. TypeOK'
  BY <1>4 DEF Promote, tables, Own, WorkOK, IInv, TypeOK
<1>6. current' = current \ {p}
  BY NotWriting DEF Promote
<1>7. ExactNamesTheSame'
  BY SameAnswers DEF Promote
<1> QED BY <1>4, <1>5, <1>6, <1>7, QuietInv DEF Promote, tables, ghosts

LEMMA RecordMissesInv == ASSUME IInv, NEW p \in Procs, RecordMisses(p) PROVE IInv'
<1>1. WorkOK(p) /\ pc[p] = "misses"
  BY DEF RecordMisses, IInv
<1>2. Own(p) /\ pc'[p] = "match" /\ loc'[p] = loc[p]
  BY ToOK DEF RecordMisses, Steps
<1>3. WorkOK(p)'
  BY <1>1, <1>2 DEF RecordMisses, WorkOK, Cmd, Resolve
<1>4. misses' \subseteq Words
  BY <1>1 DEF RecordMisses, Unresolved, WorkOK, Normals, IInv, TypeOK
<1>5. current' \subseteq current \ {p}
  BY NotWriting, <1>1 DEF RecordMisses, Commits
<1>6. TypeOK'
  BY <1>2, <1>4, <1>5 DEF RecordMisses, ghosts, Own, IInv, TypeOK
<1>7. ExactNamesTheSame'
  BY SameAnswers DEF RecordMisses
<1> QED BY <1>2, <1>3, <1>5, <1>6, <1>7, QuietInv DEF RecordMisses, ghosts

(* The one step that gives verdicts: the resolver of the call has seen no     *)
(* more than the lookups hold by now, and every name is a word.               *)
LEMMA MatchInv == ASSUME IInv, NEW p \in Procs, Match(p) PROVE IInv'
<1>1. WorkOK(p) /\ pc[p] = "match"
  BY DEF Match, IInv
<1>2. Own(p) /\ pc'[p] = "measure" /\ loc'[p] = loc[p]
  BY ToOK DEF Match, Steps
<1>3. WorkOK(p)'
  BY <1>1, <1>2 DEF WorkOK, Cmd
<1>4. current' = current \ {p} /\ UNCHANGED <<lookups, learnings, taught>>
  BY NotWriting, <1>1 DEF Match, tables, ghosts
<1>5. TypeOK'
  BY <1>2 DEF Match, tables, Own, IInv, TypeOK
<1>6. ASSUME NEW q \in Procs, answer'[q].kind = "recall",
             NEW h \in answer'[q].results, h.verdict = "exact", ~h.pattern
      PROVE  \E x \in answer'[q].norm.ents, y \in h.ents :
                Related(x, y)
                \/ Resolve(answer'[q].known, x) \cap Resolve(answer'[q].known, y) # {}
  <2>1. CASE q # p
    BY <1>6, <2>1 DEF Match, IInv, ExactNamesTheSame
  <2>2. CASE q = p
    <3> DEFINE n == loc[p].norm
    <3>1. /\ answer'[p].norm = n /\ answer'[p].known = lookups
          /\ answer'[p].results = Results(n, learnings, patterns, Cached, Seen(p))
      BY DEF Match, Answer, IInv, TypeOK
    <3>2. PICK x \in n.ents, y \in h.ents :
            Related(x, y) \/ Seen(p)[x] \cap Seen(p)[y] # {}
      BY <1>6, <2>2, <3>1, ExactShares
    <3>3. x \in Words /\ y \in Words
      <4>1. n.ents \subseteq Words
        BY <1>1 DEF WorkOK, Normals
      <4>2. h.ents \subseteq Words
        BY <1>6, <2>2, <3>1, NamesAreWords DEF IInv, TypeOK
      <4> QED BY <4>1, <4>2
    <3>4. \A w \in Words : Seen(p)[w] \subseteq Resolve(lookups, w)
      BY <1>1 DEF Seen, WorkOK
    <3> QED BY <2>2, <3>1, <3>2, <3>3, <3>4
  <2> QED BY <2>1, <2>2
<1>7. ExactNamesTheSame'
  BY <1>6 DEF ExactNamesTheSame, Related, Resolve
<1> QED BY <1>2, <1>3, <1>4, <1>5, <1>7, QuietInv

(* The steps that end a command, or go on without touching what it holds.     *)
LEMMA MeasureInv == ASSUME IInv, NEW p \in Procs, Measure(p) PROVE IInv'
<1>1. WorkOK(p) /\ pc[p] = "measure"
  BY DEF Measure, IInv
<1>2. Own(p) /\ WorkOK(p)'
  <2>1. CASE Ends(p) BY <2>1, EndsOK
  <2>2. CASE To(p, "infer") /\ UNCHANGED loc
    <3>1. Own(p) /\ pc'[p] = "infer" /\ loc'[p] = loc[p]
      BY <2>2, ToOK DEF Steps
    <3> QED BY <1>1, <3>1 DEF WorkOK, Cmd
  <2> QED BY <2>1, <2>2 DEF Measure
<1>3. current' \subseteq current \ {p}
  BY NotWriting, <1>1 DEF Measure, Commits
<1>4. TypeOK'
  BY <1>2, <1>3 DEF Measure, tables, Own, WorkOK, IInv, TypeOK
<1>5. ExactNamesTheSame'
  BY SameAnswers DEF Measure
<1> QED BY <1>2, <1>3, <1>4, <1>5, QuietInv DEF Measure, tables, ghosts

LEMMA TeachFailsInv == ASSUME IInv, NEW p \in Procs, TeachFails(p) PROVE IInv'
<1>1. Own(p) /\ WorkOK(p)'
  BY EndsOK DEF TeachFails
<1>2. TypeOK'
  BY <1>1 DEF TeachFails, tables, Own, WorkOK, IInv, TypeOK
<1>3. ExactNamesTheSame'
  BY SameAnswers DEF TeachFails
<1> QED BY <1>1, <1>2, <1>3, QuietInv DEF TeachFails, tables, ghosts

LEMMA TeachInferInv == ASSUME IInv, NEW p \in Procs, TeachInfer(p) PROVE IInv'
<1> DEFINE work == [loc[p] EXCEPT !.inferred = Inferred(learnings)]
<1>1. WorkOK(p) /\ pc[p] = "infer"
  BY DEF TeachInfer, IInv
<1>2. Own(p) /\ pc'[p] = "generalize" /\ loc'[p] = work
  BY KeepOK DEF TeachInfer, Steps
<1>3. /\ DOMAIN work = DOMAIN NoWork /\ work.cmd = Cmd(p) /\ work.norm = loc[p].norm
      /\ work.todo = loc[p].todo /\ work.found = loc[p].found
  BY <1>1 DEF WorkOK, NoWork, Cmd
<1> HIDE DEF work
<1>4. WorkOK(p)'
  BY <1>1, <1>2, <1>3 DEF WorkOK, Cmd
<1>5. current' = current \ {p}
  BY NotWriting, <1>1 DEF TeachInfer
<1>6. TypeOK'
  BY <1>2, <1>4 DEF TeachInfer, tables, Own, WorkOK, IInv, TypeOK
<1>7. ExactNamesTheSame'
  BY SameAnswers DEF TeachInfer
<1> QED BY <1>2, <1>4, <1>5, <1>6, <1>7, QuietInv DEF TeachInfer, tables, ghosts

LEMMA GeneralizedType ==
  ASSUME IInv, NEW new PROVE \A x \in DOMAIN Generalized(new) : Generalized(new)[x] \in Nat \ {0}
BY DEF Generalized, IInv, TypeOK

LEMMA TeachGeneralizeInv == ASSUME IInv, NEW p \in Procs, TeachGeneralize(p) PROVE IInv'
<1>1. WorkOK(p) /\ pc[p] = "generalize"
  BY DEF TeachGeneralize, IInv
<1>2. Own(p) /\ WorkOK(p)'
  <2>1. CASE Ends(p) BY <2>1, EndsOK
  <2>2. CASE To(p, "playbook") /\ UNCHANGED loc
    <3>1. Own(p) /\ pc'[p] = "playbook" /\ loc'[p] = loc[p]
      BY <2>2, ToOK DEF Steps
    <3> QED BY <1>1, <3>1 DEF WorkOK, Cmd
  <2> QED BY <2>1, <2>2 DEF TeachGeneralize
<1>3. current' \subseteq current \ {p}
  BY NotWriting, <1>1 DEF TeachGeneralize, Commits
<1>4. \A x \in DOMAIN patterns' : patterns'[x] \in Nat \ {0}
  BY GeneralizedType DEF TeachGeneralize
<1>5. TypeOK'
  BY <1>2, <1>3, <1>4 DEF TeachGeneralize, ghosts, Own, WorkOK, IInv, TypeOK
<1>6. ExactNamesTheSame'
  BY SameAnswers DEF TeachGeneralize
<1> QED BY <1>2, <1>3, <1>5, <1>6, QuietInv DEF TeachGeneralize, ghosts

LEMMA PlaybookWriteInv == ASSUME IInv, NEW p \in Procs, PlaybookWrite(p) PROVE IInv'
<1>1. WorkOK(p) /\ pc[p] = "playbook"
  BY DEF PlaybookWrite, IInv
<1>2. Own(p) /\ WorkOK(p)'
  BY EndsOK DEF PlaybookWrite
<1>3. current' \subseteq current \ {p}
  BY NotWriting, <1>1 DEF PlaybookWrite, Commits
<1>4. playbooks' \in SUBSET SUBSET Words
  BY <1>1 DEF PlaybookWrite, QueryFamily, WorkOK, Normals, IInv, TypeOK
<1>5. TypeOK'
  BY <1>2, <1>3, <1>4 DEF PlaybookWrite, ghosts, Own, WorkOK, IInv, TypeOK
<1>6. ExactNamesTheSame'
  BY SameAnswers DEF PlaybookWrite
<1> QED BY <1>2, <1>3, <1>5, <1>6, QuietInv DEF PlaybookWrite, ghosts

LEMMA WritesFamilyInv ==
  ASSUME IInv, NEW p \in Procs, NEW kind, WritesFamily(p, kind) PROVE IInv'
<1>1. WorkOK(p) /\ pc[p] = "family"
  BY DEF WritesFamily, IInv
<1>2. Own(p) /\ WorkOK(p)'
  <2>1. CASE Ends(p) BY <2>1, EndsOK
  <2>2. CASE To(p, "measure") /\ UNCHANGED loc
    <3>1. Own(p) /\ pc'[p] = "measure" /\ loc'[p] = loc[p]
      BY <2>2, ToOK DEF Steps
    <3> QED BY <1>1, <3>1 DEF WorkOK, Cmd
  <2> QED BY <2>1, <2>2 DEF WritesFamily
<1>3. current' \subseteq current \ {p}
  BY NotWriting, <1>1 DEF WritesFamily, Commits
<1>4. playbooks' \in SUBSET SUBSET Words
  BY <1>1 DEF WritesFamily, QueryFamily, WorkOK, Normals, IInv, TypeOK
<1>5. TypeOK'
  BY <1>2, <1>3, <1>4 DEF WritesFamily, ghosts, Own, WorkOK, IInv, TypeOK
<1>6. ExactNamesTheSame'
  BY SameAnswers DEF WritesFamily
<1> QED BY <1>2, <1>3, <1>5, <1>6, QuietInv DEF WritesFamily, ghosts

LEMMA TeachLookupInv == ASSUME IInv, NEW p \in Procs, TeachLookup(p) PROVE IInv'
<1>1. WorkOK(p) /\ pc[p] = "teach-lookup"
  BY DEF TeachLookup, IInv
<1>2. Own(p) /\ WorkOK(p)'
  BY EndsOK DEF TeachLookup
<1>3. Cmd(p).row \in LookupRows
  BY <1>1, LearnAssumption DEF WorkOK, Kinded
<1>4. current' \subseteq current \ {p}
  BY DEF TeachLookup, Commits
<1>5. TypeOK'
  BY <1>2, <1>3, <1>4 DEF TeachLookup, ghosts, Own, WorkOK, IInv, TypeOK
<1>6. ExactNamesTheSame'
  BY SameAnswers DEF TeachLookup
<1> QED BY <1>2, <1>4, <1>5, <1>6, QuietInv DEF TeachLookup, ghosts

LEMMA TeachPatternInv == ASSUME IInv, NEW p \in Procs, TeachPattern(p) PROVE IInv'
<1>1. Own(p) /\ WorkOK(p)'
  BY EndsOK DEF TeachPattern
<1>2. \A x \in DOMAIN patterns' : patterns'[x] \in Nat \ {0}
  BY GeneralizedType DEF TeachPattern
<1>3. current' \subseteq current \ {p}
  BY DEF TeachPattern, Commits
<1>4. TypeOK'
  BY <1>1, <1>2, <1>3 DEF TeachPattern, ghosts, Own, WorkOK, IInv, TypeOK
<1>5. ExactNamesTheSame'
  BY SameAnswers DEF TeachPattern
<1> QED BY <1>1, <1>3, <1>4, <1>5, QuietInv DEF TeachPattern, ghosts

LEMMA AskInv == ASSUME IInv, NEW p \in Procs, Ask(p) PROVE IInv'
<1>1. WorkOK(p) /\ pc[p] = "ask"
  BY DEF Ask, IInv
<1>2. Own(p) /\ WorkOK(p)'
  <2>1. CASE Ends(p) BY <2>1, EndsOK
  <2>2. CASE To(p, "local") /\ UNCHANGED loc
    <3>1. Own(p) /\ pc'[p] = "local" /\ loc'[p] = loc[p]
      BY <2>2, ToOK DEF Steps
    <3> QED BY <1>1, <3>1 DEF WorkOK, Cmd
  <2>3. ASSUME NEW reply, To(p, "store"), Keep(p, [loc[p] EXCEPT !.reply = reply])
        PROVE  Own(p) /\ WorkOK(p)'
    <3> DEFINE work == [loc[p] EXCEPT !.reply = reply]
    <3>1. Own(p) /\ pc'[p] = "store" /\ loc'[p] = work
      BY <2>3, KeepOK DEF Steps
    <3>2. /\ DOMAIN work = DOMAIN NoWork /\ work.cmd = Cmd(p) /\ work.norm = loc[p].norm
          /\ work.todo = loc[p].todo /\ work.found = loc[p].found
      BY <1>1 DEF WorkOK, NoWork, Cmd
    <3> HIDE DEF work
    <3> QED BY <1>1, <3>1, <3>2 DEF WorkOK, Cmd
  <2> QED BY <2>1, <2>2, <2>3 DEF Ask
<1>3. current' = current \ {p}
  BY NotWriting, <1>1 DEF Ask
<1>4. TypeOK'
  BY <1>2 DEF Ask, tables, Own, WorkOK, IInv, TypeOK
<1>5. ExactNamesTheSame'
  BY SameAnswers DEF Ask
<1> QED BY <1>2, <1>3, <1>4, <1>5, QuietInv DEF Ask, tables, ghosts

LEMMA StoreInv == ASSUME IInv, NEW p \in Procs, Store(p) PROVE IInv'
<1>1. pc[p] = "store" /\ UNCHANGED <<lookups, learnings, patterns, playbooks, misses, clock, left,
                                     taught, origin, answer>>
  BY DEF Store
<1>2. Own(p) /\ WorkOK(p)'
  BY EndsOK DEF Store
<1>3. current' \subseteq current \ {p}
  <2>1. current' = {} \/ current' = current
    BY DEF Store, Commits
  <2> QED BY <1>1, <2>1, NotWriting
<1>4. TypeOK'
  BY <1>1, <1>2, <1>3 DEF Own, WorkOK, IInv, TypeOK
<1>5. ExactNamesTheSame'
  BY <1>1, SameAnswers
<1> QED BY <1>1, <1>2, <1>3, <1>4, <1>5, QuietInv

LEMMA LocalInv == ASSUME IInv, NEW p \in Procs, Local(p) PROVE IInv'
<1>1. Own(p) /\ WorkOK(p)' /\ pc[p] = "local"
  BY EndsOK DEF Local
<1>2. current' = current \ {p}
  BY <1>1, NotWriting DEF Local
<1>3. TypeOK'
  BY <1>1 DEF Local, tables, Own, WorkOK, IInv, TypeOK
<1>4. ExactNamesTheSame'
  BY AnswersKeep DEF Local, IInv, TypeOK
<1> QED BY <1>1, <1>2, <1>3, <1>4, QuietInv DEF Local, tables, ghosts

LEMMA CrashInv == ASSUME IInv, NEW p \in Procs, Crash(p) PROVE IInv'
<1>1. Own(p) /\ WorkOK(p)'
  BY EndsOK DEF Crash
<1>2. TypeOK'
  BY <1>1 DEF Crash, tables, Own, WorkOK, IInv, TypeOK
<1>3. ExactNamesTheSame'
  BY AnswersKeep DEF Crash, Nothing, IInv, TypeOK
<1> QED BY <1>1, <1>2, <1>3, QuietInv DEF Crash, tables, ghosts

(* The three steps about learnings.                                           *)
LEMMA TeachReadInv == ASSUME IInv, NEW p \in Procs, TeachRead(p) PROVE IInv'
<1>1. WorkOK(p) /\ pc[p] = "read"
  BY DEF TeachRead, IInv
<1>2. ExactNamesTheSame'
  BY SameAnswers DEF TeachRead
<1>3. CASE NormalizeQuery(Cmd(p).query) = {}
  <2>0. Ends(p) /\ UNCHANGED current
    BY <1>3 DEF TeachRead
  <2>1. Own(p) /\ WorkOK(p)'
    BY <2>0, EndsOK
  <2>2. current' = current \ {p}
    BY <1>1, <2>0, NotWriting
  <2>3. TypeOK'
    BY <2>0, <2>1 DEF TeachRead, tables, Own, WorkOK, IInv, TypeOK
  <2> QED BY <1>2, <2>1, <2>2, <2>3, QuietInv DEF TeachRead, tables, ghosts
<1>4. CASE NormalizeQuery(Cmd(p).query) # {}
  <2> DEFINE work == [loc[p] EXCEPT !.found = Key(p) \in DOMAIN learnings]
  <2>1. To(p, "write") /\ Keep(p, work) /\ current' = current \cup {p}
    BY <1>4 DEF TeachRead
  <2>2. Own(p) /\ pc'[p] = "write" /\ loc'[p] = work
    BY <2>1, KeepOK DEF Steps
  <2>3. /\ DOMAIN work = DOMAIN NoWork /\ work.cmd = Cmd(p) /\ work.norm = loc[p].norm
        /\ work.todo = loc[p].todo /\ work.found = (Key(p) \in DOMAIN learnings)
    BY <1>1 DEF WorkOK, NoWork, Cmd
  <2> HIDE DEF work
  <2>4. WorkOK(p)'
    BY <1>1, <2>2, <2>3 DEF WorkOK, Cmd
  <2>5. \A q \in Procs : WorkOK(q)'
    BY <2>2, <2>4, OthersKeep DEF TeachRead, tables
  <2>6. UNCHANGED <<learnings, taught>>
    BY DEF TeachRead, tables, ghosts
  <2>7. Snapshot'
    <3>1. Key(p)' = Key(p)
      BY <2>2, <2>3 DEF Key, Cmd
    <3>2. ASSUME NEW q \in current, q # p
          PROVE  pc'[q] = "write" /\ (loc'[q].found <=> Key(q)' \in DOMAIN learnings')
      <4>1. pc'[q] = pc[q] /\ loc'[q] = loc[q]
        BY <2>2, <3>2 DEF Own, IInv, TypeOK
      <4>2. Key(q)' = Key(q)
        BY <4>1 DEF Key, Cmd
      <4> QED BY <2>6, <4>1, <4>2 DEF IInv, Snapshot
    <3> QED BY <2>1, <2>2, <2>3, <2>6, <3>1, <3>2 DEF Snapshot
  <2>8. TypeOK'
    BY <2>1, <2>2, <2>5 DEF TeachRead, tables, Own, WorkOK, IInv, TypeOK
  <2>9. Counted' /\ NoTeachingLost'
    BY <2>6 DEF IInv, Counted, NoTeachingLost
  <2> QED BY <1>2, <2>5, <2>7, <2>8, <2>9 DEF IInv
<1> QED BY <1>3, <1>4

(* A teach may only write what its snapshot still says: the key it found, or  *)
(* did not find, is the key the table has, or has not.                        *)
LEMMA TeachWriteInv == ASSUME IInv, NEW p \in Procs, TeachWrite(p) PROVE IInv'
<1> DEFINE k    == Key(p)
           row  == IF loc[p].found
                   THEN [learnings[k] EXCEPT !.conf = @ + 1, !.at = clock + 1]
                   ELSE [ents |-> loc[p].norm.ents, conf |-> 2, at |-> clock + 1]
           n    == IF k \in DOMAIN taught THEN taught[k] + 1 ELSE 1
           work == [loc[p] EXCEPT !.todo = Tail(@)]
           step == IF Len(loc[p].todo) > 1 THEN "read" ELSE "measure"
<1>1. WorkOK(p) /\ pc[p] = "write"
  BY DEF TeachWrite, IInv
<1>2. loc[p].found <=> k \in DOMAIN learnings
  BY DEF TeachWrite, UpToDate, IInv, Snapshot
<1>3. learnings' = Put(learnings, k, row) /\ taught' = Put(taught, k, n) /\ current' = {}
  BY DEF TeachWrite, Upserted, Commits
<1>4. k \in LearningKeys
  <2>1. Cmd(p) \in Commands /\ Cmd(p).kind = "teach"
    BY <1>1 DEF WorkOK
  <2>2. NormalizeQuery(Cmd(p).query) \in SUBSET Words
    BY <2>1, KeyType, LearnAssumption DEF AsksQuery
  <2>3. Head(loc[p].todo) \in Resources
    BY <1>1 DEF WorkOK
  <2> QED BY <2>2, <2>3 DEF Key, LearningKeys
<1>5. row \in Learnings
  <2>1. clock + 1 \in Nat
    BY DEF IInv, TypeOK
  <2>2. CASE loc[p].found
    <3>1. learnings[k] \in Learnings
      BY <1>2, <2>2 DEF IInv, TypeOK
    <3>2. row = [learnings[k] EXCEPT !.conf = @ + 1, !.at = clock + 1]
      BY <2>2
    <3>3. learnings[k].conf + 1 \in Nat \ {0}
      BY <3>1 DEF Learnings
    <3> HIDE DEF row, k
    <3> QED BY <2>1, <3>1, <3>2, <3>3 DEF Learnings
  <2>3. CASE ~loc[p].found
    <3>1. loc[p].norm.ents \in SUBSET Words
      BY <1>1 DEF WorkOK, Normals
    <3> QED BY <2>1, <2>3, <3>1 DEF Learnings
  <2> QED BY <2>2, <2>3
<1>6. n \in Nat /\ row.conf = n + 1
  <2>1. CASE k \in DOMAIN learnings
    <3>1. learnings[k] \in Learnings /\ learnings[k].conf = taught[k] + 1
          /\ k \in DOMAIN taught /\ taught[k] \in Nat
      BY <2>1 DEF IInv, TypeOK, NoTeachingLost, Counted
    <3>2. row.conf = learnings[k].conf + 1
      BY <1>2, <2>1, <3>1 DEF Learnings
    <3> QED BY <3>1, <3>2
  <2>2. CASE k \notin DOMAIN learnings
    BY <1>2, <2>2 DEF IInv, NoTeachingLost
  <2> QED BY <2>1, <2>2
<1>7. Own(p) /\ pc'[p] = step /\ loc'[p] = work
  <2>1. To(p, step) /\ Keep(p, work) /\ step \in Steps
    BY DEF TeachWrite, Steps
  <2> QED BY <2>1, KeepOK
<1>8. WorkOK(p)'
  <2>1. /\ DOMAIN work = DOMAIN NoWork /\ work.cmd = Cmd(p) /\ work.norm = loc[p].norm
        /\ work.todo = Tail(loc[p].todo) /\ work.found = loc[p].found
    BY <1>1 DEF WorkOK, NoWork, Cmd
  <2>2. /\ Tail(loc[p].todo) \in Seq(Resources)
        /\ Len(loc[p].todo) > 1 => Tail(loc[p].todo) # <<>>
    <3> DEFINE todo == loc[p].todo
    <3>1. todo \in Seq(Resources) /\ todo # <<>>
      BY <1>1 DEF WorkOK
    <3> HIDE DEF todo
    <3>2. Tail(todo) \in Seq(Resources) /\ Len(Tail(todo)) = Len(todo) - 1 /\ Len(todo) \in Nat
      BY <3>1, HeadTailProperties
    <3>3. ASSUME Len(todo) > 1 PROVE Tail(todo) # <<>>
      <4>1. Len(Tail(todo)) # 0 /\ Len(<<>>) = 0
        BY <3>2, <3>3
      <4> QED BY <4>1
    <3> QED BY <3>2, <3>3 DEF todo
  <2> HIDE DEF work
  <2> QED BY <1>1, <1>7, <2>1, <2>2 DEF WorkOK, Cmd
<1> HIDE DEF k, row, n, work, step
<1>9. \A q \in Procs : WorkOK(q)'
  BY <1>7, <1>8, OthersKeep DEF TeachWrite
<1>10. Snapshot'
  BY <1>3 DEF Snapshot
<1>11. /\ DOMAIN learnings' = DOMAIN taught'
       /\ \A x \in DOMAIN learnings' :
             /\ x \in LearningKeys /\ learnings'[x] \in Learnings
             /\ taught'[x] \in Nat /\ learnings'[x].conf = taught'[x] + 1
  <2>1. /\ DOMAIN learnings = DOMAIN taught
        /\ \A x \in DOMAIN learnings :
              /\ x \in LearningKeys /\ learnings[x] \in Learnings
              /\ taught[x] \in Nat /\ learnings[x].conf = taught[x] + 1
    BY DEF IInv, TypeOK, NoTeachingLost, Counted
  <2>2. DOMAIN learnings' = DOMAIN learnings \cup {k} /\ DOMAIN taught' = DOMAIN taught \cup {k}
    BY <1>3 DEF Put
  <2>3. learnings'[k] = row /\ taught'[k] = n
    BY <1>3 DEF Put
  <2>4. \A x \in DOMAIN learnings \ {k} : learnings'[x] = learnings[x] /\ taught'[x] = taught[x]
    BY <1>3, <2>1 DEF Put
  <2> QED BY <1>4, <1>5, <1>6, <2>1, <2>2, <2>3, <2>4
<1>12. Counted' /\ NoTeachingLost'
  BY <1>11 DEF Counted, NoTeachingLost
<1>13. TypeOK'
  BY <1>3, <1>7, <1>9, <1>11 DEF TeachWrite, Own, WorkOK, IInv, TypeOK
<1>14. ExactNamesTheSame'
  BY SameAnswers DEF TeachWrite
<1> QED BY <1>9, <1>10, <1>12, <1>13, <1>14 DEF IInv

LEMMA ForgetInv == ASSUME IInv, NEW p \in Procs, Forget(p) PROVE IInv'
<1> DEFINE gone == {k \in DOMAIN learnings : /\ k[1] = NormalizeQuery(Cmd(p).query)
                                             /\ k[2] \in Cmd(p).resources}
<1>1. WorkOK(p) /\ pc[p] = "forget" /\ UNCHANGED <<lookups, answer>>
  BY DEF Forget, IInv
<1>2. /\ learnings' = Without(learnings, gone) /\ taught' = Without(taught, gone)
      /\ IF gone = {} THEN Ends(p) /\ UNCHANGED current
         ELSE To(p, "measure") /\ UNCHANGED loc /\ Commits
  BY DEF Forget
<1> HIDE DEF gone
<1>3. Own(p) /\ WorkOK(p)'
  <2>1. CASE gone = {} BY <1>2, <2>1, EndsOK
  <2>2. CASE gone # {}
    <3>1. Own(p) /\ pc'[p] = "measure" /\ loc'[p] = loc[p]
      BY <1>2, <2>2, ToOK DEF Steps
    <3> QED BY <1>1, <3>1 DEF WorkOK, Cmd
  <2> QED BY <2>1, <2>2
<1>4. \A q \in Procs : WorkOK(q)'
  BY <1>1, <1>3, OthersKeep
<1>5. /\ DOMAIN learnings' = DOMAIN learnings \ gone /\ DOMAIN taught' = DOMAIN taught \ gone
      /\ \A x \in DOMAIN learnings \ gone : learnings'[x] = learnings[x]
      /\ \A x \in DOMAIN taught \ gone : taught'[x] = taught[x]
  BY <1>2 DEF Without
<1>6. Snapshot'
  <2>1. ASSUME NEW q \in current'
        PROVE  pc'[q] = "write" /\ (loc'[q].found <=> Key(q)' \in DOMAIN learnings')
    <3>1. gone = {} /\ q \in current
      BY <1>2, <2>1 DEF Commits
    <3>2. q \in Procs /\ q # p
      BY <1>1, <3>1 DEF IInv, TypeOK, Snapshot
    <3>3. pc'[q] = pc[q] /\ loc'[q] = loc[q]
      BY <1>3, <3>2 DEF Own
    <3>4. Key(q)' = Key(q)
      BY <3>3 DEF Key, Cmd
    <3> QED BY <1>5, <3>1, <3>3, <3>4 DEF IInv, Snapshot
  <2> QED BY <2>1 DEF Snapshot
<1>7. Counted' /\ NoTeachingLost'
  BY <1>5 DEF IInv, Counted, NoTeachingLost
<1>8. current' \subseteq current
  BY <1>2 DEF Commits
<1>9. TypeOK'
  BY <1>3, <1>4, <1>5, <1>8 DEF Forget, Own, WorkOK, IInv, TypeOK
<1>10. ExactNamesTheSame'
  BY <1>1, SameAnswers
<1> QED BY <1>4, <1>6, <1>7, <1>9, <1>10 DEF IInv

LEMMA StutterInv == ASSUME IInv, UNCHANGED vars PROVE IInv'
<1>1. ExactNamesTheSame'
  BY SameAnswers DEF vars
<1>2. \A q \in Procs : WorkOK(q)'
  BY DEF vars, tables, IInv, WorkOK, Cmd, Resolve
<1>3. Snapshot' /\ Counted' /\ NoTeachingLost'
  BY DEF vars, tables, ghosts, IInv, Snapshot, Counted, NoTeachingLost, Key, Cmd
<1>4. TypeOK'
  BY DEF vars, tables, ghosts, IInv, TypeOK
<1> QED BY <1>1, <1>2, <1>3, <1>4 DEF IInv

LEMMA StepInv == IInv /\ [Next]_vars => IInv'
<1> SUFFICES ASSUME IInv, [Next]_vars PROVE IInv'
  OBVIOUS
<1>1. CASE UNCHANGED vars
  BY <1>1, StutterInv
<1>2. ASSUME NEW p \in Procs, Step(p) PROVE IInv'
  BY <1>2, BeginInv, PromoteInv, RecordMissesInv, MatchInv, MeasureInv, TeachReadInv,
     TeachWriteInv, TeachFailsInv, TeachInferInv, TeachGeneralizeInv, PlaybookWriteInv,
     WritesFamilyInv, TeachLookupInv, TeachPatternInv, ForgetInv, AskInv, StoreInv, LocalInv,
     CrashInv DEF Step, TeachPlaybook, AmendPlaybook
<1> QED BY <1>1, <1>2 DEF Next

THEOREM Invariance == Spec => []IInv
BY InitInv, StepInv, PTL DEF Spec

--------------------------------------------------------------------------------

(* Types: in particular the queries, keys, rows and names a command passes    *)
(* from step to step are what the next step takes them for.                   *)
THEOREM TypesHold == Spec => []TypeOK
<1>1. IInv => TypeOK BY DEF IInv
<1> QED BY <1>1, Invariance, PTL

(* UpsertLearning (store/learnings.go:286): its SELECT and its INSERT or      *)
(* UPDATE are one transaction, so for any number of processes every           *)
(* acknowledged teaching counts once and no forgotten row comes back.         *)
THEOREM NothingTaughtIsLost == Spec => []NoTeachingLost
<1>1. IInv => NoTeachingLost BY DEF IInv
<1> QED BY <1>1, Invariance, PTL

(* The verdict an agent skips discovery on (recall.go:457, match.go:109): for *)
(* any learnings, lookups and cache an exact hit shares a name, or a          *)
(* canonical of the lookups, with the query, even if lookups were taught      *)
(* while the recall ran.                                                      *)
THEOREM ExactIsTheSameName == Spec => []ExactNamesTheSame
<1>1. IInv => ExactNamesTheSame BY DEF IInv
<1> QED BY <1>1, Invariance, PTL

--------------------------------------------------------------------------------
(* The full-text index.  A row, a batch, and then every reply a process may   *)
(* hold keep it in step with the table.                                       *)

Agrees(db) ==
    /\ DOMAIN db.index \subseteq DOMAIN db.rows
    /\ \A id \in DOMAIN db.rows \ db.warned : id \in DOMAIN db.index /\ db.index[id] = db.rows[id]

(* One row keeps the index in step, whichever of its statements failed.       *)
LEMMA RowAgrees ==
  ASSUME NEW db, NEW item, NEW fault, Agrees(db)
  PROVE  Agrees(UpsertRow(db, item, fault))
<1> DEFINE id == ResourceId(item)
           deleted == IF fault \in {"delete", "both"} THEN db.index ELSE Without(db.index, {id})
           inserts == fault \notin {"insert", "both"} /\ id \notin DOMAIN deleted
           new == UpsertRow(db, item, fault)
<1>1. /\ new.rows = Put(db.rows, id, item)
      /\ new.index = IF inserts THEN Put(deleted, id, item) ELSE deleted
      /\ new.warned = IF fault = "none" THEN db.warned \ {id} ELSE db.warned \cup {id}
  BY DEF UpsertRow
<1>2. /\ DOMAIN deleted \subseteq DOMAIN db.index
      /\ \A j \in DOMAIN db.index \ {id} : j \in DOMAIN deleted /\ deleted[j] = db.index[j]
      /\ fault = "none" => inserts
  BY DEF Without
<1> HIDE DEF id, deleted, inserts, new
<1>3. /\ DOMAIN new.rows = DOMAIN db.rows \cup {id} /\ new.rows[id] = item
      /\ \A j \in DOMAIN db.rows \ {id} : new.rows[j] = db.rows[j]
  BY <1>1 DEF Put
<1>4. /\ DOMAIN new.index \subseteq DOMAIN deleted \cup {id}
      /\ inserts => id \in DOMAIN new.index /\ new.index[id] = item
      /\ \A j \in DOMAIN deleted \ {id} : j \in DOMAIN new.index /\ new.index[j] = deleted[j]
  BY <1>1 DEF Put
<1>5. DOMAIN new.index \subseteq DOMAIN new.rows
  BY <1>2, <1>3, <1>4 DEF Agrees
<1>6. ASSUME NEW j \in DOMAIN new.rows \ new.warned
      PROVE  j \in DOMAIN new.index /\ new.index[j] = new.rows[j]
  <2>1. CASE j = id
    <3>1. fault = "none"
      BY <2>1, <1>1
    <3> QED BY <2>1, <3>1, <1>2, <1>3, <1>4
  <2>2. CASE j # id
    <3>1. j \in DOMAIN db.rows \ db.warned
      BY <2>2, <1>1, <1>3
    <3> QED BY <2>2, <3>1, <1>2, <1>3, <1>4 DEF Agrees
  <2> QED BY <2>1, <2>2
<1> QED BY <1>5, <1>6 DEF Agrees, new

(* What UpsertBatch defines by recursion exists, for a batch of any length.   *)
IsBatch(f, db, items, faults, n) ==
    f = [k \in 0 .. n |-> IF k = 0 THEN db ELSE UpsertRow(f[k - 1], items[k], faults[k])]

LEMMA BatchExists ==
  ASSUME NEW db, NEW items, NEW faults, NEW n \in Nat
  PROVE  \E f : IsBatch(f, db, items, faults, n)
<1> DEFINE Entry(f, k) == IF k = 0 THEN db ELSE UpsertRow(f[k - 1], items[k], faults[k])
           T == {m \in Nat : \E f : f = [k \in 0 .. m |-> Entry(f, k)]}
<1>1. 0 \in T
  <2> DEFINE f == [k \in 0 .. 0 |-> db]
  <2>1. f = [k \in 0 .. 0 |-> Entry(f, k)]
    OBVIOUS
  <2> QED BY <2>1
<1>2. ASSUME NEW m \in Nat, m \in T PROVE m + 1 \in T
  <2>1. PICK f : f = [k \in 0 .. m |-> Entry(f, k)]
    BY <1>2
  <2> DEFINE g == [k \in 0 .. (m + 1) |-> IF k = m + 1 THEN Entry(f, k) ELSE f[k]]
  <2>2. ASSUME NEW k \in 0 .. (m + 1) PROVE g[k] = Entry(g, k)
    <3>1. CASE k = 0
      <4>1. 0 \in 0 .. m /\ f[0] = Entry(f, 0) /\ k # m + 1
        BY <2>1, <3>1
      <4> QED BY <3>1, <4>1
    <3>2. CASE k # 0
      <4>1. k - 1 \in 0 .. m /\ k - 1 \in 0 .. (m + 1) /\ k - 1 # m + 1
        BY <3>2
      <4>2. g[k - 1] = f[k - 1]
        BY <4>1
      <4>3. g[k] = Entry(f, k)
        <5>1. CASE k = m + 1
          BY <5>1
        <5>2. CASE k # m + 1
          <6>1. k \in 0 .. m
            BY <5>2
          <6> QED BY <5>2, <6>1, <2>1
        <5> QED BY <5>1, <5>2
      <4> HIDE DEF g
      <4> QED BY <3>2, <4>2, <4>3
    <3> QED BY <3>1, <3>2
  <2>3. g = [k \in 0 .. (m + 1) |-> Entry(g, k)]
    <3>1. g = [k \in 0 .. (m + 1) |-> g[k]]
      OBVIOUS
    <3> HIDE DEF g, Step
    <3> QED BY <2>2, <3>1
  <2>4. m + 1 \in Nat
    OBVIOUS
  <2> HIDE DEF g, Step
  <2> QED BY <2>3, <2>4
<1>3. n \in T
  <2> HIDE DEF T
  <2> QED BY <1>1, <1>2, SetInduction
<1> QED BY <1>3 DEF IsBatch

(* A batch keeps the index in step, whichever statements of it failed.        *)
LEMMA BatchAgrees ==
  ASSUME NEW db, NEW items, NEW faults, Len(items) \in Nat, Agrees(db)
  PROVE  Agrees(UpsertBatch(db, items, faults))
<1> DEFINE n == Len(items)
           after == CHOOSE f : IsBatch(f, db, items, faults, n)
           T == {m \in Nat : m <= n => Agrees(after[m])}
<1>1. UpsertBatch(db, items, faults) = after[n]
  BY DEF UpsertBatch, IsBatch
<1>2. IsBatch(after, db, items, faults, n)
  BY BatchExists
<1>3. \A k \in 0 .. n : after[k] = IF k = 0 THEN db ELSE UpsertRow(after[k - 1], items[k], faults[k])
  <2> HIDE DEF after
  <2> QED BY <1>2 DEF IsBatch
<1> HIDE DEF after
<1>4. 0 \in T
  BY <1>3
<1>5. ASSUME NEW m \in Nat, m \in T PROVE m + 1 \in T
  <2>1. SUFFICES ASSUME m + 1 <= n PROVE Agrees(after[m + 1])
    OBVIOUS
  <2>2. Agrees(after[m])
    BY <1>5, <2>1
  <2>3. after[m + 1] = UpsertRow(after[m], items[m + 1], faults[m + 1])
    BY <1>3, <2>1
  <2> QED BY <2>2, <2>3, RowAgrees
<1>6. n \in T
  <2> HIDE DEF T
  <2> QED BY <1>4, <1>5, SetInduction
<1> QED BY <1>1, <1>6

(* The inductive invariant: the promise itself, and that a process at the     *)
(* write-through cache holds a reply the endpoint gave to a theater command.  *)
Answered == UNION {Replies[slug] : slug \in DOMAIN Replies}

Holds(p) ==
    /\ pc[p] = "ask" => Cmd(p).kind = "theater"
    /\ pc[p] = "store" => loc[p].reply \in Answered

IndexInv == IndexFollowsTable /\ \A p \in Procs : Holds(p)

LEMMA InitIndex == Init => IndexInv
BY DEF Init, IndexInv, IndexFollowsTable, Holds

(* A step that leaves the cache alone and leads to neither of its two steps.  *)
LEMMA ElsewhereIndex ==
  ASSUME IInv, IndexInv, NEW p \in Procs, UNCHANGED <<rows, index, warned>>,
         NEW step \in Steps \ {"ask", "store"}, To(p, step),
         UNCHANGED loc \/ \E work : Keep(p, work)
  PROVE  IndexInv'
<1>1. IndexFollowsTable'
  BY DEF IndexInv, IndexFollowsTable
<1>2. ASSUME NEW q \in Procs PROVE Holds(q)'
  <2>1. pc \in [Procs -> Steps] /\ DOMAIN loc = Procs
    BY DEF IInv, TypeOK
  <2>2. CASE q = p
    BY <2>1, <2>2 DEF To, Holds
  <2>3. CASE q # p
    <3>1. pc'[q] = pc[q] /\ loc'[q] = loc[q]
      BY <2>1, <2>3 DEF To, Keep
    <3> QED BY <3>1 DEF IndexInv, Holds, Cmd
  <2> QED BY <2>2, <2>3
<1> QED BY <1>1, <1>2 DEF IndexInv

LEMMA EndsIndex ==
  ASSUME IInv, IndexInv, NEW p \in Procs, UNCHANGED <<rows, index, warned>>, Ends(p)
  PROVE  IndexInv'
BY ElsewhereIndex DEF Ends, Steps

LEMMA BeginIndex == ASSUME IInv, IndexInv, NEW p \in Procs, Begin(p) PROVE IndexInv'
<1>1. PICK c \in Commands :
        /\ Keep(p, [NoWork EXCEPT !.cmd = c])
        /\ To(p, CASE c.kind \in AsksQuery -> "promote"
                   [] c.kind = "theater" -> IF c.source = "local" THEN "local" ELSE "ask"
                   [] OTHER -> c.kind)
  BY DEF Begin
<1>2. UNCHANGED <<rows, index, warned>>
  BY DEF Begin, tables, ghosts
<1>3. c.kind \in AsksQuery \cup {"teach-lookup", "teach-pattern", "forget", "theater"}
  BY LearnAssumption
<1>4. CASE c.kind = "theater" /\ c.source # "local"
  <2>1. pc \in [Procs -> Steps] /\ DOMAIN loc = Procs
    BY DEF IInv, TypeOK
  <2>2. pc' = [pc EXCEPT ![p] = "ask"]
    BY <1>1, <1>4 DEF To, AsksQuery
  <2>3. loc'[p].cmd = c
    BY <1>1, <2>1 DEF Keep, NoWork
  <2>4. ASSUME NEW q \in Procs PROVE Holds(q)'
    <3>1. CASE q = p
      BY <2>1, <2>2, <2>3, <1>4, <3>1 DEF Holds, Cmd
    <3>2. CASE q # p
      <4>1. pc'[q] = pc[q] /\ loc'[q] = loc[q]
        BY <1>1, <2>1, <2>2, <3>2 DEF Keep
      <4> QED BY <4>1 DEF IndexInv, Holds, Cmd
    <3> QED BY <3>1, <3>2
  <2>5. IndexFollowsTable'
    BY <1>2 DEF IndexInv, IndexFollowsTable
  <2> QED BY <2>4, <2>5 DEF IndexInv
<1>5. CASE ~(c.kind = "theater" /\ c.source # "local")
  <2>1. PICK step \in {"promote", "local", "teach-lookup", "teach-pattern", "forget"} :
          To(p, step)
    BY <1>1, <1>3, <1>5 DEF AsksQuery
  <2> QED BY <1>1, <1>2, <2>1, ElsewhereIndex DEF Steps
<1> QED BY <1>4, <1>5

LEMMA PromoteIndex == ASSUME IInv, IndexInv, NEW p \in Procs, Promote(p) PROVE IndexInv'
<1>1. UNCHANGED <<rows, index, warned>>
  BY DEF Promote, tables, ghosts
<1>2. PICK step \in {"idle", "read", "family", "misses", "match"} :
        To(p, step) /\ \E work : Keep(p, work)
  BY DEF Promote, Ends
<1> QED BY <1>1, <1>2, ElsewhereIndex DEF Steps

LEMMA AskIndex == ASSUME IInv, IndexInv, NEW p \in Procs, Ask(p) PROVE IndexInv'
<1>1. UNCHANGED <<rows, index, warned>> /\ pc[p] = "ask"
  BY DEF Ask, tables, ghosts
<1>2. CASE Ends(p)
  BY <1>1, <1>2, EndsIndex
<1>3. CASE To(p, "local") /\ UNCHANGED loc
  BY <1>1, <1>3, ElsewhereIndex DEF Steps
<1>4. ASSUME NEW reply \in Replies[Cmd(p).slug], To(p, "store"),
             Keep(p, [loc[p] EXCEPT !.reply = reply])
      PROVE  IndexInv'
  <2>1. pc \in [Procs -> Steps] /\ DOMAIN loc = Procs /\ DOMAIN loc[p] = DOMAIN NoWork
    BY DEF IInv, TypeOK, WorkOK
  <2>2. Cmd(p).slug \in DOMAIN Replies
    <3>1. Cmd(p) \in Kinded("theater")
      BY <1>1 DEF IInv, WorkOK, IndexInv, Holds, Kinded
    <3> QED BY <3>1, LearnAssumption
  <2>3. loc'[p].reply \in Answered
    BY <1>4, <2>1, <2>2 DEF Keep, Answered, NoWork
  <2>4. ASSUME NEW q \in Procs PROVE Holds(q)'
    <3>1. CASE q = p
      BY <1>4, <2>1, <2>3, <3>1 DEF To, Holds
    <3>2. CASE q # p
      <4>1. pc'[q] = pc[q] /\ loc'[q] = loc[q]
        BY <1>4, <2>1, <3>2 DEF Keep, To
      <4> QED BY <4>1 DEF IndexInv, Holds, Cmd
    <3> QED BY <3>1, <3>2
  <2>5. IndexFollowsTable'
    BY <1>1 DEF IndexInv, IndexFollowsTable
  <2> QED BY <2>4, <2>5 DEF IndexInv
<1> QED BY <1>2, <1>3, <1>4 DEF Ask

LEMMA StoreIndex == ASSUME IInv, IndexInv, NEW p \in Procs, Store(p) PROVE IndexInv'
<1>1. pc[p] = "store" /\ Ends(p)
  BY DEF Store
<1>2. CASE UNCHANGED <<rows, index, warned>>
  BY <1>1, <1>2, EndsIndex
<1> DEFINE items == Rows(Items(loc[p].reply))
           db == [rows |-> rows, index |-> index, warned |-> warned]
<1>3. ASSUME NEW faults,
             /\ rows' = UpsertBatch(db, items, faults).rows
             /\ index' = UpsertBatch(db, items, faults).index
             /\ warned' = UpsertBatch(db, items, faults).warned
      PROVE  IndexInv'
  <2>1. Len(items) \in Nat
    BY <1>1, LearnAssumption DEF IndexInv, Holds, Answered
  <2>2. Agrees(db)
    BY DEF IndexInv, IndexFollowsTable, Agrees
  <2>3. IndexFollowsTable'
    <3> HIDE DEF items, db
    <3>1. Agrees(UpsertBatch(db, items, faults))
      BY <2>1, <2>2, BatchAgrees
    <3> QED BY <1>3, <3>1 DEF Agrees, IndexFollowsTable
  <2>4. ASSUME NEW q \in Procs PROVE Holds(q)'
    <3>1. pc \in [Procs -> Steps] /\ DOMAIN loc = Procs
      BY DEF IInv, TypeOK
    <3>2. CASE q = p
      BY <1>1, <3>1, <3>2 DEF Ends, To, Holds
    <3>3. CASE q # p
      <4>1. pc'[q] = pc[q] /\ loc'[q] = loc[q]
        BY <1>1, <3>1, <3>3 DEF Ends, Keep, To
      <4> QED BY <4>1 DEF IndexInv, Holds, Cmd
    <3> QED BY <3>2, <3>3
  <2> QED BY <2>3, <2>4 DEF IndexInv
<1> QED BY <1>2, <1>3 DEF Store

(* The other steps, each with the steps of the command it can lead to.        *)
LEMMA QuietIndex ==
  ASSUME IInv, IndexInv, NEW p \in Procs,
         \/ RecordMisses(p) \/ Match(p) \/ Measure(p) \/ TeachRead(p) \/ TeachWrite(p)
         \/ TeachFails(p) \/ TeachInfer(p) \/ TeachGeneralize(p) \/ PlaybookWrite(p)
         \/ TeachPlaybook(p) \/ AmendPlaybook(p) \/ TeachLookup(p) \/ TeachPattern(p)
         \/ Forget(p) \/ Local(p) \/ Crash(p)
  PROVE  IndexInv'
<1>1. UNCHANGED <<rows, index, warned>>
  BY DEF RecordMisses, Match, Measure, TeachRead, TeachWrite, TeachFails, TeachInfer,
         TeachGeneralize, PlaybookWrite, TeachPlaybook, AmendPlaybook, WritesFamily, TeachLookup,
         TeachPattern, Forget, Local, Crash, tables, ghosts
<1>2. CASE RecordMisses(p) \/ Match(p)
  BY <1>1, <1>2, ElsewhereIndex DEF RecordMisses, Match, Steps
<1>3. CASE Measure(p) \/ TeachPlaybook(p) \/ AmendPlaybook(p) \/ Forget(p)
  BY <1>1, <1>3, ElsewhereIndex, EndsIndex
  DEF Measure, TeachPlaybook, AmendPlaybook, WritesFamily, Forget, Steps
<1>4. CASE TeachRead(p) \/ TeachInfer(p) \/ TeachGeneralize(p)
  BY <1>1, <1>4, ElsewhereIndex, EndsIndex DEF TeachRead, TeachInfer, TeachGeneralize, Steps
<1>5. CASE TeachWrite(p)
  <2>1. (To(p, "read") \/ To(p, "measure")) /\ \E work : Keep(p, work)
    BY <1>5 DEF TeachWrite
  <2> QED BY <1>1, <2>1, ElsewhereIndex DEF Steps
<1>6. CASE \/ TeachFails(p) \/ PlaybookWrite(p) \/ TeachLookup(p) \/ TeachPattern(p) \/ Local(p)
           \/ Crash(p)
  BY <1>1, <1>6, EndsIndex DEF TeachFails, PlaybookWrite, TeachLookup, TeachPattern, Local, Crash
<1> QED BY <1>2, <1>3, <1>4, <1>5, <1>6

LEMMA StepIndex == IInv /\ IndexInv /\ [Next]_vars => IndexInv'
<1> SUFFICES ASSUME IInv, IndexInv, [Next]_vars PROVE IndexInv'
  OBVIOUS
<1>1. CASE UNCHANGED vars
  BY <1>1 DEF vars, tables, ghosts, IndexInv, IndexFollowsTable, Holds, Cmd
<1>2. ASSUME NEW p \in Procs, Step(p) PROVE IndexInv'
  BY <1>2, BeginIndex, PromoteIndex, AskIndex, StoreIndex, QuietIndex DEF Step
<1> QED BY <1>1, <1>2 DEF Next

(* upsertGenericResourceTx and UpsertBatch (store.go:1263, 1465): replies of  *)
(* any length, of any number of processes, leave the full-text index in step  *)
(* with every row whose last upsert printed no warning, whichever statements  *)
(* of the upserts failed, and leave nothing in it that is not in the table.   *)
THEOREM IndexAgrees == Spec => []IndexFollowsTable
<1>1. IndexInv => IndexFollowsTable
  BY DEF IndexInv
<1> QED BY <1>1, Invariance, InitIndex, StepIndex, PTL DEF Spec

--------------------------------------------------------------------------------
(* What a recall returns.  The order of the hits: scores are compared by      *)
(* cross multiplication, hits by verdict, kind, confidence, score, recency.   *)

Fractions == Nat \X (Nat \ {0})

LEMMA TimesGrows ==
  ASSUME NEW x \in Nat, NEW y \in Nat, NEW z \in Nat, x <= y PROVE x * z <= y * z
OBVIOUS

LEMMA TimesCancels ==
  ASSUME NEW x \in Nat, NEW y \in Nat, NEW z \in Nat \ {0}, x * z <= y * z PROVE x <= y
<1> SUFFICES ASSUME y + 1 <= x PROVE FALSE
  OBVIOUS
<1>1. (y + 1) * z <= x * z
  BY TimesGrows
<1>2. (y + 1) * z = y * z + z
  OBVIOUS
<1>3. x * z \in Nat /\ y * z \in Nat
  OBVIOUS
<1> QED BY <1>1, <1>2, <1>3

LEMMA GeqTransitive ==
  ASSUME NEW s \in Fractions, NEW t \in Fractions, NEW u \in Fractions, Geq(s, t), Geq(t, u)
  PROVE  Geq(s, u)
<1>1. /\ s[1] \in Nat /\ t[1] \in Nat /\ u[1] \in Nat
      /\ s[2] \in Nat \ {0} /\ t[2] \in Nat \ {0} /\ u[2] \in Nat \ {0}
  BY DEF Fractions
<1> DEFINE a == s[1] b == s[2] c == t[1] d == t[2] e == u[1] f == u[2]
<1>2. c * b <= a * d /\ e * d <= c * f
  BY <1>1 DEF Geq
<1>3. c * b \in Nat /\ a * d \in Nat /\ e * d \in Nat /\ c * f \in Nat /\ a * f \in Nat /\ e * b \in Nat
  BY <1>1
<1>4. SUFFICES e * b <= a * f
  BY <1>1, <1>3 DEF Geq
<1> HIDE DEF a, b, c, d, e, f
<1>5. (c * b) * f <= (a * d) * f /\ (e * d) * b <= (c * f) * b
  BY <1>1, <1>2, <1>3, TimesGrows DEF b, f
<1>6. /\ a \in Nat /\ b \in Nat /\ c \in Nat /\ d \in Nat \ {0} /\ e \in Nat /\ f \in Nat
  BY <1>1 DEF a, b, c, d, e, f
<1>7. (e * b) * d <= (a * f) * d
  <2>1. (c * b) * f = (c * f) * b /\ (a * d) * f = (a * f) * d /\ (e * d) * b = (e * b) * d
    BY <1>6
  <2>2. (c * f) * b \in Nat /\ (a * f) * d \in Nat /\ (e * b) * d \in Nat
    BY <1>6
  <2> QED BY <1>5, <2>1, <2>2
<1> QED BY <1>3, <1>6, <1>7, TimesCancels

LEMMA JaccardType ==
  ASSUME NEW a \in SUBSET Words, NEW b \in SUBSET Words PROVE Jaccard(a, b) \in Fractions
<1>1. CASE a = {} \/ b = {}
  BY <1>1 DEF Jaccard, Zero, Fractions
<1>2. CASE a # {} /\ b # {}
  <2>1. IsFiniteSet(a \cap b) /\ IsFiniteSet(a \cup b) /\ a \cup b # {}
    BY <1>2, RecallAssumption, FS_Subset
  <2>2. Cardinality(a \cap b) \in Nat /\ Cardinality(a \cup b) \in Nat /\ Cardinality(a \cup b) # 0
    BY <2>1, FS_CardinalityType, FS_EmptySet
  <2> QED BY <1>2, <2>2 DEF Jaccard, Fractions
<1> QED BY <1>1, <1>2

(* What the order of the hits compares.                                       *)
Ranked(h) ==
    /\ h.pattern \in BOOLEAN /\ h.conf \in Nat /\ h.at \in Nat /\ h.score \in Fractions

LEMMA PriorityType == ASSUME NEW h PROVE Priority(h) \in Nat
BY DEF Priority

LEMMA GeqTotal ==
  ASSUME NEW s \in Fractions, NEW t \in Fractions PROVE Geq(s, t) \/ Geq(t, s)
<1>1. /\ s[1] \in Nat /\ t[1] \in Nat /\ s[2] \in Nat /\ t[2] \in Nat
  BY DEF Fractions
<1>2. s[1] * t[2] \in Nat /\ t[1] * s[2] \in Nat
  BY <1>1
<1> QED BY <1>1, <1>2 DEF Geq

LEMMA BeforeIrreflexive == ASSUME NEW a, Ranked(a) PROVE ~ Before(a, a)
<1>1. Priority(a) \in Nat /\ a.conf \in Nat /\ a.at \in Nat
  BY PriorityType DEF Ranked
<1>2. ~(Priority(a) < Priority(a)) /\ ~(a.conf > a.conf) /\ ~(a.at > a.at)
  BY <1>1
<1>3. ~(~a.pattern /\ a.pattern)
  OBVIOUS
<1> QED BY <1>2, <1>3, Zenon DEF Before

(* Below the verdict and the kind, by confidence, score and recency.          *)
Newer(a, b) ==
    /\ Geq(a.score, b.score)
    /\ Geq(b.score, a.score) => a.at > b.at

LEMMA NewerTransitive ==
  ASSUME NEW a, NEW b, NEW c, Ranked(a), Ranked(b), Ranked(c), Newer(a, b), Newer(b, c)
  PROVE  Newer(a, c)
<1>1. Geq(a.score, c.score)
  BY GeqTransitive DEF Newer, Ranked
<1>2. ASSUME Geq(c.score, a.score) PROVE a.at > c.at
  <2>1. Geq(c.score, b.score) /\ Geq(b.score, a.score)
    BY <1>2, GeqTransitive DEF Newer, Ranked
  <2>2. a.at > b.at /\ b.at > c.at
    BY <2>1 DEF Newer
  <2> QED BY <2>2 DEF Ranked
<1> QED BY <1>1, <1>2 DEF Newer

Surer(a, b) == a.conf > b.conf \/ (a.conf = b.conf /\ Newer(a, b))

LEMMA SurerTransitive ==
  ASSUME NEW a, NEW b, NEW c, Ranked(a), Ranked(b), Ranked(c), Surer(a, b), Surer(b, c)
  PROVE  Surer(a, c)
<1>1. a.conf \in Nat /\ b.conf \in Nat /\ c.conf \in Nat
  BY DEF Ranked
<1>2. CASE a.conf > c.conf
  BY <1>2 DEF Surer
<1>3. CASE ~(a.conf > c.conf)
  <2>1. a.conf = b.conf /\ b.conf = c.conf /\ Newer(a, b) /\ Newer(b, c)
    BY <1>1, <1>3 DEF Surer
  <2> QED BY <2>1, NewerTransitive DEF Surer
<1> QED BY <1>2, <1>3

LEMMA BeforeIs ==
  ASSUME NEW a, NEW b, Ranked(a), Ranked(b)
  PROVE  Before(a, b) <=>
           \/ Priority(a) < Priority(b)
           \/ /\ Priority(a) = Priority(b)
              /\ \/ ~a.pattern /\ b.pattern
                 \/ a.pattern = b.pattern /\ Surer(a, b)
BY Zenon DEF Before, Surer, Newer

LEMMA BeforeTransitive ==
  ASSUME NEW a, NEW b, NEW c, Ranked(a), Ranked(b), Ranked(c), Before(a, b), Before(b, c)
  PROVE  Before(a, c)
<1>1. Priority(a) \in Nat /\ Priority(b) \in Nat /\ Priority(c) \in Nat
  BY PriorityType
<1>2. CASE Priority(a) < Priority(c)
  BY <1>2, BeforeIs
<1>3. CASE ~(Priority(a) < Priority(c))
  <2>1. Priority(a) <= Priority(b) /\ Priority(b) <= Priority(c)
    BY <1>1, BeforeIs
  <2>2. Priority(a) = Priority(b) /\ Priority(b) = Priority(c)
    BY <1>1, <1>3, <2>1
  <2>3. ~(Priority(a) < Priority(b)) /\ ~(Priority(b) < Priority(c))
    BY <1>1, <2>2
  <2>4. /\ (~a.pattern /\ b.pattern) \/ (a.pattern = b.pattern /\ Surer(a, b))
        /\ (~b.pattern /\ c.pattern) \/ (b.pattern = c.pattern /\ Surer(b, c))
    BY <2>3, BeforeIs
  <2>5. (~a.pattern /\ c.pattern) \/ (a.pattern = c.pattern /\ Surer(a, c))
    <3>1. CASE Surer(a, b) /\ Surer(b, c)
      <4>1. Surer(a, c)
        BY <3>1, SurerTransitive
      <4> QED BY <2>4, <4>1, Zenon
    <3>2. CASE ~(Surer(a, b) /\ Surer(b, c))
      BY <2>4, <3>2, Zenon
    <3> QED BY <3>1, <3>2
  <2> QED BY <2>2, <2>5, BeforeIs
<1> QED BY <1>2, <1>3

(* A hit that did not make it gave way to as many as a recall returns.        *)
LEMMA TopIsFull ==
  ASSUME NEW hits, IsFiniteSet(hits), \A h \in hits : Ranked(h), NEW lost \in hits \ Top(hits)
  PROVE  Cardinality(Top(hits)) >= Limit
<1> DEFINE Ahead(x) == {g \in hits : Before(g, x)}
           T == {Cardinality(Ahead(x)) : x \in hits \ Top(hits)}
<1>1. ASSUME NEW x \in hits PROVE IsFiniteSet(Ahead(x)) /\ Cardinality(Ahead(x)) \in Nat
  BY FS_Subset, FS_CardinalityType
<1>2. T \subseteq Nat /\ T # {}
  BY <1>1
<1>3. PICK least \in T : \A y \in T : least <= y
  <2> HIDE DEF T
  <2> QED BY <1>2, LeastExists
<1>4. PICK h \in hits \ Top(hits) : least = Cardinality(Ahead(h))
  BY <1>3
<1>5. ~(Cardinality(Ahead(h)) < Limit)
  BY <1>4 DEF Top
<1>6. Ahead(h) \subseteq Top(hits)
  <2> SUFFICES ASSUME NEW g \in Ahead(h), g \notin Top(hits) PROVE FALSE
    OBVIOUS
  <2>1. Ahead(g) \subseteq Ahead(h)
    BY BeforeTransitive
  <2>2. g \in hits /\ g \in Ahead(h) /\ g \notin Ahead(g)
    BY BeforeIrreflexive
  <2>3. Cardinality(Ahead(g)) <= Cardinality(Ahead(h)) /\ Cardinality(Ahead(g)) # Cardinality(Ahead(h))
    <3> HIDE DEF Ahead
    <3> QED BY <1>1, <1>4, <2>1, <2>2, FS_Subset
  <2>4. least <= Cardinality(Ahead(g))
    BY <1>3
  <2> HIDE DEF Ahead
  <2> QED BY <1>1, <1>4, <2>2, <2>3, <2>4
<1>7. IsFiniteSet(Top(hits)) /\ Cardinality(Top(hits)) \in Nat
  BY FS_Subset, FS_CardinalityType DEF Top
<1>8. Cardinality(Ahead(h)) <= Cardinality(Top(hits))
  <2> HIDE DEF Ahead
  <2> QED BY <1>6, <1>7, FS_Subset
<1>9. Limit \in Nat /\ Cardinality(Ahead(h)) \in Nat
  BY RecallAssumption, <1>1
<1> HIDE DEF Ahead
<1> QED BY <1>5, <1>7, <1>8, <1>9

--------------------------------------------------------------------------------
(* Matching: a row due is found, and with the verdict it deserves.            *)
LEMMA SelfJaccard ==
  ASSUME NEW a \in SUBSET Words, a # {}
  PROVE  Geq(Jaccard(a, a), JaccardMin) /\ Jaccard(a, a) # Zero
<1>1. Jaccard(a, a) = <<Cardinality(a), Cardinality(a)>>
  <2>1. a \cap a = a /\ a \cup a = a
    OBVIOUS
  <2> QED BY <2>1 DEF Jaccard
<1>2. Cardinality(a) \in Nat /\ Cardinality(a) # 0
  <2>1. IsFiniteSet(a)
    BY RecallAssumption, FS_Subset
  <2> QED BY <2>1, FS_CardinalityType, FS_EmptySet
<1>3. Cardinality(a) * 10 >= 6 * Cardinality(a)
  BY <1>2
<1> QED BY <1>1, <1>2, <1>3 DEF Geq, JaccardMin, Zero

(* How a query stands when it is matched: see Promote.                        *)
IsRead(n, res) ==
    /\ n.ents \cup n.rest # {} /\ n.rest \cap ReadStop = {}
    /\ \A w \in n.rest : res[w] = {}

LEMMA DueScore ==
  ASSUME NEW n \in Normals, NEW res, IsRead(n, res), n.ents \cap n.rest = {},
         NEW pattern, pattern = n.ents \cup n.rest, NEW row, row.ents = n.ents
  PROVE  Score(n, pattern, row, res) # Zero /\ StoredEntities(pattern, row, res) = n.ents
<1> DEFINE ents == StoredEntities(pattern, row, res)
<1>1. ents = n.ents
  <2>1. CASE n.ents # {}
    BY <2>1 DEF StoredEntities
  <2>2. CASE n.ents = {}
    BY <2>2 DEF StoredEntities, IsRead
  <2> QED BY <2>1, <2>2
<1>2. StoredRest(pattern, n.ents) = n.rest
  BY DEF StoredRest, IsRead
<1>3. n.ents \in SUBSET Words /\ n.rest \in SUBSET Words
  BY DEF Normals
<1> DEFINE shape == IF n.rest = {} /\ n.rest = {} /\ n.ents # {} /\ n.ents # {}
                    THEN Jaccard(n.ents, n.ents) ELSE Jaccard(n.rest, n.rest)
<1>4. Geq(shape, JaccardMin) /\ shape # Zero
  <2>1. CASE n.rest = {}
    <3>1. n.ents # {}
      BY <2>1 DEF IsRead
    <3> QED BY <2>1, <3>1, <1>3, SelfJaccard
  <2>2. CASE n.rest # {}
    BY <2>2, <1>3, SelfJaccard
  <2> QED BY <2>1, <2>2
<1>5. Score(n, pattern, row, res) = shape
  BY <1>1, <1>2, <1>4 DEF Score
<1> QED BY <1>1, <1>4, <1>5

LEMMA DueVerdict ==
  ASSUME NEW n \in Normals, NEW res, NEW cached
  PROVE  /\ Verdict(n, n.ents, cached, res) # "mismatch"
         /\ n.ents # {} /\ ~cached => Verdict(n, n.ents, cached, res) = "exact"
<1>1. n.ents # {} => ClassifyEntityMatch(n.ents, n.ents) = "exact"
  BY DEF ClassifyEntityMatch, Related
<1>2. ClassifyEntityMatch(n.ents, {}) = "partial"
  BY DEF ClassifyEntityMatch
<1> QED BY <1>1, <1>2 DEF Verdict

(* The image of a finite set is finite.                                       *)
LEMMA ImageIsFinite ==
  ASSUME NEW f, IsFiniteSet(DOMAIN f) PROVE IsFiniteSet({f[x] : x \in DOMAIN f})
<1> DEFINE R == {f[x] : x \in DOMAIN f}
           g == [x \in DOMAIN f |-> f[x]]
<1>1. g \in Surjection(DOMAIN f, R)
  BY DEF Surjection
<1> QED BY <1>1, FS_Surjection

LEMMA AllRanked ==
  ASSUME NEW n \in Normals, NEW rows0, NEW pats, NEW cached, NEW res,
         DOMAIN rows0 \subseteq LearningKeys, \A k \in DOMAIN rows0 : rows0[k] \in Learnings,
         \A p \in DOMAIN pats : p.shape \subseteq Words /\ pats[p] \in Nat,
         \A w \in Words : res[w] \subseteq Words
  PROVE  /\ \A h \in Matches(n, rows0, cached, res) : Ranked(h) /\ ~h.pattern
         /\ \A h \in PatternHits(n, pats, cached) : Ranked(h) /\ h.pattern /\ h.from = {}
<1>1. ASSUME NEW h \in Matches(n, rows0, cached, res) PROVE Ranked(h) /\ ~h.pattern
  <2>1. PICK k \in DOMAIN rows0 : h = DirectHit(n, k, rows0[k], cached, res)
    BY DEF Matches
  <2> DEFINE row == rows0[k]
  <2>2. k[1] \subseteq Words /\ row.ents \subseteq Words /\ row.conf \in Nat /\ row.at \in Nat
    BY DEF LearningKeys, Learnings
  <2>3. Score(n, k[1], row, res) \in Fractions
    <3> DEFINE ents == StoredEntities(k[1], row, res)
    <3>1. ents \in SUBSET Words /\ StoredRest(k[1], ents) \in SUBSET Words
      BY <2>2 DEF StoredEntities, StoredRest
    <3>2. ResolveSet(ents, res) \in SUBSET Words /\ ResolveSet(n.ents, res) \in SUBSET Words
      BY <3>1 DEF ResolveSet, Normals
    <3>3. n.ents \in SUBSET Words /\ n.rest \in SUBSET Words
      BY DEF Normals
    <3> HIDE DEF ents
    <3>4. /\ Jaccard(n.ents, ents) \in Fractions
          /\ Jaccard(n.rest, StoredRest(k[1], ents)) \in Fractions
          /\ Jaccard(ResolveSet(n.ents, res), ResolveSet(ents, res)) \in Fractions
          /\ Zero \in Fractions
      BY <3>1, <3>2, <3>3, JaccardType DEF Zero, Fractions
    <3> HIDE DEF row
    <3> QED BY <3>4 DEF Score, ents, Better
  <2> QED BY <2>1, <2>2, <2>3 DEF DirectHit, Ranked
<1>2. ASSUME NEW h \in PatternHits(n, pats, cached) PROVE Ranked(h) /\ h.pattern /\ h.from = {}
  <2>1. PICK p \in DOMAIN pats : /\ h.pattern = TRUE /\ h.from = {} /\ h.at = 0
                                 /\ h.conf = pats[p] /\ h.score = Jaccard(n.rest, p.shape)
    BY DEF PatternHits
  <2>2. h.pattern \in BOOLEAN /\ h.pattern
    BY <2>1, Zenon
  <2>3. Jaccard(n.rest, p.shape) \in Fractions
    BY JaccardType DEF Normals
  <2>4. h.conf \in Nat /\ h.at \in Nat /\ h.score \in Fractions /\ h.from = {}
    BY <2>1, <2>3
  <2> QED BY <2>2, <2>4, Zenon DEF Ranked
<1> QED BY <1>1, <1>2

LEMMA MatchesFinite ==
  ASSUME NEW n, NEW rows0, NEW cached, NEW res, IsFiniteSet(DOMAIN rows0)
  PROVE  IsFiniteSet(Matches(n, rows0, cached, res))
<1> DEFINE f == [k \in DOMAIN rows0 |-> DirectHit(n, k, rows0[k], cached, res)]
<1>1. IsFiniteSet({f[k] : k \in DOMAIN f})
  BY ImageIsFinite
<1>2. Matches(n, rows0, cached, res) \subseteq {f[k] : k \in DOMAIN f}
  BY DEF Matches
<1> QED BY <1>1, <1>2, FS_Subset

LEMMA PatternHitsFinite ==
  ASSUME NEW n, NEW pats, NEW cached, IsFiniteSet(DOMAIN pats)
  PROVE  IsFiniteSet(PatternHits(n, pats, cached))
<1> DEFINE Of(p) == LET fits == {r \in cached : \E w \in n.ents : Fits(r, p.template, w)}
           IN  IF ~Geq(Jaccard(n.rest, p.shape), JaccardMin) \/ fits = {} THEN {}
               ELSE {[resource |-> CHOOSE r \in fits : TRUE, from |-> {}, verdict |-> "exact",
                      pattern |-> TRUE, ents |-> {}, conf |-> pats[p], at |-> 0,
                      score |-> Jaccard(n.rest, p.shape)]}
           f == [p \in DOMAIN pats |-> Of(p)]
<1>1. PatternHits(n, pats, cached) = UNION {f[p] : p \in DOMAIN f}
  BY DEF PatternHits
<1>2. \A T \in {f[p] : p \in DOMAIN f} : IsFiniteSet(T)
  <2>1. ASSUME NEW p \in DOMAIN pats PROVE IsFiniteSet(Of(p))
    BY FS_EmptySet, FS_Singleton
  <2> QED BY <2>1
<1>3. DOMAIN f = DOMAIN pats
  OBVIOUS
<1> HIDE DEF f
<1>4. IsFiniteSet({f[p] : p \in DOMAIN f})
  BY <1>3, ImageIsFinite
<1> QED BY <1>1, <1>2, <1>4, FS_UNION

(* What a recall returns of a row that is due.                                *)
LEMMA DueIsReturned ==
  ASSUME NEW n \in Normals, NEW rows0, NEW pats, NEW cached, NEW res,
         DOMAIN rows0 \subseteq LearningKeys, \A k \in DOMAIN rows0 : rows0[k] \in Learnings,
         \A p \in DOMAIN pats : p.shape \subseteq Words /\ pats[p] \in Nat,
         \A w \in Words : res[w] \subseteq Words,
         IsFiniteSet(DOMAIN rows0), IsFiniteSet(DOMAIN pats), IsRead(n, res),
         NEW k \in DOMAIN rows0, rows0[k].ents = n.ents, n.ents \cap n.rest = {},
         k[1] = n.ents \cup n.rest
  PROVE  LET hits == Results(n, rows0, pats, cached, res)
         IN  (\E h \in hits : <<h.from, h.resource>> = k) \/ Cardinality(hits) >= Limit
<1> DEFINE direct == {h \in Matches(n, rows0, cached, res) : h.verdict # "mismatch"}
           extra  == {h \in PatternHits(n, pats, cached) :
                         \A d \in direct : d.resource # h.resource}
           hit == DirectHit(n, k, rows0[k], cached, res)
<1>1. IsFiniteSet(direct \cup extra)
  <2>1. IsFiniteSet(direct) /\ IsFiniteSet(extra)
    BY MatchesFinite, PatternHitsFinite, FS_Subset
  <2> HIDE DEF direct, extra
  <2> QED BY <2>1, FS_Union
<1>2. \A h \in direct \cup extra : Ranked(h)
  BY AllRanked
<1>3. hit \in direct
  <2>1. hit \in Matches(n, rows0, cached, res)
    BY DueScore DEF Matches, DirectHit
  <2>2. hit.verdict # "mismatch"
    BY DueScore, DueVerdict DEF DirectHit
  <2> QED BY <2>1, <2>2
<1>4. <<hit.from, hit.resource>> = k
  BY DEF DirectHit, LearningKeys
<1>5. Results(n, rows0, pats, cached, res) = Top(direct \cup extra)
  BY DEF Results
<1> HIDE DEF direct, extra, hit
<1>6. CASE hit \in Top(direct \cup extra)
  BY <1>4, <1>5, <1>6
<1>7. CASE hit \notin Top(direct \cup extra)
  BY <1>1, <1>2, <1>3, <1>5, <1>7, TopIsFull
<1> QED BY <1>6, <1>7

(* A hit on a row that is due, about a name, has the exact verdict.           *)
LEMMA DueIsExact ==
  ASSUME NEW n \in Normals, NEW rows0, NEW pats, NEW cached, NEW res, IsRead(n, res),
         DOMAIN rows0 \subseteq LearningKeys, n.ents # {}, n.ents \cap n.rest = {},
         NEW h \in Results(n, rows0, pats, cached, res), h.resource \notin cached,
         <<h.from, h.resource>> \in DOMAIN rows0, h.from = n.ents \cup n.rest,
         rows0[<<h.from, h.resource>>].ents = n.ents
  PROVE  h.verdict = "exact"
<1>1. CASE h \in PatternHits(n, pats, cached)
  BY <1>1 DEF PatternHits
<1>2. CASE h \in Matches(n, rows0, cached, res)
  <2>1. PICK k \in DOMAIN rows0 : h = DirectHit(n, k, rows0[k], cached, res)
    BY <1>2 DEF Matches
  <2>2. h.from = k[1] /\ h.resource = k[2] /\ k = <<k[1], k[2]>>
    BY <2>1 DEF DirectHit, LearningKeys
  <2>3. h.verdict = Verdict(n, n.ents, k[2] \in cached, res)
    BY <2>1, <2>2, DueScore DEF DirectHit
  <2> QED BY <2>2, <2>3, DueVerdict
<1> QED BY <1>1, <1>2 DEF Results, Top

(* What is inferred from finitely many learnings is finite, and of words.     *)
LEMMA InferredFinite ==
  ASSUME NEW rows0, DOMAIN rows0 \subseteq LearningKeys, IsFiniteSet(DOMAIN rows0)
  PROVE  /\ IsFiniteSet(Inferred(rows0))
         /\ \A x \in Inferred(rows0) : x.shape \subseteq Words
<1> DEFINE named  == {k \in DOMAIN rows0 : rows0[k].ents # {}}
           shapes == {Structural(k, rows0[k]) : k \in named} \ {{}}
           Group(s) == {k \in named : Structural(k, rows0[k]) = s}
           Ok(s) == /\ Cardinality(Group(s)) >= 2
                    /\ \A k \in Group(s) : Cardinality(rows0[k].ents) = 1
           First(s) == {i \in DOMAIN Kinds :
                          /\ Bound(Kinds[i], Group(s), rows0) # {}
                          /\ \A j \in 1 .. i - 1 : Bound(Kinds[j], Group(s), rows0) = {}}
           Templates(s) == UNION {Bound(Kinds[i], Group(s), rows0) : i \in First(s)}
           Made(s) == {[shape |-> s, template |-> t] : t \in Templates(s)}
           good == {x \in shapes : Ok(x)}
<1>1. Inferred(rows0) = UNION {Made(s) : s \in good}
  BY DEF Inferred
<1>2. IsFiniteSet(good) /\ \A s \in good : s \subseteq Words
  <2>1. IsFiniteSet(named)
    BY FS_Subset
  <2> DEFINE f == [k \in named |-> Structural(k, rows0[k])]
  <2>2. {Structural(k, rows0[k]) : k \in named} = {f[k] : k \in DOMAIN f}
    OBVIOUS
  <2>3. DOMAIN f = named
    OBVIOUS
  <2> HIDE DEF f
  <2>4. IsFiniteSet({f[k] : k \in DOMAIN f})
    BY <2>1, <2>3, ImageIsFinite
  <2>5. good \subseteq {f[k] : k \in DOMAIN f}
    BY <2>2
  <2>6. \A k \in named : Structural(k, rows0[k]) \subseteq Words
    BY DEF Structural, LearningKeys
  <2>7. \A s \in good : s \subseteq Words
    BY <2>6
  <2> HIDE DEF good
  <2> QED BY <2>4, <2>5, <2>7, FS_Subset
<1>3. ASSUME NEW s PROVE IsFiniteSet(Made(s))
  <2>1. IsFiniteSet(First(s))
    <3>1. DOMAIN Kinds = 1 .. Len(Kinds) /\ Len(Kinds) \in Nat
      BY RecallAssumption, LenProperties
    <3>2. First(s) \subseteq 1 .. Len(Kinds)
      BY <3>1
    <3>3. IsFiniteSet(1 .. Len(Kinds))
      BY <3>1, FS_Interval
    <3> HIDE DEF First
    <3> QED BY <3>2, <3>3, FS_Subset
  <2> DEFINE b == [i \in First(s) |-> Bound(Kinds[i], Group(s), rows0)]
  <2>2. Templates(s) = UNION {b[i] : i \in DOMAIN b}
    OBVIOUS
  <2>3. \A T \in {b[i] : i \in DOMAIN b} : IsFiniteSet(T)
    <3>1. ASSUME NEW kind, NEW keys PROVE IsFiniteSet(Bound(kind, keys, rows0))
      BY FS_EmptySet, FS_Singleton DEF Bound
    <3> QED BY <3>1
  <2>4. DOMAIN b = First(s)
    OBVIOUS
  <2>5. IsFiniteSet(Templates(s))
    <3> HIDE DEF b, First, Templates
    <3>1. IsFiniteSet({b[i] : i \in DOMAIN b})
      BY <2>1, <2>4, ImageIsFinite
    <3> QED BY <2>2, <2>3, <3>1, FS_UNION
  <2> DEFINE f == [t \in Templates(s) |-> [shape |-> s, template |-> t]]
  <2>6. Made(s) = {f[t] : t \in DOMAIN f} /\ DOMAIN f = Templates(s)
    <3> HIDE DEF Templates
    <3> QED OBVIOUS
  <2> HIDE DEF f, Templates, Made
  <2> QED BY <2>5, <2>6, ImageIsFinite
<1>4. \A s : \A x \in Made(s) : x.shape = s
  <2> HIDE DEF Templates
  <2> QED OBVIOUS
<1> DEFINE g == [s \in good |-> Made(s)]
<1>5. {Made(s) : s \in good} = {g[s] : s \in DOMAIN g} /\ DOMAIN g = good
  <2> HIDE DEF Made, good
  <2> QED OBVIOUS
<1>6. \A T \in {Made(s) : s \in good} : IsFiniteSet(T)
  <2> HIDE DEF Made, good
  <2> QED BY <1>3
<1> HIDE DEF g, Made, good
<1>7. IsFiniteSet({Made(s) : s \in good})
  BY <1>2, <1>5, ImageIsFinite
<1>8. IsFiniteSet(UNION {Made(s) : s \in good})
  BY <1>6, <1>7, FS_UNION
<1> QED BY <1>1, <1>2, <1>4, <1>8

--------------------------------------------------------------------------------
(* The inductive invariant.                                                   *)

Sound(pats) == IsFiniteSet(pats) /\ \A x \in pats : x.shape \subseteq Words

ReadOK(p) ==
    /\ pc[p] \in {"misses", "match"} =>
          loc[p].norm.rest \subseteq DOMAIN loc[p].cache /\ IsRead(loc[p].norm, loc[p].cache)
    /\ pc[p] = "generalize" => Sound(loc[p].inferred)
    /\ pc[p] = "teach-pattern" => Cmd(p).kind = "teach-pattern"

(* A row keeps the names its query had when it was inserted.                  *)
RowsOK ==
    /\ IsFiniteSet(DOMAIN learnings) /\ Sound(DOMAIN patterns)
    /\ DOMAIN origin = DOMAIN learnings
    /\ \A k \in DOMAIN learnings : learnings[k].ents = origin[k].ents

DueInv == RowsOK /\ UndisturbedIsRecalled /\ \A p \in Procs : ReadOK(p)

LEMMA InitDue == Init => DueInv
<1> SUFFICES ASSUME Init PROVE DueInv
  OBVIOUS
<1>1. RowsOK
  BY FS_EmptySet DEF Init, RowsOK, Sound
<1>2. UndisturbedIsRecalled
  BY DEF Init, UndisturbedIsRecalled, Nothing
<1>3. \A p \in Procs : ReadOK(p)
  BY DEF Init, ReadOK
<1> QED BY <1>1, <1>2, <1>3 DEF DueInv

LEMMA OthersRead ==
  ASSUME DueInv, NEW p \in Procs, Own(p), ReadOK(p)' PROVE \A q \in Procs : ReadOK(q)'
<1> SUFFICES ASSUME NEW q \in Procs, q # p PROVE ReadOK(q)'
  OBVIOUS
<1>1. pc'[q] = pc[q] /\ loc'[q] = loc[q] /\ ReadOK(q)
  BY DEF Own, DueInv
<1> QED BY <1>1 DEF ReadOK, Cmd

(* A step to none of the steps ReadOK is about.                               *)
LEMMA ReadsNothing ==
  ASSUME IInv, DueInv, NEW p \in Procs,
         NEW step \in Steps \ {"misses", "match", "generalize", "teach-pattern"}, To(p, step),
         UNCHANGED loc \/ \E work : Keep(p, work)
  PROVE  \A q \in Procs : ReadOK(q)'
<1>1. pc \in [Procs -> Steps] /\ DOMAIN loc = Procs
  BY DEF IInv, TypeOK
<1>2. Own(p)
  BY <1>1 DEF Own, To, Keep
<1>3. ReadOK(p)'
  BY <1>1 DEF To, ReadOK
<1> QED BY <1>2, <1>3, OthersRead

LEMMA RecalledKeeps ==
  ASSUME DueInv, \A q \in Procs : answer'[q] = answer[q] \/ answer'[q].kind # "recall"
  PROVE  UndisturbedIsRecalled'
<1> DEFINE P(a) == a.kind = "recall" =>
             /\ a.due \subseteq Recalled(a) \/ Cardinality(a.results) >= Limit
             /\ \A h \in a.results :
                   (/\ <<h.from, h.resource>> \in a.due
                    /\ a.norm.ents # {} /\ h.resource \notin a.cached) => h.verdict = "exact"
<1>1. \A q \in Procs : P(answer[q])
  BY DEF DueInv, UndisturbedIsRecalled
<1>2. \A q \in Procs : P(answer'[q])
  <2>1. ASSUME NEW q \in Procs, answer'[q] = answer[q] PROVE P(answer'[q])
    <3>1. P(answer[q])
      BY <1>1
    <3> HIDE DEF P
    <3> QED BY <2>1, <3>1
  <2>2. ASSUME NEW q \in Procs, answer'[q].kind # "recall" PROVE P(answer'[q])
    BY <2>2
  <2> HIDE DEF P
  <2> QED BY <2>1, <2>2
<1> QED BY <1>2 DEF UndisturbedIsRecalled, Recalled

(* A step that touches neither the rows nor the answers.                      *)
LEMMA ElsewhereDue ==
  ASSUME IInv, DueInv, NEW p \in Procs, UNCHANGED <<learnings, patterns, origin>>,
         \A q \in Procs : answer'[q] = answer[q] \/ answer'[q].kind # "recall",
         \A q \in Procs : ReadOK(q)'
  PROVE  DueInv'
<1>1. RowsOK'
  BY DEF DueInv, RowsOK
<1> QED BY <1>1, RecalledKeeps DEF DueInv

LEMMA EndsRead ==
  ASSUME IInv, DueInv, NEW p \in Procs, Ends(p) PROVE \A q \in Procs : ReadOK(q)'
BY ReadsNothing DEF Ends, Steps

LEMMA BeginDue == ASSUME IInv, DueInv, NEW p \in Procs, Begin(p) PROVE DueInv'
<1>1. PICK c \in Commands :
        /\ Keep(p, [NoWork EXCEPT !.cmd = c])
        /\ To(p, CASE c.kind \in AsksQuery -> "promote"
                   [] c.kind = "theater" -> IF c.source = "local" THEN "local" ELSE "ask"
                   [] OTHER -> c.kind)
  BY DEF Begin
<1>2. UNCHANGED <<learnings, patterns, origin>>
  BY DEF Begin, tables, ghosts
<1>3. \A q \in Procs : answer'[q] = answer[q] \/ answer'[q].kind # "recall"
  BY DEF Begin, IInv, TypeOK, Nothing
<1>4. c.kind \in AsksQuery \cup {"teach-lookup", "teach-pattern", "forget", "theater"}
  BY LearnAssumption
<1>5. pc \in [Procs -> Steps] /\ DOMAIN loc = Procs
  BY DEF IInv, TypeOK
<1>6. \A q \in Procs : ReadOK(q)'
  <2>1. CASE c.kind = "teach-pattern"
    <3>1. To(p, "teach-pattern")
      BY <1>1, <2>1 DEF AsksQuery
    <3>2. Own(p) /\ pc'[p] = "teach-pattern" /\ loc'[p].cmd = c
      BY <1>1, <1>5, <3>1 DEF Own, To, Keep, Steps, NoWork
    <3>3. ReadOK(p)'
      BY <2>1, <3>2 DEF ReadOK, Cmd
    <3> QED BY <3>2, <3>3, OthersRead
  <2>2. CASE c.kind # "teach-pattern"
    <3>1. PICK step \in {"promote", "local", "ask", "teach-lookup", "forget"} : To(p, step)
      BY <1>1, <1>4, <2>2 DEF AsksQuery
    <3> QED BY <1>1, <3>1, ReadsNothing DEF Steps
  <2> QED BY <2>1, <2>2
<1> QED BY <1>2, <1>3, <1>6, ElsewhereDue

(* The words left in the rest of a query resolved to nothing.                 *)
LEMMA PromotedIsRead ==
  ASSUME NEW q, NEW raw, raw = Normalize(q), ~Cold(raw), NEW res,
         res = [w \in raw.ents \cup raw.rest |-> Resolve(lookups, w)],
         NEW n, n = PromoteEntities(raw, res)
  PROVE  n.rest \subseteq DOMAIN res /\ IsRead(n, res)
<1>1. n.rest = {w \in raw.rest : ~(res[w] # {})} /\ n.ents = raw.ents \cup {w \in raw.rest : res[w] # {}}
  BY DEF PromoteEntities
<1>2. raw.rest \cap ReadStop = {}
  BY DEF Normalize, Extract
<1>3. n.ents \cup n.rest # {}
  BY <1>1 DEF Cold
<1> QED BY <1>1, <1>2, <1>3 DEF IsRead

LEMMA PromoteDue == ASSUME IInv, DueInv, NEW p \in Procs, Promote(p) PROVE DueInv'
<1>1. UNCHANGED <<learnings, patterns, origin, answer>>
  BY DEF Promote, tables, ghosts
<1>2. pc \in [Procs -> Steps] /\ DOMAIN loc = Procs /\ DOMAIN loc[p] = DOMAIN NoWork
  BY DEF IInv, TypeOK, WorkOK
<1> DEFINE raw   == Normalize(Cmd(p).query)
           cache == [w \in raw.ents \cup raw.rest |-> Resolve(lookups, w)]
           n     == PromoteEntities(raw, cache)
           read  == [loc[p] EXCEPT !.norm = n, !.cache = cache]
<1>3. \/ \E step \in {"idle", "read", "family"} : \E work : To(p, step) /\ Keep(p, work)
      \/ /\ ~Cold(raw) /\ Keep(p, read)
         /\ \E step \in {"misses", "match"} : To(p, step)
  <2>1. CASE Cmd(p).kind = "teach"
    BY <2>1 DEF Promote
  <2>2. CASE Cmd(p).kind \in {"teach-playbook", "amend"}
    BY <2>2 DEF Promote, Ends
  <2>3. CASE ~(Cmd(p).kind = "teach") /\ ~(Cmd(p).kind \in {"teach-playbook", "amend"})
    <3>1. IF Cold(raw) THEN Ends(p)
          ELSE /\ To(p, IF Unresolved(n, cache) # {} THEN "misses" ELSE "match")
               /\ Keep(p, read)
      BY <2>3 DEF Promote
    <3> HIDE DEF raw, cache, n, read
    <3> QED BY <3>1 DEF Ends
  <2> QED BY <2>1, <2>2, <2>3
<1>4. ASSUME NEW step \in {"idle", "read", "family"}, NEW work, To(p, step), Keep(p, work)
      PROVE  \A q \in Procs : ReadOK(q)'
  BY <1>4, ReadsNothing DEF Steps
<1>5. ASSUME ~Cold(raw), Keep(p, read), NEW step \in {"misses", "match"}, To(p, step)
      PROVE  \A q \in Procs : ReadOK(q)'
  <2>1. n.rest \subseteq DOMAIN cache /\ IsRead(n, cache)
    BY <1>5, PromotedIsRead
  <2> HIDE DEF raw, cache, n
  <2>2. Own(p) /\ pc'[p] = step /\ loc'[p].norm = n /\ loc'[p].cache = cache
    BY <1>2, <1>5 DEF Own, To, Keep, Steps, NoWork
  <2>3. ReadOK(p)'
    BY <2>1, <2>2 DEF ReadOK, IsRead
  <2> QED BY <2>2, <2>3, OthersRead
<1>6. \A q \in Procs : ReadOK(q)'
  <2> HIDE DEF raw, read
  <2> QED BY <1>3, <1>4, <1>5
<1> QED BY <1>1, <1>6, ElsewhereDue

LEMMA RecordMissesDue == ASSUME IInv, DueInv, NEW p \in Procs, RecordMisses(p) PROVE DueInv'
<1>1. UNCHANGED <<learnings, patterns, origin, answer, loc>> /\ To(p, "match") /\ pc[p] = "misses"
  BY DEF RecordMisses, ghosts
<1>2. pc \in [Procs -> Steps] /\ DOMAIN loc = Procs
  BY DEF IInv, TypeOK
<1>3. Own(p) /\ pc'[p] = "match" /\ loc'[p] = loc[p]
  BY <1>1, <1>2 DEF Own, To, Steps
<1>4. ReadOK(p)'
  BY <1>1, <1>3 DEF DueInv, ReadOK
<1>5. \A q \in Procs : ReadOK(q)'
  BY <1>3, <1>4, OthersRead
<1> QED BY <1>1, <1>5, ElsewhereDue

LEMMA MatchDue == ASSUME IInv, DueInv, NEW p \in Procs, Match(p) PROVE DueInv'
<1>1. /\ UNCHANGED <<learnings, patterns, origin, loc>> /\ To(p, "measure") /\ pc[p] = "match"
      /\ answer' = [answer EXCEPT ![p] = Answer(p)]
  BY DEF Match, tables, ghosts
<1>2. \A q \in Procs : ReadOK(q)'
  BY <1>1, ReadsNothing DEF Steps
<1>3. RowsOK'
  BY <1>1 DEF DueInv, RowsOK
<1> DEFINE n == loc[p].norm
           a == Answer(p)
           res == Seen(p)
<1>4. /\ a.norm = n /\ a.results = Results(n, learnings, patterns, Cached, res)
      /\ a.due = Due(n) /\ a.cached = Cached
  BY DEF Answer
<1>5. /\ n \in Normals /\ n.rest \subseteq DOMAIN loc[p].cache /\ IsRead(n, loc[p].cache)
      /\ \A w \in DOMAIN loc[p].cache : loc[p].cache[w] \subseteq Resolve(lookups, w)
  BY <1>1 DEF IInv, WorkOK, DueInv, ReadOK
<1>6. IsRead(n, res) /\ \A w \in Words : res[w] \subseteq Words
  <2>1. \A w : Resolve(lookups, w) \subseteq Words
    BY DEF IInv, TypeOK, LookupRows, Resolve
  <2>2. \A w \in Words : res[w] = IF w \in DOMAIN loc[p].cache THEN loc[p].cache[w]
                                  ELSE Resolve(lookups, w)
    BY DEF Seen
  <2>3. n.rest \subseteq Words
    BY <1>5 DEF Normals
  <2> HIDE DEF n, res
  <2> QED BY <1>5, <2>1, <2>2, <2>3 DEF IsRead
<1>7. /\ DOMAIN learnings \subseteq LearningKeys /\ \A k \in DOMAIN learnings : learnings[k] \in Learnings
      /\ \A x \in DOMAIN patterns : x.shape \subseteq Words /\ patterns[x] \in Nat
      /\ IsFiniteSet(DOMAIN learnings) /\ IsFiniteSet(DOMAIN patterns)
  BY DEF IInv, TypeOK, DueInv, RowsOK, Sound
<1>8. \A k \in Due(n) : /\ k \in DOMAIN learnings /\ learnings[k].ents = n.ents
                        /\ k[1] = n.ents \cup n.rest /\ n.ents \cap n.rest = {}
  BY DEF Due, DueInv, RowsOK
<1> HIDE DEF n, a, res
<1>9. a.due \subseteq Recalled(a) \/ Cardinality(a.results) >= Limit
  <2> SUFFICES ASSUME NEW k \in a.due, k \notin Recalled(a) PROVE Cardinality(a.results) >= Limit
    OBVIOUS
  <2> QED BY <1>4, <1>5, <1>6, <1>7, <1>8, DueIsReturned DEF Recalled
<1>10. ASSUME NEW h \in a.results, <<h.from, h.resource>> \in a.due, a.norm.ents # {},
              h.resource \notin a.cached
       PROVE  h.verdict = "exact"
  <2> DEFINE k == <<h.from, h.resource>>
  <2>1. k \in DOMAIN learnings /\ learnings[k].ents = n.ents
        /\ h.from = n.ents \cup n.rest /\ n.ents \cap n.rest = {}
    BY <1>4, <1>8, <1>10
  <2>2. n.ents # {} /\ h.resource \notin Cached /\ h \in Results(n, learnings, patterns, Cached, res)
    BY <1>4, <1>10
  <2> QED BY <1>5, <1>6, <1>7, <2>1, <2>2, DueIsExact
<1>11. \A q \in Procs : answer'[q] = IF q = p THEN a ELSE answer[q]
  BY <1>1 DEF IInv, TypeOK, a
<1>12. UndisturbedIsRecalled'
  <2> SUFFICES ASSUME NEW q \in Procs, answer'[q].kind = "recall"
               PROVE  LET b == answer'[q] IN
                 /\ b.due \subseteq Recalled(b) \/ Cardinality(b.results) >= Limit
                 /\ \A h \in b.results :
                       (/\ <<h.from, h.resource>> \in b.due
                        /\ b.norm.ents # {} /\ h.resource \notin b.cached) => h.verdict = "exact"
    BY DEF UndisturbedIsRecalled, Recalled
  <2>1. CASE q = p
    <3>1. answer'[q] = a
      BY <1>11, <2>1
    <3> QED BY <1>9, <1>10, <3>1 DEF Recalled
  <2>2. CASE q # p
    <3>1. answer'[q] = answer[q]
      BY <1>11, <2>2
    <3> QED BY <3>1 DEF DueInv, UndisturbedIsRecalled, Recalled
  <2> QED BY <2>1, <2>2
<1> QED BY <1>2, <1>3, <1>12 DEF DueInv

LEMMA TeachWriteDue == ASSUME IInv, DueInv, NEW p \in Procs, TeachWrite(p) PROVE DueInv'
<1>1. /\ p \in current /\ UNCHANGED <<patterns, answer>> /\ learnings' = Upserted(p)
      /\ origin' = IF Key(p) \in DOMAIN origin THEN origin ELSE Put(origin, Key(p), loc[p].norm)
  BY DEF TeachWrite, UpToDate
<1>2. (To(p, "read") \/ To(p, "measure")) /\ \E work : Keep(p, work)
  BY DEF TeachWrite
<1>3. \A q \in Procs : ReadOK(q)'
  BY <1>2, ReadsNothing DEF Steps
<1>4. loc[p].found <=> Key(p) \in DOMAIN learnings
  BY <1>1 DEF IInv, Snapshot
<1>5. DOMAIN learnings' = DOMAIN learnings \cup {Key(p)}
  BY <1>1 DEF Upserted, Put
<1>6. DOMAIN origin' = DOMAIN learnings'
  BY <1>1, <1>5 DEF DueInv, RowsOK, Put
<1>7. IsFiniteSet(DOMAIN learnings')
  BY <1>5, FS_AddElement DEF DueInv, RowsOK
<1>8. ASSUME NEW k \in DOMAIN learnings' PROVE learnings'[k].ents = origin'[k].ents
  <2>1. CASE k = Key(p) /\ k \in DOMAIN learnings
    <3>1. learnings'[k] = [learnings[k] EXCEPT !.conf = @ + 1, !.at = clock + 1]
      BY <1>1, <1>4, <2>1 DEF Upserted, Put
    <3>2. learnings[k] \in Learnings
      BY <2>1 DEF IInv, TypeOK
    <3>3. learnings'[k].ents = learnings[k].ents
      BY <3>1, <3>2 DEF Learnings
    <3>4. origin' = origin
      BY <1>1, <2>1 DEF DueInv, RowsOK
    <3> QED BY <2>1, <3>3, <3>4 DEF DueInv, RowsOK
  <2>2. CASE k = Key(p) /\ k \notin DOMAIN learnings
    <3>1. learnings'[k].ents = loc[p].norm.ents
      BY <1>1, <1>4, <2>2 DEF Upserted, Put
    <3>2. origin'[k] = loc[p].norm
      BY <1>1, <2>2 DEF DueInv, RowsOK, Put
    <3> QED BY <3>1, <3>2
  <2>3. CASE k # Key(p)
    <3>1. k \in DOMAIN learnings /\ learnings'[k] = learnings[k]
      BY <1>1, <1>5, <2>3 DEF Upserted, Put
    <3>2. origin'[k] = origin[k]
      BY <1>1, <2>3, <3>1 DEF DueInv, RowsOK, Put
    <3> QED BY <3>1, <3>2 DEF DueInv, RowsOK
  <2> QED BY <2>1, <2>2, <2>3
<1>9. RowsOK'
  BY <1>1, <1>6, <1>7, <1>8 DEF DueInv, RowsOK
<1> QED BY <1>1, <1>3, <1>9, RecalledKeeps DEF DueInv

LEMMA ForgetDue == ASSUME IInv, DueInv, NEW p \in Procs, Forget(p) PROVE DueInv'
<1>1. PICK gone \in SUBSET DOMAIN learnings :
        learnings' = Without(learnings, gone) /\ origin' = Without(origin, gone)
  BY DEF Forget
<1>2. UNCHANGED <<patterns, answer>>
  BY DEF Forget
<1>3. Ends(p) \/ (To(p, "measure") /\ UNCHANGED loc)
  BY DEF Forget
<1>4. \A q \in Procs : ReadOK(q)'
  BY <1>3, EndsRead, ReadsNothing DEF Steps
<1>5. DOMAIN learnings' = DOMAIN learnings \ gone /\ DOMAIN origin' = DOMAIN learnings'
  BY <1>1 DEF Without, DueInv, RowsOK
<1>6. IsFiniteSet(DOMAIN learnings')
  BY <1>5, FS_Subset DEF DueInv, RowsOK
<1>7. \A k \in DOMAIN learnings' : learnings'[k].ents = origin'[k].ents
  BY <1>1, <1>5 DEF Without, DueInv, RowsOK
<1>8. RowsOK'
  BY <1>2, <1>5, <1>6, <1>7 DEF DueInv, RowsOK
<1> QED BY <1>2, <1>4, <1>8, RecalledKeeps DEF DueInv

LEMMA TeachInferDue == ASSUME IInv, DueInv, NEW p \in Procs, TeachInfer(p) PROVE DueInv'
<1>1. /\ UNCHANGED <<learnings, patterns, origin, answer>> /\ To(p, "generalize")
      /\ Keep(p, [loc[p] EXCEPT !.inferred = Inferred(learnings)])
  BY DEF TeachInfer, tables, ghosts
<1>2. Sound(Inferred(learnings))
  BY InferredFinite DEF IInv, TypeOK, DueInv, RowsOK, Sound
<1>3. pc \in [Procs -> Steps] /\ DOMAIN loc = Procs /\ DOMAIN loc[p] = DOMAIN NoWork
  BY DEF IInv, TypeOK, WorkOK
<1>4. Own(p) /\ pc'[p] = "generalize" /\ loc'[p].inferred = Inferred(learnings)
  BY <1>1, <1>3 DEF Own, To, Keep, Steps, NoWork
<1>5. ReadOK(p)'
  BY <1>2, <1>4 DEF ReadOK, Sound
<1>6. \A q \in Procs : ReadOK(q)'
  BY <1>4, <1>5, OthersRead
<1> QED BY <1>1, <1>6, ElsewhereDue

(* Patterns learned or taught keep the table finite and over words.           *)
LEMMA GeneralizedDue ==
  ASSUME IInv, DueInv, NEW new, Sound(new), patterns' = Generalized(new),
         UNCHANGED <<learnings, origin, answer>>, \A q \in Procs : ReadOK(q)'
  PROVE  DueInv'
<1>1. DOMAIN patterns' = DOMAIN patterns \cup new
  BY DEF Generalized
<1>2. Sound(DOMAIN patterns')
  BY <1>1, FS_Union DEF Sound, DueInv, RowsOK
<1>3. RowsOK'
  BY <1>2 DEF DueInv, RowsOK
<1> QED BY <1>3, RecalledKeeps DEF DueInv

LEMMA TeachGeneralizeDue ==
  ASSUME IInv, DueInv, NEW p \in Procs, TeachGeneralize(p) PROVE DueInv'
<1>1. PICK done \in SUBSET loc[p].inferred : patterns' = Generalized(done)
  BY DEF TeachGeneralize
<1>2. UNCHANGED <<learnings, origin, answer>> /\ pc[p] = "generalize"
  BY DEF TeachGeneralize, ghosts
<1>3. Ends(p) \/ (To(p, "playbook") /\ UNCHANGED loc)
  BY DEF TeachGeneralize
<1>4. \A q \in Procs : ReadOK(q)'
  BY <1>3, EndsRead, ReadsNothing DEF Steps
<1>5. Sound(done)
  BY <1>2, FS_Subset DEF DueInv, ReadOK, Sound
<1> QED BY <1>1, <1>2, <1>4, <1>5, GeneralizedDue

LEMMA TeachPatternDue == ASSUME IInv, DueInv, NEW p \in Procs, TeachPattern(p) PROVE DueInv'
<1>1. /\ patterns' = Generalized({Cmd(p).pattern}) /\ pc[p] = "teach-pattern" /\ Ends(p)
      /\ UNCHANGED <<learnings, origin, answer>>
  BY DEF TeachPattern, ghosts
<1>2. Cmd(p) \in Kinded("teach-pattern")
  BY <1>1 DEF IInv, WorkOK, DueInv, ReadOK, Kinded
<1>3. Sound({Cmd(p).pattern})
  BY <1>2, LearnAssumption, FS_Singleton DEF Sound
<1> QED BY <1>1, <1>3, EndsRead, GeneralizedDue

LEMMA QuietDue ==
  ASSUME IInv, DueInv, NEW p \in Procs,
         \/ Measure(p) \/ TeachRead(p) \/ TeachFails(p) \/ PlaybookWrite(p) \/ TeachPlaybook(p)
         \/ AmendPlaybook(p) \/ TeachLookup(p) \/ Ask(p) \/ Store(p) \/ Local(p) \/ Crash(p)
  PROVE  DueInv'
<1>1. UNCHANGED <<learnings, patterns, origin>>
  BY DEF Measure, TeachRead, TeachFails, PlaybookWrite, TeachPlaybook, AmendPlaybook,
         WritesFamily, TeachLookup, Ask, Store, Local, Crash, tables, ghosts
<1>2. \A q \in Procs : answer'[q] = answer[q] \/ answer'[q].kind # "recall"
  <2>1. DOMAIN answer = Procs
    BY DEF IInv, TypeOK
  <2>2. CASE UNCHANGED answer
    BY <2>2
  <2>3. CASE Local(p) \/ Crash(p)
    BY <2>1, <2>3 DEF Local, Crash, Nothing
  <2>4. UNCHANGED answer \/ Local(p) \/ Crash(p)
    BY DEF Measure, TeachRead, TeachFails, PlaybookWrite, TeachPlaybook, AmendPlaybook,
           WritesFamily, TeachLookup, Ask, Store
  <2> QED BY <2>2, <2>3, <2>4
<1>3. CASE TeachFails(p) \/ PlaybookWrite(p) \/ TeachLookup(p) \/ Store(p) \/ Local(p) \/ Crash(p)
  <2>1. Ends(p)
    BY <1>3 DEF TeachFails, PlaybookWrite, TeachLookup, Store, Local, Crash
  <2> QED BY <1>1, <1>2, <2>1, EndsRead, ElsewhereDue
<1>4. CASE Measure(p) \/ TeachPlaybook(p) \/ AmendPlaybook(p) \/ TeachRead(p) \/ Ask(p)
  <2>1. \/ Ends(p)
        \/ \E step \in {"infer", "measure", "write", "store", "local"} :
              To(p, step) /\ (UNCHANGED loc \/ \E work : Keep(p, work))
    BY <1>4 DEF Measure, TeachPlaybook, AmendPlaybook, WritesFamily, TeachRead, Ask
  <2>2. \A q \in Procs : ReadOK(q)'
    <3>1. CASE Ends(p)
      BY <3>1, EndsRead
    <3>2. ASSUME NEW step \in {"infer", "measure", "write", "store", "local"}, To(p, step),
                 UNCHANGED loc \/ \E work : Keep(p, work)
          PROVE  \A q \in Procs : ReadOK(q)'
      BY <3>2, ReadsNothing DEF Steps
    <3> QED BY <2>1, <3>1, <3>2
  <2> QED BY <1>1, <1>2, <2>2, ElsewhereDue
<1> QED BY <1>3, <1>4

LEMMA StepDue == IInv /\ DueInv /\ [Next]_vars => DueInv'
<1> SUFFICES ASSUME IInv, DueInv, [Next]_vars PROVE DueInv'
  OBVIOUS
<1>1. CASE UNCHANGED vars
  <2>1. RowsOK' /\ \A q \in Procs : ReadOK(q)'
    BY <1>1 DEF vars, tables, ghosts, DueInv, RowsOK, ReadOK, Cmd
  <2> QED BY <1>1, <2>1, RecalledKeeps DEF vars, DueInv
<1>2. ASSUME NEW p \in Procs, Step(p) PROVE DueInv'
  BY <1>2, BeginDue, PromoteDue, RecordMissesDue, MatchDue, TeachWriteDue, TeachInferDue,
     TeachGeneralizeDue, TeachPatternDue, ForgetDue, QuietDue DEF Step
<1> QED BY <1>1, <1>2 DEF Next

(* Recall (recall.go:220-520): for any learnings, patterns, lookups and cache *)
(* a query read as it was when a row of its was written is answered by that   *)
(* row, or by as many others as a recall returns, whoever taught, forgot or   *)
(* looked up anything in between.                                             *)
THEOREM DueIsRecalled == Spec => []UndisturbedIsRecalled
<1>1. DueInv => UndisturbedIsRecalled
  BY DEF DueInv
<1> QED BY <1>1, Invariance, InitDue, StepDue, PTL DEF Spec
=================================================================================
