------------------------------- MODULE Surfacing --------------------------------
(* The candidates section of a recall's answer (surfaceCandidates): one       *)
(* bounded SELECT over the open rows of learn_candidates, ranked again in Go  *)
(* and cut.  A recall reads the table at one point between the steps of       *)
(* Candidates, so the section is a function of the table at that point.       *)
EXTENDS Candidates, Integers, Sequences

CONSTANTS
    ScanLimits,   \* values of candidateScanLimit tried
    SurfaceCap    \* candidateSurfaceCap

ASSUME SurfacingAssumption ==
    ScanLimits \subseteq Nat /\ SurfaceCap \in Nat \ {0} /\ \A n \in ScanLimits : n >= SurfaceCap

Open == {s \in Sigs : cand[s].status = "open"}

(* Lexicographic order of two tuples of numbers, smaller first.               *)
Precedes(a, b) == \E k \in DOMAIN a : a[k] < b[k] /\ \A j \in 1 .. k - 1 : a[j] = b[j]

(* The first n of the ranked.                                                 *)
First(rank, n) ==
    {s \in DOMAIN rank : Cardinality({t \in DOMAIN rank : Precedes(rank[t], rank[s])}) < n}

Anchored(s, f) == f # None /\ cand[s].family = f

(* sightings and last_seen_at from large to small, then the id.               *)
Standing(s, seen) == <<MaxSightings - cand[s].sightings, 0 - seen[s], cand[s].id>>

(* Mutant: the scan is by standing alone.                                     *)
ScannedByStanding(f, seen, limit) == First([s \in Open |-> Standing(s, seen)], limit)

(* The SELECT: rows of the query's family before all others.                  *)
Scanned(f, seen, limit) ==
    First([s \in Open |-> <<IF Anchored(s, f) THEN 0 ELSE 1>> \o Standing(s, seen)], limit)

(* used: the candidates whose command a step of the resolved playbook runs.   *)
Tier(s, f, used) == IF Anchored(s, f) THEN 0 ELSE IF s \in used THEN 1 ELSE 2

Surfaced(f, seen, used, limit) ==
    First([s \in Scanned(f, seen, limit) |-> <<Tier(s, f, used)>> \o Standing(s, seen)],
          SurfaceCap)

--------------------------------------------------------------------------------

(* "Family-anchored rows sort first inside the query itself, so the bound can *)
(* never starve the rows most relevant to this query": whatever the table,    *)
(* the timestamps and the playbook, an open candidate of the query's family   *)
(* is left out only for others of that family seen as often; and a table with *)
(* an open row surfaces something.                                            *)
FamilyNeverStarved ==
    \A f \in Families, seen \in [Sigs -> 0 .. 1], used \in SUBSET FlagSigs, limit \in ScanLimits :
        LET top == Surfaced(f, seen, used, limit)
        IN  /\ Open # {} => top # {}
            /\ \A s \in Open : Anchored(s, f) =>
                  \/ s \in top
                  \/ /\ Cardinality(top) = SurfaceCap
                     /\ \A t \in top : Anchored(t, f) /\ cand[t].sightings >= cand[s].sightings
=================================================================================
