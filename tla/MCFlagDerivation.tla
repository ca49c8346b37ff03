-------------------------- MODULE MCFlagDerivation --------------------------
(* Instances of FlagDerivation for TLC.                                       *)
EXTENDS FlagDerivation, FiniteSets, TLC

MCSymmetry == Permutations(Procs) \cup Permutations(Sessions)

(* The entries of one kind.                                                   *)
Made(kind) == {n \in 1 .. Len(log) : log[n].kind = kind}

(* A bound on the journals of the run with recalls.  Without recalls: two     *)
(* failures and a fix, of any sessions.  With them: at most two, of different *)
(* families, one failure and a fix, of the failure's session.  The names come *)
(* in turn.                                                                   *)
Modest ==
    /\ log # <<>> => log[1].session = CHOOSE s \in Sessions : TRUE
    /\ Cardinality(Made("fixed")) <= 1
    /\ Cardinality(Made("fail")) <= IF Made("recall") = {} THEN 2 ELSE 1
    /\ Cardinality(Made("recall")) <= 2
    /\ \A m \in Made("recall") :
          /\ log[m].family = (CHOOSE f \in Families : TRUE) <=> \A n \in Made("recall") : m <= n
          /\ \A f \in Made("fail"), x \in Made("fixed") : log[x].session = log[f].session

(* The fairness of LiveSpec, over those journals.                             *)
ModestSpec ==
    /\ Init /\ [][Next /\ Modest']_vars
    /\ SF_vars(Tick)
    /\ \A p \in Procs : WF_vars(Step(p)) /\ WF_vars(Pass(p))

(* The states of the run with two processes, told apart by what a command may *)
(* still use: not by the entry and the day the last one has left behind.      *)
MCView ==
    <<clock, journal, faults, pc, pass,
      [p \in Procs |-> IF pc[p] \in {"repair", "write", "cleanup"} THEN mine[p] ELSE Junk],
      [p \in Procs |-> IF pc[p] = "write" THEN target[p] ELSE 0]>>
=============================================================================
