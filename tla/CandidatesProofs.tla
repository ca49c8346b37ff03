-------------------------- MODULE CandidatesProofs --------------------------
(* Proofs about Candidates and what a recall surfaces of them, for every      *)
(* number of processes, signatures, families and ids.                         *)
EXTENDS Surfacing, DataInduction, FiniteSetTheorems, SequenceTheorems, TLAPS

USE CandidatesAssumption

-----------------------------------------------------------------------------
(* The steps every action is made of *)

LEMMA ExitTyped ==
    ASSUME LocalTypeOK, NEW p \in Procs, Exit(p)
    PROVE  LocalTypeOK'
  BY DEF LocalTypeOK, Exit, PCs

LEMMA CopyTyped ==
    ASSUME StoreTypeOK, NEW s \in Sigs, Live(s)
    PROVE  Copy(s) \in Copies
  BY DEF StoreTypeOK, Copy, Copies, Live, Rows, Ids

LEMMA InsertTyped ==
    ASSUME StoreTypeOK, NEW s \in Sigs, NEW fam \in Families \cup {None}, NEW pay \in Payloads,
           s \in Families => fam = s,
           Insert(s, fam, pay), playbook' = playbook
    PROVE  StoreTypeOK'
  BY DEF StoreTypeOK, Insert, Rows, Ids, Statuses, NoRow, Sigs

LEMMA BumpTyped ==
    ASSUME StoreTypeOK, NEW s \in Sigs, Live(s), Bump(s), playbook' = playbook
    PROVE  StoreTypeOK'
  BY DEF StoreTypeOK, Bump, Rows, Live, Statuses, NoRow, Sigs

LEMMA StatusTyped ==
    ASSUME StoreTypeOK, NEW s \in Sigs, Live(s),
           NEW st \in Statuses \ {"absent"}, SetStatus(s, st),
           playbook' \in [Families -> Playbooks]
    PROVE  StoreTypeOK'
  BY DEF StoreTypeOK, SetStatus, Rows, Live, Statuses, NoRow, Sigs

LEMMA UpsertTyped ==
    ASSUME StoreTypeOK, LocalTypeOK, NEW p \in Procs, NEW s \in Sigs,
           NEW fam \in Families \cup {None}, NEW pay \in Payloads,
           s \in Families => fam = s,
           Upsert(p, s, fam, pay), playbook' = playbook
    PROVE  StoreTypeOK' /\ wrote' \in [Procs -> {"none", "insert", "bump"}]
  <1>1. CASE ~Live(s) /\ Insert(s, fam, pay) /\ wrote' = [wrote EXCEPT ![p] = "insert"]
    BY <1>1, InsertTyped DEF LocalTypeOK
  <1>2. CASE Live(s) /\ Bump(s) /\ wrote' = [wrote EXCEPT ![p] = "bump"]
    BY <1>2, BumpTyped DEF LocalTypeOK
  <1>3. CASE wrote' = [wrote EXCEPT ![p] = "none"] /\ UNCHANGED cand
    BY <1>3 DEF LocalTypeOK, StoreTypeOK
  <1> QED BY <1>1, <1>2, <1>3 DEF Upsert

LEMMA PlaybookTyped ==
    ASSUME NEW pb \in Playbooks, NEW json \in Payloads \cup {None, Taught}, NEW notes \in BOOLEAN,
           NEW corrections \in SUBSET FlagSigs
    PROVE  /\ Upserted(pb, json, notes) \in Playbooks
           /\ Upserted(pb, json, notes).exists
           /\ Appended(pb, corrections) \in Playbooks
           /\ Appended(pb, corrections).exists
           /\ Appended(pb, corrections).notes = pb.notes \cup corrections
           /\ Appended(pb, corrections).json = pb.json
  BY DEF Playbooks, Upserted, Appended

(* Both materializing transactions confirm one open row and write one         *)
(* playbook, from the copy of a row that p holds.                             *)
LEMMA MaterializePlaybookTyped ==
    ASSUME StoreTypeOK, NEW p \in Procs, held[p] \in Copies, held[p].family \in Families,
           MaterializePlaybook(p)
    PROVE  StoreTypeOK'
  <1> DEFINE c == held[p]
  <1>1. c.payload \in Payloads /\ c.payload.notes \in BOOLEAN
    BY DEF Copies, Payloads
  <1>2. PICK s \in OpenWithId(c.id) :
           /\ SetStatus(s, "confirmed")
           /\ playbook' = [playbook EXCEPT ![c.family] = Upserted(@, c.payload, c.payload.notes)]
    BY DEF MaterializePlaybook
  <1>3. s \in Sigs /\ Live(s)
    BY DEF OpenWithId, WithId
  <1>4. playbook' \in [Families -> Playbooks]
    BY <1>1, <1>2, PlaybookTyped DEF StoreTypeOK
  <1> QED BY <1>2, <1>3, <1>4, StatusTyped DEF Statuses

LEMMA MaterializeNoteTyped ==
    ASSUME StoreTypeOK, NEW p \in Procs, MaterializeNote(p)
    PROVE  StoreTypeOK'
  <1> DEFINE c == held[p]
  <1>1. PICK s \in OpenWithId(c.id), f \in Families :
           /\ SetStatus(s, "confirmed")
           /\ playbook' = [playbook EXCEPT ![f] = Appended(@, {c.payload.sig} \cap FlagSigs)]
    BY DEF MaterializeNote
  <1>2. s \in Sigs /\ Live(s)
    BY DEF OpenWithId, WithId
  <1>3. playbook' \in [Families -> Playbooks]
    BY <1>1, PlaybookTyped DEF StoreTypeOK
  <1> QED BY <1>1, <1>2, <1>3, StatusTyped DEF Statuses

(* A step of p leaves the control of every other process alone.               *)
LEMMA ControlOfOthers ==
    ASSUME ControlOK, LocalTypeOK, NEW p \in Procs, Control(p)',
           \A q \in Procs \ {p} : pc'[q] = pc[q] /\ arg'[q] = arg[q] /\ held'[q] = held[q]
    PROVE  ControlOK'
  BY DEF ControlOK, Control

LEMMA ExitControl ==
    ASSUME ControlOK, LocalTypeOK, NEW p \in Procs, Exit(p)
    PROVE  ControlOK'
  <1>1. Control(p)'
    BY DEF LocalTypeOK, Exit, Control, NoCopy, NoArg, Sigs
  <1> QED BY <1>1, ControlOfOthers DEF LocalTypeOK, Exit

-----------------------------------------------------------------------------
(* Every variable keeps its type, and a command at a statement has read what  *)
(* the statement uses.                                                        *)
THEOREM TypeCorrect == Spec => []TypeOK
  <1>1. Init => TypeOK
    BY DEF Init, TypeOK, StoreTypeOK, LocalTypeOK, ControlOK, Control, Rows, NoRow, Statuses,
           Playbooks, NoPlaybook, PCs, NoArg, NoCopy, Sigs
  <1>2. TypeOK /\ [Next]_vars => TypeOK'
    <2> SUFFICES ASSUME TypeOK, [Next]_vars PROVE TypeOK'
      OBVIOUS
    <2> USE DEF TypeOK
    <2>1. ASSUME NEW p \in Procs, NEW s \in FlagSigs, NEW fam \in Families \cup {None},
                 DeriveFlag(p, s, fam)
          PROVE  TypeOK'
      <3>1. FlagPayload(s) \in Payloads
        BY DEF FlagPayload, Payloads, Sigs
      <3>2. StoreTypeOK' /\ wrote' \in [Procs -> {"none", "insert", "bump"}]
        BY <2>1, <3>1, UpsertTyped DEF DeriveFlag, Sigs
      <3>3. LocalTypeOK'
        BY <2>1, <3>1, <3>2 DEF DeriveFlag, Goto, LocalTypeOK, PCs, Args, Sigs
      <3>4. Control(p)'
        BY <2>1, <3>1 DEF DeriveFlag, Goto, LocalTypeOK, ControlOK, Control, Args, Sigs
      <3> QED BY <2>1, <3>2, <3>3, <3>4, ControlOfOthers DEF DeriveFlag, Goto, LocalTypeOK
    <2>2. ASSUME NEW p \in Procs, DeriveRead(p) PROVE TypeOK'
      BY <2>2, ExitTyped, ExitControl DEF DeriveRead, store, StoreTypeOK
    <2>3. ASSUME NEW p \in Procs, NEW f \in Families, TeachStart(p, f) PROVE TypeOK'
      <3>1. StoreTypeOK'
        <4>1. CASE UNCHANGED playbook
          BY <2>3, <4>1 DEF TeachStart, StoreTypeOK
        <4>2. ASSUME NEW json \in {None, Taught}, NEW notes \in BOOLEAN,
                     playbook' = [playbook EXCEPT ![f] = Upserted(@, json, notes)]
              PROVE  StoreTypeOK'
          <5>1. playbook[f] \in Playbooks
            BY DEF StoreTypeOK
          <5>2. Upserted(playbook[f], json, notes) \in Playbooks
            BY <5>1, PlaybookTyped
          <5> QED BY <2>3, <4>2, <5>2 DEF TeachStart, StoreTypeOK
        <4> QED BY <2>3, <4>1, <4>2 DEF TeachStart
      <3>2. LocalTypeOK'
        BY <2>3 DEF TeachStart, Goto, LocalTypeOK, PCs, Args, Sigs
      <3>3. Control(p)'
        BY <2>3 DEF TeachStart, Goto, LocalTypeOK, ControlOK, Control
      <3> QED BY <2>3, <3>1, <3>2, <3>3, ControlOfOthers DEF TeachStart, Goto, LocalTypeOK
    <2>4. ASSUME NEW p \in Procs, PromoteList(p) PROVE TypeOK'
      <3>0. StoreTypeOK' /\ arg[p].sig \in Families /\ arg[p].sig \in Sigs
        BY <2>4 DEF PromoteList, StoreTypeOK, ControlOK, Control, Sigs
      <3>1. cand[arg[p].sig].status = "open" => Copy(arg[p].sig) \in Copies
        BY <3>0, CopyTyped DEF Live
      <3>2. LocalTypeOK'
        BY <2>4, <3>1 DEF PromoteList, Goto, LocalTypeOK, PCs
      <3>3. Control(p)'
        BY <2>4, <3>0, <3>1 DEF PromoteList, Goto, LocalTypeOK, StoreTypeOK, ControlOK, Control, Copy
      <3> QED BY <2>4, <3>0, <3>2, <3>3, ControlOfOthers DEF PromoteList, Goto, LocalTypeOK
    <2>5. ASSUME NEW p \in Procs, PromoteCheck(p) PROVE TypeOK'
      <3>1. LocalTypeOK' /\ StoreTypeOK'
        BY <2>5 DEF PromoteCheck, Goto, LocalTypeOK, StoreTypeOK, PCs
      <3>2. Control(p)'
        BY <2>5 DEF PromoteCheck, Goto, LocalTypeOK, ControlOK, Control
      <3> QED BY <2>5, <3>1, <3>2, ControlOfOthers DEF PromoteCheck, Goto, LocalTypeOK
    <2>6. ASSUME NEW p \in Procs, PromoteConfirm(p) PROVE TypeOK'
      <3>1. StoreTypeOK'
        <4>1. PICK s \in OpenWithId(held[p].id) : SetStatus(s, "confirmed")
          BY <2>6 DEF PromoteConfirm
        <4>2. s \in Sigs /\ Live(s)
          BY DEF OpenWithId, WithId
        <4> QED BY <2>6, <4>1, <4>2, StatusTyped DEF PromoteConfirm, StoreTypeOK, Statuses
      <3>2. LocalTypeOK'
        BY <2>6 DEF PromoteConfirm, Goto, LocalTypeOK, PCs
      <3>3. Control(p)'
        BY <2>6 DEF PromoteConfirm, Goto, LocalTypeOK, ControlOK, Control
      <3> QED BY <2>6, <3>1, <3>2, <3>3, ControlOfOthers DEF PromoteConfirm, Goto, LocalTypeOK
    <2>7. ASSUME NEW p \in Procs, PromoteMaterialize(p) PROVE TypeOK'
      <3>1. StoreTypeOK'
        BY <2>7, MaterializePlaybookTyped DEF PromoteMaterialize, ControlOK, Control
      <3>2. LocalTypeOK'
        BY <2>7 DEF PromoteMaterialize, Goto, LocalTypeOK, PCs
      <3>3. Control(p)'
        BY <2>7 DEF PromoteMaterialize, Goto, LocalTypeOK, ControlOK, Control
      <3> QED BY <2>7, <3>1, <3>2, <3>3, ControlOfOthers DEF PromoteMaterialize, Goto, LocalTypeOK
    <2>8. ASSUME NEW p \in Procs, PromoteError(p) PROVE TypeOK'
      <3>1. LocalTypeOK' /\ StoreTypeOK'
        BY <2>8 DEF PromoteError, Goto, LocalTypeOK, StoreTypeOK, PCs
      <3>2. Control(p)'
        BY <2>8 DEF PromoteError, Goto, LocalTypeOK, ControlOK, Control
      <3> QED BY <2>8, <3>1, <3>2, ControlOfOthers DEF PromoteError, Goto, LocalTypeOK
    <2>9. ASSUME NEW p \in Procs, SynthCheck(p) PROVE TypeOK'
      <3>0. StoreTypeOK' /\ arg[p].sig \in Families
        BY <2>9 DEF SynthCheck, store, StoreTypeOK, ControlOK, Control
      <3>1. CASE Exit(p)
        BY <2>9, <3>0, <3>1, ExitTyped, ExitControl
      <3>2. ASSUME NEW n \in 1 .. MaxSteps, NEW notes \in EpisodeNotes,
                   arg' = [arg EXCEPT ![p].payload =
                             [sig |-> arg[p].sig, steps |-> n, notes |-> notes]],
                   held' = [held EXCEPT ![p] = NoCopy], Goto(p, "synth_derive"),
                   UNCHANGED <<wrote, shown>>
            PROVE  TypeOK'
        <4>1. [sig |-> arg[p].sig, steps |-> n, notes |-> notes] \in Payloads
          BY <3>0 DEF Payloads, Sigs
        <4>2. LocalTypeOK'
          BY <3>0, <3>2, <4>1 DEF Goto, LocalTypeOK, PCs, Args, Sigs, NoArg
        <4>3. Control(p)'
          BY <3>0, <3>2, <4>1 DEF Goto, LocalTypeOK, ControlOK, Control, Args, NoArg, NoCopy, Sigs
        <4> QED BY <3>0, <3>2, <4>2, <4>3, ControlOfOthers DEF Goto, LocalTypeOK
      <3> QED BY <2>9, <3>1, <3>2 DEF SynthCheck
    <2>10. ASSUME NEW p \in Procs, SynthDerive(p) PROVE TypeOK'
      <3>0. arg[p].sig \in Families /\ arg[p].payload \in Payloads
        BY <2>10 DEF SynthDerive, ControlOK, Control
      <3>1. StoreTypeOK' /\ wrote' \in [Procs -> {"none", "insert", "bump"}]
        BY <2>10, <3>0, UpsertTyped DEF SynthDerive, Sigs
      <3>2. LocalTypeOK'
        BY <2>10, <3>1 DEF SynthDerive, Goto, LocalTypeOK, PCs
      <3>3. Control(p)'
        BY <2>10 DEF SynthDerive, Goto, LocalTypeOK, ControlOK, Control
      <3> QED BY <2>10, <3>1, <3>2, <3>3, ControlOfOthers DEF SynthDerive, Goto, LocalTypeOK
    <2>11. ASSUME NEW p \in Procs, SynthRead(p) PROVE TypeOK'
      <3>0. StoreTypeOK' /\ arg[p].sig \in Families /\ arg[p].sig \in Sigs
        BY <2>11 DEF SynthRead, store, StoreTypeOK, ControlOK, Control, Sigs
      <3>1. CASE Exit(p)
        BY <3>0, <3>1, ExitTyped, ExitControl
      <3>2. CASE /\ Supersedes(p) /\ held' = [held EXCEPT ![p] = Copy(arg[p].sig)]
                 /\ Goto(p, "refresh") /\ UNCHANGED <<arg, wrote, shown>>
        <4>1. Copy(arg[p].sig) \in Copies
          BY <3>0, <3>2, CopyTyped DEF Supersedes, Live
        <4>2. LocalTypeOK'
          BY <3>2, <4>1 DEF Goto, LocalTypeOK, PCs
        <4>3. cand[arg[p].sig].family = arg[p].sig
          BY <3>0, <3>2 DEF Supersedes, StoreTypeOK
        <4>4. Control(p)'
          BY <2>11, <3>0, <3>2, <4>1, <4>3 DEF SynthRead, Goto, LocalTypeOK, ControlOK, Control, Copy
        <4> QED BY <3>0, <3>2, <4>2, <4>4, ControlOfOthers DEF Goto, LocalTypeOK
      <3> QED BY <2>11, <3>1, <3>2 DEF SynthRead
    <2>12. ASSUME NEW p \in Procs, Refresh(p) PROVE TypeOK'
      <3>1. arg[p].payload \in Payloads
        BY <2>12 DEF Refresh, ControlOK, Control
      <3>2. StoreTypeOK'
        BY <2>12, <3>1 DEF Refresh, StoreTypeOK, Rows, OpenWithId, WithId, Live, NoRow, Sigs
      <3> QED BY <2>12, <3>2, ExitTyped, ExitControl DEF Refresh
    <2>13. ASSUME NEW p \in Procs, NEW s \in Sigs, ConfirmGet(p, s) PROVE TypeOK'
      <3>1. Copy(s) \in Copies
        BY <2>13, CopyTyped DEF ConfirmGet, Live
      <3>2. LocalTypeOK' /\ StoreTypeOK'
        BY <2>13, <3>1 DEF ConfirmGet, Goto, LocalTypeOK, StoreTypeOK, PCs
      <3>3. Control(p)'
        BY <2>13, <3>1 DEF ConfirmGet, Goto, LocalTypeOK, StoreTypeOK, ControlOK, Control, Copy
      <3> QED BY <2>13, <3>2, <3>3, ControlOfOthers DEF ConfirmGet, Goto, LocalTypeOK
    <2>14. ASSUME NEW p \in Procs, NEW s \in Sigs, RejectGet(p, s) PROVE TypeOK'
      <3>1. Copy(s) \in Copies
        BY <2>14, CopyTyped DEF RejectGet
      <3>2. LocalTypeOK' /\ StoreTypeOK'
        BY <2>14, <3>1 DEF RejectGet, Goto, LocalTypeOK, StoreTypeOK, PCs
      <3>3. Control(p)'
        BY <2>14, <3>1 DEF RejectGet, Live, Goto, LocalTypeOK, StoreTypeOK, ControlOK, Control, Copy
      <3> QED BY <2>14, <3>2, <3>3, ControlOfOthers DEF RejectGet, Goto, LocalTypeOK
    <2>15. ASSUME NEW p \in Procs, ConfirmTx(p) PROVE TypeOK'
      <3>1. StoreTypeOK'
        BY <2>15, MaterializePlaybookTyped, MaterializeNoteTyped DEF ConfirmTx, ControlOK, Control
      <3> QED BY <2>15, <3>1, ExitTyped, ExitControl DEF ConfirmTx
    <2>16. ASSUME NEW p \in Procs, RejectTx(p) PROVE TypeOK'
      <3>1. PICK s \in WithId(held[p].id) : SetStatus(s, "rejected")
        BY <2>16 DEF RejectTx
      <3>2. s \in Sigs /\ Live(s)
        BY DEF WithId
      <3>3. StoreTypeOK'
        BY <2>16, <3>1, <3>2, StatusTyped DEF RejectTx, StoreTypeOK, Statuses
      <3> QED BY <2>16, <3>3, ExitTyped, ExitControl DEF RejectTx
    <2>17. ASSUME NEW p \in Procs, NEW tombstones \in BOOLEAN, PurgeExpire(p, tombstones)
           PROVE  TypeOK'
      <3>1. StoreTypeOK'
        BY <2>17 DEF PurgeExpire, StoreTypeOK, Rows, Statuses, NoRow, Sigs
      <3>2. LocalTypeOK'
        BY <2>17 DEF PurgeExpire, Goto, LocalTypeOK, PCs
      <3>3. Control(p)'
        BY <2>17 DEF PurgeExpire, Goto, LocalTypeOK, ControlOK, Control
      <3> QED BY <2>17, <3>1, <3>2, <3>3, ControlOfOthers DEF PurgeExpire, Goto, LocalTypeOK
    <2>18. ASSUME NEW p \in Procs, PurgeDelete(p) PROVE TypeOK'
      <3>1. StoreTypeOK'
        BY <2>18 DEF PurgeDelete, StoreTypeOK, Rows, Statuses, NoRow, Sigs
      <3> QED BY <2>18, <3>1, ExitTyped, ExitControl DEF PurgeDelete
    <2>19. ASSUME NEW p \in Procs, Abort(p) PROVE TypeOK'
      BY <2>19, ExitTyped, ExitControl DEF Abort, store, StoreTypeOK
    <2>20. ASSUME NEW f \in Families, NEW json \in {None, Taught}, NEW notes \in BOOLEAN,
                  TeachPlaybook(f, json, notes)
           PROVE  TypeOK'
      BY <2>20, PlaybookTyped DEF TeachPlaybook, local, StoreTypeOK, LocalTypeOK, ControlOK, Control
    <2>21. ASSUME NEW f \in Families, AmendPlaybook(f) PROVE TypeOK'
      BY <2>21, PlaybookTyped DEF AmendPlaybook, local, StoreTypeOK, LocalTypeOK, ControlOK, Control
    <2>22. CASE UNCHANGED vars
      BY <2>22 DEF vars, StoreTypeOK, LocalTypeOK, ControlOK, Control
    <2> QED
      BY <2>1, <2>2, <2>3, <2>4, <2>5, <2>6, <2>7, <2>8, <2>9, <2>10, <2>11, <2>12, <2>13,
         <2>14, <2>15, <2>16, <2>17, <2>18, <2>19, <2>20, <2>21, <2>22 DEF Next
  <1> QED BY <1>1, <1>2, PTL DEF Spec

-----------------------------------------------------------------------------
(* What a step does to the table *)

Inserts(s) == \E fam \in Families \cup {None}, pay \in Payloads : ~Live(s) /\ Insert(s, fam, pay)
Bumps(s)   == Live(s) /\ cand[s].status # "rejected" /\ Bump(s)
Confirms(s) == cand[s].status = "open" /\ SetStatus(s, "confirmed")
Rejects(s) == Live(s) /\ Rejectable(s) /\ SetStatus(s, "rejected")

Refreshes(pay, i) ==
    cand' = [s \in Sigs |-> IF s \in OpenWithId(i) THEN [cand[s] EXCEPT !.payload = pay] ELSE cand[s]]

Expires(unseen) ==
    cand' = [s \in Sigs |-> IF cand[s].status = "open" /\ s \in unseen
                            THEN [cand[s] EXCEPT !.status = "expired"] ELSE cand[s]]

Purges(tombstones) ==
    cand' = [s \in Sigs |-> IF Purgeable(s, tombstones) THEN NoRow ELSE cand[s]]

CandStep ==
    \/ UNCHANGED cand
    \/ \E s \in Sigs : Inserts(s) \/ Bumps(s) \/ Confirms(s) \/ Rejects(s)
    \/ \E pay \in Payloads, i \in Ids : Refreshes(pay, i)
    \/ \E unseen \in SUBSET Sigs : Expires(unseen)
    \/ \E tombstones \in BOOLEAN : Purges(tombstones)

(* Every command changes the table by one of seven statements, or not at all. *)
LEMMA StepIsCandStep ==
    ASSUME TypeOK, [Next]_vars
    PROVE  CandStep
  <1> USE DEF TypeOK
  <1>1. ASSUME NEW p \in Procs, NEW s \in Sigs, NEW fam \in Families \cup {None},
               NEW pay \in Payloads, Upsert(p, s, fam, pay)
        PROVE  CandStep
    BY <1>1 DEF Upsert, CandStep, Inserts, Bumps
  <1>2. ASSUME NEW p \in Procs, NEW s \in FlagSigs, NEW fam \in Families \cup {None},
               DeriveFlag(p, s, fam)
        PROVE  CandStep
    <2>1. FlagPayload(s) \in Payloads /\ s \in Sigs
      BY DEF FlagPayload, Payloads, Sigs
    <2> QED BY <1>1, <1>2, <2>1 DEF DeriveFlag
  <1>3. ASSUME NEW p \in Procs, SynthDerive(p) PROVE CandStep
    <2>1. arg[p].sig \in Families /\ arg[p].payload \in Payloads /\ arg[p].sig \in Sigs
      BY <1>3 DEF SynthDerive, ControlOK, Control, Sigs
    <2> QED BY <1>1, <1>3, <2>1 DEF SynthDerive
  <1>4. ASSUME NEW p \in Procs, NEW s \in OpenWithId(held[p].id), SetStatus(s, "confirmed")
        PROVE  CandStep
    BY <1>4 DEF OpenWithId, WithId, CandStep, Confirms
  <1>5. ASSUME NEW p \in Procs,
               PromoteConfirm(p) \/ PromoteMaterialize(p) \/ ConfirmTx(p)
        PROVE  CandStep
    BY <1>4, <1>5 DEF PromoteConfirm, PromoteMaterialize, ConfirmTx, MaterializePlaybook, MaterializeNote
  <1>6. ASSUME NEW p \in Procs, Refresh(p) PROVE CandStep
    <2>1. arg[p].payload \in Payloads /\ held[p].id \in Ids
      BY <1>6 DEF Refresh, ControlOK, Control, Copies
    <2> QED BY <1>6, <2>1 DEF Refresh, CandStep, Refreshes
  <1>7. ASSUME NEW p \in Procs, RejectTx(p) PROVE CandStep
    BY <1>7 DEF RejectTx, WithId, CandStep, Rejects
  <1>8. ASSUME NEW p \in Procs, NEW tombstones \in BOOLEAN, PurgeExpire(p, tombstones)
        PROVE  CandStep
    BY <1>8 DEF PurgeExpire, CandStep, Expires
  <1>9. ASSUME NEW p \in Procs, PurgeDelete(p) PROVE CandStep
    <2>1. (pc[p] = "purge_tombstones") \in BOOLEAN
      OBVIOUS
    <2> QED BY <1>9, <2>1 DEF PurgeDelete, CandStep, Purges
  <1>10. ASSUME NEW p \in Procs,
                \/ DeriveRead(p) \/ PromoteList(p) \/ PromoteCheck(p) \/ PromoteError(p)
                \/ SynthCheck(p) \/ SynthRead(p) \/ Abort(p)
                \/ \E f \in Families : TeachStart(p, f)
                \/ \E s \in Sigs : ConfirmGet(p, s) \/ RejectGet(p, s)
         PROVE  CandStep
    BY <1>10 DEF DeriveRead, PromoteList, PromoteCheck, PromoteError, SynthCheck, SynthRead,
                 Abort, TeachStart, ConfirmGet, RejectGet, store, CandStep
  <1>11. ASSUME NEW f \in Families, NEW json \in {None, Taught}, NEW notes \in BOOLEAN,
                TeachPlaybook(f, json, notes) \/ AmendPlaybook(f)
         PROVE  CandStep
    BY <1>11 DEF TeachPlaybook, AmendPlaybook, CandStep
  <1>12. CASE UNCHANGED vars
    BY <1>12 DEF vars, CandStep
  <1> QED
    BY <1>2, <1>3, <1>5, <1>6, <1>7, <1>8, <1>9, <1>10, <1>11, <1>12 DEF Next

-----------------------------------------------------------------------------
(* No two live rows share an id, although ids are handed out again.           *)
THEOREM UniqueIds == Spec => []IdsUnique
  <1>1. Init => IdsUnique
    BY DEF Init, IdsUnique, Live, NoRow
  <1>2. TypeOK /\ IdsUnique /\ [Next]_vars => IdsUnique'
    <2> SUFFICES ASSUME TypeOK, IdsUnique, [Next]_vars PROVE IdsUnique'
      OBVIOUS
    <2> USE DEF TypeOK, StoreTypeOK, IdsUnique, Live
    <2>1. CandStep
      BY StepIsCandStep
    <2>2. ASSUME NEW s \in Sigs, Inserts(s) PROVE IdsUnique'
      BY <2>2 DEF Inserts, Insert, FreshId, Ids, Rows
    <2>3. ASSUME NEW s \in Sigs, Bumps(s) \/ Confirms(s) \/ Rejects(s) PROVE IdsUnique'
      BY <2>3 DEF Bumps, Bump, Confirms, Rejects, SetStatus, Rows
    <2>4. ASSUME NEW pay \in Payloads, NEW i \in Ids, Refreshes(pay, i) PROVE IdsUnique'
      BY <2>4 DEF Refreshes, Rows
    <2>5. ASSUME NEW unseen \in SUBSET Sigs, Expires(unseen) PROVE IdsUnique'
      BY <2>5 DEF Expires, Rows
    <2>6. ASSUME NEW tombstones \in BOOLEAN, Purges(tombstones) PROVE IdsUnique'
      BY <2>6 DEF Purges, NoRow, Rows
    <2>7. CASE UNCHANGED cand
      BY <2>7
    <2> QED BY <2>1, <2>2, <2>3, <2>4, <2>5, <2>6, <2>7 DEF CandStep
  <1> QED BY <1>1, <1>2, TypeCorrect, PTL DEF Spec

-----------------------------------------------------------------------------
(* The abstract variables, and what they become when one row changes.         *)
LEMMA Abstraction ==
    ASSUME StoreTypeOK
    PROVE  /\ CandStatus \in [Sigs -> Statuses]
           /\ CandSightings \in [Sigs -> Nat]
           /\ \A s \in Sigs : CandStatus[s] = cand[s].status /\ CandSightings[s] = cand[s].sightings
  BY DEF StoreTypeOK, Rows, CandStatus, CandSightings

LEMMA RowChanged ==
    ASSUME StoreTypeOK, StoreTypeOK', NEW s \in Sigs,
           \A t \in Sigs \ {s} : cand'[t] = cand[t]
    PROVE  /\ CandStatus' = [CandStatus EXCEPT ![s] = cand'[s].status]
           /\ CandSightings' = [CandSightings EXCEPT ![s] = cand'[s].sightings]
  <1>1. /\ CandStatus \in [Sigs -> Statuses] /\ CandStatus' \in [Sigs -> Statuses]
        /\ CandSightings \in [Sigs -> Nat] /\ CandSightings' \in [Sigs -> Nat]
    BY Abstraction DEF StoreTypeOK, Rows, CandStatus, CandSightings
  <1>2. \A t \in Sigs : /\ CandStatus'[t] = [CandStatus EXCEPT ![s] = cand'[s].status][t]
                        /\ CandSightings'[t] = [CandSightings EXCEPT ![s] = cand'[s].sightings][t]
    BY DEF StoreTypeOK, CandStatus, CandSightings
  <1> QED BY <1>1, <1>2

(* The table implements the lifecycle of CandidateLifecycle: whichever        *)
(* processes run and however their statements interleave, each signature      *)
(* takes only the documented transitions.                                     *)
THEOREM ImplementsLifecycle == Spec => FollowsLifecycle
  <1>1. Init => Lifecycle!Init
    BY DEF Init, Lifecycle!Init, Lifecycle!Sigs, Sigs, NoRow, CandStatus, CandSightings
  <1>2. TypeOK /\ TypeOK' /\ [Next]_vars => [Lifecycle!Next]_(Lifecycle!vars)
    <2> SUFFICES ASSUME TypeOK, TypeOK', [Next]_vars PROVE [Lifecycle!Next]_(Lifecycle!vars)
      OBVIOUS
    <2> StoreTypeOK /\ StoreTypeOK'
      BY DEF TypeOK
    <2> USE DEF Live
    <2>0. CandStep
      BY StepIsCandStep
    <2>1. ASSUME NEW s \in Sigs, Inserts(s) PROVE Lifecycle!Observe(s)
      <3>1. /\ cand'[s].status = "open" /\ cand'[s].sightings = 1
            /\ \A t \in Sigs \ {s} : cand'[t] = cand[t]
        BY <2>1 DEF Inserts, Insert, StoreTypeOK
      <3>2. /\ CandStatus' = [CandStatus EXCEPT ![s] = "open"]
            /\ CandSightings' = [CandSightings EXCEPT ![s] = 1]
        BY <3>1, RowChanged
      <3>3. cand[s].status = "absent" /\ cand[s].sightings = 0
        BY <2>1 DEF Inserts, NoRow, StoreTypeOK
      <3>4. CandStatus[s] = "absent" /\ CandSightings[s] + 1 = 1
        BY <3>3, Abstraction
      <3> QED BY <3>2, <3>4 DEF Lifecycle!Observe
    <2>2. ASSUME NEW s \in Sigs, Bumps(s) PROVE Lifecycle!Observe(s)
      <3> DEFINE st == IF cand[s].status = "expired" THEN "open" ELSE cand[s].status
      <3>1. /\ cand'[s].status = st /\ cand'[s].sightings = cand[s].sightings + 1
            /\ \A t \in Sigs \ {s} : cand'[t] = cand[t]
        BY <2>2 DEF Bumps, Bump, StoreTypeOK, Rows
      <3>2. /\ CandStatus' = [CandStatus EXCEPT ![s] = st]
            /\ CandSightings' = [CandSightings EXCEPT ![s] = cand[s].sightings + 1]
        BY <3>1, RowChanged
      <3>3. cand[s].status \notin {"absent", "rejected"}
        BY <2>2 DEF Bumps
      <3> QED BY <3>2, <3>3, Abstraction DEF Lifecycle!Observe
    <2>3. ASSUME NEW s \in Sigs, NEW st \in Statuses, SetStatus(s, st)
          PROVE  /\ CandStatus' = [CandStatus EXCEPT ![s] = st]
                 /\ UNCHANGED CandSightings
      <3>1. /\ cand'[s].status = st /\ cand'[s].sightings = cand[s].sightings
            /\ \A t \in Sigs \ {s} : cand'[t] = cand[t]
        BY <2>3 DEF SetStatus, StoreTypeOK, Rows
      <3>2. /\ CandStatus' = [CandStatus EXCEPT ![s] = st]
            /\ CandSightings' = [CandSightings EXCEPT ![s] = CandSightings[s]]
        BY <3>1, RowChanged, Abstraction
      <3> QED BY <3>2, Abstraction
    <2>4. ASSUME NEW s \in Sigs, Confirms(s) PROVE Lifecycle!Confirm(s)
      BY <2>3, <2>4, Abstraction DEF Confirms, Statuses, Lifecycle!Confirm
    <2>5. ASSUME NEW s \in Sigs, Rejects(s) PROVE Lifecycle!Reject(s)
      BY <2>3, <2>5, Abstraction DEF Rejects, Rejectable, Statuses, Lifecycle!Reject
    <2>6. ASSUME NEW pay \in Payloads, NEW i \in Ids, Refreshes(pay, i)
          PROVE  UNCHANGED Lifecycle!vars
      BY <2>6 DEF StoreTypeOK, Refreshes, Rows, Lifecycle!vars, CandStatus, CandSightings
    <2>7. ASSUME NEW unseen \in SUBSET Sigs, Expires(unseen) PROVE Lifecycle!Expire
      <3> DEFINE S == {s \in Sigs : cand[s].status = "open" /\ s \in unseen}
      <3>1. S \in SUBSET {s \in Lifecycle!Sigs : CandStatus[s] = "open"}
        BY Abstraction DEF Lifecycle!Sigs, Sigs
      <3>2. CandStatus' = [s \in Lifecycle!Sigs |-> IF s \in S THEN "expired" ELSE CandStatus[s]]
        BY <2>7 DEF StoreTypeOK, Expires, Rows, Lifecycle!Sigs, Sigs, CandStatus
      <3>3. UNCHANGED CandSightings
        BY <2>7 DEF StoreTypeOK, Expires, Rows, CandSightings
      <3> QED BY <3>1, <3>2, <3>3 DEF Lifecycle!Expire
    <2>8. ASSUME NEW tombstones \in BOOLEAN, Purges(tombstones) PROVE Lifecycle!Purge(tombstones)
      BY <2>8 DEF StoreTypeOK, Purges, Purgeable, NoRow, Rows, Lifecycle!Purge, Lifecycle!Sigs, Sigs,
                  CandStatus, CandSightings
    <2>9. CASE UNCHANGED cand
      BY <2>9 DEF Lifecycle!vars, CandStatus, CandSightings
    <2> QED
      BY <2>0, <2>1, <2>2, <2>4, <2>5, <2>6, <2>7, <2>8, <2>9
         DEF CandStep, Lifecycle!Next, Lifecycle!Sigs, Sigs
  <1> QED BY <1>1, <1>2, TypeCorrect, PTL DEF Spec, FollowsLifecycle, Lifecycle!Spec

-----------------------------------------------------------------------------
(* The rows a running command has read, while no purge runs beside it.  The   *)
(* invariant relates what a process holds to the row it read: deleted only    *)
(* under it could the row's id come to name another candidate.                *)

HeldOK(p) ==
    /\ held[p] # NoCopy => /\ Live(held[p].sig)
                           /\ cand[held[p].sig].id = held[p].id
                           /\ held[p].payload.sig = held[p].sig
    /\ pc[p] = "idle" => held[p] = NoCopy
    /\ pc[p] = "refresh" => held[p].sig = arg[p].sig
    /\ pc[p] = "confirm_only" => playbook[arg[p].sig].exists

RowsOK == IdsUnique /\ PayloadOwned /\ ConfirmedHasPlaybook

QuietInv == RowsOK /\ \A p \in Procs : HeldOK(p)

(* No row is deleted, no row gets another id, no playbook disappears.         *)
Keeps ==
    /\ \A s \in Sigs : Live(s) => cand'[s].status # "absent" /\ cand'[s].id = cand[s].id
    /\ \A f \in Families : playbook[f].exists => playbook'[f].exists

(* A command works on the row it has read.                                    *)
LEMMA HeldRow ==
    ASSUME TypeOK, QuietInv, NEW p \in Procs, held[p] \in Copies, NEW s \in WithId(held[p].id)
    PROVE  s = held[p].sig
  <1>1. held[p] # NoCopy /\ held[p].sig \in Sigs
    BY DEF Copies, NoCopy, Sigs
  <1> QED BY <1>1 DEF QuietInv, RowsOK, IdsUnique, HeldOK, WithId

LEMMA OthersHeld ==
    ASSUME TypeOK, QuietInv, NEW p \in Procs, Keeps, RowsOK', HeldOK(p)',
           \A q \in Procs \ {p} : pc'[q] = pc[q] /\ arg'[q] = arg[q] /\ held'[q] = held[q]
    PROVE  QuietInv'
  <1>1. ASSUME NEW q \in Procs \ {p} PROVE HeldOK(q)'
    <2>1. held[q] # NoCopy => held[q].sig \in Sigs
      BY DEF TypeOK, LocalTypeOK, Copies
    <2>2. pc[q] = "confirm_only" => arg[q].sig \in Families
      BY DEF TypeOK, ControlOK, Control
    <2> QED BY <2>1, <2>2 DEF QuietInv, HeldOK, Keeps, Live
  <1> QED BY <1>1 DEF QuietInv

LEMMA QuietExit ==
    ASSUME TypeOK, QuietInv, NEW p \in Procs, Keeps, RowsOK', Exit(p)
    PROVE  QuietInv'
  <1>1. pc'[p] = "idle" /\ held'[p] = NoCopy
    BY DEF TypeOK, LocalTypeOK, Exit
  <1>2. HeldOK(p)'
    BY <1>1 DEF HeldOK
  <1> QED BY <1>2, OthersHeld DEF TypeOK, LocalTypeOK, Exit

LEMMA QuietGoto ==
    ASSUME TypeOK, QuietInv, NEW p \in Procs, NEW l \in PCs, Keeps, RowsOK',
           Goto(p, l), l \notin {"idle", "refresh", "confirm_only"}, UNCHANGED held,
           \A q \in Procs \ {p} : arg'[q] = arg[q]
    PROVE  QuietInv'
  <1>1. pc'[p] = l
    BY DEF TypeOK, LocalTypeOK, Goto
  <1>2. held[p] # NoCopy => held[p].sig \in Sigs
    BY DEF TypeOK, LocalTypeOK, Copies
  <1>3. HeldOK(p)'
    BY <1>1, <1>2 DEF QuietInv, HeldOK, Keeps, Live
  <1> QED BY <1>3, OthersHeld DEF TypeOK, LocalTypeOK, Goto

(* Commands that leave the rows and the playbooks alone.                      *)
LEMMA QuietStore ==
    ASSUME QuietInv, UNCHANGED store
    PROVE  Keeps /\ RowsOK'
  BY DEF QuietInv, RowsOK, IdsUnique, PayloadOwned, ConfirmedHasPlaybook, store, Keeps, Live

(* Commands that only write playbooks.                                        *)
LEMMA QuietPlaybook ==
    ASSUME TypeOK, QuietInv, NEW f \in Families, NEW pb \in Playbooks, pb.exists,
           UNCHANGED cand, playbook' = [playbook EXCEPT ![f] = pb]
    PROVE  Keeps /\ RowsOK'
  <1>1. Keeps
    BY DEF TypeOK, StoreTypeOK, Keeps, Live
  <1> QED BY <1>1 DEF QuietInv, RowsOK, IdsUnique, PayloadOwned, ConfirmedHasPlaybook, Keeps, Live, Sigs

LEMMA QuietUpsert ==
    ASSUME TypeOK, QuietInv, IdsUnique', NEW p \in Procs, NEW s \in Sigs,
           NEW fam \in Families \cup {None}, NEW pay \in Payloads, pay.sig = s,
           Upsert(p, s, fam, pay), UNCHANGED playbook
    PROVE  Keeps /\ RowsOK'
  <1> USE DEF TypeOK, StoreTypeOK, QuietInv, RowsOK, PayloadOwned, ConfirmedHasPlaybook, Keeps, Live, Sigs
  <1>1. CASE ~Live(s) /\ Insert(s, fam, pay)
    BY <1>1 DEF Insert
  <1>2. CASE Live(s) /\ Bump(s)
    BY <1>2 DEF Bump, Rows
  <1>3. CASE UNCHANGED cand
    BY <1>3
  <1> QED BY <1>1, <1>2, <1>3 DEF Upsert

LEMMA QuietConfirm ==
    ASSUME TypeOK, QuietInv, IdsUnique', NEW s \in Sigs, Live(s), SetStatus(s, "confirmed"),
           \A f \in Families : playbook[f].exists => playbook'[f].exists,
           s \in Families => playbook'[s].exists
    PROVE  Keeps /\ RowsOK'
  BY DEF TypeOK, StoreTypeOK, QuietInv, RowsOK, PayloadOwned, ConfirmedHasPlaybook, Keeps, Live,
         SetStatus, Rows, Sigs

LEMMA QuietMaterialize ==
    ASSUME TypeOK, QuietInv, IdsUnique', NEW p \in Procs, held[p] \in Copies,
           \/ held[p].sig \in Families /\ MaterializePlaybook(p)
           \/ MaterializeNote(p)
    PROVE  Keeps /\ RowsOK'
  <1> DEFINE c == held[p]
  <1>0. c.payload \in Payloads /\ c.payload.notes \in BOOLEAN
    BY DEF Copies, Payloads
  <1>1. CASE c.sig \in Families /\ MaterializePlaybook(p)
    <2>1. c.family = c.sig
      BY <1>1 DEF TypeOK, ControlOK, Control
    <2>2. PICK s \in OpenWithId(c.id) :
             /\ SetStatus(s, "confirmed")
             /\ playbook' = [playbook EXCEPT ![c.family] = Upserted(@, c.payload, c.payload.notes)]
      BY <1>1 DEF MaterializePlaybook
    <2>3. s \in WithId(c.id) /\ s \in Sigs /\ Live(s) /\ s = c.sig
      BY HeldRow DEF OpenWithId, WithId
    <2>4. Upserted(playbook[c.sig], c.payload, c.payload.notes).exists
      BY DEF Upserted
    <2>5. \A f \in Families : playbook[f].exists \/ f = c.sig => playbook'[f].exists
      BY <1>1, <2>1, <2>2, <2>4 DEF TypeOK, StoreTypeOK
    <2> QED BY <2>2, <2>3, <2>5, QuietConfirm
  <1>2. CASE MaterializeNote(p)
    <2>1. PICK s \in OpenWithId(c.id), f \in Families :
             /\ s \in FlagSigs /\ SetStatus(s, "confirmed")
             /\ playbook' = [playbook EXCEPT ![f] = Appended(@, {c.payload.sig} \cap FlagSigs)]
      BY <1>2 DEF MaterializeNote
    <2>2. s \in Sigs /\ Live(s) /\ s \notin Families
      BY <2>1 DEF OpenWithId, WithId
    <2>3. \A g \in Families : playbook[g].exists => playbook'[g].exists
      BY <2>1, PlaybookTyped DEF TypeOK, StoreTypeOK
    <2> QED BY <2>1, <2>2, <2>3, QuietConfirm
  <1> QED BY <1>1, <1>2

(* Every step keeps the invariant when no purge deletes rows beside another   *)
(* command.                                                                   *)
LEMMA QuietStep ==
    ASSUME ~ConcurrentPurge, TypeOK, TypeOK', QuietInv, IdsUnique', [Next]_vars
    PROVE  QuietInv'
  <1>1. ASSUME NEW p \in Procs, NEW s \in FlagSigs, NEW fam \in Families \cup {None},
               DeriveFlag(p, s, fam)
        PROVE  QuietInv'
    <2>1. FlagPayload(s) \in Payloads /\ FlagPayload(s).sig = s /\ s \in Sigs
      BY DEF FlagPayload, Payloads, Sigs
    <2>2. Keeps /\ RowsOK'
      BY <1>1, <2>1, QuietUpsert DEF DeriveFlag
    <2>3. "derive_read" \in PCs
      BY DEF PCs
    <2> QED BY <1>1, <2>2, <2>3, QuietGoto DEF DeriveFlag, TypeOK, LocalTypeOK
  <1>2. ASSUME NEW p \in Procs, DeriveRead(p) \/ Abort(p) PROVE QuietInv'
    BY <1>2, QuietStore, QuietExit DEF DeriveRead, Abort
  <1>3. ASSUME NEW p \in Procs, NEW f \in Families, TeachStart(p, f) PROVE QuietInv'
    <2>1. ASSUME NEW json \in {None, Taught}, NEW notes \in BOOLEAN,
                 playbook' = [playbook EXCEPT ![f] = Upserted(@, json, notes)]
          PROVE  Keeps /\ RowsOK'
      <3>1. playbook[f] \in Playbooks
        BY DEF TypeOK, StoreTypeOK
      <3>2. /\ Upserted(playbook[f], json, notes) \in Playbooks
            /\ Upserted(playbook[f], json, notes).exists
        BY <3>1, PlaybookTyped
      <3> QED BY <1>3, <2>1, <3>2, QuietPlaybook DEF TeachStart
    <2>2. ASSUME UNCHANGED playbook PROVE Keeps /\ RowsOK'
      <3>1. UNCHANGED cand
        BY <1>3 DEF TeachStart
      <3> QED BY <2>2, <3>1, QuietStore DEF store
    <2>3. Keeps /\ RowsOK'
      <3>1. \/ UNCHANGED playbook
            \/ \E json \in {None, Taught}, notes \in BOOLEAN :
                  playbook' = [playbook EXCEPT ![f] = Upserted(@, json, notes)]
        BY <1>3, Zenon DEF TeachStart
      <3> QED BY <2>1, <2>2, <3>1
    <2>4. "list" \in PCs
      BY DEF PCs
    <2> QED BY <1>3, <2>3, <2>4, QuietGoto DEF TeachStart, TypeOK, LocalTypeOK
  <1>4. ASSUME NEW p \in Procs, PromoteList(p) PROVE QuietInv'
    <2>1. Keeps /\ RowsOK' /\ arg[p].sig \in Sigs
      BY <1>4, QuietStore DEF PromoteList, store, TypeOK, ControlOK, Control, Sigs
    <2>2. HeldOK(p)'
      BY <1>4, <2>1 DEF PromoteList, Goto, TypeOK, LocalTypeOK, Copy, QuietInv, RowsOK,
                        PayloadOwned, HeldOK, Live, Keeps
    <2> QED BY <1>4, <2>1, <2>2, OthersHeld DEF PromoteList, Goto, TypeOK, LocalTypeOK
  <1>5. ASSUME NEW p \in Procs, PromoteCheck(p) PROVE QuietInv'
    <2>1. Keeps /\ RowsOK'
      BY <1>5, QuietStore DEF PromoteCheck, store
    <2>2. HeldOK(p)'
      BY <1>5 DEF PromoteCheck, Goto, TypeOK, LocalTypeOK, QuietInv, HeldOK, Live
    <2> QED BY <1>5, <2>1, <2>2, OthersHeld DEF PromoteCheck, Goto, TypeOK, LocalTypeOK
  <1>6. ASSUME NEW p \in Procs, PromoteConfirm(p) PROVE QuietInv'
    <2>1. PICK s \in OpenWithId(held[p].id) : SetStatus(s, "confirmed")
      BY <1>6 DEF PromoteConfirm
    <2>2. held[p] \in Copies /\ held[p].sig = arg[p].sig
      BY <1>6 DEF PromoteConfirm, TypeOK, ControlOK, Control
    <2>3. s \in Sigs /\ Live(s) /\ s = arg[p].sig
      BY <2>2, HeldRow DEF OpenWithId, WithId
    <2>4. playbook[arg[p].sig].exists
      BY <1>6 DEF PromoteConfirm, QuietInv, HeldOK
    <2>5. Keeps /\ RowsOK'
      BY <1>6, <2>1, <2>3, <2>4, QuietConfirm DEF PromoteConfirm
    <2>6. "synth_check" \in PCs
      BY DEF PCs
    <2> QED BY <1>6, <2>5, <2>6, QuietGoto DEF PromoteConfirm
  <1>7. ASSUME NEW p \in Procs, PromoteMaterialize(p) PROVE QuietInv'
    <2>1. held[p] \in Copies /\ held[p].sig \in Families
      BY <1>7 DEF PromoteMaterialize, TypeOK, ControlOK, Control
    <2>2. Keeps /\ RowsOK'
      BY <1>7, <2>1, QuietMaterialize DEF PromoteMaterialize
    <2>3. "synth_check" \in PCs
      BY DEF PCs
    <2> QED BY <1>7, <2>2, <2>3, QuietGoto DEF PromoteMaterialize
  <1>8. ASSUME NEW p \in Procs, PromoteError(p) PROVE QuietInv'
    <2>1. Keeps /\ RowsOK'
      BY <1>8, QuietStore DEF PromoteError, store
    <2>2. "synth_check" \in PCs
      BY DEF PCs
    <2> QED BY <1>8, <2>1, <2>2, QuietGoto DEF PromoteError
  <1>9. ASSUME NEW p \in Procs, SynthCheck(p) PROVE QuietInv'
    <2>1. Keeps /\ RowsOK'
      BY <1>9, QuietStore DEF SynthCheck
    <2>2. ASSUME held' = [held EXCEPT ![p] = NoCopy], Goto(p, "synth_derive"),
                 \A q \in Procs \ {p} : arg'[q] = arg[q]
          PROVE  QuietInv'
      <3>1. HeldOK(p)'
        BY <2>2 DEF Goto, TypeOK, LocalTypeOK, HeldOK
      <3> QED BY <2>1, <2>2, <3>1, OthersHeld DEF Goto, TypeOK, LocalTypeOK
    <2>3. Exit(p) \/ ( /\ held' = [held EXCEPT ![p] = NoCopy] /\ Goto(p, "synth_derive")
                      /\ \A q \in Procs \ {p} : arg'[q] = arg[q] )
      BY <1>9 DEF SynthCheck, TypeOK, LocalTypeOK
    <2> QED BY <2>1, <2>2, <2>3, QuietExit
  <1>10. ASSUME NEW p \in Procs, SynthDerive(p) PROVE QuietInv'
    <2>1. /\ arg[p].sig \in Families /\ arg[p].sig \in Sigs
          /\ arg[p].payload \in Payloads /\ arg[p].payload.sig = arg[p].sig
      BY <1>10 DEF SynthDerive, TypeOK, ControlOK, Control, Sigs
    <2>2. Keeps /\ RowsOK'
      BY <1>10, <2>1, QuietUpsert DEF SynthDerive
    <2>3. "synth_read" \in PCs
      BY DEF PCs
    <2> QED BY <1>10, <2>2, <2>3, QuietGoto DEF SynthDerive
  <1>11. ASSUME NEW p \in Procs, SynthRead(p) PROVE QuietInv'
    <2>1. Keeps /\ RowsOK' /\ arg[p].sig \in Sigs
      BY <1>11, QuietStore DEF SynthRead, TypeOK, ControlOK, Control, Sigs
    <2>2. CASE Exit(p)
      BY <2>1, <2>2, QuietExit
    <2>3. CASE /\ Supersedes(p) /\ held' = [held EXCEPT ![p] = Copy(arg[p].sig)]
               /\ Goto(p, "refresh") /\ UNCHANGED <<arg, wrote, shown>>
      <3>1. HeldOK(p)'
        BY <1>11, <2>1, <2>3 DEF SynthRead, store, Supersedes, Goto, TypeOK, LocalTypeOK, Copy,
              QuietInv, RowsOK, PayloadOwned, HeldOK, Live
      <3> QED BY <2>1, <2>3, <3>1, OthersHeld DEF Goto, TypeOK, LocalTypeOK
    <2> QED BY <1>11, <2>2, <2>3 DEF SynthRead
  <1>12. ASSUME NEW p \in Procs, Refresh(p) PROVE QuietInv'
    <2>1. /\ held[p] \in Copies /\ held[p].sig = arg[p].sig
          /\ arg[p].payload \in Payloads /\ arg[p].payload.sig = arg[p].sig
      BY <1>12 DEF Refresh, TypeOK, ControlOK, Control, QuietInv, HeldOK
    <2>2. \A s \in OpenWithId(held[p].id) : s = arg[p].sig
      BY <2>1, HeldRow DEF OpenWithId
    <2>3. Keeps /\ RowsOK'
      BY <1>12, <2>1, <2>2 DEF Refresh, TypeOK, StoreTypeOK, QuietInv, RowsOK, PayloadOwned,
            ConfirmedHasPlaybook, Keeps, Live, Rows, Sigs
    <2> QED BY <1>12, <2>3, QuietExit DEF Refresh
  <1>13. ASSUME NEW p \in Procs, NEW s \in Sigs, ConfirmGet(p, s) \/ RejectGet(p, s)
         PROVE  QuietInv'
    <2>1. Keeps /\ RowsOK'
      BY <1>13, QuietStore DEF ConfirmGet, RejectGet, store
    <2>2. HeldOK(p)'
      BY <1>13 DEF ConfirmGet, RejectGet, Goto, TypeOK, LocalTypeOK, Copy, QuietInv, RowsOK,
                   PayloadOwned, HeldOK, Live
    <2> QED BY <1>13, <2>1, <2>2, OthersHeld DEF ConfirmGet, RejectGet, Goto, TypeOK, LocalTypeOK
  <1>14. ASSUME NEW p \in Procs, ConfirmTx(p) PROVE QuietInv'
    <2>1. held[p] \in Copies
      BY <1>14 DEF ConfirmTx, TypeOK, ControlOK, Control
    <2>2. Keeps /\ RowsOK'
      BY <1>14, <2>1, QuietMaterialize DEF ConfirmTx
    <2> QED BY <1>14, <2>2, QuietExit DEF ConfirmTx
  <1>15. ASSUME NEW p \in Procs, RejectTx(p) PROVE QuietInv'
    <2>1. Keeps /\ RowsOK'
      BY <1>15 DEF RejectTx, WithId, SetStatus, TypeOK, StoreTypeOK, QuietInv, RowsOK,
            PayloadOwned, ConfirmedHasPlaybook, Keeps, Live, Rows, Sigs
    <2> QED BY <1>15, <2>1, QuietExit DEF RejectTx
  <1>16. ASSUME NEW p \in Procs, NEW tombstones \in BOOLEAN, PurgeExpire(p, tombstones)
         PROVE  QuietInv'
    <2>1. Keeps /\ RowsOK'
      BY <1>16 DEF PurgeExpire, TypeOK, StoreTypeOK, QuietInv, RowsOK,
            PayloadOwned, ConfirmedHasPlaybook, Keeps, Live, Rows, Sigs
    <2>2. "purge" \in PCs /\ "purge_tombstones" \in PCs
      BY DEF PCs
    <2> QED BY <1>16, <2>1, <2>2, QuietGoto DEF PurgeExpire
  <1>17. ASSUME NEW p \in Procs, PurgeDelete(p) PROVE QuietInv'
    <2>1. RowsOK'
      BY <1>17 DEF PurgeDelete, Purgeable, NoRow, TypeOK, StoreTypeOK, QuietInv, RowsOK,
            PayloadOwned, ConfirmedHasPlaybook, Live, Rows, Sigs
    <2>2. \A q \in Procs : pc'[q] = "idle" /\ held'[q] = NoCopy
      BY <1>17 DEF PurgeDelete, Exit, TypeOK, LocalTypeOK, QuietInv, HeldOK
    <2> QED BY <2>1, <2>2 DEF QuietInv, HeldOK
  <1>18. ASSUME NEW f \in Families, NEW json \in {None, Taught}, NEW notes \in BOOLEAN,
                TeachPlaybook(f, json, notes) \/ AmendPlaybook(f)
         PROVE  QuietInv'
    <2>1. playbook[f] \in Playbooks
      BY DEF TypeOK, StoreTypeOK
    <2>2. PICK pb \in Playbooks : pb.exists /\ playbook' = [playbook EXCEPT ![f] = pb]
      BY <1>18, <2>1, PlaybookTyped DEF TeachPlaybook, AmendPlaybook
    <2>3. Keeps /\ RowsOK'
      BY <1>18, <2>2, QuietPlaybook DEF TeachPlaybook, AmendPlaybook
    <2>4. \A q \in Procs : HeldOK(q)'
      <3> SUFFICES ASSUME NEW q \in Procs PROVE HeldOK(q)'
        OBVIOUS
      <3>1. pc[q] = "confirm_only" => arg[q].sig \in Families
        BY DEF TypeOK, ControlOK, Control
      <3> QED BY <1>18, <2>3, <3>1
              DEF TeachPlaybook, AmendPlaybook, local, QuietInv, HeldOK, Keeps, Live
    <2> QED BY <2>3, <2>4 DEF QuietInv
  <1>19. CASE UNCHANGED vars
    BY <1>19 DEF vars, QuietInv, RowsOK, IdsUnique, PayloadOwned, ConfirmedHasPlaybook, HeldOK, Live
  <1> QED
    BY <1>1, <1>2, <1>3, <1>4, <1>5, <1>6, <1>7, <1>8, <1>9, <1>10, <1>11, <1>12, <1>13, <1>14,
       <1>15, <1>16, <1>17, <1>18, <1>19 DEF Next

LEMMA QuietInvariant ==
    ASSUME ~ConcurrentPurge
    PROVE  Spec => []QuietInv
  <1>1. Init => QuietInv
    BY DEF Init, QuietInv, RowsOK, IdsUnique, PayloadOwned, ConfirmedHasPlaybook, HeldOK, Live, NoRow, Sigs
  <1>2. TypeOK /\ TypeOK' /\ IdsUnique' /\ QuietInv /\ [Next]_vars => QuietInv'
    BY QuietStep
  <1> QED BY <1>1, <1>2, TypeCorrect, UniqueIds, PTL DEF Spec

(* While no purge runs beside another command, a command works on the row it  *)
(* has read and a payload stays with its signature.                           *)
THEOREM QuietRows ==
    ASSUME ~ConcurrentPurge
    PROVE  Spec => [](HeldIsCurrent /\ PayloadOwned)
  <1>1. QuietInv => HeldIsCurrent /\ PayloadOwned
    BY DEF QuietInv, RowsOK, HeldOK, HeldIsCurrent
  <1> QED BY <1>1, QuietInvariant, PTL

(* Under the same condition, no confirmed playbook_candidate is left without  *)
(* a playbook, although `teach` decides on a read made before its             *)
(* transaction whether to write one.                                          *)
THEOREM ConfirmationMaterializes ==
    ASSUME ~ConcurrentPurge
    PROVE  Spec => []ConfirmedHasPlaybook
  <1>1. QuietInv => ConfirmedHasPlaybook
    BY DEF QuietInv, RowsOK
  <1> QED BY <1>1, QuietInvariant, PTL

-----------------------------------------------------------------------------
(* The payload of a settled row never changes, concurrent purges or not.      *)
THEOREM SettledFrozen == Spec => SettledPayloadFrozen
  <1> DEFINE Frozen ==
         \A s \in Sigs :
            cand[s].status \in {"confirmed", "rejected", "expired"} /\ cand'[s].id = cand[s].id
              => cand'[s].payload = cand[s].payload
  <1>1. TypeOK /\ [Next]_vars => [Frozen]_vars
    <2> SUFFICES ASSUME TypeOK, [Next]_vars PROVE Frozen
      OBVIOUS
    <2> USE DEF TypeOK, StoreTypeOK, Live
    <2>0. CandStep
      BY StepIsCandStep
    <2>1. ASSUME NEW s \in Sigs, Inserts(s) \/ Bumps(s) \/ Confirms(s) \/ Rejects(s) PROVE Frozen
      BY <2>1 DEF Inserts, Insert, Bumps, Bump, Confirms, Rejects, SetStatus, Rows
    <2>2. ASSUME NEW pay \in Payloads, NEW i \in Ids, Refreshes(pay, i) PROVE Frozen
      BY <2>2 DEF Refreshes, OpenWithId
    <2>3. ASSUME NEW unseen \in SUBSET Sigs, Expires(unseen) PROVE Frozen
      BY <2>3 DEF Expires, Rows
    <2>4. ASSUME NEW tombstones \in BOOLEAN, Purges(tombstones) PROVE Frozen
      BY <2>4 DEF Purges, NoRow, Ids
    <2>5. CASE UNCHANGED cand
      BY <2>5
    <2> QED BY <2>0, <2>1, <2>2, <2>3, <2>4, <2>5 DEF CandStep
  <1> QED BY <1>1, TypeCorrect, PTL DEF Spec, SettledPayloadFrozen

-----------------------------------------------------------------------------
(* Only a step that confirms an open candidate brings what candidates propose *)
(* into the playbooks, whatever else runs.                                    *)
THEOREM Quarantined == Spec => Quarantine
  <1> DEFINE OneBlessed(S) == \E s \in S : Blessed(s) /\ \A t \in Sigs \ {s} : ~Blessed(t)
             Step == \A f \in Families :
                        /\ playbook'[f].json \in Payloads /\ playbook'[f].json # playbook[f].json
                              => OneBlessed(Families)
                        /\ ~(playbook'[f].notes \subseteq playbook[f].notes) => OneBlessed(FlagSigs)
  <1>1. ASSUME TypeOK, NEW s \in Sigs, cand[s].status = "open", SetStatus(s, "confirmed")
        PROVE  Blessed(s) /\ \A t \in Sigs \ {s} : ~Blessed(t)
    BY <1>1 DEF SetStatus, Blessed, TypeOK, StoreTypeOK, Rows
  <1>2. ASSUME TypeOK, NEW p \in Procs, held[p] \in Copies, held[p].family \in Families,
               MaterializePlaybook(p)
        PROVE  Step
    <2> DEFINE c == held[p]
    <2>1. PICK s \in OpenWithId(c.id) :
             /\ s \in Families /\ SetStatus(s, "confirmed")
             /\ playbook' = [playbook EXCEPT ![c.family] = Upserted(@, c.payload, c.payload.notes)]
      BY <1>2 DEF MaterializePlaybook
    <2>2. OneBlessed(Families)
      BY <1>1, <1>2, <2>1 DEF OpenWithId, WithId
    <2>3. \A f \in Families : playbook'[f].notes \subseteq playbook[f].notes
      BY <1>2, <2>1 DEF Upserted, TypeOK, StoreTypeOK
    <2> QED BY <2>2, <2>3
  <1>3. ASSUME TypeOK, NEW p \in Procs, MaterializeNote(p)
        PROVE  Step
    <2> DEFINE c == held[p]
    <2>1. PICK s \in OpenWithId(c.id), f \in Families :
             /\ s \in FlagSigs /\ SetStatus(s, "confirmed")
             /\ playbook' = [playbook EXCEPT ![f] = Appended(@, {c.payload.sig} \cap FlagSigs)]
      BY <1>3 DEF MaterializeNote
    <2>2. OneBlessed(FlagSigs)
      BY <1>1, <1>3, <2>1 DEF OpenWithId, WithId
    <2>3. \A g \in Families : playbook'[g].json = playbook[g].json
      BY <1>3, <2>1, PlaybookTyped DEF TypeOK, StoreTypeOK
    <2> QED BY <2>2, <2>3
  <1>4. ASSUME TypeOK, NEW f \in Families, NEW json \in {None, Taught}, NEW notes \in BOOLEAN,
               playbook' = [playbook EXCEPT ![f] = Upserted(@, json, notes)]
        PROVE  Step
    BY <1>4 DEF Upserted, TypeOK, StoreTypeOK
  <1>5. ASSUME TypeOK, UNCHANGED playbook PROVE Step
    BY <1>5
  <1>6. TypeOK /\ [Next]_vars => Step
    <2> SUFFICES ASSUME TypeOK, [Next]_vars PROVE Step
      OBVIOUS
    <2> HIDE DEF Step
    <2>1. ASSUME NEW p \in Procs,
                 \/ \E s \in FlagSigs, fam \in Families \cup {None} : DeriveFlag(p, s, fam)
                 \/ DeriveRead(p) \/ PromoteList(p) \/ PromoteCheck(p) \/ PromoteConfirm(p)
                 \/ PromoteError(p) \/ SynthCheck(p) \/ SynthDerive(p) \/ SynthRead(p) \/ Refresh(p)
                 \/ \E s \in Sigs : ConfirmGet(p, s) \/ RejectGet(p, s)
                 \/ RejectTx(p) \/ PurgeDelete(p) \/ Abort(p)
                 \/ \E tombstones \in BOOLEAN : PurgeExpire(p, tombstones)
          PROVE  Step
      BY <1>5, <2>1
         DEF DeriveFlag, DeriveRead, PromoteList, PromoteCheck, PromoteConfirm, PromoteError,
             SynthCheck, SynthDerive, SynthRead, Refresh, ConfirmGet, RejectGet, RejectTx,
             PurgeDelete, Abort, PurgeExpire, store
    <2>2. ASSUME NEW p \in Procs, PromoteMaterialize(p) \/ ConfirmTx(p) PROVE Step
      <3>1. held[p] \in Copies /\ (held[p].sig \in Families => held[p].family \in Families)
        BY <2>2 DEF PromoteMaterialize, ConfirmTx, TypeOK, ControlOK, Control
      <3>2. \/ held[p].sig \in Families /\ MaterializePlaybook(p)
            \/ MaterializeNote(p)
        BY <2>2 DEF PromoteMaterialize, ConfirmTx, TypeOK, ControlOK, Control
      <3> QED BY <1>2, <1>3, <3>1, <3>2
    <2>3. ASSUME NEW p \in Procs, NEW f \in Families, TeachStart(p, f) PROVE Step
      <3>1. \/ UNCHANGED playbook
            \/ \E json \in {None, Taught}, notes \in BOOLEAN :
                  playbook' = [playbook EXCEPT ![f] = Upserted(@, json, notes)]
        BY <2>3, Zenon DEF TeachStart
      <3> QED BY <1>4, <1>5, <3>1
    <2>4. ASSUME NEW f \in Families, NEW json \in {None, Taught}, NEW notes \in BOOLEAN,
                 TeachPlaybook(f, json, notes)
          PROVE  Step
      BY <1>4, <2>4 DEF TeachPlaybook
    <2>5. ASSUME NEW f \in Families, AmendPlaybook(f) PROVE Step
      <3>1. playbook[f] \in Playbooks /\ Appended(playbook[f], {}).notes = playbook[f].notes
            /\ Appended(playbook[f], {}).json = playbook[f].json
        <4>1. playbook[f] \in Playbooks
          BY DEF TypeOK, StoreTypeOK
        <4> QED BY <4>1 DEF Appended, Playbooks
      <3> QED BY <2>5, <3>1 DEF AmendPlaybook, TypeOK, StoreTypeOK, Step
    <2>6. CASE UNCHANGED vars
      BY <1>5, <2>6 DEF vars
    <2> QED BY <2>1, <2>2, <2>3, <2>4, <2>5, <2>6 DEF Next
  <1> QED BY <1>6, TypeCorrect, PTL DEF Spec, Quarantine

(* While no purge runs beside another command, a candidate is confirmed only  *)
(* by a command that has read that candidate, and a flag correction only      *)
(* together with its note.                                                    *)
THEOREM QuietConfirmations ==
    ASSUME ~ConcurrentPurge
    PROVE  Spec => CallerReadWhatIsBlessed /\ ConfirmedFlagHasNote
  <1> DEFINE Read == \A s \in Sigs : Blessed(s) => \E p \in Procs : pc[p] # pc'[p] /\ held[p].sig = s
             Noted == \A s \in FlagSigs : Blessed(s) => \E f \in Families : s \in playbook'[f].notes
  <1>1. TypeOK /\ QuietInv /\ [Next]_vars => Read /\ Noted
    <2> SUFFICES ASSUME TypeOK, QuietInv, [Next]_vars, NEW s \in Sigs, Blessed(s)
                 PROVE  /\ \E p \in Procs : pc[p] # pc'[p] /\ held[p].sig = s
                        /\ s \in FlagSigs => \E f \in Families : s \in playbook'[f].notes
      BY DEF Sigs
    <2>1. \E p \in Procs : PromoteConfirm(p) \/ PromoteMaterialize(p) \/ ConfirmTx(p)
      <3>1. ASSUME NEW p \in Procs, NEW t \in Sigs, NEW fam \in Families \cup {None},
                   NEW pay \in Payloads, Upsert(p, t, fam, pay)
            PROVE  FALSE
        <4>1. ~(~Live(t) /\ Insert(t, fam, pay))
          BY DEF Insert, Blessed, Live, TypeOK, StoreTypeOK
        <4>2. ~(Live(t) /\ Bump(t))
          BY DEF Bump, Blessed, TypeOK, StoreTypeOK, Rows
        <4> QED BY <3>1, <4>1, <4>2 DEF Upsert, Blessed
      <3>2. ASSUME NEW p \in Procs, NEW t \in FlagSigs, NEW fam \in Families \cup {None},
                   DeriveFlag(p, t, fam)
            PROVE  FALSE
        <4>1. FlagPayload(t) \in Payloads /\ t \in Sigs
          BY DEF FlagPayload, Payloads, Sigs
        <4> QED BY <3>1, <3>2, <4>1 DEF DeriveFlag
      <3>3. ASSUME NEW p \in Procs, SynthDerive(p) PROVE FALSE
        <4>1. arg[p].sig \in Families /\ arg[p].sig \in Sigs /\ arg[p].payload \in Payloads
          BY <3>3 DEF SynthDerive, TypeOK, ControlOK, Control, Sigs
        <4> QED BY <3>1, <3>3, <4>1 DEF SynthDerive
      <3>4. ASSUME UNCHANGED cand PROVE FALSE
        BY <3>4 DEF Blessed
      <3>5. ASSUME NEW p \in Procs,
                   Refresh(p) \/ RejectTx(p) \/ PurgeDelete(p)
                   \/ \E tombstones \in BOOLEAN : PurgeExpire(p, tombstones)
            PROVE  FALSE
        BY <3>5 DEF Refresh, RejectTx, PurgeDelete, PurgeExpire, SetStatus, WithId, NoRow, Blessed,
              TypeOK, StoreTypeOK, Rows
      <3> QED
        BY <3>2, <3>3, <3>4, <3>5
           DEF Next, DeriveRead, TeachStart, PromoteList, PromoteCheck, PromoteError, SynthCheck,
               SynthRead, ConfirmGet, RejectGet, Abort, TeachPlaybook, AmendPlaybook, store, vars
    <2>2. PICK p \in Procs : PromoteConfirm(p) \/ PromoteMaterialize(p) \/ ConfirmTx(p)
      BY <2>1
    <2>3. held[p] \in Copies
      BY <2>2 DEF PromoteConfirm, PromoteMaterialize, ConfirmTx, TypeOK, ControlOK, Control
    <2>4. pc[p] # pc'[p]
      BY <2>2 DEF PromoteConfirm, PromoteMaterialize, ConfirmTx, Goto, Exit, TypeOK, LocalTypeOK
    <2>5. PICK t \in OpenWithId(held[p].id) : SetStatus(t, "confirmed")
      BY <2>2 DEF PromoteConfirm, PromoteMaterialize, ConfirmTx, MaterializePlaybook, MaterializeNote
    <2>6. t = s
      BY <2>5 DEF SetStatus, Blessed, OpenWithId, WithId, TypeOK, StoreTypeOK, Rows
    <2>7. s = held[p].sig
      BY <2>3, <2>5, <2>6, HeldRow DEF OpenWithId
    <2>8. ASSUME s \in FlagSigs PROVE \E f \in Families : s \in playbook'[f].notes
      <3>1. MaterializeNote(p)
        BY <2>2, <2>7, <2>8 DEF PromoteConfirm, PromoteMaterialize, ConfirmTx, TypeOK, ControlOK, Control
      <3>2. held[p].payload.sig = s
        BY <2>3, <2>7 DEF QuietInv, HeldOK, Copies, NoCopy, Sigs
      <3>3. PICK f \in Families :
               playbook' = [playbook EXCEPT ![f] = Appended(@, {held[p].payload.sig} \cap FlagSigs)]
        BY <3>1 DEF MaterializeNote
      <3>4. playbook[f] \in Playbooks
        BY DEF TypeOK, StoreTypeOK
      <3>5. Appended(playbook[f], {s}).notes = playbook[f].notes \cup {s}
        BY <3>4 DEF Appended, Playbooks
      <3>6. {held[p].payload.sig} \cap FlagSigs = {s}
        BY <3>2, <2>8
      <3> QED BY <3>3, <3>5, <3>6 DEF TypeOK, StoreTypeOK
    <2> QED BY <2>4, <2>7, <2>8
  <1> QED
    BY <1>1, TypeCorrect, QuietInvariant, PTL DEF Spec, CallerReadWhatIsBlessed, ConfirmedFlagHasNote


-----------------------------------------------------------------------------
(* The candidates a recall surfaces (Surfacing) *)

(* The rows of a ranking, one after the other.                                *)
Ranks(rank) ==
    LET Before(s, t) == Precedes(rank[s], rank[t])
    IN  \A s, t \in DOMAIN rank :
           /\ ~Before(s, s)
           /\ s # t => Before(s, t) \/ Before(t, s)
           /\ \A u \in DOMAIN rank : Before(s, t) /\ Before(t, u) => Before(s, u)

Below(rank, s) == {t \in DOMAIN rank : Precedes(rank[t], rank[s])}

LEMMA BelowGrows ==
  ASSUME NEW rank, IsFiniteSet(DOMAIN rank), Ranks(rank)
  PROVE  \A s \in DOMAIN rank :
            /\ IsFiniteSet(Below(rank, s)) /\ Cardinality(Below(rank, s)) \in Nat
            /\ Cardinality(Below(rank, s)) <= Cardinality(DOMAIN rank)
            /\ \A t \in Below(rank, s) : Cardinality(Below(rank, t)) < Cardinality(Below(rank, s))
<1>1. ASSUME NEW s \in DOMAIN rank
      PROVE  /\ IsFiniteSet(Below(rank, s)) /\ Cardinality(Below(rank, s)) \in Nat
             /\ Cardinality(Below(rank, s)) <= Cardinality(DOMAIN rank)
  <2>1. Below(rank, s) \in SUBSET DOMAIN rank
    BY DEF Below
  <2> QED BY <2>1, FS_Subset, FS_CardinalityType
<1>2. ASSUME NEW s \in DOMAIN rank, NEW t \in Below(rank, s)
      PROVE  Cardinality(Below(rank, t)) < Cardinality(Below(rank, s))
  <2>1. t \in DOMAIN rank /\ Below(rank, t) \in SUBSET Below(rank, s)
        /\ t \in Below(rank, s) /\ t \notin Below(rank, t)
    BY <1>2 DEF Below, Ranks
  <2>2. /\ Cardinality(Below(rank, t)) <= Cardinality(Below(rank, s))
        /\ Cardinality(Below(rank, t)) # Cardinality(Below(rank, s))
    BY <1>1, <2>1, FS_Subset
  <2> QED BY <1>1, <2>1, <2>2
<1> QED BY <1>1, <1>2

(* First takes the rows that precede all others, ...                          *)
LEMMA FirstPrecede ==
  ASSUME NEW rank, IsFiniteSet(DOMAIN rank), Ranks(rank), NEW n \in Nat,
         NEW s \in DOMAIN rank, s \notin First(rank, n)
  PROVE  /\ Cardinality(DOMAIN rank) >= n
         /\ \A t \in First(rank, n) : t \in DOMAIN rank /\ Precedes(rank[t], rank[s])
<1>1. First(rank, n) = {t \in DOMAIN rank : Cardinality(Below(rank, t)) < n}
  BY DEF First, Below
<1>2. Cardinality(Below(rank, s)) >= n
  BY <1>1, BelowGrows
<1>3. Cardinality(DOMAIN rank) \in Nat
  BY FS_CardinalityType
<1>4. ASSUME NEW t \in First(rank, n) PROVE t \in DOMAIN rank /\ Precedes(rank[t], rank[s])
  <2>1. t \in DOMAIN rank /\ Cardinality(Below(rank, t)) < n /\ t # s
    BY <1>1, <1>4
  <2>2. ~Precedes(rank[s], rank[t])
    <3>1. Precedes(rank[s], rank[t]) => s \in Below(rank, t)
      BY DEF Below
    <3> QED BY <1>2, <2>1, <3>1, BelowGrows
  <2> QED BY <2>1, <2>2 DEF Ranks
<1> QED BY <1>2, <1>3, <1>4, BelowGrows

(* ... and as many of them as it is asked for, if there are so many.          *)
LEMMA FirstCount ==
  ASSUME NEW rank, IsFiniteSet(DOMAIN rank), Ranks(rank), NEW n \in Nat, Cardinality(DOMAIN rank) >= n
  PROVE  Cardinality(First(rank, n)) = n
<1> DEFINE S == DOMAIN rank
           F == First(rank, n)
           c(s) == Cardinality(Below(rank, s))
<1>1. F = {t \in S : c(t) < n}
  BY DEF First, Below
<1>2. /\ IsFiniteSet(F) /\ Cardinality(F) \in Nat /\ F \in SUBSET S /\ Cardinality(S) \in Nat
      /\ \A s \in S : c(s) \in Nat /\ IsFiniteSet(Below(rank, s)) /\ \A t \in Below(rank, s) : c(t) < c(s)
  <2>1. F \in SUBSET S
    BY <1>1
  <2> QED BY <2>1, FS_Subset, FS_CardinalityType, BelowGrows
<1> HIDE DEF F
<1>3. Cardinality(F) <= n
  <2>1. CASE F = {}
    BY <2>1, FS_EmptySet
  <2>2. CASE F # {}
    <3> DEFINE C == {c(t) : t \in F}
    <3>1. C \subseteq Nat /\ C # {} /\ \A k \in C : k <= n
      <4> HIDE DEF c
      <4> QED BY <1>1, <1>2, <2>2
    <3>2. PICK k \in C : \A l \in C : l <= k
      <4> HIDE DEF C
      <4> QED BY <3>1, GreatestExists
    <3>3. PICK g \in F : \A t \in F : c(t) <= c(g)
      <4> HIDE DEF c
      <4> QED BY <3>2
    <3>4. g \in S /\ c(g) < n /\ c(g) \in Nat
      BY <1>1, <1>2
    <3>5. ASSUME NEW t \in F PROVE t \in Below(rank, g) \cup {g}
      <4>1. t \in S /\ c(t) <= c(g) /\ c(t) \in Nat
        BY <1>2, <3>3
      <4>2. g \notin Below(rank, t)
        BY <1>2, <3>4, <4>1
      <4> QED BY <3>4, <4>1, <4>2 DEF Below, Ranks
    <3>6. /\ IsFiniteSet(Below(rank, g) \cup {g}) /\ Cardinality(Below(rank, g) \cup {g}) <= c(g) + 1
      <4>1. IsFiniteSet(Below(rank, g)) /\ c(g) \in Nat
        BY <1>2, <3>4
      <4>2. /\ IsFiniteSet(Below(rank, g) \cup {g})
            /\ Cardinality(Below(rank, g) \cup {g}) = IF g \in Below(rank, g) THEN c(g) ELSE c(g) + 1
        BY <4>1, FS_AddElement
      <4> QED BY <4>1, <4>2
    <3>7. Cardinality(F) <= Cardinality(Below(rank, g) \cup {g}) /\ Cardinality(Below(rank, g) \cup {g}) \in Nat
      <4>1. F \in SUBSET (Below(rank, g) \cup {g})
        BY <3>5
      <4> QED BY <3>6, <4>1, FS_Subset, FS_CardinalityType
    <3> QED BY <1>2, <3>4, <3>6, <3>7
  <2> QED BY <2>1, <2>2
<1>4. Cardinality(F) >= n
  <2>1. CASE F = S
    BY <2>1
  <2>2. CASE F # S
    <3> DEFINE C == {c(t) : t \in S \ F}
    <3>1. C \subseteq Nat /\ C # {}
      <4> HIDE DEF c
      <4> QED BY <1>2, <2>2
    <3>2. PICK k \in C : \A l \in C : k <= l
      <4> HIDE DEF C
      <4> QED BY <3>1, LeastExists
    <3>3. PICK s \in S \ F : \A t \in S \ F : c(s) <= c(t)
      <4> HIDE DEF c
      <4> QED BY <3>2
    <3>4. c(s) \in Nat /\ c(s) >= n
      BY <1>1, <1>2
    <3>5. Below(rank, s) \in SUBSET F
      <4>1. ASSUME NEW t \in Below(rank, s) PROVE t \in F
        <5>1. t \in S /\ c(t) < c(s) /\ c(t) \in Nat
          BY <1>2, <4>1 DEF Below
        <5> QED BY <3>3, <3>4, <5>1
      <4> QED BY <4>1
    <3>6. c(s) <= Cardinality(F)
      BY <1>2, <3>5, FS_Subset
    <3> QED BY <1>2, <3>4, <3>6
  <2> QED BY <2>1, <2>2
<1> QED BY <1>2, <1>3, <1>4 DEF F

LEMMA FirstOfSome ==
  ASSUME NEW rank, IsFiniteSet(DOMAIN rank), Ranks(rank), NEW n \in Nat, n > 0, DOMAIN rank # {}
  PROVE  First(rank, n) # {}
<1>1. CASE DOMAIN rank \subseteq First(rank, n)
  BY <1>1
<1>2. CASE ~(DOMAIN rank \subseteq First(rank, n))
  <2>1. Cardinality(First(rank, n)) = n
    BY <1>2, FirstPrecede, FirstCount
  <2> QED BY <2>1, FS_EmptySet
<1> QED BY <1>1, <1>2

(* Rows are ranked by a class and their standing; the id is unlike any other. *)
Entered(class, s, seen) == <<class>> \o Standing(s, seen)

LEMMA FourthOf ==
  ASSUME NEW k \in Int, NEW l \in Int, NEW m \in Int, NEW n \in Int
  PROVE  LET x == <<k>> \o <<l, m, n>>
         IN  DOMAIN x = 1 .. 4 /\ x[1] = k /\ x[2] = l /\ x[3] = m /\ x[4] = n
<1> DEFINE u == <<k>>
           v == <<l, m, n>>
           x == u \o v
<1>1. /\ u \in Seq(Int) /\ Len(u) = 1 /\ u[1] = k
      /\ v \in Seq(Int) /\ Len(v) = 3 /\ v[1] = l /\ v[2] = m /\ v[3] = n
  OBVIOUS
<1> HIDE DEF u, v
<1>2. /\ x \in Seq(Int) /\ Len(x) = Len(u) + Len(v)
      /\ \A i \in 1 .. Len(u) + Len(v) : x[i] = IF i <= Len(u) THEN u[i] ELSE v[i - Len(u)]
  BY <1>1, ConcatProperties
<1> HIDE DEF x
<1>3. Len(x) = 4 /\ \A i \in 1 .. 4 : x[i] = IF i <= 1 THEN u[i] ELSE v[i - 1]
  BY <1>1, <1>2
<1>4. DOMAIN x = 1 .. 4 /\ x[1] = u[1] /\ x[2] = v[1] /\ x[3] = v[2] /\ x[4] = v[3]
  <2>1. DOMAIN x = 1 .. 4
    <3>1. x \in Seq(Int)
      BY <1>2
    <3>2. Len(x) = 4
      BY <1>3
    <3>3. DOMAIN x = 1 .. Len(x)
      BY <3>1
    <3> QED BY <3>2, <3>3
  <2>2. x[1] = u[1]
    BY <1>3
  <2>3. x[2] = v[2 - 1] /\ 2 - 1 = 1
    BY <1>3
  <2>4. x[3] = v[3 - 1] /\ 3 - 1 = 2
    BY <1>3
  <2>5. x[4] = v[4 - 1] /\ 4 - 1 = 3
    BY <1>3
  <2> QED BY <2>1, <2>2, <2>3, <2>4, <2>5
<1> QED BY <1>1, <1>4 DEF u, v, x

LEMMA EnteredPrecedes ==
  ASSUME StoreTypeOK, NEW seen \in [Sigs -> 0 .. 1], NEW s \in Sigs, NEW t \in Sigs,
         NEW a \in Nat, NEW b \in Nat
  PROVE  Precedes(Entered(a, s, seen), Entered(b, t, seen)) <=>
            \/ a < b
            \/ a = b /\ cand[s].sightings > cand[t].sightings
            \/ a = b /\ cand[s].sightings = cand[t].sightings /\ seen[s] > seen[t]
            \/ /\ a = b /\ cand[s].sightings = cand[t].sightings /\ seen[s] = seen[t]
               /\ cand[s].id < cand[t].id
<1> DEFINE x == Entered(a, s, seen)
           y == Entered(b, t, seen)
<1>1. /\ cand[s].sightings \in Nat /\ cand[t].sightings \in Nat /\ MaxSightings \in Nat
      /\ cand[s].id \in Int /\ cand[t].id \in Int /\ seen[s] \in Int /\ seen[t] \in Int
  BY CandidatesAssumption DEF StoreTypeOK, Rows
<1>2. /\ DOMAIN x = 1 .. 4
      /\ x[1] = a /\ x[2] = MaxSightings - cand[s].sightings /\ x[3] = 0 - seen[s] /\ x[4] = cand[s].id
      /\ y[1] = b /\ y[2] = MaxSightings - cand[t].sightings /\ y[3] = 0 - seen[t] /\ y[4] = cand[t].id
  BY <1>1, FourthOf DEF Entered, Standing
<1> HIDE DEF x, y
<1>3. Precedes(x, y) <=> \E k \in 1 .. 4 : x[k] < y[k] /\ \A j \in 1 .. k - 1 : x[j] = y[j]
  BY <1>2 DEF Precedes
<1>4. Precedes(x, y) <=> \/ x[1] < y[1]
                         \/ x[1] = y[1] /\ x[2] < y[2]
                         \/ x[1] = y[1] /\ x[2] = y[2] /\ x[3] < y[3]
                         \/ x[1] = y[1] /\ x[2] = y[2] /\ x[3] = y[3] /\ x[4] < y[4]
  <2>1. /\ \A j \in 1 .. 0 : FALSE
        /\ \A j : j \in 1 .. 1 <=> j = 1
        /\ \A j : j \in 1 .. 2 <=> j = 1 \/ j = 2
        /\ \A j : j \in 1 .. 3 <=> j = 1 \/ j = 2 \/ j = 3
        /\ \A j : j \in 1 .. 4 <=> j = 1 \/ j = 2 \/ j = 3 \/ j = 4
    OBVIOUS
  <2> QED BY <1>3, <2>1
<1> QED BY <1>1, <1>2, <1>4 DEF x, y

LEMMA OpenIsFinite == StoreTypeOK /\ IdsUnique => IsFiniteSet(Open) /\ Open \subseteq Sigs
<1> SUFFICES ASSUME StoreTypeOK, IdsUnique PROVE IsFiniteSet(Open)
  BY DEF Open
<1> DEFINE id == [s \in Open |-> cand[s].id]
<1>1. \A s \in Open : s \in Sigs /\ Live(s) /\ cand[s].id \in Ids
  BY DEF Open, Live, StoreTypeOK
<1>2. id \in Injection(Open, Ids)
  BY <1>1 DEF Injection, IdsUnique, IsInjective
<1>3. IsFiniteSet(Ids)
  BY CandidatesAssumption, FS_Interval DEF Ids
<1> QED BY <1>2, <1>3, FS_Injection

(* Any classing of live rows ranks them, and inside a class by sightings.     *)
LEMMA RowsAreRanked ==
  ASSUME StoreTypeOK, IdsUnique, NEW seen \in [Sigs -> 0 .. 1], NEW T, T \subseteq Open,
         NEW class \in [T -> Nat], NEW rank, rank = [s \in T |-> Entered(class[s], s, seen)]
  PROVE  /\ DOMAIN rank = T /\ IsFiniteSet(T) /\ Ranks(rank)
         /\ \A s, t \in T : Precedes(rank[t], rank[s]) =>
               \/ class[t] < class[s]
               \/ class[t] = class[s] /\ cand[t].sightings >= cand[s].sightings
<1>1. DOMAIN rank = T /\ \A s \in T : rank[s] = Entered(class[s], s, seen)
  OBVIOUS
<1>2. \A s \in T : /\ s \in Sigs /\ Live(s) /\ class[s] \in Nat /\ cand[s].sightings \in Nat
                   /\ seen[s] \in Int /\ cand[s].id \in Int
  BY DEF Open, Live, StoreTypeOK, Rows
<1>3. \A s, t \in T :
        Precedes(rank[s], rank[t]) <=>
            \/ class[s] < class[t]
            \/ class[s] = class[t] /\ cand[s].sightings > cand[t].sightings
            \/ class[s] = class[t] /\ cand[s].sightings = cand[t].sightings /\ seen[s] > seen[t]
            \/ /\ class[s] = class[t] /\ cand[s].sightings = cand[t].sightings /\ seen[s] = seen[t]
               /\ cand[s].id < cand[t].id
  BY <1>1, <1>2, EnteredPrecedes
<1>4. \A s, t \in T : s # t => cand[s].id # cand[t].id
  BY <1>2 DEF IdsUnique
<1> DEFINE Under(s, t) == Precedes(rank[s], rank[t])
<1>5. ASSUME NEW s \in T PROVE ~Under(s, s)
  BY <1>2, <1>3
<1>6. ASSUME NEW s \in T, NEW t \in T, s # t PROVE Under(s, t) \/ Under(t, s)
  BY <1>2, <1>3, <1>4, <1>6
<1>7. ASSUME NEW s \in T, NEW t \in T, NEW u \in T, Under(s, t), Under(t, u) PROVE Under(s, u)
  BY <1>2, <1>3, <1>7
<1>8. Ranks(rank)
  BY <1>1, <1>5, <1>6, <1>7 DEF Ranks
<1>9. IsFiniteSet(T)
  BY OpenIsFinite, FS_Subset
<1> QED BY <1>1, <1>2, <1>3, <1>8, <1>9

(* "The bound can never starve the rows most relevant to this query", for     *)
(* every table, playbook and bound: an open candidate of the query's family   *)
(* is left out by surfaceCandidates only when the section is full of others   *)
(* of that family that were seen as often.                                    *)
THEOREM NeverStarved == Spec => []FamilyNeverStarved
<1>1. StoreTypeOK /\ IdsUnique => FamilyNeverStarved
  <2> SUFFICES ASSUME StoreTypeOK, IdsUnique, NEW f \in Families, NEW seen \in [Sigs -> 0 .. 1],
                      NEW used \in SUBSET FlagSigs, NEW limit \in ScanLimits
               PROVE  LET top == Surfaced(f, seen, used, limit)
                      IN  /\ Open # {} => top # {}
                          /\ \A s \in Open : Anchored(s, f) =>
                                \/ s \in top
                                \/ /\ Cardinality(top) = SurfaceCap
                                   /\ \A t \in top : /\ Anchored(t, f)
                                                     /\ cand[t].sightings >= cand[s].sightings
    BY DEF FamilyNeverStarved
  <2> DEFINE near == [s \in Open |-> IF Anchored(s, f) THEN 0 ELSE 1]
             scan == [s \in Open |-> Entered(near[s], s, seen)]
             read == First(scan, limit)
             tier == [s \in read |-> Tier(s, f, used)]
             rank == [s \in read |-> Entered(tier[s], s, seen)]
             top  == First(rank, SurfaceCap)
  <2>1. read = Scanned(f, seen, limit) /\ top = Surfaced(f, seen, used, limit)
    BY DEF Scanned, Surfaced, Entered
  <2>2. limit \in Nat /\ SurfaceCap \in Nat /\ SurfaceCap > 0 /\ limit >= SurfaceCap
    BY SurfacingAssumption
  <2>3. near \in [Open -> Nat] /\ tier \in [read -> Nat]
    BY DEF Tier
  <2>4. read \subseteq Open /\ top \subseteq read
    BY DEF First
  <2>5. \A s \in Open : near[s] = IF Anchored(s, f) THEN 0 ELSE 1
    OBVIOUS
  <2>6. \A s \in read : (tier[s] = 0 <=> Anchored(s, f)) /\ tier[s] \in Nat
    BY DEF Tier
  <2>7. /\ DOMAIN scan = Open /\ IsFiniteSet(Open) /\ Ranks(scan)
        /\ \A s, t \in Open : Precedes(scan[t], scan[s]) =>
              \/ near[t] < near[s]
              \/ near[t] = near[s] /\ cand[t].sightings >= cand[s].sightings
    <3> HIDE DEF near
    <3> QED BY <2>3, RowsAreRanked
  <2>8. /\ DOMAIN rank = read /\ IsFiniteSet(read) /\ Ranks(rank)
        /\ \A s, t \in read : Precedes(rank[t], rank[s]) =>
              \/ tier[t] < tier[s]
              \/ tier[t] = tier[s] /\ cand[t].sightings >= cand[s].sightings
    <3> HIDE DEF tier, read
    <3> QED BY <2>3, <2>4, RowsAreRanked
  <2> HIDE DEF near, scan, read, tier, rank, top
  <2>9. Open # {} => top # {}
    <3>1. Open # {} => read # {}
      BY <2>2, <2>7, FirstOfSome DEF read
    <3>2. read # {} => top # {}
      BY <2>2, <2>8, FirstOfSome DEF top
    <3> QED BY <3>1, <3>2
  <2>10. ASSUME NEW s \in Open, Anchored(s, f), s \notin top
         PROVE  /\ Cardinality(top) = SurfaceCap
                /\ \A t \in top : Anchored(t, f) /\ cand[t].sightings >= cand[s].sightings
    <3>1. CASE s \in read
      <4>1. /\ Cardinality(read) >= SurfaceCap
            /\ \A t \in top : t \in read /\ Precedes(rank[t], rank[s])
        BY <2>2, <2>8, <2>10, <3>1, FirstPrecede DEF top
      <4>2. Cardinality(top) = SurfaceCap
        BY <2>2, <2>8, <4>1, FirstCount DEF top
      <4>3. ASSUME NEW t \in top PROVE Anchored(t, f) /\ cand[t].sightings >= cand[s].sightings
        <5>1. tier[s] = 0 /\ t \in read /\ tier[t] \in Nat
          BY <2>6, <2>10, <3>1, <4>1
        <5>2. tier[t] = 0 /\ cand[t].sightings >= cand[s].sightings
          BY <2>8, <3>1, <4>1, <5>1
        <5> QED BY <2>6, <5>1, <5>2
      <4> QED BY <4>2, <4>3
    <3>2. CASE s \notin read
      <4>1. /\ Cardinality(Open) >= limit
            /\ \A t \in read : t \in Open /\ Precedes(scan[t], scan[s])
        BY <2>2, <2>7, <3>2, FirstPrecede DEF read
      <4>2. Cardinality(read) = limit
        BY <2>2, <2>7, <4>1, FirstCount DEF read
      <4>3. Cardinality(top) = SurfaceCap
        BY <2>2, <2>8, <4>2, FirstCount DEF top
      <4>4. ASSUME NEW t \in top PROVE Anchored(t, f) /\ cand[t].sightings >= cand[s].sightings
        <5>1. t \in Open /\ Precedes(scan[t], scan[s]) /\ near[s] = 0 /\ near[t] \in {0, 1}
              /\ (near[t] = 0 => Anchored(t, f))
          BY <2>4, <2>5, <2>10, <4>1
        <5> QED BY <2>7, <5>1
      <4> QED BY <4>3, <4>4
    <3> QED BY <3>1, <3>2
  <2> QED BY <2>1, <2>9, <2>10
<1> QED BY <1>1, TypeCorrect, UniqueIds, PTL DEF TypeOK
=============================================================================
