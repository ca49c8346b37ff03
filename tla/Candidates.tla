----------------------------- MODULE Candidates -----------------------------
(* The learn_candidates table and the CLI processes that write it.  Every     *)
(* command opens the same SQLite file from a process of its own and is a      *)
(* short sequence of statements or transactions; each is atomic, and any      *)
(* other process may run between two of them.                                 *)
EXTENDS Naturals, FiniteSets

CONSTANTS
    Procs,            \* concurrently running CLI processes
    FlagSigs,         \* derivation signatures of class flag_alias
    Families,         \* query families; each is its playbook_candidate's signature
    None,             \* no family, no payload
    Taught,           \* a playbook taught by an agent or seeded, not a candidate's
    MaxId,            \* bound: largest rowid the table hands out
    MaxSteps,         \* bound: longest synthesized playbook
    MaxSightings,     \* bound: observations counted on one row
    ConcurrentPurge,  \* may a purge delete rows while other commands run?
    Terminals,        \* the values "stdout is a terminal" takes
    EpisodeNotes      \* the values "the episode saw a correction" takes

Sigs == FlagSigs \cup Families
Ids  == 1 .. MaxId

(* A payload is known by the signature it was derived for, the number of      *)
(* playbook steps it carries and whether it carries notes.                    *)
Payloads == [sig : Sigs, steps : 1 .. MaxSteps, notes : BOOLEAN]

FlagPayload(s) == [sig |-> s, steps |-> 1, notes |-> FALSE]

ASSUME CandidatesAssumption ==
    /\ FlagSigs \cap Families = {}
    /\ None \notin FlagSigs \cup Families
    /\ None # Taught /\ {None, Taught} \cap Payloads = {}
    /\ MaxId \in Nat
    /\ MaxSteps \in Nat \ {0}
    /\ MaxSightings \in Nat
    /\ ConcurrentPurge \in BOOLEAN
    /\ Terminals \subseteq BOOLEAN /\ EpisodeNotes \subseteq BOOLEAN

Statuses == {"absent", "open", "confirmed", "rejected", "expired"}

VARIABLES
    cand,      \* cand[s]: the row whose derivation_signature is s
    playbook,  \* playbook[f]: the learning_playbooks row of family f
    pc,        \* pc[p]: the statement process p runs next
    arg,       \* arg[p]: what p was asked to record (signature and payload)
    held,      \* held[p]: the candidate row p has read, with its id
    wrote,     \* wrote[p]: what p's upsert did
    shown      \* shown[p]: p has printed the payload it is about to confirm

store == <<cand, playbook>>
local == <<arg, held, wrote, shown>>
vars  == <<cand, playbook, pc, arg, held, wrote, shown>>

Rows == [status : Statuses, id : 0 .. MaxId, sightings : Nat,
         family : Families \cup {None}, payload : Payloads \cup {None}]

NoRow == [status |-> "absent", id |-> 0, sightings |-> 0,
          family |-> None, payload |-> None]

(* exists, the source of playbook_json, and the flag corrections whose        *)
(* confirmation note notes_text contains.                                     *)
Playbooks == [exists : BOOLEAN, json : Payloads \cup {None, Taught}, notes : SUBSET FlagSigs]

NoPlaybook == [exists |-> FALSE, json |-> None, notes |-> {}]

Args   == [sig : Sigs, payload : Payloads \cup {None}]
NoArg  == [sig |-> None, payload |-> None]
Copies == [sig : Sigs, id : Ids, family : Families \cup {None}, payload : Payloads]
NoCopy == [sig |-> None, id |-> 0, family |-> None, payload |-> None]

PCs == {"idle", "derive_read", "list", "check", "confirm_only", "materialize",
        "synth_check", "synth_derive", "synth_read", "refresh", "confirm",
        "reject", "purge", "purge_tombstones"}

StoreTypeOK ==
    /\ cand \in [Sigs -> Rows]
    /\ \A s \in Sigs : IF cand[s].status = "absent"
                       THEN cand[s] = NoRow
                       ELSE cand[s].id \in Ids /\ cand[s].payload \in Payloads
    /\ \A f \in Families : cand[f].status # "absent" => cand[f].family = f
    /\ playbook \in [Families -> Playbooks]

LocalTypeOK ==
    /\ pc \in [Procs -> PCs]
    /\ arg \in [Procs -> Args \cup {NoArg}]
    /\ held \in [Procs -> Copies \cup {NoCopy}]
    /\ wrote \in [Procs -> {"none", "insert", "bump"}]
    /\ shown \in [Procs -> BOOLEAN]

(* What a command needs at each statement, it has.                            *)
Control(p) ==
    /\ pc[p] \in {"check", "confirm_only", "materialize", "confirm", "reject", "refresh"}
         => held[p] \in Copies
    /\ held[p].sig \in Families => held[p].family = held[p].sig
    /\ pc[p] \in {"check", "confirm_only", "materialize"} => held[p].sig = arg[p].sig
    /\ pc[p] = "derive_read" => arg[p] \in Args
    /\ pc[p] \in {"list", "check", "confirm_only", "materialize", "synth_check",
                 "synth_derive", "synth_read", "refresh"}
         => arg[p].sig \in Families
    /\ pc[p] \in {"synth_derive", "synth_read", "refresh"}
         => arg[p].payload \in Payloads /\ arg[p].payload.sig = arg[p].sig

ControlOK == \A p \in Procs : Control(p)

TypeOK == StoreTypeOK /\ LocalTypeOK /\ ControlOK

Init ==
    /\ cand = [s \in Sigs |-> NoRow]
    /\ playbook = [f \in Families |-> NoPlaybook]
    /\ pc = [p \in Procs |-> "idle"]
    /\ arg = [p \in Procs |-> NoArg]
    /\ held = [p \in Procs |-> NoCopy]
    /\ wrote = [p \in Procs |-> "none"]
    /\ shown = [p \in Procs |-> FALSE]

-----------------------------------------------------------------------------
(* The table *)

(* A row as a command keeps it after reading it.                              *)
Copy(s) == [sig |-> s, id |-> cand[s].id, family |-> cand[s].family, payload |-> cand[s].payload]

Live(s) == cand[s].status # "absent"

(* Mutant: ids allotted by counting the rows.                                 *)
CountedId(i) == i = 1 + Cardinality({s \in Sigs : Live(s)})

(* SQLite allots the largest rowid in use plus one: the column is INTEGER     *)
(* PRIMARY KEY without AUTOINCREMENT, so the ids above the largest surviving  *)
(* row are handed out again after a purge.                                    *)
FreshId(i) ==
    /\ \A s \in Sigs : Live(s) => cand[s].id < i
    /\ i = 1 \/ \E s \in Sigs : Live(s) /\ cand[s].id + 1 = i

(* SELECT ... WHERE id = ?                                                    *)
WithId(i) == {s \in Sigs : Live(s) /\ cand[s].id = i}

(* Mutants: the transaction does not re-check the status, or the id.          *)
UncheckedWithId(i) == WithId(i)
OpenWithAnyId(i) == {s \in Sigs : cand[s].status = "open"}

(* getOpenCandidateForConfirmTx: the rows a confirming transaction accepts.   *)
OpenWithId(i) == {s \in WithId(i) : cand[s].status = "open"}

SetStatus(s, st) == cand' = [cand EXCEPT ![s].status = st]

(* UpsertPlaybook: an empty field leaves its column alone, a non-empty one    *)
(* replaces it; notes replaced by other text lose the corrections they held.  *)
Upserted(pb, json, replacesNotes) ==
    [exists |-> TRUE,
     json   |-> IF json = None THEN pb.json ELSE json,
     notes  |-> IF replacesNotes THEN {} ELSE pb.notes]

(* Mutant: the note is only ever inserted with a new playbook row.            *)
AppendedIfNew(pb, corrections) ==
    IF pb.exists THEN pb ELSE [pb EXCEPT !.exists = TRUE, !.notes = corrections]

(* AppendPlaybookNotes *)
Appended(pb, corrections) ==
    [pb EXCEPT !.exists = TRUE, !.notes = @ \cup corrections]

(* The command of p is over: nothing it held survives the process.            *)
Exit(p) ==
    /\ pc' = [pc EXCEPT ![p] = "idle"]
    /\ arg' = [arg EXCEPT ![p] = NoArg]
    /\ held' = [held EXCEPT ![p] = NoCopy]
    /\ wrote' = [wrote EXCEPT ![p] = "none"]
    /\ shown' = [shown EXCEPT ![p] = FALSE]

Goto(p, l) == pc' = [pc EXCEPT ![p] = l]

-----------------------------------------------------------------------------
(* DeriveCandidate: one upsert, then a separate read of the row *)

Insert(s, fam, pay) ==
    \E i \in Ids :
        /\ FreshId(i)
        /\ cand' = [cand EXCEPT ![s] =
                      [status |-> "open", id |-> i, sightings |-> 1,
                       family |-> fam, payload |-> pay]]

(* Mutant: INSERT OR REPLACE, which gives the row a new id.                   *)
BumpByReplace(s) ==
    /\ cand[s].sightings < MaxSightings
    /\ \E i \in Ids :
          /\ FreshId(i)
          /\ cand' = [cand EXCEPT ![s].id = i, ![s].status = "open", ![s].sightings = @ + 1]

Bump(s) ==
    /\ cand[s].sightings < MaxSightings
    /\ cand' = [cand EXCEPT ![s].sightings = @ + 1,
                            ![s].status = IF @ = "expired" THEN "open" ELSE @]

Upsert(p, s, fam, pay) ==
    \/ /\ ~Live(s)
       /\ Insert(s, fam, pay)
       /\ wrote' = [wrote EXCEPT ![p] = "insert"]
    \/ /\ Live(s) /\ cand[s].status # "rejected"
       /\ Bump(s)
       /\ wrote' = [wrote EXCEPT ![p] = "bump"]
    \/ /\ cand[s].status = "rejected"
       /\ wrote' = [wrote EXCEPT ![p] = "none"]
       /\ UNCHANGED cand

(* `inserted`, computed from RowsAffected and the row read back.              *)
ReportsInserted(p) == wrote[p] # "none" /\ cand[arg[p].sig].sightings = 1

(* The post-run derivation pass records one paired flag correction.           *)
DeriveFlag(p, s, fam) ==
    /\ pc[p] = "idle"
    /\ Upsert(p, s, fam, FlagPayload(s))
    /\ arg' = [arg EXCEPT ![p] = [sig |-> s, payload |-> FlagPayload(s)]]
    /\ Goto(p, "derive_read")
    /\ UNCHANGED <<playbook, held, shown>>

DeriveRead(p) ==
    /\ pc[p] = "derive_read"
    /\ Exit(p)
    /\ UNCHANGED store

-----------------------------------------------------------------------------
(* teach: record a playbook if one is given, promote the family's open        *)
(* candidate, then synthesize one from the session's journal                  *)

TeachStart(p, f) ==
    /\ pc[p] = "idle"
    /\ \/ UNCHANGED playbook
       \/ \E json \in {None, Taught}, notes \in BOOLEAN :
             /\ json # None \/ notes
             /\ playbook' = [playbook EXCEPT ![f] = Upserted(@, json, notes)]
    /\ arg' = [arg EXCEPT ![p] = [sig |-> f, payload |-> None]]
    /\ Goto(p, "list")
    /\ UNCHANGED <<cand, held, wrote, shown>>

(* ListCandidates(open, playbook_candidate, family): at most one row, since   *)
(* the family is the signature.                                               *)
PromoteList(p) ==
    LET f == arg[p].sig
    IN  /\ pc[p] = "list"
        /\ \/ /\ cand[f].status = "open"
              /\ held' = [held EXCEPT ![p] = Copy(f)]
              /\ Goto(p, "check")
           \/ /\ cand[f].status # "open"
              /\ Goto(p, "synth_check")
              /\ UNCHANGED held
        /\ UNCHANGED <<cand, playbook, arg, wrote, shown>>

(* Mutant: teach trusts that it has just written the playbook.                *)
PromoteUnchecked(p) ==
    /\ pc[p] = "check"
    /\ Goto(p, "confirm_only")
    /\ UNCHANGED <<cand, playbook, arg, held, wrote, shown>>

(* A playbook of the family makes materializing the candidate superfluous.    *)
PromoteCheck(p) ==
    /\ pc[p] = "check"
    /\ Goto(p, IF playbook[arg[p].sig].exists THEN "confirm_only" ELSE "materialize")
    /\ UNCHANGED <<cand, playbook, arg, held, wrote, shown>>

(* ConfirmCandidate: no class check, the caller listed the row.               *)
PromoteConfirm(p) ==
    /\ pc[p] = "confirm_only"
    /\ \E s \in OpenWithId(held[p].id) : SetStatus(s, "confirmed")
    /\ Goto(p, "synth_check")
    /\ UNCHANGED <<playbook, arg, held, wrote, shown>>

(* ConfirmCandidateWithPlaybook: the row is re-read by id inside the          *)
(* transaction, the payload is the one the caller read before it.             *)
MaterializePlaybook(p) ==
    LET copy == held[p]
    IN  \E s \in OpenWithId(copy.id) :
            /\ s \in Families
            /\ SetStatus(s, "confirmed")
            /\ playbook' = [playbook EXCEPT ![copy.family] =
                              Upserted(@, copy.payload, copy.payload.notes)]

PromoteMaterialize(p) ==
    /\ pc[p] = "materialize"
    /\ MaterializePlaybook(p)
    /\ Goto(p, "synth_check")
    /\ UNCHANGED <<arg, held, wrote, shown>>

(* The row is no longer open, or the store failed: promotion records the      *)
(* error and teach goes on.                                                   *)
PromoteError(p) ==
    /\ pc[p] \in {"list", "check", "confirm_only", "materialize"}
    /\ Goto(p, "synth_check")
    /\ UNCHANGED <<cand, playbook, arg, held, wrote, shown>>

(* SynthesizePlaybookCandidate: nothing to do for a family with a playbook or *)
(* a session without a usable recall-to-teach episode.                        *)
SynthCheck(p) ==
    LET f == arg[p].sig
    IN  /\ pc[p] = "synth_check"
        /\ \/ Exit(p)
           \/ /\ ~playbook[f].exists
              /\ \E n \in 1 .. MaxSteps, notes \in EpisodeNotes :
                    arg' = [arg EXCEPT ![p].payload = [sig |-> f, steps |-> n, notes |-> notes]]
              /\ held' = [held EXCEPT ![p] = NoCopy]
              /\ Goto(p, "synth_derive")
              /\ UNCHANGED <<wrote, shown>>
        /\ UNCHANGED store

SynthDerive(p) ==
    /\ pc[p] = "synth_derive"
    /\ Upsert(p, arg[p].sig, arg[p].sig, arg[p].payload)
    /\ Goto(p, "synth_read")
    /\ UNCHANGED <<playbook, arg, held, shown>>

(* The row predates this episode, which is strictly shorter.                  *)
Supersedes(p) ==
    LET f == arg[p].sig
    IN  /\ cand[f].status \notin {"absent", "rejected"}
        /\ ~ReportsInserted(p)
        /\ arg[p].payload.steps < cand[f].payload.steps

SynthRead(p) ==
    /\ pc[p] = "synth_read"
    /\ \/ /\ Supersedes(p)
          /\ held' = [held EXCEPT ![p] = Copy(arg[p].sig)]
          /\ Goto(p, "refresh")
          /\ UNCHANGED <<arg, wrote, shown>>
       \/ /\ ~Supersedes(p)
          /\ Exit(p)
    /\ UNCHANGED store

(* Mutant: UPDATE ... WHERE status = 'open'                                   *)
RefreshEveryOpen(p) ==
    /\ pc[p] = "refresh"
    /\ cand' = [s \in Sigs |-> IF cand[s].status = "open"
                               THEN [cand[s] EXCEPT !.payload = arg[p].payload]
                               ELSE cand[s]]
    /\ Exit(p)
    /\ UNCHANGED playbook

(* refreshShorterSynthesis: UPDATE ... WHERE id = ? AND status = 'open'       *)
Refresh(p) ==
    /\ pc[p] = "refresh"
    /\ cand' = [s \in Sigs |-> IF s \in OpenWithId(held[p].id)
                               THEN [cand[s] EXCEPT !.payload = arg[p].payload]
                               ELSE cand[s]]
    /\ Exit(p)
    /\ UNCHANGED playbook

-----------------------------------------------------------------------------
(* learnings confirm | reject | purge; teach-playbook; playbook amend *)

(* GetCandidate, outside any transaction; only a terminal gets the payload    *)
(* printed before the confirmation, JSON output carries it afterwards.        *)
ConfirmGet(p, s) ==
    /\ pc[p] = "idle"
    /\ cand[s].status = "open"
    /\ held' = [held EXCEPT ![p] = Copy(s)]
    /\ \E terminal \in Terminals : shown' = [shown EXCEPT ![p] = terminal]
    /\ Goto(p, "confirm")
    /\ UNCHANGED <<cand, playbook, arg, wrote>>

(* ConfirmCandidateWithPlaybookNote: the correction lands under the family    *)
(* the row carries, else under the one the confirming session recalled.       *)
MaterializeNote(p) ==
    LET copy == held[p]
    IN  \E s \in OpenWithId(copy.id), f \in Families :
            /\ s \in FlagSigs
            /\ copy.family \in {None, f}
            /\ SetStatus(s, "confirmed")
            /\ playbook' = [playbook EXCEPT ![f] = Appended(@, {copy.payload.sig} \cap FlagSigs)]

ConfirmTx(p) ==
    /\ pc[p] = "confirm"
    /\ \/ held[p].sig \in Families /\ MaterializePlaybook(p)
       \/ held[p].sig \in FlagSigs /\ MaterializeNote(p)
    /\ Exit(p)

RejectGet(p, s) ==
    /\ pc[p] = "idle"
    /\ Live(s)
    /\ held' = [held EXCEPT ![p] = Copy(s)]
    /\ Goto(p, "reject")
    /\ UNCHANGED <<cand, playbook, arg, wrote, shown>>

Rejectable(s) ==
    /\ cand[s].status # "rejected"
    /\ ~(cand[s].status = "confirmed" /\ s \in FlagSigs)

RejectTx(p) ==
    /\ pc[p] = "reject"
    /\ \E s \in WithId(held[p].id) : Rejectable(s) /\ SetStatus(s, "rejected")
    /\ Exit(p)
    /\ UNCHANGED playbook

(* ExpireCandidates, the first statement of a purge: the open rows unseen for *)
(* longer than the TTL may be any of them.                                    *)
PurgeExpire(p, tombstones) ==
    /\ pc[p] = "idle"
    /\ \E unseen \in SUBSET Sigs :
          cand' = [s \in Sigs |-> IF cand[s].status = "open" /\ s \in unseen
                                  THEN [cand[s] EXCEPT !.status = "expired"]
                                  ELSE cand[s]]
    /\ Goto(p, IF tombstones THEN "purge_tombstones" ELSE "purge")
    /\ UNCHANGED <<playbook, arg, held, wrote, shown>>

Purgeable(s, tombstones) ==
    \/ cand[s].status \in {"expired", "confirmed"}
    \/ tombstones /\ cand[s].status = "rejected"

(* Mutant: rows are marked deleted instead of removed.                        *)
PurgeMarksDeleted(p) ==
    /\ pc[p] \in {"purge", "purge_tombstones"}
    /\ cand' = [s \in Sigs |-> IF Purgeable(s, pc[p] = "purge_tombstones")
                               THEN [cand[s] EXCEPT !.status = "absent"] ELSE cand[s]]
    /\ Exit(p)
    /\ UNCHANGED playbook

PurgeDelete(p) ==
    /\ pc[p] \in {"purge", "purge_tombstones"}
    /\ ConcurrentPurge \/ \A q \in Procs \ {p} : pc[q] = "idle"
    /\ cand' = [s \in Sigs |-> IF Purgeable(s, pc[p] = "purge_tombstones")
                               THEN NoRow ELSE cand[s]]
    /\ Exit(p)
    /\ UNCHANGED playbook

TeachPlaybook(f, json, notes) ==
    /\ json # None \/ notes
    /\ playbook' = [playbook EXCEPT ![f] = Upserted(@, json, notes)]
    /\ UNCHANGED <<cand, pc, local>>

AmendPlaybook(f) ==
    /\ playbook' = [playbook EXCEPT ![f] = Appended(@, {})]
    /\ UNCHANGED <<cand, pc, local>>

-----------------------------------------------------------------------------
(* A statement fails (busy past the deadline, a guard of the transaction), or *)
(* the process is killed: the transaction rolls back and the command ends.    *)
Abort(p) ==
    /\ pc[p] # "idle"
    /\ Exit(p)
    /\ UNCHANGED store

Next ==
    \/ \E p \in Procs :
          \/ \E s \in FlagSigs, fam \in Families \cup {None} : DeriveFlag(p, s, fam)
          \/ DeriveRead(p)
          \/ \E f \in Families : TeachStart(p, f)
          \/ PromoteList(p) \/ PromoteCheck(p) \/ PromoteConfirm(p)
          \/ PromoteMaterialize(p) \/ PromoteError(p)
          \/ SynthCheck(p) \/ SynthDerive(p) \/ SynthRead(p) \/ Refresh(p)
          \/ \E s \in Sigs : ConfirmGet(p, s) \/ RejectGet(p, s)
          \/ ConfirmTx(p) \/ RejectTx(p)
          \/ \E tombstones \in BOOLEAN : PurgeExpire(p, tombstones)
          \/ PurgeDelete(p)
          \/ Abort(p)
    \/ \E f \in Families, json \in {None, Taught}, notes \in BOOLEAN : TeachPlaybook(f, json, notes)
    \/ \E f \in Families : AmendPlaybook(f)

Spec == Init /\ [][Next]_vars
-----------------------------------------------------------------------------
(* Properties *)

(* Whatever the interleaving, each signature goes through the documented      *)
(* lifecycle: a tombstone drops observations until it is purged, only open    *)
(* candidates are confirmed, a confirmed flag correction is never rejected,   *)
(* no open row is ever purged, and racing upserts lose no sighting.           *)
CandStatus    == [s \in Sigs |-> cand[s].status]
CandSightings == [s \in Sigs |-> cand[s].sightings]

Lifecycle == INSTANCE CandidateLifecycle
                 WITH status <- CandStatus, sightings <- CandSightings

FollowsLifecycle == Lifecycle!Spec

(* The row of s changes from open to confirmed in this step.                  *)
Blessed(s) == cand[s].status = "open" /\ cand'[s].status = "confirmed"

(* Candidates are quarantined: what a candidate proposes (its playbook, its   *)
(* correction note) enters the verified tables only in a step that also       *)
(* confirms exactly one open candidate of that class.                         *)
Quarantine ==
    [][\A f \in Families :
         /\ playbook'[f].json \in Payloads /\ playbook'[f].json # playbook[f].json
               => \E s \in Families : Blessed(s) /\ \A t \in Sigs \ {s} : ~Blessed(t)
         /\ ~(playbook'[f].notes \subseteq playbook[f].notes)
               => \E s \in FlagSigs : Blessed(s) /\ \A t \in Sigs \ {s} : ~Blessed(t)]_vars

(* The status guard of refreshShorterSynthesis "keeps the write off any row   *)
(* confirm/reject settled": the payload of a settled row never changes.       *)
SettledPayloadFrozen ==
    [][\A s \in Sigs :
         cand[s].status \in {"confirmed", "rejected", "expired"} /\ cand'[s].id = cand[s].id
           => cand'[s].payload = cand[s].payload]_vars

(* No two live rows share an id, so a command by id touches one candidate.    *)
IdsUnique ==
    \A s, t \in Sigs : Live(s) /\ Live(t) /\ cand[s].id = cand[t].id => s = t

(* When no purge deletes rows under a running command (~ConcurrentPurge), the *)
(* row a command has read is still the row its id names.                      *)
HeldIsCurrent ==
    \A p \in Procs : held[p] # NoCopy =>
        /\ Live(held[p].sig)
        /\ cand[held[p].sig].id = held[p].id

(* A payload stays with the signature it was derived for.                     *)
PayloadOwned ==
    \A s \in Sigs : Live(s) => cand[s].payload.sig = s

(* A confirmed playbook_candidate has a playbook: confirming never drops the  *)
(* guidance the candidate stood for.                                          *)
ConfirmedHasPlaybook ==
    \A f \in Families : cand[f].status = "confirmed" => playbook[f].exists

(* A flag correction is confirmed only together with its note: in the same    *)
(* step some family's playbook gains it.                                      *)
ConfirmedFlagHasNote ==
    [][\A s \in FlagSigs : Blessed(s) => \E f \in Families : s \in playbook'[f].notes]_vars

(* `learnings confirm`: "the caller always sees exactly what is being         *)
(* blessed".  A command that confirms a candidate has read that candidate.    *)
CallerReadWhatIsBlessed ==
    [][\A s \in Sigs : Blessed(s) =>
          \E p \in Procs : pc[p] # pc'[p] /\ held[p].sig = s]_vars

(* The same of `learnings confirm` alone, when purges run concurrently.       *)
ConfirmBlessesWhatItShows ==
    [][\A p \in Procs, s \in Sigs :
          pc[p] = "confirm" /\ pc'[p] = "idle" /\ Blessed(s) => held[p].sig = s]_vars

(* "The full candidate payload is printed before anything is written".        *)
PrintedBeforeWritten ==
    [][\A p \in Procs : pc[p] = "confirm" /\ ~shown[p] /\ pc'[p] = "idle"
          => store' = store]_vars

(* DeriveCandidate: "this call inserted the row exactly when the statement    *)
(* changed one row that now carries a single sighting".                       *)
InsertedIsTruthful ==
    \A p \in Procs :
        pc[p] \in {"derive_read", "synth_read"} /\ Live(arg[p].sig)
          => (ReportsInserted(p) <=> wrote[p] = "insert")

(* "a tighter choreography supersedes a noisier first capture, never the      *)
(* reverse": the payload of a live row never gets longer.                     *)
NeverLengthened ==
    [][\A s \in Sigs : Live(s) /\ cand'[s].id = cand[s].id
          => cand'[s].payload.steps <= cand[s].payload.steps]_vars

(* "its correction note already lives in the family playbook": the reason why *)
(* a confirmed flag correction cannot be rejected.                            *)
ConfirmedNoteLives ==
    \A s \in FlagSigs : cand[s].status = "confirmed"
        => \E f \in Families : s \in playbook[f].notes
=============================================================================
