------------------------- MODULE CandidateLifecycle -------------------------
(* What the learn_candidates table promises about one derivation signature,   *)
(* whoever writes it and in whatever order: the state machine documented at   *)
(* the head of internal/store/candidates.go.  The table itself, its ids and   *)
(* the commands that drive it are in Candidates.tla, which implements this.   *)
EXTENDS Naturals

CONSTANTS
    FlagSigs,   \* derivation signatures of class flag_alias
    Families    \* query families; each is its playbook_candidate's signature

Sigs == FlagSigs \cup Families

Statuses == {"absent", "open", "confirmed", "rejected", "expired"}

VARIABLES
    status,     \* status[s]: the row of signature s, "absent" when there is none
    sightings   \* sightings[s]: observations counted on the present row of s

vars == <<status, sightings>>

Init == /\ status = [s \in Sigs |-> "absent"]
        /\ sightings = [s \in Sigs |-> 0]

(* An observation opens a missing or expired candidate and is counted; a      *)
(* rejected signature is a tombstone and drops it.                            *)
Observe(s) ==
    /\ status[s] # "rejected"
    /\ status' = [status EXCEPT ![s] = IF @ \in {"absent", "expired"} THEN "open" ELSE @]
    /\ sightings' = [sightings EXCEPT ![s] = @ + 1]

Confirm(s) ==
    /\ status[s] = "open"
    /\ status' = [status EXCEPT ![s] = "confirmed"]
    /\ UNCHANGED sightings

(* A confirmed flag correction has no reject path.                            *)
Reject(s) ==
    /\ status[s] \notin {"absent", "rejected"}
    /\ ~(status[s] = "confirmed" /\ s \in FlagSigs)
    /\ status' = [status EXCEPT ![s] = "rejected"]
    /\ UNCHANGED sightings

Expire ==
    /\ \E S \in SUBSET {s \in Sigs : status[s] = "open"} :
          status' = [s \in Sigs |-> IF s \in S THEN "expired" ELSE status[s]]
    /\ UNCHANGED sightings

(* Only settled rows are deleted, tombstones only when asked for.             *)
Purge(tombstones) ==
    LET gone == {s \in Sigs : \/ status[s] \in {"expired", "confirmed"}
                              \/ tombstones /\ status[s] = "rejected"}
    IN  /\ status' = [s \in Sigs |-> IF s \in gone THEN "absent" ELSE status[s]]
        /\ sightings' = [s \in Sigs |-> IF s \in gone THEN 0 ELSE sightings[s]]

Next == \/ \E s \in Sigs : Observe(s) \/ Confirm(s) \/ Reject(s)
        \/ Expire
        \/ \E tombstones \in BOOLEAN : Purge(tombstones)

Spec == Init /\ [][Next]_vars
=============================================================================
