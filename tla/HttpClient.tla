------------------------------- MODULE HttpClient -------------------------------
(* The API client: calls that run at the same time, in one process or in      *)
(* several, against one server and one response-cache directory.  A call is   *)
(* sent, retried and answered, and reads or empties the cache on its way.     *)
(* Calls that verify mode, dry run or a bad path ends before they are sent    *)
(* change nothing and are left out.                                           *)
EXTENDS Naturals

CONSTANTS
    Calls,       \* the calls under way: goroutines of the MCP server, processes
    Kinds,       \* the kinds of calls made, of AllKinds
    MaxRetries,  \* clientMaxRetries
    MaxVersion,  \* bound on the changes of the server's state
    Crashes,     \* may a process be killed?
    None, Torn

(* get: Get; poll: GetNoCache; bypass: Get with the cache switched off        *)
(* (--no-cache, a binary response); post: Post, Put, Patch or Delete; query:  *)
(* the same verbs for a read (PostQueryWithParams and its like).              *)
AllKinds == {"get", "poll", "bypass", "post", "query"}

Versions == 0 .. MaxVersion

ASSUME HttpClientAssumption ==
    /\ Kinds \subseteq AllKinds
    /\ MaxRetries \in Nat /\ MaxVersion \in Nat
    /\ Crashes \in BOOLEAN
    /\ None \notin Versions /\ Torn \notin Versions /\ None # Torn

VARIABLES
    server,   \* how often the state behind the one path has changed
    settled,  \* the newest version a mutation has been acknowledged for
    cache,    \* what the cache file of the path holds, None where it is missing or expired
    writers,  \* the calls that have that very file open for writing
    pc,       \* pc[c]: what call c does next
    kind,     \* kind[c]: what call c is
    attempt,  \* attempt[c]: retries c has used up
    reply,    \* reply[c]: the answer under way to c: its status and snapshot
    applied,  \* applied[c]: how often the server has carried out call c
    result,   \* result[c]: the snapshot c has returned, None for an error
    known     \* known[c]: what the caller of c had seen when it made the call

vars == <<server, settled, cache, writers, pc, kind, attempt, reply, applied, result, known>>

(* limited: 429; failed: 5xx, or no answer at all; rejected: another 4xx.     *)
Statuses == {"ok", "limited", "failed", "rejected"}
NoReply  == [status |-> "failed", version |-> 0]
PCs == {"idle", "lookup", "send", "reply", "truncate", "fill"}

(* known[c].settled: acknowledged mutations; known[c].read: the newest        *)
(* snapshot a call in this place has returned.                                *)
TypeOK ==
    /\ server \in Versions /\ settled \in 0 .. server
    /\ cache \in Versions \cup {None, Torn}
    /\ writers \subseteq {c \in Calls : pc[c] = "fill"}
    /\ pc \in [Calls -> PCs]
    /\ kind \in [Calls -> Kinds]
    /\ attempt \in [Calls -> 0 .. MaxRetries]
    /\ reply \in [Calls -> [status : Statuses, version : Versions]]
    /\ applied \in [Calls -> 0 .. MaxRetries + 1]
    /\ result \in [Calls -> Versions \cup {None, Torn}]
    /\ known \in [Calls -> [settled : Versions, read : Versions]]

Init ==
    /\ server = 0 /\ settled = 0
    /\ cache = None /\ writers = {}
    /\ pc = [c \in Calls |-> "idle"]
    /\ kind \in [Calls -> Kinds]
    /\ attempt = [c \in Calls |-> 0]
    /\ reply = [c \in Calls |-> NoReply]
    /\ applied = [c \in Calls |-> 0]
    /\ result = [c \in Calls |-> None]
    /\ known = [c \in Calls |-> [settled |-> 0, read |-> 0]]

Goto(c, l) == pc' = [pc EXCEPT ![c] = l]

Larger(a, b) == IF a > b THEN a ELSE b

(* The caller makes its next call.                                            *)
Begin(c, k) ==
    /\ pc[c] = "idle"
    /\ kind' = [kind EXCEPT ![c] = k]
    /\ attempt' = [attempt EXCEPT ![c] = 0]
    /\ applied' = [applied EXCEPT ![c] = 0]
    /\ known' = [known EXCEPT ![c] =
                    [settled |-> settled,
                     read |-> IF result[c] \in Versions THEN Larger(@.read, result[c]) ELSE @.read]]
    /\ result' = [result EXCEPT ![c] = None]
    /\ Goto(c, IF k = "get" THEN "lookup" ELSE "send")
    /\ UNCHANGED <<server, settled, cache, writers, reply>>

(* readCache, where the file is fresh: whatever it holds is the answer.       *)
Lookup(c) ==
    /\ pc[c] = "lookup"
    /\ IF cache = None
       THEN Goto(c, "send") /\ UNCHANGED result
       ELSE Goto(c, "idle") /\ result' = [result EXCEPT ![c] = cache]
    /\ UNCHANGED <<server, settled, cache, writers, kind, attempt, reply, applied, known>>

(* The server has the request and answers it.  A 4xx, 429 too, says that      *)
(* nothing was done; a 5xx, or none at all, may hide a mutation.              *)
Serve(c, status, works) ==
    /\ pc[c] = "send"
    /\ status = "ok" => works
    /\ status \in {"limited", "rejected"} => ~works
    /\ IF works /\ kind[c] = "post"
       THEN /\ server < MaxVersion
            /\ server' = server + 1
            /\ applied' = [applied EXCEPT ![c] = @ + 1]
       ELSE UNCHANGED <<server, applied>>
    /\ reply' = [reply EXCEPT ![c] = [status |-> status, version |-> server']]
    /\ Goto(c, "reply")
    /\ UNCHANGED <<settled, cache, writers, kind, attempt, result, known>>

(* Mutant: the cache outlives a mutation.                                     *)
KeepCache == UNCHANGED <<cache, writers>>

(* invalidateCache removes the directory; who has a file of it open writes on *)
(* into what nobody can read.                                                 *)
InvalidateCache == cache' = None /\ writers' = {}

(* Mutant: a poll leaves the cache as it is.                                  *)
CachesNothingPolled(c) == kind[c] = "get"

(* Does the answer to c go to the cache?                                      *)
Cached(c) == kind[c] \in {"get", "poll"}

ReceiveOk(c) ==
    /\ pc[c] = "reply" /\ reply[c].status = "ok"
    /\ IF kind[c] \in {"post", "query"} THEN InvalidateCache ELSE UNCHANGED <<cache, writers>>
    /\ settled' = IF kind[c] = "post" THEN Larger(settled, reply[c].version) ELSE settled
    /\ IF Cached(c)
       THEN Goto(c, "truncate") /\ UNCHANGED result
       ELSE Goto(c, "idle") /\ result' = [result EXCEPT ![c] = reply[c].version]
    /\ UNCHANGED <<server, kind, attempt, reply, applied, known>>

(* Mutant: every call is sent again.                                          *)
CanRetryEverything(c) == TRUE

(* canRetryAmbiguousFailure                                                   *)
CanRetry(c) == kind[c] # "post"

(* Mutant: one retry too many.                                                *)
RetryOnceMore(c) ==
    /\ pc[c] = "reply"
    /\ attempt[c] <= MaxRetries
    /\ \/ reply[c].status = "limited"
       \/ reply[c].status = "failed" /\ CanRetry(c)
    /\ attempt' = [attempt EXCEPT ![c] = @ + 1]
    /\ Goto(c, "send")
    /\ UNCHANGED <<server, settled, cache, writers, kind, reply, applied, result, known>>

(* Mutant: waiting for a 429 to pass does not use up a retry.                 *)
RetryForever(c) ==
    /\ pc[c] = "reply"
    /\ \/ reply[c].status = "limited"
       \/ reply[c].status = "failed" /\ CanRetry(c) /\ attempt[c] < MaxRetries
    /\ attempt' = [attempt EXCEPT ![c] = IF reply[c].status = "limited" THEN @ ELSE @ + 1]
    /\ Goto(c, "send")
    /\ UNCHANGED <<server, settled, cache, writers, kind, reply, applied, result, known>>

Retry(c) ==
    /\ pc[c] = "reply"
    /\ attempt[c] < MaxRetries
    /\ \/ reply[c].status = "limited"
       \/ reply[c].status = "failed" /\ CanRetry(c)
    /\ attempt' = [attempt EXCEPT ![c] = @ + 1]
    /\ Goto(c, "send")
    /\ UNCHANGED <<server, settled, cache, writers, kind, reply, applied, result, known>>

(* The error goes to the caller: a client error, retries used up or not       *)
(* allowed, ...                                                               *)
Refuse(c) ==
    /\ pc[c] = "reply"
    /\ \/ reply[c].status = "rejected"
       \/ reply[c].status = "limited" /\ attempt[c] = MaxRetries
       \/ reply[c].status = "failed" /\ (attempt[c] = MaxRetries \/ ~CanRetry(c))
    /\ Goto(c, "idle")
    /\ UNCHANGED <<server, settled, cache, writers, kind, attempt, reply, applied, result, known>>

(* ... or the body could not be read, or the context was cancelled.           *)
Abort(c) ==
    /\ pc[c] = "reply"
    /\ Goto(c, "idle")
    /\ UNCHANGED <<server, settled, cache, writers, kind, attempt, reply, applied, result, known>>

(* writeCache: os.WriteFile opens and truncates the file, ...                 *)
Truncate(c) ==
    /\ pc[c] = "truncate"
    /\ cache' = Torn
    /\ writers' = writers \cup {c}
    /\ Goto(c, "fill")
    /\ UNCHANGED <<server, settled, kind, attempt, reply, applied, result, known>>

(* ... then writes it, whole or cut short by a full disk or a second writer.  *)
(* (A directory removed between MkdirAll and the open loses the write, as one *)
(* removed after it does.)                                                    *)
Fill(c) ==
    /\ pc[c] = "fill"
    /\ IF c \in writers THEN cache' \in {reply[c].version, Torn} ELSE UNCHANGED cache
    /\ writers' = writers \ {c}
    /\ result' = [result EXCEPT ![c] = reply[c].version]
    /\ Goto(c, "idle")
    /\ UNCHANGED <<server, settled, kind, attempt, reply, applied, known>>

(* The process of c is killed; the call's caller starts over.                 *)
Crash(c) ==
    /\ Crashes
    /\ pc[c] # "idle"
    /\ writers' = writers \ {c}
    /\ Goto(c, "idle")
    /\ UNCHANGED <<server, settled, cache, kind, attempt, reply, applied, result, known>>

(* The five minutes of a cached answer are over.                              *)
Expire ==
    /\ cache # None
    /\ cache' = None
    /\ UNCHANGED <<server, settled, writers, pc, kind, attempt, reply, applied, result, known>>

(* Somebody else changes the server's state.                                  *)
Elsewhere ==
    /\ server < MaxVersion
    /\ server' = server + 1
    /\ UNCHANGED <<settled, cache, writers, pc, kind, attempt, reply, applied, result, known>>
-----------------------------------------------------------------------------
Step(c) ==
    \/ Lookup(c)
    \/ \E s \in Statuses, w \in BOOLEAN : Serve(c, s, w)
    \/ ReceiveOk(c) \/ Retry(c) \/ Refuse(c) \/ Abort(c)
    \/ Truncate(c) \/ Fill(c)

Next ==
    \/ \E c \in Calls :
          \/ \E k \in Kinds : Begin(c, k)
          \/ Step(c) \/ Crash(c)
    \/ Expire
    \/ Elsewhere

Spec == Init /\ [][Next]_vars

(* A call goes on: the HTTP client has a timeout, and every wait is bounded.  *)
LiveSpec == Spec /\ \A c \in Calls : WF_vars(Step(c))
-----------------------------------------------------------------------------
(* No mutation is carried out twice for one call, whatever answers are lost:  *)
(* a write may already have committed remotely, so it is not sent again.      *)
NoDoubleWrite == \A c \in Calls : kind[c] = "post" => applied[c] <= 1

(* A read begun after a mutation was acknowledged sees it.                    *)
FreshAfterMutation == \A c \in Calls : result[c] \in Versions => result[c] >= known[c].settled

(* A caller never gets an older snapshot than one it has had: not from the    *)
(* cache after a poll has seen a newer one, nor from a retry.                 *)
NeverBackward == \A c \in Calls : result[c] \in Versions => result[c] >= known[c].read

(* Every call ends.                                                           *)
CallsEnd == \A c \in Calls : pc[c] # "idle" ~> pc[c] = "idle"
=================================================================================
