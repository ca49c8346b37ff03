--------------------------- MODULE HttpClientProofs ---------------------------
(* What holds of the API client for any number of calls, retries and          *)
(* versions, and what holds when calls are made one after another.            *)
EXTENDS HttpClient, TLAPS

(* What TypeOK needs of one call to be inductive, and what the retry loop     *)
(* keeps of it: only an answer that says nothing was done leads back to the   *)
(* sending of a mutation.                                                     *)
CallOK(c) ==
    /\ reply[c].version <= server
    /\ result[c] \in Versions => result[c] <= server
    /\ known[c].settled <= settled
    /\ known[c].read <= server
    /\ applied[c] <= 1
    /\ kind[c] # "post" => applied[c] = 0
    /\ pc[c] = "lookup" => kind[c] = "get"
    /\ pc[c] = "send" => applied[c] = 0
    /\ pc[c] = "reply" /\ reply[c].status = "limited" => applied[c] = 0

IInv ==
    /\ TypeOK
    /\ cache \in Versions => cache <= server
    /\ \A c \in Calls : CallOK(c)

LEMMA InitInv == Init => IInv
BY HttpClientAssumption DEF Init, IInv, CallOK, TypeOK, PCs, NoReply, Statuses, Versions

(* Each step of a call, and of the world around it, keeps the invariant.      *)
LEMMA BeginInv == ASSUME IInv, NEW c \in Calls, NEW k \in Kinds, Begin(c, k) PROVE IInv'
BY HttpClientAssumption
   DEF Begin, Goto, Larger, IInv, CallOK, TypeOK, PCs, Statuses, Versions

LEMMA LookupInv == ASSUME IInv, NEW c \in Calls, Lookup(c) PROVE IInv'
<1>1. TypeOK'
  <2>1. CASE cache = None BY <2>1 DEF Lookup, Goto, IInv, TypeOK, PCs
  <2>2. CASE cache # None
    <3>1. result' \in [Calls -> Versions \cup {None, Torn}] BY <2>2 DEF Lookup, IInv, TypeOK
    <3>2. pc' = [pc EXCEPT ![c] = "idle"] /\ pc[c] = "lookup" BY <2>2 DEF Lookup, Goto
    <3>3. writers' \subseteq {d \in Calls : pc'[d] = "fill"}
      BY <3>2 DEF Lookup, IInv, TypeOK
    <3> QED BY <3>1, <3>2, <3>3 DEF Lookup, IInv, TypeOK, PCs
  <2> QED BY <2>1, <2>2
<1>2. ASSUME NEW d \in Calls PROVE CallOK(d)'
  <2>1. cache \in Versions => cache <= server
    BY DEF IInv
  <2>2. result'[d] = result[d] \/ result'[d] = cache
    BY DEF Lookup, IInv, TypeOK
  <2>3. /\ pc'[d] = "reply" => pc[d] = "reply"
        /\ pc'[d] = "lookup" => pc[d] = "lookup"
        /\ pc'[d] = "send" => pc[d] = "send" \/ d = c
    <3>1. \E l \in {"send", "idle"} : pc' = [pc EXCEPT ![c] = l]
      BY DEF Lookup, Goto
    <3> QED BY <3>1 DEF IInv, TypeOK
  <2>4. applied[c] = 0
    BY DEF Lookup, IInv, CallOK
  <2> QED BY <2>1, <2>2, <2>3, <2>4 DEF Lookup, IInv, CallOK
<1> QED BY <1>1, <1>2 DEF Lookup, IInv

LEMMA ServeInv ==
  ASSUME IInv, NEW c \in Calls, NEW s \in Statuses, NEW w \in BOOLEAN, Serve(c, s, w)
  PROVE  IInv'
<1>1. server' \in Versions /\ server <= server'
  BY HttpClientAssumption DEF Serve, IInv, TypeOK, Versions
<1>2. TypeOK'
  BY <1>1, HttpClientAssumption DEF Serve, Goto, IInv, CallOK, TypeOK, PCs, Statuses, Versions
<1>3. ASSUME NEW d \in Calls PROVE CallOK(d)'
  BY <1>1, HttpClientAssumption DEF Serve, Goto, IInv, CallOK, TypeOK, PCs, Statuses, Versions
<1>4. cache' \in Versions => cache' <= server'
  BY <1>1, HttpClientAssumption DEF Serve, IInv, TypeOK, Versions
<1> QED BY <1>2, <1>3, <1>4 DEF IInv

LEMMA ReceiveOkInv == ASSUME IInv, NEW c \in Calls, ReceiveOk(c) PROVE IInv'
<1>1. settled <= settled' /\ settled' \in 0 .. server
  BY HttpClientAssumption DEF ReceiveOk, Larger, IInv, CallOK, TypeOK, Versions
<1>2. TypeOK'
  BY <1>1, HttpClientAssumption
     DEF ReceiveOk, InvalidateCache, Goto, IInv, TypeOK, PCs, Statuses, Versions
<1>3. ASSUME NEW d \in Calls PROVE CallOK(d)'
  BY <1>1, HttpClientAssumption DEF ReceiveOk, Goto, IInv, CallOK, TypeOK, PCs, Statuses, Versions
<1>4. cache' \in Versions => cache' <= server'
  BY HttpClientAssumption DEF ReceiveOk, InvalidateCache, IInv
<1> QED BY <1>2, <1>3, <1>4 DEF IInv

LEMMA RetryInv == ASSUME IInv, NEW c \in Calls, Retry(c) PROVE IInv'
BY HttpClientAssumption
   DEF Retry, CanRetry, Goto, IInv, CallOK, TypeOK, PCs, Statuses, Versions

LEMMA EndInv ==
  ASSUME IInv, NEW c \in Calls, Refuse(c) \/ Abort(c) \/ Crash(c) PROVE IInv'
BY HttpClientAssumption DEF Refuse, Abort, Crash, Goto, IInv, CallOK, TypeOK, PCs

LEMMA TruncateInv == ASSUME IInv, NEW c \in Calls, Truncate(c) PROVE IInv'
BY HttpClientAssumption DEF Truncate, Goto, IInv, CallOK, TypeOK, PCs

LEMMA FillInv == ASSUME IInv, NEW c \in Calls, Fill(c) PROVE IInv'
BY HttpClientAssumption DEF Fill, Goto, IInv, CallOK, TypeOK, PCs, Statuses, Versions

LEMMA WorldInv == ASSUME IInv, Expire \/ Elsewhere PROVE IInv'
BY HttpClientAssumption DEF Expire, Elsewhere, IInv, CallOK, TypeOK, Statuses, Versions

LEMMA Invariance == Spec => []IInv
<1>1. IInv /\ [Next]_vars => IInv'
  <2> SUFFICES ASSUME IInv, [Next]_vars PROVE IInv' OBVIOUS
  <2>1. CASE Expire \/ Elsewhere BY <2>1, WorldInv
  <2>2. ASSUME NEW c \in Calls, NEW k \in Kinds, Begin(c, k) PROVE IInv'
    BY <2>2, BeginInv
  <2>3. ASSUME NEW c \in Calls, Step(c) \/ Crash(c) PROVE IInv'
    BY <2>3, LookupInv, ServeInv, ReceiveOkInv, RetryInv, EndInv, TruncateInv, FillInv DEF Step
  <2>4. CASE UNCHANGED vars BY <2>4 DEF vars, IInv, CallOK, TypeOK
  <2> QED BY <2>1, <2>2, <2>3, <2>4 DEF Next
<1> QED BY <1>1, InitInv, PTL DEF Spec

(* Type correctness; among other things doInternal never retries a call more  *)
(* than clientMaxRetries times, and nothing is acknowledged that the server   *)
(* has not done.                                                              *)
THEOREM TypeCorrect == Spec => []TypeOK
<1>1. IInv => TypeOK BY DEF IInv
<1> QED BY <1>1, Invariance, PTL

(* doInternal never sends a mutation again that the server may have carried   *)
(* out: each call is carried out at most once.                                *)
THEOREM NoDoubleWrites == Spec => []NoDoubleWrite
<1>1. IInv => NoDoubleWrite BY DEF IInv, CallOK, NoDoubleWrite
<1> QED BY <1>1, Invariance, PTL
-------------------------------------------------------------------------------
(* One call at a time. *)

Lone == \A c, d \in Calls : c = d

(* A fresh cache file holds at least what was acknowledged and what was read, *)
(* and so does the answer under way.                                          *)
AloneOK(c) ==
    /\ pc[c] = "fill" => c \in writers
    /\ pc[c] # "idle" => result[c] = None
    /\ pc[c] \in {"reply", "truncate", "fill"}
         => settled <= reply[c].version /\ known[c].read <= reply[c].version
    /\ cache \in Versions
         => /\ settled <= cache /\ known[c].read <= cache
            /\ result[c] \in Versions => result[c] <= cache
    /\ result[c] \in Versions => known[c].settled <= result[c] /\ known[c].read <= result[c]

AloneInv == \A c \in Calls : AloneOK(c)

LEMMA AloneStep ==
  ASSUME Lone, "bypass" \notin Kinds, IInv, AloneInv, NEW c \in Calls,
         (\E k \in Kinds : Begin(c, k)) \/ Step(c) \/ Crash(c)
  PROVE  AloneOK(c)'
<1> USE HttpClientAssumption DEF IInv, AloneInv, CallOK, AloneOK, TypeOK, Goto, Statuses, Versions
<1>1. ASSUME NEW k \in Kinds, Begin(c, k) PROVE AloneOK(c)'
  BY <1>1 DEF Begin, Larger
<1>2. CASE Lookup(c) BY <1>2 DEF Lookup
<1>3. ASSUME NEW s \in Statuses, NEW w \in BOOLEAN, Serve(c, s, w) PROVE AloneOK(c)'
  <2>1. server' \in Versions /\ server <= server' BY <1>3 DEF Serve
  <2>2. reply'[c].version = server' /\ pc'[c] = "reply" BY <1>3 DEF Serve
  <2> QED BY <1>3, <2>1, <2>2 DEF Serve
<1>4. CASE ReceiveOk(c)
  <2>1. kind[c] # "bypass" OBVIOUS
  <2>2. CASE kind[c] = "post"
    <3>1. cache' = None /\ settled' = reply[c].version
      BY <1>4, <2>2 DEF ReceiveOk, InvalidateCache, Larger
    <3> QED BY <1>4, <2>2, <3>1 DEF ReceiveOk, Cached
  <2>3. CASE kind[c] = "query"
    BY <1>4, <2>3 DEF ReceiveOk, InvalidateCache, Cached
  <2>4. CASE kind[c] \in {"get", "poll"}
    BY <1>4, <2>4 DEF ReceiveOk, Cached
  <2> QED BY <2>1, <2>2, <2>3, <2>4 DEF AllKinds
<1>5. CASE Retry(c) BY <1>5 DEF Retry
<1>6. CASE Refuse(c) \/ Abort(c) \/ Crash(c) BY <1>6 DEF Refuse, Abort, Crash
<1>7. CASE Truncate(c) BY <1>7 DEF Truncate
<1>8. CASE Fill(c) BY <1>8 DEF Fill
<1> QED BY <1>1, <1>2, <1>3, <1>4, <1>5, <1>6, <1>7, <1>8 DEF Step

LEMMA AloneInvariance == ASSUME Lone, "bypass" \notin Kinds PROVE Spec => []AloneInv
<1>1. Init => AloneInv
  BY HttpClientAssumption DEF Init, AloneInv, AloneOK, NoReply, Versions
<1>2. IInv /\ AloneInv /\ [Next]_vars => AloneInv'
  <2> SUFFICES ASSUME IInv, AloneInv, [Next]_vars, NEW d \in Calls PROVE AloneOK(d)'
    BY DEF AloneInv
  <2>1. CASE Expire \/ Elsewhere
    BY <2>1, HttpClientAssumption
       DEF Expire, Elsewhere, AloneInv, AloneOK, IInv, CallOK, TypeOK, Versions
  <2>2. ASSUME NEW c \in Calls, (\E k \in Kinds : Begin(c, k)) \/ Step(c) \/ Crash(c)
        PROVE  AloneOK(d)'
    <3>1. c = d BY DEF Lone
    <3>2. AloneOK(c)' BY <2>2, AloneStep
    <3> QED BY <3>1, <3>2
  <2>3. CASE UNCHANGED vars BY <2>3 DEF vars, AloneInv, AloneOK
  <2> QED BY <2>1, <2>2, <2>3 DEF Next
<1> QED BY <1>1, <1>2, Invariance, PTL DEF Spec

(* One call after another, as the commands of one terminal make them: a read  *)
(* sees every mutation acknowledged before it, and, where no call switches    *)
(* the cache off, never an older snapshot than an earlier one.                *)
THEOREM AloneFresh ==
  ASSUME Lone, "bypass" \notin Kinds
  PROVE  Spec => [](FreshAfterMutation /\ NeverBackward)
<1>1. AloneInv => FreshAfterMutation /\ NeverBackward
  <2> SUFFICES ASSUME AloneInv, NEW c \in Calls, result[c] \in Versions
               PROVE  result[c] >= known[c].settled /\ result[c] >= known[c].read
    BY DEF FreshAfterMutation, NeverBackward
  <2> QED BY DEF AloneInv, AloneOK
<1> QED BY <1>1, AloneInvariance, PTL
===============================================================================
