--------------------------- MODULE SourceFetchProofs ---------------------------
(* What holds of the commands that ask the sources for any number of          *)
(* theaters and titles, any schedules, paces, budgets and answers.            *)
EXTENDS SourceFetch, SequenceTheorems, TLAPS

--------------------------------------------------------------------------------
(* The limiter alone.  Sound is what every operation keeps; Adapted relates a *)
(* limiter to what an answer makes of it.                                     *)

Sound(l) ==
    /\ l \in Limiters
    /\ l.floor <= l.rate
    /\ l.maxRate > 0 => l.rate <= l.maxRate
    /\ (~l.headerDriven /\ l.ceiling > 0) =>
          (l.rate = l.floor \/ 10 * l.rate <= 9 * l.ceiling)
    /\ l.rate = 0 \/ l.floor > 0

Adapted(l, m) ==
    /\ Sound(m)
    /\ m.floor = l.floor /\ m.lastRequest = l.lastRequest
    /\ l.rate = 0 => m = l

LEMMA NewSound ==
  ASSUME NEW start \in Nat, NEW cap \in Nat, cap > 0 => start <= cap
  PROVE  Sound(NewLimiter(start, cap)) /\ NewLimiter(start, cap).rate = start
<1>1. TickRate * Unit \in Nat
  BY LimiterAssumption
<1> QED BY <1>1, LimiterAssumption DEF NewLimiter, Sound, Limiters, AtMost

(* The cap of the user and the floor bound every rate there is.               *)
LEMMA CappedBounds ==
  ASSUME NEW l, Sound(l), NEW r \in Int
  PROVE  /\ Capped(l, r) \in Nat /\ l.floor <= Capped(l, r)
         /\ l.maxRate > 0 => Capped(l, r) <= l.maxRate
         /\ Capped(l, r) = l.floor \/ Capped(l, r) <= r
BY DEF Sound, Limiters, Capped, AtMost, AtLeast

LEMMA SuccessAdapts == ASSUME NEW l, Sound(l) PROVE Adapted(l, OnSuccess(l))
<1>1. CASE Disabled(l) \/ l.headerDriven \/ l.successes + 1 < RampAfter
  BY <1>1, LimiterAssumption DEF OnSuccess, Disabled, Adapted, Sound, Limiters
<1>2. CASE ~Disabled(l) /\ ~l.headerDriven /\ ~(l.successes + 1 < RampAfter)
  <2> DEFINE r == IF l.ceiling > 0
                  THEN AtMost((l.rate * 5) \div 4, (l.ceiling * 9) \div 10)
                  ELSE (l.rate * 5) \div 4
  <2>1. r \in Int /\ (l.ceiling > 0 => 10 * r <= 9 * l.ceiling)
    BY DEF Sound, Limiters, AtMost
  <2>2. Ramped(l) = Capped(l, r)
    BY DEF Ramped
  <2> HIDE DEF r
  <2>3. OnSuccess(l) = [l EXCEPT !.rate = Ramped(l), !.successes = 0]
    BY <1>2, LimiterAssumption DEF OnSuccess, Sound, Limiters
  <2>4. /\ Ramped(l) \in Nat /\ l.floor <= Ramped(l)
        /\ l.maxRate > 0 => Ramped(l) <= l.maxRate
        /\ Ramped(l) = l.floor \/ Ramped(l) <= r
    BY <2>1, <2>2, CappedBounds
  <2> DEFINE m == [l EXCEPT !.rate = Ramped(l), !.successes = 0]
  <2>5. /\ m \in Limiters /\ m.rate = Ramped(l) /\ m.floor = l.floor
        /\ m.ceiling = l.ceiling /\ m.maxRate = l.maxRate
        /\ m.headerDriven = l.headerDriven /\ m.lastRequest = l.lastRequest
    BY <2>4 DEF Sound, Limiters
  <2> HIDE DEF m
  <2>6. OnSuccess(l) = m BY <2>3 DEF m
  <2>7. /\ l.rate \in Nat /\ l.floor \in Nat /\ l.ceiling \in Nat /\ l.maxRate \in Nat
        /\ l.rate # 0 /\ l.floor > 0 /\ ~l.headerDriven
    BY <1>2 DEF Sound, Limiters, Disabled
  <2>8. l.ceiling > 0 => (Ramped(l) = l.floor \/ 10 * Ramped(l) <= 9 * l.ceiling)
    BY <2>1, <2>4, <2>7
  <2>9. Sound(m)
    BY <2>4, <2>5, <2>7, <2>8 DEF Sound
  <2>10. Adapted(l, m)
    BY <2>5, <2>7, <2>9 DEF Adapted
  <2> QED BY <2>6, <2>10
<1> QED BY <1>1, <1>2

LEMMA RateLimitAdapts == ASSUME NEW l, Sound(l) PROVE Adapted(l, OnRateLimit(l))
<1>1. CASE Disabled(l)
  BY <1>1 DEF OnRateLimit, Disabled, Adapted
<1>2. CASE ~Disabled(l)
  <2> DEFINE r == AtLeast(l.rate \div 2, l.floor)
             b == IF l.headerDriven THEN l.budgetRate ELSE l.budgetRate \div 2
  <2>1. r \in Nat /\ l.floor <= r /\ r <= l.rate /\ (r = l.floor \/ 2 * r <= l.rate)
    BY DEF Sound, Limiters, AtLeast
  <2>2. b \in Nat
    BY DEF Sound, Limiters
  <2>3. OnRateLimit(l) = [l EXCEPT !.ceiling = l.rate, !.rate = r, !.budgetRate = b,
                                   !.successes = 0]
    BY <1>2 DEF OnRateLimit, Sound, Limiters
  <2> HIDE DEF r, b
  <2> DEFINE m == [l EXCEPT !.ceiling = l.rate, !.rate = r, !.budgetRate = b, !.successes = 0]
  <2>4. /\ m \in Limiters /\ m.rate = r /\ m.floor = l.floor
        /\ m.ceiling = l.rate /\ m.maxRate = l.maxRate
        /\ m.headerDriven = l.headerDriven /\ m.lastRequest = l.lastRequest
    BY <2>1, <2>2 DEF Sound, Limiters
  <2> HIDE DEF m
  <2>5. OnRateLimit(l) = m BY <2>3 DEF m
  <2>6. l.rate \in Nat /\ l.maxRate \in Nat
    BY DEF Sound, Limiters
  <2>7. Adapted(l, m)
    BY <1>2, <2>1, <2>4, <2>6 DEF Adapted, Sound, Disabled
  <2> QED BY <2>5, <2>7
<1> QED BY <1>1, <1>2

LEMMA HeadersAdapt ==
  ASSUME NEW l, Sound(l), NEW b \in [remaining : Nat, secs : Nat] PROVE Adapted(l, Heeded(l, b))
<1>1. CASE Disabled(l) \/ b.secs <= 0
  BY <1>1 DEF Heeded, ObserveHeaders, Adapted, Disabled
<1>2. CASE ~Disabled(l) /\ b.secs > 0
  <2> DEFINE budget == AtLeast(l.budgetRate, (b.remaining * Unit) \div b.secs)
             braked == IF b.remaining * Unit < budget * BrakeSafetySeconds
                       THEN (b.remaining * Unit) \div BrakeSafetySeconds
                       ELSE budget
  <2>1. b.remaining * Unit \in Nat /\ b.secs \in Nat \ {0} /\ ~(b.remaining < 0)
    BY <1>2, LimiterAssumption
  <2>2. (b.remaining * Unit) \div b.secs \in Nat
    BY <2>1
  <2>3. budget \in Nat
    BY <2>2 DEF Sound, Limiters, AtLeast
  <2>4. braked \in Nat
    BY <2>1, <2>3 DEF BrakeSafetySeconds
  <2>5. Heeded(l, b) = [l EXCEPT !.budgetRate = budget, !.rate = Capped(l, braked),
                                 !.headerDriven = TRUE, !.successes = 0]
    BY <1>2, <2>1 DEF Heeded, ObserveHeaders
  <2> HIDE DEF budget, braked
  <2>6. /\ Capped(l, braked) \in Nat /\ l.floor <= Capped(l, braked)
        /\ l.maxRate > 0 => Capped(l, braked) <= l.maxRate
    BY <2>4, CappedBounds
  <2> DEFINE m == [l EXCEPT !.budgetRate = budget, !.rate = Capped(l, braked),
                            !.headerDriven = TRUE, !.successes = 0]
  <2>7. /\ m \in Limiters /\ m.rate = Capped(l, braked) /\ m.floor = l.floor
        /\ m.ceiling = l.ceiling /\ m.maxRate = l.maxRate
        /\ m.headerDriven = TRUE /\ m.lastRequest = l.lastRequest
    BY <2>3, <2>6 DEF Sound, Limiters
  <2> HIDE DEF m
  <2>8. Heeded(l, b) = m BY <2>5 DEF m
  <2>9. Adapted(l, m)
    BY <1>2, <2>6, <2>7 DEF Adapted, Sound, Disabled
  <2> QED BY <2>8, <2>9
<1> QED BY <1>1, <1>2

LEMMA AdaptedTwice ==
  ASSUME NEW l, NEW m, NEW n, Adapted(l, m), Adapted(m, n) PROVE Adapted(l, n)
BY DEF Adapted

(* A slot lies after the last one by the delay of the pace.                   *)
LEMMA SlotAfter ==
  ASSUME NEW l, Sound(l), NEW t \in Nat
  PROVE  /\ Delay(l.rate) \in Nat
         /\ Slot(l, t) \in Int /\ t <= Slot(l, t)
         /\ l.lastRequest + Delay(l.rate) <= Slot(l, t)
<1>1. Delay(l.rate) \in Nat
  <2>1. TickRate * Unit \in Nat /\ l.rate \in Nat
    BY LimiterAssumption DEF Sound, Limiters
  <2>2. l.rate # 0 => (TickRate * Unit) \div l.rate \in Nat
    BY <2>1
  <2> QED BY <2>2 DEF Delay
<1> QED BY <1>1 DEF Slot, Sound, Limiters

LEMMA WaitedSound ==
  ASSUME NEW l, Sound(l), NEW t \in Nat
  PROVE  /\ Sound(Waited(l, t)) /\ Waited(l, t).rate = l.rate
         /\ l.rate # 0 => Waited(l, t).lastRequest = Slot(l, t)
BY SlotAfter DEF Waited, Disabled, Sound, Limiters

(* A faster pace has no longer delay.                                         *)
LEMMA DelayFalls ==
  ASSUME NEW r \in Nat \ {0}, NEW s \in Nat, r <= s PROVE Delay(s) <= Delay(r)
<1>1. TickRate * Unit \in Nat
  BY LimiterAssumption
<1> DEFINE a == TickRate * Unit
<1>2. a \in Nat BY <1>1
<1> HIDE DEF a
<1>3. a \div s <= a \div r
  BY <1>2
<1> QED BY <1>3 DEF Delay, a

--------------------------------------------------------------------------------
(* The pace in a state, and what every step does with it.                     *)

Paced ==
    /\ Sound(lim)
    /\ lim.rate <= fastest
    /\ lim.rate = 0 => fastest = 0

Slots ==
    /\ \A j \in Reserved : lim.rate # 0 => slot[j] <= lim.lastRequest
    /\ SlotsSpaced

(* What an answer comes to, whichever source gave it.                         *)
Hears(j) ==
    \/ UNCHANGED <<heard, served>>
    \/ \E i \in Theaters, own \in BOOLEAN :
          /\ j = <<"popcorn", i>>
          /\ heard' = [heard EXCEPT ![i] =
                Index(Dropped(IF own THEN Other[i] ELSE Schedule[i], minute), flags.date)]
          /\ served' = IF own THEN served ELSE served \cup {i}

Answered(j, o, l) ==
    /\ Adapted(lim, l) /\ Ends(j, o, l)
    /\ j \in CtcJobs => o \in {"ok", "failed", "limited"}
    /\ Hears(j)
    /\ links' \in SUBSET (Movies \X BOOLEAN)

LEMMA AnswerKinds ==
  ASSUME TypeOK, Paced, NEW j \in Jobs, Answer(j)
  PROVE  \/ \E o \in Outcomes, l \in Limiters : Answered(j, o, l)
         \/ /\ j = ApiJob
            /\ \E s \in Nat, l \in Limiters : Adapted(lim, l) /\ Retries(l, s)
<1> DEFINE Kinds == \E o \in Outcomes, l \in Limiters : Answered(j, o, l)
<1>0. /\ Sound(lim) /\ lim \in Limiters /\ links \in SUBSET (Movies \X BOOLEAN)
      /\ Adapted(lim, lim)
  BY DEF Paced, TypeOK, Sound, Adapted
<1>1. /\ Adapted(lim, OnSuccess(lim)) /\ OnSuccess(lim) \in Limiters
      /\ Adapted(lim, OnRateLimit(lim)) /\ OnRateLimit(lim) \in Limiters
  BY <1>0, SuccessAdapts, RateLimitAdapts DEF Adapted, Sound
<1>2. \A l \in AfterHeaders : Adapted(lim, l)
  BY <1>0, HeadersAdapt, SourceAssumption DEF AfterHeaders
<1>3. \A l : Adapted(lim, l) => l \in Limiters
  BY DEF Adapted, Sound
<1>4. CASE j \in CtcJobs /\ CtcAnswers(j)
  <2>1. PICK o \in {"ok", "failed"} : Ends(j, o, OnSuccess(lim))
    BY <1>4 DEF CtcAnswers
  <2>2. Answered(j, o, OnSuccess(lim))
    BY <2>1, <1>0, <1>1, <1>4 DEF Answered, Hears, CtcAnswers
  <2> QED BY <2>1, <2>2, <1>1 DEF Outcomes
<1>5. CASE \E i \in Theaters : j = <<"popcorn", i>> /\ PopcornAnswers(i)
  <2>1. PICK i \in Theaters : j = <<"popcorn", i>> /\ PopcornAnswers(i)
    BY <1>5
  <2>2. j \notin CtcJobs
    BY <2>1 DEF CtcJobs
  <2>3. PICK o \in {"ok", "nodata"} : Ends(j, o, OnSuccess(lim))
    BY <2>1 DEF PopcornAnswers
  <2>4. Hears(j)
    BY <2>1 DEF PopcornAnswers, Hears
  <2>5. links' = links
    BY <2>1 DEF PopcornAnswers
  <2>6. Answered(j, o, OnSuccess(lim))
    BY <2>2, <2>3, <2>4, <2>5, <1>0, <1>1 DEF Answered
  <2> QED BY <2>3, <2>6, <1>1 DEF Outcomes
<1>6. CASE \E m \in Movies : j = <<"imdb", m>> /\ ImdbAnswers(m)
  <2>1. PICK m \in Movies : j = <<"imdb", m>> /\ ImdbAnswers(m)
    BY <1>6
  <2>2. j \notin CtcJobs
    BY <2>1 DEF CtcJobs
  <2>3. PICK found \in BOOLEAN : /\ Ends(j, IF found THEN "ok" ELSE "nodata", OnSuccess(lim))
                                 /\ links' = links \cup {<<m, found>>}
    BY <2>1 DEF ImdbAnswers
  <2>4. Answered(j, IF found THEN "ok" ELSE "nodata", OnSuccess(lim))
    BY <2>1, <2>2, <2>3, <1>0, <1>1 DEF Answered, Hears, ImdbAnswers
  <2> QED BY <2>3, <2>4, <1>1 DEF Outcomes
<1>7. CASE j # ApiJob /\ SourceRefuses(j)
  <2>1. PICK o \in {"limited", "failed"}, l \in Limiters : Adapted(lim, l) /\ Ends(j, o, l)
    BY <1>7, <1>0, <1>1 DEF SourceRefuses
  <2>2. j[1] = "imdb" => j[2] \in Movies
    BY <1>7 DEF Jobs, CtcJobs, PopcornJobs, ImdbJobs
  <2>3. links' \in SUBSET (Movies \X BOOLEAN)
    <3>1. CASE j[1] = "imdb"
      <4>1. links' = links \cup {<<j[2], FALSE>>}
        BY <3>1, <1>7 DEF SourceRefuses
      <4>2. <<j[2], FALSE>> \in Movies \X BOOLEAN
        BY <3>1, <2>2
      <4> QED BY <4>1, <4>2, <1>0
    <3>2. CASE j[1] # "imdb"
      BY <3>2, <1>0, <1>7 DEF SourceRefuses
    <3> QED BY <3>1, <3>2
  <2>4. Answered(j, o, l)
    BY <2>1, <2>3, <1>7 DEF Answered, Hears, SourceRefuses
  <2> QED BY <2>1, <2>4 DEF Outcomes
<1>8. CASE j = ApiJob /\ ApiAnswers
  <2>1. \E o \in {"ok", "failed", "limited"} : \E l : Adapted(lim, l) /\ Ends(ApiJob, o, l)
    <3>1. PICK l \in AfterHeaders : \/ Ends(ApiJob, "ok", OnSuccess(l))
                                    \/ Ends(ApiJob, "failed", l)
                                    \/ attempt = MaxRetries /\ Ends(ApiJob, "limited", l)
      BY <1>8 DEF ApiAnswers
    <3>2. Adapted(lim, l) /\ Adapted(lim, OnSuccess(l))
      BY <3>1, <1>2, SuccessAdapts, AdaptedTwice DEF Adapted
    <3> QED BY <3>1, <3>2
  <2>2. PICK o \in {"ok", "failed", "limited"} : \E l : Adapted(lim, l) /\ Ends(ApiJob, o, l)
    BY <2>1
  <2>3. PICK l : Adapted(lim, l) /\ Ends(ApiJob, o, l)
    BY <2>2
  <2>4. ApiJob \notin CtcJobs
    BY DEF ApiJob, CtcJobs
  <2>5. Hears(j) /\ links' \in SUBSET (Movies \X BOOLEAN)
    BY <1>0, <1>8 DEF Hears, ApiAnswers
  <2>6. Ends(j, o, l)
    BY <2>3, <1>8
  <2>7. Answered(j, o, l)
    BY <2>2, <2>3, <2>4, <2>5, <2>6, <1>8 DEF Answered
  <2>8. o \in Outcomes /\ l \in Limiters
    BY <2>2, <2>3, <1>3 DEF Outcomes
  <2> QED BY <2>7, <2>8
<1>9. CASE j = ApiJob /\ ApiLimited
  <2>1. PICK l \in AfterHeaders, a \in Asked : Retries(OnRateLimit(l), RetryAfter(a))
    BY <1>9 DEF ApiLimited
  <2>2. Adapted(lim, OnRateLimit(l))
    BY <2>1, <1>2, RateLimitAdapts, AdaptedTwice DEF Adapted
  <2>3. RetryAfter(a) \in Nat
    BY SourceAssumption DEF RetryAfter, AtMost, DefaultRetryWait, MaxRetryWait
  <2> QED BY <2>1, <2>2, <2>3, <1>3, <1>9
<1>10. CASE j = ApiJob /\ ApiBacksOff
  <2>1. PICK l \in AfterHeaders : Retries(l, 2 ^ attempt)
    BY <1>10 DEF ApiBacksOff
  <2>2. 2 ^ attempt \in Nat
    BY SourceAssumption DEF TypeOK
  <2> QED BY <2>1, <2>2, <1>2, <1>3, <1>10
<1> QED BY <1>4, <1>5, <1>6, <1>7, <1>8, <1>9, <1>10 DEF Answer

(* The command and the clock leave the pace alone and launch only jobs.       *)
LEMMA CommandLaunches ==
  ASSUME TypeOK, CommandStep \/ MinutePasses
  PROVE  /\ UNCHANGED <<limiting, attempt, out, heard, served, links, cmd, flags>>
         /\ jpc' \in [Jobs -> JobPCs]
         /\ \A j \in Jobs : jpc'[j] # "wait" => jpc'[j] = jpc[j]
         /\ phase' \in Phases
<1> DEFINE Typed == /\ jpc' \in [Jobs -> JobPCs]
                    /\ \A j \in Jobs : jpc'[j] # "wait" => jpc'[j] = jpc[j]
<1>1. (\E jobs : Launch(jobs)) => Typed
  BY DEF Launch, TypeOK, JobPCs
<1>2. UNCHANGED jpc => Typed
  BY DEF TypeOK
<1> DEFINE Rest == UNCHANGED <<limiting, attempt, out, heard, served, links, cmd, flags>>
           Does == Rest /\ ((\E jobs : Launch(jobs)) \/ UNCHANGED jpc)
<1>3. Does
  <2>1. CASE Begin
    <3>1. Rest BY <2>1 DEF Begin
    <3>2. Launch(IF cmd = "theater" THEN {ApiJob} ELSE CtcJobs) BY <2>1 DEF Begin
    <3> QED BY <3>1, <3>2
  <2>2. CASE TheatersFetched
    <3>1. Rest BY <2>2 DEF TheatersFetched
    <3>2. Launch(PopcornJobs) \/ UNCHANGED jpc BY <2>2 DEF TheatersFetched
    <3> QED BY <3>1, <3>2
  <2>3. CASE LookUpLink
    <3>1. Rest BY <2>3 DEF LookUpLink
    <3>2. \E m : Launch({<<"imdb", m>>}) BY <2>3 DEF LookUpLink
    <3> QED BY <3>1, <3>2
  <2>4. CASE PopcornFetched BY <2>4 DEF PopcornFetched
  <2>5. CASE LinkLookedUp BY <2>5 DEF LinkLookedUp
  <2>6. CASE ReportTheater BY <2>6 DEF ReportTheater
  <2>7. CASE ReportThrottle BY <2>7 DEF ReportThrottle
  <2>8. CASE Finish
    <3>1. UNCHANGED <<cmd, flags, nowMin, minute, limiting, jpc, attempt, out, heard, served,
                      links, at>>
      BY <2>8 DEF Finish
    <3> QED BY <3>1
  <2>9. CASE MinutePasses BY <2>9 DEF MinutePasses
  <2> QED BY <2>1, <2>2, <2>3, <2>4, <2>5, <2>6, <2>7, <2>8, <2>9 DEF CommandStep
<1>4. UNCHANGED <<limiting, attempt, out, heard, served, links, cmd, flags>>
  BY <1>3
<1>5. phase' \in Phases
  BY DEF CommandStep, Begin, TheatersFetched, PopcornFetched, LookUpLink, LinkLookedUp,
         ReportTheater, ReportThrottle, Finish, MinutePasses, Phases, TypeOK
<1> QED BY <1>1, <1>2, <1>3, <1>4, <1>5

(* A new limiter is never faster than the fastest so far, taken anew.         *)
LEMMA FastestKept ==
  ASSUME TypeOK, Paced, Slots, NEW l, Adapted(lim, l), lim' = l,
         fastest' = AtLeast(fastest, l.rate)
  PROVE  /\ fastest' \in Nat /\ fastest <= fastest'
         /\ Paced'
         /\ lim'.rate # 0 => lim.rate # 0
         /\ lim'.lastRequest = lim.lastRequest
<1>1. /\ fastest \in Nat /\ lim \in Limiters /\ l \in Limiters /\ l.rate \in Nat
      /\ lim.rate \in Nat
  BY DEF TypeOK, Adapted, Sound, Limiters
<1>2. lim.rate = 0 => l.rate = 0
  BY DEF Adapted
<1>3. l.rate = 0 => lim.rate = 0
  <2>1. lim.rate # 0 => lim.floor > 0
    BY DEF Paced, Sound
  <2>2. l.floor = lim.floor /\ l.floor <= l.rate /\ l.floor \in Nat
    BY <1>1 DEF Adapted, Sound, Limiters
  <2> QED BY <2>1, <2>2, <1>1
<1>4. /\ fastest' \in Nat /\ fastest <= fastest' /\ l.rate <= fastest'
      /\ l.rate = 0 => fastest' = fastest
  BY <1>1 DEF AtLeast
<1> QED BY <1>1, <1>2, <1>3, <1>4 DEF Paced, Adapted

(* Slots a delay apart stay a delay apart when the delay falls.               *)
LEMMA SlotsKept ==
  ASSUME TypeOK, Paced, Slots, Paced', slot' = slot, fastest' \in Nat, fastest <= fastest',
         fastest = 0 => fastest' = 0,
         Reserved' \subseteq Reserved,
         lim'.rate # 0 => lim.rate # 0, lim'.lastRequest = lim.lastRequest
  PROVE  Slots'
<1>1. \A j \in Reserved' : lim'.rate # 0 => slot'[j] <= lim'.lastRequest
  BY DEF Slots
<1>2. Delay(fastest) \in Nat /\ Delay(fastest') \in Nat /\ Delay(fastest') <= Delay(fastest)
  <2>1. fastest \in Nat /\ TickRate * Unit \in Nat
    BY LimiterAssumption DEF TypeOK
  <2>2. \A r \in Nat : Delay(r) \in Nat
    <3> TAKE r \in Nat
    <3>1. r # 0 => (TickRate * Unit) \div r \in Nat
      BY <2>1
    <3> QED BY <3>1 DEF Delay
  <2>3. CASE fastest = 0
    BY <2>2, <2>3
  <2>4. CASE fastest # 0
    BY <2>1, <2>2, <2>4, DelayFalls
  <2> QED BY <2>1, <2>2, <2>3, <2>4
<1>3. ASSUME NEW i \in Reserved', NEW j \in Reserved', i # j
      PROVE  slot'[i] >= slot'[j] + Delay(fastest') \/ slot'[j] >= slot'[i] + Delay(fastest')
  <2>1. slot[i] >= slot[j] + Delay(fastest) \/ slot[j] >= slot[i] + Delay(fastest)
    BY <1>3 DEF Slots, SlotsSpaced
  <2>2. slot[i] \in Int /\ slot[j] \in Int
    BY <1>3 DEF TypeOK, Reserved
  <2> QED BY <2>1, <2>2, <1>2
<1> QED BY <1>1, <1>3 DEF Slots, SlotsSpaced

LEMMA StartsPaced == ASSUME Init PROVE TypeOK /\ Paced /\ Slots
<1>1. Sound(lim)
  <2>1. \A r \in Nat : Sound(NewLimiter(r, r)) /\ Sound(NewLimiter(r, 0))
    BY NewSound
  <2>2. CASE lim = NewAdaptiveLimiterAuto(SourceRate)
    BY <2>1, <2>2, SourceAssumption DEF NewAdaptiveLimiterAuto
  <2>3. ASSUME NEW r \in UserRates, lim = NewRateLimiter(r) PROVE Sound(lim)
    <3>1. r \in Int /\ AutoRate \in Nat
      BY SourceAssumption
    <3> QED BY <2>1, <2>3, <3>1 DEF NewRateLimiter, NewAdaptiveLimiterAuto, NewAdaptiveLimiter
  <2> QED BY <2>2, <2>3 DEF Init
<1>2. lim \in Limiters /\ lim.rate \in Nat
  BY <1>1 DEF Sound, Limiters
<1>3. Reserved = {}
  BY DEF Init, Reserved
<1>4. TypeOK
  BY <1>2, SourceAssumption DEF Init, TypeOK, Phases, JobPCs, Outcomes
<1> QED BY <1>1, <1>2, <1>3, <1>4 DEF Init, Paced, Slots, SlotsSpaced

(* A slot is given out: it lies a delay after every slot given before.        *)
LEMMA ReserveKeeps ==
  ASSUME TypeOK, Paced, Slots, NEW j \in Jobs, Reserve(j)
  PROVE  TypeOK' /\ Paced' /\ Slots'
<1> DEFINE s == Slot(lim, now)
<1>1. /\ Sound(lim) /\ lim \in Limiters /\ lim.rate \in Nat /\ lim.lastRequest \in Int
      /\ now \in Nat /\ fastest \in Nat
  BY DEF Paced, TypeOK, Limiters
<1>2. /\ s \in Int /\ lim.lastRequest + Delay(lim.rate) <= s
      /\ Delay(lim.rate) \in Nat
  BY <1>1, SlotAfter
<1>3. /\ Sound(lim') /\ lim' \in Limiters /\ lim'.rate = lim.rate
      /\ lim.rate # 0 => lim'.lastRequest = s
  BY <1>1, WaitedSound DEF Reserve, Sound
<1>4. /\ slot' = [slot EXCEPT ![j] = s] /\ slot \in [Jobs -> Int]
      /\ UNCHANGED fastest
  BY DEF Reserve, TypeOK
<1>5. TypeOK'
  BY <1>2, <1>3, <1>4 DEF Reserve, TypeOK, JobPCs
<1>6. Paced'
  BY <1>3, <1>4 DEF Paced
<1>7. Reserved' = Reserved \cup {j} /\ j \notin Reserved
  BY DEF Reserve, Reserved, TypeOK, JobPCs
<1> HIDE DEF s
<1>8. /\ Delay(fastest) \in Nat
      /\ lim.rate # 0 => Delay(fastest) <= Delay(lim.rate)
      /\ lim.rate = 0 => Delay(fastest) = 0
  <2>1. CASE lim.rate = 0
    BY <2>1 DEF Paced, Delay
  <2>2. CASE lim.rate # 0
    <3>1. fastest # 0 /\ lim.rate <= fastest
      BY <1>1, <2>2 DEF Paced
    <3>2. TickRate * Unit \in Nat
      BY LimiterAssumption
    <3>3. (TickRate * Unit) \div fastest \in Nat
      BY <1>1, <3>1, <3>2
    <3> QED BY <1>1, <2>2, <3>1, <3>3, DelayFalls DEF Delay
  <2> QED BY <2>1, <2>2
<1>9. \A i \in Reserved : /\ slot[i] \in Int /\ slot'[i] = slot[i]
                          /\ \/ s >= slot[i] + Delay(fastest)
                             \/ slot[i] >= s + Delay(fastest)
                          /\ lim.rate # 0 => slot[i] <= s
  <2> TAKE i \in Reserved
  <2>1. i \in Jobs /\ i # j
    BY <1>7 DEF Reserved
  <2>2. slot[i] \in Int /\ slot'[i] = slot[i]
    BY <2>1, <1>4
  <2>3. CASE lim.rate = 0
    BY <1>2, <1>8, <2>2, <2>3
  <2>4. CASE lim.rate # 0
    <3>1. slot[i] <= lim.lastRequest
      BY <2>4 DEF Slots
    <3>2. slot[i] + Delay(fastest) <= lim.lastRequest + Delay(lim.rate)
      BY <1>1, <1>2, <1>8, <2>2, <2>4, <3>1
    <3>3. slot[i] + Delay(fastest) <= s /\ slot[i] <= s
      BY <1>1, <1>2, <1>8, <2>2, <3>1, <3>2
    <3> QED BY <1>1, <1>2, <1>8, <2>2, <3>3
  <2> QED BY <2>2, <2>3, <2>4
<1>10. slot'[j] = s
  BY <1>4
<1>11. SlotsSpaced'
  <2> SUFFICES ASSUME NEW a \in Reserved', NEW b \in Reserved', a # b
               PROVE  \/ slot'[a] >= slot'[b] + Delay(fastest)
                      \/ slot'[b] >= slot'[a] + Delay(fastest)
    BY <1>4 DEF SlotsSpaced
  <2>1. CASE a \in Reserved /\ b \in Reserved
    BY <1>9, <2>1 DEF Slots, SlotsSpaced
  <2>2. CASE a = j \/ b = j
    BY <1>7, <1>9, <1>10, <2>2
  <2> QED BY <1>7, <2>1, <2>2
<1>12. \A i \in Reserved' : lim'.rate # 0 => slot'[i] <= lim'.lastRequest
  BY <1>2, <1>3, <1>7, <1>9, <1>10
<1> QED BY <1>5, <1>6, <1>11, <1>12 DEF Slots

LEMMA WakeKeeps ==
  ASSUME TypeOK, Paced, Slots, NEW j \in Jobs, Wake(j)
  PROVE  TypeOK' /\ Paced' /\ Slots'
<1>1. now' \in Nat
  BY DEF Wake, TypeOK, AtLeast
<1>2. TypeOK'
  BY <1>1 DEF Wake, TypeOK, JobPCs
<1>3. Paced'
  BY DEF Wake, Paced
<1>4. Reserved' = Reserved
  BY DEF Wake, Reserved, TypeOK, JobPCs
<1>5. Slots'
  BY <1>4 DEF Wake, Slots, SlotsSpaced
<1> QED BY <1>2, <1>3, <1>5

LEMMA AnsweredKeeps ==
  ASSUME TypeOK, Paced, Slots, NEW j \in Jobs, NEW o \in Outcomes, NEW l \in Limiters,
         Answered(j, o, l)
  PROVE  TypeOK' /\ Paced' /\ Slots'
<1>1. Adapted(lim, l) /\ Ends(j, o, l)
  BY DEF Answered
<1>2. lim' = l /\ fastest' = AtLeast(fastest, l.rate) /\ slot' = slot
  BY <1>1 DEF Ends
<1>3. /\ fastest' \in Nat /\ fastest <= fastest' /\ Paced'
      /\ lim'.rate # 0 => lim.rate # 0
      /\ lim'.lastRequest = lim.lastRequest
  BY <1>1, <1>2, FastestKept
<1>4. Reserved' = Reserved
  BY <1>1 DEF Ends, Reserved, TypeOK, JobPCs
<1>5. fastest = 0 => fastest' = 0
  BY <1>1, <1>2 DEF Adapted, Paced, TypeOK, Limiters, AtLeast
<1>6. Slots'
  BY <1>2, <1>3, <1>4, <1>5, SlotsKept
<1>7. now' \in Nat
  BY <1>1, SourceAssumption DEF Ends, Late, TypeOK
<1>8. DOMAIN heard' = Theaters /\ served' \subseteq Theaters
  BY DEF Answered, Hears, TypeOK
<1>9. TypeOK'
  BY <1>1, <1>2, <1>3, <1>7, <1>8 DEF Answered, Ends, TypeOK, JobPCs
<1> QED BY <1>3, <1>6, <1>9

LEMMA RetriesKeeps ==
  ASSUME TypeOK, Paced, Slots, NEW s \in Nat, NEW l \in Limiters,
         Adapted(lim, l), Retries(l, s)
  PROVE  TypeOK' /\ Paced' /\ Slots'
<1>2. lim' = l /\ fastest' = AtLeast(fastest, l.rate) /\ slot' = slot
  BY DEF Retries
<1>3. /\ fastest' \in Nat /\ fastest <= fastest' /\ Paced'
      /\ lim'.rate # 0 => lim.rate # 0
      /\ lim'.lastRequest = lim.lastRequest
  BY <1>2, FastestKept
<1>4. Reserved' \subseteq Reserved
  BY DEF Retries, Reserved, TypeOK, JobPCs
<1>5. fastest = 0 => fastest' = 0
  BY <1>2 DEF Adapted, Paced, TypeOK, Limiters, AtLeast
<1>6. Slots'
  BY <1>2, <1>3, <1>4, <1>5, SlotsKept
<1>7. now' \in Nat
  <2>1. s * TickRate \in Nat
    BY LimiterAssumption
  <2> QED BY <2>1 DEF Retries, TypeOK
<1>8. attempt' \in 0 .. MaxRetries
  BY SourceAssumption DEF Retries, TypeOK
<1>9. TypeOK'
  BY <1>2, <1>3, <1>7, <1>8 DEF Retries, TypeOK, JobPCs
<1> QED BY <1>3, <1>6, <1>9

LEMMA CommandKeeps ==
  ASSUME TypeOK, Paced, Slots, CommandStep \/ MinutePasses
  PROVE  TypeOK' /\ Paced' /\ Slots'
<1>1. /\ UNCHANGED <<limiting, attempt, out, heard, served, links, cmd, flags>>
      /\ jpc' \in [Jobs -> JobPCs]
      /\ \A j \in Jobs : jpc'[j] # "wait" => jpc'[j] = jpc[j]
      /\ phase' \in Phases
  BY CommandLaunches
<1>2. Paced'
  BY <1>1 DEF limiting, Paced
<1>3. Reserved' \subseteq Reserved
  BY <1>1 DEF Reserved
<1>4. Slots'
  BY <1>1, <1>2, <1>3, SlotsKept DEF limiting, TypeOK
<1>5. /\ nowMin' \in {0 - 1} \cup 0 .. LastMinute
      /\ minute' \in 0 .. LastMinute
      /\ at' \in 1 .. N + 1
      /\ DOMAIN report' = {"error", "boards", "failures"}
  <2>1. /\ N \in Nat /\ LastMinute \in Nat
    BY SourceAssumption
  <2>2. CASE Begin
    BY <2>2 DEF Begin, TypeOK
  <2>3. CASE TheatersFetched \/ PopcornFetched \/ LookUpLink \/ LinkLookedUp
    BY <2>3 DEF TheatersFetched, PopcornFetched, LookUpLink, LinkLookedUp, TypeOK
  <2>4. CASE ReportTheater
    <3>1. DOMAIN report' = DOMAIN report
      BY <2>4 DEF ReportTheater, Reported
    <3> QED BY <2>1, <2>4, <3>1 DEF ReportTheater, TypeOK
  <2>5. CASE ReportThrottle
    BY <2>5 DEF ReportThrottle, TypeOK
  <2>6. CASE Finish
    <3>1. DOMAIN report' = DOMAIN report
      BY <2>6 DEF Finish
    <3> QED BY <2>6, <3>1 DEF Finish, TypeOK
  <2>7. CASE MinutePasses
    BY <2>1, <2>7 DEF MinutePasses, TypeOK
  <2> QED BY <2>2, <2>3, <2>4, <2>5, <2>6, <2>7 DEF CommandStep
<1>6. TypeOK'
  BY <1>1, <1>5 DEF TypeOK, limiting
<1> QED BY <1>2, <1>4, <1>6

LEMMA PaceKept ==
  ASSUME TypeOK, Paced, Slots, [Next]_vars PROVE TypeOK' /\ Paced' /\ Slots'
<1>1. CASE CommandStep \/ MinutePasses
  BY <1>1, CommandKeeps
<1>2. ASSUME NEW j \in Jobs, JobStep(j) PROVE TypeOK' /\ Paced' /\ Slots'
  <2>1. CASE Reserve(j) BY <2>1, ReserveKeeps
  <2>2. CASE Wake(j) BY <2>2, WakeKeeps
  <2>3. CASE Answer(j) BY <2>3, AnswerKinds, AnsweredKeeps, RetriesKeeps
  <2> QED BY <1>2, <2>1, <2>2, <2>3 DEF JobStep
<1>3. CASE UNCHANGED vars
  BY <1>3 DEF vars, limiting, TypeOK, Paced, Slots, SlotsSpaced, Reserved
<1> QED BY <1>1, <1>2, <1>3 DEF Next

THEOREM PaceIsSafe == Spec => [](TypeOK /\ Paced /\ Slots)
BY StartsPaced, PaceKept, PTL DEF Spec

(* Every reachable state is of the stated types.                              *)
THEOREM TypesHold == Spec => []TypeOK
BY PaceIsSafe, PTL

(* The pace stays between floor and cap, and below the pace of the last       *)
(* throttle, whatever order the answers of concurrent requests come in.       *)
THEOREM ThrottledIsSlower == Spec => []PacedBelowCeiling
<1>1. Paced => PacedBelowCeiling
  BY DEF Paced, Sound, PacedBelowCeiling
<1> QED BY <1>1, PaceIsSafe, PTL

(* No two requests of a command hold slots closer than a full delay.          *)
THEOREM SlotsAreSpaced == Spec => []SlotsSpaced
<1>1. Slots => SlotsSpaced
  BY DEF Slots
<1> QED BY <1>1, PaceIsSafe, PTL

--------------------------------------------------------------------------------
(* The stages of a command: which jobs have ended when.                       *)

Stages ==
    /\ cmd = "theater" => phase \in {"start", "api", "done"}
    /\ phase = "api" => cmd = "theater"
    /\ \A j \in CtcJobs : jpc[j] = "end" => out[j] \in {"ok", "failed", "limited"}
    /\ (cmd # "theater" /\ phase \in {"popcorn", "report", "link", "done"}) => AllEnded(CtcJobs)
    /\ phase # "popcorn" => \A j \in PopcornJobs : jpc[j] \in {"off", "end"}

(* What a step of a job may touch.                                            *)
Moved(j) ==
    \E x \in JobPCs \ {"off"}, o \in Outcomes :
        /\ jpc[j] \in {"wait", "sleep", "send"}
        /\ jpc' = [jpc EXCEPT ![j] = x]
        /\ UNCHANGED <<cmd, flags, phase, nowMin, minute, at, report>>
        /\ \/ x # "end" /\ UNCHANGED <<out, heard, served>>
           \/ /\ x = "end" /\ out' = [out EXCEPT ![j] = o]
              /\ j \in CtcJobs => o \in {"ok", "failed", "limited"}
              /\ Hears(j)

LEMMA JobsMove ==
  ASSUME TypeOK, Paced, NEW j \in Jobs, JobStep(j) PROVE Moved(j)
<1>1. CASE Reserve(j)
  <2>1. /\ jpc[j] = "wait" /\ jpc' = [jpc EXCEPT ![j] = "sleep"]
        /\ UNCHANGED <<cmd, flags, phase, nowMin, minute, at, report, out, heard, served>>
    BY <1>1 DEF Reserve
  <2>2. "sleep" \in JobPCs \ {"off"} /\ "ok" \in Outcomes /\ "sleep" # "end"
    BY DEF JobPCs, Outcomes
  <2> QED BY <2>1, <2>2, ZenonT(30) DEF Moved
<1>2. CASE Wake(j)
  <2>1. /\ jpc[j] = "sleep" /\ jpc' = [jpc EXCEPT ![j] = "send"]
        /\ UNCHANGED <<cmd, flags, phase, nowMin, minute, at, report, out, heard, served>>
    BY <1>2 DEF Wake
  <2>2. "send" \in JobPCs \ {"off"} /\ "ok" \in Outcomes /\ "send" # "end"
    BY DEF JobPCs, Outcomes
  <2> QED BY <2>1, <2>2, ZenonT(30) DEF Moved
<1>3. ASSUME NEW o \in Outcomes, NEW l \in Limiters, Answered(j, o, l) PROVE Moved(j)
  <2>1. /\ jpc[j] = "send" /\ jpc' = [jpc EXCEPT ![j] = "end"]
        /\ out' = [out EXCEPT ![j] = o]
        /\ UNCHANGED <<cmd, flags, phase, nowMin, minute, at, report>>
    BY <1>3 DEF Answered, Ends
  <2>2. (j \in CtcJobs => o \in {"ok", "failed", "limited"}) /\ Hears(j)
    BY <1>3 DEF Answered
  <2> QED BY <2>1, <2>2 DEF Moved, JobPCs
<1>4. ASSUME NEW s \in Nat, NEW l \in Limiters, Retries(l, s), j = ApiJob PROVE Moved(j)
  <2>1. /\ jpc[j] = "send" /\ jpc' = [jpc EXCEPT ![j] = "wait"]
        /\ UNCHANGED <<cmd, flags, phase, nowMin, minute, at, report, out, heard, served>>
    BY <1>4 DEF Retries
  <2>2. "wait" \in JobPCs \ {"off"} /\ "ok" \in Outcomes /\ "wait" # "end"
    BY DEF JobPCs, Outcomes
  <2> QED BY <2>1, <2>2, ZenonT(30) DEF Moved
<1> QED BY <1>1, <1>2, <1>3, <1>4, AnswerKinds DEF JobStep

LEMMA JobKinds ==
  /\ \A j \in CtcJobs : j \in Jobs /\ j \notin PopcornJobs /\ j \notin ImdbJobs /\ j # ApiJob
  /\ \A j \in PopcornJobs : j \in Jobs /\ j \notin ImdbJobs /\ j # ApiJob
BY DEF Jobs, CtcJobs, PopcornJobs, ImdbJobs, ApiJob

LEMMA JobsKeepStages ==
  ASSUME TypeOK, Stages, NEW j \in Jobs, Moved(j)
  PROVE  /\ Stages'
         /\ phase # "popcorn" => UNCHANGED <<heard, served>>
         /\ (cmd # "theater" /\ phase \in {"popcorn", "report", "link", "done"}) =>
               \A i \in CtcJobs : out'[i] = out[i]
<1>1. PICK x \in JobPCs \ {"off"}, o \in Outcomes :
         /\ jpc[j] \in {"wait", "sleep", "send"}
         /\ jpc' = [jpc EXCEPT ![j] = x]
         /\ UNCHANGED <<cmd, flags, phase, nowMin, minute, at, report>>
         /\ \/ x # "end" /\ UNCHANGED <<out, heard, served>>
            \/ /\ x = "end" /\ out' = [out EXCEPT ![j] = o]
               /\ j \in CtcJobs => o \in {"ok", "failed", "limited"}
               /\ Hears(j)
  BY DEF Moved
<1>2. jpc \in [Jobs -> JobPCs] /\ out \in [Jobs -> Outcomes]
  BY DEF TypeOK
<1>3. \A i \in Jobs : i # j => jpc'[i] = jpc[i] /\ out'[i] = out[i]
  BY <1>1, <1>2
<1>4. \A i \in CtcJobs : jpc'[i] = "end" => out'[i] \in {"ok", "failed", "limited"}
  <2> TAKE i \in CtcJobs
  <2>1. CASE i # j BY <1>3, <2>1, JobKinds DEF Stages
  <2>2. CASE i = j BY <1>1, <1>2, <2>2, JobKinds
  <2> QED BY <2>1, <2>2
<1>5. ASSUME cmd # "theater", phase \in {"popcorn", "report", "link", "done"}
      PROVE  AllEnded(CtcJobs)' /\ \A i \in CtcJobs : out'[i] = out[i]
  <2>1. AllEnded(CtcJobs)
    BY <1>5 DEF Stages
  <2>2. j \notin CtcJobs
    BY <2>1, <1>1 DEF AllEnded
  <2> QED BY <2>1, <2>2, <1>3, JobKinds DEF AllEnded
<1>6. ASSUME phase # "popcorn"
      PROVE  /\ \A i \in PopcornJobs : jpc'[i] \in {"off", "end"}
             /\ UNCHANGED <<heard, served>>
  <2>1. j \notin PopcornJobs
    BY <1>1, <1>6 DEF Stages
  <2>2. \A i \in PopcornJobs : jpc'[i] \in {"off", "end"}
    BY <2>1, <1>3, <1>6, JobKinds DEF Stages
  <2>3. UNCHANGED <<heard, served>>
    BY <2>1, <1>1 DEF Hears, PopcornJobs
  <2> QED BY <2>2, <2>3
<1> QED BY <1>1, <1>4, <1>5, <1>6 DEF Stages

LEMMA CommandKeepsStages ==
  ASSUME TypeOK, Stages, CommandStep \/ MinutePasses PROVE Stages'
<1>1. jpc \in [Jobs -> JobPCs]
  BY DEF TypeOK
<1>2. CASE Begin
  <2> DEFINE jobs == IF cmd = "theater" THEN {ApiJob} ELSE CtcJobs
  <2>1. /\ phase = "start" /\ phase' = (IF cmd = "theater" THEN "api" ELSE "theaters")
        /\ jpc' = [j \in Jobs |-> IF j \in jobs THEN "wait" ELSE jpc[j]]
        /\ UNCHANGED <<cmd, out>>
    BY <1>2 DEF Begin, Launch
  <2>2. \A j \in PopcornJobs : jpc'[j] = jpc[j]
    BY <2>1, JobKinds
  <2>3. \A j \in CtcJobs : jpc'[j] = "end" => jpc[j] = "end"
    BY <2>1, JobKinds
  <2> QED BY <2>1, <2>2, <2>3 DEF Stages
<1>3. CASE TheatersFetched
  <2>1. /\ phase = "theaters" /\ phase' \in {"popcorn", "report"} /\ AllEnded(CtcJobs)
        /\ UNCHANGED <<cmd, out>>
        /\ \/ phase' = "popcorn" /\ jpc' = [j \in Jobs |-> IF j \in PopcornJobs THEN "wait" ELSE jpc[j]]
           \/ UNCHANGED jpc
    BY <1>3 DEF TheatersFetched, Launch
  <2>2. AllEnded(CtcJobs)' /\ \A j \in CtcJobs : jpc'[j] = jpc[j]
    BY <2>1, JobKinds DEF AllEnded
  <2>3. phase' # "popcorn" => \A j \in PopcornJobs : jpc'[j] \in {"off", "end"}
    BY <2>1 DEF Stages
  <2> QED BY <2>1, <2>2, <2>3 DEF Stages
<1>4. CASE PopcornFetched
  BY <1>4 DEF PopcornFetched, Stages, AllEnded
<1>5. CASE LookUpLink
  <2>1. PICK m \in Unlinked(at) : Launch({<<"imdb", m>>})
    BY <1>5 DEF LookUpLink
  <2>2. phase = "report" /\ phase' = "link" /\ UNCHANGED <<cmd, out>>
    BY <1>5 DEF LookUpLink
  <2>3. <<"imdb", m>> \notin CtcJobs /\ <<"imdb", m>> \notin PopcornJobs
    BY DEF CtcJobs, PopcornJobs
  <2>4. \A j \in CtcJobs \cup PopcornJobs : jpc'[j] = jpc[j]
    BY <2>1, <2>3, JobKinds DEF Launch
  <2>5. \A j \in PopcornJobs : jpc'[j] \in {"off", "end"}
    BY <2>2, <2>4 DEF Stages
  <2>6. cmd # "theater" /\ AllEnded(CtcJobs)
    BY <2>2 DEF Stages
  <2>7. AllEnded(CtcJobs)'
    BY <2>4, <2>6 DEF AllEnded
  <2> QED BY <2>2, <2>4, <2>5, <2>6, <2>7 DEF Stages
<1>6. CASE LinkLookedUp
  BY <1>6 DEF LinkLookedUp, Stages, AllEnded
<1>7. CASE ReportTheater
  BY <1>7 DEF ReportTheater, Stages, AllEnded
<1>8. CASE ReportThrottle
  BY <1>8 DEF ReportThrottle, Stages, AllEnded
<1>9. CASE Finish
  BY <1>9 DEF Finish, Stages, AllEnded
<1>10. CASE MinutePasses
  BY <1>10 DEF MinutePasses, Stages, AllEnded
<1> QED BY <1>2, <1>3, <1>4, <1>5, <1>6, <1>7, <1>8, <1>9, <1>10 DEF CommandStep

--------------------------------------------------------------------------------
(* The report: after every step it tells of the theaters below at.            *)

Boards == [theater : Theaters, confidence : UNION {[M -> Confidences] : M \in SUBSET Movies}]

Told(seq, S) == seq \in Seq(Theaters) /\ Rising(seq) /\ Ran(seq) = S
Shows(boards) == [k \in 1 .. Len(boards) |-> boards[k].theater]
Passed(o) == {i \in Theaters : i < at /\ out[<<"ctc", i>>] = o}

Accounted ==
    /\ report.boards \in Seq(Boards)
    /\ (phase # "done" /\ cmd # "theater") =>
          /\ report.error = FALSE
          /\ phase \in {"start", "theaters", "popcorn"} => at = 1
          /\ Told(Shows(report.boards), {i \in Passed("ok") : Shown(i)})
          /\ Told(report.failures, Passed("failed"))
          /\ Passed("limited") = {}
    /\ NoTheaterDropped

LEMMA Appended ==
  ASSUME NEW seq \in Seq(Theaters), NEW n \in Theaters, Rising(seq),
         \A x \in Ran(seq) : x < n
  PROVE  Told(Append(seq, n), Ran(seq) \cup {n})
<1> DEFINE new == Append(seq, n)
<1>1. /\ new \in Seq(Theaters) /\ Len(seq) \in Nat /\ Len(new) = Len(seq) + 1
      /\ new[Len(new)] = n
      /\ \A k \in 1 .. Len(seq) : new[k] = seq[k]
  OBVIOUS
<1> HIDE DEF new
<1>2. \A k \in 1 .. Len(seq) : seq[k] \in Theaters /\ seq[k] < n
  BY DEF Ran
<1>3. Rising(new)
  BY <1>1, <1>2 DEF Rising
<1>4. Ran(new) = Ran(seq) \cup {n}
  <2>1. \A k \in 1 .. Len(new) : k \in 1 .. Len(seq) \/ k = Len(new)
    BY <1>1
  <2>2. Len(new) \in 1 .. Len(new) /\ \A k \in 1 .. Len(seq) : k \in 1 .. Len(new)
    BY <1>1
  <2> QED BY <1>1, <2>1, <2>2 DEF Ran
<1> QED BY <1>1, <1>3, <1>4 DEF Told, new

LEMMA ShowsAppended ==
  ASSUME NEW boards \in Seq(Boards), NEW b \in Boards
  PROVE  /\ Shows(boards) \in Seq(Theaters)
         /\ Shows(Append(boards, b)) = Append(Shows(boards), b.theater)
<1>1. /\ Len(boards) \in Nat
      /\ \A k \in 1 .. Len(boards) : boards[k] \in Boards
      /\ Len(Append(boards, b)) = Len(boards) + 1
      /\ \A k \in 1 .. Len(boards) : Append(boards, b)[k] = boards[k]
      /\ Append(boards, b)[Len(boards) + 1] = b
  OBVIOUS
<1>2. \A c \in Boards : c.theater \in Theaters
  BY DEF Boards
<1> DEFINE old == Shows(boards)
<1>3. old \in [1 .. Len(boards) -> Theaters]
  BY <1>1, <1>2 DEF Shows
<1>4. old \in Seq(Theaters) /\ Len(old) = Len(boards)
  BY <1>1, <1>3, SeqDef, LenProperties
<1>5. /\ Append(old, b.theater) \in Seq(Theaters)
      /\ Len(Append(old, b.theater)) = Len(boards) + 1
      /\ \A k \in 1 .. Len(boards) : Append(old, b.theater)[k] = boards[k].theater
      /\ Append(old, b.theater)[Len(boards) + 1] = b.theater
  BY <1>2, <1>4 DEF Shows
<1>6. /\ Shows(Append(boards, b)) \in [1 .. Len(boards) + 1 -> Theaters]
      /\ \A k \in 1 .. Len(boards) + 1 : Shows(Append(boards, b))[k] = Append(old, b.theater)[k]
  <2>1. \A k \in 1 .. Len(boards) + 1 : k \in 1 .. Len(boards) \/ k = Len(boards) + 1
    BY <1>1
  <2>2. \A k \in 1 .. Len(boards) + 1 : Append(boards, b)[k] \in Boards
    BY <1>1, <2>1
  <2> QED BY <1>1, <1>2, <1>5, <2>1, <2>2 DEF Shows
<1>7. Append(old, b.theater) \in [1 .. Len(boards) + 1 -> Theaters]
  BY <1>5, LenProperties
<1> QED BY <1>4, <1>6, <1>7

LEMMA BoardTyped ==
  ASSUME NEW i \in Theaters PROVE Board(i) \in Boards /\ Board(i).theater = i
<1>1. DOMAIN Listed(i) \in SUBSET Movies
  BY SourceAssumption DEF Listed, Index, Rows
<1>2. \A m : Confidence(i, m) \in Confidences
  BY DEF Confidence, CheckShowtimes, Confidences
<1>3. [m \in DOMAIN Listed(i) |-> Confidence(i, m)] \in [DOMAIN Listed(i) -> Confidences]
  BY <1>2
<1> QED BY <1>1, <1>3 DEF Board, Boards

(* Where neither the report nor the outcomes it tells of change.              *)
LEMMA NothingToldAnew ==
  ASSUME TypeOK, Stages, Accounted, UNCHANGED <<cmd, flags, at, report>>,
         phase' = "done" => phase = "done",
         phase' \in {"start", "theaters", "popcorn"} => phase \in {"start", "theaters", "popcorn"},
         phase = "done" => phase' = "done",
         (cmd # "theater" /\ phase \in {"popcorn", "report", "link", "done"}) =>
            \A j \in CtcJobs : out'[j] = out[j]
  PROVE  Accounted'
<1>1. \A i \in Theaters : <<"ctc", i>> \in CtcJobs
  BY DEF CtcJobs
<1>2. \A i : Shown(i)' = Shown(i)
  BY DEF Shown, Listed
<1>3. ASSUME phase # "done", cmd # "theater", NEW o PROVE Passed(o)' = Passed(o)
  <2>1. CASE phase \in {"report", "link", "popcorn"}
    BY <1>1, <1>3, <2>1 DEF Passed
  <2>2. CASE phase \notin {"report", "link", "popcorn"}
    <3>1. at = 1 /\ at' = 1
      BY <1>3, <2>2 DEF Accounted, Stages, TypeOK, Phases
    <3>2. \A i \in Theaters : ~(i < 1)
      BY SourceAssumption DEF Theaters
    <3> QED BY <3>1, <3>2 DEF Passed
  <2> QED BY <2>1, <2>2
<1>4. ASSUME phase # "done", cmd # "theater"
      PROVE  /\ report'.error = FALSE
             /\ phase' \in {"start", "theaters", "popcorn"} => at' = 1
             /\ Told(Shows(report'.boards), {i \in Passed("ok")' : Shown(i)'})
             /\ Told(report'.failures, Passed("failed")')
             /\ Passed("limited")' = {}
  BY <1>2, <1>3, <1>4 DEF Accounted
<1>5. NoTheaterDropped'
  <2> SUFFICES ASSUME phase = "done", cmd # "theater" PROVE NoTheaterDropped'
    BY DEF NoTheaterDropped
  <2>1. \A i \in Theaters : out'[<<"ctc", i>>] = out[<<"ctc", i>>]
    BY <1>1
  <2>2. NoTheaterDropped
    BY DEF Accounted
  <2> DEFINE With(o) == {i \in Theaters : out[<<"ctc", i>>] = o}
             After(o) == {i \in Theaters : out'[<<"ctc", i>>] = o}
  <2>3. \A o : After(o) = With(o)
    BY <2>1
  <2> QED BY <1>2, <2>2, <2>3 DEF NoTheaterDropped
<1> QED BY <1>4, <1>5 DEF Accounted

LEMMA ReportKeepsAccount ==
  ASSUME TypeOK, Stages, Accounted, ReportTheater PROVE Accounted'
<1>1. /\ phase = "report" /\ phase' = "report" /\ at \in Theaters /\ at \in Nat
      /\ cmd # "theater" /\ N \in Nat
      /\ at' = at + 1 /\ UNCHANGED <<cmd, flags, out, heard>> /\ report' = Reported(at)
      /\ out[<<"ctc", at>>] \in {"ok", "failed"}
  BY SourceAssumption DEF ReportTheater, Stages, TypeOK, Theaters
<1>2. /\ report.boards \in Seq(Boards) /\ report.error = FALSE
      /\ Told(Shows(report.boards), {i \in Passed("ok") : Shown(i)})
      /\ Told(report.failures, Passed("failed")) /\ Passed("limited") = {}
      /\ DOMAIN report = {"error", "boards", "failures"}
  BY <1>1 DEF Accounted, TypeOK
<1>3. \A i : Shown(i)' = Shown(i)
  BY <1>1 DEF Shown, Listed
<1>4. \A o : Passed(o)' = Passed(o) \cup (IF out[<<"ctc", at>>] = o THEN {at} ELSE {})
  BY <1>1 DEF Passed, Theaters
<1>5. \A o : \A x \in Passed(o) : x < at
  BY DEF Passed
<1>6. NoTheaterDropped'
  BY <1>1 DEF NoTheaterDropped
<1>7. /\ report'.boards \in Seq(Boards) /\ report'.error = FALSE
      /\ Told(Shows(report'.boards), {i \in Passed("ok")' : Shown(i)})
      /\ Told(report'.failures, Passed("failed")')
  <2>1. CASE out[<<"ctc", at>>] = "failed"
    <3>1. report' = [report EXCEPT !.failures = Append(@, at)]
      BY <1>1, <2>1 DEF Reported
    <3>2. /\ report'.boards = report.boards /\ report'.error = report.error
          /\ report'.failures = Append(report.failures, at)
      BY <1>2, <3>1
    <3>3. Told(Append(report.failures, at), Passed("failed") \cup {at})
      BY <1>1, <1>2, <1>5, Appended DEF Told
    <3>4. Passed("failed")' = Passed("failed") \cup {at} /\ Passed("ok")' = Passed("ok")
      BY <1>4, <2>1
    <3> QED BY <1>2, <3>2, <3>3, <3>4
  <2>2. CASE out[<<"ctc", at>>] = "ok" /\ Shown(at)
    <3>1. report' = [report EXCEPT !.boards = Append(@, Board(at))]
      BY <1>1, <2>2 DEF Reported
    <3>2. /\ report'.boards = Append(report.boards, Board(at)) /\ report'.error = report.error
          /\ report'.failures = report.failures
      BY <1>2, <3>1
    <3>3. Board(at) \in Boards /\ Board(at).theater = at
      BY <1>1, BoardTyped
    <3>4. Shows(report'.boards) = Append(Shows(report.boards), at)
      BY <1>2, <3>2, <3>3, ShowsAppended
    <3>5. Told(Append(Shows(report.boards), at), {i \in Passed("ok") : Shown(i)} \cup {at})
      BY <1>1, <1>2, <1>5, Appended DEF Told
    <3>6. /\ Passed("failed")' = Passed("failed")
          /\ {i \in Passed("ok")' : Shown(i)} = {i \in Passed("ok") : Shown(i)} \cup {at}
      BY <1>4, <2>2
    <3>7. report'.boards \in Seq(Boards)
      BY <1>2, <3>2, <3>3
    <3> QED BY <1>2, <3>2, <3>4, <3>5, <3>6, <3>7
  <2>3. CASE out[<<"ctc", at>>] = "ok" /\ ~Shown(at)
    <3>1. report' = report
      BY <1>1, <2>3 DEF Reported
    <3>2. /\ Passed("failed")' = Passed("failed")
          /\ {i \in Passed("ok")' : Shown(i)} = {i \in Passed("ok") : Shown(i)}
      BY <1>4, <2>3
    <3> QED BY <1>2, <3>1, <3>2
  <2> QED BY <1>1, <2>1, <2>2, <2>3
<1>8. Passed("limited")' = {}
  BY <1>1, <1>2, <1>4
<1>9. {i \in Passed("ok")' : Shown(i)} = {i \in Passed("ok")' : Shown(i)'}
  BY <1>3
<1> QED BY <1>1, <1>6, <1>7, <1>8, <1>9 DEF Accounted

LEMMA EndKeepsAccount ==
  ASSUME TypeOK, Stages, Accounted, ReportThrottle \/ Finish PROVE Accounted'
<1> DEFINE With(o) == {i \in Theaters : out[<<"ctc", i>>] = o}
<1>1. CASE ReportThrottle
  <2>1. /\ phase' = "done" /\ at \in Theaters /\ out[<<"ctc", at>>] = "limited"
        /\ UNCHANGED <<cmd, flags, out>>
        /\ report' = [error |-> TRUE, boards |-> <<>>, failures |-> <<>>]
    BY <1>1, SourceAssumption DEF ReportThrottle, TypeOK, Theaters
  <2>2. With("limited") # {}
    BY <2>1
  <2>3. NoTheaterDropped'
    BY <2>1, <2>2 DEF NoTheaterDropped
  <2>4. report'.boards \in Seq(Boards)
    BY <2>1
  <2> QED BY <2>1, <2>3, <2>4 DEF Accounted
<1>2. CASE Finish
  <2>1. /\ phase' = "done" /\ UNCHANGED <<cmd, flags, out, at>>
        /\ cmd # "theater" => (phase = "report" /\ at = N + 1 /\ UNCHANGED report)
    BY <1>2 DEF Finish, Stages
  <2>2. report'.boards = report.boards
    BY <1>2 DEF Finish, TypeOK
  <2>3. ASSUME cmd # "theater" PROVE NoTheaterDropped'
    <3>1. \A i \in Theaters : i < at
      BY <2>1, <2>3, SourceAssumption DEF Theaters
    <3>2. \A o : Passed(o) = With(o)
      BY <3>1 DEF Passed
    <3>3. /\ report.error = FALSE
          /\ Told(Shows(report.boards), {i \in With("ok") : Shown(i)})
          /\ Told(report.failures, With("failed"))
          /\ With("limited") = {}
      BY <2>1, <2>3, <3>2 DEF Accounted
    <3>4. \A i : Shown(i)' = Shown(i)
      BY <2>1 DEF Shown, Listed
    <3> QED BY <2>1, <2>3, <3>3, <3>4 DEF NoTheaterDropped, Told, Shows
  <2>4. NoTheaterDropped'
    BY <2>1, <2>3 DEF NoTheaterDropped
  <2> QED BY <2>1, <2>2, <2>4 DEF Accounted
<1> QED BY <1>1, <1>2

LEMMA CommandKeepsAccount ==
  ASSUME TypeOK, Stages, Accounted, CommandStep \/ MinutePasses PROVE Accounted'
<1>1. CASE Begin
  BY <1>1, NothingToldAnew DEF Begin
<1>2. CASE TheatersFetched
  BY <1>2, NothingToldAnew DEF TheatersFetched
<1>3. CASE PopcornFetched
  BY <1>3, NothingToldAnew DEF PopcornFetched
<1>4. CASE LookUpLink
  BY <1>4, NothingToldAnew DEF LookUpLink
<1>5. CASE LinkLookedUp
  BY <1>5, NothingToldAnew DEF LinkLookedUp
<1>6. CASE MinutePasses
  BY <1>6, NothingToldAnew DEF MinutePasses
<1> QED BY <1>1, <1>2, <1>3, <1>4, <1>5, <1>6, ReportKeepsAccount, EndKeepsAccount DEF CommandStep

LEMMA JobsKeepAccount ==
  ASSUME TypeOK, Stages, Accounted, NEW j \in Jobs, Moved(j) PROVE Accounted'
<1>1. UNCHANGED <<cmd, flags, phase, at, report>>
  BY DEF Moved
<1> QED BY <1>1, JobsKeepStages, NothingToldAnew

LEMMA StartsAccounted == ASSUME Init, TypeOK PROVE Stages /\ Accounted
<1>1. Stages
  BY JobKinds DEF Init, Stages
<1>2. \A o : Passed(o) = {}
  BY SourceAssumption DEF Init, Passed, Theaters
<1>3. Told(<<>>, {})
  BY DEF Told, Rising, Ran
<1>4. Shows(<<>>) = <<>>
  BY DEF Shows
<1>5. NoTheaterDropped
  BY DEF Init, NoTheaterDropped
<1>6. /\ report.error = FALSE /\ report.boards = <<>> /\ report.failures = <<>> /\ at = 1
      /\ <<>> \in Seq(Boards)
  BY DEF Init
<1> QED BY <1>1, <1>2, <1>3, <1>4, <1>5, <1>6 DEF Accounted

THEOREM AccountKept == Spec => [](TypeOK /\ Paced /\ Slots /\ Stages /\ Accounted)
<1>1. ASSUME TypeOK, Paced, Slots, Stages, Accounted, [Next]_vars PROVE Stages' /\ Accounted'
  <2>1. CASE CommandStep \/ MinutePasses
    BY <1>1, <2>1, CommandKeepsStages, CommandKeepsAccount
  <2>2. ASSUME NEW j \in Jobs, JobStep(j) PROVE Stages' /\ Accounted'
    BY <1>1, <2>2, JobsMove, JobsKeepStages, JobsKeepAccount
  <2>3. CASE UNCHANGED vars
    BY <1>1, <2>3, NothingToldAnew DEF vars, limiting, Stages, AllEnded
  <2> QED BY <1>1, <2>1, <2>2, <2>3 DEF Next
<1>2. Init => Stages /\ Accounted
  BY StartsPaced, StartsAccounted
<1> QED BY <1>1, <1>2, PaceIsSafe, PTL DEF Spec

(* A finished fan-out has told of every theater, however the requests ended.  *)
THEOREM EveryTheaterIsTold == Spec => []NoTheaterDropped
<1>1. Accounted => NoTheaterDropped
  BY DEF Accounted
<1> QED BY <1>1, AccountKept, PTL

--------------------------------------------------------------------------------
(* The cross-check: a page that lists the schedule of its theater lists no    *)
(* showtime that the theater does not list as upcoming.                       *)

Fresh(i) ==
    \A m \in DOMAIN heard[i] : \A t \in heard[i][m] : t \in Listed(i)[m] /\ t >= nowMin

Judged(b) ==
    \A m \in DOMAIN b.confidence :
        /\ b.theater \in served => b.confidence[m] # "mismatch"
        /\ b.confidence[m] = "verified" =>
              heard[b.theater][m] = {t \in Listed(b.theater)[m] : t >= nowMin}

Agreed ==
    /\ phase \in {"start", "theaters", "api"} => served = {}
    /\ \A i \in served : jpc[<<"popcorn", i>>] = "end"
    /\ nowMin >= 0 => flags.date = "today" /\ nowMin <= minute
    /\ \A i \in served : Fresh(i)
    /\ phase \in {"start", "theaters", "popcorn"} => report.boards = <<>>
    /\ AgreeingSourcesNeverMismatch

(* Dropping what has begun leaves only what is listed and has not.            *)
LEMMA ServedIsFresh ==
  ASSUME TypeOK, NEW i \in Theaters, nowMin >= 0 => flags.date = "today" /\ nowMin <= minute,
         NEW m \in DOMAIN Index(Dropped(Schedule[i], minute), flags.date),
         NEW t \in Index(Dropped(Schedule[i], minute), flags.date)[m]
  PROVE  t \in Listed(i)[m] /\ t >= nowMin
<1> DEFINE D == Dropped(Schedule[i], minute)
<1>1. PICK d \in D : d.date = flags.date /\ d.movie = m /\ t \in d.times
  BY DEF Index
<1>2. PICK r \in Schedule[i] :
         d = [r EXCEPT !.times = IF r.date = "today" THEN {x \in @ : x >= minute} ELSE @]
  BY DEF Dropped
<1>3. r \in Rows
  BY SourceAssumption
<1>4. /\ d.date = r.date /\ d.movie = r.movie
      /\ d.times = (IF r.date = "today" THEN {x \in r.times : x >= minute} ELSE r.times)
  BY <1>2, <1>3 DEF Rows
<1>5. /\ t \in r.times /\ r.date = flags.date /\ r.movie = m
      /\ flags.date = "today" => t >= minute
  BY <1>1, <1>4
<1>6. t \in Listed(i)[m]
  BY <1>5 DEF Listed, Index
<1>7. t \in Nat /\ minute \in Nat /\ nowMin \in Int /\ nowMin >= 0 - 1
  <2>1. LastMinute \in Nat
    BY SourceAssumption
  <2>2. t \in 0 .. LastMinute
    BY <1>3, <1>5 DEF Rows
  <2> QED BY <2>1, <2>2 DEF TypeOK
<1>8. t >= nowMin
  <2>1. CASE nowMin >= 0
    BY <1>5, <1>7, <2>1
  <2>2. CASE ~(nowMin >= 0)
    BY <1>7, <2>2
  <2> QED BY <2>1, <2>2
<1> QED BY <1>6, <1>8

LEMMA BoardJudged ==
  ASSUME TypeOK, NEW i \in Theaters, i \in served => Fresh(i) PROVE Judged(Board(i))
<1> DEFINE b == Board(i)
<1>1. b.theater = i /\ DOMAIN b.confidence = DOMAIN Listed(i)
      /\ \A m \in DOMAIN Listed(i) : b.confidence[m] = Confidence(i, m)
  BY DEF Board
<1> HIDE DEF b
<1>2. SUFFICES ASSUME NEW m \in DOMAIN Listed(i)
               PROVE  /\ i \in served => Confidence(i, m) # "mismatch"
                      /\ Confidence(i, m) = "verified" =>
                            heard[i][m] = {t \in Listed(i)[m] : t >= nowMin}
  BY <1>1 DEF Judged, b
<1> DEFINE upcoming == {t \in Listed(i)[m] : nowMin < 0 \/ t >= nowMin}
<1>3. upcoming = {t \in Listed(i)[m] : t >= nowMin}
  <2>1. LastMinute \in Nat /\ Schedule[i] \subseteq Rows
    BY SourceAssumption
  <2>2. \A t \in Listed(i)[m] : t \in 0 .. LastMinute
    BY <2>1 DEF Listed, Index, Rows
  <2>3. nowMin \in Int /\ nowMin >= 0 - 1
    BY <2>1 DEF TypeOK
  <2> QED BY <2>1, <2>2, <2>3
<1>4. \/ Confidence(i, m) = "ctc-only"
      \/ m \in DOMAIN heard[i] /\ Confidence(i, m) = CheckShowtimes(Listed(i)[m], heard[i][m], nowMin)
  BY DEF Confidence
<1>5. ASSUME m \in DOMAIN heard[i], i \in served
      PROVE  heard[i][m] \subseteq upcoming
  BY <1>3, <1>5 DEF Fresh
<1>6. \/ heard[i][m] = {} /\ CheckShowtimes(Listed(i)[m], heard[i][m], nowMin) = "ctc-only"
      \/ upcoming = heard[i][m] /\ CheckShowtimes(Listed(i)[m], heard[i][m], nowMin) = "verified"
      \/ CheckShowtimes(Listed(i)[m], heard[i][m], nowMin) = "partial"
      \/ /\ heard[i][m] # {} /\ upcoming \cap heard[i][m] = {}
         /\ CheckShowtimes(Listed(i)[m], heard[i][m], nowMin) = "mismatch"
  BY DEF CheckShowtimes
<1> HIDE DEF upcoming
<1>7. i \in served => Confidence(i, m) # "mismatch"
  BY <1>4, <1>5, <1>6
<1>8. Confidence(i, m) = "verified" => heard[i][m] = upcoming
  BY <1>4, <1>6
<1> QED BY <1>3, <1>7, <1>8

LEMMA JudgedAsProperty ==
  AgreeingSourcesNeverMismatch <=>
    \A k \in 1 .. Len(report.boards) : Judged(report.boards[k])
BY DEF AgreeingSourcesNeverMismatch, Judged

LEMMA JobsKeepAgreed ==
  ASSUME TypeOK, Stages, Agreed, NEW j \in Jobs, Moved(j) PROVE Agreed'
<1>1. PICK x \in JobPCs \ {"off"}, o \in Outcomes :
         /\ jpc[j] \in {"wait", "sleep", "send"}
         /\ jpc' = [jpc EXCEPT ![j] = x]
         /\ UNCHANGED <<cmd, flags, phase, nowMin, at, report>>
         /\ \/ x # "end" /\ UNCHANGED <<out, heard, served>>
            \/ x = "end" /\ Hears(j)
  BY DEF Moved
<1>2. UNCHANGED minute
  BY DEF Moved
<1>3. \A i \in Theaters : <<"popcorn", i>> \in Jobs /\ <<"popcorn", i>> \in PopcornJobs
  BY DEF Jobs, PopcornJobs
<1>4. \A i : Listed(i)' = Listed(i)
  BY <1>1 DEF Listed
<1>5. jpc \in [Jobs -> JobPCs] /\ served \subseteq Theaters /\ DOMAIN heard = Theaters
  BY DEF TypeOK
<1>6. \A i \in served : <<"popcorn", i>> # j /\ jpc'[<<"popcorn", i>>] = "end"
  BY <1>1, <1>3, <1>5 DEF Agreed
<1>7. CASE UNCHANGED <<heard, served>>
  <2>1. \A i \in served' : Fresh(i)'
    BY <1>1, <1>4, <1>7 DEF Agreed, Fresh
  <2>2. AgreeingSourcesNeverMismatch'
    BY <1>1, <1>4, <1>7 DEF Agreed, AgreeingSourcesNeverMismatch
  <2> QED BY <1>1, <1>2, <1>6, <1>7, <2>1, <2>2 DEF Agreed
<1>8. ASSUME x = "end", NEW i \in Theaters, NEW own \in BOOLEAN,
             j = <<"popcorn", i>>,
             heard' = [heard EXCEPT ![i] =
                Index(Dropped(IF own THEN Other[i] ELSE Schedule[i], minute), flags.date)],
             served' = IF own THEN served ELSE served \cup {i}
      PROVE  Agreed'
  <2>1. phase = "popcorn"
    BY <1>1, <1>3, <1>8 DEF Stages
  <2>2. report'.boards = <<>>
    BY <1>1, <2>1 DEF Agreed
  <2>3. AgreeingSourcesNeverMismatch'
    BY <2>2 DEF AgreeingSourcesNeverMismatch
  <2>4. jpc'[j] = "end" /\ i \notin served
    BY <1>1, <1>5, <1>6, <1>8
  <2>5. \A n \in served : Fresh(n)'
    <3> TAKE n \in served
    <3>1. heard'[n] = heard[n]
      BY <1>5, <1>8, <2>4
    <3> QED BY <1>1, <1>4, <3>1 DEF Agreed, Fresh
  <2>6. ~own => Fresh(i)'
    <3>1. ~own => heard'[i] = Index(Dropped(Schedule[i], minute), flags.date)
      BY <1>5, <1>8
    <3>2. nowMin >= 0 => flags.date = "today" /\ nowMin <= minute
      BY DEF Agreed
    <3>3. ~own => \A m \in DOMAIN heard'[i] : \A t \in heard'[i][m] :
                     t \in Listed(i)[m] /\ t >= nowMin
      BY <3>1, <3>2, ServedIsFresh
    <3> QED BY <1>1, <1>4, <3>3 DEF Fresh
  <2>7. /\ \A n \in served' : Fresh(n)'
        /\ \A n \in served' : jpc'[<<"popcorn", n>>] = "end"
    BY <1>6, <1>8, <2>4, <2>5, <2>6
  <2> QED BY <1>1, <1>2, <2>1, <2>2, <2>3, <2>7 DEF Agreed
<1> QED BY <1>1, <1>7, <1>8 DEF Hears

LEMMA CommandKeepsAgreed ==
  ASSUME TypeOK, Stages, Accounted, Agreed, CommandStep \/ MinutePasses PROVE Agreed'
<1>1. /\ UNCHANGED <<heard, served, cmd, flags>>
      /\ \A j \in Jobs : jpc'[j] # "wait" => jpc'[j] = jpc[j]
  BY CommandLaunches
<1>2. \A i : Listed(i)' = Listed(i)
  BY <1>1 DEF Listed
<1>3. \A i \in Theaters : <<"popcorn", i>> \in Jobs /\ <<"popcorn", i>> \in PopcornJobs
  BY DEF Jobs, PopcornJobs
<1>4. served \subseteq Theaters
  BY DEF TypeOK
<1>5. ASSUME UNCHANGED <<nowMin, minute, report>>,
             phase' \in {"start", "theaters", "api"} => phase \in {"start", "theaters", "api"},
             phase' \in {"start", "theaters", "popcorn"} => phase \in {"start", "theaters", "popcorn"},
             \A i \in served : jpc'[<<"popcorn", i>>] = "end"
      PROVE  Agreed'
  BY <1>1, <1>2, <1>5 DEF Agreed, Fresh, AgreeingSourcesNeverMismatch
<1>6. CASE Begin
  <2>1. /\ phase = "start" /\ phase' \in {"api", "theaters"} /\ served = {}
        /\ UNCHANGED <<minute, report>>
        /\ nowMin' = IF flags.date = "today" /\ minute < LastMinute THEN minute ELSE 0 - 1
        /\ report.boards = <<>>
    BY <1>6 DEF Begin, Agreed
  <2>2. AgreeingSourcesNeverMismatch'
    BY <2>1 DEF AgreeingSourcesNeverMismatch
  <2>3. nowMin' >= 0 => flags'.date = "today" /\ nowMin' <= minute'
    <3>1. minute \in Int
      BY DEF TypeOK
    <3> QED BY <1>1, <2>1, <3>1
  <2> QED BY <1>1, <2>1, <2>2, <2>3 DEF Agreed
<1>7. CASE TheatersFetched
  <2>1. /\ phase = "theaters" /\ phase' \in {"popcorn", "report"} /\ served = {}
        /\ UNCHANGED <<nowMin, minute, report>>
    BY <1>7 DEF TheatersFetched, Agreed
  <2> QED BY <1>5, <2>1
<1>8. CASE PopcornFetched
  BY <1>5, <1>8 DEF PopcornFetched, Agreed
<1>9. CASE LookUpLink
  <2>1. PICK m \in Unlinked(at) : Launch({<<"imdb", m>>})
    BY <1>9 DEF LookUpLink
  <2>2. \A i \in served : jpc'[<<"popcorn", i>>] = "end"
    BY <1>3, <1>4, <2>1 DEF Launch, Agreed
  <2>3. phase' = "link" /\ UNCHANGED <<nowMin, minute, report>>
    BY <1>9 DEF LookUpLink
  <2> QED BY <1>5, <2>2, <2>3
<1>10. CASE LinkLookedUp
  BY <1>5, <1>10 DEF LinkLookedUp, Agreed
<1>11. CASE ReportTheater
  <2>1. /\ phase = "report" /\ phase' = "report" /\ at \in Theaters
        /\ UNCHANGED <<jpc, nowMin, minute>> /\ report' = Reported(at)
    BY <1>11, SourceAssumption DEF ReportTheater, TypeOK, Theaters
  <2>2. Judged(Board(at))
    BY <2>1, BoardJudged DEF Agreed
  <2>3. report.boards \in Seq(Boards) /\ DOMAIN report = {"error", "boards", "failures"}
    BY DEF Accounted, TypeOK
  <2>4. report'.boards = report.boards \/ report'.boards = Append(report.boards, Board(at))
    <3>1. \/ report' = report
          \/ report' = [report EXCEPT !.failures = Append(@, at)]
          \/ report' = [report EXCEPT !.boards = Append(@, Board(at))]
      BY <2>1 DEF Reported
    <3> QED BY <2>3, <3>1
  <2>5. \A k \in 1 .. Len(report'.boards) : Judged(report'.boards[k])
    <3>1. \A k \in 1 .. Len(report.boards) : Judged(report.boards[k])
      BY JudgedAsProperty DEF Agreed
    <3>2. CASE report'.boards = report.boards
      BY <3>1, <3>2
    <3>3. CASE report'.boards = Append(report.boards, Board(at))
      <4>1. Board(at) \in Boards
        BY <2>1, BoardTyped
      <4>2. \A k \in 1 .. Len(report'.boards) :
              \/ k \in 1 .. Len(report.boards) /\ report'.boards[k] = report.boards[k]
              \/ report'.boards[k] = Board(at)
        BY <2>3, <3>3, <4>1
      <4> QED BY <2>2, <3>1, <4>2
    <3> QED BY <2>4, <3>2, <3>3
  <2>6. AgreeingSourcesNeverMismatch'
    BY <1>1, <1>2, <2>1, <2>5 DEF AgreeingSourcesNeverMismatch, Judged
  <2> QED BY <1>1, <1>2, <2>1, <2>6 DEF Agreed, Fresh
<1>12. CASE ReportThrottle
  <2>1. /\ phase' = "done" /\ report'.boards = <<>> /\ UNCHANGED <<jpc, nowMin, minute>>
    BY <1>12 DEF ReportThrottle
  <2>2. AgreeingSourcesNeverMismatch'
    BY <2>1 DEF AgreeingSourcesNeverMismatch
  <2> QED BY <1>1, <1>2, <2>1, <2>2 DEF Agreed, Fresh
<1>13. CASE Finish
  <2>1. /\ phase' = "done" /\ UNCHANGED <<jpc, nowMin, minute>>
    BY <1>13 DEF Finish
  <2>2. report'.boards = report.boards
    BY <1>13 DEF Finish, TypeOK
  <2> DEFINE boards == report.boards
  <2>3. \A k \in 1 .. Len(boards) : Judged(boards[k])
    BY JudgedAsProperty DEF Agreed
  <2> HIDE DEF boards
  <2>4. \A k \in 1 .. Len(report'.boards) : report'.boards[k] = boards[k]
    BY <2>2 DEF boards
  <2>5. Len(report'.boards) = Len(boards)
    BY <2>2 DEF boards
  <2>6. AgreeingSourcesNeverMismatch'
    BY <1>1, <1>2, <2>1, <2>3, <2>4, <2>5 DEF AgreeingSourcesNeverMismatch, Judged
  <2> QED BY <1>1, <1>2, <2>1, <2>6 DEF Agreed, Fresh
<1>14. CASE MinutePasses
  <2>1. /\ minute' = minute + 1 /\ UNCHANGED <<phase, jpc, nowMin, report>>
    BY <1>14 DEF MinutePasses
  <2>2. nowMin \in Int /\ minute \in Int
    BY SourceAssumption DEF TypeOK
  <2>3. nowMin' >= 0 => flags'.date = "today" /\ nowMin' <= minute'
    BY <1>1, <2>1, <2>2 DEF Agreed
  <2>4. AgreeingSourcesNeverMismatch'
    BY <1>1, <1>2, <2>1 DEF Agreed, AgreeingSourcesNeverMismatch
  <2> QED BY <1>1, <1>2, <2>1, <2>3, <2>4 DEF Agreed, Fresh
<1> QED BY <1>6, <1>7, <1>8, <1>9, <1>10, <1>11, <1>12, <1>13, <1>14 DEF CommandStep

LEMMA StartsAgreed == ASSUME Init, TypeOK PROVE Agreed
<1>1. report.boards = <<>> /\ served = {} /\ nowMin = 0 - 1
  BY DEF Init
<1>2. AgreeingSourcesNeverMismatch
  BY <1>1 DEF AgreeingSourcesNeverMismatch
<1> QED BY <1>1, <1>2 DEF Agreed

(* Sources that list the same showtimes are never shown as a mismatch, and    *)
(* "verified" is said of equal lists only.                                    *)
THEOREM AgreementIsSeen == Spec => []AgreeingSourcesNeverMismatch
<1>1. ASSUME TypeOK, Paced, Slots, Stages, Accounted, Agreed, [Next]_vars PROVE Agreed'
  <2>1. CASE CommandStep \/ MinutePasses
    BY <1>1, <2>1, CommandKeepsAgreed
  <2>2. ASSUME NEW j \in Jobs, JobStep(j) PROVE Agreed'
    BY <1>1, <2>2, JobsMove, JobsKeepAgreed
  <2>3. CASE UNCHANGED vars
    BY <1>1, <2>3 DEF vars, limiting, Agreed, Fresh, Listed, AgreeingSourcesNeverMismatch
  <2> QED BY <1>1, <2>1, <2>2, <2>3 DEF Next
<1>2. Init => Agreed
  BY StartsPaced, StartsAgreed
<1>3. Agreed => AgreeingSourcesNeverMismatch
  BY DEF Agreed
<1> QED BY <1>1, <1>2, <1>3, AccountKept, PTL DEF Spec
=================================================================================
