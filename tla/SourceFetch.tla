------------------------------ MODULE SourceFetch ------------------------------
(* The commands that ask the sources: now-playing and search fan out over the *)
(* theaters, one goroutine a request, and share one rate-limited client; the  *)
(* theater command makes one call through the API client.  now-playing then   *)
(* asks the second source, cross-checks the showtimes and may resolve links.  *)
EXTENDS RateLimiter, Sequences, FiniteSets

CONSTANTS
    N,           \* the theaters asked, 1 .. N in registry order
    Movies,      \* normalized titles
    Schedule,    \* Schedule[i]: the rows of theater i, [movie, date, times]
    Other,       \* Other[i]: rows a source of its own mind lists instead
    Query,       \* the title a search looks for
    FlagSets,    \* the flags now-playing is run with
    SourceRate,  \* the pace the client of the sources starts with
    AutoRate,    \* defaultAutoStartRate of the API client
    UserRates,   \* values of --rate-limit tried: 0 switches the pacing off, and
                 \* is what the flag defaults to
    MaxRetries,  \* clientMaxRetries
    Asked,       \* values of Retry-After tried, 0 for none
    Budgets,     \* advertised budgets tried, [remaining, secs]
    Lags,        \* how long an answer may take, in ticks
    MaxNow,      \* bound on the answers that take time
    LastMinute   \* midnight: the minute at which the date changes

Theaters == 1 .. N

(* The jobs: a request each.  A movie is looked up at IMDb at most once.      *)
CtcJobs     == {"ctc"} \X Theaters
PopcornJobs == {"popcorn"} \X Theaters
ImdbJobs    == {"imdb"} \X Movies
ApiJob      == <<"api", 0>>
Jobs        == CtcJobs \cup PopcornJobs \cup ImdbJobs \cup {ApiJob}

(* Minutes: a showtime t has not begun at minute m when t >= m.               *)
Rows == [movie : Movies, date : {"today", "later"}, times : SUBSET (0 .. LastMinute)]

ASSUME SourceAssumption ==
    /\ Query \in Movies
    /\ FlagSets \subseteq [crossCheck : BOOLEAN, imdb : BOOLEAN, date : {"today", "later"}]
    /\ N \in Nat /\ SourceRate \in Nat \ {0} /\ AutoRate \in Nat \ {0}
    /\ UserRates \subseteq Int
    /\ MaxRetries \in Nat /\ LastMinute \in Nat /\ MaxNow \in Nat
    /\ \A n \in 0 .. MaxRetries : 2 ^ n \in Nat   \* arithmetic the provers lack
    /\ Lags \subseteq Nat /\ 0 \in Lags /\ Asked \subseteq Nat
    /\ Budgets \subseteq [remaining : Nat, secs : Nat]
    /\ Schedule \in [Theaters -> SUBSET Rows] /\ Other \in [Theaters -> SUBSET Rows]

VARIABLES
    cmd,      \* the command: "now-playing", "search" or "theater"
    flags,    \* [crossCheck, imdb, date]
    phase,    \* what the command does next
    nowMin,   \* minutes since midnight as read at the start, -1 for another date
    minute,   \* the wall clock, in minutes of today
    now,      \* the same clock in ticks, for the pacing
    lim,      \* the limiter the jobs share
    jpc,      \* jpc[j]: what job j does next
    slot,     \* slot[j]: when job j may send
    attempt,  \* retries the API client has used up
    out,      \* out[j]: the outcome of job j
    heard,    \* heard[j]: the index a popcorn page gave
    served,   \* the theaters whose popcorn page listed the schedule of theaters
    links,    \* imdbCache: the titles looked up and found or not
    at,       \* how far the report has come
    report,   \* what the command prints: [error, boards, failures]
    fastest   \* the highest rate so far

limiting == <<now, lim, slot, fastest>>
vars == <<cmd, flags, phase, nowMin, minute, limiting, jpc, attempt, out, heard, served,
          links, at, report>>

Commands == {"now-playing", "search", "theater"}
Phases   == {"start", "theaters", "popcorn", "report", "link", "api", "done"}
JobPCs   == {"off", "wait", "sleep", "send", "end"}
Outcomes == {"none", "ok", "nodata", "limited", "failed"}
Confidences == {"verified", "partial", "mismatch", "ctc-only", "unchecked"}

TypeOK ==
    /\ cmd \in Commands
    /\ flags \in FlagSets
    /\ phase \in Phases
    /\ nowMin \in {0 - 1} \cup 0 .. LastMinute
    /\ minute \in 0 .. LastMinute /\ now \in Nat
    /\ lim \in Limiters /\ fastest \in Nat
    /\ jpc \in [Jobs -> JobPCs] /\ slot \in [Jobs -> Int]
    /\ attempt \in 0 .. MaxRetries
    /\ out \in [Jobs -> Outcomes]
    /\ DOMAIN heard = Theaters /\ served \subseteq Theaters
    /\ links \in SUBSET (Movies \X BOOLEAN)
    /\ at \in 1 .. N + 1
    /\ DOMAIN report = {"error", "boards", "failures"}

(* newRateLimiter, of the API client.                                         *)
NewRateLimiter(rateLimit) ==
    IF rateLimit < 0 THEN NewAdaptiveLimiterAuto(AutoRate) ELSE NewAdaptiveLimiter(rateLimit)

Init ==
    /\ cmd \in Commands
    /\ flags \in FlagSets
    /\ phase = "start" /\ nowMin = 0 - 1
    /\ minute = 0 /\ now = 0
    /\ \/ cmd # "theater" /\ lim = NewAdaptiveLimiterAuto(SourceRate)
       \/ cmd = "theater" /\ \E r \in UserRates : lim = NewRateLimiter(r)
    /\ jpc = [j \in Jobs |-> "off"] /\ slot = [j \in Jobs |-> 0 - 1]
    /\ attempt = 0
    /\ out = [j \in Jobs |-> "none"]
    /\ heard = [i \in Theaters |-> <<>>] /\ served = {}
    /\ links = {} /\ at = 1
    /\ report = [error |-> FALSE, boards |-> <<>>, failures |-> <<>>]
    /\ fastest = lim.rate

--------------------------------------------------------------------------------
(* Pure parts: parsing, indexing and the cross-check.                         *)

(* ctc.Parse and popcorn.BuildIndex alike: the rows of the date, grouped by   *)
(* normalized title, their showtimes united.                                  *)
Index(rows, date) ==
    LET ofDate == {r \in rows : r.date = date}
    IN  [m \in {r.movie : r \in ofDate} |-> UNION {r.times : r \in {x \in ofDate : x.movie = m}}]

(* popcorn.app drops what has begun by the minute it serves the page.         *)
Dropped(rows, m) == {[r EXCEPT !.times = IF r.date = "today" THEN {t \in @ : t >= m} ELSE @]
                        : r \in rows}

(* Mutant: a film that begins this very minute has begun.                     *)
CheckShowtimesBegun(ctcTimes, pcTimes, m) ==
    LET upcoming == {t \in ctcTimes : m < 0 \/ t > m}
    IN  IF pcTimes = {} THEN "ctc-only"
        ELSE IF upcoming = pcTimes THEN "verified"
        ELSE IF upcoming \cap pcTimes # {} THEN "partial"
        ELSE "mismatch"

CheckShowtimes(ctcTimes, pcTimes, m) ==
    LET upcoming == {t \in ctcTimes : m < 0 \/ t >= m}
    IN  IF pcTimes = {} THEN "ctc-only"
        ELSE IF upcoming = pcTimes THEN "verified"
        ELSE IF upcoming \cap pcTimes # {} THEN "partial"
        ELSE "mismatch"

--------------------------------------------------------------------------------
(* One request.  Wait reserves a slot under the mutex and sleeps outside it.  *)

Reserve(j) ==
    /\ jpc[j] = "wait"
    /\ slot' = [slot EXCEPT ![j] = Slot(lim, now)]
    /\ lim' = Waited(lim, now)
    /\ jpc' = [jpc EXCEPT ![j] = "sleep"]
    /\ UNCHANGED <<cmd, flags, phase, nowMin, minute, now, fastest, attempt, out, heard,
                   served, links, at, report>>

(* A sleeper may wake late, never early: whoever wakes moves the clock on.    *)
Wake(j) ==
    /\ jpc[j] = "sleep"
    /\ now' = AtLeast(now, slot[j])
    /\ jpc' = [jpc EXCEPT ![j] = "send"]
    /\ UNCHANGED <<cmd, flags, phase, nowMin, minute, lim, slot, fastest, attempt, out, heard,
                   served, links, at, report>>

(* An answer that takes time is one of the bounded ones.                      *)
Late(lag) ==
    /\ lag > 0 => now + lag <= MaxNow
    /\ now' = now + lag

Ends(j, outcome, limiter) ==
    /\ jpc[j] = "send"
    /\ jpc' = [jpc EXCEPT ![j] = "end"]
    /\ out' = [out EXCEPT ![j] = outcome]
    /\ lim' = limiter
    /\ fastest' = AtLeast(fastest, limiter.rate)
    /\ \E lag \in Lags : Late(lag)
    /\ UNCHANGED <<cmd, flags, phase, nowMin, minute, slot, attempt, at, report>>

(* GetBytes: a 2xx.  A page ctc cannot parse, or whose status is false, is a  *)
(* failure of the theater; a popcorn page without the blob is no data.        *)
CtcAnswers(j) ==
    /\ \E outcome \in {"ok", "failed"} : Ends(j, outcome, OnSuccess(lim))
    /\ UNCHANGED <<heard, served, links>>

PopcornAnswers(i) ==
    /\ \/ /\ Ends(<<"popcorn", i>>, "ok", OnSuccess(lim))
          /\ \E own \in {TRUE, FALSE} :
               /\ heard' = [heard EXCEPT ![i] =
                     Index(Dropped(IF own THEN Other[i] ELSE Schedule[i], minute), flags.date)]
               /\ served' = IF own THEN served ELSE served \cup {i}
       \/ /\ Ends(<<"popcorn", i>>, "nodata", OnSuccess(lim))
          /\ UNCHANGED <<heard, served>>
    /\ UNCHANGED links

ImdbAnswers(m) ==
    /\ \E found \in BOOLEAN :
         /\ Ends(<<"imdb", m>>, IF found THEN "ok" ELSE "nodata", OnSuccess(lim))
         /\ links' = links \cup {<<m, found>>}
    /\ UNCHANGED <<heard, served>>

(* A 429 slows everyone down; GetBytes does not try again.  Another status,   *)
(* no answer, a timeout or the end of the context is a plain error.  A        *)
(* popcorn or IMDb error of either kind is dropped by its caller.             *)
SourceRefuses(j) ==
    /\ \/ Ends(j, "limited", OnRateLimit(lim))
       \/ Ends(j, "failed", lim)
    /\ links' = IF j[1] = "imdb" THEN links \cup {<<j[2], FALSE>>} ELSE links
    /\ UNCHANGED <<heard, served>>

--------------------------------------------------------------------------------
(* The loop of the API client around its one request.                         *)

Heeded(l, b) == ObserveHeaders(l, b.remaining, b.secs)

(* The limiter once the headers, if any, have been observed.                  *)
AfterHeaders == {lim} \cup {Heeded(lim, b) : b \in Budgets}

ApiAnswers ==
    /\ \E l \in AfterHeaders :
         \/ Ends(ApiJob, "ok", OnSuccess(l))
         \/ Ends(ApiJob, "failed", l)
         \/ attempt = MaxRetries /\ Ends(ApiJob, "limited", l)
    /\ UNCHANGED <<heard, served, links>>

(* Mutant: the loop allows one attempt more than maxRetries.                  *)
RetriesOnceMore(limiter, seconds) ==
    /\ jpc[ApiJob] = "send" /\ attempt <= MaxRetries
    /\ attempt' = attempt + 1
    /\ lim' = limiter
    /\ fastest' = AtLeast(fastest, limiter.rate)
    /\ now' = now + seconds * TickRate
    /\ jpc' = [jpc EXCEPT ![ApiJob] = "wait"]
    /\ UNCHANGED <<cmd, flags, phase, nowMin, minute, slot, out, heard, served, links, at,
                   report>>

Retries(limiter, seconds) ==
    /\ jpc[ApiJob] = "send" /\ attempt < MaxRetries
    /\ attempt' = attempt + 1
    /\ lim' = limiter
    /\ fastest' = AtLeast(fastest, limiter.rate)
    /\ now' = now + seconds * TickRate
    /\ jpc' = [jpc EXCEPT ![ApiJob] = "wait"]
    /\ UNCHANGED <<cmd, flags, phase, nowMin, minute, slot, out, heard, served, links, at,
                   report>>

(* 429: slow down, sleep what was asked for, send again.                      *)
ApiLimited == \E l \in AfterHeaders, a \in Asked : Retries(OnRateLimit(l), RetryAfter(a))

(* A 5xx, or no answer at all and then no headers: back off and send again.   *)
ApiBacksOff == \E l \in AfterHeaders : Retries(l, 2 ^ attempt)

--------------------------------------------------------------------------------
(* The command.                                                               *)

Launch(jobs) == jpc' = [j \in Jobs |-> IF j \in jobs THEN "wait" ELSE jpc[j]]

(* Mutant: a request that failed never reports to the one who waits.          *)
AllAnswered(jobs) == \A j \in jobs : out[j] \in {"ok", "nodata"}

AllEnded(jobs) == \A j \in jobs : jpc[j] = "end"

(* The date has been read before; at midnight it is no longer today's.        *)
Begin ==
    /\ phase = "start"
    /\ nowMin' = IF flags.date = "today" /\ minute < LastMinute THEN minute ELSE 0 - 1
    /\ phase' = IF cmd = "theater" THEN "api" ELSE "theaters"
    /\ Launch(IF cmd = "theater" THEN {ApiJob} ELSE CtcJobs)
    /\ UNCHANGED <<cmd, flags, minute, limiting, attempt, out, heard, served, links, at, report>>

(* fetchTheaters has waited for all; fetchPopcornAll follows.                 *)
TheatersFetched ==
    /\ phase = "theaters" /\ AllEnded(CtcJobs)
    /\ IF cmd = "now-playing" /\ flags.crossCheck
       THEN phase' = "popcorn" /\ Launch(PopcornJobs)
       ELSE phase' = "report" /\ UNCHANGED jpc
    /\ UNCHANGED <<cmd, flags, nowMin, minute, limiting, attempt, out, heard, served, links, at,
                   report>>

PopcornFetched ==
    /\ phase = "popcorn" /\ AllEnded(PopcornJobs)
    /\ phase' = "report"
    /\ UNCHANGED <<cmd, flags, nowMin, minute, limiting, jpc, attempt, out, heard, served, links,
                   at, report>>

Linked(m) == \E found \in BOOLEAN : <<m, found>> \in links

Listed(i) == Index(Schedule[i], flags.date)

(* resolveIMDb: the titles of the next theater, one after another, each once. *)
Unlinked(i) == {m \in DOMAIN Listed(i) : cmd = "now-playing" /\ flags.imdb /\ ~Linked(m)}

LookUpLink ==
    /\ phase = "report" /\ at <= N /\ out[<<"ctc", at>>] = "ok"
    /\ \E m \in Unlinked(at) : Launch({<<"imdb", m>>})
    /\ phase' = "link"
    /\ UNCHANGED <<cmd, flags, nowMin, minute, limiting, attempt, out, heard, served, links, at,
                   report>>

LinkLookedUp ==
    /\ phase = "link" /\ \A j \in ImdbJobs : jpc[j] \in {"off", "end"}
    /\ phase' = "report"
    /\ UNCHANGED <<cmd, flags, nowMin, minute, limiting, jpc, attempt, out, heard, served, links,
                   at, report>>

(* A theater without an index, or a title it does not list, is ctc-only.      *)
Confidence(i, m) ==
    IF ~flags.crossCheck \/ m \notin DOMAIN heard[i] THEN "ctc-only"
    ELSE CheckShowtimes(Listed(i)[m], heard[i][m], nowMin)

Board(i) == [theater |-> i, confidence |-> [m \in DOMAIN Listed(i) |-> Confidence(i, m)]]

Shown(i) == cmd = "now-playing" \/ Query \in DOMAIN Listed(i)

(* Mutant: a theater that failed is left out in silence.                      *)
ReportedOnlyBoards(i) ==
    IF out[<<"ctc", i>>] = "ok" /\ Shown(i) THEN [report EXCEPT !.boards = Append(@, Board(i))]
    ELSE report

Reported(i) ==
    CASE out[<<"ctc", i>>] = "failed" -> [report EXCEPT !.failures = Append(@, i)]
      [] out[<<"ctc", i>>] = "ok" /\ Shown(i) ->
            [report EXCEPT !.boards = Append(@, Board(i))]
      [] OTHER -> report

ReportTheater ==
    /\ phase = "report" /\ at <= N
    /\ out[<<"ctc", at>>] \in {"ok", "failed"}
    /\ out[<<"ctc", at>>] = "ok" => Unlinked(at) = {}
    /\ report' = Reported(at)
    /\ at' = at + 1
    /\ UNCHANGED <<cmd, flags, phase, nowMin, minute, limiting, jpc, attempt, out, heard, served,
                   links>>

(* A throttled theater makes the whole command an error.                      *)
ReportThrottle ==
    /\ phase = "report" /\ at <= N /\ out[<<"ctc", at>>] = "limited"
    /\ report' = [error |-> TRUE, boards |-> <<>>, failures |-> <<>>]
    /\ phase' = "done"
    /\ UNCHANGED <<cmd, flags, nowMin, minute, limiting, jpc, attempt, out, heard, served, links, at>>

Finish ==
    /\ \/ phase = "report" /\ at = N + 1 /\ UNCHANGED report
       \/ /\ phase = "api" /\ jpc[ApiJob] = "end"
          /\ report' = [report EXCEPT !.error = out[ApiJob] # "ok"]
    /\ phase' = "done"
    /\ UNCHANGED <<cmd, flags, nowMin, minute, limiting, jpc, attempt, out, heard, served, links, at>>

(* The minute hand, while anyone still reads it; after midnight nothing more  *)
(* begins today.                                                              *)
MinutePasses ==
    /\ minute < LastMinute /\ phase \in {"start", "theaters", "popcorn"}
    /\ minute' = minute + 1
    /\ UNCHANGED <<cmd, flags, phase, nowMin, limiting, jpc, attempt, out, heard, served, links, at,
                   report>>

Answer(j) ==
    \/ j \in CtcJobs /\ CtcAnswers(j)
    \/ \E i \in Theaters : j = <<"popcorn", i>> /\ PopcornAnswers(i)
    \/ \E m \in Movies : j = <<"imdb", m>> /\ ImdbAnswers(m)
    \/ j # ApiJob /\ SourceRefuses(j)
    \/ j = ApiJob /\ (ApiAnswers \/ ApiLimited \/ ApiBacksOff)

JobStep(j) == Reserve(j) \/ Wake(j) \/ Answer(j)

CommandStep == \/ Begin \/ TheatersFetched \/ PopcornFetched \/ LookUpLink \/ LinkLookedUp
               \/ ReportTheater \/ ReportThrottle \/ Finish

Next == CommandStep \/ MinutePasses \/ \E j \in Jobs : JobStep(j)

Spec == Init /\ [][Next]_vars

(* Goroutines are scheduled, sleeps end, and every request is answered or     *)
(* ended by the 30 s timeout of its client.                                   *)
Fairness == WF_vars(CommandStep) /\ \A j \in Jobs : WF_vars(JobStep(j))

LiveSpec == Spec /\ Fairness

--------------------------------------------------------------------------------
(* Properties.                                                                *)

(* The limiter keeps between its floor and the user's --rate-limit, and on a  *)
(* server without headers never again paces as fast as when it was throttled, *)
(* whatever order concurrent answers come in; only at the floor it may.       *)
PacedBelowCeiling ==
    /\ lim.floor <= lim.rate
    /\ lim.maxRate > 0 => lim.rate <= lim.maxRate
    /\ (~lim.headerDriven /\ lim.ceiling > 0) =>
          (lim.rate = lim.floor \/ 10 * lim.rate <= 9 * lim.ceiling)

(* However the goroutines interleave, any two requests hold slots a full      *)
(* delay apart, that of the fastest pace so far.                              *)
Reserved == {j \in Jobs : jpc[j] \in {"sleep", "send", "end"}}
SlotsSpaced ==
    \A i, j \in Reserved :
        i # j => \/ slot[i] >= slot[j] + Delay(fastest)
                 \/ slot[j] >= slot[i] + Delay(fastest)

(* A finished fan-out accounts for every theater in registry order, as a      *)
(* board or as a failure; a throttled theater makes the command an error and  *)
(* never an empty answer.                                                     *)
Rising(seq) == \A k \in 1 .. Len(seq) - 1 : seq[k] < seq[k + 1]
Ran(seq) == {seq[k] : k \in 1 .. Len(seq)}
NoTheaterDropped ==
    (phase = "done" /\ cmd # "theater") =>
        LET shown == [k \in 1 .. Len(report.boards) |-> report.boards[k].theater]
            With(o) == {i \in Theaters : out[<<"ctc", i>>] = o}
        IN  /\ report.error = (With("limited") # {})
            /\ ~report.error =>
                  /\ Rising(shown) /\ Rising(report.failures)
                  /\ Ran(report.failures) = With("failed")
                  /\ Ran(shown) = {i \in With("ok") : Shown(i)}

(* nowMin is older than the popcorn page, and may be of the day before: two   *)
(* sources that list the same showtimes may be shown as agreeing in part, but *)
(* never as a mismatch; and "verified" is only said of equal lists.           *)
AgreeingSourcesNeverMismatch ==
    \A k \in 1 .. Len(report.boards) :
        LET b == report.boards[k] IN
        \A m \in DOMAIN b.confidence :
            /\ b.theater \in served => b.confidence[m] # "mismatch"
            /\ b.confidence[m] = "verified" =>
                  heard[b.theater][m] = {t \in Listed(b.theater)[m] : t >= nowMin}

(* A command ends: no pace, no throttle and no retry keeps it for ever.       *)
CommandEnds == <>(phase = "done")

(* "A throttle must surface as a hard error, never as an empty result."       *)
ThrottleNeverReadAsNoData ==
    (phase = "done" /\ ~report.error) => \A i \in Theaters : out[<<"popcorn", i>>] # "limited"
=================================================================================
