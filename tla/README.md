# nowshowing-pp-cli in TLA+

TLA+ models of `nowshowing-pp-cli`, a Go command line tool (and MCP server) for
Metro Manila cinema showtimes, with the TLC configurations that check them on
small instances and the TLAPS proofs of what holds on every instance. Paths below
are relative to `src/`.

Every command is a short-lived process. Nothing coordinates two of them except
one SQLite file (the store), a directory of append-only journal segments, an
offset file and a directory of cached HTTP answers. What is hard about the
program is what happens when agents run many such processes at once, kill some,
and upgrade the binary in between.

## 1. Inventory

| Component (source) | State it keeps | Operations | Interacts with | What makes it correct | Modelled in |
|---|---|---|---|---|---|
| Learn candidates (`internal/store/candidates.go`, `store/playbooks.go`, `cli/learnings_candidates.go`, `learn/synthesize.go`) | `learn_candidates` rows (status, sightings, payload), `learning_playbooks` rows | derive, teach (playbook, promote, synthesize), confirm, reject, purge, teach-playbook, amend | flag-correction pass and teach write it, recall reads it | the documented lifecycle per signature; candidates stay quarantined until confirmed; a confirmation writes what it confirmed; no family is starved of its candidates | `Candidates`, `Surfacing` |
| Invocation journal and flag-correction pass (`learn/journal.go`, `learn/derive.go`, `cli/root.go`) | day segments, offset file | append, repair, retention, tail scan, pair, count, store offset | runs after every command; counts into `learn_candidates` | nothing readable is lost or made up; the offset passes nothing uncounted; progress | `FlagDerivation` |
| Store opening and migration (`store/store.go`) | schema, `user_version`, SQLite write lock | open, migrate, stamp, close | every command that touches the store | the stamp tells the truth; never downgraded; opening ends | `SchemaMigration` |
| API client (`client/client.go`) | response cache directory, retry count | get, poll, mutate, query; retry; cache read, write, invalidate | the theater command, MCP tools | no mutation sent twice; no stale read after a mutation; calls end | `HttpClient`, `SourceFetch` |
| Rate limiter (`cliutil/ratelimit.go`) | rate, ceiling, budget, last slot | wait, success, 429, headers | API client and source client | floor <= rate <= cap, below what was throttled; spacing of slots | `RateLimiter` in `SourceFetch` |
| Fan-out, now-playing, cross-checks (`cli/now_playing.go`, `cli/nowshowing_*.go`, `cli/search.go`, `popcorn`) | none | fetch all theaters, fetch the second source, link, report | source client | every theater told of once and in order; a throttle is an error; no spurious mismatch; the command ends | `SourceFetch` |
| Resource store and index (`store/store.go`) | `resources`, `resources_fts` | batch upsert, get | theater command, recall | index agrees with table; batches are atomic | `LearnLoop` |
| Data source (`cli/data_source.go`) | none | live, cached and offline reads | resource store | a reply is stored under an id it is found by | `LearnLoop`, `ResponseShapes` |
| Learnings (`store/learnings.go`) | `search_learnings` | upsert or reinforce, forget | teach, recall | no teaching lost, doubled or revived | `LearnLoop` |
| Recall (`learn/recall.go`, `learn/match.go`, `learn/promote.go`) | none of its own | normalize, promote, match, verdict, order | reads nearly all learn tables | an exact verdict names the same place; what was taught is found | `Recall` in `LearnLoop` |
| Patterns, lookups (`learn/patterns`, `learn/lookups`) | pattern and lookup tables | infer, apply, resolve, promote | recall, teach | a template is inferred only from what it explains | `Recall`, `LearnLoop` |
| Playbook families (`learn/playbooks.go`, `cli/teach_playbook.go`) | `learning_playbooks` by family | write, look up | recall, teach | one row per family | `Candidates`, `LearnLoop` |
| Learn events (`store/events.go`) | capped event log | insert, prune, forget, rates | recall, teach, `learnings stats` | the cap; rates are shares | `LearnEvents` |
| Command helpers (`cli/helpers.go`) | none | `--select`, `--compact`, `--agent` | every command that prints JSON | a selection is a part of the reply | `Projection` |
| MCP server (`mcp`) | none | register tools, call, bound results | API client, CLI as a child process | results fit; arguments keep their places | `McpResults` |
| Teach log, delivery, profiles, configuration, file cache, provider decoding, text helpers | files or none | see `PROJECT.json` | | mostly I/O and formatting | not modelled |

`PROJECT.json` lists all of them with their status, and under `hazards` the places
where the code can go wrong in a way a unit test would hardly reach, each with
the properties that watch it.

## 2. Modules

| Module | What it is |
|---|---|
| `CandidateLifecycle` | abstract: the state machine of one derivation signature, from the head of `candidates.go` |
| `Candidates` | the table, the playbook rows and every command that writes them, statement by statement |
| `MCCandidates`, `MC*.cfg`, `Candidates*.cfg` | instances |
| `CandidatesProofs` | its theorems, refinement of `CandidateLifecycle` included |
| `FlagDerivation`, `MCFlagDerivation` | the journal and the flag-correction pass |
| `FlagDerivationProofs`, `FlagJournalProofs` | its theorems: of the journal and the offset file; of what a pass pairs, counts and passes over |
| `DataInduction` | lemmas: induction over the naturals, least and greatest elements, stated with sets |
| `SchemaMigration`, `MCSchemaMigration`, `SchemaMigrationProofs` | opening the store |
| `HttpClient`, `HttpClientProofs` | retry loop and response cache |
| `McpResults` | pure: tools, command lines and bounded results of the MCP server; checked by the assumptions of `MCHttpClient` |
| `RateLimiter` | pure: the adaptive limiter as a record and operations on it |
| `SourceFetch`, `MCSourceFetch`, `SourceFetchProofs` | the commands that ask the sources, their concurrent requests sharing one `RateLimiter` |
| `Recall` | pure: normalizing, matching, verdicts, templates, order of results |
| `ResponseShapes` | pure: which rows a JSON reply is stored as, under which ids |
| `LearnLoop`, `MCLearnLoop`, `LearnLoopProofs` | the learn tables and the resource cache under concurrent commands; composes `Recall` and `ResponseShapes` |
| `LearnEvents`, `Projection` | pure: the event log with its rates; `--select`, `--compact`, `--agent`; checked by the assumptions of `MCLearnLoop` |
| `Surfacing` | extends `Candidates`: what recall scans and shows of the candidate table |

A pure module has no state: its operators are the functions of the code, and an
MC module states facts about them as assumptions over bounded inputs, which TLC
evaluates before it explores the states of the run.

### Candidates

`cand[s]` is the row with derivation signature `s`, `playbook[f]` the playbook row
of family `f`. A process `p` is at the statement `pc[p]`; `held[p]` is the row it
has read, `arg[p]` what it was asked to record. Each action is one SQLite
statement or one transaction of `store.Store`; `Abort` kills a process, or fails
its statement, anywhere.

| Action | Code |
|---|---|
| `DeriveFlag`, `DeriveRead` | `DeriveCandidate`: the upsert, and the separate read that computes `inserted` |
| `TeachStart`, `Promote*`, `Synth*`, `Refresh` | `teach`: `UpsertPlaybook`, `promoteCandidateOnTeach`, `SynthesizePlaybookCandidate`, `refreshShorterSynthesis` |
| `ConfirmGet`, `ConfirmTx` | `learnings confirm`: `GetCandidate`, then `ConfirmCandidateWithPlaybook` or `...WithPlaybookNote` |
| `RejectGet`, `RejectTx` | `learnings reject` |
| `PurgeExpire`, `PurgeDelete` | `learnings purge`: `ExpireCandidates`, `PurgeCandidates` |
| `TeachPlaybook`, `AmendPlaybook` | `teach-playbook` and the seeding of playbooks (an upsert with or without notes), `playbook amend` |

A payload is reduced to the signature it was derived for, its number of steps and
whether it has notes; a playbook to who wrote it and the corrections its notes
contain. A family is identified with the signature of its playbook candidate,
which the code computes from it. Ids follow SQLite's rule for `INTEGER PRIMARY
KEY` without `AUTOINCREMENT`: the largest in use plus one.

### FlagDerivation

`seg[d]` is the segment file of day `d`: complete lines and a possibly torn tail.
`written` records, in order, the entries that became readable. Bytes are
abstracted to lines, argument shapes to the kind of the entry (`fail`, `fixed`,
`plain`, `recall`), and a session key together with a verb chain to one session.
`Begin`, `Repair`, `Write`, `Cleanup` are `AppendJournalEntry`; `Load`, `List`,
`Read`, `Decide`, `Derive`, `Store` are `DeriveFlagCorrections`. `TornWrite` cuts a
write short, `Fail` ends a process anywhere. A pass reads lines: what does not
parse is in its batch as `Junk`, and `Failure`, `Invokes` and `Recalls` say of what
lines the code does anything. The families it starts from are looked for in the
newest segment first (`Seed`), up to the offset (`Before`).

The clock moves (`Tick`) between any two steps of any command, with two bounds on
how long a command may take. `PassTime` is the most that passes between the moment
a pass lists the segments (`began`) and the moment it has decided: the code reads
the journal first and `time.Now` afterwards, so a correction journaled in between,
just before the window closes, is lost however short that time is. `NothingSkipped`
therefore asks for a correction journaled `PassTime` before the window closes
(`CorrectedInTime`); `NoneComesTooLate` asks for it without that grace and fails
(`FlagLate.cfg`). And unless `Midnight` is TRUE, the day does not end between the
stamp of an entry and its write: a slower appender can lose its segment to the
caps (`FlagCaps.cfg`). Loading the offset, counting, storing, cleaning up and
everything between commands may take any time. `FlagDerivationAssumption` has
`Window <= DayLength` (fifteen minutes, a day): a pass that reads one day's segment,
then loses the next to the caps before it reads that, and goes on with the third
must not find a correction there.

### SchemaMigration

`db` is the committed schema, `work` what the open transaction sees, `lock` the
holder of `BEGIN IMMEDIATE`. A schema is reduced to what the migration
distinguishes: the version stamp, the key of `resources`, how `resources_fts` was
filled, whether `sync_state` has its late columns, and the version whose tables
exist. `Init` is a fresh file or any file an earlier binary can have left
(`Legacy` restricted by `Has`). `Rollback` is the deferred `ROLLBACK`; a killed
process has the same effect. Readers (`OpenReadOnly`) change nothing and are left
out.

### HttpClient

One URL, its cache file, and calls against a server whose state is a version
number. `get`, `poll` and `bypass` are reads through, around (`GetNoCache`) and
without the cache; `post` stands for all mutating verbs and `query` for those
verbs sent through `doRead`. `Serve` is the server: it may carry out a mutation
and lose the answer. `Truncate` and `Fill` are the two halves of `os.WriteFile`.
Today the MCP server registers `GET` endpoints only; the mutating calls are the
client package's API. A cache directory that can't be written at all is left out.

### SourceFetch and RateLimiter

A job is one request: a theater at the first source (`ctc`), a theater at the
second (`popcorn`), a title at IMDb, or the one call of the `theater` command. Its
steps are `Reserve` (the mutex section of `Wait`), `Wake` (the sleep outside it) and
an answer. `now` is the clock of the pacing in ticks, `minute` the wall clock that
decides which showtimes have begun; they are the same clock at two scales and
move independently, which only adds behaviours.

| Action | Code |
|---|---|
| `Begin`, `TheatersFetched`, `PopcornFetched` | the commands: read date and minute, `fetchTheaters`, `fetchPopcornAll` |
| `Reserve`, `Wake` | `AdaptiveLimiter.Wait` |
| `CtcAnswers`, `PopcornAnswers`, `ImdbAnswers`, `SourceRefuses` | `httpx.GetBytes` and the parser after it |
| `ApiAnswers`, `ApiLimited`, `ApiBacksOff` | the loop of `client.do` |
| `LookUpLink`, `LinkLookedUp`, `ReportTheater`, `ReportThrottle`, `Finish` | `resolveIMDb` and the loop that builds the report |

Rates are whole numbers, scaled down and rounded where the code has floats. A
showtime is a minute; a page is the rows of a schedule from the minute it is
served on, or rows of the other source's own. Decoding is reduced to success or
failure.

### LearnLoop, Recall, ResponseShapes

A process is at a step `pc[p]` of the command `loc[p].cmd`. Each action is one
SQLite statement or transaction, or the read that opens one. `current` holds the
processes whose open transaction has the newest snapshot: a commit of anybody
empties it, and `TeachWrite` needs it (`SQLITE_BUSY` otherwise, `TeachFails`).
`Crash` kills a process anywhere.

| Action | Code |
|---|---|
| `Promote`, `RecordMisses`, `Match`, `Measure` | `recall` and the head of each command with a query |
| `TeachRead`, `TeachWrite`, `TeachFails` | `UpsertLearning`, once for each resource |
| `TeachInfer`, `TeachGeneralize`, `PlaybookWrite` | the rest of `teach` |
| `TeachLookup`, `TeachPattern`, `TeachPlaybook`, `AmendPlaybook`, `Forget` | the commands of these names |
| `Ask`, `Store`, `Local` | `resolveRead`, `writeThroughCache` with `UpsertBatch`, `resolveLocal` |

A query is two sets of words, capitalised and plain; a phrase of several words
is one word here. `Tokens` is what the write side makes of a word, `ReadFold` what
the read side does. Left out: tickers, numbers, venue and action words, a
capitalised stop word in first place, the order in which entities are tried
(any of them may be first), warnings, and the window of fifty rows from which
templates are inferred, which the bounds do not fill. The tokens' lookups
during promotion are one step. Candidate promotion and synthesis after a teach
are in `Candidates`.

### Surfacing

`Scanned` is the SELECT of `surfaceCandidates` with its limit, `Surfaced` what recall
keeps of it. Recency and the playbook commands used are quantified over.

## 3. Runs

| Run | Question | Bounds | Why enough |
|---|---|---|---|
| `candidates` | Does any interleaving of two candidate commands, purges included, leave the lifecycle or break the quarantine? In every table they can leave, is a family's own candidate shown to a recall of the family? | 2 processes, 1 flag signature, 1 family, 2 ids, 2 sightings; scans of 1 or 2 rows, 1 shown | every race in this code is between one command and one other; two ids suffice for reuse; a second sighting distinguishes insert from bump; a foreign candidate with more sightings can fill the scan |
| `candidates_quiet` | Is the row a command writes the one it read, and does a confirmation carry its artefact, when nobody purges under it? | the same, 2 step counts | a shorter synthesis needs two lengths |
| `candidates_blessed` (violation) | "the caller always sees exactly what is being blessed" | 2 flag signatures | the id must pass to another row |
| `candidates_note_lost` (violation) | "its correction note already lives in the family playbook" | synthesized notes allowed | |
| `flag_derivation` | Is anything skipped, invented or out of range when two processes append, rotate, crash and derive, and the window closes amid a pass? | 2 processes, 3 entries, 1 fault, `PassTime` 1, 4 clock values, a day per value, caps of 2 lines and 1 day; 2,405,385 states | a pair and one more entry; one crash or torn write; corrections journaled with the grace and without it, passes that list before the window closes and decide after; either cap removes a segment the other would leave |
| `flag_alone` | With recalls and two sessions: the right anchor or rightly none, only the torn entry lost, every correction counted in the end? | 1 process, 2 sessions, 2 families, 4 entries, of them the journals of `Modest`; 1 fault, `PassTime` 0, 4 clock values, caps of 3 lines and 1 day; 337,520 states | two recalls before a failure and its fix, each recall in the batch, before the offset, in an older segment, in one either cap removed, or torn; a failure, its correction and a foreign failure between that holds the batch |
| `flag_twice` (violation) | "every observation is counted exactly once" | 2 processes, 2 entries | |
| `schema` | Does the stamp tell the truth, never go back, and does opening end? | 2 processes of this binary, 1 of the next; every legacy file | two peers and one newer binary are the races the lock is for |
| `http_client` | Is a mutation ever sent twice, a read older than what its caller knows, a call endless? | 1 call after another, 2 retries, 3 changes of state, crashes | concurrent calls only meet in the cache, see section 4 |
| `source_fetch` | Are slots spaced and the pace below what was throttled, is every theater told of, are agreeing sources never a mismatch, does the command end? | 2 theaters, 2 titles, 3 sets of flags, 4 rate limits, 2 retries, 3 minutes, one late answer; 300,039 states | two requests are enough to share a slot, to be throttled out of order and to be reported out of order; a minute before, between and after the two readings of the clock, midnight included |
| `learn_loop` | Is a teaching lost or revived, what was taught found, an exact verdict about another place, the index wrong about the table? | 2 processes, 4 commands out of 13, every index fault; 299,740 states | teach against teach or forget on one row, with a lookup or a recall before and after; a reply stored twice with a fault in between |
| `taught_not_recalled` (violation) | "the two-normalizer symmetry the learn loop's key space depends on" | a teach and a recall | |

Every property of a passing run has a mutant of a mapped definition that breaks
it (`PROJECT.json`, `mutants`); the mutants stand in the modules before the
definitions they replace and are used by nothing else. `CHECK_DEADLOCK FALSE`
everywhere: ids, clock, entries and versions are bounded, and the system may
stop there.

Bounds are constants: `MaxId`, `MaxSteps`, `MaxSightings`; `MaxClock`,
`MaxEntries`, `MaxFaults`, `PassTime`; `MaxVersion`; `MaxNow`, `LastMinute`;
`MaxCommands`. `MaxRetries`, `MaxSize`, `MaxAge`, `Window` and `DayLength` are
scaled-down constants of the code. `Modest` (`flag_alone`) has the journals of at
most two failures and a fix in any order and sessions, and those of at most two
recalls of different families, one failure and a fix in the failure's session;
what is left out with it are more of the same and the other names. `MCView`
(`flag_derivation`) tells no states apart by `mine` and `target` when no append is
under way, where no action reads them.

**Pure functions.** Before its states, `learn_loop` evaluates the assumptions of
`MCLearnLoop`: `RowsOfTheShapes` and `TemplatesInferred` for `ResponseShapes` and
`Recall`; `ReuseIsHitAfterTeach`, `RatesAreShares`, `PruningKeepsTheNewest`,
`ForgottenLeavesNoTrace` and `RecallsCount` for every short event log;
`SelectionIsPart`, `AllMissedLeavesAll`, `PathsAddUp`, `Spellings`,
`CompactKeepsRows` and `PrintedInOrder` for `Projection`. `http_client` evaluates
those of `MCHttpClient` for `McpResults`: `EveryResultFits`, `ListsAreCutNoFurther`,
`RowsAreNeverCut`, `CaptureDecides`, `NoOpsAreTold`, `OfferedReachesCommand`,
`SubtreesAreSkipped`, `PositionalsKeepTheirSlots`, `EmptyArgumentIsLost`. Some state
what the code does where one would expect otherwise; section 4 lists these.

**Fairness.** `FlagDerivation!LiveSpec`: a command that runs goes on until it ends
(weak fairness of its steps; a crash is possible but bounded), people go on
running commands (`Pass`), and time passes (strong fairness of `Tick`, which a pass
that is reading or an append before midnight may delay, but not for ever). Nothing
is assumed of which command comes when, of writes that tear, or of `Fail`.
`MCFlagDerivation!ModestSpec` assumes the same and bounds only which entries are
made. `SchemaMigration!LiveSpec`: a process goes on with what it
has begun and the deadline of `retryOnBusy` passes; SQLite is not assumed to grant
the lock to any particular waiter. `HttpClient!LiveSpec`: `http.Client` has a
timeout and every wait is bounded, so a call goes on. `SourceFetch!LiveSpec`: weak
fairness of the command's steps and of each job's: the Go scheduler runs every
goroutine, a sleep ends, and the client's timeout of 30 s ends a request that
nobody answers. Nothing is assumed of what is answered.

## 4. Disagreements with the code's own words

Checked by a run that expects a violation, and listed under `findings`:

* `candidates_blessed`: a purge between `GetCandidate` and the confirming
  transaction frees the id, a new candidate of the same class gets it, and is
  confirmed with the payload of the old one.
* `candidates_note_lost`: `upsertPlaybookTx` replaces `notes_text`, and with it the
  note of a confirmed correction, which then can be neither rejected nor found.
* `flag_twice`: two commands that end together both count the same batch.
* `taught_not_recalled`: a synonym that folds to a word with a hyphen is split by
  the write side and kept whole by the read side, so the two keys differ and
  a recall of the taught query drops the row.

Kept for reproduction, outside the regular runs (`tlc -config X.cfg M`):

| Configuration | Module | Shows |
|---|---|---|
| `CandidatesInserted.cfg` | `MCCandidates` | `inserted` is wrong when a second process bumps, or purges, between upsert and read (`candidates.go:142`) |
| `CandidatesLengthened.cfg` | `MCCandidates` | two racing refreshes can leave the longer choreography (`synthesize.go:203`) |
| `CandidatesPrinted.cfg` | `MCCandidates` | with JSON output the payload is printed after the write (`learnings_candidates.go:191`) |
| `FlagLate.cfg` | `MCFlagDerivation` | `now` is read after the journal: a correction journaled in between, before the window closes but not `PassTime` before, is skipped (`derive.go:112`, `NoneComesTooLate`) |
| `FlagCaps.cfg` | `MCFlagDerivation` | at midnight the caps can delete the segment a slower appender writes to (`journal.go:320`) |
| `LearnOffline.cfg` | `MCLearnLoop` | a theater read online is stored under the id in its body and looked up offline by the slug of the path (`data_source.go:335`: "covers everything the user has looked up") |
| `LearnTwice.cfg` | `MCLearnLoop` | a query with a word both capitalised and in lower case is not answered by the row it was taught with: the stored side drops both, the query side one (`recall.go:324`) |
| `LearnLeaks.cfg` | `MCLearnLoop` | once its resource is in the cache a learning's verdict is partial, whatever theater it names: no entities are read from a cached row, so neither exact nor mismatch is reached (`match.go:24`) |
| `FetchThrottled.cfg` | `MCSourceFetch` | a throttled second source is shown as one without data (`now_playing.go:201` against `nowshowing_common.go:56`) |
| `HttpStale.cfg` | `MCHttpClient` | a read in flight during a mutation re-fills the emptied cache with its old answer (`client.go:351`) |

Seen while modelling, and not checked by a run of their own:

* `learn/recall.go:217` calls read-side promotion symmetric with the teach side. A
  lookup taught after a teach promotes a word of the query that the stored row
  keeps as a plain one; `StoredEntities` models what the code then does.
* `match.go:24` has exact mean that "every query entity has a match on the resource
  side"; any overlap of the two sets counts.
* `learnings forget` removes rows and leaves the templates inferred from them; each
  `teach` raises the confidence of every template it infers again.
* `--rate-limit` defaults to 0 (`root.go:231`), which switches the pacing off;
  `client.go:118` calls -1 the default.
* `LearnEventStats` is "safe to run concurrently" (`events.go:261`) and reads in
  several statements. The cascade of a forget (`events.go:194`, "leaves no derived
  record behind") also deletes events of other rows of the family, and misses
  those of a recall still under way. `learnings stats` is annotated read-only and
  prunes.
* Each MCP call builds a client, and with it a limiter, of its own, so calls are
  not paced against each other (`tools.go:31`: "Keep them on the same
  polite-client limiter path").
* An MCP error is told by the statuses its text contains, and the text quotes the
  body (`NoOpsAreTold`). The envelope of the `sql` tool has two lists, so its rows
  are never shortened, only previewed (`RowsAreNeverCut`, against `bound.go:100`). A
  truncated child output is said to have 60001 bytes, what was kept of it. A
  quoted empty argument is dropped in splitting (`EmptyArgumentIsLost`), unlike
  in a shell. A flag whose default is true can't be set to false (`FlagIsSet`).
* `--select` with a field of the envelope and one of its items drops the latter
  silently; null below a dotted path becomes `[]`; a misspelt field on an envelope
  with one empty list empties the others without a warning (`PathsAddUp`,
  `Spellings`, `AllMissedLeavesAll`).

## 5. Proofs

TLAPS proves, for every value of the constants that satisfies the named `ASSUME`
of the module:

* **`CandidatesProofs`.** `TypeCorrect` and `UniqueIds`: the invariants the run
  checks, inductive together with the control facts of `ControlOK` (what a command
  needs at each statement it has). `ImplementsLifecycle`: each step of `Candidates`
  is a step or a stutter of `CandidateLifecycle` under
  `status <- CandStatus, sightings <- CandSightings`; the lemma `StepIsCandStep` first reduces
  every command to what it does to one row. `Quarantined` and `SettledFrozen` are
  action properties of the same steps. `QuietRows`, `ConfirmationMaterializes` and
  `QuietConfirmations` assume `~ConcurrentPurge`; their inductive invariant
  `QuietInv` adds that the row held by a command is live, has the id it had, and is
  of the class the command expects. Without the assumption they are false
  (`candidates_blessed`). `NeverStarved` needs of the history only types and unique
  ids, which make the open rows finite; the rest is that both orders, the one of
  the SELECT and the one of the section, rank rows without ties or cycles, so the
  first k of finitely many are k rows in front of all others.
* **`FlagDerivationProofs`.** `OffsetsStayInside` assumes that no append runs over
  midnight (`Midnight = FALSE`; `FlagCaps.cfg` shows what happens otherwise). An
  offset within its segment isn't inductive: a segment the caps delete could come
  back shorter. `OffsetInv` adds that commands write to today's segment only, that
  none is of a later day, that what a pass has loaded or read lies within its
  segment too, and that a segment which is gone is of an earlier day.
  `TornLosesOneEntry`, for one command at a time: `LossInv` counts the entry in
  flight, and says that the segment about to be appended to ends in a newline.
* **`FlagJournalProofs`.** `TypesAreKept`; `NoCorrectionIsSkipped` and `PairsAreSound`,
  with `Midnight = FALSE`, for every `PassTime`; `AnchorsAreSound`, for one command at a
  time besides. The clock moves during every command. The
  properties speak of `written`, all that was ever readable, and a pass sees only
  lines of the segments that are left, of some of them less than is there by now,
  with days missing in between. The inductive invariant `PassInv` relates the two:
  `JournalInv` says that lines and `written` agree, in order, each entry once and on
  the day it was made, that the oldest segments go first, and where torn and
  unwritten entries can be; `BatchInv` that a batch is a part of `written` in order,
  that what is missing between two of its entries is whole days which are gone
  (`BatchIsDense`) or came after the pass had listed (`BatchReachesEnd`), and that
  nothing is missed between the offset the pass started from and what it has
  still to read; `CountInv` that a failure in front of the stored offset, or of one
  that a pass holds, is counted or can't be corrected in time any more
  (`Settles`). What a pass does not find came at `began` or later, and it decides by
  `began + PassTime` (`BeganBefore`): when it meets a failure with its window closed, a
  correction it missed was not journaled `PassTime` before that. `SoleInv`, for the
  anchor, adds that entries are written in the order they are made in, that a pass
  then misses none, and that a recall names a family: so where the scan before the
  offset finds no recall, and the batch has none, none is left.
* **`SchemaMigrationProofs`.** All three invariants and `NeverDowngraded`. The stamp
  alone isn't inductive: `IInv` adds `Progress(p)`, which says for each step inside
  the transaction what the rewrites before it have established of `work`, and that
  nobody else changes `work` or `db` meanwhile.
* **`HttpClientProofs`.** `TypeCorrect` and `NoDoubleWrites` for any number of
  concurrent calls: `CallOK` adds that only an answer after which nothing was done
  leads a mutation back to `send`. `AloneFresh`, for one call at a time: `AloneOK`
  adds that a fresh cache file is at least as new as everything acknowledged or
  read. `NeverBackward` also needs that no call switches the cache off.

* **`LearnLoopProofs`.** `TypesHold` needs `WorkOK`, what a command carries at each
  step. `NothingTaughtIsLost`: the count alone isn't inductive, since a write uses
  what the read before it saw; `Snapshot` adds that a process whose snapshot is
  the newest has seen whether the row is there, and `Counted` that confidence and
  teachings agree. `ExactIsTheSameName` needs no history of the tables: it follows
  from what a verdict is, and that lookups only grow between `Promote` and `Match`.
  `IndexAgrees`: one `UpsertRow` keeps the index in step whatever fails, hence a batch
  of any length does, by induction along `UpsertBatch`; `IndexInv` adds that what is
  stored is a reply of the endpoint, which `LearnAssumption` takes to hold finitely
  many rows. `DueIsRecalled`: `DueInv` adds that a row keeps the names its query had
  when it was inserted (`RowsOK`), that the words left plain in the query of a recall
  resolved to nothing when it was read (`IsRead`), and that both tables are finite.
  Then a due row scores above the floor, is no mismatch, and, since the order of
  the hits is transitive (scores are fractions, compared by cross multiplication),
  can only be pushed out by `Limit` others (`TopIsFull`). `RecallAssumption` takes the
  vocabulary to be finite; nothing is assumed of its size.
* **`SourceFetchProofs`.** The inductive invariant has a part for each property.
  `Paced`: the limiter is sound and no faster than `fastest`. `Slots`: every slot
  reserved lies at or before the last one. `Stages`: which requests have ended in
  which phase. `Accounted`: the report tells of the theaters passed so far, in
  order. `Agreed`: a page that agrees lists exactly the showtimes not begun when it
  was served, which is no earlier than the minute the command read. `AnswerKinds`
  reduces the answers of all sources to one form, so each part is proved once.
  `ThrottledIsSlower` and `SlotsAreSpaced` hold for any number of requests in any
  order, `EveryTheaterIsTold` and `AgreementIsSeen` for any theaters and schedules.

`DataInduction` has what the proofs above need of induction. The library's rules
take the predicate as a parameter, which the provers can't instantiate; stated
with a set instead ("a set that has 0, and with n also n + 1, has every natural
number") they can. A function defined by recursion is unfolded by first showing,
by such an induction, that a function with that equation exists (`BatchExists`).
No module declares a RECURSIVE operator.

Every invariant and every property of single steps that a passing run checks is
so proved. Two of them proofs have changed:

* `AnchorSound` was stated along `written`, which a recall on an unterminated last
  line need not be in although the scan finds it, and failed for journals longer
  than those of the run. It is now stated in the order the entries were made in.
* `UndisturbedIsRecalled` took every query; a word that is a name in one place and
  not in another is a counterexample (`LearnTwice.cfg`), which the queries of the
  run don't have. `Due` now leaves such queries out.

Only model-checked: liveness (`EveryCorrectionCounted`, `OpeningEnds`, `CallsEnd`,
`CommandEnds`), since fairness and ENABLED are out of the prover's reach, and the
assumptions about pure functions, most of which compare two ways to compute one
thing. `OffsetsStayInside`, `NoCorrectionIsSkipped`, `PairsAreSound` and
`AnchorsAreSound` say nothing of appends that run over midnight, nor the theorems
under `~ConcurrentPurge` of purges beside other commands: there the caps delete
segments under an appender, and ids pass to other rows (section 4).

## 6. Not modelled

* No caller outside tests: `paginatedGet`, `resolvePaginatedRead`,
  `ReconcilePartition`, `SaveSyncState`, `writeMutationResponseToStore`,
  `RefreshFromSynced`, `LookupPlaybookByFamily`, `Store.Recall`, `Store.Apply`,
  the preseed scanners (`learn.Run`), `FanoutRun`, `cliutil.Backoff`, the paging cursors of MCP
  results. The hazards among them say so.
* Decoding of the sources' pages, tables, CSV, colours, diagnostics, reports of
  `doctor`: formatting, no state that a second actor sees.
* Delivery, feedback, profiles, configuration, the teach log, the file cache:
  files written by one command at a time.
* The lexer before the MCP `sql` tool, and the masking of credentials: text
  character by character.
* `OpenReadOnly`, which changes nothing; `SetMaxOpenConns(2)`, of which a recall
  never needs a third; the seed marker of the playbooks, read and written once
  at start-up.

What would add most next: the facts about `Projection`, `McpResults` and
`ResponseShapes` that TLC evaluates over bounded inputs as theorems over all; an
instance of `LearnLoop` with the window of fifty rows scaled down to two.
