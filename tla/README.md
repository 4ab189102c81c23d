# JobPipeline in TLA+

JobPipeline (this repository) turns a job posting into a tailored resume: a user
registers a posting, a background worker reads it, matches it with the user's
profile, asks an LLM for text and stores the result; pages follow the progress
live. Around it, sweeps of job sites fill a catalogue, a list ranks it for each
user, and an automatic selection has an LLM choose from it. This directory holds
the TLA+ specifications of these parts, the TLC instances that check them and TLAPS
proofs about them.

Contents: [parts of the system](#parts-of-the-system) ·
[what is modelled](#what-is-modelled) · [the runs](#the-runs) ·
[fairness](#fairness) · [proofs](#proofs) ·
[where code and documentation part](#where-code-and-documentation-part) ·
[what is not modelled](#what-is-not-modelled) · [next](#next) ·
[how to run it](#how-to-run-it)

## Parts of the system

| Part | Modules | State | Hard behaviour | Correct when |
|---|---|---|---|---|
| **Resume pipeline**: `internal/worker`, `handler/job.go`, `worker.sql`, `jobs.sql` | `JobPipeline`, `JobLifecycle`, `PipelineLifecycle` | `jobs` and `generated_resumes` rows; the pause key and stored LLM answers in Redis; one batch of row snapshots, one goroutine per job under a semaphore | requests between any two steps; every call may fail; restart; rate limits; snapshots that age | one run per job; no row abandoned; completed means there is a resume, of the kind asked for; pending jobs are taken |
| **Profile and cache**: `handler/users.go`, `repository/cache`, `worker/match_results.go`, `profile.js` | `ProfileCache`, `ProfileRows` | profile tables; one Redis key per topic, 24 h | fill overlapping an edit; failed deletion; interrupted request; pages of a list that changes | a cached topic is the stored one, or has a known reason not to be; a walk through a list shows it all |
| **Live updates**: `internal/sse`, `StreamEvents`, `jobs.js`, `job_detail.js` | `LiveUpdates` | channels by user (buffer 8), SSE connections, what each page shows | full buffers; map walked outside its lock; reconnection gap; list answers racing events | a page ends up showing the status of the row |
| **AI service and settings**: `services`, `aiconfig/store.go`, `aisettings` | `AiService` | provider rows; cache of chains (30 s); where each call is in its chain | every mixture of failures; fill outside the lock racing a save; two saves at once | a rate limit is reported only if all providers are limited; a saved chain is used, a key is kept |
| **Discovery**: `internal/discovery/service.go`, `discovery.sql` | `DiscoveryRuns`, `Catalogue` | scheduler, current sweep, per-user sweeps, keyword marks, catalogue | manual against scheduled sweeps, panics, cancelled contexts, settings saved meanwhile | one full sweep at a time; a failed keyword is released; the scheduler follows its settings |
| **Descobrir, Vagas, job fit**: `handler/discovery.go`, `handler/job.go`, `internal/jobfit` | `JobLists` | none but what is asked | filters, facets, grouping and pages computed apart | nothing is lost, numbers foretell results, to lack something never helps |
| **Automatic selection**: `handler/auto_select*.go`, `autoselect.sql` | `AutoSelect`, `AutoRules` | runs, picks, settings, goroutines | check of the day's allowance against concurrent runs; expired run that goes on; crash between two inserts | allowance kept but for races; one running run; what was chosen is counted |
| **Profile import**: `internal/profileimport`, `import.js` | `ProfileImport`, `ImportReview` | lock, quota, state keys in Redis; history rows; draft; profile | cancel against finish; lock expiry; failed Expire; profile edited during a review | one import per user; a cancelled import stays cancelled; the profile gets what was reviewed |
| **Resume assembly**: `internal/resume`, `worker/resume_source.go` | `ResumeText` | the answer in hand | several spellings of one technology; a correction that breaks another rule | nothing the profile does not support |
| **PDF service**: `handler/pdf_service.go`, `gerar_pdf.py` | `PdfService` | one Python process, its pipes | time-out with an answer in the pipe; failed restart | an answer belongs to its request |
| **Application board**: `handler/application.go` | `Board` | events and stage of a job | concurrent changes; delete meanwhile | the stage is the last event's |
| **Alerts**: `handler/discovery_alerts.go`, `alerts.js` | `Catalogue` | `seen_at`, dismissals, what the bell shows | posts that enter, change, group or go while the bell is open | nothing is marked as seen that was not shown |
| **Login and limits**: `lockout`, `security`, `middleware` | | counters in Redis and memory | | |
| **The rest**: scrapers, routes, admin, configuration, scripts, rendering | | none of interest | | |

How they interact: handlers write `jobs` and publish to the bus; the worker polls
`jobs`, reads the profile through the cache, calls the AI service (whose chain
comes from the AI settings), writes `jobs` and `generated_resumes` and publishes;
pages listen to the bus and read the tables over HTTP. Automatic selection and
Discovery create `jobs` rows; an applied import writes the profile and invalidates
the cache. Everything runs in one process, next to one Postgres and one Redis, and
its parts meet through rows and keys: `JobPipeline` has what requests, worker and
provider do to one row, `LiveUpdates` what the pages see of it, and the modules of
other parts keep of `jobs` and the profile what they read and write there.

`PROJECT.json` lists, for each part, its sources and modules, and under `hazards`
each place where this can go wrong with the property that watches it.

## What is modelled

### `JobPipeline`

| Variable | Code |
|---|---|
| `row[j]` | the `jobs` row: `status`, `source_description`, `language`, `mode`, `fresh_generation`, and whether `updated_at` is older than the recovery cutoff (`stale`); `"absent"` before INSERT and after DELETE |
| `resume[j]` | the newest `generated_resumes` row: the request it was made from, and whether the answer came from the cache |
| `paused`, `genCache` | the Redis keys `worker:llm_rate_limited` and `user:<id>:generation:<hash>` |
| `phase`, `queue` | where `Start`/`processarPendentes` stands, and the selected rows not yet handed to a goroutine |
| `run[s]` | the goroutine holding place `s` of the semaphore: the next call it makes, its snapshot, and whether its answer was cached |
| `announcing` | `RetryJobProcessing` requests between their UPDATE and their Publish |
| `shown[j]` | status in the last event published about the job |

One action per call that Postgres, Redis or the provider sees, in the order of
`processarJob`: `BeginRun` (status `processing`), `EnterScrapingBasic`,
`EnterScrapingNl`, `Scraped`, `SaveScrape`, `CheckMatch`, `ReuseGeneration` or
`Generate`, `InsertResume`, `CompleteJob`; and the error paths `BeginFails`,
`ReadingFails`, `GenerateRefused`, `FailJob`, `SetRateLimit`, `Requeue`. The loop is
`Tick` (recovery), `SkipWhilePaused` / `SelectBatch` / `SelectFails`, `Spawn`,
`EndBatch` (`wg.Wait`). Handlers: `CreateJob`, `UpdateFullJob`,
`RetryJobProcessing` with `AnnounceRetry`, `DeleteJob`. The surroundings:
`PauseEnds`, `GrowStale`, `Restart`.

Abstractions, and why they are safe for the properties:
* a posting's text, language and mode are members of small sets, and the hash of
  the prompts is the record of those inputs (`Key`): equal inputs, equal key. The
  profile does not enter the key; the model therefore reuses an answer at least as
  often as the code, which can only make `CompletedServesRequest` harder.
* the profile is read in parallel with the scraping but writes nothing; its
  outcome is looked at after `WorkerUpdateJob`, and is chosen there (`CheckMatch`).
* writes of quality and analysis in `completeJob` touch nothing a property reads.
* rows of deleted accounts are not selected; accounts are not modelled.
* `Fault` counts failed calls and restarts up to `MaxFaults`. After a shutdown
  signal the context of every goroutine is cancelled and `run()` does not wait for
  them, so a deploy is a `Restart` too.

`RetryFrom` says in which statuses some client still sends a retry. The handler has
no guard (`RetryFrom = JobStatus`); the pages offer *Refazer* for settled jobs only
(`RetryFrom = Settled`).

### `ProfileCache`

What a topic holds is the number of the write that put it there. `db[t]` is the
committed version, `cache[t]` the version under `user:<id>:<t>`, `editor[e]` a
request between its write and its deletions (`plan[pos]` is the next topic),
`reader[r]` a goroutine between its `Get`, `SELECT` and `Set`. `Write` is one
statement, or the transaction of an import, whose plan is all topics in the order
`Apply` deletes them. `Invalidate` may fail (it is logged and the request goes on)
and `EditInterrupted` stops a request in between. `GetMiss` covers a missing key
and a Redis that does not answer.

### `JobLifecycle`, `PipelineLifecycle`

`JobLifecycle` is what the user of a job may rely on, without snapshots,
goroutines, caches or failures: a job is submitted, taken up, given back, delivered
to, completed or failed, retried, deleted. Only delivered work that answers the
request may be completed, a result is delivered to a job being worked on only, and
settled jobs are moved by their user alone. Jobs live independently: a step may move
several (the recovery does), each by an action of its own. `PipelineLifecycle` maps
the variables of `JobPipeline` to it: the three in-flight statuses are `"working"`,
and of a resume only its mode and whether it was reused remain.

### `LiveUpdates`

One user, the bus, the streams and one page, which is the list of jobs or the page
of one job (`View`). A status is the number of the write of the row it comes from,
so "outdated" is a comparison of numbers.

| Variable | Code |
|---|---|
| `row[j]`, `writes` | `jobs.status`, and how many writes there were |
| `map`, `home[c]` | the inner map at `clients[userID]`, named by the stream that created it, and the map the channel of stream `c` is in |
| `stream[c]`, `buf[c]` | where `StreamEvents` of `c` stands; its channel |
| `pub[p]` | a `Publish`: before the lookup, walking, about to send to one channel |
| `mine`, `shown`, `loads`, `newest`, `timer` | the page: its stream, its badges, requests in flight, `_jd.seq`, the pending reload |
| `got`, `cause` | history: the newest status the page was told; why a badge may be outdated |

`Publish` releases the lock after the lookup, so the walk is its own sequence of
steps and meets streams that come and go: a channel closed under it panics
(`SendPanics`: a handler recovers, the worker's goroutine takes the process down),
and a map written under it is a data race, whose outcome in a Go build may be
`concurrent map iteration and map write` (`MapRace`). Those are steps of the model,
with what they lose.

`cause[j]` names the known ways a badge falls behind: a write without an event
(`silent`), an event without its write (`unwritten`), nobody subscribed yet or any
more (`missed`), a panic, a full channel (`dropped`), a broken stream, events
overtaking each other (`reordered`), an old answer rendered last (`late`), a failed
load. `OutdatedHasACause` says that there is no other: with, say, an `Unsubscribe`
that removes more than its own channel, badges fall behind without any of them.

### `ProfileImport`

One user and her uploads, numbered. `lock`, `quota`, `lasting` (the quota key has no
lifetime), `state[i]` and `stale[i]` are what Redis holds, `history[i]` the status in
`profile_imports`. Three actors touch an import and `at[a][i]` is the next call each
makes: `"run"` (the upload request, then its goroutine), `"cancel"` and `"poll"` (the
page that asks for the state). `Store.release` is two calls, `ReadLock` and
`DropLock`, shared by the three. A failed call of `Begin` may have taken effect.
`RunStep`, `CancelStep` and `PollStep` follow `Start`/`Begin`/`run`/`Finish`,
`Service.Cancel` and `Store.Get`; `DropDraft` is the `Delete` after an Apply.
Lifetimes are ordered as the constants of the code are (`aiTimeout` < `lockTTL` <
`StaleAfter` < `stateTTL`), and their margins are taken to be enough for the few
calls that follow a reading: nothing of a live import expires. Each import is
cancelled at most once.

### `AiService`

`table` is `ai_providers`, `cache[p]` the chain of a purpose in `Store.cache`. A call
looks up its chain (`AnswerFromCache`, or `ReadTable` and later `FillCache`, since
`Providers` reads outside its lock), falls back on another purpose or on the
environment if it is empty (`Resolve`; of a chain met second only the models that are
`NewOnes`), and walks it: `Answers`, `RateLimited`,
`NetworkFails`, `ProviderFails`, `Cancel` are the outcomes of one attempt of
`sendRequest`, `Over` and `GivesUp` the ends of `withFallback`. A save is `ReadKeys`,
`DeleteChains`, `Commit` or `Rollback`, and an `Invalidate` for each purpose. The rows a
`DELETE` of one transaction saw are kept in `seen`: at READ COMMITTED two saves may
leave rows of both. `late` and `overtaken` are history.

### `DiscoveryRuns`

`sched`, `plan` and `wake` are `Service.Run` with its timer and its channel of one
signal; `full` is `fullRunning`, `busy` is `userRunning`, `fetched` the marks of the last
hour. `pc[r]` is where a complete sweep, a selection of the panel or a refresh of a
user is: it may not find the flag free (`GiveUp`), load its settings, claim keyword by
keyword, search (`SearchEnds`, `SearchFails`, `OutOfTime`), close its row and tell the
scheduler. `last` counts the complete sweeps recorded, from which `nextWait` plans.

### `Catalogue`

What one user sees of `discovered_jobs`: posts enter, are refreshed, fall out of
`ActiveFor` and are deleted; `RankedJobs` keeps one post per vacancy (`Key`),
`NewAlerts` the ones newer than the mark; the bell of the browser loads, opens its
panel and asks for the mark. Times are kept as what is compared with them.

### `AutoSelect`, `AutoRules`

`AutoSelect` is the life of a click: counted (`AutoSelectUsedSince`), offered (its
candidates without `AutoSelectExcludedUrls`), inserted as a run (the unique index
allows one running run), read in batches by its goroutine, put into the pipeline one
job at a time, recorded one pick at a time, finished. Around it `AutoSelectExpireStale`,
failed statements, the ten minutes of its context (`late`), panics, restarts, midnight,
the panel's settings, and the user who adds and deletes jobs by hand.

`AutoRules` is what is decided without the AI, one question per behaviour: the career
in months, the verdicts kept of an answer (`ParseVerdicts`, `VerifyMissing`,
`ApplyRules`), the candidates of a ranked list (`Seen`, `Gather`, `Candidates`), the
choice. Its only recursive functions are the two loops of the code that carry a state
from one element to the next: `Merged` over periods and `Seen` over the ranked list.

### `ImportReview`

From what the AI understood of a file (`Documents`) to the rows of the profile:
`Normalize`, the months of use and the levels they suggest, what `MarkExisting` finds,
the review (`Complete`, `Request`), and the transaction of `Apply` step by step, while
the user adds and deletes skills and edits fields elsewhere and a second page reviews
another file. `MCImport` extends it and `ProfileImport` and puts them side by side.

### `ProfileRows`, `Board`, `PdfService`

`ProfileRows` has one operator per statement of the profile and one action per handler;
a row keeps its place in the order of its list. A behaviour is about one section
(`tab`) and a page that walks through it. `Board` is one job with its events:
`tx[r]` is a request between `BEGIN`, the lock of the row, its statements and `COMMIT`,
then the two reads of its answer. `PdfService` keeps the handles of the service apart
from the process behind them, with lines in both pipes that do not say whose they are,
and goroutines that go on scanning after their request has expired.

### `JobLists`, `ResumeText`

`JobLists` answers one question per behaviour: the fit of a stack, a page of
Descobrir with its facets, a page of Vagas by fit, the keywords of a job. A term is the
sequence of its words, a text the set of terms it cites; lists are said by what their
places hold, as in `AutoRules`. `ResumeText` follows one answer
of the AI through the correction of its summary, the cut of its sentences, and
`Assemble`. A text is the set of names and numbers it mentions, and a name may be
written in several ways. The loop over the groups of skills, with its two sets of what
was seen and shown, is stated by what it lets through: the first of a technology in its
group (`Fresh`) whose name is not in the resume yet (`Shows`). The map of translations
is read in an unknown order (`Orders`), kept with the resume as `read` so that a
property can tell which of two translations of one name stayed.

### Helper modules

`Orderings` is what sorting, picking and cutting make of a list, and the loop that
merges periods, which the code has three times; `ImportReview`, `AutoRules`,
`JobLists` and `ResumeText` build on it. `MCPipeline`, `MCLifecycle`, `MCAutoSelect`, `MCAiService` and `MCDiscovery` only give
the constants values and define symmetry; `LiveUpdates` and `ProfileImport`
(`import_quota`) are instantiated by their configurations alone. `Desk` puts the cache,
the bell, the board and the PDFs side by side; `MCDesk` extends it, `AutoRules`,
`JobLists` and `ResumeText`, and adds the values. The parts of `MCDesk` and of
`MCImport` do not interact: a behaviour is about one of them (`part`) and the others
stay as they begin. `MCTexts` has the inputs of `JobLists` and `ResumeText`. `JobPipelineProofs`, `LiveUpdatesProofs`,
`DeskProofs`, `ProfileImportProofs`, `AutoSelectProofs`, `AiServiceProofs`,
`DiscoveryRunsProofs` and `OrderingsProofs` hold the theorems. Operators commented "Variant" are plausible
mistakes in the definition that follows them; no run uses them, and each shows that
the property named beside it in `PROJECT.json` can fail.

## The runs

| Run | Checks | Instance |
|---|---|---|
| `pipeline_api` | `TypeOK`, `OneRunPerJob`, `InFlightIsOwned`, `CompletedHasResume` | two jobs, two slots, a retry in any status, one failure; 1.0 M states |
| `pipeline_pages` | `CompletedServesRequest`, `SettledStaysSettled`, `KeepsLifecycle` (`JobPipeline` implements `JobLifecycle`) | retries of settled jobs; one job, two slots, two languages, two modes, two requests, two failures; 0.96 M states |
| `pipeline_live` | `ProcessingIsRecovered`, `PendingIsTaken` | two jobs, batch of one, so that jobs compete for its head; 81 k states |
| `pipeline_stranded` | `RunningEnds`, which the code does not keep (below) | one job |
| `live_list` | `OutdatedHasACause` | the list; worker and handler publishing, two streams, channel of one, two loads, three writes, one fault; 2.5 M states |
| `live_detail` | `ToldIsShown`, `PageSettles` | the page of a job, one publisher; 385 k states |
| `import` | `TurnIsHeld`, `CancelledStaysGone`, `CancelIsRecorded`, `ProcessingEnds`; `ReviewIsKept` | two uploads, quota of one, cancellations, one fault; two pages with two files and three changes by hand; 173 k states |
| `import_quota` | `QuotaReturns`, which the code does not keep | two uploads, one fault |
| `autoselect` | `OneWorks`, `ExcessIsRaced`, `UncountedHasACause`, `RepeatIsRaced`, `EndedPutsNothing` | two clicks, two jobs, two days, allowances of one and two, batches of one, one fault; 1.97 M states |
| `ai` | `StaleChainHasACause`, `ChainOfOneSave`, `PauseMeansLimited`, `KeyIsKept`, `CallEnds` | a call for each purpose that falls back differently, two saves of two forms, two attempts; 311 k states |
| `discovery` | `PlanFollows`, `OneSweep`, `SkippedWasSearched`, `SweepsEnd` | the scheduler, one click, one user, one keyword, two sweeps, one fault; 482 k states |
| `desk` | `StaleHasACause`, `CacheConverges` | two topics, a reader, two editors, three writes, two faults |
| | `SeenWasShown` | five posts of three vacancies, two that enter |
| | `ListsAgree` | each of seven sections, two users, two rows, pages of one and two |
| | `BoardAgrees` | two requests, three marks, one failure |
| | `PathHasItsFile` | three requests, two faults |
| | `DecisionsAreRight` | up to three experiences, 0 to 2 central and 0 to 4 minor gaps, lists of four jobs |
| | `AnswersAreRight` | stacks of up to three of six items, three posts of seven kinds, pages of up to three jobs |
| | `ResumeIsSupported` | three experiences, two translations, summaries of two sentences |
| | all parts together | 799 k states |

Bounds, and why they are enough. Two jobs and two slots give both kinds of
interference the code can have: two goroutines on different jobs, and a request on a
job of the batch. One failure reaches every error path of a run, and a restart at
every step. A retry while a run is on, one after it, and an edit need
`MaxRequests` of one or two. For the cache, two topics tell a single edit from an
import that touches several, and three writes let an old value come back after a newer
one. For live updates, a channel of one is full after one event, a second stream is
one that opens, or leaves, beside the first, and three writes give an old, a middle and
a new status to mix up. For imports, a second upload is the one whose turn or quota the
first can spoil, and a quota of one is exhausted by it; two pages are enough for one to
save what the other has read. For the selection, two clicks overlap or follow each
other, and two jobs are one more than either may choose. For the chains, a purpose that
falls back on another and one that falls back on the environment are the two kinds,
two saves the fewest that mix. One keyword is enough for a refresh and a sweep to meet
at, and two sweeps make a plan old. For the PDFs, the third request is one that meets
what the first two left behind. The inputs of the pure parts have a value on each
side of every comparison the code makes. What the theorems below cover is proved
without these bounds.

Deadlock is checked wherever the system never stops: a tick, an expiry or a reload is
always possible. A user has a bounded number of uploads, calls and saves come to an
end, and a question is answered once, so `import`, `import_quota`, `ai` and `desk` may
end.

## Fairness

`JobPipeline!Fairness` is what `Start` and the Go scheduler give: the ticker fires,
`wg.Wait` returns when all goroutines did, a goroutine that can make its next call
makes it, a key with a lifetime expires and a row left alone grows older. Two strong
conditions say that the provider, asked again and again, answers some time
(`Scraped(s, "save")` and `Generate`): rate limits have windows, and a page that can
never be read or a provider that always fails settles the job as `error` instead.
Nothing is assumed of users. `ProfileCache!Fairness` is expiry plus progress of
requests and goroutines already begun. `LiveUpdates!Fairness` makes publications,
requests, the end of streams, timers and reconnection go on; it asks nothing of a page
that is slow to take its events, of users or of those who write rows. Hence
`PageSettles` excepts a page that stops reading and a user who reloads for ever. `ProfileImport!Fairness` is progress of code
already running, of a waiting page's polls, and of time; the half hour after which a
state vanishes is left out, so `ProcessingEnds` does not rest on it.
`AiService!FairSpec` is progress of each call that was begun, and `DiscoveryRuns!FairSpec`
of each sweep and refresh; the scheduler's own steps, timers and users are under no
fairness, and `CallEnds` and `SweepsEnd` do not need any.

## Proofs

`tlapm` checks every theorem for all values of the constants under
the named assumptions of its module: numbers are numbers, plans are not empty, the
value for a missing key is not a version, an allowance of a run is not above that of
its day, runners of different kinds are different, no request has the name that stands
for a free lock, posts have dates that can be compared, the URLs a run can be offered
are finitely many, the rows of `ai_providers` have one id each (its primary key) and are
finitely many, as are the inputs of a form, calls are made for the purposes of
`services`, pages of the walk have a positive size, the catalogue of technologies is
finite and none of its names is blank, posts have no levels but the three of
`discovery/seniority.go`, jobs on a list have different ids, the lists in a document, in
a table and in a reply of the AI are finite sequences, lower case changes nothing in
lower case, and dates, scores, sizes and limits are numbers. The last ones are what
decoding JSON and rows into slices and integers gives.

`JobPipelineProofs`:
* `TypeCorrect`: `TypeOK` is inductive.
* `OneRunPerJobHolds`. The property is not inductive: a retry makes a row pending
  while its goroutine runs, and a second `SELECT` would pick it up. What prevents it
  is the shape of the loop. `OneRunInv` adds `LoopShape` (outside `"batch"` no
  snapshot waits and no goroutine lives: `EndBatch` waits for both) and
  `DistinctIds` (a batch has one snapshot per job). The step lemmas split `Next` into
  what a goroutine does to its own slot and what leaves slots and queue alone.
* `InFlightIsOwnedHolds`: as long as `faults = 0`, each step of a goroutine that
  releases its slot writes a settled or pending status in the same step.
* `CompletedHasResumeHolds`: `CompletedInv` adds that a goroutine about to complete
  has stored a resume for a row that exists or was deleted (`DoneHasResume`), and
  that a row not yet created has no goroutine (`KnownIds`).
* `CompletedServesRequestHolds`, under `RetryFrom \subseteq Settled`: `ServeInv`
  says that a live snapshot agrees with the row it was copied from in mode and
  freshness. With arbitrary clients this is false and so is the property.
* `SettledStaysSettledHolds`, under the same assumption, from the same invariant.

* Under that assumption, `PipelineKeepsLifecycle`: the refinement. `BusyInv` adds to `ServeInv` what decides
  which abstract action a step is: a row is pending, or deleted, until its goroutine
  begins and in flight from then on. `Life*` lemmas say which changes of a row and
  its resume are which action of `JobLifecycle`; `LifeRun` and `LifeOutside` show
  that each step of a goroutine, or of anything else, makes one of those changes to
  each job.

`OrderingsProofs`, on which the theorems about lists rest. Induction over data is out of
the prover's reach; `LeastNumber` (a set of numbers that is not empty has a least one)
stands for it: the first index at which a loop would break its invariant has a
predecessor at which it holds.
* `InOrderSorts`: what is sorted along an order has each element once and in its place.
  The rank of an element (how many come before it) is injective, so it hits every place.
  `PickedInOrder` says the same of what is picked out of a list, `RecursionExists` that
  a loop along `1..n` has a value at each step.
* `MergedCounts`: the loop over sorted periods counts what they cover. `LoopInv` says
  that it holds the last stretch covered and has counted the ones before it.

`LiveUpdatesProofs`:
* `TypeCorrect`: `TypeOK`; no channel ever holds more than `Buffer` events.
* `ToldIsShownHolds`, for the page of a job (`View = "detail"`; the list has no such
  promise). A late answer is rendered only if it is of the load asked for last, so
  what has to be followed is the dates: `Dated` says that no answer is newer than the
  row and none of the present load older than what was known when it was asked for,
  and `Told` that whatever the page has heard of and does not show is in the answer of
  that load or will be asked for.
* `OutdatedHasACauseHolds`. An outdated page is not wrong while something on its way
  repairs it. `Explained` names all there is: an event in the channel, a publication
  that has not come to the stream of the page (`BusBrings`), a load asked for or due
  (`LoadBrings`), or one of the causes. The walk goes over the live map, outside the
  lock, so `Wired` has to say that an open stream is in its user's map, and that a
  publication still has to visit every stream that was open when it took the map and is
  open yet. The lemmas are one per way in which an explanation can go: a walk that
  ends, a channel that is full or closed, an answer that is dropped.

`DeskProofs`:
* `CacheTypeCorrect`.
* `StaleHasACauseHolds`: a write owes the deletion of every topic it touched
  (`Owed`), `Invalidate` pays for the topic it stands at and no other
  (`OwedAfterInvalidate`), and only a fault, or a `Set` of something else than the
  stored version, leaves an outdated topic that nobody owes.
* `PathHasItsFileHolds`: nothing in an answer says whose it is. `PdfInv` says that at
  most one line is between the pipes and the goroutines that scan, and that it is the
  line of the request that reads: sent, served, lost with the process, or scanned. A
  request that gives up starts the process again before it lets the next one in.
* `BoardAgreesHolds`: `BoardLock` (who changes the history holds the row) makes the
  stage computed before the commit the one of the history committed. That a stage
  shown was marked needs the marks to have a last one; rather than count them,
  `HaveLast` says so of every set of marks and is kept by one more mark with a moment
  of creation of its own (`HaveLastOfMore`).
* `SeenWasShownHolds`: what the list had to have was in it (`ExpectedIsListed`: posts
  that `rankedJobs` groups are of one vacancy), and what becomes new later is a row
  with a new id.
* `ListsAgreeHolds`: the pages of a walk are cut from readings of a list that has not
  changed meanwhile, and without ties there is only one such reading (`ListedIsOne`), so
  the spots of the pages are its places from the first to the last (`RowsInv`,
  `WalkIsWhole`). The cached section has every row because each handler that changes
  rows deletes it before it answers (`CacheHasAll`).
* `ResumeIsSupportedHolds`, about `ResumeText`: the invariant says that from the second
  answer on no sentence of the summary breaks a rule when it is read without the names
  that have a dot (`SaysNoWrong`), and that what is stored is made of that answer for
  some order of the translations. What a bullet can wrongly name is refused unless it is
  a short name: of each technology that an experience does not show, the first spelling
  is listed with its variations (`FirstForeign`, `NoForeignWord`). Of skills with equal
  names the first is shown, so a technology that is dropped has a spelling whose name is
  on the page (`FirstIsFresh`, `NameIsShown`, `NoSkillIsLost`). The years are those of
  the months worked (`YearsAreWorked`, from `MergedCounts`). Assumed: lower case changes
  nothing in lower case, and words equal but for the case are both short names, or both
  have a dot, or neither.

`ProfileImportProofs`:
* `TypeCorrect`: a reading writes its outcome into its state, so the invariant needs
  what `outcome` may be at each place of the goroutine (`OutcomeKnown`).
* `CancelledStaysGoneHolds`: `GoneShape` adds that only an import whose id is out can
  be cancelled. From then on every write is `SET XX`, and the only plain `SET`
  (`PutState`) comes before the id is out.
* `TurnIsHeldHolds`: `TurnShape` extends the claim from a reading to the whole way
  from `SETNX` to `DEL`. A poll could take the turn away between the two calls of its
  release; `OrphanShape` says that it never gets there: what is recognised as an
  orphan is no longer running and its turn has expired, and no import takes a turn
  twice.
* `CancelIsRecordedHolds`: `MarkShape` follows the row of the history from the
  cancellation to the end of both goroutines. While Redis and the database answer, the
  row is there before a reading can have an outcome, and once the cancellation has
  marked it, nothing but an error is written over the mark.
* `ReviewIsKeptHolds`: `ReviewInv` follows a review from the draft to the commit. Its
  rows are the ones the page was shown (`DraftsRight`), what the page sends is a list
  of the rows kept and completed (`RequestsRight`), the transaction has read the
  profile it compares with (`ReadAsWanted`), and a row that is taken for the user's own
  but is not there any more was deleted meanwhile (`TakenByDeleted`). The months of use
  that suggest a level are counted exactly (`UsageCounts`, from `MergedCounts`).

`AutoSelectProofs`:
* `TypeCorrect`, with the finiteness of the picks that the day's count needs.
* `OneWorksHolds`: `OneRow` is the unique index on running rows; `TimelyRuns` says that
  a goroutine in its ten minutes has a row that is still running and not stale, since
  expiry needs fifteen. Two goroutines in time would be two running rows.
* `EndedPutsNothingHolds`: from the same invariant. `put` grows in the step of a
  goroutine in its ten minutes, whose row is not over.
* `UncountedHasACauseHolds`: `Accounted` follows each job that was put, from the pick
  still to be inserted (`Waiting`: what is chosen is to be recorded) to the pick.
* `ExcessIsRacedHolds`, `RepeatIsRacedHolds`: `RaceInv`. A click that was not raced has
  still the right to insert what it chose: `Budget` adds to the picks of the day what
  such a click owes and stays within its allowance, and `FreshOffers` says that what it
  was offered was not given to the AI lately. Neither holds of a click during which
  another one recorded picks, which is what `raced` means.
* `DecisionsAreRightHolds`, about `AutoRules`: the invariant adds that what is asked is
  an input of its kind, and each of its four parts is a lemma about one operator.
  `CareerCounts` is `MergedCounts` without the months that touch. `VerdictsAreStrict`
  rests on `JudgeIs`, which says what is kept of an answer by how many central and minor
  items the profile lacks; both counts only grow with one more item, and everything the
  rules do is monotone in them. `PagesAreWellRead` follows the walk over the ranked list
  (`WellSeen`: what was seen is eligible and without copies, and what was passed over is
  a copy or came when the room was used) and then the place of each job from there to
  the list that is read (`Shows`). `TheBestAreChosen` is `InOrderSorts` for the order of
  `autoChoose`, which has to be strict and total, and the cut.

`AiServiceProofs`:
* `StaleChainHasACauseHolds`: a commit changes the chains of its form only
  (`CommitChanges`), which needs that its `DELETE`s saw rows of these purposes only
  (`SeenInForm`), and it owes an `Invalidate` for each of them (`OnlySavedDrop`).
* `ChainOfOneSaveHolds`, `KeyIsKeptHolds`: `SaveInv`. A save that nobody overtook has
  seen the rows it deletes and the keys it copies as they are now (`SaveIsCurrent`),
  and ids are unique (`UniqueIds`).
* `PauseMeansLimitedHolds`: `WalkInv` follows a call through its chain: all providers
  before the present one answered 429, if the call may still report that. That the last
  provider is the one at the length of the chain needs `ChainInv`: the table has
  finitely many rows, so what is read of it, kept in the cache and joined by a fallback
  is a sequence.

`DiscoveryRunsProofs`:
* `OneSweepHolds`: whoever is between taking and giving back the flag finds it up
  (`FlagIsHeld`).
* `SkippedWasSearchedHolds`: a mark is set by a claim that searches, and leaves with a
  failure.
* `PlanFollowsHolds`: what the scheduler read first may already be old when it reads
  the second; `SettingsAreKnown` and `SweepIsKnown` say that a signal, or whoever has
  still to send it, covers each.
* `AnswersAreRightHolds`, about `JobLists`: the invariant says that what is asked is an
  input of its kind and what is answered is what the handler computes (`ListsInv`); each
  part is a lemma about the operators.
  * `FitsAreTrue`: the mean rises with the number of items worth at least each weight
    (`FitGrows`) and falls with one more item that is worth nothing (`LackIsWorse`). The
    three items that "high" asks for could break the second: they do not, since a third
    item that is missing leaves at most 67 of the 70 per cent that "high" asks for too.
  * `NothingLost`: the first row of each vacancy is its head (`HeadOfVacancy`), the
    latest row of another site is its link (`SiteIsLinked`), and `Ranked` leaves the
    same jobs (`ShownJobs`).
  * `FacetsAreTrue`: a filter set aside and then chosen alone lets the same places
    through, so both counts are of one set.
  * `PagesRight`: a place of the list is on one page (`OnePlace`). A page asked for
    again is filtered by the quality that `attachFit` left in the rows.
  * `KeywordsRight`: each keyword is in one of the three lists (`PartsAreWhole`), and a
    class of names has one keyword (`TermsAre`). That a covered one is not called
    missing from the profile needs `SameKey`. All of it holds for aliases that are
    `Unified` and is false otherwise: nothing in the table `stack_aliases` rules out an
    alias that leads from one technology to another.

Only model-checked: the liveness properties, since fairness is outside the prover's
reach.

## What is not modelled

* Login, lockout, tokens and revocation: each operation is one atomic Redis command or
  one statement around cryptographic libraries. The rate limiter counts under a mutex.
* Parsing of third-party sites, prompt wording, layout of resumes and PDFs, rendering,
  routing tables, configuration and start-up: sequential, or without state a property
  could speak of.
* Within modelled parts: the log of AI calls and its pruning; validation and encryption
  of the AI settings; progress of a sweep in the panel, the backfill of technologies,
  the cleaning of settings and preferences; the pruning of the history of imports;
  languages added by hand twice; the metrics of the selection; the contact block and
  the cover letter of a resume.
* Accounts: rows of deleted accounts are not selected, and every user module has one
  user, or one and another whose rows must not be touched.

## Next

1. Abstract specifications of the turn of an import and of the board, with refinements.
2. Instances with two keywords and two refreshing users for `DiscoveryRuns`.

## How to run it

    tlc -workers 2 -config pipeline_api.cfg MCPipeline.tla
    tlc -workers 2 -config desk.cfg MCDesk.tla
    tlapm JobPipelineProofs.tla
