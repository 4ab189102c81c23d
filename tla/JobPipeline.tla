---------------------------- MODULE JobPipeline ----------------------------
(***************************************************************************)
(* The resume pipeline: the "jobs" table, the worker that turns a pending  *)
(* job into a generated resume, and the HTTP handlers that create, edit,   *)
(* retry and delete jobs while the worker runs (internal/worker,           *)
(* internal/handler/job.go, repository/query/{worker,jobs}.sql).           *)
(*                                                                         *)
(* One worker process.  A tick recovers stuck rows, reads the pending ones *)
(* into a batch of snapshots and runs each snapshot in a goroutine that    *)
(* first takes one of the Slots of the semaphore; the next tick waits for  *)
(* the whole batch.  Each call to Postgres, Redis or the LLM is one step.  *)
(***************************************************************************)
EXTENDS Naturals, FiniteSets

CONSTANTS
    MaxJobs,      \* jobs ever created; ids 1..MaxJobs in created_at order
    Slots,        \* places in the semaphore (WORKER_MAX_CONCURRENT)
    BatchSize,    \* WORKER_BATCH_SIZE
    RecoveryOn,   \* WORKER_RECOVERY_TIMEOUT # 0
    Sources,      \* descriptions a user may paste
    Langs, Modes, \* resume languages and generation modes
    RetryFrom,    \* statuses in which some client still sends a retry
    MaxRequests,  \* bound on retries and edits
    MaxFaults     \* bound on failed calls and process restarts

NoText == "none"  \* source_description IS NULL or blank

Jobs == 1..MaxJobs
InFlight == {"processing", "scraping_basic", "scraping_nl"}
Settled == {"completed", "error"}
JobStatus == {"pending"} \cup InFlight \cup Settled

ASSUME PipelineAssumption ==
    /\ MaxJobs \in Nat /\ BatchSize \in Nat \ {0}
    /\ RecoveryOn \in BOOLEAN
    /\ RetryFrom \subseteq JobStatus
    /\ MaxRequests \in Nat /\ MaxFaults \in Nat
    /\ NoText \notin Sources

VARIABLES
    \* Postgres
    row,        \* row[j]: the jobs row, st = "absent" before INSERT and after DELETE
    resume,     \* resume[j]: what the newest generated_resumes row was made from
    \* Redis
    paused,     \* the key worker:llm_rate_limited exists
    genCache,   \* requests whose LLM answer is stored
    \* the worker process
    phase,      \* Start: "wait" for the tick, "poll" after recovery, "batch"
    queue,      \* snapshots of the batch not yet handed to a goroutine
    run,        \* run[s]: the goroutine holding slot s
    \* HTTP side
    announcing, \* jobs whose RetryJobProcessing wrote but has not published
    shown,      \* shown[j]: status of the last SSE event about j
    \* bounds
    created, requests, faults

vars == <<row, resume, paused, genCache, phase, queue, run, announcing,
          shown, created, requests, faults>>

-----------------------------------------------------------------------------
Row == [st: JobStatus \cup {"absent"}, src: Sources \cup {NoText}, lang: Langs,
        mode: Modes, fresh: BOOLEAN, stale: BOOLEAN]

\* The columns of the row that a run copies when the batch is selected.
Snapshot == [id: Jobs, src: Sources \cup {NoText}, lang: Langs, mode: Modes,
             fresh: BOOLEAN]
Snap(j) == [id |-> j, src |-> row[j].src, lang |-> row[j].lang,
            mode |-> row[j].mode, fresh |-> row[j].fresh]

\* The inputs of the prompts (generationKey): a job, its text, language, mode.
Request == [id: Jobs, src: Sources \cup {NoText}, lang: Langs, mode: Modes]
Key(v) == [id |-> v.id, src |-> v.src, lang |-> v.lang, mode |-> v.mode]

\* Where a goroutine of processarJob stands, named for the call it makes next.
RunSteps == {"begin", "basic", "reading", "nl", "save", "matched", "generate",
             "insert", "complete", "limited", "requeue", "fail"}
Idle == [at |-> "idle"]
LiveRun == [at: RunSteps, v: Snapshot, cached: BOOLEAN]
IsLive(s) == run[s] # Idle
Owned(j) == \E s \in Slots : IsLive(s) /\ run[s].v.id = j

NoResume == [made |-> FALSE]
Resume == [made: {TRUE}, of: Request, cached: BOOLEAN]

TypeOK ==
    /\ row \in [Jobs -> Row]
    /\ resume \in [Jobs -> {NoResume} \cup Resume]
    /\ paused \in BOOLEAN
    /\ genCache \in SUBSET Request
    /\ phase \in {"wait", "poll", "batch"}
    /\ queue \in SUBSET Snapshot
    /\ run \in [Slots -> {Idle} \cup LiveRun]
    /\ announcing \in SUBSET Jobs
    /\ shown \in [Jobs -> JobStatus]
    /\ created \in 0..MaxJobs
    /\ requests \in 0..MaxRequests
    /\ faults \in 0..MaxFaults

Init ==
    \E l \in Langs, m \in Modes :
    /\ row = [j \in Jobs |-> [st |-> "absent", src |-> NoText, lang |-> l,
                              mode |-> m, fresh |-> FALSE, stale |-> FALSE]]
    /\ resume = [j \in Jobs |-> NoResume]
    /\ paused = FALSE
    /\ genCache = {}
    /\ phase = "wait"
    /\ queue = {}
    /\ run = [s \in Slots |-> Idle]
    /\ announcing = {}
    /\ shown = [j \in Jobs |-> "pending"]
    /\ created = 0
    /\ requests = 0
    /\ faults = 0

-----------------------------------------------------------------------------
(***************************************************************************)
(* The statements of worker.sql.  None looks at the status it overwrites,  *)
(* and an UPDATE that finds no row succeeds.                               *)
(***************************************************************************)
Present(j) == row[j].st # "absent"

\* A call to Postgres or Redis returns an error, or the process goes down.
Fault == faults < MaxFaults /\ faults' = faults + 1
NoFault == UNCHANGED faults

WorkerUpdateJobStatus(j, st) ==
    row' = IF Present(j)
           THEN [row EXCEPT ![j].st = st, ![j].stale = FALSE] ELSE row

\* The worker's callers that go on after a failed status write.
TryStatus(j, st) == \/ WorkerUpdateJobStatus(j, st) /\ NoFault
                    \/ Fault /\ UNCHANGED row

WorkerUpdateJob(v) ==
    row' = IF Present(v.id)
           THEN [row EXCEPT ![v.id].lang = v.lang, ![v.id].stale = FALSE]
           ELSE row

\* Variant: the status of the WHERE clause is not the one that gets stuck.
RecoverWrongStatus ==
    row' = [j \in Jobs |->
              IF row[j].st = "scraping_nl" /\ row[j].stale
              THEN [row[j] EXCEPT !.st = "pending", !.stale = FALSE]
              ELSE row[j]]

\* Variant: gives jobs back in a status that job_status does not have.
RecoverToUnknownStatus ==
    row' = [j \in Jobs |->
              IF row[j].st = "processing" /\ row[j].stale
              THEN [row[j] EXCEPT !.st = "recovered", !.stale = FALSE]
              ELSE row[j]]

WorkerRecoverStuckJobs ==
    row' = [j \in Jobs |->
              IF row[j].st = "processing" /\ row[j].stale
              THEN [row[j] EXCEPT !.st = "pending", !.stale = FALSE]
              ELSE row[j]]

Pending == {j \in Jobs : row[j].st = "pending"}

\* ORDER BY created_at LIMIT BatchSize
WorkerSelectPendingJobs ==
    {j \in Pending : Cardinality({k \in Pending : k < j}) < BatchSize}

Publish(j, st) == shown' = [shown EXCEPT ![j] = st]

-----------------------------------------------------------------------------
(* Worker.Start and processarPendentes *)

Tick ==
    /\ phase = "wait"
    /\ phase' = "poll"
    /\ \/ RecoveryOn /\ WorkerRecoverStuckJobs /\ NoFault
       \/ RecoveryOn /\ Fault /\ UNCHANGED row
       \/ ~RecoveryOn /\ UNCHANGED <<row, faults>>
    /\ UNCHANGED <<resume, paused, genCache, queue, run, announcing, shown,
                   created, requests>>

SkipWhilePaused ==
    /\ phase = "poll"
    /\ paused
    /\ phase' = "wait"
    /\ UNCHANGED <<row, resume, paused, genCache, queue, run, announcing,
                   shown, created, requests, faults>>

\* IsRateLimited answers FALSE when Redis does not answer.
SelectBatch ==
    /\ phase = "poll"
    /\ \/ ~paused /\ NoFault
       \/ paused /\ Fault
    /\ phase' = "batch"
    /\ queue' = {Snap(j) : j \in WorkerSelectPendingJobs}
    /\ UNCHANGED <<row, resume, paused, genCache, run, announcing, shown,
                   created, requests>>

SelectFails ==
    /\ phase = "poll"
    /\ ~paused
    /\ Fault
    /\ phase' = "wait"
    /\ UNCHANGED <<row, resume, paused, genCache, queue, run, announcing,
                   shown, created, requests>>

\* The loop over the batch: take a place in the semaphore, start a goroutine.
Spawn(s) ==
    /\ phase = "batch"
    /\ run[s] = Idle
    /\ \E v \in queue :
         /\ \A w \in queue : v.id <= w.id
         /\ queue' = queue \ {v}
         /\ run' = [run EXCEPT ![s] = [at |-> "begin", v |-> v, cached |-> FALSE]]
    /\ UNCHANGED <<row, resume, paused, genCache, phase, announcing, shown,
                   created, requests, faults>>

\* Variant: no wg.Wait, the next tick may find goroutines of this batch.
EndBatchWithoutWaiting ==
    /\ phase = "batch"
    /\ queue = {}
    /\ phase' = "wait"
    /\ UNCHANGED <<row, resume, paused, genCache, queue, run, announcing,
                   shown, created, requests, faults>>

\* wg.Wait returns.
EndBatch ==
    /\ phase = "batch"
    /\ queue = {}
    /\ \A s \in Slots : run[s] = Idle
    /\ phase' = "wait"
    /\ UNCHANGED <<row, resume, paused, genCache, queue, run, announcing,
                   shown, created, requests, faults>>

-----------------------------------------------------------------------------
(* processarJob, doScraper, generateCached: the goroutine of slot s *)

At(s, step) == run[s] # Idle /\ run[s].at = step
Goto(s, step) == run' = [run EXCEPT ![s] = [@ EXCEPT !.at = step]]
GotoInsert(s, hit) ==
    run' = [run EXCEPT ![s] = [@ EXCEPT !.at = "insert", !.cached = hit]]
Return(s) == run' = [run EXCEPT ![s] = Idle]

Elsewhere == UNCHANGED <<phase, queue, announcing, created, requests>>

BeginRun(s) ==
    /\ At(s, "begin")
    /\ WorkerUpdateJobStatus(run[s].v.id, "processing")
    /\ Publish(run[s].v.id, "processing")
    /\ Goto(s, "basic")
    /\ UNCHANGED <<resume, paused, genCache, faults>> /\ Elsewhere

BeginFails(s) ==
    /\ At(s, "begin")
    /\ Fault
    /\ Return(s)
    /\ UNCHANGED <<row, resume, paused, genCache, shown>> /\ Elsewhere

EnterScrapingBasic(s) ==
    /\ At(s, "basic")
    /\ TryStatus(run[s].v.id, "scraping_basic")
    /\ Goto(s, "reading")
    /\ UNCHANGED <<resume, paused, genCache, shown>> /\ Elsewhere

\* The pasted text, the site or the catalogue gave a description.
EnterScrapingNl(s) ==
    /\ At(s, "reading")
    /\ TryStatus(run[s].v.id, "scraping_nl")
    /\ Goto(s, "nl")
    /\ UNCHANGED <<resume, paused, genCache, shown>> /\ Elsewhere

\* Neither the site nor the catalogue has one; pasted text cannot fail.
ReadingFails(s) ==
    /\ At(s, "reading")
    /\ run[s].v.src = NoText
    /\ Goto(s, "fail")
    /\ UNCHANGED <<row, resume, paused, genCache, shown, faults>> /\ Elsewhere

\* GenerateScrapeSite answers, is refused by a rate limit, or fails.
Scraped(s, outcome) ==
    /\ At(s, "nl")
    /\ Goto(s, outcome)
    /\ UNCHANGED <<row, resume, paused, genCache, shown, faults>> /\ Elsewhere

SaveScrape(s) ==
    /\ At(s, "save")
    /\ \/ WorkerUpdateJob(run[s].v) /\ NoFault /\ Goto(s, "matched")
       \/ Fault /\ UNCHANGED row /\ Goto(s, "fail")
    /\ UNCHANGED <<resume, paused, genCache, shown>> /\ Elsewhere

\* Variant: a failure of the match returns without failJob.
CheckMatchForgetsRow(s, outcome) ==
    /\ At(s, "matched")
    /\ IF outcome = "fail" THEN Return(s) ELSE Goto(s, outcome)
    /\ UNCHANGED <<row, resume, paused, genCache, shown, faults>> /\ Elsewhere

\* The profile was read and is not empty and the prompt was built, or not.
CheckMatch(s, outcome) ==
    /\ At(s, "matched")
    /\ Goto(s, outcome)
    /\ UNCHANGED <<row, resume, paused, genCache, shown, faults>> /\ Elsewhere

\* Variant: fresh_generation is not looked at.
ReuseWhateverAsked(s) ==
    /\ At(s, "generate")
    /\ Key(run[s].v) \in genCache
    /\ GotoInsert(s, TRUE)
    /\ UNCHANGED <<row, resume, paused, genCache, shown, faults>> /\ Elsewhere

ReuseGeneration(s) ==
    /\ At(s, "generate")
    /\ ~run[s].v.fresh
    /\ Key(run[s].v) \in genCache
    /\ GotoInsert(s, TRUE)
    /\ UNCHANGED <<row, resume, paused, genCache, shown, faults>> /\ Elsewhere

\* A miss, an unreadable or unreachable cache, or a fresh request: call the
\* LLM.  Storing the answer may fail; only a warning is logged.
Generate(s) ==
    /\ At(s, "generate")
    /\ GotoInsert(s, FALSE)
    /\ \/ genCache' = genCache \cup {Key(run[s].v)} /\ NoFault
       \/ Fault /\ UNCHANGED genCache
    /\ UNCHANGED <<row, resume, paused, shown>> /\ Elsewhere

GenerateRefused(s, outcome) ==
    /\ At(s, "generate")
    /\ Goto(s, outcome)
    /\ UNCHANGED <<row, resume, paused, genCache, shown, faults>> /\ Elsewhere

\* Variant: the error of the INSERT is logged, and the job completed.
InsertIgnoringError(s) ==
    LET v == run[s].v IN
    /\ At(s, "insert")
    /\ \/ /\ Present(v.id)
          /\ resume' = [resume EXCEPT ![v.id] =
                          [made |-> TRUE, of |-> Key(v), cached |-> run[s].cached]]
          /\ NoFault
       \/ ~Present(v.id) /\ UNCHANGED <<resume, faults>>
       \/ Fault /\ UNCHANGED resume
    /\ Goto(s, "complete")
    /\ UNCHANGED <<row, paused, genCache, shown>> /\ Elsewhere

\* The foreign key refuses the resume of a deleted job.
InsertResume(s) ==
    LET v == run[s].v IN
    /\ At(s, "insert")
    /\ \/ /\ Present(v.id)
          /\ resume' = [resume EXCEPT ![v.id] =
                          [made |-> TRUE, of |-> Key(v), cached |-> run[s].cached]]
          /\ Goto(s, "complete")
          /\ NoFault
       \/ /\ ~Present(v.id)
          /\ Goto(s, "fail")
          /\ UNCHANGED <<resume, faults>>
       \/ Fault /\ Goto(s, "fail") /\ UNCHANGED resume
    /\ UNCHANGED <<row, paused, genCache, shown>> /\ Elsewhere

\* completeJob and failJob publish whether or not the write succeeded.
Settle(s, step, st) ==
    /\ At(s, step)
    /\ TryStatus(run[s].v.id, st)
    /\ Publish(run[s].v.id, st)
    /\ Return(s)
    /\ UNCHANGED <<resume, paused, genCache>> /\ Elsewhere
CompleteJob(s) == Settle(s, "complete", "completed")
FailJob(s) == Settle(s, "fail", "error")

\* handleIfRateLimit: pause the worker, then give the job back to the queue.
SetRateLimit(s) ==
    /\ At(s, "limited")
    /\ \/ paused' = TRUE /\ NoFault
       \/ Fault /\ UNCHANGED paused
    /\ Goto(s, "requeue")
    /\ UNCHANGED <<row, resume, genCache, shown>> /\ Elsewhere

Requeue(s) ==
    /\ At(s, "requeue")
    /\ TryStatus(run[s].v.id, "pending")
    /\ Return(s)
    /\ UNCHANGED <<resume, paused, genCache, shown>> /\ Elsewhere

RunStep(s) ==
    \/ BeginRun(s) \/ BeginFails(s)
    \/ EnterScrapingBasic(s) \/ EnterScrapingNl(s) \/ ReadingFails(s)
    \/ \E outcome \in {"save", "limited", "fail"} : Scraped(s, outcome)
    \/ SaveScrape(s)
    \/ \E outcome \in {"generate", "fail"} : CheckMatch(s, outcome)
    \/ ReuseGeneration(s) \/ Generate(s)
    \/ \E outcome \in {"limited", "fail"} : GenerateRefused(s, outcome)
    \/ InsertResume(s) \/ CompleteJob(s) \/ FailJob(s)
    \/ SetRateLimit(s) \/ Requeue(s)

-----------------------------------------------------------------------------
(* Users, the passing of time, restarts *)

WorkerIdle == UNCHANGED <<phase, queue, run>>

CreateJob ==
    /\ created < MaxJobs
    /\ created' = created + 1
    /\ \E src \in Sources \cup {NoText}, l \in Langs, m \in Modes :
         row' = [row EXCEPT ![created + 1] =
                   [st |-> "pending", src |-> src, lang |-> l, mode |-> m,
                    fresh |-> FALSE, stale |-> FALSE]]
    /\ UNCHANGED <<resume, paused, genCache, announcing, shown, requests, faults>>
    /\ WorkerIdle

\* ON DELETE CASCADE takes the resumes along.
DeleteJob(j) ==
    /\ Present(j)
    /\ row' = [row EXCEPT ![j].st = "absent", ![j].stale = FALSE]
    /\ resume' = [resume EXCEPT ![j] = NoResume]
    /\ UNCHANGED <<paused, genCache, announcing, shown, created, requests, faults>>
    /\ WorkerIdle

UpdateFullJob(j) ==
    /\ Present(j)
    /\ requests < MaxRequests /\ requests' = requests + 1
    /\ \E src \in Sources \cup {NoText}, l \in Langs :
         row' = [row EXCEPT ![j].src = src, ![j].lang = l]
    /\ UNCHANGED <<resume, paused, genCache, announcing, shown, created, faults>>
    /\ WorkerIdle

\* QueryReprocessJob has no guard on the status; RetryFrom describes clients.
RetryJobProcessing(j) ==
    /\ row[j].st \in RetryFrom
    /\ j \notin announcing
    /\ requests < MaxRequests /\ requests' = requests + 1
    /\ \E l \in Langs, m \in Modes, fresh \in BOOLEAN :
         row' = [row EXCEPT ![j].st = "pending", ![j].lang = l, ![j].mode = m,
                            ![j].fresh = fresh, ![j].stale = FALSE]
    /\ announcing' = announcing \cup {j}
    /\ UNCHANGED <<resume, paused, genCache, shown, created, faults>>
    /\ WorkerIdle

AnnounceRetry(j) ==
    /\ j \in announcing
    /\ announcing' = announcing \ {j}
    /\ Publish(j, "pending")
    /\ UNCHANGED <<row, resume, paused, genCache, created, requests, faults>>
    /\ WorkerIdle

\* Variant: the key is set without an expiration.
PauseNeverEnds ==
    /\ FALSE
    /\ UNCHANGED vars

\* The 12 h TTL runs out, or an administrator saves settings or resumes.
PauseEnds ==
    /\ paused
    /\ paused' = FALSE
    /\ UNCHANGED <<row, resume, genCache, announcing, shown, created, requests, faults>>
    /\ WorkerIdle

\* updated_at of a row left in "processing" falls behind the cutoff.
GrowStale(j) ==
    /\ row[j].st = "processing" /\ ~row[j].stale
    /\ row' = [row EXCEPT ![j].stale = TRUE]
    /\ UNCHANGED <<resume, paused, genCache, announcing, shown, created, requests, faults>>
    /\ WorkerIdle

\* A crash, or a deploy: run() waits for the HTTP server only, so after the
\* signal every call of a goroutine fails and none of its writes lands.
Restart ==
    /\ Fault
    /\ phase' = "wait"
    /\ queue' = {}
    /\ run' = [s \in Slots |-> Idle]
    /\ announcing' = {}
    /\ UNCHANGED <<row, resume, paused, genCache, shown, created, requests>>

Next ==
    \/ Tick \/ SkipWhilePaused \/ SelectBatch \/ SelectFails \/ EndBatch
    \/ \E s \in Slots : Spawn(s) \/ RunStep(s)
    \/ CreateJob
    \/ \E j \in Jobs : DeleteJob(j) \/ UpdateFullJob(j) \/ RetryJobProcessing(j)
                       \/ AnnounceRetry(j) \/ GrowStale(j)
    \/ PauseEnds
    \/ Restart

Spec == Init /\ [][Next]_vars

(***************************************************************************)
(* Fairness.  The ticker fires, goroutines are scheduled and time passes   *)
(* (WF).  The provider does answer a request that is repeated for ever     *)
(* (SF): its limits have windows.  Users owe nothing.                      *)
(***************************************************************************)
Fairness ==
    /\ WF_vars(Tick) /\ WF_vars(SkipWhilePaused \/ SelectBatch) /\ WF_vars(EndBatch)
    /\ WF_vars(PauseEnds)
    /\ \A j \in Jobs : WF_vars(GrowStale(j)) /\ WF_vars(AnnounceRetry(j))
    /\ \A s \in Slots :
         /\ WF_vars(Spawn(s)) /\ WF_vars(RunStep(s))
         /\ SF_vars(Scraped(s, "save"))
         /\ SF_vars(Generate(s))

FairSpec == Spec /\ Fairness

-----------------------------------------------------------------------------
(* Safety *)

\* No two goroutines ever work on one job, and no snapshot waiting in the
\* batch is of a job already being worked on: wg.Wait keeps the next SELECT
\* (which a retry or a recovery may have fed) away from the live runs.
OneRunPerJob ==
    /\ \A s, t \in Slots :
         IsLive(s) /\ IsLive(t) /\ run[s].v.id = run[t].v.id => s = t
    /\ \A v \in queue : ~Owned(v.id)

\* Every path out of processarJob leaves the row settled or pending: a row in
\* an in-flight status has a goroutine, unless some call failed or the process
\* went down.
InFlightIsOwned ==
    \A j \in Jobs : row[j].st \in InFlight /\ ~Owned(j) => faults > 0

\* A job recorded as completed has a resume, whatever failed on the way (the
\* board and the pages open it on the strength of the status).
CompletedHasResume ==
    \A j \in Jobs : row[j].st = "completed" => resume[j] # NoResume

\* A completed job holds the resume its row asks for: the mode of the last
\* retry, and no cached answer when that retry asked for a new version.
\* It holds for clients that retry settled jobs only (RetryFrom = Settled).
CompletedServesRequest ==
    \A j \in Jobs :
        row[j].st = "completed" =>
            /\ resume[j] # NoResume
            /\ resume[j].of.mode = row[j].mode
            /\ row[j].fresh => ~resume[j].cached

\* Work that is settled stays settled until a retry makes it pending again or
\* the job is deleted: no goroutine of an earlier attempt comes back to it.
\* Like CompletedServesRequest it needs clients that retry settled jobs only.
SettledStaysSettled ==
    [][\A j \in Jobs : row[j].st \in Settled =>
         row'[j].st \in {row[j].st, "pending", "absent"}]_vars

-----------------------------------------------------------------------------
(* A claim of the documentation that the code does not keep *)

\* "… a página se atualiza sozinha quando terminar": work on a job the page
\* shows as running ends.
RunningEnds ==
    \A j \in Jobs : row[j].st \in InFlight ~> row[j].st \notin InFlight

-----------------------------------------------------------------------------
(* Liveness *)

\* A job left behind in "processing" does not stay there: the recovery at the
\* head of each tick gives it back, even while the worker is paused.
ProcessingIsRecovered ==
    RecoveryOn =>
        \A j \in Jobs :
            row[j].st = "processing" /\ ~Owned(j) ~> row[j].st # "processing"

\* A pending job is taken up at last: rate limits, pauses, other jobs that
\* keep returning to the head of the batch and restarts only delay it.
PendingIsTaken ==
    \A j \in Jobs : row[j].st = "pending" ~> row[j].st # "pending"
=============================================================================
