------------------------- MODULE JobPipelineProofs -------------------------
(***************************************************************************)
(* Proofs about JobPipeline, for every number of jobs, every semaphore and *)
(* batch size, every client (RetryFrom) and every number of failures.      *)
(***************************************************************************)
EXTENDS PipelineLifecycle, TLAPS

-----------------------------------------------------------------------------
(* Lemmas about the helpers the actions are built from *)

\* A status write leaves a well-formed table.
LEMMA StatusWriteType ==
    ASSUME row \in [Jobs -> Row], NEW j \in Jobs, NEW st \in JobStatus,
           WorkerUpdateJobStatus(j, st)
    PROVE  row' \in [Jobs -> Row]
BY DEF WorkerUpdateJobStatus, Present, Row

\* A status write touches the status of one job that is present, and nothing
\* that a snapshot copies.
LEMMA StatusWriteEffect ==
    ASSUME row \in [Jobs -> Row], NEW j \in Jobs, NEW st \in JobStatus,
           WorkerUpdateJobStatus(j, st)
    PROVE  \A k \in Jobs :
             /\ row'[k].mode = row[k].mode /\ row'[k].fresh = row[k].fresh
             /\ k # j => row'[k].st = row[k].st
             /\ row'[j].st \in {st, "absent"}
             /\ row[j].st = "absent" <=> row'[j].st = "absent"
BY DEF WorkerUpdateJobStatus, Present, Row, JobStatus, InFlight, Settled

LEMMA FaultType ==
    ASSUME faults \in 0..MaxFaults, Fault \/ NoFault
    PROVE  faults' \in 0..MaxFaults /\ faults' >= faults
BY PipelineAssumption DEF Fault, NoFault

\* Moving a live goroutine to another step keeps its snapshot.
LEMMA GotoEffect ==
    ASSUME run \in [Slots -> {Idle} \cup LiveRun], NEW s \in Slots, run[s] # Idle,
           NEW step \in RunSteps, Goto(s, step)
    PROVE  /\ run' \in [Slots -> {Idle} \cup LiveRun]
           /\ run'[s].at = step /\ run'[s].v = run[s].v
           /\ run'[s].cached = run[s].cached /\ run'[s] # Idle
           /\ \A t \in Slots : t # s => run'[t] = run[t]
<1>1. run[s] \in LiveRun
  OBVIOUS
<1>2. run'[s] = [run[s] EXCEPT !.at = step]
  BY DEF Goto
<1>3. run'[s] \in LiveRun /\ run'[s].at = step /\ run'[s].v = run[s].v
      /\ run'[s].cached = run[s].cached
  BY <1>1, <1>2 DEF LiveRun
<1>4. run'[s] # Idle
  BY <1>3 DEF Idle, RunSteps
<1>5. QED
  BY <1>3, <1>4 DEF Goto

LEMMA GotoInsertEffect ==
    ASSUME run \in [Slots -> {Idle} \cup LiveRun], NEW s \in Slots, run[s] # Idle,
           NEW hit \in BOOLEAN, GotoInsert(s, hit)
    PROVE  /\ run' \in [Slots -> {Idle} \cup LiveRun]
           /\ run'[s].at = "insert" /\ run'[s].v = run[s].v
           /\ run'[s].cached = hit /\ run'[s] # Idle
           /\ \A t \in Slots : t # s => run'[t] = run[t]
<1>1. run[s] \in LiveRun
  OBVIOUS
<1>2. run'[s] = [run[s] EXCEPT !.at = "insert", !.cached = hit]
  BY DEF GotoInsert
<1>3. run'[s] \in LiveRun /\ run'[s].at = "insert" /\ run'[s].v = run[s].v
      /\ run'[s].cached = hit
  BY <1>1, <1>2 DEF LiveRun, RunSteps
<1>4. run'[s] # Idle
  BY <1>3 DEF Idle
<1>5. QED
  BY <1>3, <1>4 DEF GotoInsert

LEMMA ReturnEffect ==
    ASSUME run \in [Slots -> {Idle} \cup LiveRun], NEW s \in Slots, Return(s)
    PROVE  /\ run' \in [Slots -> {Idle} \cup LiveRun]
           /\ run'[s] = Idle
           /\ \A t \in Slots : t # s => run'[t] = run[t]
BY DEF Return

\* The snapshot of a live goroutine names a job.
LEMMA LiveRunType ==
    ASSUME TypeOK, NEW s \in Slots, run[s] # Idle
    PROVE  run[s] \in LiveRun /\ run[s].v \in Snapshot /\ run[s].v.id \in Jobs
           /\ run[s].at \in RunSteps /\ run[s].cached \in BOOLEAN
           /\ run[s].v.fresh \in BOOLEAN
           /\ Key(run[s].v) \in Request
BY DEF TypeOK, LiveRun, Snapshot, Request, Key

-----------------------------------------------------------------------------
(* Type correctness *)

LEMMA TypeInit == Init => TypeOK
<1> SUFFICES ASSUME Init PROVE TypeOK
  OBVIOUS
<1>1. row \in [Jobs -> Row]
  BY DEF Init, Row
<1>2. shown \in [Jobs -> JobStatus]
  BY DEF Init, JobStatus
<1>3. created \in 0..MaxJobs /\ requests \in 0..MaxRequests /\ faults \in 0..MaxFaults
  BY PipelineAssumption DEF Init
<1>4. resume \in [Jobs -> {NoResume} \cup Resume] /\ run \in [Slots -> {Idle} \cup LiveRun]
  BY DEF Init
<1>5. /\ paused \in BOOLEAN /\ genCache \in SUBSET Request
      /\ phase \in {"wait", "poll", "batch"} /\ queue \in SUBSET Snapshot
      /\ announcing \in SUBSET Jobs
  BY DEF Init
<1>6. QED
  BY <1>1, <1>2, <1>3, <1>4, <1>5 DEF TypeOK

\* The steps of processarPendentes keep the types.
LEMMA TypeLoop ==
    ASSUME TypeOK,
           Tick \/ SkipWhilePaused \/ SelectBatch \/ SelectFails \/ EndBatch
    PROVE  TypeOK'
<1>1. CASE Tick
  <2>1. row' \in [Jobs -> Row]
    <3>1. CASE WorkerRecoverStuckJobs
      <4>1. ASSUME NEW j \in Jobs PROVE row'[j] \in Row
        <5>1. row[j] \in Row /\ "pending" \in JobStatus
          BY DEF TypeOK, JobStatus
        <5>2. row'[j] \in {row[j], [row[j] EXCEPT !.st = "pending", !.stale = FALSE]}
          BY <3>1 DEF WorkerRecoverStuckJobs
        <5>3. [row[j] EXCEPT !.st = "pending", !.stale = FALSE] \in Row
          BY <5>1 DEF Row
        <5>4. QED
          BY <5>1, <5>2, <5>3
      <4>2. QED
        BY <3>1, <4>1 DEF WorkerRecoverStuckJobs
    <3>2. CASE UNCHANGED row
      BY <3>2 DEF TypeOK
    <3>3. QED
      BY <1>1, <3>1, <3>2 DEF Tick
  <2>2. QED
    BY <1>1, <2>1, FaultType DEF Tick, TypeOK, NoFault
<1>2. CASE SkipWhilePaused
  BY <1>2 DEF SkipWhilePaused, TypeOK
<1>3. CASE SelectBatch
  <2>1. ASSUME NEW j \in Jobs PROVE Snap(j) \in Snapshot
    <3>1. row[j] \in Row
      BY DEF TypeOK
    <3>2. QED
      BY <3>1 DEF Snap, Snapshot, Row
  <2>3. queue' \in SUBSET Snapshot
    BY <1>3, <2>1 DEF SelectBatch, WorkerSelectPendingJobs, Pending
  <2>2. QED
    BY <1>3, <2>3, FaultType DEF SelectBatch, TypeOK
<1>4. CASE SelectFails
  BY <1>4, FaultType DEF SelectFails, TypeOK
<1>5. CASE EndBatch
  BY <1>5 DEF EndBatch, TypeOK
<1>6. QED
  BY <1>1, <1>2, <1>3, <1>4, <1>5

LEMMA TypeSpawn ==
    ASSUME TypeOK, NEW s \in Slots, Spawn(s)
    PROVE  TypeOK'
<1>1. PICK v \in queue :
        run' = [run EXCEPT ![s] = [at |-> "begin", v |-> v, cached |-> FALSE]]
  BY DEF Spawn
<1>2. run' \in [Slots -> {Idle} \cup LiveRun]
  BY <1>1 DEF TypeOK, LiveRun, RunSteps
<1>3. queue' \in SUBSET Snapshot
  BY DEF Spawn, TypeOK
<1>4. QED
  BY <1>2, <1>3 DEF Spawn, TypeOK

\* The steps of a goroutine keep the types.
LEMMA TypeRun ==
    ASSUME TypeOK, NEW s \in Slots, RunStep(s)
    PROVE  TypeOK'
<1> DEFINE v == run[s].v
<1>1. run[s] # Idle
  BY DEF RunStep, BeginRun, BeginFails, EnterScrapingBasic, EnterScrapingNl,
         ReadingFails, Scraped, SaveScrape, CheckMatch, ReuseGeneration, Generate,
         GenerateRefused, InsertResume, CompleteJob, FailJob, Settle,
         SetRateLimit, Requeue, At
<1>2. /\ v.id \in Jobs /\ v \in Snapshot /\ Key(v) \in Request
      /\ run[s].cached \in BOOLEAN
  BY <1>1, LiveRunType
<1>3. ASSUME NEW st \in JobStatus, TryStatus(v.id, st)
      PROVE  row' \in [Jobs -> Row] /\ faults' \in 0..MaxFaults
  BY <1>2, <1>3, StatusWriteType, FaultType DEF TryStatus, TypeOK
<1>4. ASSUME NEW step \in RunSteps, Goto(s, step)
      PROVE  run' \in [Slots -> {Idle} \cup LiveRun]
  BY <1>1, <1>4, GotoEffect DEF TypeOK
<1>5. ASSUME Return(s)
      PROVE  run' \in [Slots -> {Idle} \cup LiveRun]
  BY <1>5, ReturnEffect DEF TypeOK
<1>6. ASSUME NEW st \in JobStatus, Publish(v.id, st)
      PROVE  shown' \in [Jobs -> JobStatus]
  BY <1>6 DEF Publish, TypeOK
<1>7. \A st \in InFlight \cup Settled \cup {"pending"} : st \in JobStatus
  BY DEF JobStatus
<1>8. CASE BeginRun(s)
  <2>1. row' \in [Jobs -> Row]
    BY <1>2, <1>7, <1>8, StatusWriteType DEF BeginRun, TypeOK, InFlight
  <2>2. QED
    BY <1>4, <1>6, <1>7, <1>8, <2>1
       DEF BeginRun, TypeOK, Elsewhere, RunSteps, InFlight
<1>9. CASE BeginFails(s)
  BY <1>5, <1>9, FaultType DEF BeginFails, TypeOK, Elsewhere
<1>10. CASE EnterScrapingBasic(s)
  BY <1>3, <1>4, <1>7, <1>10
     DEF EnterScrapingBasic, TypeOK, Elsewhere, RunSteps, InFlight
<1>11. CASE EnterScrapingNl(s)
  BY <1>3, <1>4, <1>7, <1>11
     DEF EnterScrapingNl, TypeOK, Elsewhere, RunSteps, InFlight
<1>12. CASE ReadingFails(s)
  BY <1>4, <1>12 DEF ReadingFails, TypeOK, Elsewhere, RunSteps
<1>13. CASE \E outcome \in {"save", "limited", "fail"} : Scraped(s, outcome)
  BY <1>4, <1>13 DEF Scraped, TypeOK, Elsewhere, RunSteps
<1>14. CASE SaveScrape(s)
  <2>1. WorkerUpdateJob(v) => row' \in [Jobs -> Row]
    <3>1. v.lang \in Langs /\ row[v.id] \in Row
      BY <1>2 DEF TypeOK, Snapshot
    <3>2. [row[v.id] EXCEPT !.lang = v.lang, !.stale = FALSE] \in Row
      BY <3>1 DEF Row
    <3>3. QED
      BY <1>2, <3>2 DEF WorkerUpdateJob, TypeOK
  <2>2. run' \in [Slots -> {Idle} \cup LiveRun]
    BY <1>4, <1>14 DEF SaveScrape, RunSteps
  <2>3. QED
    BY <1>14, <2>1, <2>2, FaultType DEF SaveScrape, TypeOK, Elsewhere
<1>15. CASE \E outcome \in {"generate", "fail"} : CheckMatch(s, outcome)
  BY <1>4, <1>15 DEF CheckMatch, TypeOK, Elsewhere, RunSteps
<1>16. CASE ReuseGeneration(s)
  BY <1>1, <1>16, GotoInsertEffect DEF ReuseGeneration, TypeOK, Elsewhere
<1>17. CASE Generate(s)
  <2>1. run' \in [Slots -> {Idle} \cup LiveRun]
    BY <1>1, <1>17, GotoInsertEffect DEF Generate, TypeOK
  <2>2. genCache' \in SUBSET Request
    BY <1>2, <1>17 DEF Generate, TypeOK
  <2>3. QED
    BY <1>17, <2>1, <2>2, FaultType DEF Generate, TypeOK, Elsewhere
<1>18. CASE \E outcome \in {"limited", "fail"} : GenerateRefused(s, outcome)
  BY <1>4, <1>18 DEF GenerateRefused, TypeOK, Elsewhere, RunSteps
<1>19. CASE InsertResume(s)
  <2>1. run' \in [Slots -> {Idle} \cup LiveRun]
    BY <1>4, <1>19 DEF InsertResume, RunSteps
  <2>2. resume' \in [Jobs -> {NoResume} \cup Resume]
    <3>1. [made |-> TRUE, of |-> Key(v), cached |-> run[s].cached] \in Resume
      BY <1>2 DEF Resume
    <3>2. QED
      BY <1>2, <1>19, <3>1 DEF InsertResume, TypeOK
  <2>3. QED
    BY <1>19, <2>1, <2>2, FaultType DEF InsertResume, TypeOK, Elsewhere, NoFault
<1>20. CASE CompleteJob(s)
  BY <1>3, <1>5, <1>6, <1>7, <1>20
     DEF CompleteJob, Settle, TypeOK, Elsewhere, Settled
<1>21. CASE FailJob(s)
  BY <1>3, <1>5, <1>6, <1>7, <1>21
     DEF FailJob, Settle, TypeOK, Elsewhere, Settled
<1>22. CASE SetRateLimit(s)
  BY <1>4, <1>22, FaultType DEF SetRateLimit, TypeOK, Elsewhere, RunSteps
<1>23. CASE Requeue(s)
  BY <1>3, <1>5, <1>7, <1>23 DEF Requeue, TypeOK, Elsewhere
<1>24. QED
  BY <1>8, <1>9, <1>10, <1>11, <1>12, <1>13, <1>14, <1>15, <1>16, <1>17, <1>18,
     <1>19, <1>20, <1>21, <1>22, <1>23 DEF RunStep

\* What users, time and restarts do keeps the types.
LEMMA TypeOutside ==
    ASSUME TypeOK,
           \/ CreateJob \/ PauseEnds \/ Restart
           \/ \E j \in Jobs : \/ DeleteJob(j) \/ UpdateFullJob(j)
                              \/ RetryJobProcessing(j)
                              \/ AnnounceRetry(j) \/ GrowStale(j)
    PROVE  TypeOK'
<1>1. CASE CreateJob
  <2>1. created + 1 \in Jobs /\ created' \in 0..MaxJobs
    BY <1>1, PipelineAssumption DEF CreateJob, TypeOK, Jobs
  <2>2. row' \in [Jobs -> Row]
    BY <1>1, <2>1 DEF CreateJob, TypeOK, Row, JobStatus
  <2>3. QED
    BY <1>1, <2>1, <2>2 DEF CreateJob, TypeOK, WorkerIdle
<1>2. CASE PauseEnds
  BY <1>2 DEF PauseEnds, TypeOK, WorkerIdle
<1>3. CASE Restart
  BY <1>3, FaultType DEF Restart, TypeOK
<1>4. ASSUME NEW j \in Jobs, DeleteJob(j) PROVE TypeOK'
  BY <1>4 DEF DeleteJob, TypeOK, WorkerIdle, Row, JobStatus
<1>5. ASSUME NEW j \in Jobs, UpdateFullJob(j) PROVE TypeOK'
  <2>1. row' \in [Jobs -> Row]
    BY <1>5 DEF UpdateFullJob, TypeOK, Row
  <2>2. requests' \in 0..MaxRequests
    BY <1>5, PipelineAssumption DEF UpdateFullJob, TypeOK
  <2>3. QED
    BY <1>5, <2>1, <2>2 DEF UpdateFullJob, TypeOK, WorkerIdle
<1>6. ASSUME NEW j \in Jobs, RetryJobProcessing(j) PROVE TypeOK'
  <2>1. row' \in [Jobs -> Row]
    <3>1. PICK l \in Langs, m \in Modes, fresh \in BOOLEAN :
            row' = [row EXCEPT ![j].st = "pending", ![j].lang = l, ![j].mode = m,
                               ![j].fresh = fresh, ![j].stale = FALSE]
      BY <1>6 DEF RetryJobProcessing
    <3>2. row[j] \in Row /\ "pending" \in JobStatus
      BY DEF TypeOK, JobStatus
    <3>3. [row[j] EXCEPT !.st = "pending", !.lang = l, !.mode = m, !.fresh = fresh,
                         !.stale = FALSE] \in Row
      BY <3>2 DEF Row
    <3>4. QED
      BY <3>1, <3>3 DEF TypeOK
  <2>2. requests' \in 0..MaxRequests
    <3>1. requests' = requests + 1 /\ requests < MaxRequests /\ requests \in 0..MaxRequests
      BY <1>6 DEF RetryJobProcessing, TypeOK
    <3>2. QED
      BY <3>1, PipelineAssumption
  <2>3. QED
    BY <1>6, <2>1, <2>2 DEF RetryJobProcessing, TypeOK, WorkerIdle
<1>7. ASSUME NEW j \in Jobs, AnnounceRetry(j) PROVE TypeOK'
  BY <1>7 DEF AnnounceRetry, TypeOK, WorkerIdle, Publish, JobStatus
<1>8. ASSUME NEW j \in Jobs, GrowStale(j) PROVE TypeOK'
  <2>1. row' \in [Jobs -> Row]
    <3>1. row[j] \in Row
      BY DEF TypeOK
    <3>2. [row[j] EXCEPT !.stale = TRUE] \in Row
      BY <3>1 DEF Row
    <3>3. QED
      BY <1>8, <3>2 DEF GrowStale, TypeOK
  <2>2. QED
    BY <1>8, <2>1 DEF GrowStale, TypeOK, WorkerIdle
<1>9. QED
  BY <1>1, <1>2, <1>3, <1>4, <1>5, <1>6, <1>7, <1>8

\* Every variable keeps its type, in every behaviour of the pipeline.
THEOREM TypeCorrect == Spec => []TypeOK
<1>1. TypeOK /\ [Next]_vars => TypeOK'
  <2> SUFFICES ASSUME TypeOK, [Next]_vars PROVE TypeOK'
    OBVIOUS
  <2>1. CASE UNCHANGED vars
    BY <2>1 DEF vars, TypeOK
  <2>2. CASE Next
    BY <2>2, TypeLoop, TypeSpawn, TypeRun, TypeOutside DEF Next
  <2>3. QED
    BY <2>1, <2>2
<1>2. QED
  BY <1>1, TypeInit, PTL DEF Spec

-----------------------------------------------------------------------------
(* What one step of a goroutine can do, whichever step it is *)

\* The resume that the goroutine of slot s inserts.
Inserted(s) == [made |-> TRUE, of |-> Key(run[s].v), cached |-> run[s].cached]

SlotEffect(s) ==
    /\ run[s] # Idle
    /\ \A t \in Slots : t # s => run'[t] = run[t]
    /\ run'[s] # Idle => run'[s].v = run[s].v
    /\ run'[s] # Idle /\ run'[s].at = "insert" /\ run'[s].cached => ~run[s].v.fresh
    /\ UNCHANGED <<phase, queue, created>>
    /\ faults' >= faults

\* j is the job of the goroutine of slot s.
RowEffect(s, j) ==
    /\ \A k \in Jobs :
         /\ row'[k].mode = row[k].mode /\ row'[k].fresh = row[k].fresh
         /\ row'[k].st = "absent" <=> row[k].st = "absent"
         /\ k # j => row'[k].st = row[k].st
    /\ run'[s] # Idle => row'[j].st \in {row[j].st} \cup InFlight
    /\ run'[s] = Idle =>
         \/ faults' > faults /\ row'[j].st = row[j].st
         \/ row'[j].st \notin InFlight
    /\ row'[j].st = "completed" =>
         row[j].st = "completed" \/ run[s].at = "complete"

ResumeEffect(s, j) ==
    /\ \A k \in Jobs : k # j => resume'[k] = resume[k]
    /\ resume'[j] = resume[j] \/ (resume'[j] = Inserted(s) /\ run[s].at = "insert")
    /\ run'[s] # Idle /\ run'[s].at = "complete" =>
         resume'[j] = Inserted(s) /\ run[s].at = "insert"

RunEffect(s) ==
    SlotEffect(s) /\ RowEffect(s, run[s].v.id) /\ ResumeEffect(s, run[s].v.id)

LEMMA RowKept ==
    ASSUME NEW s \in Slots, NEW j, row' = row, run'[s] # Idle \/ faults' > faults
    PROVE  RowEffect(s, j)
BY DEF RowEffect

LEMMA ResumeKept ==
    ASSUME NEW s \in Slots, NEW j, resume' = resume,
           run'[s] = Idle \/ run'[s].at # "complete"
    PROVE  ResumeEffect(s, j)
<1>1. \A k \in Jobs \cup {j} : resume'[k] = resume[k]
  OBVIOUS
<1>2. ~(run'[s] # Idle /\ run'[s].at = "complete")
  OBVIOUS
<1>3. QED
  BY <1>1, <1>2 DEF ResumeEffect

\* A write of an in-flight status by a goroutine that goes on.
LEMMA RowProgresses ==
    ASSUME row \in [Jobs -> Row], NEW s \in Slots, NEW j \in Jobs, NEW st \in InFlight,
           WorkerUpdateJobStatus(j, st), run'[s] # Idle
    PROVE  RowEffect(s, j)
<1>1. st \in JobStatus /\ st # "completed" /\ st # "absent"
  BY DEF JobStatus, InFlight
<1>2. row'[j].st \in {row[j].st} \cup InFlight
  BY <1>1, StatusWriteEffect
<1>3. row'[j].st # "completed"
  BY <1>1, StatusWriteEffect
<1>4. \A k \in Jobs :
        /\ row'[k].mode = row[k].mode /\ row'[k].fresh = row[k].fresh
        /\ k # j => row'[k].st = row[k].st
  BY <1>1, StatusWriteEffect
<1>5. \A k \in Jobs : row'[k].st = "absent" <=> row[k].st = "absent"
  BY <1>1, StatusWriteEffect
<1>6. QED
  BY <1>2, <1>3, <1>4, <1>5 DEF RowEffect

\* A write of a settled or pending status by a goroutine that returns.
LEMMA RowEnds ==
    ASSUME row \in [Jobs -> Row], NEW s \in Slots, NEW j \in Jobs,
           NEW st \in JobStatus \ InFlight, st = "completed" => run[s].at = "complete",
           WorkerUpdateJobStatus(j, st), run'[s] = Idle
    PROVE  RowEffect(s, j)
<1>1. st \in JobStatus /\ "absent" \notin InFlight
  BY DEF InFlight
<1>2. row'[j].st \notin InFlight
  BY <1>1, StatusWriteEffect
<1>3. row'[j].st = "completed" => run[s].at = "complete"
  BY <1>1, StatusWriteEffect
<1>4. \A k \in Jobs :
        /\ row'[k].mode = row[k].mode /\ row'[k].fresh = row[k].fresh
        /\ k # j => row'[k].st = row[k].st
  BY <1>1, StatusWriteEffect
<1>5. \A k \in Jobs : row'[k].st = "absent" <=> row[k].st = "absent"
  BY <1>1, StatusWriteEffect
<1>6. QED
  BY <1>2, <1>3, <1>4, <1>5 DEF RowEffect

\* A step that only moves the goroutine on.
LEMMA MoveEffect ==
    ASSUME TypeOK, NEW s \in Slots, run[s] # Idle, Elsewhere,
           UNCHANGED <<row, resume>>, Fault \/ NoFault,
           NEW step \in RunSteps \ {"insert", "complete"}, Goto(s, step)
    PROVE  RunEffect(s)
<1>1. /\ run'[s].v = run[s].v /\ run'[s].at = step
      /\ \A t \in Slots : t # s => run'[t] = run[t]
      /\ run'[s] # Idle
  BY GotoEffect DEF TypeOK
<1>2. faults' >= faults
  BY FaultType DEF TypeOK
<1>3. SlotEffect(s)
  BY <1>1, <1>2 DEF SlotEffect, Elsewhere
<1>4. QED
  BY <1>1, <1>3, RowKept, ResumeKept DEF RunEffect

\* A step that writes an in-flight status, if the write lands, and moves on.
LEMMA ProgressEffect ==
    ASSUME TypeOK, NEW s \in Slots, run[s] # Idle, Elsewhere, UNCHANGED resume,
           NEW st \in InFlight, TryStatus(run[s].v.id, st),
           NEW step \in RunSteps \ {"insert", "complete"}, Goto(s, step)
    PROVE  RunEffect(s)
<1>1. /\ run'[s].v = run[s].v /\ run'[s].at = step
      /\ \A t \in Slots : t # s => run'[t] = run[t]
      /\ run'[s] # Idle
  BY GotoEffect DEF TypeOK
<1>2. faults' >= faults
  BY FaultType DEF TypeOK, TryStatus
<1>3. SlotEffect(s)
  BY <1>1, <1>2 DEF SlotEffect, Elsewhere
<1>4. RowEffect(s, run[s].v.id)
  BY <1>1, LiveRunType, RowProgresses, RowKept DEF TryStatus, TypeOK
<1>5. QED
  BY <1>1, <1>3, <1>4, ResumeKept DEF RunEffect

\* A step that writes a status outside InFlight, if the write lands, and ends
\* the goroutine.
LEMMA EndEffect ==
    ASSUME TypeOK, NEW s \in Slots, run[s] # Idle, Elsewhere, UNCHANGED resume,
           NEW st \in JobStatus \ InFlight, TryStatus(run[s].v.id, st),
           st = "completed" => run[s].at = "complete",
           Return(s)
    PROVE  RunEffect(s)
<1>1. run'[s] = Idle /\ \A t \in Slots : t # s => run'[t] = run[t]
  BY ReturnEffect DEF TypeOK
<1>2. faults' >= faults
  BY FaultType DEF TypeOK, TryStatus
<1>3. SlotEffect(s)
  BY <1>1, <1>2 DEF SlotEffect, Elsewhere
<1>4. RowEffect(s, run[s].v.id)
  <2>1. CASE WorkerUpdateJobStatus(run[s].v.id, st)
    BY <1>1, <2>1, LiveRunType, RowEnds DEF TypeOK
  <2>2. CASE Fault /\ UNCHANGED row
    BY <2>2, RowKept DEF Fault, TypeOK
  <2>3. QED
    BY <2>1, <2>2 DEF TryStatus
<1>5. QED
  BY <1>1, <1>3, <1>4, ResumeKept DEF RunEffect

LEMMA RunStepEffect ==
    ASSUME TypeOK, NEW s \in Slots, RunStep(s)
    PROVE  RunEffect(s)
<1> DEFINE j == run[s].v.id
<1>1. run[s] # Idle
  BY DEF RunStep, BeginRun, BeginFails, EnterScrapingBasic, EnterScrapingNl,
         ReadingFails, Scraped, SaveScrape, CheckMatch, ReuseGeneration, Generate,
         GenerateRefused, InsertResume, CompleteJob, FailJob, Settle,
         SetRateLimit, Requeue, At
<1>2. j \in Jobs /\ run[s] \in LiveRun
  BY <1>1, LiveRunType
<1>3. CASE BeginRun(s)
  BY <1>1, <1>3, ProgressEffect DEF BeginRun, TryStatus, NoFault, InFlight, RunSteps
<1>4. CASE BeginFails(s)
  <2>1. run'[s] = Idle /\ \A t \in Slots : t # s => run'[t] = run[t]
    BY <1>4, ReturnEffect DEF BeginFails, TypeOK
  <2>2. faults' > faults /\ faults' >= faults
    BY <1>4 DEF BeginFails, Fault, TypeOK
  <2>3. UNCHANGED <<row, resume, phase, queue, created>>
    BY <1>4 DEF BeginFails, Elsewhere
  <2>4. SlotEffect(s)
    BY <1>1, <2>1, <2>2, <2>3 DEF SlotEffect
  <2>5. QED
    BY <2>1, <2>2, <2>3, <2>4, RowKept, ResumeKept DEF RunEffect
<1>5. CASE EnterScrapingBasic(s)
  BY <1>1, <1>5, ProgressEffect DEF EnterScrapingBasic, InFlight, RunSteps
<1>6. CASE EnterScrapingNl(s)
  BY <1>1, <1>6, ProgressEffect DEF EnterScrapingNl, InFlight, RunSteps
<1>7. CASE ReadingFails(s)
  BY <1>1, <1>7, MoveEffect DEF ReadingFails, RunSteps, NoFault
<1>8. CASE \E outcome \in {"save", "limited", "fail"} : Scraped(s, outcome)
  BY <1>1, <1>8, MoveEffect DEF Scraped, RunSteps, NoFault
<1>9. CASE SaveScrape(s)
  <2>1. CASE WorkerUpdateJob(run[s].v) /\ NoFault /\ Goto(s, "matched")
    <3>1. \A k \in Jobs : /\ row'[k].mode = row[k].mode
                           /\ row'[k].fresh = row[k].fresh
                           /\ row'[k].st = row[k].st
      BY <1>2, <2>1 DEF WorkerUpdateJob, Present, TypeOK, Row
    <3>2. /\ run'[s].v = run[s].v /\ run'[s].at = "matched"
          /\ \A t \in Slots : t # s => run'[t] = run[t]
          /\ run'[s] # Idle
      BY <1>1, <2>1, GotoEffect DEF TypeOK, RunSteps
    <3>3. UNCHANGED <<phase, queue, created, resume>> /\ faults' >= faults
      BY <1>9, <2>1 DEF SaveScrape, Elsewhere, NoFault, TypeOK
    <3>4. SlotEffect(s)
      BY <1>1, <3>2, <3>3 DEF SlotEffect
    <3>5. \A k \in Jobs : RowEffect(s, k)
      BY <3>1, <3>2 DEF RowEffect
    <3>6. QED
      BY <1>2, <3>2, <3>3, <3>4, <3>5, ResumeKept DEF RunEffect
  <2>2. CASE Fault /\ UNCHANGED row /\ Goto(s, "fail")
    BY <1>1, <1>9, <2>2, MoveEffect DEF SaveScrape, RunSteps
  <2>3. QED
    BY <1>9, <2>1, <2>2 DEF SaveScrape
<1>10. CASE \E outcome \in {"generate", "fail"} : CheckMatch(s, outcome)
  BY <1>1, <1>10, MoveEffect DEF CheckMatch, RunSteps, NoFault
<1>11. CASE ReuseGeneration(s)
  <2>1. /\ run'[s].v = run[s].v /\ run'[s].at = "insert" /\ run'[s] # Idle
        /\ \A t \in Slots : t # s => run'[t] = run[t]
    BY <1>1, <1>11, GotoInsertEffect DEF ReuseGeneration, TypeOK
  <2>2. UNCHANGED <<row, resume, phase, queue, created>> /\ faults' >= faults
    BY <1>11 DEF ReuseGeneration, Elsewhere, TypeOK
  <2>3. SlotEffect(s)
    BY <1>1, <1>11, <2>1, <2>2 DEF SlotEffect, ReuseGeneration
  <2>4. QED
    BY <2>1, <2>2, <2>3, RowKept, ResumeKept DEF RunEffect
<1>12. CASE Generate(s)
  <2>1. /\ run'[s].v = run[s].v /\ run'[s].at = "insert" /\ run'[s] # Idle
        /\ run'[s].cached = FALSE
        /\ \A t \in Slots : t # s => run'[t] = run[t]
    BY <1>1, <1>12, GotoInsertEffect DEF Generate, TypeOK
  <2>2. UNCHANGED <<row, resume, phase, queue, created>>
    BY <1>12 DEF Generate, Elsewhere
  <2>3. faults' >= faults
    BY <1>12, FaultType DEF Generate, TypeOK
  <2>4. SlotEffect(s)
    BY <1>1, <2>1, <2>2, <2>3 DEF SlotEffect
  <2>5. QED
    BY <2>1, <2>2, <2>4, RowKept, ResumeKept DEF RunEffect
<1>13. CASE \E outcome \in {"limited", "fail"} : GenerateRefused(s, outcome)
  BY <1>1, <1>13, MoveEffect DEF GenerateRefused, RunSteps, NoFault
<1>14. CASE InsertResume(s)
  <2>1. CASE UNCHANGED resume /\ (Fault \/ NoFault) /\ Goto(s, "fail")
    BY <1>1, <1>14, <2>1, MoveEffect DEF InsertResume, RunSteps
  <2>2. CASE /\ resume' = [resume EXCEPT ![j] = Inserted(s)]
             /\ Goto(s, "complete") /\ NoFault
    <3>1. /\ run'[s].v = run[s].v /\ run'[s].at = "complete" /\ run'[s] # Idle
          /\ \A t \in Slots : t # s => run'[t] = run[t]
      BY <1>1, <2>2, GotoEffect DEF TypeOK, RunSteps
    <3>2. UNCHANGED <<row, phase, queue, created>> /\ faults' >= faults
      BY <1>14, <2>2 DEF InsertResume, Elsewhere, NoFault, TypeOK
    <3>3. resume'[j] = Inserted(s) /\ \A k \in Jobs : k # j => resume'[k] = resume[k]
      BY <1>2, <2>2 DEF TypeOK
    <3>4. run[s].at = "insert"
      BY <1>14 DEF InsertResume, At
    <3>5. SlotEffect(s)
      BY <1>1, <3>1, <3>2 DEF SlotEffect
    <3>6. ResumeEffect(s, j)
      BY <3>1, <3>3, <3>4 DEF ResumeEffect
    <3>7. QED
      BY <3>1, <3>2, <3>5, <3>6, RowKept DEF RunEffect
  <2>3. QED
    BY <1>14, <2>1, <2>2 DEF InsertResume, Inserted, NoFault
<1>15. CASE CompleteJob(s)
  BY <1>1, <1>15, EndEffect
     DEF CompleteJob, Settle, At, JobStatus, Settled, InFlight
<1>16. CASE FailJob(s)
  BY <1>1, <1>16, EndEffect DEF FailJob, Settle, JobStatus, Settled, InFlight
<1>17. CASE SetRateLimit(s)
  BY <1>1, <1>17, MoveEffect DEF SetRateLimit, RunSteps
<1>18. CASE Requeue(s)
  BY <1>1, <1>18, EndEffect DEF Requeue, JobStatus, InFlight
<1>19. QED
  BY <1>3, <1>4, <1>5, <1>6, <1>7, <1>8, <1>9, <1>10, <1>11, <1>12, <1>13, <1>14,
     <1>15, <1>16, <1>17, <1>18 DEF RunStep
-----------------------------------------------------------------------------
(* OneRunPerJob *)

\* Between batches nothing is queued and nothing runs.
LoopShape == phase # "batch" => queue = {} /\ \A s \in Slots : run[s] = Idle

DistinctIds == \A v, w \in queue : v.id = w.id => v = w

\* The snapshots of a batch differ in their ids because the rows do, and no
\* batch is selected while a goroutine of the last one lives.
OneRunInv == TypeOK /\ LoopShape /\ DistinctIds /\ OneRunPerJob

LEMMA SelectedIds ==
    ASSUME NEW v \in {Snap(j) : j \in WorkerSelectPendingJobs}
    PROVE  v.id \in Jobs /\ row[v.id].st = "pending" /\ v = Snap(v.id)
<1>1. PICK j \in WorkerSelectPendingJobs : v = Snap(j)
  OBVIOUS
<1>2. j \in Jobs /\ row[j].st = "pending" /\ v.id = j
  BY <1>1 DEF WorkerSelectPendingJobs, Pending, Snap
<1>3. QED
  BY <1>1, <1>2

LEMMA OneRunStep == OneRunInv /\ [Next]_vars => OneRunInv'
<1> SUFFICES ASSUME OneRunInv, [Next]_vars PROVE OneRunInv'
  OBVIOUS
<1>1. TypeOK /\ TypeOK'
  <2>1. CASE UNCHANGED vars
    BY <2>1 DEF vars, TypeOK, OneRunInv
  <2>2. CASE Next
    BY <2>2, TypeLoop, TypeSpawn, TypeRun, TypeOutside DEF Next, OneRunInv
  <2>3. QED
    BY <2>1, <2>2 DEF OneRunInv
<1>2. CASE UNCHANGED <<phase, queue, run>>
  BY <1>1, <1>2 DEF OneRunInv, LoopShape, DistinctIds, OneRunPerJob, IsLive, Owned
<1>3. CASE queue' = {} /\ \A s \in Slots : run'[s] = Idle
  BY <1>1, <1>3 DEF OneRunInv, LoopShape, DistinctIds, OneRunPerJob, IsLive, Owned
<1>4. CASE SelectBatch
  <2>1. DistinctIds'
    BY <1>4, SelectedIds DEF SelectBatch, DistinctIds
  <2>2. \A s \in Slots : run'[s] = Idle
    BY <1>4 DEF SelectBatch, OneRunInv, LoopShape
  <2>3. QED
    BY <1>1, <1>4, <2>1, <2>2 DEF SelectBatch, OneRunInv, LoopShape, OneRunPerJob, IsLive, Owned
<1>5. ASSUME NEW s \in Slots, Spawn(s) PROVE OneRunInv'
  <2>1. PICK v \in queue :
          /\ queue' = queue \ {v}
          /\ run' = [run EXCEPT ![s] = [at |-> "begin", v |-> v, cached |-> FALSE]]
    BY <1>5 DEF Spawn
  <2>2. run'[s].v = v /\ \A t \in Slots : t # s => run'[t] = run[t]
    BY <1>1, <2>1 DEF TypeOK
  <2>3. \A t \in Slots : IsLive(t) => run[t].v.id # v.id
    BY DEF OneRunInv, OneRunPerJob, Owned
  <2>4. \A w \in queue' : w.id # v.id /\ ~Owned(w.id)
    BY <2>1 DEF OneRunInv, DistinctIds, OneRunPerJob
  <2>5. OneRunPerJob'
    BY <2>2, <2>3, <2>4 DEF OneRunInv, OneRunPerJob, IsLive, Owned
  <2>6. QED
    BY <1>1, <1>5, <2>1, <2>5 DEF Spawn, OneRunInv, LoopShape, DistinctIds
<1>6. ASSUME NEW s \in Slots, RunStep(s) PROVE OneRunInv'
  <2>1. SlotEffect(s)
    BY <1>1, <1>6, RunStepEffect DEF RunEffect
  <2>2. \A t \in Slots : run'[t] # Idle => run[t] # Idle /\ run'[t].v = run[t].v
    BY <2>1 DEF SlotEffect
  <2>3. OneRunPerJob'
    BY <2>1, <2>2 DEF SlotEffect, OneRunInv, OneRunPerJob, IsLive, Owned
  <2>4. QED
    BY <1>1, <2>1, <2>2, <2>3 DEF SlotEffect, OneRunInv, LoopShape, DistinctIds
<1>7. CASE Tick \/ SkipWhilePaused \/ SelectFails \/ EndBatch \/ Restart
  BY <1>3, <1>7 DEF Tick, SkipWhilePaused, SelectFails, EndBatch, Restart, OneRunInv, LoopShape
<1>8. CASE \/ CreateJob \/ PauseEnds
           \/ \E j \in Jobs : \/ DeleteJob(j) \/ UpdateFullJob(j)
                              \/ RetryJobProcessing(j)
                              \/ AnnounceRetry(j) \/ GrowStale(j)
  BY <1>2, <1>8 DEF CreateJob, PauseEnds, DeleteJob, UpdateFullJob, RetryJobProcessing,
                    AnnounceRetry, GrowStale, WorkerIdle
<1>9. CASE UNCHANGED vars
  BY <1>2, <1>9 DEF vars
<1>10. QED
  BY <1>4, <1>5, <1>6, <1>7, <1>8, <1>9 DEF Next

\* No two goroutines ever work on one job, and no queued snapshot is of a job
\* being worked on, however many slots, retries, failures and restarts.
THEOREM OneRunPerJobHolds == Spec => []OneRunPerJob
<1>1. Init => OneRunInv
  BY TypeInit DEF Init, OneRunInv, LoopShape, DistinctIds, OneRunPerJob, IsLive, Owned
<1>2. OneRunInv => OneRunPerJob
  BY DEF OneRunInv
<1>3. QED
  BY <1>1, <1>2, OneRunStep, PTL DEF Spec
-----------------------------------------------------------------------------
(* What one step that is not a goroutine's can do to a row *)

SameRow(k) ==
    /\ row'[k].mode = row[k].mode /\ row'[k].fresh = row[k].fresh
    /\ resume'[k] = resume[k]

OutsideRow(k) ==
    \/ row'[k].st = row[k].st /\ SameRow(k)
    \/ row'[k].st = "absent"
    \/ row[k].st = "processing" /\ row'[k].st = "pending" /\ SameRow(k)
    \/ row[k].st \in RetryFrom /\ row'[k].st = "pending" /\ resume'[k] = resume[k]
    \/ row'[k].st = "pending" /\ k = created + 1 /\ created' = created + 1

OutsideEffect ==
    /\ \A k \in Jobs : OutsideRow(k)
    /\ created' \in {created, created + 1}
    /\ faults' >= faults

LoopStep == Tick \/ SkipWhilePaused \/ SelectBatch \/ SelectFails \/ EndBatch
            \/ \E s \in Slots : Spawn(s)
UserStep == \E j \in Jobs : DeleteJob(j) \/ UpdateFullJob(j) \/ RetryJobProcessing(j)
                            \/ AnnounceRetry(j) \/ GrowStale(j)

LEMMA StepIsOutside ==
    ASSUME TypeOK, LoopStep \/ UserStep \/ CreateJob \/ PauseEnds \/ Restart
    PROVE  OutsideEffect
<1>1. ASSUME row' = row, resume' = resume PROVE \A k \in Jobs : OutsideRow(k)
  BY <1>1 DEF OutsideRow, SameRow
<1>2. faults' = faults \/ Fault => faults' >= faults
  BY DEF Fault, TypeOK
<1>3. CASE Tick
  <2>1. CASE WorkerRecoverStuckJobs
    <3>1. ASSUME NEW k \in Jobs PROVE OutsideRow(k)
      <4>1. /\ row'[k] = IF row[k].st = "processing" /\ row[k].stale
                         THEN [row[k] EXCEPT !.st = "pending", !.stale = FALSE]
                         ELSE row[k]
            /\ row[k] \in Row /\ resume'[k] = resume[k]
        BY <1>3, <2>1 DEF WorkerRecoverStuckJobs, Tick, TypeOK
      <4>2. QED
        BY <4>1 DEF OutsideRow, SameRow, Row
    <3>2. QED
      BY <1>2, <1>3, <3>1 DEF Tick, OutsideEffect, NoFault
  <2>2. CASE row' = row
    BY <1>1, <1>2, <1>3, <2>2 DEF Tick, OutsideEffect, NoFault
  <2>3. QED
    BY <1>3, <2>1, <2>2 DEF Tick
<1>4. CASE \/ SkipWhilePaused \/ SelectBatch \/ SelectFails \/ EndBatch
           \/ \E s \in Slots : Spawn(s)
  BY <1>1, <1>2, <1>4
     DEF SkipWhilePaused, SelectBatch, SelectFails, EndBatch, Spawn, OutsideEffect, NoFault
<1>5. CASE PauseEnds \/ Restart
  BY <1>1, <1>2, <1>5 DEF PauseEnds, Restart, OutsideEffect
<1>6. CASE CreateJob
  <2>1. /\ created + 1 \in Jobs /\ created' = created + 1
        /\ resume' = resume /\ faults' = faults
    BY <1>6, PipelineAssumption DEF CreateJob, TypeOK, Jobs
  <2>2. row'[created + 1].st = "pending"
        /\ \A k \in Jobs : k # created + 1 => row'[k] = row[k]
    BY <1>6, <2>1 DEF CreateJob, TypeOK
  <2>3. \A k \in Jobs : OutsideRow(k)
    BY <2>1, <2>2 DEF OutsideRow, SameRow
  <2>4. QED
    BY <1>2, <2>1, <2>3 DEF OutsideEffect
<1>7. ASSUME NEW j \in Jobs, DeleteJob(j) PROVE OutsideEffect
  <2>1. row'[j].st = "absent"
        /\ \A k \in Jobs : k # j => row'[k] = row[k] /\ resume'[k] = resume[k]
    BY <1>7 DEF DeleteJob, TypeOK, Row
  <2>2. \A k \in Jobs : OutsideRow(k)
    BY <2>1 DEF OutsideRow, SameRow
  <2>3. QED
    BY <1>2, <1>7, <2>2 DEF DeleteJob, OutsideEffect
<1>8. ASSUME NEW j \in Jobs, UpdateFullJob(j) PROVE OutsideEffect
  <2>1. \A k \in Jobs : row'[k].st = row[k].st /\ row'[k].mode = row[k].mode
                        /\ row'[k].fresh = row[k].fresh
    BY <1>8 DEF UpdateFullJob, TypeOK, Row
  <2>2. \A k \in Jobs : OutsideRow(k)
    BY <1>8, <2>1 DEF OutsideRow, SameRow, UpdateFullJob
  <2>3. QED
    BY <1>2, <1>8, <2>2 DEF UpdateFullJob, OutsideEffect
<1>9. ASSUME NEW j \in Jobs, RetryJobProcessing(j) PROVE OutsideEffect
  <2>1. row'[j].st = "pending" /\ \A k \in Jobs : k # j => row'[k] = row[k]
    BY <1>9 DEF RetryJobProcessing, TypeOK, Row
  <2>2. row[j].st \in RetryFrom /\ resume' = resume /\ faults' = faults
        /\ created' = created
    BY <1>9 DEF RetryJobProcessing
  <2>3. \A k \in Jobs : OutsideRow(k)
    BY <2>1, <2>2 DEF OutsideRow, SameRow
  <2>4. QED
    BY <1>2, <2>2, <2>3 DEF OutsideEffect
<1>10. ASSUME NEW j \in Jobs, AnnounceRetry(j) PROVE OutsideEffect
  BY <1>1, <1>2, <1>10 DEF AnnounceRetry, OutsideEffect
<1>11. ASSUME NEW j \in Jobs, GrowStale(j) PROVE OutsideEffect
  <2>1. \A k \in Jobs : row'[k].st = row[k].st /\ row'[k].mode = row[k].mode
                        /\ row'[k].fresh = row[k].fresh
    BY <1>11 DEF GrowStale, TypeOK, Row
  <2>2. \A k \in Jobs : OutsideRow(k)
    BY <1>11, <2>1 DEF OutsideRow, SameRow, GrowStale
  <2>3. QED
    BY <1>2, <1>11, <2>2 DEF GrowStale, OutsideEffect
<1>12. QED
  BY <1>3, <1>4, <1>5, <1>6, <1>7, <1>8, <1>9, <1>10, <1>11 DEF LoopStep, UserStep

-----------------------------------------------------------------------------
(* InFlightIsOwned *)

OwnedInv == OneRunInv /\ InFlightIsOwned

LEMMA OwnedStep == OwnedInv /\ [Next]_vars => OwnedInv'
<1> SUFFICES ASSUME OwnedInv, [Next]_vars PROVE OwnedInv'
  OBVIOUS
<1>1. OneRunInv' /\ TypeOK
  BY OneRunStep DEF OwnedInv, OneRunInv
<1>0. faults \in Nat /\ faults' \in Nat
  BY <1>1, PipelineAssumption DEF OneRunInv, TypeOK
<1>2. ASSUME OutsideEffect, run' = run PROVE InFlightIsOwned'
  <2>1. SUFFICES ASSUME NEW k \in Jobs, row'[k].st \in InFlight, ~Owned(k)'
                 PROVE  faults' > 0
    BY DEF InFlightIsOwned
  <2>2. row[k].st \in InFlight
    BY <1>2, <2>1 DEF OutsideEffect, OutsideRow, InFlight
  <2>3. ~Owned(k)
    BY <1>2, <2>1 DEF Owned, IsLive
  <2>4. QED
    BY <1>0, <1>2, <2>2, <2>3 DEF OwnedInv, InFlightIsOwned, OutsideEffect
<1>3. CASE LoopStep /\ run' = run
  BY <1>1, <1>2, <1>3, StepIsOutside DEF OwnedInv
<1>4. CASE UserStep \/ CreateJob \/ PauseEnds
  BY <1>1, <1>2, <1>4, StepIsOutside
     DEF OwnedInv, UserStep, CreateJob, PauseEnds, DeleteJob, UpdateFullJob,
         RetryJobProcessing, AnnounceRetry, GrowStale, WorkerIdle
<1>5. CASE Restart
  BY <1>1, <1>5 DEF Restart, Fault, TypeOK, OwnedInv, InFlightIsOwned
<1>6. ASSUME NEW s \in Slots, Spawn(s) PROVE OwnedInv'
  <2>1. \A t \in Slots : run[t] # Idle => run'[t] = run[t]
    BY <1>6 DEF Spawn
  <2>2. QED
    BY <1>1, <1>6, <2>1 DEF Spawn, OwnedInv, InFlightIsOwned, Owned, IsLive
<1>7. ASSUME NEW s \in Slots, RunStep(s) PROVE OwnedInv'
  <2>1. SlotEffect(s) /\ RowEffect(s, run[s].v.id)
    BY <1>1, <1>7, RunStepEffect DEF RunEffect
  <2>2. SUFFICES ASSUME NEW k \in Jobs, row'[k].st \in InFlight, ~Owned(k)'
                 PROVE  faults' > 0
    BY <1>1 DEF OwnedInv, InFlightIsOwned
  <2>3. CASE k = run[s].v.id
    <3>1. run'[s] = Idle
      BY <2>1, <2>2, <2>3 DEF SlotEffect, Owned, IsLive
    <3>2. faults' > faults
      BY <2>1, <2>2, <2>3, <3>1 DEF RowEffect
    <3>3. QED
      BY <1>0, <3>2
  <2>4. CASE k # run[s].v.id
    <3>1. row[k].st \in InFlight
      BY <2>1, <2>2, <2>4 DEF RowEffect
    <3>2. ~Owned(k)
      BY <2>1, <2>2, <2>4 DEF SlotEffect, Owned, IsLive
    <3>3. QED
      BY <1>0, <2>1, <3>1, <3>2 DEF OwnedInv, InFlightIsOwned, SlotEffect
  <2>5. QED
    BY <2>3, <2>4
<1>8. CASE UNCHANGED vars
  BY <1>1, <1>8 DEF vars, OwnedInv, InFlightIsOwned, Owned, IsLive
<1>9. CASE Next
  <2>1. Tick \/ SkipWhilePaused \/ SelectBatch \/ SelectFails \/ EndBatch
          => LoopStep /\ run' = run
    BY DEF LoopStep, Tick, SkipWhilePaused, SelectBatch, SelectFails, EndBatch
  <2>2. QED
    BY <1>3, <1>4, <1>5, <1>6, <1>7, <1>9, <2>1 DEF Next, UserStep
<1>10. QED
  BY <1>8, <1>9

\* Unless a call failed or the process went down, a row in an in-flight status
\* always has a goroutine: no path of processarJob forgets its row.
THEOREM InFlightIsOwnedHolds == Spec => []InFlightIsOwned
<1>1. Init => OwnedInv
  <2>1. Init => OneRunInv
    BY TypeInit DEF Init, OneRunInv, LoopShape, DistinctIds, OneRunPerJob, IsLive, Owned
  <2>2. Init => InFlightIsOwned
    BY DEF Init, InFlightIsOwned, InFlight
  <2>3. QED
    BY <2>1, <2>2 DEF OwnedInv
<1>2. OwnedInv => InFlightIsOwned
  BY DEF OwnedInv
<1>3. QED
  BY <1>1, <1>2, OwnedStep, PTL DEF Spec
-----------------------------------------------------------------------------
(* CompletedHasResume *)

\* Snapshots are of rows that were inserted: no id is ever handed out twice.
KnownIds ==
    /\ \A j \in Jobs : j > created => row[j].st = "absent"
    /\ \A v \in queue : v.id <= created
    /\ \A s \in Slots : IsLive(s) => run[s].v.id <= created

\* A goroutine about to complete its job has inserted a resume, which only the
\* deletion of the job takes away.
DoneHasResume ==
    \A s \in Slots : At(s, "complete") =>
        row[run[s].v.id].st = "absent" \/ resume[run[s].v.id] # NoResume

CompletedInv == OneRunInv /\ KnownIds /\ DoneHasResume /\ CompletedHasResume

\* What one step that is not a goroutine's can do to the snapshots.
HeldEffect ==
    /\ \A v \in queue' :
         \/ v \in queue
         \/ /\ v.id \in Jobs /\ row[v.id].st = "pending" /\ v = Snap(v.id)
            /\ row' = row /\ resume' = resume
    /\ \A s \in Slots : run'[s] # Idle =>
         run'[s] = run[s] \/ (run'[s].at = "begin" /\ run'[s].v \in queue)

LEMMA StepHolds ==
    ASSUME TypeOK, LoopStep \/ UserStep \/ CreateJob \/ PauseEnds \/ Restart
    PROVE  HeldEffect
<1>1. CASE UNCHANGED <<queue, run>>
  BY <1>1 DEF HeldEffect
<1>2. CASE SelectBatch
  BY <1>2, SelectedIds DEF SelectBatch, HeldEffect
<1>3. ASSUME NEW s \in Slots, Spawn(s) PROVE HeldEffect
  <2>1. PICK v \in queue :
          /\ queue' = queue \ {v}
          /\ run' = [run EXCEPT ![s] = [at |-> "begin", v |-> v, cached |-> FALSE]]
    BY <1>3 DEF Spawn
  <2>2. run'[s].at = "begin" /\ run'[s].v = v
        /\ \A t \in Slots : t # s => run'[t] = run[t]
    BY <2>1 DEF TypeOK
  <2>3. QED
    BY <2>1, <2>2 DEF HeldEffect
<1>4. CASE Restart
  BY <1>4 DEF Restart, HeldEffect
<1>5. QED
  BY <1>1, <1>2, <1>3, <1>4
     DEF LoopStep, UserStep, Tick, SkipWhilePaused, SelectFails, EndBatch, CreateJob,
         PauseEnds, DeleteJob, UpdateFullJob, RetryJobProcessing, AnnounceRetry,
         GrowStale, WorkerIdle

LEMMA NextSplits ==
    ASSUME [Next]_vars
    PROVE  \/ LoopStep \/ UserStep \/ CreateJob \/ PauseEnds \/ Restart
           \/ \E s \in Slots : RunStep(s)
           \/ UNCHANGED vars
BY DEF Next, LoopStep, UserStep

LEMMA CompletedOutside ==
    ASSUME CompletedInv, OneRunInv', OutsideEffect, HeldEffect
    PROVE  CompletedInv'
<1>1. /\ created \in Nat /\ created' \in Nat /\ \A j \in Jobs : j \in Nat
      /\ "absent" \notin RetryFrom /\ "completed" # "absent"
  BY PipelineAssumption
     DEF CompletedInv, OneRunInv, TypeOK, Jobs, JobStatus, InFlight, Settled
<1>2. KnownIds'
  <2>1. ASSUME NEW j \in Jobs, j > created' PROVE row'[j].st = "absent"
    <3>1. (j > created /\ j # created + 1) \/ created' = created
      BY <1>1, <2>1 DEF OutsideEffect
    <3>2. row[j].st = "absent"
      BY <1>1, <2>1, <3>1 DEF CompletedInv, KnownIds, OutsideEffect
    <3>3. OutsideRow(j)
      BY DEF OutsideEffect
    <3>4. QED
      BY <1>1, <2>1, <3>1, <3>2, <3>3 DEF OutsideRow
  <2>2. ASSUME NEW v \in queue' PROVE v.id <= created
    <3>1. v.id \in Jobs /\ row[v.id].st = "pending" => v.id <= created
      BY <1>1 DEF CompletedInv, KnownIds
    <3>2. QED
      BY <2>2, <3>1 DEF HeldEffect, CompletedInv, KnownIds
  <2>3. ASSUME NEW s \in Slots, run'[s] # Idle PROVE run'[s].v.id <= created
    BY <2>3 DEF HeldEffect, CompletedInv, KnownIds, IsLive
  <2>4. \A k \in Jobs : k <= created => k <= created'
    BY <1>1 DEF OutsideEffect
  <2>5. (\A v \in queue' : v.id \in Jobs)
        /\ \A s \in Slots : run'[s] # Idle => run'[s].v.id \in Jobs
    BY DEF OneRunInv, TypeOK, Snapshot, LiveRun
  <2>6. QED
    BY <2>1, <2>2, <2>3, <2>4, <2>5 DEF KnownIds, IsLive
<1>3. DoneHasResume'
  <2>1. SUFFICES ASSUME NEW s \in Slots, run'[s] # Idle, run'[s].at = "complete",
                        row'[run'[s].v.id].st # "absent"
                 PROVE  resume'[run'[s].v.id] # NoResume
    BY DEF DoneHasResume, At
  <2>2. run'[s] = run[s] /\ run[s] # Idle /\ run[s].at = "complete"
    BY <2>1 DEF HeldEffect
  <2>3. PICK k \in Jobs : k = run[s].v.id /\ k <= created
    BY <2>2 DEF CompletedInv, OneRunInv, TypeOK, LiveRun, Snapshot, KnownIds, IsLive
  <2>4. OutsideRow(k) /\ k # created + 1 /\ row'[k].st # "absent"
    BY <1>1, <2>1, <2>2, <2>3 DEF OutsideEffect
  <2>5. resume'[k] = resume[k] /\ row[k].st # "absent"
    BY <1>1, <2>4 DEF OutsideRow, SameRow
  <2>6. QED
    BY <2>2, <2>3, <2>5 DEF CompletedInv, DoneHasResume, At
<1>4. CompletedHasResume'
  BY DEF CompletedInv, CompletedHasResume, OutsideEffect, OutsideRow, SameRow
<1>5. QED
  BY <1>2, <1>3, <1>4 DEF CompletedInv

LEMMA CompletedRun ==
    ASSUME CompletedInv, OneRunInv', NEW s \in Slots, RunEffect(s)
    PROVE  CompletedInv'
<1>1. PICK j \in Jobs : j = run[s].v.id
  BY DEF RunEffect, SlotEffect, CompletedInv, OneRunInv, TypeOK, LiveRun, Snapshot
<1>2. SlotEffect(s) /\ RowEffect(s, j) /\ ResumeEffect(s, j)
  BY <1>1 DEF RunEffect
<1>3. Inserted(s) # NoResume
  BY DEF Inserted, NoResume
<1>4. \A t \in Slots : run'[t] # Idle => run[t] # Idle /\ run'[t].v = run[t].v
  BY <1>2 DEF SlotEffect
<1>5. KnownIds'
  BY <1>2, <1>4 DEF CompletedInv, KnownIds, IsLive, SlotEffect, RowEffect
<1>6. DoneHasResume'
  <2>1. SUFFICES ASSUME NEW t \in Slots, run'[t] # Idle, run'[t].at = "complete"
                 PROVE  row'[run'[t].v.id].st = "absent" \/ resume'[run'[t].v.id] # NoResume
    BY DEF DoneHasResume, At
  <2>2. CASE t = s
    BY <1>1, <1>2, <1>3, <1>4, <2>1, <2>2 DEF ResumeEffect
  <2>3. CASE t # s
    <3>1. run'[t] = run[t]
      BY <1>2, <2>3 DEF SlotEffect
    <3>2. PICK k \in Jobs : k = run[t].v.id
      BY <1>4, <2>1 DEF CompletedInv, OneRunInv, TypeOK, LiveRun, Snapshot
    <3>3. k # j
      BY <1>1, <1>2, <1>4, <2>1, <2>3, <3>2
         DEF CompletedInv, OneRunInv, OneRunPerJob, IsLive, SlotEffect
    <3>4. row'[k].st = row[k].st /\ resume'[k] = resume[k]
      BY <1>2, <3>3 DEF RowEffect, ResumeEffect
    <3>5. QED
      BY <1>4, <2>1, <3>1, <3>2, <3>4 DEF CompletedInv, DoneHasResume, At
  <2>4. QED
    BY <2>2, <2>3
<1>7. CompletedHasResume'
  <2>1. SUFFICES ASSUME NEW k \in Jobs, row'[k].st = "completed"
                 PROVE  resume'[k] # NoResume
    BY DEF CompletedHasResume
  <2>2. CASE k # j
    BY <1>2, <2>1, <2>2 DEF RowEffect, ResumeEffect, CompletedInv, CompletedHasResume
  <2>3. CASE k = j
    <3>1. resume'[j] = resume[j] \/ resume'[j] = Inserted(s)
      BY <1>2 DEF ResumeEffect
    <3>2. row[j].st = "completed" \/ run[s].at = "complete"
      BY <1>2, <2>1, <2>3 DEF RowEffect
    <3>3. row[j].st # "absent"
      BY <1>2, <2>1, <2>3 DEF RowEffect
    <3>4. resume[j] # NoResume
      BY <1>1, <1>2, <3>2, <3>3
         DEF CompletedInv, CompletedHasResume, DoneHasResume, At, SlotEffect
    <3>5. QED
      BY <1>3, <2>3, <3>1, <3>4
  <2>4. QED
    BY <2>2, <2>3
<1>8. QED
  BY <1>5, <1>6, <1>7 DEF CompletedInv

LEMMA CompletedStep == CompletedInv /\ [Next]_vars => CompletedInv'
<1> SUFFICES ASSUME CompletedInv, [Next]_vars PROVE CompletedInv'
  OBVIOUS
<1>1. OneRunInv' /\ TypeOK
  BY OneRunStep DEF CompletedInv, OneRunInv
<1>2. CASE UNCHANGED vars
  BY <1>1, <1>2
     DEF vars, CompletedInv, KnownIds, DoneHasResume, CompletedHasResume, At, IsLive
<1>3. CASE LoopStep \/ UserStep \/ CreateJob \/ PauseEnds \/ Restart
  BY <1>1, <1>3, StepIsOutside, StepHolds, CompletedOutside
<1>4. ASSUME NEW s \in Slots, RunStep(s) PROVE CompletedInv'
  BY <1>1, <1>4, RunStepEffect, CompletedRun
<1>5. QED
  BY <1>2, <1>3, <1>4, NextSplits

LEMMA CompletedInit == Init => CompletedInv
<1>1. Init => OneRunInv
  BY TypeInit DEF Init, OneRunInv, LoopShape, DistinctIds, OneRunPerJob, IsLive, Owned
<1>2. Init => KnownIds /\ DoneHasResume /\ CompletedHasResume
  BY DEF Init, KnownIds, DoneHasResume, CompletedHasResume, At, IsLive
<1>3. QED
  BY <1>1, <1>2 DEF CompletedInv

\* A job recorded as completed has a resume, whatever calls fail, whenever the
\* process restarts, and whoever retries, edits or deletes meanwhile.
THEOREM CompletedHasResumeHolds == Spec => []CompletedHasResume
<1>1. CompletedInv => CompletedHasResume
  BY DEF CompletedInv
<1>2. QED
  BY <1>1, CompletedInit, CompletedStep, PTL DEF Spec

-----------------------------------------------------------------------------
(* CompletedServesRequest *)

\* While a snapshot of a job is queued or worked on, the row is not settled and
\* still asks for what the snapshot asks for, if clients retry settled jobs only.
Agrees(v) ==
    \/ row[v.id].st = "absent"
    \/ row[v.id].st \notin Settled /\ row[v.id].mode = v.mode /\ row[v.id].fresh = v.fresh

Answers(v) ==
    /\ resume[v.id] # NoResume
    /\ resume[v.id].of.mode = v.mode
    /\ v.fresh => ~resume[v.id].cached

ServeInv ==
    /\ CompletedInv
    /\ \A v \in queue : Agrees(v)
    /\ \A s \in Slots : IsLive(s) =>
         /\ Agrees(run[s].v)
         /\ run[s].at = "insert" /\ run[s].cached => ~run[s].v.fresh
         /\ run[s].at = "complete" =>
              row[run[s].v.id].st = "absent" \/ Answers(run[s].v)
    /\ CompletedServesRequest

LEMMA ServeOutside ==
    ASSUME ServeInv, CompletedInv', OutsideEffect, HeldEffect, RetryFrom \subseteq Settled
    PROVE  ServeInv'
<1>1. /\ created \in Nat /\ \A j \in Jobs : j \in Nat
      /\ \A st \in Settled : st # "absent" /\ st # "pending" /\ st # "processing"
      /\ "completed" \in Settled
  BY PipelineAssumption
     DEF ServeInv, CompletedInv, OneRunInv, TypeOK, Jobs, Settled
<1>2. ASSUME NEW v, v.id \in Jobs, v.id <= created, Agrees(v) PROVE Agrees(v)'
  <2>1. PICK k \in Jobs : k = v.id
    BY <1>2
  <2>2. OutsideRow(k) /\ k # created + 1
    BY <1>1, <1>2, <2>1 DEF OutsideEffect
  <2>3. QED
    BY <1>1, <1>2, <2>1, <2>2 DEF OutsideRow, SameRow, Agrees
<1>3. ASSUME NEW v \in queue PROVE Agrees(v)'
  BY <1>2 DEF ServeInv, CompletedInv, KnownIds, OneRunInv, TypeOK, Snapshot
<1>4. ASSUME NEW v \in queue' PROVE Agrees(v)'
  <2>1. CASE v \in queue
    BY <1>3, <2>1
  <2>2. CASE /\ v.id \in Jobs /\ row[v.id].st = "pending" /\ v = Snap(v.id)
             /\ row' = row
    <3>1. v.mode = row[v.id].mode /\ v.fresh = row[v.id].fresh
      BY <2>2 DEF Snap
    <3>2. QED
      BY <1>1, <2>2, <3>1 DEF Agrees
  <2>3. QED
    BY <1>4, <2>1, <2>2 DEF HeldEffect
<1>5. ASSUME NEW s \in Slots, run'[s] # Idle
      PROVE  /\ Agrees(run[s].v)'
             /\ (run[s].at = "insert" /\ run[s].cached => ~run[s].v.fresh)'
             /\ (run[s].at = "complete" =>
                   row[run[s].v.id].st = "absent" \/ Answers(run[s].v))'
  <2>1. CASE run'[s].at = "begin" /\ run'[s].v \in queue
    <3>1. Agrees(run[s].v)'
      BY <1>3, <2>1
    <3>2. QED
      BY <2>1, <3>1
  <2>2. CASE run'[s] = run[s]
    <3>1. PICK v \in Snapshot : v = run[s].v /\ v.id <= created /\ Agrees(v)
      BY <1>5, <2>2 DEF ServeInv, CompletedInv, OneRunInv, TypeOK, LiveRun, KnownIds, IsLive
    <3>2. v.id \in Jobs
      BY DEF Snapshot
    <3>3. Agrees(v)' /\ OutsideRow(v.id) /\ v.id # created + 1
      BY <1>1, <1>2, <3>1, <3>2 DEF OutsideEffect
    <3>4. run[s].at = "insert" /\ run[s].cached => ~run[s].v.fresh
      BY <1>5, <2>2 DEF ServeInv, IsLive
    <3>5. ASSUME run[s].at = "complete" PROVE row'[v.id].st = "absent" \/ Answers(v)'
      <4>1. row[v.id].st = "absent" \/ Answers(v)
        BY <1>5, <2>2, <3>1, <3>5 DEF ServeInv, IsLive
      <4>2. row'[v.id].st = "absent"
            \/ (row[v.id].st # "absent" /\ resume'[v.id] = resume[v.id])
        BY <1>1, <3>3 DEF OutsideRow, SameRow
      <4>3. QED
        BY <4>1, <4>2 DEF Answers
    <3>6. QED
      BY <2>2, <3>1, <3>3, <3>4, <3>5
  <2>3. QED
    BY <1>5, <2>1, <2>2 DEF HeldEffect
<1>6. CompletedServesRequest'
  <2>1. SUFFICES ASSUME NEW k \in Jobs, row'[k].st = "completed"
                 PROVE  /\ resume'[k] # NoResume
                        /\ resume'[k].of.mode = row'[k].mode
                        /\ row'[k].fresh => ~resume'[k].cached
    BY DEF CompletedServesRequest
  <2>2. row[k].st = "completed" /\ SameRow(k)
    BY <2>1 DEF OutsideEffect, OutsideRow
  <2>3. QED
    BY <2>2 DEF SameRow, ServeInv, CompletedServesRequest
<1>7. QED
  BY <1>4, <1>5, <1>6 DEF ServeInv, IsLive

LEMMA ServeRun ==
    ASSUME ServeInv, CompletedInv', NEW s \in Slots, RunEffect(s)
    PROVE  ServeInv'
<1>1. PICK j \in Jobs : j = run[s].v.id
  BY DEF RunEffect, SlotEffect, ServeInv, CompletedInv, OneRunInv, TypeOK, LiveRun, Snapshot
<1>2. SlotEffect(s) /\ RowEffect(s, j) /\ ResumeEffect(s, j)
  BY <1>1 DEF RunEffect
<1>3. \A t \in Slots : run'[t] # Idle => run[t] # Idle /\ run'[t].v = run[t].v
  BY <1>2 DEF SlotEffect
<1>4. \A st \in InFlight : st \notin Settled
  BY DEF InFlight, Settled
<1>5. ASSUME NEW v, v.id \in Jobs, v.id # j, Agrees(v) PROVE Agrees(v)'
  BY <1>2, <1>5 DEF RowEffect, Agrees
<1>6. ASSUME NEW v \in queue' PROVE Agrees(v)'
  <2>1. v \in queue /\ v.id \in Jobs /\ Agrees(v)
    BY <1>2, <1>6 DEF SlotEffect, ServeInv, CompletedInv, OneRunInv, TypeOK, Snapshot
  <2>2. v.id # j
    BY <1>1, <1>2, <2>1
       DEF SlotEffect, ServeInv, CompletedInv, OneRunInv, OneRunPerJob, Owned, IsLive
  <2>3. QED
    BY <1>5, <2>1, <2>2
<1>7. ASSUME NEW t \in Slots, run'[t] # Idle
      PROVE  /\ Agrees(run[t].v)'
             /\ (run[t].at = "insert" /\ run[t].cached => ~run[t].v.fresh)'
             /\ (run[t].at = "complete" =>
                   row[run[t].v.id].st = "absent" \/ Answers(run[t].v))'
  <2>1. PICK v \in Snapshot : v = run[t].v /\ v = run'[t].v /\ Agrees(v)
    BY <1>3, <1>7 DEF ServeInv, CompletedInv, OneRunInv, TypeOK, LiveRun, IsLive
  <2>2. v.id \in Jobs
    BY DEF Snapshot
  <2>3. CASE t = s
    <3>1. row'[j].st \in {row[j].st} \cup InFlight
      BY <1>2, <1>7, <2>3 DEF RowEffect
    <3>2. Agrees(v)'
      BY <1>1, <1>2, <1>4, <2>1, <2>2, <2>3, <3>1 DEF RowEffect, Agrees
    <3>3. run'[t].at = "insert" /\ run'[t].cached => ~v.fresh
      BY <1>2, <1>7, <2>1, <2>3 DEF SlotEffect
    <3>4. ASSUME run'[t].at = "complete" PROVE Answers(v)'
      <4>1. resume'[j] = Inserted(s) /\ run[s].at = "insert" /\ run[s] # Idle
        BY <1>2, <1>7, <2>3, <3>4 DEF ResumeEffect, SlotEffect
      <4>2. run[s].cached => ~v.fresh
        BY <2>1, <2>3, <4>1 DEF ServeInv, IsLive
      <4>3. resume'[j] # NoResume /\ resume'[j].of.mode = v.mode
            /\ resume'[j].cached = run[s].cached
        <5>1. Inserted(s).of.mode = run[s].v.mode /\ Inserted(s).cached = run[s].cached
          BY DEF Inserted, Key
        <5>2. Inserted(s) # NoResume
          BY DEF Inserted, NoResume
        <5>3. QED
          BY <2>1, <2>3, <4>1, <5>1, <5>2
      <4>4. QED
        BY <1>1, <2>1, <2>3, <4>2, <4>3 DEF Answers
    <3>5. QED
      BY <2>1, <3>2, <3>3, <3>4
  <2>4. CASE t # s
    <3>1. run'[t] = run[t] /\ run[t] # Idle
      BY <1>2, <1>7, <2>4 DEF SlotEffect
    <3>2. v.id # j
      BY <1>1, <1>2, <2>1, <2>4, <3>1
         DEF SlotEffect, ServeInv, CompletedInv, OneRunInv, OneRunPerJob, IsLive
    <3>3. Agrees(v)'
      BY <1>5, <2>1, <2>2, <3>2
    <3>4. row'[v.id].st = row[v.id].st /\ resume'[v.id] = resume[v.id]
      BY <1>2, <2>2, <3>2 DEF RowEffect, ResumeEffect
    <3>5. /\ run[t].at = "insert" /\ run[t].cached => ~run[t].v.fresh
          /\ run[t].at = "complete" => row[v.id].st = "absent" \/ Answers(v)
      BY <2>1, <3>1 DEF ServeInv, IsLive
    <3>6. Answers(v) => Answers(v)'
      BY <3>4 DEF Answers
    <3>7. QED
      BY <2>1, <3>1, <3>3, <3>4, <3>5, <3>6
  <2>5. QED
    BY <2>3, <2>4
<1>8. CompletedServesRequest'
  <2>1. SUFFICES ASSUME NEW k \in Jobs, row'[k].st = "completed"
                 PROVE  /\ resume'[k] # NoResume
                        /\ resume'[k].of.mode = row'[k].mode
                        /\ row'[k].fresh => ~resume'[k].cached
    BY DEF CompletedServesRequest
  <2>2. row'[k].mode = row[k].mode /\ row'[k].fresh = row[k].fresh
    BY <1>2 DEF RowEffect
  <2>3. CASE k # j
    BY <1>2, <2>1, <2>2, <2>3 DEF RowEffect, ResumeEffect, ServeInv, CompletedServesRequest
  <2>4. CASE k = j
    <3>1. /\ Agrees(run[s].v)
          /\ run[s].at = "complete" => row[j].st = "absent" \/ Answers(run[s].v)
      BY <1>1, <1>2 DEF SlotEffect, ServeInv, IsLive
    <3>2. row[j].st # "absent"
      BY <1>2, <2>1, <2>4 DEF RowEffect
    <3>3. row[j].st \notin Settled /\ row[j].mode = run[s].v.mode
          /\ row[j].fresh = run[s].v.fresh
      BY <1>1, <3>1, <3>2 DEF Agrees
    <3>4. run[s].at = "complete"
      BY <1>2, <2>1, <2>4, <3>3 DEF RowEffect, Settled
    <3>5. resume'[j] = resume[j] /\ Answers(run[s].v)
      BY <1>2, <3>1, <3>2, <3>4 DEF ResumeEffect
    <3>6. QED
      BY <1>1, <2>2, <2>4, <3>3, <3>5 DEF Answers
  <2>5. QED
    BY <2>3, <2>4
<1>9. QED
  BY <1>6, <1>7, <1>8 DEF ServeInv, IsLive

LEMMA ServeStep ==
    ASSUME RetryFrom \subseteq Settled
    PROVE  ServeInv /\ [Next]_vars => ServeInv'
<1> SUFFICES ASSUME ServeInv, [Next]_vars PROVE ServeInv'
  OBVIOUS
<1>1. CompletedInv' /\ TypeOK
  BY CompletedStep DEF ServeInv, CompletedInv, OneRunInv
<1>2. CASE UNCHANGED vars
  BY <1>1, <1>2
     DEF vars, ServeInv, CompletedServesRequest, Agrees, Answers, IsLive
<1>3. CASE LoopStep \/ UserStep \/ CreateJob \/ PauseEnds \/ Restart
  BY <1>1, <1>3, StepIsOutside, StepHolds, ServeOutside
<1>4. ASSUME NEW s \in Slots, RunStep(s) PROVE ServeInv'
  BY <1>1, <1>4, RunStepEffect, ServeRun
<1>5. QED
  BY <1>2, <1>3, <1>4, NextSplits

\* If clients retry settled jobs only, as the pages do, a completed job holds
\* the resume its row asks for: the right mode, and never a reused answer when
\* a new version was asked for.
THEOREM CompletedServesRequestHolds ==
    ASSUME RetryFrom \subseteq Settled
    PROVE  Spec => []CompletedServesRequest
<1>1. Init => ServeInv
  <2>1. Init => queue = {} /\ (\A s \in Slots : ~IsLive(s)) /\ CompletedServesRequest
    BY DEF Init, IsLive, CompletedServesRequest
  <2>2. QED
    BY <2>1, CompletedInit DEF ServeInv
<1>2. ServeInv => CompletedServesRequest
  BY DEF ServeInv
<1>3. QED
  BY <1>1, <1>2, ServeStep, PTL DEF Spec

\* For the same clients, settled work stays settled until a retry or a deletion:
\* no goroutine of an earlier attempt comes back to it.
THEOREM SettledStaysSettledHolds ==
    ASSUME RetryFrom \subseteq Settled
    PROVE  Spec => SettledStaysSettled
<1>1. ServeInv /\ [Next]_vars =>
        [\A j \in Jobs : row[j].st \in Settled =>
           row'[j].st \in {row[j].st, "pending", "absent"}]_vars
  <2> SUFFICES ASSUME ServeInv, [Next]_vars, NEW j \in Jobs, row[j].st \in Settled
               PROVE  row'[j].st \in {row[j].st, "pending", "absent"}
    OBVIOUS
  <2>1. TypeOK
    BY DEF ServeInv, CompletedInv, OneRunInv
  <2>2. CASE UNCHANGED vars
    BY <2>2 DEF vars
  <2>3. CASE LoopStep \/ UserStep \/ CreateJob \/ PauseEnds \/ Restart
    <3>1. OutsideRow(j)
      BY <2>1, <2>3, StepIsOutside DEF OutsideEffect
    <3>2. QED
      BY <3>1 DEF OutsideRow
  <2>4. ASSUME NEW s \in Slots, RunStep(s)
        PROVE  row'[j].st \in {row[j].st, "pending", "absent"}
    <3>1. SlotEffect(s) /\ RowEffect(s, run[s].v.id)
      BY <2>1, <2>4, RunStepEffect DEF RunEffect
    <3>2. row[j].st # "absent"
      BY DEF Settled
    <3>3. j # run[s].v.id
      BY <3>1, <3>2 DEF SlotEffect, ServeInv, Agrees, IsLive
    <3>4. QED
      BY <3>1, <3>3 DEF RowEffect
  <2>5. QED
    BY <2>2, <2>3, <2>4, NextSplits
<1>2. Init => ServeInv
  <2>1. Init => queue = {} /\ (\A s \in Slots : ~IsLive(s)) /\ CompletedServesRequest
    BY DEF Init, IsLive, CompletedServesRequest
  <2>2. QED
    BY <2>1, CompletedInit DEF ServeInv
<1>3. QED
  BY <1>1, <1>2, ServeStep, PTL DEF Spec, SettledStaysSettled

-----------------------------------------------------------------------------
(* JobPipeline implements JobLifecycle, for every number of jobs, places,  *)
(* batches, requests and failures, if clients retry settled jobs only.     *)

(* A row is pending until its goroutine begins and in flight from then on, *)
(* for as long as it exists.                                               *)

BusyRun(s) ==
    IF run[s].at = "begin" THEN row[run[s].v.id].st \in {"pending", "absent"}
    ELSE row[run[s].v.id].st \in InFlight \cup {"absent"}

BusyInv ==
    /\ ServeInv
    /\ \A v \in queue : row[v.id].st \in {"pending", "absent"}
    /\ \A s \in Slots : IsLive(s) => BusyRun(s)

\* The first call of a goroutine, and where each later one leaves it.
LEMMA BeginEffect ==
    ASSUME TypeOK, NEW s \in Slots, RunStep(s), NEW j \in Jobs, j = run[s].v.id
    PROVE  /\ run'[s] # Idle => run'[s].at # "begin"
           /\ run[s].at = "begin" =>
                \/ run'[s] # Idle /\ row'[j].st \in {"processing", "absent"}
                \/ run'[s] = Idle /\ row' = row
<1> USE DEF TypeOK
<1>1. CASE BeginRun(s)
  <2>1. run'[s].at = "basic"
    BY <1>1, GotoEffect DEF BeginRun, At, RunSteps
  <2>2. run'[s] # Idle
    BY <1>1, GotoEffect DEF BeginRun, At, RunSteps
  <2>3. row'[j].st \in {"processing", "absent"}
    BY <1>1, StatusWriteEffect DEF BeginRun, JobStatus, InFlight
  <2>4. QED
    BY <2>1, <2>2, <2>3
<1>2. CASE BeginFails(s)
  BY <1>2, ReturnEffect DEF BeginFails
<1>3. ASSUME NEW st \in RunSteps \ {"begin"}, At(s, st)
      PROVE  run[s] # Idle /\ run[s].at # "begin"
  BY <1>3 DEF At
<1>4. ASSUME NEW st \in RunSteps \ {"begin"}, run[s] # Idle, Goto(s, st)
      PROVE  run'[s].at # "begin"
  BY <1>4, GotoEffect
<1>5. ASSUME NEW hit \in BOOLEAN, run[s] # Idle, GotoInsert(s, hit)
      PROVE  run'[s].at # "begin"
  BY <1>5, GotoInsertEffect
<1>6. ASSUME Return(s) PROVE run'[s] = Idle
  BY <1>6, ReturnEffect
<1>7. CASE EnterScrapingBasic(s) \/ EnterScrapingNl(s) \/ ReadingFails(s)
  BY <1>3, <1>4, <1>7 DEF EnterScrapingBasic, EnterScrapingNl, ReadingFails, RunSteps
<1>8. ASSUME NEW outcome \in {"save", "limited", "fail"}, Scraped(s, outcome)
      PROVE  run[s].at # "begin" /\ run'[s].at # "begin"
  BY <1>3, <1>4, <1>8 DEF Scraped, RunSteps
<1>9. CASE SaveScrape(s)
  BY <1>3, <1>4, <1>9 DEF SaveScrape, RunSteps
<1>10. ASSUME NEW outcome \in {"generate", "fail"}, CheckMatch(s, outcome)
       PROVE  run[s].at # "begin" /\ run'[s].at # "begin"
  BY <1>3, <1>4, <1>10 DEF CheckMatch, RunSteps
<1>11. CASE ReuseGeneration(s) \/ Generate(s)
  BY <1>3, <1>5, <1>11 DEF ReuseGeneration, Generate, RunSteps
<1>12. ASSUME NEW outcome \in {"limited", "fail"}, GenerateRefused(s, outcome)
       PROVE  run[s].at # "begin" /\ run'[s].at # "begin"
  BY <1>3, <1>4, <1>12 DEF GenerateRefused, RunSteps
<1>13. CASE InsertResume(s) \/ SetRateLimit(s)
  BY <1>3, <1>4, <1>13 DEF InsertResume, SetRateLimit, RunSteps
<1>14. CASE CompleteJob(s) \/ FailJob(s) \/ Requeue(s)
  BY <1>3, <1>6, <1>14 DEF CompleteJob, FailJob, Settle, Requeue, RunSteps
<1>15. QED
  BY <1>1, <1>2, <1>7, <1>8, <1>9, <1>10, <1>11, <1>12, <1>13, <1>14 DEF RunStep

\* Only an insertion changes a resume, and it changes no row.
LEMMA InsertEffect ==
    ASSUME TypeOK, NEW s \in Slots, RunStep(s)
    PROVE  \/ resume' = resume
           \/ run[s].at = "insert" /\ Present(run[s].v.id) /\ row' = row
              /\ run'[s] # Idle
<1>1. CASE InsertResume(s)
  <2>1. run[s] # Idle
    BY <1>1 DEF InsertResume, At
  <2>2. CASE Goto(s, "complete")
    BY <1>1, <2>1, <2>2, GotoEffect DEF InsertResume, At, RunSteps, TypeOK
  <2>3. CASE Goto(s, "fail") /\ resume' = resume
    BY <2>3
  <2>4. QED
    BY <1>1, <2>2, <2>3 DEF InsertResume
<1>2. QED
  BY <1>1 DEF RunStep, BeginRun, BeginFails, EnterScrapingBasic, EnterScrapingNl,
     ReadingFails, Scraped, SaveScrape, CheckMatch, ReuseGeneration, Generate,
     GenerateRefused, CompleteJob, FailJob, Settle, SetRateLimit, Requeue

LEMMA BusyOutside ==
    ASSUME BusyInv, ServeInv', OutsideEffect, HeldEffect, RetryFrom \subseteq Settled,
           NEW k \in Jobs, k <= created, ~(row[k].st = "processing" /\ row'[k].st = "pending")
    PROVE  /\ row[k].st \in {"pending", "absent"} => row'[k].st \in {"pending", "absent"}
           /\ row[k].st \in InFlight \cup {"absent"} =>
                row'[k].st \in InFlight \cup {"absent"}
<1>1. OutsideRow(k)
  BY DEF OutsideEffect
<1>2. k # created + 1
  BY PipelineAssumption DEF Jobs, BusyInv, ServeInv, CompletedInv, OneRunInv, TypeOK
<1>3. \A st \in Settled : st \notin InFlight \cup {"pending", "absent"}
  BY DEF Settled, InFlight
<1>4. QED
  BY <1>1, <1>2, <1>3 DEF OutsideRow

LEMMA BusyStep ==
    ASSUME RetryFrom \subseteq Settled
    PROVE  BusyInv /\ [Next]_vars => BusyInv'
<1> SUFFICES ASSUME BusyInv, [Next]_vars PROVE BusyInv'
  OBVIOUS
<1>1. ServeInv /\ ServeInv' /\ CompletedInv /\ OneRunInv /\ TypeOK
  BY ServeStep DEF BusyInv, ServeInv, CompletedInv, OneRunInv
<1>2. CASE UNCHANGED vars
  BY <1>1, <1>2 DEF vars, BusyInv, BusyRun, IsLive
<1>3. CASE Tick
  <2>1. queue' = {} /\ \A s \in Slots : run'[s] = Idle
    BY <1>1, <1>3 DEF Tick, OneRunInv, LoopShape
  <2>2. QED
    BY <1>1, <2>1 DEF BusyInv, IsLive
<1>4. ASSUME LoopStep \/ UserStep \/ CreateJob \/ PauseEnds \/ Restart, ~Tick
      PROVE  BusyInv'
  <2>1. OutsideEffect /\ HeldEffect
    BY <1>1, <1>4, StepIsOutside, StepHolds
  <2>2. ASSUME NEW k \in Jobs
        PROVE  ~(row[k].st = "processing" /\ row'[k].st = "pending")
    <3>1. \A st \in RetryFrom : st # "processing"
      BY DEF Settled
    <3>2. CASE UNCHANGED row
      BY <3>2
    <3>3. ASSUME NEW j \in Jobs,
                 DeleteJob(j) \/ UpdateFullJob(j) \/ RetryJobProcessing(j) \/ GrowStale(j)
          PROVE  ~(row[k].st = "processing" /\ row'[k].st = "pending")
      <4>1. CASE k # j
        BY <1>1, <3>3, <4>1
           DEF DeleteJob, UpdateFullJob, RetryJobProcessing, GrowStale, TypeOK
      <4>2. CASE k = j /\ (DeleteJob(j) \/ UpdateFullJob(j) \/ GrowStale(j))
        BY <1>1, <4>2 DEF DeleteJob, UpdateFullJob, GrowStale, TypeOK, Row
      <4>3. CASE k = j /\ RetryJobProcessing(j)
        BY <3>1, <4>3 DEF RetryJobProcessing
      <4>4. QED
        BY <3>3, <4>1, <4>2, <4>3
    <3>4. CASE CreateJob
      <4>1. CASE k # created + 1
        BY <1>1, <3>4, <4>1 DEF CreateJob, TypeOK
      <4>2. CASE k = created + 1
        BY <1>1, <4>2, PipelineAssumption DEF CompletedInv, KnownIds, TypeOK, Jobs
      <4>3. QED
        BY <4>1, <4>2
    <3>5. QED
      BY <1>4, <3>2, <3>3, <3>4
         DEF LoopStep, UserStep, SkipWhilePaused, SelectBatch, SelectFails, EndBatch,
             Spawn, PauseEnds, AnnounceRetry, Restart
  <2>3. ASSUME NEW k \in Jobs, k <= created
        PROVE  /\ row[k].st \in {"pending", "absent"} => row'[k].st \in {"pending", "absent"}
               /\ row[k].st \in InFlight \cup {"absent"} =>
                    row'[k].st \in InFlight \cup {"absent"}
    BY <1>1, <2>1, <2>2, <2>3, BusyOutside
  <2>4. ASSUME NEW v \in queue
        PROVE  v.id \in Jobs /\ v.id <= created /\ row'[v.id].st \in {"pending", "absent"}
    <3>1. v.id \in Jobs /\ v.id <= created /\ row[v.id].st \in {"pending", "absent"}
      BY <1>1 DEF BusyInv, CompletedInv, KnownIds, TypeOK, Snapshot
    <3>2. QED
      BY <2>3, <3>1
  <2>5. ASSUME NEW v \in queue' PROVE row'[v.id].st \in {"pending", "absent"}
    BY <2>1, <2>4, <2>5 DEF HeldEffect
  <2>6. ASSUME NEW s \in Slots, run'[s] # Idle PROVE BusyRun(s)'
    <3>1. CASE run'[s].at = "begin" /\ run'[s].v \in queue
      BY <2>4, <3>1 DEF BusyRun
    <3>2. CASE run'[s] = run[s]
      <4>1. PICK k \in Jobs : k = run[s].v.id /\ k <= created
        BY <1>1, <2>6, <3>2 DEF CompletedInv, KnownIds, TypeOK, LiveRun, Snapshot, IsLive
      <4>2. BusyRun(s)
        BY <2>6, <3>2 DEF BusyInv, IsLive
      <4>3. QED
        BY <2>3, <3>2, <4>1, <4>2 DEF BusyRun
    <3>3. QED
      BY <2>1, <2>6, <3>1, <3>2 DEF HeldEffect
  <2>7. QED
    BY <1>1, <2>5, <2>6 DEF BusyInv, IsLive
<1>5. ASSUME NEW s \in Slots, RunStep(s) PROVE BusyInv'
  <2>1. SlotEffect(s) /\ RowEffect(s, run[s].v.id)
    BY <1>1, <1>5, RunStepEffect DEF RunEffect
  <2>2. PICK j \in Jobs : j = run[s].v.id
    BY <1>1, <2>1 DEF SlotEffect, TypeOK, LiveRun, Snapshot
  <2>3. /\ run'[s] # Idle => run'[s].at # "begin"
        /\ run[s].at = "begin" =>
             \/ run'[s] # Idle /\ row'[j].st \in {"processing", "absent"}
             \/ run'[s] = Idle /\ row' = row
    BY <1>1, <1>5, <2>2, BeginEffect
  <2>4. ASSUME NEW v \in queue' PROVE row'[v.id].st \in {"pending", "absent"}
    <3>1. v \in queue /\ v.id \in Jobs
      BY <1>1, <2>1, <2>4 DEF SlotEffect, TypeOK, Snapshot
    <3>2. v.id # j
      BY <1>1, <2>1, <2>2, <3>1 DEF SlotEffect, OneRunInv, OneRunPerJob, Owned, IsLive
    <3>3. QED
      BY <2>1, <2>2, <3>1, <3>2 DEF RowEffect, BusyInv
  <2>5. ASSUME NEW t \in Slots, run'[t] # Idle PROVE BusyRun(t)'
    <3>1. CASE t = s
      <4>1. run'[s].v = run[s].v /\ run'[s].at # "begin"
        BY <2>1, <2>3, <2>5, <3>1 DEF SlotEffect
      <4>2. row'[j].st \in InFlight \cup {"absent"}
        <5>1. CASE run[s].at = "begin"
          BY <2>3, <2>5, <3>1, <5>1 DEF InFlight
        <5>2. CASE run[s].at # "begin"
          <6>1. row[j].st \in InFlight \cup {"absent"}
            BY <2>1, <2>2, <5>2 DEF SlotEffect, BusyInv, BusyRun, IsLive
          <6>2. row'[j].st \in {row[j].st} \cup InFlight
            BY <2>1, <2>2, <2>5, <3>1 DEF RowEffect
          <6>3. QED
            BY <6>1, <6>2
        <5>3. QED
          BY <5>1, <5>2
      <4>3. QED
        BY <2>2, <3>1, <4>1, <4>2 DEF BusyRun
    <3>2. CASE t # s
      <4>1. run'[t] = run[t] /\ BusyRun(t)
        BY <2>1, <2>5, <3>2 DEF SlotEffect, BusyInv, IsLive
      <4>2. run[t].v.id \in Jobs /\ run[t].v.id # j
        BY <1>1, <2>1, <2>2, <2>5, <3>2, <4>1
           DEF SlotEffect, TypeOK, LiveRun, Snapshot, OneRunInv, OneRunPerJob, IsLive
      <4>3. row'[run[t].v.id].st = row[run[t].v.id].st
        BY <2>1, <2>2, <4>2 DEF RowEffect
      <4>4. QED
        BY <4>1, <4>3 DEF BusyRun
    <3>3. QED
      BY <3>1, <3>2
  <2>6. QED
    BY <1>1, <2>4, <2>5 DEF BusyInv, IsLive
<1>6. QED
  BY <1>2, <1>3, <1>4, <1>5, NextSplits

-----------------------------------------------------------------------------
(* The steps of JobLifecycle, in terms of a row and its resume *)

SameRequest(k) == row'[k].mode = row[k].mode /\ row'[k].fresh = row[k].fresh

LEMMA Views ==
    ASSUME TypeOK, NEW k \in Jobs
    PROVE  /\ Status[k] = IF row[k].st \in InFlight THEN "working" ELSE row[k].st
           /\ Asked[k] = [mode |-> row[k].mode, fresh |-> row[k].fresh]
           /\ Result[k] = IF resume[k] = NoResume THEN {}
                          ELSE {[mode |-> resume[k].of.mode, reused |-> resume[k].cached]}
           /\ Asked[k] \in Lifecycle!Request
           /\ Status[k] = "working" <=> row[k].st \in InFlight
<1>1. row[k].st \in JobStatus \cup {"absent"} /\ row[k].mode \in Modes
      /\ row[k].fresh \in BOOLEAN
  BY DEF TypeOK, Row
<1>2. QED
  BY <1>1 DEF Status, Asked, Result, Lifecycle!Request, JobStatus, InFlight, Settled

\* Rows that keep their status, or move between in-flight ones, stutter.
LEMMA LifeKeeps ==
    ASSUME TypeOK, TypeOK', NEW k \in Jobs,
           row'[k].st = row[k].st \/ {row[k].st, row'[k].st} \subseteq InFlight,
           SameRequest(k), resume'[k] = resume[k]
    PROVE  Lifecycle!Live(k)
<1>1. Status'[k] = Status[k] /\ Asked'[k] = Asked[k] /\ Result'[k] = Result[k]
  BY Views DEF SameRequest, Status, Asked, Result
<1>2. QED
  BY <1>1 DEF Lifecycle!Live, Lifecycle!Becomes, Lifecycle!Keeps

LEMMA LifeMoves ==
    ASSUME TypeOK, TypeOK', NEW k \in Jobs, SameRequest(k), resume'[k] = resume[k],
           \/ row[k].st = "pending" /\ row'[k].st \in InFlight
           \/ row[k].st \in InFlight /\ row'[k].st \in {"pending", "error"}
    PROVE  Lifecycle!Live(k)
<1>1. Asked'[k] = Asked[k] /\ Result'[k] = Result[k]
  BY Views DEF SameRequest, Asked, Result
<1>2. \/ Status[k] = "pending" /\ Status'[k] = "working"
      \/ Status[k] = "working" /\ Status'[k] \in {"pending", "error"}
  BY DEF Status, InFlight
<1>3. QED
  BY <1>1, <1>2 DEF Lifecycle!Live, Lifecycle!Becomes, Lifecycle!Keeps,
     Lifecycle!TakeUp, Lifecycle!GiveBack, Lifecycle!Fail

LEMMA LifeCompletes ==
    ASSUME TypeOK, TypeOK', NEW k \in Jobs, SameRequest(k), resume'[k] = resume[k],
           row[k].st \in InFlight, row'[k].st = "completed",
           resume[k] # NoResume, resume[k].of.mode = row[k].mode,
           row[k].fresh => ~resume[k].cached
    PROVE  Lifecycle!Live(k)
<1>1. Asked'[k] = Asked[k] /\ Result'[k] = Result[k]
  BY Views DEF SameRequest, Asked, Result
<1>2. Status[k] = "working" /\ Status'[k] = "completed"
  BY DEF Status, InFlight
<1>3. Result[k] = {[mode |-> row[k].mode, reused |-> resume[k].cached]}
  BY Views
<1>4. Lifecycle!Serves(Result[k], Asked[k])
  <2>1. Asked[k].mode = row[k].mode /\ Asked[k].fresh = row[k].fresh
    BY DEF Asked
  <2>2. PICK r : r = [mode |-> row[k].mode, reused |-> resume[k].cached]
    OBVIOUS
  <2>3. r \in Result[k] /\ r.mode = Asked[k].mode /\ (Asked[k].fresh => ~r.reused)
    BY <1>3, <2>1, <2>2
  <2>4. QED
    BY <2>3 DEF Lifecycle!Serves
<1>5. QED
  BY <1>1, <1>2, <1>4 DEF Lifecycle!Live, Lifecycle!Becomes, Lifecycle!Keeps,
     Lifecycle!Complete

LEMMA LifeDelivers ==
    ASSUME TypeOK, TypeOK', NEW k \in Jobs, SameRequest(k),
           row[k].st \in InFlight, row'[k].st \in InFlight,
           resume'[k] # NoResume, resume'[k].of.mode = row[k].mode,
           row[k].fresh => ~resume'[k].cached
    PROVE  Lifecycle!Live(k)
<1>1. Asked'[k] = Asked[k]
  BY Views DEF SameRequest, Asked
<1>2. Status[k] = "working" /\ Status'[k] = "working"
  BY DEF Status
<1>3. PICK r : r = [mode |-> row[k].mode, reused |-> resume'[k].cached]
  OBVIOUS
<1>4. resume'[k] \in Resume
  BY DEF TypeOK
<1>5. r \in Lifecycle!Result /\ Result'[k] = {r}
  BY <1>3, <1>4 DEF Resume, Request, Lifecycle!Result, Result, TypeOK, Row
<1>6. Lifecycle!Serves({r}, Asked[k])
  <2>1. Asked[k].mode = row[k].mode /\ Asked[k].fresh = row[k].fresh
    BY DEF Asked
  <2>2. r.mode = row[k].mode /\ r.reused = resume'[k].cached
    BY <1>3
  <2>3. r \in {r} /\ r.mode = Asked[k].mode /\ (Asked[k].fresh => ~r.reused)
    BY <2>1, <2>2
  <2>4. QED
    BY <2>3 DEF Lifecycle!Serves
<1>7. QED
  BY <1>1, <1>2, <1>5, <1>6 DEF Lifecycle!Live, Lifecycle!Becomes, Lifecycle!Deliver

LEMMA LifeAsked ==
    ASSUME TypeOK, TypeOK', NEW k \in Jobs, resume'[k] = resume[k], row'[k].st = "pending",
           \/ row[k].st \in Settled
           \/ row[k].st = "absent" /\ ~row'[k].fresh
    PROVE  Lifecycle!Live(k)
<1>1. Result'[k] = Result[k] /\ Asked'[k] \in Lifecycle!Request
      /\ Asked'[k].fresh = row'[k].fresh
  <2>1. Asked'[k] = [mode |-> row'[k].mode, fresh |-> row'[k].fresh]
        /\ row'[k].mode \in Modes /\ row'[k].fresh \in BOOLEAN
    BY DEF Asked, TypeOK, Row
  <2>2. QED
    BY <2>1 DEF Result, Lifecycle!Request
<1>2. Status'[k] = "pending" /\ Status[k] \in Settled \cup {"absent"}
      /\ (Status[k] = "absent" => ~row'[k].fresh)
  BY DEF Status, InFlight, Settled
<1>3. QED
  BY <1>1, <1>2 DEF Lifecycle!Live, Lifecycle!Becomes, Lifecycle!Retry, Lifecycle!Submit,
     Lifecycle!Settled, Settled

LEMMA LifeDeleted ==
    ASSUME TypeOK, TypeOK', NEW k \in Jobs, SameRequest(k), resume'[k] = NoResume,
           row[k].st # "absent", row'[k].st = "absent"
    PROVE  Lifecycle!Live(k)
<1>1. Asked'[k] = Asked[k] /\ Result'[k] = {}
  BY Views DEF SameRequest, Asked, Result
<1>2. Status'[k] = "absent" /\ Status[k] # "absent"
  BY DEF Status, InFlight
<1>3. QED
  BY <1>1, <1>2 DEF Lifecycle!Live, Lifecycle!Becomes, Lifecycle!Delete

-----------------------------------------------------------------------------
(* Every step of the pipeline *)

\* A goroutine moves its own job only, and as JobLifecycle allows.
LEMMA LifeRun ==
    ASSUME BusyInv, BusyInv', NEW s \in Slots, RunStep(s), NEW k \in Jobs
    PROVE  Lifecycle!Live(k)
<1>1. TypeOK /\ TypeOK' /\ ServeInv
  BY DEF BusyInv, ServeInv, CompletedInv, OneRunInv
<1>2. SlotEffect(s) /\ RowEffect(s, run[s].v.id) /\ ResumeEffect(s, run[s].v.id)
  BY <1>1, RunStepEffect DEF RunEffect
<1>3. PICK j \in Jobs : j = run[s].v.id
  BY <1>1, <1>2, LiveRunType DEF SlotEffect
<1>4. SameRequest(k)
  BY <1>2 DEF RowEffect, SameRequest
<1>5. CASE k # j
  <2>1. row'[k].st = row[k].st /\ resume'[k] = resume[k]
    BY <1>2, <1>3, <1>5 DEF RowEffect, ResumeEffect
  <2>2. QED
    BY <1>1, <1>4, <2>1, LifeKeeps
<1>6. CASE k = j /\ row[k].st = "absent"
  <2>1. row'[k].st = "absent"
    BY <1>2, <1>6 DEF RowEffect
  <2>2. resume' = resume
    BY <1>1, <1>3, <1>6, InsertEffect DEF Present
  <2>3. QED
    BY <1>1, <1>4, <1>6, <2>1, <2>2, LifeKeeps
<1>7. CASE k = j /\ row[k].st # "absent" /\ run[s].at = "begin"
  <2>1. row[k].st = "pending" /\ row'[k].st # "absent"
    BY <1>2, <1>3, <1>7 DEF SlotEffect, RowEffect, BusyInv, BusyRun, IsLive
  <2>2. resume' = resume
    BY <1>1, <1>7, InsertEffect
  <2>3. row'[k].st = "processing" \/ row' = row
    BY <1>1, <1>3, <1>7, <2>1, BeginEffect
  <2>4. CASE row'[k].st = "processing"
    BY <1>1, <1>4, <2>1, <2>2, <2>4, LifeMoves DEF InFlight
  <2>5. CASE row' = row
    BY <1>1, <1>4, <2>2, <2>5, LifeKeeps
  <2>6. QED
    BY <2>3, <2>4, <2>5
<1>8. CASE k = j /\ row[k].st # "absent" /\ run[s].at # "begin"
  <2>1. row[k].st \in InFlight /\ row'[k].st # "absent"
    BY <1>2, <1>3, <1>8 DEF SlotEffect, RowEffect, BusyInv, BusyRun, IsLive
  <2>2. row[k].mode = run[s].v.mode /\ row[k].fresh = run[s].v.fresh
    BY <1>1, <1>2, <1>3, <1>8 DEF ServeInv, Agrees, SlotEffect, IsLive
  <2>3. CASE run'[s] # Idle
    <3>1. row'[k].st \in InFlight
      BY <1>2, <1>3, <1>8, <2>1, <2>3 DEF RowEffect
    <3>2. CASE resume'[k] = resume[k]
      BY <1>1, <1>4, <2>1, <3>1, <3>2, LifeKeeps
    <3>3. CASE resume'[k] = Inserted(s) /\ run[s].at = "insert"
      <4>1. resume'[k] # NoResume /\ resume'[k].of.mode = run[s].v.mode
            /\ resume'[k].cached = run[s].cached
        BY <3>3 DEF Inserted, NoResume, Key
      <4>2. run[s].cached => ~run[s].v.fresh
        BY <1>1, <1>2, <3>3 DEF ServeInv, SlotEffect, IsLive
      <4>3. QED
        BY <1>1, <1>4, <2>1, <2>2, <3>1, <4>1, <4>2, LifeDelivers
    <3>4. QED
      BY <1>2, <1>3, <1>8, <3>2, <3>3 DEF ResumeEffect
  <2>4. CASE run'[s] = Idle
    <3>1. resume' = resume
      BY <1>1, <2>4, InsertEffect
    <3>2. CASE row'[k].st = row[k].st
      BY <1>1, <1>4, <3>1, <3>2, LifeKeeps
    <3>3. CASE row'[k].st \in {"pending", "error"}
      BY <1>1, <1>4, <2>1, <3>1, <3>3, LifeMoves
    <3>4. CASE row'[k].st = "completed"
      <4>1. row[k].st # "completed"
        BY <2>1 DEF InFlight
      <4>2. run[s].at = "complete"
        BY <1>2, <1>3, <1>8, <3>4, <4>1 DEF RowEffect
      <4>3. Answers(run[s].v)
        BY <1>1, <1>2, <1>3, <1>8, <4>2 DEF ServeInv, SlotEffect, IsLive
      <4>4. /\ resume[k] # NoResume /\ resume[k].of.mode = row[k].mode
            /\ row[k].fresh => ~resume[k].cached
        BY <1>3, <1>8, <2>2, <4>3 DEF Answers
      <4>5. QED
        BY <1>1, <1>4, <2>1, <3>1, <3>4, <4>4, LifeCompletes
    <3>5. row'[k].st = row[k].st \/ row'[k].st \in {"pending", "error", "completed"}
      <4>1. row'[k].st \in JobStatus
        BY <1>1, <2>1 DEF TypeOK, Row
      <4>2. row'[k].st = row[k].st \/ row'[k].st \notin InFlight
        BY <1>2, <1>3, <1>8, <2>4 DEF RowEffect
      <4>3. QED
        BY <4>1, <4>2 DEF JobStatus, Settled
    <3>6. QED
      BY <3>2, <3>3, <3>4, <3>5
  <2>5. QED
    BY <2>3, <2>4
<1>9. QED
  BY <1>5, <1>6, <1>7, <1>8

\* The loop, the users, time and restarts.
LEMMA LifeOutside ==
    ASSUME BusyInv, BusyInv', NEW k \in Jobs, RetryFrom \subseteq Settled,
           LoopStep \/ UserStep \/ CreateJob \/ PauseEnds \/ Restart
    PROVE  Lifecycle!Live(k)
<1>1. TypeOK /\ TypeOK' /\ KnownIds
  BY DEF BusyInv, ServeInv, CompletedInv, OneRunInv
<1>2. CASE UNCHANGED <<row, resume>>
  BY <1>1, <1>2, LifeKeeps DEF SameRequest
<1>3. CASE Tick
  <2>1. \/ row' = row
        \/ WorkerRecoverStuckJobs
    BY <1>3 DEF Tick
  <2>2. resume' = resume
    BY <1>3 DEF Tick
  <2>3. CASE row' = row
    BY <1>2, <2>2, <2>3
  <2>4. CASE WorkerRecoverStuckJobs
    <3>1. \/ row'[k] = row[k]
          \/ /\ row[k].st = "processing"
             /\ row'[k] = [row[k] EXCEPT !.st = "pending", !.stale = FALSE]
      BY <2>4 DEF WorkerRecoverStuckJobs
    <3>2. CASE row'[k] = row[k]
      BY <1>1, <2>2, <3>2, LifeKeeps DEF SameRequest
    <3>3. CASE /\ row[k].st = "processing"
               /\ row'[k] = [row[k] EXCEPT !.st = "pending", !.stale = FALSE]
      <4>1. row[k] \in Row
        BY <1>1 DEF TypeOK
      <4>2. SameRequest(k) /\ row'[k].st = "pending"
        BY <3>3, <4>1 DEF SameRequest, Row
      <4>3. QED
        BY <1>1, <2>2, <3>3, <4>2, LifeMoves DEF InFlight
    <3>4. QED
      BY <3>1, <3>2, <3>3
  <2>5. QED
    BY <2>1, <2>3, <2>4
<1>4. ASSUME NEW j \in Jobs, DeleteJob(j) PROVE Lifecycle!Live(k)
  <2>1. CASE k # j
    <3>1. row'[k] = row[k] /\ resume'[k] = resume[k]
      BY <1>1, <1>4, <2>1 DEF DeleteJob, TypeOK
    <3>2. QED
      BY <1>1, <3>1, LifeKeeps DEF SameRequest
  <2>2. CASE k = j
    <3>1. row[k].st # "absent" /\ row'[k].st = "absent" /\ resume'[k] = NoResume
          /\ SameRequest(k)
      BY <1>1, <1>4, <2>2 DEF DeleteJob, TypeOK, Row, Present, SameRequest
    <3>2. QED
      BY <1>1, <3>1, LifeDeleted
  <2>3. QED
    BY <2>1, <2>2
<1>5. ASSUME NEW j \in Jobs, UpdateFullJob(j) \/ GrowStale(j) PROVE Lifecycle!Live(k)
  <2>1. SameRequest(k) /\ row'[k].st = row[k].st
    <3>1. CASE k # j
      BY <1>1, <1>5, <3>1 DEF UpdateFullJob, GrowStale, TypeOK, SameRequest
    <3>2. CASE k = j /\ UpdateFullJob(j)
      BY <1>1, <3>2 DEF UpdateFullJob, TypeOK, Row, SameRequest
    <3>3. CASE k = j /\ GrowStale(j)
      BY <1>1, <3>3 DEF GrowStale, TypeOK, Row, SameRequest
    <3>4. QED
      BY <1>5, <3>1, <3>2, <3>3
  <2>2. resume' = resume
    BY <1>5 DEF UpdateFullJob, GrowStale
  <2>3. QED
    BY <1>1, <2>1, <2>2, LifeKeeps
<1>6. ASSUME NEW j \in Jobs, RetryJobProcessing(j) PROVE Lifecycle!Live(k)
  <2>1. resume' = resume
    BY <1>6 DEF RetryJobProcessing
  <2>2. CASE k # j
    <3>1. row'[k] = row[k]
      BY <1>1, <1>6, <2>2 DEF RetryJobProcessing, TypeOK
    <3>2. QED
      BY <1>1, <2>1, <3>1, LifeKeeps DEF SameRequest
  <2>3. CASE k = j
    <3>1. row[k].st \in Settled /\ row'[k].st = "pending"
      BY <1>1, <1>6, <2>3 DEF RetryJobProcessing, TypeOK, Row
    <3>2. QED
      BY <1>1, <2>1, <3>1, LifeAsked
  <2>4. QED
    BY <2>2, <2>3
<1>7. CASE CreateJob
  <2>1. resume' = resume
    BY <1>7 DEF CreateJob
  <2>2. CASE k # created + 1
    <3>1. row'[k] = row[k]
      BY <1>1, <1>7, <2>2 DEF CreateJob, TypeOK
    <3>2. QED
      BY <1>1, <2>1, <3>1, LifeKeeps DEF SameRequest
  <2>3. CASE k = created + 1
    <3>1. row[k].st = "absent"
      BY <1>1, <2>3, PipelineAssumption DEF KnownIds, TypeOK, Jobs
    <3>2. row'[k].st = "pending" /\ ~row'[k].fresh
      BY <1>1, <1>7, <2>3 DEF CreateJob, TypeOK
    <3>3. QED
      BY <1>1, <2>1, <3>1, <3>2, LifeAsked
  <2>4. QED
    BY <2>2, <2>3
<1>8. CASE LoopStep /\ ~Tick
  BY <1>2, <1>8 DEF LoopStep, SkipWhilePaused, SelectBatch, SelectFails, EndBatch, Spawn
<1>9. CASE PauseEnds \/ Restart
  BY <1>2, <1>9 DEF PauseEnds, Restart
<1>10. ASSUME NEW j \in Jobs, AnnounceRetry(j) PROVE Lifecycle!Live(k)
  BY <1>2, <1>10 DEF AnnounceRetry
<1>11. QED
  BY <1>3, <1>4, <1>5, <1>6, <1>7, <1>8, <1>9, <1>10 DEF UserStep

LEMMA LifeInit == Init => Lifecycle!Init
<1> SUFFICES ASSUME Init PROVE Lifecycle!Init
  OBVIOUS
<1>1. TypeOK
  BY TypeInit
<1>2. \A j \in Jobs : row[j].st = "absent" /\ resume[j] = NoResume
  BY DEF Init
<1>3. Status = [j \in Jobs |-> "absent"] /\ Result = [j \in Jobs |-> {}]
  BY <1>2 DEF Status, Result, InFlight
<1>4. Asked \in [Jobs -> Lifecycle!Request]
  BY <1>1 DEF Asked, Lifecycle!Request, TypeOK, Row
<1>5. QED
  BY <1>3, <1>4 DEF Lifecycle!Init

\* JobPipeline implements JobLifecycle: every step of the worker, of a handler,
\* of time or of a crash moves each job as its user was promised, or not at all.
THEOREM PipelineKeepsLifecycle ==
    ASSUME RetryFrom \subseteq Settled
    PROVE  Spec => KeepsLifecycle
<1>1. Init => BusyInv
  <2> SUFFICES ASSUME Init PROVE BusyInv
    OBVIOUS
  <2>1. queue = {} /\ (\A s \in Slots : ~IsLive(s)) /\ CompletedServesRequest
    BY DEF Init, IsLive, CompletedServesRequest
  <2>2. QED
    BY <2>1, CompletedInit DEF ServeInv, BusyInv
<1>2. BusyInv /\ [Next]_vars => BusyInv'
  BY BusyStep
<1>3. BusyInv /\ BusyInv' /\ [Next]_vars => [Lifecycle!Next]_(Lifecycle!vars)
  <2> SUFFICES ASSUME BusyInv, BusyInv', [Next]_vars
               PROVE  [Lifecycle!Next]_(Lifecycle!vars)
    OBVIOUS
  <2>1. CASE UNCHANGED vars
    BY <2>1 DEF vars, Lifecycle!vars, Status, Asked, Result
  <2>2. CASE ~UNCHANGED vars
    <3>1. ASSUME NEW k \in Jobs PROVE Lifecycle!Live(k)
      BY <2>2, <3>1, LifeRun, LifeOutside, NextSplits
    <3>2. DOMAIN Status' = Jobs /\ DOMAIN Asked' = Jobs /\ DOMAIN Result' = Jobs
      BY DEF Status, Asked, Result
    <3>3. QED
      BY <3>1, <3>2 DEF Lifecycle!Next
  <2>3. QED
    BY <2>1, <2>2
<1>4. QED
  BY <1>1, <1>2, <1>3, LifeInit, PTL DEF Spec, KeepsLifecycle, Lifecycle!Spec
=============================================================================
