------------------------------ MODULE AutoSelect ------------------------------
(***************************************************************************)
(* The runs of the automatic selection of one user: a click counts what is *)
(* left of the day's allowance, chooses the candidates, inserts the run    *)
(* and leaves a goroutine to have them read in batches, put the chosen     *)
(* ones into the pipeline and record every job read.  Around it: the       *)
(* expiry of runs left "running", failed statements, the limit of ten      *)
(* minutes, panics, restarts, midnight, and the user's own clicks on the   *)
(* pipeline.                                                               *)
(***************************************************************************)
EXTENDS Naturals, FiniteSets, Sequences

CONSTANTS
    Runs,           \* clicks on the button, each of which may become a run
    Urls,           \* the ranked, eligible jobs of the catalogue
    Settings,       \* what the admin may save: [open, perRun, perDay, candidates]
    Batch,          \* jobs per call to the AI (autoSelectBatch)
    ReadAgainAfter, \* days after which a job may be read again
    MaxDay,         \* bound on the days
    MaxFaults       \* bound on failed statements, panics and restarts

ASSUME SettingsAssumption ==
    /\ Settings # {}
    /\ \A s \in Settings :
         /\ s.open \in BOOLEAN
         /\ s.perRun \in Nat \ {0} /\ s.perDay \in Nat /\ s.candidates \in Nat
         /\ s.perRun <= s.perDay
ASSUME UrlsAssumption == IsFiniteSet(Urls)
ASSUME BoundsAssumption ==
    Batch \in Nat \ {0} /\ ReadAgainAfter \in Nat /\ MaxDay \in Nat \ {0} /\ MaxFaults \in Nat

VARIABLES
    settings, \* auto_select_settings, and whether the account has access to them
    day,      \* the day in Brasilia
    jobs,     \* the user's pipeline, one row per url
    row,      \* auto_select_runs: the status of each run, "none" without a row,
              \* "stale" when it is running and older than autoSelectStaleAfter
    picks,    \* auto_select_picks
    pc,       \* where each click is
    left,     \* n of the click: how many jobs it may choose
    set,      \* the settings it read
    cands,    \* the candidates it still has to have read
    read,     \* the ones the AI gave a verdict about
    unread,   \* the ones it gave none about
    chosen,   \* the ones to put into the pipeline
    put,      \* the ones it put there
    record,   \* the picks still to insert
    late,     \* the ten minutes of its context are over
    raced,    \* history: another click recorded a pick between its count and its own picks
    lost,     \* history: the insert of one of its picks failed
    faults    \* faults so far, for the bound

vars == <<settings, day, jobs, row, picks, pc, left, set, cands,
          read, unread, chosen, put, record, late, raced, lost, faults>>
db == <<settings, day, jobs, row, picks>>
history == <<raced, lost>>
local == <<left, set, cands, read, unread, chosen, put, record, late, history>>

Status == {"none", "running", "stale", "done", "empty", "error"}
Running == {"running", "stale"}
Live == {"reading", "writing"}
Counted == {"counted", "offered"} \cup Live

Pick == [run : Runs, url : Urls, selected : BOOLEAN, day : 1..MaxDay]

Init ==
    /\ settings \in Settings
    /\ day = 1
    /\ jobs = {}
    /\ row = [r \in Runs |-> "none"]
    /\ picks = {}
    /\ pc = [r \in Runs |-> "idle"]
    /\ left = [r \in Runs |-> 0]
    /\ set = [r \in Runs |-> settings]
    /\ cands = [r \in Runs |-> {}]
    /\ read = [r \in Runs |-> {}]
    /\ unread = [r \in Runs |-> {}]
    /\ chosen = [r \in Runs |-> {}]
    /\ put = [r \in Runs |-> {}]
    /\ record = [r \in Runs |-> {}]
    /\ late = [r \in Runs |-> FALSE]
    /\ raced = [r \in Runs |-> FALSE]
    /\ lost = [r \in Runs |-> FALSE]
    /\ faults = 0

(* The click or the goroutine is over: its locals are gone, except for     *)
(* what the properties go on to ask of it.                                 *)
Leave(R) ==
    /\ left' = [r \in Runs |-> IF r \in R THEN 0 ELSE left[r]]
    /\ cands' = [r \in Runs |-> IF r \in R THEN {} ELSE cands[r]]
    /\ read' = [r \in Runs |-> IF r \in R THEN {} ELSE read[r]]
    /\ unread' = [r \in Runs |-> IF r \in R THEN {} ELSE unread[r]]
    /\ chosen' = [r \in Runs |-> IF r \in R THEN {} ELSE chosen[r]]
    /\ record' = [r \in Runs |-> IF r \in R THEN {} ELSE record[r]]
    /\ late' = [r \in Runs |-> r \notin R /\ late[r]]
    /\ UNCHANGED <<set, put>>

Fault == faults < MaxFaults /\ faults' = faults + 1

(* ------------------------------ statements ------------------------------ *)

(* Variant: a job deleted from the pipeline gives its place back.          *)
UsedSinceInPipeline == Cardinality({p \in picks : p.selected /\ p.day = day /\ p.url \in jobs})

AutoSelectUsedSince == Cardinality({p \in picks : p.selected /\ p.day = day})

(* Variant: only the jobs that were chosen are left out.                   *)
ExcludedUrlsChosen == jobs \cup {p.url : p \in {q \in picks : q.selected}}

AutoSelectExcludedUrls == jobs \cup {p.url : p \in {q \in picks : day - q.day < ReadAgainAfter}}

AutoSelectExpireStale == [r \in Runs |-> IF row[r] = "stale" THEN "error" ELSE row[r]]

AutoSelectAccess == settings.open

(* The index on running rows refuses a second one (NoRunning).             *)
NoRunning == \A q \in Runs : row[q] \notin Running
AutoSelectStartRun(r) == [row EXCEPT ![r] = "running"]

(* It does not look at the status the row has by now.                      *)
AutoSelectFinishRun(r, status) == [row EXCEPT ![r] = status]

AutoSelectInsertPick(r, u, selected) ==
    picks \cup {[run |-> r, url |-> u, selected |-> selected, day |-> day]}

AutoSelectRunPicks(r) == {p \in picks : p.run = r}

(* ON CONFLICT DO NOTHING: the job the user has already is no new row.     *)
QueryInsertAutoJob(u) == jobs \cup {u}

(* What Status shows as left of the day, and Start goes by.                *)
Remaining ==
    IF AutoSelectUsedSince >= settings.perDay THEN 0
    ELSE settings.perDay - AutoSelectUsedSince

(* --------------------------- the click (Start) --------------------------- *)

(* Start up to the count.                                                  *)
Count(r) ==
    /\ pc[r] = "idle"
    /\ AutoSelectAccess
    /\ row' = AutoSelectExpireStale
    /\ LET n == IF settings.perRun < Remaining THEN settings.perRun ELSE Remaining
       IN  IF n = 0
           THEN pc' = [pc EXCEPT ![r] = "over"] /\ UNCHANGED <<left, set>>
           ELSE /\ pc' = [pc EXCEPT ![r] = "counted"]
                /\ left' = [left EXCEPT ![r] = n]
                /\ set' = [set EXCEPT ![r] = settings]
    /\ UNCHANGED <<settings, day, jobs, picks, cands, read, unread, chosen,
                   put, record, late, history, faults>>

(* candidates: the catalogue also has jobs that its filters leave out, so  *)
(* any set of jobs that are not excluded may come.                         *)
ChooseCandidates(r) ==
    /\ pc[r] = "counted"
    /\ \E C \in SUBSET (Urls \ AutoSelectExcludedUrls) :
         /\ Cardinality(C) <= set[r].candidates
         /\ cands' = [cands EXCEPT ![r] = C]
    /\ pc' = [pc EXCEPT ![r] = "offered"]
    /\ UNCHANGED <<db, left, set, read, unread, chosen, put, record, late, history, faults>>

CandidatesFail(r) ==
    /\ pc[r] = "counted"
    /\ Fault
    /\ pc' = [pc EXCEPT ![r] = "over"]
    /\ Leave({r})
    /\ UNCHANGED <<db, history>>

(* The insert, refused (409) while a row is running; without candidates    *)
(* the run is over at once.                                                *)
StartRun(r) ==
    /\ pc[r] = "offered"
    /\ IF ~NoRunning
       THEN pc' = [pc EXCEPT ![r] = "over"] /\ Leave({r}) /\ UNCHANGED <<row, history, faults>>
       ELSE /\ row' = AutoSelectStartRun(r)
            /\ pc' = [pc EXCEPT ![r] = IF cands[r] = {} THEN "writing" ELSE "reading"]
            /\ UNCHANGED <<local, faults>>
    /\ UNCHANGED <<settings, day, jobs, picks>>

(* ------------------------ the goroutine (run) ------------------------ *)

(* One batch: verdicts about some of its jobs, all of them unread when     *)
(* every model of the chain fails.  After a rate limit or the ten minutes  *)
(* the rest is left unread too.                                            *)
ReadBatch(r) ==
    /\ pc[r] = "reading"
    /\ ~late[r]
    /\ \E B \in SUBSET cands[r], ended \in BOOLEAN :
         /\ Cardinality(B) = Batch \/ (B = cands[r] /\ Cardinality(B) < Batch)
         /\ \E V \in SUBSET B :
              /\ ended => V = {}
              /\ read' = [read EXCEPT ![r] = @ \cup V]
              /\ unread' = [unread EXCEPT ![r] = @ \cup (IF ended THEN cands[r] ELSE B \ V)]
         /\ cands' = [cands EXCEPT ![r] = IF ended THEN {} ELSE @ \ B]
    /\ UNCHANGED <<db, pc, left, set, chosen, put, record, late, history, faults>>

ReadLate(r) ==
    /\ pc[r] = "reading"
    /\ late[r]
    /\ cands[r] # {}
    /\ unread' = [unread EXCEPT ![r] = @ \cup cands[r]]
    /\ cands' = [cands EXCEPT ![r] = {}]
    /\ UNCHANGED <<db, pc, left, set, read, chosen, put, record, late, history, faults>>

(* autoChoose: at most n of the jobs with a verdict (AutoRules!Choose).    *)
ChooseJobs(r) ==
    /\ pc[r] = "reading"
    /\ cands[r] = {}
    /\ \E C \in SUBSET read[r] :
         /\ Cardinality(C) <= left[r]
         /\ chosen' = [chosen EXCEPT ![r] = C]
    /\ record' = [record EXCEPT ![r] = read[r] \cup unread[r]]
    /\ pc' = [pc EXCEPT ![r] = "writing"]
    /\ UNCHANGED <<db, left, set, cands, read, unread, put, late, history, faults>>

(* Variant: the insert runs without the limit of the context.              *)
AlwaysInTime(r) == TRUE

(* QueryInsertAutoJob has the context of the run: once it is over the      *)
(* statement fails.                                                        *)
InTime(r) == ~late[r]

InsertAutoJob(r, u) ==
    /\ pc[r] = "writing"
    /\ u \in chosen[r]
    /\ chosen' = [chosen EXCEPT ![r] = @ \ {u}]
    /\ \/ /\ InTime(r) /\ u \notin jobs
          /\ jobs' = QueryInsertAutoJob(u)
          /\ put' = [put EXCEPT ![r] = @ \cup {u}]
          /\ UNCHANGED faults
       \/ /\ ~InTime(r) \/ u \in jobs
          /\ UNCHANGED <<jobs, put, faults>>
       \/ Fault /\ UNCHANGED <<jobs, put>>
    /\ UNCHANGED <<settings, day, row, picks, pc, left, set, cands, read,
                   unread, record, late, history>>

(* Variant: asks the list that is empty by now.                            *)
IsStillChosen(r, u) == u \in chosen[r]

(* What the pick says of the job (jobIDs).                                 *)
IsSelected(r, u) == u \in put[r]

(* AutoSelectInsertPick, without the limit of the context; a failure is    *)
(* logged and nothing more.                                                *)
InsertPick(r, u) ==
    /\ pc[r] = "writing"
    /\ chosen[r] = {}
    /\ u \in record[r]
    /\ record' = [record EXCEPT ![r] = @ \ {u}]
    /\ \/ /\ picks' = AutoSelectInsertPick(r, u, IsSelected(r, u))
          /\ raced' = [q \in Runs |-> raced[q] \/ (q # r /\ pc[q] \in Counted)]
          /\ UNCHANGED <<lost, faults>>
       \/ /\ Fault
          /\ lost' = [lost EXCEPT ![r] = TRUE]
          /\ UNCHANGED <<picks, raced>>
    /\ UNCHANGED <<settings, day, jobs, row, pc, left, set, cands, read,
                   unread, chosen, put, late>>

Result(r) ==
    CASE read[r] = {} /\ unread[r] # {} -> "error"
      [] put[r] = {} -> "empty"
      [] OTHER -> "done"

FinishRun(r) ==
    /\ pc[r] = "writing"
    /\ chosen[r] = {} /\ record[r] = {}
    /\ \/ row' = AutoSelectFinishRun(r, Result(r)) /\ UNCHANGED faults
       \/ Fault /\ UNCHANGED row
    /\ pc' = [pc EXCEPT ![r] = "over"]
    /\ Leave({r})
    /\ UNCHANGED <<settings, day, jobs, picks, history>>

(* Publishing a job may panic (LiveUpdates: the page closed its channel);  *)
(* the goroutine ends its run with an error, whatever it put.              *)
Panic(r) ==
    /\ pc[r] = "writing"
    /\ put[r] # {}
    /\ record[r] = read[r] \cup unread[r]
    /\ Fault
    /\ row' = AutoSelectFinishRun(r, "error")
    /\ pc' = [pc EXCEPT ![r] = "panicked"]
    /\ Leave({r})
    /\ UNCHANGED <<settings, day, jobs, picks, history>>

(* ------------------------- time, faults, others ------------------------- *)

TenMinutes(r) ==
    /\ pc[r] \in Live
    /\ ~late[r]
    /\ late' = [late EXCEPT ![r] = TRUE]
    /\ UNCHANGED <<db, pc, left, set, cands, read, unread, chosen, put, record, history, faults>>

(* Variant: the expiry comes before the limit of the reading.              *)
FifteenMinutesAnyway(r) ==
    /\ row[r] = "running"
    /\ row' = [row EXCEPT ![r] = "stale"]
    /\ UNCHANGED <<settings, day, jobs, picks, pc, local, faults>>

(* Fifteen minutes after it began, a run that lives had its ten minutes.   *)
FifteenMinutes(r) ==
    /\ row[r] = "running"
    /\ pc[r] \in Live => late[r]
    /\ row' = [row EXCEPT ![r] = "stale"]
    /\ UNCHANGED <<settings, day, jobs, picks, pc, local, faults>>

(* GET /auto-select by any account that may use the selection: the expiry  *)
(* concerns the runs of all.                                               *)
ShowStatus ==
    /\ row' = AutoSelectExpireStale
    /\ UNCHANGED <<settings, day, jobs, picks, pc, local, faults>>

Restart ==
    LET going == {r \in Runs : pc[r] \notin {"idle", "over", "panicked", "killed"}}
    IN  /\ going # {}
        /\ Fault
        /\ pc' = [r \in Runs |-> IF r \in going THEN "killed" ELSE pc[r]]
        /\ Leave(going)
        /\ UNCHANGED <<db, history>>

Midnight ==
    /\ day < MaxDay
    /\ day' = day + 1
    /\ UNCHANGED <<settings, jobs, row, picks, pc, local, faults>>

(* The user adds a job by hand or deletes one; the pick of a deleted job   *)
(* stays.                                                                  *)
UserAdds(u) ==
    /\ u \notin jobs
    /\ jobs' = jobs \cup {u}
    /\ UNCHANGED <<settings, day, row, picks, pc, local, faults>>

UserDeletes(u) ==
    /\ u \in jobs
    /\ jobs' = jobs \ {u}
    /\ UNCHANGED <<settings, day, row, picks, pc, local, faults>>

(* PUT /admin/auto-select/settings, PATCH /admin/users/{id}/auto-select.   *)
SaveSettings ==
    /\ settings' \in Settings
    /\ UNCHANGED <<day, jobs, row, picks, pc, local, faults>>

(* The steps the process takes by itself once a run is there.              *)
Work(r) ==
    \/ ReadBatch(r) \/ ReadLate(r) \/ ChooseJobs(r)
    \/ \E u \in Urls : InsertAutoJob(r, u) \/ InsertPick(r, u)
    \/ FinishRun(r)

Next ==
    \/ \E r \in Runs :
         \/ Count(r) \/ ChooseCandidates(r) \/ CandidatesFail(r) \/ StartRun(r)
         \/ Work(r) \/ Panic(r) \/ TenMinutes(r) \/ FifteenMinutes(r)
    \/ ShowStatus \/ Restart \/ Midnight \/ SaveSettings
    \/ \E u \in Urls : UserAdds(u) \/ UserDeletes(u)

Spec == Init /\ [][Next]_vars

(* ------------------------------ properties ------------------------------ *)

(* The shape of the tables and of the goroutines' variables.               *)
TypeOK ==
    /\ settings \in Settings
    /\ day \in 1..MaxDay
    /\ jobs \subseteq Urls
    /\ row \in [Runs -> Status]
    /\ picks \subseteq Pick
    /\ pc \in [Runs -> {"idle", "counted", "offered", "over", "panicked", "killed"} \cup Live]
    /\ left \in [Runs -> Nat]
    /\ set \in [Runs -> Settings]
    /\ cands \in [Runs -> SUBSET Urls]
    /\ read \in [Runs -> SUBSET Urls]
    /\ unread \in [Runs -> SUBSET Urls]
    /\ chosen \in [Runs -> SUBSET Urls]
    /\ put \in [Runs -> SUBSET Urls]
    /\ record \in [Runs -> SUBSET Urls]
    /\ late \in [Runs -> BOOLEAN]
    /\ raced \in [Runs -> BOOLEAN]
    /\ lost \in [Runs -> BOOLEAN]
    /\ faults \in 0..MaxFaults

(* Two goroutines of one user may be alive at once, after an expiry, but   *)
(* only one of them is still in its ten minutes, so only one has jobs read *)
(* and puts them into the pipeline (Start, autoSelectRunTimeout and        *)
(* autoSelectStaleAfter).                                                  *)
OneWorks ==
    \A r, q \in Runs :
        r # q /\ pc[r] \in Live /\ pc[q] \in Live => late[r] \/ late[q]

(* Once the user is told that a run is over, however it ended, it puts no  *)
(* job into the pipeline any more, although its goroutine may go on.       *)
EndedPutsNothing ==
    [][\A r \in Runs : row[r] \in {"done", "empty", "error"} => put'[r] = put[r]]_vars

(* The jobs recorded as chosen on a day stay within the allowance of one   *)
(* of the clicks that chose them, except when a click counted before       *)
(* another one had recorded its picks.                                     *)
ExcessIsRaced ==
    \A d \in 1..MaxDay :
        LET chose == {p \in picks : p.selected /\ p.day = d}
            by == {p.run : p \in chose}
        IN  by # {} => \/ \E r \in by : Cardinality(chose) <= set[r].perDay
                       \/ \E r \in by : raced[r]

(* A job that a run put into the pipeline is missing from the count of the *)
(* day only when its pick could not be inserted or the run was cut short.  *)
UncountedHasACause ==
    \A r \in Runs : \A u \in put[r] :
        \/ pc[r] \in Live \cup {"panicked", "killed"}
        \/ lost[r]
        \/ \E p \in AutoSelectRunPicks(r) : p.url = u /\ p.selected

(* The AI is not given the same job twice within ReadAgainAfter days,      *)
(* even if the user deleted it, unless two clicks overlapped.              *)
RepeatIsRaced ==
    \A p, q \in picks :
        p.run # q.run /\ p.url = q.url /\ p.day <= q.day /\ q.day - p.day < ReadAgainAfter
            => raced[p.run] \/ raced[q.run]
=============================================================================
