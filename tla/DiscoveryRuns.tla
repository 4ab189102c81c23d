---------------------------- MODULE DiscoveryRuns ----------------------------
(***************************************************************************)
(* The sweeps that fill the catalogue: the scheduler, the panel's "run     *)
(* now", the refreshes of single users, the marks that keep two of them    *)
(* from searching one keyword twice within the hour, and the history of    *)
(* runs the scheduler plans from.  What a search finds is Catalogue's; a   *)
(* sweep is its claims, its outcomes and its row.                          *)
(***************************************************************************)
EXTENDS Naturals, FiniteSets

CONSTANTS
    Requests,  \* "run now" clicks of the panel
    Users,     \* users that refresh their keywords, one refresh each at a time
    Keys,      \* pairs source|keyword, each of another source
    Settings,  \* what the panel saves: [enabled |-> BOOLEAN, keys |-> SUBSET Keys]
    Timer,     \* the scheduler's own sweep
    MaxRuns,   \* bound on complete sweeps in the history
    MaxFaults  \* bound on failed statements and restarts

ASSUME SettingsAssumption ==
    Settings # {} /\ \A s \in Settings : s.enabled \in BOOLEAN /\ s.keys \subseteq Keys
ASSUME BoundsAssumption == MaxRuns \in Nat /\ MaxFaults \in Nat
ASSUME RunnersAssumption == Users \cap (Requests \cup {Timer}) = {} /\ Timer \notin Requests

Sweepers == Requests \cup {Timer}
Runners == Sweepers \cup Users

VARIABLES
    settings, \* discovery_settings
    last,     \* complete sweeps whose row is closed: the newest is the base of the plan
    sched,    \* where Run is
    plan,     \* what nextWait read of both, unless a read failed
    wake,     \* the channel of one signal
    unsaid,   \* saves whose SettingsChanged is still to come
    full,     \* fullRunning
    busy,     \* userRunning
    pc,       \* where each sweep or refresh is
    todo,     \* keywords it still has to come to
    at,       \* keywords it is searching
    row,      \* its newest row of discovery_runs, "none" without one or once it is closed
    partial,  \* whether it is a selection of the panel
    fetched,  \* the marks of the last hour
    found,    \* history: keywords searched to the end since their last mark
    faults    \* faults so far, for the bound

vars == <<settings, last, sched, plan, wake, unsaid, full, busy, pc, todo, at, row, partial,
          fetched, found, faults>>
marks == <<fetched, found>>

NoPlan == [known |-> FALSE]

Init ==
    /\ settings \in Settings
    /\ last = 0
    /\ sched = "starting"
    /\ plan = NoPlan
    /\ wake = FALSE
    /\ unsaid = FALSE
    /\ full = FALSE
    /\ busy = {}
    /\ pc = [r \in Runners |-> "idle"]
    /\ todo = [r \in Runners |-> {}]
    /\ at = [r \in Runners |-> {}]
    /\ row = [r \in Runners |-> "none"]
    /\ partial = [r \in Runners |-> FALSE]
    /\ fetched = {}
    /\ found = {}
    /\ faults = 0

Fault == faults < MaxFaults /\ faults' = faults + 1

(* ------------------------------ the scheduler ------------------------------ *)

Complete(r) == r \in Sweepers /\ ~partial[r]

(* FailInterruptedRuns, whatever left the row "running": the process that  *)
(* died, or a refresh the server has accepted already.  An interrupted     *)
(* sweep counts as a sweep from here on.                                   *)
StartScheduler ==
    /\ sched = "starting"
    /\ sched' = "planning"
    /\ row' = [r \in Runners |-> IF row[r] = "running" /\ pc[r] = "searching" THEN "error" ELSE "none"]
    /\ last' = IF \E r \in Runners : row[r] = "running" /\ Complete(r) THEN last + 1 ELSE last
    /\ partial' = [r \in Runners |-> partial[r] /\ pc[r] # "idle"]
    /\ UNCHANGED <<settings, plan, wake, unsaid, full, busy, pc, todo, at, marks, faults>>

(* nextWait in its two reads; when the settings cannot be read it goes by  *)
(* the defaults, when the history cannot it takes the sweep for overdue.   *)
NextWait ==
    /\ sched = "planning"
    /\ sched' = "planned"
    /\ \/ plan' = [known |-> TRUE, settings |-> settings, last |-> 0] /\ UNCHANGED faults
       \/ Fault /\ plan' = NoPlan
    /\ UNCHANGED <<settings, last, wake, unsaid, full, busy, pc, todo, at, row, partial, marks>>

LastFullRun ==
    /\ sched = "planned"
    /\ sched' = "waiting"
    /\ \/ /\ plan' = IF plan.known THEN [known |-> TRUE, settings |-> plan.settings, last |-> last] ELSE NoPlan
          /\ UNCHANGED faults
       \/ Fault /\ plan' = NoPlan
    /\ UNCHANGED <<settings, last, wake, unsaid, full, busy, pc, todo, at, row, partial, marks>>

TakeWake ==
    /\ sched = "waiting" /\ wake
    /\ wake' = FALSE
    /\ sched' = "planning"
    /\ UNCHANGED <<settings, last, plan, unsaid, full, busy, pc, todo, at, row, partial, marks, faults>>

(* The timer: the sweep is the scheduler's own call.  A disabled plan has  *)
(* no timer.                                                               *)
TimerFires ==
    /\ sched = "waiting"
    /\ plan.known => plan.settings.enabled
    /\ last < MaxRuns
    /\ sched' = "sweeping"
    /\ pc' = [pc EXCEPT ![Timer] = "asked"]
    /\ UNCHANGED <<settings, last, plan, wake, unsaid, full, busy, todo, at, row, partial, marks, faults>>

(* Variant: the signal is lost unless the scheduler is waiting for it.     *)
SignalIfWaiting == sched = "waiting"

(* SettingsChanged: the channel holds one signal.                          *)
Signal == TRUE

SaveSettings ==
    /\ ~unsaid
    /\ settings' \in Settings \ {settings}
    /\ unsaid' = TRUE
    /\ UNCHANGED <<last, sched, plan, wake, full, busy, pc, todo, at, row, partial, marks, faults>>

SettingsChanged ==
    /\ unsaid
    /\ unsaid' = FALSE
    /\ wake' = (wake \/ Signal)
    /\ UNCHANGED <<settings, last, sched, plan, full, busy, pc, todo, at, row, partial, marks, faults>>

(* ------------------------- who starts a sweep ------------------------- *)

(* RunNow only looks at the flag; its goroutine takes it later.            *)
RunNow(q) ==
    /\ pc[q] = "idle"
    /\ ~full
    /\ last < MaxRuns
    /\ pc' = [pc EXCEPT ![q] = "asked"]
    /\ \E p \in BOOLEAN : partial' = [partial EXCEPT ![q] = p]
    /\ UNCHANGED <<settings, last, sched, plan, wake, unsaid, full, busy, todo, at, row, marks, faults>>

Back(r) == sched' = IF r = Timer THEN "planning" ELSE sched

(* Variant: the flag is set without being looked at.                       *)
AlwaysFree == TRUE

FlagFree == ~full

RunFull(r) ==
    /\ r \in Sweepers
    /\ pc[r] = "asked"
    /\ IF FlagFree
       THEN /\ full' = TRUE
            /\ pc' = [pc EXCEPT ![r] = "loading"]
            /\ UNCHANGED sched
       ELSE /\ pc' = [pc EXCEPT ![r] = "idle"]
            /\ Back(r)
            /\ UNCHANGED full
    /\ UNCHANGED <<settings, last, plan, wake, unsaid, busy, todo, at, row, partial, marks, faults>>

(* Variant: without settings the call returns at once.                     *)
GiveUpAtOnce(r) == pc' = [pc EXCEPT ![r] = "idle"] /\ Back(r)

(* The deferred function still has to run.                                 *)
GiveUp(r) == pc' = [pc EXCEPT ![r] = "leaving"] /\ UNCHANGED sched

LoadFails(r) ==
    /\ r \in Sweepers
    /\ pc[r] = "loading"
    /\ Fault
    /\ GiveUp(r)
    /\ UNCHANGED <<settings, last, plan, wake, unsaid, full, busy, todo, at, row, partial, marks>>

(* record up to runSources: the row may fail to be inserted, and the sweep *)
(* goes on without it.  A selection has any of the keywords.               *)
InsertRun(r) ==
    \/ row' = [row EXCEPT ![r] = "running"] /\ UNCHANGED faults
    \/ Fault /\ row' = [row EXCEPT ![r] = "none"]

LoadSettings(r) ==
    /\ r \in Sweepers
    /\ pc[r] = "loading"
    /\ IF partial[r]
       THEN \E K \in SUBSET Keys : todo' = [todo EXCEPT ![r] = K]
       ELSE todo' = [todo EXCEPT ![r] = settings.keys]
    /\ InsertRun(r)
    /\ pc' = [pc EXCEPT ![r] = "searching"]
    /\ UNCHANGED <<settings, last, sched, plan, wake, unsaid, full, busy, at, partial, marks>>

RefreshUser(u) ==
    /\ pc[u] = "idle"
    /\ settings.enabled
    /\ settings.keys # {}
    /\ busy' = busy \cup {u}
    /\ u \notin busy
    /\ todo' = [todo EXCEPT ![u] = settings.keys]
    /\ InsertRun(u)
    /\ pc' = [pc EXCEPT ![u] = "searching"]
    /\ UNCHANGED <<settings, last, sched, plan, wake, unsaid, full, at, partial, marks>>

(* ------------------------------ the search ------------------------------ *)

(* claim: a complete sweep does not care for the marks.                    *)
Claim(r, k) ==
    /\ pc[r] = "searching"
    /\ k \in todo[r]
    /\ todo' = [todo EXCEPT ![r] = @ \ {k}]
    /\ IF r \in Sweepers \/ k \notin fetched
       THEN /\ fetched' = fetched \cup {k}
            /\ found' = found \ {k}
            /\ at' = [at EXCEPT ![r] = @ \cup {k}]
       ELSE UNCHANGED <<marks, at>>
    /\ UNCHANGED <<settings, last, sched, plan, wake, unsaid, full, busy, pc, row, partial, faults>>

SearchEnds(r, k) ==
    /\ k \in at[r]
    /\ at' = [at EXCEPT ![r] = @ \ {k}]
    /\ found' = found \cup ({k} \cap fetched)
    /\ UNCHANGED <<settings, last, sched, plan, wake, unsaid, full, busy, pc, todo, row, partial, fetched, faults>>

(* Variant: a failed search keeps its mark.                                *)
KeepMark(k) == UNCHANGED marks

Release(k) == fetched' = fetched \ {k} /\ found' = found \ {k}

(* An error of the site, or the time of the sweep is over.                 *)
SearchFails(r, k) ==
    /\ k \in at[r]
    /\ at' = [at EXCEPT ![r] = @ \ {k}]
    /\ Release(k)
    /\ UNCHANGED <<settings, last, sched, plan, wake, unsaid, full, busy, pc, todo, row, partial, faults>>

(* Out of time between two keywords: the rest is not claimed.              *)
OutOfTime(r) ==
    /\ pc[r] = "searching"
    /\ todo[r] # {}
    /\ todo' = [todo EXCEPT ![r] = {}]
    /\ UNCHANGED <<settings, last, sched, plan, wake, unsaid, full, busy, pc, at, row, partial, marks, faults>>

(* freshFor is over; no single search takes that long.                     *)
HourPasses(k) ==
    /\ k \in fetched
    /\ \A r \in Runners : k \notin at[r]
    /\ Release(k)
    /\ UNCHANGED <<settings, last, sched, plan, wake, unsaid, full, busy, pc, todo, at, row, partial, faults>>

(* ------------------------------ the ending ------------------------------ *)

Close(r) == [row EXCEPT ![r] = "none"]

(* FinishRun, by the id alone; without a row there is nothing to close.    *)
FinishRun(r) ==
    /\ pc[r] = "searching"
    /\ todo[r] = {} /\ at[r] = {}
    /\ \/ /\ row[r] # "none"
          /\ row' = Close(r)
          /\ last' = IF Complete(r) /\ row[r] = "running" THEN last + 1 ELSE last
          /\ UNCHANGED faults
       \/ row[r] = "none" /\ UNCHANGED <<row, last, faults>>
       \/ row[r] # "none" /\ Fault /\ UNCHANGED <<row, last>>
    /\ pc' = [pc EXCEPT ![r] = "leaving"]
    /\ UNCHANGED <<settings, sched, plan, wake, unsaid, full, busy, todo, at, partial, marks>>

(* The deferred function, up to its signal.                                *)
Leave(r) ==
    /\ pc[r] = "leaving"
    /\ IF r \in Users
       THEN busy' = busy \ {r} /\ pc' = [pc EXCEPT ![r] = "idle"] /\ UNCHANGED full
       ELSE full' = FALSE /\ pc' = [pc EXCEPT ![r] = "telling"] /\ UNCHANGED busy
    /\ UNCHANGED <<settings, last, sched, plan, wake, unsaid, todo, at, row, partial, marks, faults>>

Tell(r) ==
    /\ pc[r] = "telling"
    /\ wake' = (wake \/ Signal)
    /\ pc' = [pc EXCEPT ![r] = "idle"]
    /\ Back(r)
    /\ partial' = [partial EXCEPT ![r] = @ /\ row[r] = "running"]
    /\ UNCHANGED <<settings, last, plan, unsaid, full, busy, todo, at, row, marks, faults>>

(* The process ends; discovery_settings and discovery_runs stay.           *)
Restart ==
    /\ Fault
    /\ sched' = "starting"
    /\ plan' = NoPlan
    /\ wake' = FALSE /\ unsaid' = FALSE
    /\ full' = FALSE /\ busy' = {}
    /\ pc' = [r \in Runners |-> "idle"]
    /\ todo' = [r \in Runners |-> {}]
    /\ at' = [r \in Runners |-> {}]
    /\ fetched' = {} /\ found' = {}
    /\ UNCHANGED <<settings, last, row, partial>>

(* ------------------------------------------------------------------------ *)

Sweep(r) ==
    \/ RunFull(r) \/ LoadSettings(r) \/ LoadFails(r)
    \/ \E k \in Keys : Claim(r, k) \/ SearchEnds(r, k) \/ SearchFails(r, k)
    \/ OutOfTime(r) \/ FinishRun(r) \/ Leave(r) \/ Tell(r)

Schedule == StartScheduler \/ NextWait \/ LastFullRun \/ TakeWake \/ TimerFires

Next ==
    \/ Schedule
    \/ SaveSettings \/ SettingsChanged
    \/ \E q \in Requests : RunNow(q)
    \/ \E u \in Users : RefreshUser(u)
    \/ \E r \in Runners : Sweep(r)
    \/ \E k \in Keys : HourPasses(k)
    \/ Restart

Spec == Init /\ [][Next]_vars

(* The goroutines go on: every request to a site has a time limit.         *)
FairSpec == Spec /\ (\A r \in Runners : WF_vars(Sweep(r)))

(* ------------------------------ properties ------------------------------ *)

(* A scheduler at rest waits for what the panel last saved and from the    *)
(* sweep last recorded: whatever changes while it plans or sweeps leaves a *)
(* signal behind, however many changes there were.                         *)
PlanFollows ==
    \/ sched # "waiting" \/ wake \/ unsaid \/ ~plan.known
    \/ plan.settings = settings /\ plan.last = last
    \/ \E r \in Sweepers : pc[r] \in {"leaving", "telling"}

(* Two complete sweeps or selections never run at once, although two       *)
(* callers may have been told that theirs began.                           *)
OneSweep ==
    \A r, q \in Sweepers :
        pc[r] \in {"loading", "searching", "leaving"} /\ pc[q] \in {"loading", "searching", "leaving"} => r = q

(* A keyword that a refresh skips because of its mark was searched to the  *)
(* end within the hour, or somebody is at it right now.                    *)
SkippedWasSearched ==
    \A k \in fetched : k \in found \/ \E r \in Runners : k \in at[r]

(* Whatever fails, the flag of the complete sweep comes down and the user  *)
(* may refresh again: a flag left up stops all sweeps until a restart.     *)
SweepsEnd ==
    /\ full ~> ~full
    /\ \A u \in Users : u \in busy ~> u \notin busy
=============================================================================
