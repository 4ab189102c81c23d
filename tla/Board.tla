------------------------------- MODULE Board -------------------------------
(***************************************************************************)
(* The board of applications: the history of one job and the stage that    *)
(* is computed from it (internal/handler/application.go, repository/jobs). *)
(* A request is a transaction and, after it, an answer read in two         *)
(* statements.  What a transaction wrote is its own until it commits.      *)
(***************************************************************************)
EXTENDS Naturals, FiniteSets

CONSTANTS
    Requests,  \* handlers at work on the job
    Marked,    \* the stages marked, some of applicationStages
    MaxEvents, \* bound on marks asked for
    MaxFails   \* bound on failed calls

VARIABLES
    stage,   \* application_stage of the row, or "gone" with it
    events,  \* job_application_events that are committed
    locked,  \* the request that holds the row FOR UPDATE, or "nobody"
    tx,      \* tx[r]: how far request r is, and what it has written
    clock,   \* orders the moments events are dated and created at
    fails

vars == <<stage, events, locked, tx, clock, fails>>

Idle == [at |-> "idle"]

Init ==
    /\ stage = ""
    /\ events = {}
    /\ locked = "nobody"
    /\ tx = [r \in Requests |-> Idle]
    /\ clock = 0
    /\ fails = 0

Gone == stage = "gone"
At(r, step) == tx[r].at = step
Fail == fails < MaxFails /\ fails' = fails + 1

Latest(es) == CHOOSE e \in es : \A d \in es \ {e} :
                  d.happened < e.happened \/ (d.happened = e.happened /\ d.created < e.created)

(* The last change of stage counts; notes do not, and "ready" is no stage. *)
StageOf(es) ==
    LET changes == {e \in es : e.stage # "note"}
    IN  IF changes = {} \/ Latest(changes).stage = "ready" THEN "" ELSE Latest(changes).stage

-----------------------------------------------------------------------------
(* Requests *)

(* parseApplicationDate: today is this very moment, another day its noon.  *)
Dated(today) == IF today THEN clock + 1 ELSE 0

AddEvent(r, mark, today) ==
    /\ tx[r] = Idle
    /\ clock < MaxEvents
    /\ clock' = clock + 1
    /\ tx' = [tx EXCEPT ![r] = [at |-> "begin", add |-> {[stage |-> mark, happened |-> Dated(today)]}, del |-> {}]]
    /\ UNCHANGED <<stage, events, locked, fails>>

(* From a page that may be out of date: the event can be gone by then.     *)
DeleteEvent(r, e) ==
    /\ tx[r] = Idle
    /\ tx' = [tx EXCEPT ![r] = [at |-> "begin", add |-> {}, del |-> {e}]]
    /\ UNCHANGED <<stage, events, locked, clock, fails>>

Begin(r) ==
    /\ At(r, "begin")
    /\ clock' = IF tx[r].add = {} THEN clock ELSE clock + 1
    /\ tx' = [tx EXCEPT ![r] =
                [at |-> "own", del |-> @.del,
                 add |-> {[stage |-> e.stage, happened |-> e.happened, created |-> clock + 1] : e \in @.add}]]
    /\ UNCHANGED <<stage, events, locked, fails>>

Ends(r) ==
    /\ tx' = [tx EXCEPT ![r] = Idle]
    /\ locked' = IF locked = r THEN "nobody" ELSE locked

(* Variant: the job is looked up without FOR UPDATE.                       *)
JobSeen(r) ==
    /\ At(r, "own")
    /\ IF Gone THEN Ends(r)
       ELSE tx' = [tx EXCEPT ![r].at = "change"] /\ UNCHANGED locked
    /\ UNCHANGED <<stage, events, clock, fails>>

JobOwned(r) ==
    /\ At(r, "own")
    /\ locked = "nobody"
    /\ IF Gone THEN Ends(r)
       ELSE tx' = [tx EXCEPT ![r].at = "change"] /\ locked' = r
    /\ UNCHANGED <<stage, events, clock, fails>>

InsertEvent(r) ==
    /\ At(r, "change") /\ tx[r].del = {}
    /\ tx' = [tx EXCEPT ![r].at = "recompute"]
    /\ UNCHANGED <<stage, events, locked, clock, fails>>

(* No row deleted is an error, and the transaction is rolled back.         *)
RemoveEvent(r) ==
    /\ At(r, "change") /\ tx[r].del # {}
    /\ IF tx[r].del \subseteq events
       THEN tx' = [tx EXCEPT ![r].at = "recompute"] /\ UNCHANGED locked
       ELSE Ends(r)
    /\ UNCHANGED <<stage, events, clock, fails>>

Visible(r) == (events \cup tx[r].add) \ tx[r].del

RecomputeStage(r) ==
    /\ At(r, "recompute")
    /\ tx' = [tx EXCEPT ![r] =
                [at |-> "commit", add |-> @.add, del |-> @.del, stage |-> StageOf(Visible(r))]]
    /\ UNCHANGED <<stage, events, locked, clock, fails>>

(* A job deleted meanwhile took its events with it, and has no row left.   *)
Commit(r) ==
    /\ At(r, "commit")
    /\ IF Gone THEN UNCHANGED <<stage, events>>
       ELSE stage' = tx[r].stage /\ events' = Visible(r)
    /\ locked' = IF locked = r THEN "nobody" ELSE locked
    /\ tx' = [q \in Requests |->
                IF q = r THEN [at |-> "job", moved |-> FALSE]
                ELSE IF tx[q].at = "events" THEN [tx[q] EXCEPT !.moved = TRUE]
                ELSE tx[q]]
    /\ UNCHANGED <<clock, fails>>

Rollback(r) ==
    /\ tx[r].at \in {"begin", "own", "change", "recompute", "commit", "job", "events"}
    /\ Fail
    /\ Ends(r)
    /\ UNCHANGED <<stage, events, clock>>

(* writeApplication: the stage, and then the history.                      *)
AnswerStage(r) ==
    /\ At(r, "job")
    /\ IF Gone THEN Ends(r)
       ELSE tx' = [tx EXCEPT ![r] = [at |-> "events", stage |-> stage, moved |-> FALSE]] /\ UNCHANGED locked
    /\ UNCHANGED <<stage, events, clock, fails>>

AnswerEvents(r) ==
    /\ At(r, "events")
    /\ tx' = [tx EXCEPT ![r] = [at |-> "answered", stage |-> @.stage, events |-> events, moved |-> @.moved]]
    /\ UNCHANGED <<stage, events, locked, clock, fails>>

Forget(r) ==
    /\ At(r, "answered")
    /\ Ends(r)
    /\ UNCHANGED <<stage, events, clock, fails>>

-----------------------------------------------------------------------------
(* The job and the board *)

(* The deletion waits for the lock, and takes the events with it.          *)
DeleteJob ==
    /\ ~Gone /\ locked = "nobody"
    /\ stage' = "gone" /\ events' = {}
    /\ tx' = [q \in Requests |-> IF tx[q].at = "events" THEN [tx[q] EXCEPT !.moved = TRUE] ELSE tx[q]]
    /\ UNCHANGED <<locked, clock, fails>>

(* One statement: the jobs with a resume, and those with a stage.          *)
ApplicationBoard(completed) ==
    IF Gone \/ (stage = "" /\ ~completed) THEN {}
    ELSE {[stage   |-> stage,
           applied |-> \E e \in events : e.stage = "applied",
           reached |-> \E e \in events : e.stage \in {"interview", "offer", "hired"}]}

Next ==
    \/ \E r \in Requests :
         \/ \E mark \in Marked, today \in BOOLEAN : AddEvent(r, mark, today)
         \/ \E e \in events : DeleteEvent(r, e)
         \/ Begin(r) \/ JobOwned(r) \/ InsertEvent(r) \/ RemoveEvent(r) \/ RecomputeStage(r)
         \/ Commit(r) \/ Rollback(r) \/ AnswerStage(r) \/ AnswerEvents(r) \/ Forget(r)
    \/ DeleteJob

Spec == Init /\ [][Next]_vars

-----------------------------------------------------------------------------
(* The stage of a job is the one its history says, whatever requests add   *)
(* and delete at one time.                                                 *)
StageIsTheLast == ~Gone => stage = StageOf(events)

(* An answer pairs the stage with the history it comes from, unless        *)
(* another request changed both between the two reads.                     *)
AnswerAgrees ==
    \A r \in Requests : At(r, "answered") /\ ~tx[r].moved => tx[r].stage = StageOf(tx[r].events)

(* What the board counts as reached or sent includes what it shows.        *)
BoardCounts ==
    \A completed \in BOOLEAN : \A item \in ApplicationBoard(completed) :
        /\ item.stage \in {"interview", "offer", "hired"} => item.reached
        /\ item.stage = "applied" => item.applied

BoardAgrees == StageIsTheLast /\ AnswerAgrees /\ BoardCounts
=============================================================================
