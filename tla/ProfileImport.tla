---------------------------- MODULE ProfileImport ----------------------------
(***************************************************************************)
(* Import of a resume file by one user (internal/profileimport, handler/   *)
(* profile_import.go, repository/importlog): the Redis keys that hold the  *)
(* user's turn, quota and the state of each import, the goroutine that     *)
(* reads the file with the AI, cancelling, polling and applying.           *)
(*                                                                         *)
(* Three actors touch an import: its own goroutine ("run", which begins as *)
(* the upload request), the request that cancels it and a poll that finds  *)
(* it orphaned.  Each call to Redis or Postgres is one step.               *)
(***************************************************************************)
EXTENDS Naturals

CONSTANTS
    MaxImports, \* uploads ever made
    QuotaMax,   \* uploads in a window
    CancelOn,   \* whether the user cancels
    MaxFaults   \* bound on failed calls and restarts

Imports == 1..MaxImports
Nobody == 0
Actors == {"run", "cancel", "poll"}
Result == {"done", "error"}

ASSUME ImportAssumption ==
    /\ MaxImports \in Nat /\ QuotaMax \in Nat \ {0}
    /\ CancelOn \in BOOLEAN /\ MaxFaults \in Nat

VARIABLES
    \* Redis
    lock,     \* profile_import_lock: the import whose turn it is
    quota,    \* profile_import_quota
    lasting,  \* the quota key exists without a lifetime
    state,    \* state[i]: profile_import:<i>, "none" when there is no key
    stale,    \* stale[i]: started_at is more than StaleAfter ago
    \* Postgres
    history,  \* history[i]: status in profile_imports, "none" without a row
    \* the process
    at,       \* at[a][i]: where actor a of import i stands
    outcome,  \* outcome[i]: "none" before the id is given out, then "reading",
              \* then what the reading gave
    stopped,  \* stopped[i]: the context of the reading is cancelled
    \* history
    gone,     \* gone[i]: a cancellation has deleted the state
    faults

vars == <<lock, quota, lasting, state, stale, history, at, outcome, stopped,
          gone, faults>>

\* Where an actor may stand: "owner" and "drop" are Store.release.
Steps == [run |-> {"new", "count", "window", "put", "record", "reading", "finish",
                   "owner", "drop", "log", "over"},
          cancel |-> {"new", "delete", "owner", "drop", "stop", "mark", "over"},
          poll |-> {"new", "orphan", "owner", "drop"}]

TypeOK ==
    /\ lock \in Imports \cup {Nobody}
    /\ quota \in Nat /\ lasting \in BOOLEAN
    /\ state \in [Imports -> {"none", "processing"} \cup Result]
    /\ stale \in [Imports -> BOOLEAN]
    /\ history \in [Imports -> {"none", "processing", "canceled"} \cup Result]
    /\ at \in [Actors -> [Imports -> UNION {Steps[a] : a \in Actors}]]
    /\ \A a \in Actors, i \in Imports : at[a][i] \in Steps[a]
    /\ outcome \in [Imports -> {"none", "reading"} \cup Result]
    /\ stopped \in [Imports -> BOOLEAN] /\ gone \in [Imports -> BOOLEAN]
    /\ faults \in 0..MaxFaults

Init ==
    /\ lock = Nobody /\ quota = 0 /\ lasting = FALSE
    /\ state = [i \in Imports |-> "none"] /\ stale = [i \in Imports |-> FALSE]
    /\ history = [i \in Imports |-> "none"]
    /\ at = [a \in Actors |-> [i \in Imports |-> "new"]]
    /\ outcome = [i \in Imports |-> "none"]
    /\ stopped = [i \in Imports |-> FALSE] /\ gone = [i \in Imports |-> FALSE]
    /\ faults = 0

Fault == faults < MaxFaults /\ faults' = faults + 1
NoFault == UNCHANGED faults
Goto(a, i, step) == at' = [at EXCEPT ![a][i] = step]

\* The upload or its goroutine is at work.
Live(i) == at["run"][i] \notin {"new", "over"}

importVars == <<state, stale, history, outcome, stopped, gone>>
quotaVars == <<quota, lasting>>

-----------------------------------------------------------------------------
(* Store.release, called at the end of Begin (on errors), Finish, Cancel and *)
(* Get: two calls to Redis                                                 *)

AfterRelease(a, i) ==
    CASE a = "run" -> IF outcome[i] = "none" THEN "over" ELSE "log"
      [] a = "cancel" -> "stop"
      [] a = "poll" -> "new"

\* Variant: the turn is not compared, as if it were always one's own.
ReadAnyLock(a, i) ==
    /\ at[a][i] = "owner"
    /\ Goto(a, i, "drop")
    /\ UNCHANGED <<importVars, quotaVars, lock, faults>>

ReadLock(a, i) ==
    /\ at[a][i] = "owner"
    /\ \/ lock = i /\ Goto(a, i, "drop") /\ NoFault
       \/ lock # i /\ Goto(a, i, AfterRelease(a, i)) /\ NoFault
       \/ Fault /\ Goto(a, i, AfterRelease(a, i))
    /\ UNCHANGED <<importVars, quotaVars, lock>>

\* DEL, whoever's turn it is by now.
DropLock(a, i) ==
    /\ at[a][i] = "drop"
    /\ Goto(a, i, AfterRelease(a, i))
    /\ \/ lock' = Nobody /\ NoFault
       \/ Fault /\ UNCHANGED lock
    /\ UNCHANGED <<importVars, quotaVars>>

-----------------------------------------------------------------------------
(* Service.Start and Store.Begin.  A call that fails may have taken effect. *)

\* SETNX: with the turn taken, or Redis away, nothing else happens.
TakeTurn(i) ==
    /\ at["run"][i] = "new" /\ \A k \in 1..(i - 1) : at["run"][k] # "new"
    /\ \/ lock = Nobody /\ lock' = i /\ Goto("run", i, "count") /\ NoFault
       \/ lock # Nobody /\ Goto("run", i, "over") /\ UNCHANGED <<lock, faults>>
       \/ Fault /\ Goto("run", i, "over") /\ lock' \in {lock, IF lock = Nobody THEN i ELSE lock}
    /\ UNCHANGED <<importVars, quotaVars>>

\* INCR creates the key without a lifetime.
CountUpload(i) ==
    /\ at["run"][i] = "count"
    /\ \/ /\ quota' = quota + 1 /\ NoFault
          /\ lasting' = (lasting \/ quota = 0)
          /\ Goto("run", i, IF quota = 0 THEN "window"
                            ELSE IF quota + 1 > QuotaMax THEN "owner" ELSE "put")
       \/ /\ Fault /\ Goto("run", i, "owner")
          /\ \/ quota' = quota + 1 /\ lasting' = (lasting \/ quota = 0)
             \/ UNCHANGED quotaVars
    /\ UNCHANGED <<importVars, lock>>

\* EXPIRE, after the first upload of a window only.
OpenWindow(i) ==
    /\ at["run"][i] = "window"
    /\ \/ lasting' = FALSE /\ Goto("run", i, "put") /\ NoFault
       \/ Fault /\ Goto("run", i, "owner") /\ lasting' \in {lasting, FALSE}
    /\ UNCHANGED <<importVars, lock, quota>>

PutState(i) ==
    /\ at["run"][i] = "put"
    /\ \/ state' = [state EXCEPT ![i] = "processing"] /\ Goto("run", i, "record") /\ NoFault
       \/ Fault /\ Goto("run", i, "owner") /\ state' \in {state, [state EXCEPT ![i] = "processing"]}
    /\ UNCHANGED <<quotaVars, lock, stale, history, outcome, stopped, gone>>

\* A failure of the history never stands in the way.  The goroutine starts and
\* the user is given the id.
RecordStart(i) ==
    /\ at["run"][i] = "record"
    /\ Goto("run", i, "reading")
    /\ outcome' = [outcome EXCEPT ![i] = "reading"]
    /\ \/ history' = [history EXCEPT ![i] = "processing"] /\ NoFault
       \/ Fault /\ UNCHANGED history
    /\ UNCHANGED <<quotaVars, lock, state, stale, stopped, gone>>

-----------------------------------------------------------------------------
(* Service.run *)

\* Variant: SET without XX.
SetAlways(i, st) == [state EXCEPT ![i] = st]

\* SET XX: a key that was deleted does not come back.
SetIfExists(i, st) == IF state[i] = "none" THEN state ELSE [state EXCEPT ![i] = st]

\* An attempt of the AI begins or ends; a failure is logged.
UpdateState(i) ==
    /\ at["run"][i] = "reading"
    /\ state' = SetIfExists(i, "processing")
    /\ UNCHANGED <<quotaVars, lock, stale, history, at, outcome, stopped, gone, faults>>

\* context.Canceled: the state is left to whoever cancelled.  A reading that is
\* cancelled in its queries, or just too late, ends like any other.
ReadEnds(i) ==
    /\ at["run"][i] = "reading"
    /\ \/ \E res \in Result :
             outcome' = [outcome EXCEPT ![i] = res] /\ Goto("run", i, "finish")
       \/ stopped[i] /\ Goto("run", i, "over") /\ UNCHANGED outcome
    /\ UNCHANGED <<quotaVars, lock, state, stale, history, stopped, gone, faults>>

\* The deferred release follows whether or not the write succeeded.
FinishState(i) ==
    /\ at["run"][i] = "finish"
    /\ Goto("run", i, "owner")
    /\ \/ state' = SetIfExists(i, outcome[i]) /\ NoFault
       \/ Fault /\ UNCHANGED state
    /\ UNCHANGED <<quotaVars, lock, stale, history, outcome, stopped, gone>>

\* Variant: UPDATE without AND status = 'processing'.
RecordResultAnyway(i) ==
    /\ at["run"][i] = "log"
    /\ Goto("run", i, "over")
    /\ history' = [history EXCEPT ![i] = outcome[i]]
    /\ UNCHANGED <<quotaVars, lock, state, stale, outcome, stopped, gone, faults>>

\* importlog.Finish: what was cancelled stays cancelled.
RecordResult(i) ==
    /\ at["run"][i] = "log"
    /\ Goto("run", i, "over")
    /\ \/ /\ history' = IF history[i] = "processing"
                        THEN [history EXCEPT ![i] = outcome[i]] ELSE history
          /\ NoFault
       \/ Fault /\ UNCHANGED history
    /\ UNCHANGED <<quotaVars, lock, state, stale, outcome, stopped, gone>>

-----------------------------------------------------------------------------
(* Service.Cancel: the user gives up, or discards the draft.  The errors of *)
(* every call are ignored.                                                 *)

AskCancel(i) ==
    /\ CancelOn
    /\ at["cancel"][i] = "new" /\ outcome[i] # "none"
    /\ Goto("cancel", i, "delete")
    /\ UNCHANGED <<importVars, quotaVars, lock, faults>>

DeleteState(i) ==
    /\ at["cancel"][i] = "delete"
    /\ Goto("cancel", i, "owner")
    /\ \/ /\ state' = [state EXCEPT ![i] = "none"] /\ gone' = [gone EXCEPT ![i] = TRUE]
          /\ NoFault
       \/ Fault /\ UNCHANGED <<state, gone>>
    /\ UNCHANGED <<quotaVars, lock, stale, history, outcome, stopped>>

StopReading(i) ==
    /\ at["cancel"][i] = "stop"
    /\ Goto("cancel", i, "mark")
    /\ stopped' = [stopped EXCEPT ![i] = TRUE]
    /\ UNCHANGED <<quotaVars, lock, state, stale, history, outcome, gone, faults>>

\* importlog.Cancel
MarkCanceled(i) ==
    /\ at["cancel"][i] = "mark"
    /\ Goto("cancel", i, "over")
    /\ \/ /\ history' = IF history[i] \in {"processing", "done"}
                        THEN [history EXCEPT ![i] = "canceled"] ELSE history
          /\ NoFault
       \/ Fault /\ UNCHANGED history
    /\ UNCHANGED <<quotaVars, lock, state, stale, outcome, stopped, gone>>

-----------------------------------------------------------------------------
(* Store.Get by the page that waits, and Store.Delete after an Apply *)

\* Variant: an orphan is recognised by its turn.
FindOrphanInTurn(i) ==
    /\ at["poll"][i] = "new" /\ outcome[i] # "none"
    /\ state[i] = "processing" /\ stale[i] /\ lock = i
    /\ Goto("poll", i, "orphan")
    /\ UNCHANGED <<importVars, quotaVars, lock, faults>>

\* A reading found processing after StaleAfter died with its process.
FindOrphan(i) ==
    /\ at["poll"][i] = "new" /\ outcome[i] # "none"
    /\ state[i] = "processing" /\ stale[i]
    /\ Goto("poll", i, "orphan")
    /\ UNCHANGED <<importVars, quotaVars, lock, faults>>

FailOrphan(i) ==
    /\ at["poll"][i] = "orphan"
    /\ Goto("poll", i, "owner")
    /\ \/ state' = SetIfExists(i, "error") /\ NoFault
       \/ Fault /\ UNCHANGED state
    /\ UNCHANGED <<quotaVars, lock, stale, history, outcome, stopped, gone>>

\* The draft is saved in the profile; what Apply writes there is ProfileCache's.
DropDraft(i) ==
    /\ state[i] = "done" /\ state' = [state EXCEPT ![i] = "none"]
    /\ UNCHANGED <<quotaVars, lock, stale, history, at, outcome, stopped, gone, faults>>

-----------------------------------------------------------------------------
(* Time and restarts *)

\* aiTimeout (7 min) < lockTTL (8 min) < StaleAfter (8.5 min) < stateTTL (30 min):
\* a reading ends within the first of them and its last calls take no minute.
LockExpires ==
    /\ lock # Nobody /\ ~Live(lock)
    /\ lock' = Nobody
    /\ UNCHANGED <<importVars, quotaVars, at, faults>>

GrowStale(i) ==
    /\ state[i] = "processing" /\ ~Live(i) /\ lock # i /\ ~stale[i]
    /\ stale' = [stale EXCEPT ![i] = TRUE]
    /\ UNCHANGED <<quotaVars, lock, state, history, at, outcome, stopped, gone, faults>>

\* 30 min after the last write.
StateExpires(i) ==
    /\ ~Live(i) /\ lock # i
    /\ state[i] # "none" /\ state' = [state EXCEPT ![i] = "none"]
    /\ UNCHANGED <<quotaVars, lock, stale, history, at, outcome, stopped, gone, faults>>

\* The hour is over, if the key has a lifetime at all.
QuotaExpires ==
    /\ quota > 0 /\ ~lasting
    /\ quota' = 0
    /\ UNCHANGED <<importVars, lasting, lock, at, faults>>

\* Requests and goroutines end with the process; a page polls again.
Restart ==
    /\ Fault
    /\ at' = [a \in Actors |-> [i \in Imports |->
                IF at[a][i] = "new" THEN "new" ELSE IF a = "poll" THEN "new" ELSE "over"]]
    /\ UNCHANGED <<importVars, quotaVars, lock>>

-----------------------------------------------------------------------------
Release(a, i) == ReadLock(a, i) \/ DropLock(a, i)
RunStep(i) ==
    \/ CountUpload(i) \/ OpenWindow(i) \/ PutState(i) \/ RecordStart(i)
    \/ ReadEnds(i) \/ FinishState(i) \/ Release("run", i) \/ RecordResult(i)
CancelStep(i) ==
    DeleteState(i) \/ Release("cancel", i) \/ StopReading(i) \/ MarkCanceled(i)
PollStep(i) == FindOrphan(i) \/ FailOrphan(i) \/ Release("poll", i)

Next ==
    \/ \E i \in Imports :
         \/ TakeTurn(i) \/ RunStep(i) \/ UpdateState(i)
         \/ AskCancel(i) \/ CancelStep(i) \/ PollStep(i) \/ DropDraft(i)
         \/ GrowStale(i) \/ StateExpires(i)
    \/ LockExpires \/ QuotaExpires \/ Restart

Spec == Init /\ [][Next]_vars

\* Code that runs goes on, the page of a waiting user polls, time passes.
\* Nobody owes an upload, a cancellation or an Apply, and nothing is left to
\* the 30 min of a state.
Fairness ==
    /\ \A i \in Imports :
         WF_vars(RunStep(i)) /\ WF_vars(CancelStep(i)) /\ WF_vars(PollStep(i))
         /\ WF_vars(GrowStale(i))
    /\ WF_vars(LockExpires) /\ WF_vars(QuotaExpires)

FairSpec == Spec /\ Fairness

-----------------------------------------------------------------------------
(* Safety *)

Reading(i) == at["run"][i] \in {"reading", "finish"}

\* "um envio por vez por usuário": a reading holds the turn as long as it
\* lasts, polls, restarts and failed uploads beside it.  A cancellation breaks
\* this: it may release at the moment its reading does, and the second DEL
\* then ends the turn of the next upload.
TurnIsHeld ==
    (\A i \in Imports : at["cancel"][i] = "new")
        => \A i \in Imports : Reading(i) => lock = i

\* "cancelada = não ressuscita": once the state of a cancelled import is
\* deleted, neither the reading that is still running nor a poll that saw it
\* before brings it back.
CancelledStaysGone == \A i \in Imports : gone[i] => state[i] = "none"

\* When a cancellation is over the history says so, or that the reading had
\* failed already, and never again that it succeeded.
CancelIsRecorded ==
    \A i \in Imports :
        at["cancel"][i] = "over" /\ faults = 0 => history[i] \in {"canceled", "error"}

-----------------------------------------------------------------------------
(* Liveness *)

\* A waiting page learns how its import ended, also when the reading died with
\* the server.
ProcessingEnds ==
    \A i \in Imports : state[i] = "processing" /\ outcome[i] # "none" ~> state[i] # "processing"

\* "limite de envios atingido; tente de novo em uma hora": an exhausted quota
\* is given back.
QuotaReturns == quota > QuotaMax ~> quota = 0
=============================================================================
