---------------------------- MODULE JobLifecycle ----------------------------
(***************************************************************************)
(* What the pipeline promises about jobs: the life of each one, as its     *)
(* user may rely on it.  A job asks for a mode and perhaps for a version   *)
(* that is not a reused answer; it is worked on, given back or settled;    *)
(* "completed" means that what it asks for is there; and once settled only *)
(* its user moves it.  No snapshot, goroutine, cache or failure appears    *)
(* here, and the jobs live independently of each other.                    *)
(***************************************************************************)
CONSTANTS Jobs, Modes

VARIABLES
    status,  \* status[j]
    asked,   \* asked[j]: the mode asked for, and whether a new version is
    result   \* result[j]: the newest resume ({} if none): its mode, was it reused

vars == <<status, asked, result>>

Settled == {"completed", "error"}
Request == [mode: Modes, fresh: BOOLEAN]
Result == [mode: Modes, reused: BOOLEAN]

\* Some result of R is what request a asks for.
Serves(R, a) == \E r \in R : r.mode = a.mode /\ (a.fresh => ~r.reused)

Init ==
    /\ status = [j \in Jobs |-> "absent"]
    /\ asked \in [Jobs -> Request]
    /\ result = [j \in Jobs |-> {}]

Becomes(j, st) == status'[j] = st
Keeps(j) == asked'[j] = asked[j] /\ result'[j] = result[j]

Submit(j) ==
    /\ status[j] = "absent" /\ Becomes(j, "pending")
    /\ asked'[j] \in Request /\ ~asked'[j].fresh
    /\ result'[j] = result[j]

TakeUp(j) == status[j] = "pending" /\ Becomes(j, "working") /\ Keeps(j)
GiveBack(j) == status[j] = "working" /\ Becomes(j, "pending") /\ Keeps(j)
Fail(j) == status[j] = "working" /\ Becomes(j, "error") /\ Keeps(j)

Deliver(j) ==
    /\ status[j] = "working" /\ Becomes(j, "working")
    /\ asked'[j] = asked[j]
    /\ \E r \in Result : result'[j] = {r} /\ Serves({r}, asked[j])

Complete(j) ==
    /\ status[j] = "working" /\ Becomes(j, "completed")
    /\ Serves(result[j], asked[j])
    /\ Keeps(j)

Retry(j) ==
    /\ status[j] \in Settled /\ Becomes(j, "pending")
    /\ asked'[j] \in Request
    /\ result'[j] = result[j]

Delete(j) ==
    /\ status[j] # "absent" /\ Becomes(j, "absent")
    /\ asked'[j] = asked[j]
    /\ result'[j] = {}

Live(j) ==
    \/ Submit(j) \/ TakeUp(j) \/ GiveBack(j) \/ Deliver(j) \/ Complete(j)
    \/ Fail(j) \/ Retry(j) \/ Delete(j)
    \/ Becomes(j, status[j]) /\ Keeps(j)

\* Each job takes a step of its own or none; one statement may move several.
Next ==
    /\ \A j \in Jobs : Live(j)
    /\ DOMAIN status' = Jobs /\ DOMAIN asked' = Jobs /\ DOMAIN result' = Jobs

Spec == Init /\ [][Next]_vars
=============================================================================
