------------------------------ MODULE Catalogue ------------------------------
(***************************************************************************)
(* The catalogue as one user meets it: the sweeps insert, refresh and      *)
(* delete posts, rankedJobs lists each vacancy once, the user dismisses    *)
(* and restores, and the bell announces what is new since the user looked  *)
(* last.  Times are kept as what is compared with them: whether a post was *)
(* seen lately, and whether it is newer than the user's mark.              *)
(***************************************************************************)
EXTENDS Naturals, FiniteSets

CONSTANTS
    Posts,    \* posts of the sites: [url, title, company, matches, date]
    MaxBirths \* bound on how many rows enter the catalogue

VARIABLES
    catalogue, \* discovered_jobs: [post, n]; a post that comes back has a new id
    active,    \* the ids seen within ActiveFor
    dismissed, \* user_dismissed_jobs
    fresh,     \* the ids with first_seen_at > seen_at
    marked,    \* whether user_job_alerts has a row: else seen_at is 24 h ago
    enabled,   \* whether the user wants alerts
    births,    \* how many rows entered so far
    page,      \* the alerts the page has loaded
    asked,     \* the page asked for them to be marked as seen
    shown,     \* history: the new posts shown since the last mark
    due        \* history: the new posts that the page's list had to have

vars == <<catalogue, active, dismissed, fresh, marked, enabled, births, page, asked, shown, due>>
server == <<catalogue, active, dismissed, fresh, marked, enabled, births>>
browser == <<page, asked, shown>>

Init ==
    /\ catalogue = {} /\ active = {} /\ dismissed = {} /\ fresh = {}
    /\ marked = FALSE /\ enabled = TRUE
    /\ births = 0
    /\ page = {}
    /\ asked = FALSE
    /\ shown = {} /\ due = {}

(* ------------------------------ the sweeps ------------------------------ *)

IdsOf(p) == {i \in catalogue : i.post = p}

(* Inserts the post, or refreshes the row it has; a new id starts a life   *)
(* of its own, without the dismissal of an earlier one.                    *)
DiscoveryUpsertJob(p) ==
    LET new == [post |-> p, n |-> births + 1]
    IN  IF IdsOf(p) = {}
        THEN /\ births < MaxBirths
             /\ births' = births + 1
             /\ catalogue' = catalogue \cup {new}
             /\ active' = active \cup {new}
             /\ fresh' = fresh \cup {new}
        ELSE /\ active' = active \cup IdsOf(p)
             /\ UNCHANGED <<births, catalogue, fresh>>

Save(p) ==
    /\ DiscoveryUpsertJob(p)
    /\ UNCHANGED <<dismissed, marked, enabled, browser, due>>

(* ActiveFor passes without the post being seen: it leaves the lists.      *)
GoInactive(i) ==
    /\ i \in active
    /\ active' = active \ {i}
    /\ UNCHANGED <<catalogue, dismissed, fresh, marked, enabled, births, browser, due>>

(* What has not been seen for deleteAfter, has expired or was published    *)
(* too long ago; the dismissals go with the rows.                          *)
DiscoveryDeleteStale(i) ==
    /\ catalogue' = catalogue \ {i}
    /\ active' = active \ {i}
    /\ dismissed' = dismissed \ {i}
    /\ fresh' = fresh \ {i}

DeleteStale(i) ==
    /\ i \in catalogue
    /\ DiscoveryDeleteStale(i)
    /\ shown' = shown \ {i}
    /\ due' = due \ {i}
    /\ UNCHANGED <<marked, enabled, births, page, asked>>

(* -------------------------------- the lists -------------------------------- *)

ListCandidates == active

(* Variant: posts without a company are taken for one vacancy too.         *)
KeyByTitle(p) == <<p.title, p.company>>

Key(p) == IF p.company = "" THEN <<p.url>> ELSE <<p.title, p.company>>

(* The newest post of a vacancy stands for all of them, even when it does  *)
(* not match or is dismissed.                                              *)
StandsFor(i) ==
    {j \in ListCandidates : Key(j.post) = Key(i.post) /\ j.post.date <= i.post.date}

First(i) == \A j \in ListCandidates : Key(j.post) = Key(i.post) => j \in StandsFor(i)

RankedJobs(view) ==
    {i \in ListCandidates : First(i) /\ i.post.matches /\ (i \in dismissed <=> view = "dismissed")}

NewAlerts == RankedJobs("listed") \cap fresh

(* ------------------------------ dismissals ------------------------------ *)

DismissedInsert(i) == dismissed \cup ({i} \cap catalogue)
DismissedDelete(i) == dismissed \ {i}

(* From the list, from the panel or from the page of the job, any of which *)
(* may be out of date by then: an id that is gone is not found.            *)
Dismiss(i) ==
    /\ i \notin dismissed
    /\ dismissed' = DismissedInsert(i)
    /\ UNCHANGED <<catalogue, active, fresh, marked, enabled, births, browser, due>>

Undismiss(i) ==
    /\ i \in RankedJobs("dismissed")
    /\ dismissed' = DismissedDelete(i)
    /\ UNCHANGED <<catalogue, active, fresh, marked, enabled, births, browser, due>>

(* -------------------------------- the bell -------------------------------- *)

(* What a reader would expect the alerts to have: the new posts that match *)
(* and are not dismissed, one of each vacancy, the latest.                 *)
SameVacancy(p, q) ==
    /\ p.company = q.company
    /\ IF p.company = "" THEN p.url = q.url ELSE p.title = q.title

Expected ==
    {i \in fresh \cap (active \ dismissed) :
        /\ i.post.matches
        /\ ~ \E j \in active : j # i /\ SameVacancy(i.post, j.post) /\ j.post.date > i.post.date}

(* GET /discovery/alerts, at the start and every ten minutes; an open      *)
(* panel shows it at once.                                                 *)
LoadAlerts(open) ==
    LET jobs == IF enabled THEN NewAlerts ELSE {}
    IN  /\ page' = jobs
        /\ shown' = IF open THEN shown \cup jobs ELSE shown
        /\ due' = IF asked THEN due ELSE IF enabled THEN Expected ELSE {}
        /\ UNCHANGED <<server, asked>>

(* The panel is opened, or the list of Descobrir: what was loaded is on    *)
(* the screen, and if there is any of it the server is told.               *)
OpenPanel ==
    /\ shown' = shown \cup page
    /\ asked' = (asked \/ page # {})
    /\ UNCHANGED <<server, page, due>>

(* The mark takes the moment of the statement.                             *)
AlertsMarkSeen == fresh' = {} /\ marked' = TRUE

MarkAlertsSeen ==
    /\ asked
    /\ asked' = FALSE
    /\ AlertsMarkSeen
    /\ shown' = {}
    /\ due' = {}
    /\ UNCHANGED <<catalogue, active, dismissed, enabled, births, page>>

MarkFails ==
    /\ asked
    /\ asked' = FALSE
    /\ UNCHANGED <<server, page, shown, due>>

(* The mark stays where it is, or stays 24 h behind the first save.        *)
AlertsUpsertSettings(e) == enabled' = e /\ marked' = TRUE

SaveAlerts ==
    /\ AlertsUpsertSettings(~enabled)
    /\ UNCHANGED <<catalogue, active, dismissed, fresh, births, browser, due>>

(* Without a row the mark moves along, 24 hours behind.                    *)
DayPasses(i) ==
    /\ ~marked
    /\ i \in fresh
    /\ fresh' = fresh \ {i}
    /\ UNCHANGED <<catalogue, active, dismissed, marked, enabled, births, browser, due>>

Next ==
    \/ \E p \in Posts : Save(p)
    \/ \E i \in catalogue :
         GoInactive(i) \/ DeleteStale(i) \/ Dismiss(i) \/ Undismiss(i) \/ DayPasses(i)
    \/ \E open \in BOOLEAN : LoadAlerts(open)
    \/ OpenPanel \/ MarkAlertsSeen \/ MarkFails \/ SaveAlerts

Spec == Init /\ [][Next]_vars

(* ------------------------------ properties ------------------------------ *)

(* The mark the bell sends takes the moment of the request and not that of *)
(* the list the page had loaded (handler/discovery_alerts.go:145).  Still, *)
(* once it is on its way, whatever that list had to have - every vacancy   *)
(* that matches and is new, by its latest post - has been on the screen:   *)
(* neither the grouping of the posts of one vacancy nor a dismissal taken  *)
(* back makes the user miss one.                                           *)
SeenWasShown == asked => due \cap fresh \subseteq shown
=============================================================================
