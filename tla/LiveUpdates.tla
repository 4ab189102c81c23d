----------------------------- MODULE LiveUpdates -----------------------------
(***************************************************************************)
(* Live updates of one user: the event bus (internal/sse), the handler     *)
(* that streams it (StreamEvents in internal/handler/job.go) and the page  *)
(* that shows jobs (static/js/jobs.js, job_detail.js).                     *)
(*                                                                         *)
(* What matters of a status is which write of the row it comes from: row,  *)
(* events, answers and the page hold the number of a write.  The page is   *)
(* either the list of jobs or the page of one job (View).                  *)
(***************************************************************************)
EXTENDS Naturals, Sequences, FiniteSets

CONSTANTS
    Jobs, Watched, \* jobs of the user, and those the page shows
    View,          \* "list" or "detail"
    Publishers,    \* goroutines that may be publishing at one time
    Recovered,     \* those of them under a recover(): handlers, not the worker
    Buffer,        \* capacity of a subscriber's channel
    MaxConns,      \* bound on streams ever opened
    MaxLoads,      \* bound on loads in flight at one time
    MaxWrites,     \* bound on writes of rows
    MaxFaults      \* bound on failed calls, broken streams and restarts

Versions == 0..MaxWrites  \* 0: nothing shown
Conns == 1..MaxConns      \* 0: none
Loads == 1..MaxLoads

ASSUME LiveAssumption ==
    /\ Watched \subseteq Jobs
    /\ View \in {"list", "detail"}
    /\ Recovered \subseteq Publishers
    /\ Buffer \in Nat \ {0} /\ MaxConns \in Nat \ {0} /\ MaxLoads \in Nat \ {0}
    /\ MaxWrites \in Nat \ {0} /\ MaxFaults \in Nat

VARIABLES
    row, writes,  \* row[j]: the write jobs.status comes from; how many there were
    \* the server
    map,          \* the map at clients[userID]: the stream that created it, or 0
    home,         \* home[c]: the map that the channel of stream c is in, or 0
    stream,       \* StreamEvents of c: "unused", "open", "leaving", "closed"
    buf,          \* buf[c]: what waits in the channel of c
    pub,          \* pub[p]: a Publish under way
    \* the page
    mine,         \* the stream it listens to, or 0
    shown,        \* shown[j]: the write its badge comes from, 0 with no badge
    loads,        \* loads[r]: a load of the list, or of the job, in flight
    newest,       \* the load last asked for (_jd.seq)
    timer,        \* a reload of the page of a job is due
    \* history
    got,          \* got[j]: newest written status some event told the page
    cause,        \* cause[j]: what may have kept row[j] from the page
    faults

vars == <<row, writes, map, home, stream, buf, pub, mine, shown, loads, newest,
          timer, got, cause, faults>>

serverVars == <<map, home, stream, buf>>
pageVars == <<mine, shown, loads, newest, timer, got>>

-----------------------------------------------------------------------------
Idle == [at |-> "idle"]
Ready == [is |-> "none"]

Causes == {"silent", "unwritten", "missed", "panicked", "dropped", "broken",
           "late", "reordered", "failed"}

\* A page just opened: it asks for its data, then for the stream.
Init ==
    /\ row = [j \in Jobs |-> 1] /\ writes = 1
    /\ map = 0 /\ home = [c \in Conns |-> 0]
    /\ stream = [c \in Conns |-> "unused"] /\ buf = [c \in Conns |-> <<>>]
    /\ pub = [p \in Publishers |-> Idle]
    /\ mine = 0
    /\ shown = [j \in Watched |-> 0]
    /\ loads = [r \in Loads |-> IF r = 1 THEN [is |-> "asked"] ELSE Ready]
    /\ newest = 1 /\ timer = FALSE
    /\ got = [j \in Watched |-> 0] /\ cause = [j \in Watched |-> {}]
    /\ faults = 0

Fault == faults < MaxFaults /\ faults' = faults + 1
NoFault == UNCHANGED faults

\* The history of what kept the page, showing s, from the rows r: pairs of a job
\* and a cause are blamed.  A page that shows the row again is up to date,
\* whatever happened before.
Account(s, r, pairs) ==
    cause' = [j \in Watched |->
                IF s[j] = r[j] THEN {}
                ELSE cause[j] \cup {why \in Causes : <<j, why>> \in pairs}]
Blame(pairs) == Account(shown, row, pairs)
Show(s, pairs) == shown' = s /\ Account(s, row, pairs)

\* Those of the events evs that the page does not show yet, each blamed on why.
Unseen(evs, why) == {<<e.id, why>> : e \in {f \in evs : f.id \in Watched /\ shown[f.id] < f.ver}}

-----------------------------------------------------------------------------
(* Writes of a status, with their event or without *)

EventOf(p) == [id |-> pub[p].id, ver |-> pub[p].ver]
PubAt(p, step) == pub[p] # Idle /\ pub[p].at = step
InMap(m) == {c \in Conns : home[c] = m}

\* failJob and completeJob publish although the write failed.
WriteAndPublish(p, j) ==
    /\ pub[p] = Idle
    /\ writes < MaxWrites /\ writes' = writes + 1
    /\ \/ row' = [row EXCEPT ![j] = writes + 1] /\ NoFault
       \/ Fault /\ UNCHANGED row
    /\ pub' = [pub EXCEPT ![p] = [at |-> "lookup", id |-> j, ver |-> writes + 1,
                                  map |-> 0, must |-> {}, seen |-> {}, to |-> 0]]
    /\ UNCHANGED <<serverVars, pageVars>>
    /\ Blame({})

\* The scraping statuses, giving a job back and the recovery have no event.
WriteSilently(j) ==
    /\ writes < MaxWrites /\ writes' = writes + 1
    /\ row' = [row EXCEPT ![j] = writes + 1]
    /\ UNCHANGED <<serverVars, pageVars, pub, faults>>
    /\ Account(shown, row', {<<j, "silent">>})

-----------------------------------------------------------------------------
(* Bus.Publish *)

\* clients[userID] is read under the lock.  A nil map has nothing to walk.
Lookup(p) ==
    /\ PubAt(p, "lookup")
    /\ IF map = 0
       THEN /\ pub' = [pub EXCEPT ![p] = Idle]
            /\ Blame(IF mine = 0 THEN Unseen({EventOf(p)}, "missed") ELSE {})
       ELSE /\ pub' = [pub EXCEPT ![p].at = "walk", ![p].map = map, ![p].must = InMap(map)]
            /\ Blame({})
    /\ UNCHANGED <<serverVars, pageVars, row, writes, faults>>

\* The walk goes over the live map, outside the lock: it skips what left the
\* map, and may or may not meet what entered it.
Visit(p, c) ==
    /\ PubAt(p, "walk")
    /\ c \in InMap(pub[p].map) \ pub[p].seen
    /\ pub' = [pub EXCEPT ![p].at = "send", ![p].to = c, ![p].seen = @ \cup {c}]
    /\ UNCHANGED <<serverVars, pageVars, row, writes, faults>>
    /\ Blame({})

\* A full channel drops the event.
Send(p) ==
    LET c == pub[p].to IN
    /\ PubAt(p, "send")
    /\ stream[c] # "closed"
    /\ pub' = [pub EXCEPT ![p].at = "walk"]
    /\ IF Len(buf[c]) < Buffer
       THEN buf' = [buf EXCEPT ![c] = Append(@, EventOf(p))] /\ Blame({})
       ELSE /\ UNCHANGED buf
            /\ Blame(IF c = mine THEN Unseen({EventOf(p)}, "dropped") ELSE {})
    /\ UNCHANGED <<pageVars, map, home, stream, row, writes, faults>>

\* A stream that opened or reopened meanwhile may have missed the event.
FinishWalk(p) ==
    /\ PubAt(p, "walk")
    /\ pub[p].must \cap InMap(pub[p].map) \subseteq pub[p].seen
    /\ pub' = [pub EXCEPT ![p] = Idle]
    /\ UNCHANGED <<serverVars, pageVars, row, writes, faults>>
    /\ Blame(IF mine \in pub[p].must \cup pub[p].seen THEN {}
             ELSE Unseen({EventOf(p)}, "missed"))

\* The process ends: every stream, publication and unanswered load with it.
GoDown ==
    /\ map' = 0 /\ home' = [c \in Conns |-> 0]
    /\ stream' = [c \in Conns |-> IF stream[c] = "unused" THEN "unused" ELSE "closed"]
    /\ buf' = [c \in Conns |-> <<>>]
    /\ pub' = [p \in Publishers |-> Idle]
    /\ mine' = 0
    /\ loads' = [r \in Loads |-> IF loads[r].is = "asked" THEN [is |-> "failed"] ELSE loads[r]]
    /\ UNCHANGED <<shown, newest, timer, got, row, writes>>
    /\ Blame(Unseen({EventOf(p) : p \in {q \in Publishers : pub[q] # Idle}}, "missed")
             \cup (IF mine = 0 THEN {}
                   ELSE Unseen({buf[mine][i] : i \in DOMAIN buf[mine]}, "broken")))

\* send on closed channel: under a recover() the publication is lost, in the
\* worker's goroutine the process ends.
SendPanics(p) ==
    /\ PubAt(p, "send")
    /\ stream[pub[p].to] = "closed"
    /\ NoFault
    /\ IF p \in Recovered
       THEN /\ pub' = [pub EXCEPT ![p] = Idle]
            /\ UNCHANGED <<serverVars, pageVars, row, writes>>
            /\ Blame(IF mine \in pub[p].seen THEN {} ELSE Unseen({EventOf(p)}, "panicked"))
       ELSE GoDown

ServerRestart == Fault /\ GoDown

-----------------------------------------------------------------------------
(* StreamEvents *)

\* The page reconnects 5 s after an error, for as long as it takes.
Subscribe(c) ==
    /\ mine = 0
    /\ stream[c] = "unused" /\ \A d \in 1..(c - 1) : stream[d] # "unused"
    /\ stream' = [stream EXCEPT ![c] = "open"]
    /\ map' = IF map = 0 THEN c ELSE map
    /\ home' = [home EXCEPT ![c] = map']
    /\ mine' = c
    /\ UNCHANGED <<buf, pub, shown, loads, newest, timer, got, row, writes, faults>>
    /\ Blame({})

\* Variant: the whole entry of the user is deleted, other streams included.
UnsubscribeUser(c) ==
    /\ stream[c] = "open" /\ mine # c
    /\ stream' = [stream EXCEPT ![c] = "leaving"]
    /\ home' = [d \in Conns |-> IF home[d] = home[c] THEN 0 ELSE home[d]]
    /\ map' = 0
    /\ UNCHANGED <<pageVars, buf, pub, row, writes, faults>>
    /\ Blame({})

\* The request's context is done: delete(clients[userID], ch) ...
Unsubscribe(c) ==
    /\ stream[c] = "open" /\ mine # c
    /\ stream' = [stream EXCEPT ![c] = "leaving"]
    /\ home' = [home EXCEPT ![c] = 0]
    /\ map' = IF InMap(map) = {c} THEN 0 ELSE map
    /\ UNCHANGED <<pageVars, buf, pub, row, writes, faults>>
    /\ Blame({})

\* ... and, after the lock, close(ch).
CloseChannel(c) ==
    /\ stream[c] = "leaving"
    /\ stream' = [stream EXCEPT ![c] = "closed"]
    /\ buf' = [buf EXCEPT ![c] = <<>>]
    /\ UNCHANGED <<pageVars, map, home, pub, row, writes, faults>>
    /\ Blame({})

\* A map written while it is walked is a data race, which the runtime may
\* answer with "concurrent map iteration and map write", recover() or not.
MapRace(c) ==
    /\ \E p \in Publishers : PubAt(p, "walk") /\ pub[p].map = map
    /\ \/ mine = 0 /\ stream[c] = "unused"
       \/ mine # c /\ stream[c] = "open"
    /\ NoFault
    /\ GoDown

-----------------------------------------------------------------------------
(* The page *)

Blank == [j \in Watched |-> 0]

\* loadJobs empties the list at once; loadJobDetail leaves the old page there.
Ask(r) ==
    /\ loads[r] = Ready
    /\ loads' = [loads EXCEPT ![r] = [is |-> "asked"]]
    /\ newest' = r
    /\ Show(IF View = "list" THEN Blank ELSE shown, {})

\* A row whose list is not there (being loaded, or failed) asks for it again.
ListTold(e) ==
    /\ UNCHANGED timer
    /\ IF shown[e.id] = 0
       THEN \E r \in Loads : Ask(r)
       ELSE /\ UNCHANGED <<loads, newest>>
            /\ Show([shown EXCEPT ![e.id] = e.ver],
                    (IF e.ver < shown[e.id] THEN {<<e.id, "reordered">>} ELSE {})
                    \cup (IF e.ver > row[e.id] THEN {<<e.id, "unwritten">>} ELSE {}))

\* Variant: no reload when one is in flight.
DetailToldUnlessLoading(e) ==
    /\ timer' = \A r \in Loads : loads[r] = Ready
    /\ UNCHANGED <<shown, loads, newest>>
    /\ Blame({})

\* jdOnJobEvent: reload when the events settle.
DetailTold(e) ==
    /\ timer' = TRUE
    /\ UNCHANGED <<shown, loads, newest>>
    /\ Blame({})

\* StreamEvents takes an event from the channel and the page reads it.
Deliver ==
    /\ mine # 0 /\ stream[mine] = "open" /\ buf[mine] # <<>>
    /\ LET e == Head(buf[mine]) IN
       IF e.id \in Watched
       THEN /\ got' = [got EXCEPT ![e.id] = IF @ < e.ver /\ e.ver <= row[e.id] THEN e.ver ELSE @]
            /\ IF View = "list" THEN ListTold(e) ELSE DetailTold(e)
       ELSE UNCHANGED <<got, shown, loads, newest, timer>> /\ Blame({})
    /\ buf' = [buf EXCEPT ![mine] = Tail(@)]
    /\ UNCHANGED <<map, home, stream, mine, pub, row, writes, faults>>

TimerFires ==
    /\ timer /\ timer' = FALSE
    /\ \E r \in Loads : Ask(r)
    /\ UNCHANGED <<serverVars, mine, got, pub, row, writes, faults>>

\* The user opens the tab, filters, retries, presses "Atualizar".
UserReload ==
    /\ \E r \in Loads : Ask(r)
    /\ UNCHANGED <<serverVars, mine, timer, got, pub, row, writes, faults>>

\* The stream breaks; what waits in its channel is lost.
StreamBreaks ==
    /\ mine # 0 /\ mine' = 0
    /\ Fault
    /\ UNCHANGED <<serverVars, shown, loads, newest, timer, got, pub, row, writes>>
    /\ Blame(Unseen({buf[mine][i] : i \in DOMAIN buf[mine]}, "broken"))

AnswerLoad(r) ==
    /\ loads[r].is = "asked"
    /\ \/ /\ loads' = [loads EXCEPT ![r] = [is |-> "answered",
                                            rows |-> [j \in Watched |-> row[j]]]]
          /\ NoFault
       \/ Fault /\ loads' = [loads EXCEPT ![r] = [is |-> "failed"]]
    /\ UNCHANGED <<serverVars, mine, shown, newest, timer, got, pub, row, writes>>
    /\ Blame({})

\* Variant: no seq, as in the list.
RenderWhateverComes(r) ==
    /\ loads[r].is \in {"answered", "failed"}
    /\ loads' = [loads EXCEPT ![r] = Ready]
    /\ Show(IF loads[r].is = "failed" THEN Blank ELSE loads[r].rows, {})
    /\ UNCHANGED <<serverVars, mine, newest, timer, got, pub, row, writes, faults>>

\* loadJobs renders every answer that comes, loadJobDetail the newest only.
Render(r) ==
    /\ loads[r].is \in {"answered", "failed"}
    /\ loads' = [loads EXCEPT ![r] = Ready]
    /\ IF View = "detail" /\ r # newest
       THEN UNCHANGED shown /\ Blame({})
       ELSE IF loads[r].is = "failed"
            THEN Show(Blank, Watched \X {"failed"})
            ELSE Show(loads[r].rows, {j \in Watched : loads[r].rows[j] < shown[j]} \X {"late"})
    /\ UNCHANGED <<serverVars, mine, newest, timer, got, pub, row, writes, faults>>

PublishStep(p) ==
    \/ Lookup(p) \/ (\E c \in Conns : Visit(p, c)) \/ Send(p) \/ FinishWalk(p)
    \/ SendPanics(p)

Next ==
    \/ \E p \in Publishers, j \in Jobs : WriteAndPublish(p, j)
    \/ \E j \in Jobs : WriteSilently(j)
    \/ \E p \in Publishers : PublishStep(p)
    \/ \E c \in Conns : Subscribe(c) \/ Unsubscribe(c) \/ CloseChannel(c) \/ MapRace(c)
    \/ ServerRestart \/ StreamBreaks
    \/ Deliver \/ TimerFires \/ UserReload
    \/ \E r \in Loads : AnswerLoad(r) \/ Render(r)

Spec == Init /\ [][Next]_vars

\* Goroutines run, requests are answered or fail, timers fire, and the page
\* goes on reconnecting.  Nothing is owed by users, by writers of rows, or by
\* a page that is slow to take its events (Deliver).
Fairness ==
    /\ \A p \in Publishers : WF_vars(PublishStep(p))
    /\ \A c \in Conns : WF_vars(Subscribe(c)) /\ WF_vars(Unsubscribe(c) \/ CloseChannel(c))
    /\ WF_vars(TimerFires)
    /\ \A r \in Loads : WF_vars(AnswerLoad(r)) /\ WF_vars(Render(r))

FairSpec == Spec /\ Fairness

-----------------------------------------------------------------------------
(* Safety *)

Event == [id : Jobs, ver : Versions]
Publication == [at : {"lookup", "walk", "send"}, id : Jobs, ver : Versions, map : {0} \cup Conns,
                must : SUBSET Conns, seen : SUBSET Conns, to : {0} \cup Conns]
Load == [is : {"none", "asked", "failed"}]
            \cup [is : {"answered"}, rows : [Watched -> Versions]]

\* The shape of the server's and of the page's state; a channel never holds
\* more than its buffer.
TypeOK ==
    /\ writes \in Versions /\ row \in [Jobs -> Versions]
    /\ map \in {0} \cup Conns /\ home \in [Conns -> {0} \cup Conns]
    /\ stream \in [Conns -> {"unused", "open", "leaving", "closed"}]
    /\ buf \in [Conns -> Seq(Event)] /\ \A c \in Conns : Len(buf[c]) <= Buffer
    /\ pub \in [Publishers -> {Idle} \cup Publication]
    /\ mine \in {0} \cup Conns
    /\ shown \in [Watched -> Versions]
    /\ loads \in [Loads -> Load] /\ newest \in Loads
    /\ timer \in BOOLEAN
    /\ got \in [Watched -> Versions] /\ cause \in [Watched -> SUBSET Causes]
    /\ faults \in 0..MaxFaults

\* The newest write of row j will still reach the page: by an event being
\* published or waiting, by a load (a failed one empties the page), or by a
\* reload that is due.
OnItsWay(j) ==
    \/ \E p \in Publishers : pub[p] # Idle /\ EventOf(p) = [id |-> j, ver |-> row[j]]
    \/ mine # 0 /\ \E i \in DOMAIN buf[mine] : buf[mine][i] = [id |-> j, ver |-> row[j]]
    \/ \E r \in Loads :
         /\ View = "detail" => r = newest
         /\ \/ loads[r].is \in {"asked", "failed"}
            \/ loads[r].is = "answered" /\ loads[r].rows[j] = row[j]
    \/ View = "detail" /\ timer

\* A badge differs from its row for one of the known reasons only (Causes), or
\* for as long as the news are under way: the bus, the stream and the page
\* lose nothing else between them.
OutdatedHasACause ==
    \A j \in Watched :
        shown[j] \notin {0, row[j]} => cause[j] # {} \/ OnItsWay(j)

\* What the page was told it shows, once its loads are done.  The page of a
\* job keeps this (it ignores answers to loads that are not the newest).
ToldIsShown ==
    (\A r \in Loads : loads[r] = Ready) /\ ~timer =>
        \A j \in Watched : shown[j] # 0 => shown[j] >= got[j]

-----------------------------------------------------------------------------
(* Liveness *)

\* Again and again the page shows each row as it is, or there is a cause, if it
\* goes on reading its events and the user does not reload it without end.
PageSettles ==
    \A j \in Watched :
        \/ []<>(shown[j] = row[j] \/ cause[j] # {})
        \/ <>[](mine # 0 /\ buf[mine] # <<>>)
        \/ []<><<UserReload>>_vars
=============================================================================
