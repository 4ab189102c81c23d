--------------------------- MODULE LiveUpdatesProofs ---------------------------
(***************************************************************************)
(* Type correctness of LiveUpdates; that the page of a job shows what it   *)
(* was told of; and that a badge is out of date for the known reasons      *)
(* only, for any number of jobs, streams, loads and publishers.            *)
(***************************************************************************)
EXTENDS LiveUpdates, TLAPS

LEMMA Numbers ==
    /\ MaxWrites \in Nat /\ MaxFaults \in Nat /\ Buffer \in Nat
    /\ Versions \subseteq Nat /\ 0 \in Versions
    /\ Conns \subseteq Nat /\ 0 \notin Conns /\ 1 \in Loads
  BY LiveAssumption DEF Versions, Conns, Loads

LEMMA InitType ==
    ASSUME Init
    PROVE  TypeOK
  <1>1. 1 \in Versions /\ Watched \subseteq Jobs
    BY LiveAssumption DEF Versions
  <1>2. loads \in [Loads -> Load] /\ newest \in Loads
    BY Numbers DEF Init, Load, Ready
  <1>3. /\ buf \in [Conns -> Seq(Event)] /\ \A c \in Conns : Len(buf[c]) <= Buffer
        /\ pub \in [Publishers -> {Idle} \cup Publication]
    BY Numbers DEF Init
  <1>4. row \in [Jobs -> Versions] /\ shown \in [Watched -> Versions] /\ got \in [Watched -> Versions]
    BY <1>1, Numbers DEF Init
  <1>5. /\ map \in {0} \cup Conns /\ home \in [Conns -> {0} \cup Conns] /\ mine \in {0} \cup Conns
        /\ stream \in [Conns -> {"unused", "open", "leaving", "closed"}]
        /\ cause \in [Watched -> SUBSET Causes] /\ faults \in 0..MaxFaults
    BY Numbers DEF Init
  <1>6. writes \in Versions /\ timer \in BOOLEAN
    BY <1>1 DEF Init
  <1> QED
    BY <1>2, <1>3, <1>4, <1>5, <1>6 DEF TypeOK

(* The accounting and the page's steps keep their types.                   *)
LEMMA AccountType ==
    ASSUME NEW s, NEW r, NEW pairs, cause \in [Watched -> SUBSET Causes], Account(s, r, pairs)
    PROVE  cause' \in [Watched -> SUBSET Causes]
  BY DEF Account

LEMMA FaultType ==
    ASSUME TypeOK, Fault \/ NoFault
    PROVE  faults' \in 0..MaxFaults
  BY Numbers DEF TypeOK, Fault, NoFault

LEMMA AskType ==
    ASSUME TypeOK, NEW r \in Loads, Ask(r)
    PROVE  /\ loads' \in [Loads -> Load] /\ newest' \in Loads
           /\ shown' \in [Watched -> Versions] /\ cause' \in [Watched -> SUBSET Causes]
  <1>1. loads' \in [Loads -> Load] /\ newest' \in Loads
    BY DEF Ask, TypeOK, Load
  <1>2. shown' \in [Watched -> Versions]
    BY Numbers DEF Ask, Show, Blank, TypeOK
  <1> QED
    BY <1>1, <1>2, AccountType DEF Ask, Show, TypeOK

LEMMA EventTyped ==
    ASSUME TypeOK, NEW p \in Publishers, pub[p] # Idle
    PROVE  pub[p] \in Publication /\ EventOf(p) \in Event
  BY DEF TypeOK, EventOf, Event, Publication

LEMMA Queues ==
    /\ \A s \in Seq(Event), e \in Event :
         /\ Append(s, e) \in Seq(Event) /\ Len(Append(s, e)) = Len(s) + 1
         /\ Append(s, e)[Len(s) + 1] = e /\ Len(s) + 1 \in DOMAIN Append(s, e)
         /\ \A i \in DOMAIN s : i \in DOMAIN Append(s, e) /\ Append(s, e)[i] = s[i]
    /\ \A s \in Seq(Event) : s # <<>> =>
         /\ Head(s) \in Event /\ Head(s) = s[1]
         /\ Tail(s) \in Seq(Event) /\ Len(Tail(s)) = Len(s) - 1
         /\ \A i \in DOMAIN s : i # 1 => i - 1 \in DOMAIN Tail(s) /\ Tail(s)[i - 1] = s[i]
  OBVIOUS

LEMMA Appended ==
    ASSUME NEW s \in Seq(Event), NEW e \in Event
    PROVE  /\ \A i \in DOMAIN s : i \in DOMAIN Append(s, e) /\ Append(s, e)[i] = s[i]
           /\ \E i \in DOMAIN Append(s, e) : Append(s, e)[i] = e
  <1>1. Len(s) + 1 \in DOMAIN Append(s, e) /\ Append(s, e)[Len(s) + 1] = e
    BY Queues
  <1> QED
    BY <1>1, Queues

LEMMA GoDownType ==
    ASSUME TypeOK, GoDown, UNCHANGED <<row, writes>>, faults' \in 0..MaxFaults
    PROVE  TypeOK'
  <1>1. /\ map' \in {0} \cup Conns /\ home' \in [Conns -> {0} \cup Conns]
        /\ stream' \in [Conns -> {"unused", "open", "leaving", "closed"}]
        /\ pub' \in [Publishers -> {Idle} \cup Publication] /\ mine' \in {0} \cup Conns
    BY DEF GoDown, TypeOK
  <1>2. buf' \in [Conns -> Seq(Event)] /\ \A c \in Conns : Len(buf'[c]) <= Buffer
    BY Numbers DEF GoDown, TypeOK
  <1>3. loads' \in [Loads -> Load]
    BY DEF GoDown, TypeOK, Load
  <1>4. cause' \in [Watched -> SUBSET Causes]
    BY AccountType DEF GoDown, Blame, TypeOK
  <1> QED
    BY <1>1, <1>2, <1>3, <1>4 DEF GoDown, TypeOK

LEMMA NextType ==
    ASSUME TypeOK, [Next]_vars
    PROVE  TypeOK'
  <1> USE Numbers DEF TypeOK, serverVars, pageVars
  <1>1. ASSUME NEW p \in Publishers, NEW j \in Jobs, WriteAndPublish(p, j) PROVE TypeOK'
    <2>1. writes + 1 \in Versions /\ writes' \in Versions /\ row' \in [Jobs -> Versions]
      <3>1. writes' = writes + 1 /\ writes < MaxWrites
        BY <1>1 DEF WriteAndPublish
      <3>2. writes + 1 \in Versions
        BY <3>1 DEF Versions
      <3> QED
        BY <1>1, <3>1, <3>2 DEF WriteAndPublish
    <2>2. pub' \in [Publishers -> {Idle} \cup Publication]
      BY <1>1, <2>1 DEF WriteAndPublish, Publication
    <2> QED
      BY <1>1, <2>1, <2>2, FaultType, AccountType DEF WriteAndPublish, Blame
  <1>2. ASSUME NEW j \in Jobs, WriteSilently(j) PROVE TypeOK'
    <2>1. writes' \in Versions /\ row' \in [Jobs -> Versions]
      BY <1>2 DEF WriteSilently, Versions
    <2> QED
      BY <1>2, <2>1, AccountType DEF WriteSilently
  <1>3. ASSUME NEW p \in Publishers, Lookup(p) PROVE TypeOK'
    <2>1. pub[p] \in Publication /\ InMap(map) \subseteq Conns
      BY <1>3, EventTyped DEF Lookup, PubAt, InMap
    <2>2. pub' \in [Publishers -> {Idle} \cup Publication]
      <3>1. \/ pub' = [pub EXCEPT ![p] = Idle]
            \/ pub' = [pub EXCEPT ![p] = [[[@ EXCEPT !.at = "walk"] EXCEPT !.map = map]
                                            EXCEPT !.must = InMap(map)]]
        BY <1>3 DEF Lookup
      <3>2. [[[pub[p] EXCEPT !.at = "walk"] EXCEPT !.map = map] EXCEPT !.must = InMap(map)] \in Publication
        BY <2>1 DEF Publication
      <3> QED
        BY <3>1, <3>2
    <2>3. cause' \in [Watched -> SUBSET Causes]
      BY <1>3, AccountType DEF Lookup, Blame
    <2> QED
      BY <1>3, <2>2, <2>3 DEF Lookup
  <1>4. ASSUME NEW p \in Publishers, NEW c \in Conns, Visit(p, c) PROVE TypeOK'
    <2>1. pub[p] \in Publication
      BY <1>4, EventTyped DEF Visit, PubAt
    <2>2. pub' \in [Publishers -> {Idle} \cup Publication]
      BY <1>4, <2>1 DEF Visit, Publication
    <2> QED
      BY <1>4, <2>2, AccountType DEF Visit, Blame
  <1>5. ASSUME NEW p \in Publishers, Send(p) PROVE TypeOK'
    <2>1. pub[p] \in Publication /\ EventOf(p) \in Event
      BY <1>5, EventTyped DEF Send, PubAt
    <2>2. pub' \in [Publishers -> {Idle} \cup Publication]
      BY <1>5, <2>1 DEF Send, Publication
    <2>3. buf' \in [Conns -> Seq(Event)] /\ \A c \in Conns : Len(buf'[c]) <= Buffer
      <3>1. CASE UNCHANGED buf
        BY <3>1
      <3>2. ASSUME NEW c \in Conns, Len(buf[c]) < Buffer, buf' = [buf EXCEPT ![c] = Append(@, EventOf(p))]
            PROVE  buf' \in [Conns -> Seq(Event)] /\ \A d \in Conns : Len(buf'[d]) <= Buffer
        <4>1. Append(buf[c], EventOf(p)) \in Seq(Event) /\ Len(Append(buf[c], EventOf(p))) = Len(buf[c]) + 1
          BY <2>1, Queues
        <4>2. Len(buf[c]) \in Nat
          OBVIOUS
        <4> QED
          BY <3>2, <4>1, <4>2
      <3>3. pub[p].to \in Conns \/ UNCHANGED buf
        BY <1>5, <2>1 DEF Send, Publication
      <3> QED
        BY <1>5, <3>1, <3>2, <3>3 DEF Send
    <2>4. cause' \in [Watched -> SUBSET Causes]
      BY <1>5, AccountType DEF Send, Blame
    <2> QED
      BY <1>5, <2>2, <2>3, <2>4 DEF Send
  <1>6. ASSUME NEW p \in Publishers, FinishWalk(p) PROVE TypeOK'
    BY <1>6, AccountType DEF FinishWalk, Blame
  <1>7. ASSUME NEW p \in Publishers, SendPanics(p) PROVE TypeOK'
    <2>1. CASE p \in Recovered
      BY <1>7, <2>1, AccountType DEF SendPanics, NoFault, Blame
    <2>2. CASE p \notin Recovered
      BY <1>7, <2>2, GoDownType DEF SendPanics, NoFault, GoDown
    <2> QED
      BY <2>1, <2>2
  <1>8. ASSUME NEW c \in Conns, Subscribe(c) PROVE TypeOK'
    BY <1>8, AccountType DEF Subscribe, Blame
  <1>9. ASSUME NEW c \in Conns, Unsubscribe(c) PROVE TypeOK'
    BY <1>9, AccountType DEF Unsubscribe, Blame
  <1>10. ASSUME NEW c \in Conns, CloseChannel(c) PROVE TypeOK'
    <2>1. buf' \in [Conns -> Seq(Event)] /\ \A d \in Conns : Len(buf'[d]) <= Buffer
      BY <1>10 DEF CloseChannel
    <2> QED
      BY <1>10, <2>1, AccountType DEF CloseChannel, Blame
  <1>11. ASSUME NEW c \in Conns, MapRace(c) PROVE TypeOK'
    BY <1>11, GoDownType DEF MapRace, NoFault, GoDown
  <1>12. CASE ServerRestart
    BY <1>12, GoDownType, FaultType DEF ServerRestart, GoDown
  <1>13. CASE StreamBreaks
    BY <1>13, FaultType, AccountType DEF StreamBreaks, Blame
  <1>14. CASE Deliver
    <2> DEFINE e == Head(buf[mine])
    <2>1. e \in Event /\ mine \in Conns
      BY <1>14, Queues DEF Deliver
    <2>2. buf' \in [Conns -> Seq(Event)] /\ \A c \in Conns : Len(buf'[c]) <= Buffer
      BY <1>14, <2>1, Queues DEF Deliver
    <2>3. got' \in [Watched -> Versions]
      BY <1>14, <2>1 DEF Deliver, Event
    <2>4. /\ shown' \in [Watched -> Versions] /\ cause' \in [Watched -> SUBSET Causes]
          /\ loads' \in [Loads -> Load] /\ newest' \in Loads /\ timer' \in BOOLEAN
      <3>1. CASE e.id \in Watched /\ View = "list"
        <4>1. ListTold(e)
          BY <1>14, <3>1 DEF Deliver
        <4>2. CASE shown[e.id] = 0
          BY <4>1, <4>2, AskType DEF ListTold
        <4>3. CASE shown[e.id] # 0
          BY <2>1, <4>1, <4>3, AccountType DEF ListTold, Show, Event
        <4> QED
          BY <4>2, <4>3
      <3>2. CASE e.id \in Watched /\ View # "list"
        BY <1>14, <3>2, AccountType DEF Deliver, DetailTold, Blame
      <3>3. CASE e.id \notin Watched
        BY <1>14, <3>3, AccountType DEF Deliver, Blame
      <3> QED
        BY <3>1, <3>2, <3>3
    <2> QED
      BY <1>14, <2>2, <2>3, <2>4 DEF Deliver
  <1>15. CASE TimerFires \/ UserReload
    BY <1>15, AskType DEF TimerFires, UserReload
  <1>16. ASSUME NEW r \in Loads, AnswerLoad(r) PROVE TypeOK'
    <2>1. [j \in Watched |-> row[j]] \in [Watched -> Versions]
      BY LiveAssumption
    <2>2. loads' \in [Loads -> Load]
      BY <1>16, <2>1 DEF AnswerLoad, Load
    <2> QED
      BY <1>16, <2>2, FaultType, AccountType DEF AnswerLoad, Blame
  <1>17. ASSUME NEW r \in Loads, Render(r) PROVE TypeOK'
    <2>1. loads' \in [Loads -> Load]
      BY <1>17 DEF Render, Ready, Load
    <2>2. shown' \in [Watched -> Versions]
      BY <1>17 DEF Render, Show, Blank, Load
    <2>3. cause' \in [Watched -> SUBSET Causes]
      BY <1>17, AccountType DEF Render, Show, Blame
    <2> QED
      BY <1>17, <2>1, <2>2, <2>3 DEF Render
  <1>18. CASE UNCHANGED vars
    BY <1>18 DEF vars
  <1> QED
    BY <1>1, <1>2, <1>3, <1>4, <1>5, <1>6, <1>7, <1>8, <1>9, <1>10, <1>11, <1>12, <1>13,
       <1>14, <1>15, <1>16, <1>17, <1>18 DEF Next, PublishStep

(* The state of the bus, of the streams and of the page keeps its shape,   *)
(* and no channel holds more than its buffer (sse.Bus.Publish drops), for  *)
(* any number of streams, publishers and loads.                            *)
THEOREM TypeCorrect == Spec => []TypeOK
  <1>1. Init => TypeOK
    BY InitType
  <1>2. TypeOK /\ [Next]_vars => TypeOK'
    BY NextType
  <1> QED
    BY <1>1, <1>2, PTL DEF Spec

-----------------------------------------------------------------------------
(* Every row has been written, and no answer is newer than its row.        *)
Answered(r) == loads[r].is = "answered"
Dated ==
    /\ \A j \in Jobs : 1 <= row[j] /\ row[j] <= writes
    /\ \A r \in Loads : Answered(r) => \A j \in Watched : loads[r].rows[j] <= row[j]
    /\ \A j \in Watched : got[j] <= row[j]
Shape == TypeOK /\ Dated

(* The page of a job: of the load last asked for, or of a reload that is   *)
(* due, nothing older than what the page was told can come.                *)
Told ==
    \/ timer
    \/ loads[newest].is \in {"asked", "failed"}
    \/ Answered(newest) /\ \A j \in Watched : loads[newest].rows[j] >= got[j]
    \/ loads[newest] = Ready /\ \A j \in Watched : shown[j] # 0 => shown[j] >= got[j]

LEMMA InitShape ==
    ASSUME Init
    PROVE  Shape /\ Told
  <1>1. TypeOK
    BY InitType
  <1>2. \A r \in Loads : ~Answered(r)
    BY DEF Init, Ready, Answered
  <1>3. Dated
    BY <1>2, LiveAssumption DEF Init, Dated
  <1>4. Told
    BY Numbers DEF Init, Told
  <1> QED
    BY <1>1, <1>3, <1>4 DEF Shape

(* Rows only get newer writes, an answer has the rows of its time, and     *)
(* the page is told of what is written only.                               *)
LEMMA Progress ==
    ASSUME TypeOK, [Next]_vars
    PROVE  /\ writes <= writes'
           /\ \A j \in Jobs : row'[j] = row[j] \/ (row'[j] = writes + 1 /\ writes' = writes + 1)
           /\ \A r \in Loads : Answered(r)' =>
                \/ loads'[r] = loads[r]
                \/ UNCHANGED row /\ \A j \in Watched : loads'[r].rows[j] = row[j]
           /\ \A j \in Watched : got'[j] = got[j] \/ (got'[j] <= row[j] /\ UNCHANGED row)
  <1> USE Numbers DEF TypeOK, serverVars, pageVars
  <1> DEFINE Same == UNCHANGED <<row, writes, got, loads>>
  <1>0. writes \in Nat
    BY DEF Versions
  <1>1. ASSUME NEW p \in Publishers, NEW j \in Jobs, WriteAndPublish(p, j)
        PROVE  /\ writes' = writes + 1 /\ UNCHANGED <<got, loads>>
               /\ \A k \in Jobs : row'[k] = row[k] \/ row'[k] = writes + 1
    BY <1>1 DEF WriteAndPublish
  <1>2. ASSUME NEW j \in Jobs, WriteSilently(j)
        PROVE  /\ writes' = writes + 1 /\ UNCHANGED <<got, loads>>
               /\ \A k \in Jobs : row'[k] = row[k] \/ row'[k] = writes + 1
    BY <1>2 DEF WriteSilently
  <1>3. ASSUME NEW p \in Publishers, \/ Lookup(p) \/ (\E c \in Conns : Visit(p, c)) \/ Send(p) \/ FinishWalk(p)
        PROVE  Same
    BY <1>3 DEF Lookup, Visit, Send, FinishWalk
  <1>4. ASSUME GoDown
        PROVE  /\ UNCHANGED <<row, writes, got>>
               /\ \A r \in Loads : Answered(r)' => loads'[r] = loads[r]
    BY <1>4 DEF GoDown, Answered
  <1>5. ASSUME NEW p \in Publishers, SendPanics(p) PROVE Same \/ GoDown
    BY <1>5 DEF SendPanics
  <1>6. ASSUME NEW c \in Conns, Subscribe(c) \/ Unsubscribe(c) \/ CloseChannel(c) PROVE Same
    BY <1>6 DEF Subscribe, Unsubscribe, CloseChannel
  <1>7. ASSUME ServerRestart \/ \E c \in Conns : MapRace(c) PROVE GoDown
    BY <1>7 DEF ServerRestart, MapRace
  <1>8. CASE StreamBreaks
    BY <1>8 DEF StreamBreaks
  <1>9. ASSUME NEW r \in Loads, Ask(r)
        PROVE  \A q \in Loads : Answered(q)' => loads'[q] = loads[q]
    BY <1>9 DEF Ask, Answered
  <1>10. CASE Deliver
    <2>1. UNCHANGED <<row, writes>>
      BY <1>10 DEF Deliver
    <2>2. \A j \in Watched : got'[j] = got[j] \/ got'[j] <= row[j]
      BY <1>10 DEF Deliver
    <2>3. \A q \in Loads : Answered(q)' => loads'[q] = loads[q]
      BY <1>9, <1>10 DEF Deliver, ListTold, DetailTold, Answered
    <2> QED
      BY <2>1, <2>2, <2>3, <1>0
  <1>11. ASSUME TimerFires \/ UserReload
         PROVE  /\ UNCHANGED <<row, writes, got>>
                /\ \A q \in Loads : Answered(q)' => loads'[q] = loads[q]
    BY <1>9, <1>11 DEF TimerFires, UserReload
  <1>12. ASSUME NEW r \in Loads, AnswerLoad(r)
         PROVE  /\ UNCHANGED <<row, writes, got>>
                /\ \A q \in Loads : Answered(q)' =>
                     \/ loads'[q] = loads[q]
                     \/ \A j \in Watched : loads'[q].rows[j] = row[j]
    BY <1>12 DEF AnswerLoad, Answered
  <1>13. ASSUME NEW r \in Loads, Render(r)
         PROVE  /\ UNCHANGED <<row, writes, got>>
                /\ \A q \in Loads : Answered(q)' => loads'[q] = loads[q]
    BY <1>13 DEF Render, Answered, Ready
  <1>14. CASE UNCHANGED vars
    BY <1>14 DEF vars
  <1> QED
    BY <1>0, <1>1, <1>2, <1>3, <1>4, <1>5, <1>6, <1>7, <1>8, <1>10, <1>11, <1>12, <1>13, <1>14
       DEF Next, PublishStep, Answered

LEMMA NextShape ==
    ASSUME Shape, [Next]_vars
    PROVE  Shape'
  <1> USE DEF Shape
  <1>1. TypeOK'
    BY NextType
  <1>2. /\ \A j \in Jobs : row[j] \in Nat /\ row'[j] \in Nat
        /\ writes \in Nat /\ writes' \in Nat /\ Watched \subseteq Jobs
        /\ \A j \in Watched : got[j] \in Nat /\ got'[j] \in Nat
        /\ \A r \in Loads : Answered(r) => \A j \in Watched : loads[r].rows[j] \in Nat
    <2>1. Versions \subseteq Nat /\ Watched \subseteq Jobs
      BY Numbers, LiveAssumption
    <2>2. /\ \A j \in Jobs : row[j] \in Nat /\ row'[j] \in Nat
          /\ writes \in Nat /\ writes' \in Nat
          /\ \A j \in Watched : got[j] \in Nat /\ got'[j] \in Nat
      BY <1>1, <2>1 DEF TypeOK
    <2>3. ASSUME NEW r \in Loads, Answered(r), NEW j \in Watched
          PROVE  loads[r].rows[j] \in Nat
      <3>1. loads[r].rows \in [Watched -> Versions]
        BY <2>3 DEF TypeOK, Answered, Load
      <3> QED
        BY <2>1, <3>1
    <2> QED
      BY <2>1, <2>2, <2>3
  <1>3. \A j \in Jobs : 1 <= row'[j] /\ row'[j] <= writes' /\ row[j] <= row'[j]
    BY <1>2, Progress DEF Dated
  <1>4. \A j \in Watched : got'[j] <= row'[j]
    BY <1>2, <1>3, Progress DEF Dated
  <1>5. \A r \in Loads : Answered(r)' => \A j \in Watched : loads'[r].rows[j] <= row'[j]
    BY <1>2, <1>3, Progress DEF Dated, Answered
  <1> QED
    BY <1>1, <1>3, <1>4, <1>5 DEF Dated

(* A load just asked for, or a reload that is due, brings what is new.     *)
LEMMA NextTold ==
    ASSUME Shape, Shape', View = "detail", Told, [Next]_vars
    PROVE  Told'
  <1> USE DEF Shape, TypeOK, serverVars, pageVars
  <1> DEFINE Same == UNCHANGED <<got, loads, newest, timer, shown>>
  <1>1. ASSUME Same PROVE Told'
    BY <1>1 DEF Told, Answered
  <1>2. ASSUME NEW r \in Loads, Ask(r) PROVE Told'
    <2>1. newest' = r /\ loads'[r] = [is |-> "asked"]
      BY <1>2 DEF Ask
    <2> QED
      BY <2>1 DEF Told
  <1>3. ASSUME GoDown PROVE Told'
    <2>1. UNCHANGED <<got, newest, timer, shown>>
      BY <1>3 DEF GoDown
    <2>2. loads'[newest] = IF loads[newest].is = "asked" THEN [is |-> "failed"] ELSE loads[newest]
      BY <1>3 DEF GoDown
    <2> QED
      BY <2>1, <2>2 DEF Told, Answered
  <1>4. ASSUME \/ \E p \in Publishers, j \in Jobs : WriteAndPublish(p, j)
               \/ \E j \in Jobs : WriteSilently(j)
               \/ \E p \in Publishers : \/ Lookup(p) \/ (\E c \in Conns : Visit(p, c)) \/ Send(p)
                                        \/ FinishWalk(p)
               \/ \E c \in Conns : Subscribe(c) \/ Unsubscribe(c) \/ CloseChannel(c)
               \/ StreamBreaks
        PROVE  Same
    BY <1>4 DEF WriteAndPublish, WriteSilently, Lookup, Visit, Send, FinishWalk, Subscribe,
                Unsubscribe, CloseChannel, StreamBreaks
  <1>5. ASSUME NEW p \in Publishers, SendPanics(p) PROVE Same \/ GoDown
    BY <1>5 DEF SendPanics
  <1>6. ASSUME ServerRestart \/ \E c \in Conns : MapRace(c) PROVE GoDown
    BY <1>6 DEF ServerRestart, MapRace
  <1>7. CASE Deliver
    <2>1. CASE Head(buf[mine]).id \in Watched
      BY <1>7, <2>1 DEF Deliver, DetailTold, Told
    <2>2. CASE Head(buf[mine]).id \notin Watched
      BY <1>1, <1>7, <2>2 DEF Deliver
    <2> QED
      BY <2>1, <2>2
  <1>8. CASE TimerFires \/ UserReload
    BY <1>2, <1>8 DEF TimerFires, UserReload
  <1>9. ASSUME NEW r \in Loads, AnswerLoad(r) PROVE Told'
    <2>1. UNCHANGED <<row, got, newest, timer, shown>> /\ loads[r].is = "asked"
      BY <1>9 DEF AnswerLoad
    <2>2. CASE r # newest
      <3>1. loads'[newest] = loads[newest]
        BY <1>9, <2>2 DEF AnswerLoad
      <3> QED
        BY <2>1, <3>1 DEF Told, Answered
    <2>3. CASE r = newest
      <3>1. CASE loads'[r] = [is |-> "failed"]
        BY <2>1, <2>3, <3>1 DEF Told
      <3>2. CASE loads'[r] = [is |-> "answered", rows |-> [j \in Watched |-> row[j]]]
        <4>1. \A j \in Watched : row[j] >= got[j]
          BY Numbers, LiveAssumption DEF Dated
        <4> QED
          BY <2>1, <2>3, <3>2, <4>1 DEF Told, Answered
      <3> QED
        BY <1>9, <3>1, <3>2 DEF AnswerLoad
    <2> QED
      BY <2>2, <2>3
  <1>10. ASSUME NEW r \in Loads, Render(r) PROVE Told'
    <2>1. UNCHANGED <<got, newest, timer>> /\ loads[r].is \in {"answered", "failed"}
      BY <1>10 DEF Render
    <2>2. CASE r # newest
      <3>1. loads'[newest] = loads[newest] /\ UNCHANGED shown
        BY <1>10, <2>2 DEF Render
      <3> QED
        BY <2>1, <3>1 DEF Told, Answered
    <2>3. CASE r = newest
      <3>1. loads'[newest] = Ready
        BY <1>10, <2>3 DEF Render
      <3>2. shown' = IF loads[r].is = "failed" THEN Blank ELSE loads[r].rows
        BY <1>10, <2>3 DEF Render, Show
      <3>3. timer \/ \A j \in Watched : shown'[j] # 0 => shown'[j] >= got[j]
        BY <2>1, <2>3, <3>2 DEF Told, Blank, Answered, Ready
      <3> QED
        BY <2>1, <3>1, <3>3 DEF Told
    <2> QED
      BY <2>2, <2>3
  <1>11. CASE UNCHANGED vars
    BY <1>1, <1>11 DEF vars
  <1> QED
    BY <1>1, <1>3, <1>4, <1>5, <1>6, <1>7, <1>8, <1>9, <1>10, <1>11 DEF Next, PublishStep

(* The page of a job shows what an event told it, or nothing, once its     *)
(* loads are done (jdOnJobEvent and _jd.seq in static/js/job_detail.js).   *)
THEOREM ToldIsShownHolds ==
    ASSUME View = "detail"
    PROVE  Spec => []ToldIsShown
  <1>1. Init => Shape /\ Told
    BY InitShape
  <1>2. (Shape /\ Told) /\ [Next]_vars => (Shape /\ Told)'
    BY NextShape, NextTold
  <1>3. Shape /\ Told => ToldIsShown
    <2> SUFFICES ASSUME Shape, Told, \A r \in Loads : loads[r] = Ready, ~timer
                 PROVE  \A j \in Watched : shown[j] # 0 => shown[j] >= got[j]
      BY DEF ToldIsShown
    <2>1. loads[newest] = Ready
      BY DEF Shape, TypeOK
    <2> QED
      BY <2>1 DEF Told, Ready, Answered
  <1> QED
    BY <1>1, <1>2, <1>3, PTL DEF Spec

-----------------------------------------------------------------------------
(* An open stream is in the map of its user, and a publication still has   *)
(* to visit those of the streams it found there that are open.             *)
Streams ==
    /\ \A c \in Conns : stream[c] = "open" => home[c] = map /\ map # 0
    /\ \A c \in Conns : stream[c] = "unused" => home[c] = 0
    /\ mine # 0 => stream[mine] = "open"
Walks(p) ==
    /\ \A c \in pub[p].seen \cup pub[p].must : stream[c] # "unused"
    /\ \A c \in pub[p].must : stream[c] = "open" => home[c] = pub[p].map
    /\ pub[p].at = "lookup" => pub[p].seen = {}
    /\ pub[p].at # "lookup" => pub[p].map # 0
    /\ pub[p].at = "send" => pub[p].to \in pub[p].seen
Wired == Streams /\ \A p \in Publishers : pub[p] # Idle => Walks(p)

LEMMA InitWired ==
    ASSUME Init
    PROVE  Wired
  BY DEF Init, Wired, Streams

(* The steps that leave the streams alone, or only break the page's, and   *)
(* those that make one publication go on.                                  *)
LEMMA WiresStay ==
    ASSUME Wired, UNCHANGED <<map, home, stream, pub>>, mine' \in {0, mine}
    PROVE  Wired'
  BY DEF Wired, Streams, Walks

LEMMA OneWalks ==
    ASSUME TypeOK, Wired, UNCHANGED <<map, home, stream, mine>>, NEW p \in Publishers,
           \A q \in Publishers \ {p} : pub'[q] = pub[q],
           pub'[p] = Idle \/ Walks(p)'
    PROVE  Wired'
  BY DEF Wired, Streams, Walks

LEMMA DownWires ==
    ASSUME TypeOK, GoDown
    PROVE  Wired'
  BY DEF GoDown, Wired, Streams, TypeOK

LEMMA NextWired ==
    ASSUME TypeOK, Wired, [Next]_vars
    PROVE  Wired'
  <1> USE DEF TypeOK, serverVars, pageVars
  <1>1. ASSUME NEW p \in Publishers, NEW j \in Jobs, WriteAndPublish(p, j) PROVE Wired'
    <2>1. /\ pub'[p] = [at |-> "lookup", id |-> j, ver |-> writes + 1,
                        map |-> 0, must |-> {}, seen |-> {}, to |-> 0]
          /\ \A q \in Publishers \ {p} : pub'[q] = pub[q]
      BY <1>1 DEF WriteAndPublish
    <2>2. Walks(p)'
      BY <2>1 DEF Walks
    <2> QED
      BY <1>1, <2>1, <2>2, OneWalks DEF WriteAndPublish
  <1>2. ASSUME NEW p \in Publishers, Lookup(p) PROVE Wired'
    <2>1. \A q \in Publishers \ {p} : pub'[q] = pub[q]
      BY <1>2 DEF Lookup
    <2>2. CASE map = 0
      BY <1>2, <2>1, <2>2, OneWalks DEF Lookup
    <2>3. CASE map # 0
      <3>1. pub[p] \in Publication /\ pub[p].at = "lookup" /\ Walks(p)
        BY <1>2, EventTyped DEF Lookup, PubAt, Wired
      <3>2. /\ pub'[p].at = "walk" /\ pub'[p].map = map /\ pub'[p].must = InMap(map)
            /\ pub'[p].seen = {}
        <4>1. pub' = [pub EXCEPT ![p] = [[[@ EXCEPT !.at = "walk"] EXCEPT !.map = map]
                                            EXCEPT !.must = InMap(map)]]
          BY <1>2, <2>3 DEF Lookup
        <4>2. pub'[p] = [[[pub[p] EXCEPT !.at = "walk"] EXCEPT !.map = map]
                                            EXCEPT !.must = InMap(map)]
          BY <4>1
        <4>3. pub[p].seen = {}
          BY <3>1 DEF Walks
        <4> QED
          BY <3>1, <4>2, <4>3 DEF Publication
      <3>3. \A c \in InMap(map) : stream[c] # "unused" /\ home[c] = map
        BY <2>3 DEF Wired, Streams, InMap
      <3>4. Walks(p)'
        BY <1>2, <2>3, <3>2, <3>3 DEF Walks, Lookup
      <3> QED
        BY <1>2, <2>1, <3>4, OneWalks DEF Lookup
    <2> QED
      BY <2>2, <2>3
  <1>3. ASSUME NEW p \in Publishers, NEW c \in Conns, Visit(p, c) PROVE Wired'
    <2>1. \A q \in Publishers \ {p} : pub'[q] = pub[q]
      BY <1>3 DEF Visit
    <2>2. pub[p] \in Publication /\ pub[p].at = "walk" /\ Walks(p)
      BY <1>3, EventTyped DEF Visit, PubAt, Wired
    <2>3. /\ pub'[p].at = "send" /\ pub'[p].to = c /\ pub'[p].seen = pub[p].seen \cup {c}
          /\ pub'[p].must = pub[p].must /\ pub'[p].map = pub[p].map
      BY <1>3, <2>2 DEF Visit, Publication
    <2>4. stream[c] # "unused"
      BY <1>3, <2>2 DEF Visit, InMap, Wired, Streams, Walks
    <2>5. Walks(p)'
      BY <1>3, <2>2, <2>3, <2>4 DEF Walks, Visit
    <2> QED
      BY <1>3, <2>1, <2>5, OneWalks DEF Visit
  <1>4. ASSUME NEW p \in Publishers, Send(p) PROVE Wired'
    <2>1. \A q \in Publishers \ {p} : pub'[q] = pub[q]
      BY <1>4 DEF Send
    <2>2. pub[p] \in Publication /\ pub[p].at = "send" /\ Walks(p)
      BY <1>4, EventTyped DEF Send, PubAt, Wired
    <2>3. /\ pub'[p].at = "walk" /\ pub'[p].seen = pub[p].seen
          /\ pub'[p].must = pub[p].must /\ pub'[p].map = pub[p].map
      BY <1>4, <2>2 DEF Send, Publication
    <2>4. Walks(p)'
      BY <1>4, <2>2, <2>3 DEF Walks, Send
    <2> QED
      BY <1>4, <2>1, <2>4, OneWalks DEF Send
  <1>5. ASSUME NEW p \in Publishers, FinishWalk(p) PROVE Wired'
    BY <1>5, OneWalks DEF FinishWalk
  <1>6. ASSUME NEW p \in Publishers, SendPanics(p) PROVE Wired'
    BY <1>6, OneWalks, DownWires DEF SendPanics
  <1>7. ASSUME NEW c \in Conns, Subscribe(c) PROVE Wired'
    <2>1. /\ stream[c] = "unused" /\ mine' = c /\ UNCHANGED pub /\ c # 0
          /\ stream' = [stream EXCEPT ![c] = "open"]
          /\ map' = (IF map = 0 THEN c ELSE map) /\ home' = [home EXCEPT ![c] = map']
      BY <1>7, Numbers DEF Subscribe
    <2>2. Streams'
      BY <2>1 DEF Wired, Streams
    <2>3. ASSUME NEW p \in Publishers, pub[p] # Idle PROVE Walks(p)'
      <3>1. Walks(p) /\ pub[p] \in Publication
        BY <2>3, EventTyped DEF Wired
      <3>2. \A d \in pub[p].seen \cup pub[p].must : d \in Conns /\ d # c
        BY <2>1, <3>1 DEF Walks, Publication
      <3>3. \A d \in Conns \ {c} : stream'[d] = stream[d] /\ home'[d] = home[d]
        BY <2>1
      <3> QED
        BY <2>1, <3>1, <3>2, <3>3 DEF Walks
    <2> QED
      BY <2>1, <2>2, <2>3 DEF Wired
  <1>8. ASSUME NEW c \in Conns, Unsubscribe(c) \/ CloseChannel(c) PROVE Wired'
    <2>1. /\ UNCHANGED <<mine, pub>> /\ stream[c] # "unused" /\ mine # c
          /\ stream'[c] \in {"leaving", "closed"}
          /\ \A d \in Conns \ {c} : stream'[d] = stream[d] /\ home'[d] = home[d]
      <3>1. CASE Unsubscribe(c)
        BY <3>1 DEF Unsubscribe
      <3>2. CASE CloseChannel(c)
        <4>1. mine # c
          BY <3>2, Numbers DEF CloseChannel, Wired, Streams
        <4> QED
          BY <3>2, <4>1 DEF CloseChannel
      <3> QED
        BY <1>8, <3>1, <3>2
    <2>2. \A d \in Conns \ {c} : stream[d] = "open" => map' = map
      BY <1>8 DEF Unsubscribe, CloseChannel, Wired, Streams, InMap
    <2>3. Streams'
      BY <2>1, <2>2 DEF Wired, Streams
    <2>4. ASSUME NEW p \in Publishers, pub[p] # Idle PROVE Walks(p)'
      <3>1. Walks(p) /\ pub[p] \in Publication
        BY <2>4, EventTyped DEF Wired
      <3>2. \A d \in pub[p].seen \cup pub[p].must : d \in Conns
        BY <3>1 DEF Publication
      <3> QED
        BY <2>1, <3>1, <3>2 DEF Walks
    <2> QED
      BY <2>1, <2>3, <2>4 DEF Wired
  <1>9. ASSUME ServerRestart \/ \E c \in Conns : MapRace(c) PROVE Wired'
    BY <1>9, DownWires DEF ServerRestart, MapRace
  <1>10. CASE Deliver
    BY <1>10, WiresStay DEF Deliver
  <1>11. CASE StreamBreaks \/ TimerFires \/ UserReload \/ UNCHANGED vars
    BY <1>11, WiresStay DEF StreamBreaks, TimerFires, UserReload, vars
  <1>12. ASSUME \/ \E j \in Jobs : WriteSilently(j)
                \/ \E r \in Loads : AnswerLoad(r) \/ Render(r)
         PROVE  Wired'
    BY <1>12, WiresStay DEF WriteSilently, AnswerLoad, Render
  <1> QED
    BY <1>1, <1>2, <1>3, <1>4, <1>5, <1>6, <1>7, <1>8, <1>9, <1>10, <1>11, <1>12
       DEF Next, PublishStep

-----------------------------------------------------------------------------
(* The newest write of the row is still to reach the page: by an event     *)
(* that is on its way to the page's stream or waits there, or by a load.   *)
Ahead(p) == pub[p] # Idle /\ (mine \in pub[p].seen => pub[p].at = "send" /\ pub[p].to = mine)
News(j) == [id |-> j, ver |-> row[j]]
BusBrings(j) ==
    \/ \E p \in Publishers : Ahead(p) /\ EventOf(p) = News(j)
    \/ mine # 0 /\ \E i \in DOMAIN buf[mine] : buf[mine][i] = News(j)
Counts(r) == View = "detail" => r = newest
LoadBrings(j) ==
    \/ \E r \in Loads :
         /\ Counts(r)
         /\ \/ loads[r].is \in {"asked", "failed"}
            \/ Answered(r) /\ loads[r].rows[j] = row[j]
    \/ View = "detail" /\ timer

(* The page shows an old status of the row, or will show one when the      *)
(* answer to a load is rendered.                                           *)
Behind(j) ==
    /\ shown[j] # row[j]
    /\ \/ shown[j] # 0
       \/ \E r \in Loads : Counts(r) /\ Answered(r) /\ loads[r].rows[j] # row[j]

Explained(j) ==
    /\ shown[j] > row[j] => cause[j] # {}
    /\ Behind(j) => cause[j] # {} \/ BusBrings(j) \/ LoadBrings(j)
NewsInv == Shape /\ Wired /\ \A j \in Watched : Explained(j)

(* A cause stays for as long as the page does not show the row.            *)
LEMMA AccountKeeps ==
    ASSUME TypeOK, NEW s, NEW r, NEW pairs, Account(s, r, pairs), NEW j \in Watched, s[j] # r[j]
    PROVE  /\ cause[j] # {} => cause'[j] # {}
           /\ (\E why \in Causes : <<j, why>> \in pairs) => cause'[j] # {}
  BY DEF Account, TypeOK

LEMMA UnseenTells ==
    ASSUME NEW evs, NEW why, NEW e \in evs, e.id \in Watched, shown[e.id] < e.ver
    PROVE  <<e.id, why>> \in Unseen(evs, why)
  BY DEF Unseen

LEMMA NewsBlamed ==
    ASSUME NEW j \in Watched, NEW evs, NEW why, News(j) \in evs, shown[j] < row[j]
    PROVE  <<j, why>> \in Unseen(evs, why)
  <1>1. News(j).id = j /\ News(j).ver = row[j]
    BY DEF News
  <1>2. <<News(j).id, why>> \in Unseen(evs, why)
    BY <1>1, UnseenTells
  <1> QED
    BY <1>1, <1>2

LEMMA EventBlamed ==
    ASSUME NEW j \in Watched, NEW p, NEW why, EventOf(p) = News(j), shown[j] < row[j]
    PROVE  <<j, why>> \in Unseen({EventOf(p)}, why)
  BY NewsBlamed

LEMMA Dates ==
    ASSUME Shape
    PROVE  /\ \A j \in Watched : j \in Jobs /\ shown[j] \in Nat /\ row[j] \in Nat /\ row[j] # 0
           /\ \A r \in Loads : Answered(r) => \A j \in Watched :
                loads[r].rows[j] \in Nat /\ loads[r].rows[j] <= row[j]
  <1>1. Versions \subseteq Nat /\ Watched \subseteq Jobs
    BY Numbers, LiveAssumption
  <1>2. ASSUME NEW j \in Watched
        PROVE  j \in Jobs /\ shown[j] \in Nat /\ row[j] \in Nat /\ row[j] # 0
    <2>1. j \in Jobs /\ shown[j] \in Nat /\ row[j] \in Nat
      BY <1>1 DEF Shape, TypeOK
    <2>2. 1 <= row[j]
      BY <2>1 DEF Shape, Dated
    <2> QED
      BY <2>1, <2>2
  <1>3. ASSUME NEW r \in Loads, Answered(r), NEW j \in Watched
        PROVE  loads[r].rows[j] \in Nat /\ loads[r].rows[j] <= row[j]
    <2>1. loads[r].rows \in [Watched -> Versions]
      BY <1>3 DEF Shape, TypeOK, Answered, Load
    <2> QED
      BY <1>1, <1>3, <2>1 DEF Shape, Dated
  <1> QED
    BY <1>2, <1>3

(* A step of the server, or of a load, that shows the page nothing: the    *)
(* news that do not come any more are blamed.                              *)
LEMMA NothingShown ==
    ASSUME NewsInv, NEW j \in Watched, row'[j] = row[j], shown'[j] = shown[j],
           NEW s, s[j] = shown[j], NEW r, r[j] = row[j], NEW pairs, Account(s, r, pairs),
           LoadBrings(j) => LoadBrings(j)',
           Behind(j)' => Behind(j),
           shown[j] < row[j] /\ BusBrings(j) =>
               BusBrings(j)' \/ LoadBrings(j)' \/ \E why \in Causes : <<j, why>> \in pairs
    PROVE  Explained(j)'
  <1> USE DEF NewsInv
  <1>1. shown[j] \in Nat /\ row[j] \in Nat
    BY Dates
  <1>2. shown[j] # row[j] /\ cause[j] # {} => cause'[j] # {}
    BY AccountKeeps DEF Shape
  <1>3. shown[j] # row[j] /\ (\E why \in Causes : <<j, why>> \in pairs) => cause'[j] # {}
    BY AccountKeeps DEF Shape
  <1>4. shown'[j] > row'[j] => cause'[j] # {}
    BY <1>1, <1>2 DEF Explained
  <1>5. ASSUME Behind(j)' PROVE cause'[j] # {} \/ BusBrings(j)' \/ LoadBrings(j)'
    <2>1. shown[j] # row[j] /\ (cause[j] # {} \/ BusBrings(j) \/ LoadBrings(j))
      BY <1>5 DEF Explained, Behind
    <2>2. CASE shown[j] > row[j]
      BY <1>4, <2>2
    <2>3. CASE shown[j] < row[j]
      BY <1>2, <1>3, <2>1, <2>3
    <2> QED
      BY <1>1, <2>1, <2>2, <2>3
  <1> QED
    BY <1>4, <1>5 DEF Explained

(* What a page asks for brings the news.                                   *)
LEMMA AskExplains ==
    ASSUME NewsInv, NEW r \in Loads, Ask(r), UNCHANGED row, NEW j \in Watched
    PROVE  Explained(j)'
  <1> USE DEF NewsInv
  <1>1. newest' = r /\ loads'[r] = [is |-> "asked"]
    BY DEF Ask, Shape, TypeOK
  <1>2. LoadBrings(j)'
    BY <1>1 DEF LoadBrings, Counts
  <1>3. shown'[j] = 0 \/ shown'[j] = shown[j]
    BY DEF Ask, Show, Blank
  <1>4. shown'[j] # row[j] /\ cause[j] # {} => cause'[j] # {}
    BY AccountKeeps DEF Ask, Show, Shape
  <1>5. shown[j] \in Nat /\ row[j] \in Nat /\ row[j] # 0
    BY Dates
  <1>6. shown'[j] > row'[j] => cause'[j] # {}
    BY <1>3, <1>4, <1>5 DEF Explained
  <1> QED
    BY <1>2, <1>6 DEF Explained

(* A badge set anew, to what is older than the row, was behind before or   *)
(* has its cause.                                                          *)
LEMMA Shown ==
    ASSUME NewsInv, UNCHANGED row, NEW j \in Watched, NEW s, NEW pairs, Show(s, pairs), s[j] \in Nat,
           s[j] > row[j] => \E why \in Causes : <<j, why>> \in pairs,
           s[j] # row[j] /\ s[j] < shown[j] => \E why \in Causes : <<j, why>> \in pairs,
           s[j] # row[j] /\ s[j] >= shown[j] /\ s[j] < row[j] =>
               /\ Behind(j)
               /\ BusBrings(j) \/ LoadBrings(j) => BusBrings(j)' \/ LoadBrings(j)'
    PROVE  Explained(j)'
  <1> USE DEF NewsInv
  <1>1. shown[j] \in Nat /\ row[j] \in Nat /\ shown' = s
    BY Dates DEF Show
  <1>2. s[j] # row[j] /\ cause[j] # {} => cause'[j] # {}
    BY AccountKeeps DEF Show, Shape
  <1>3. s[j] # row[j] /\ (\E why \in Causes : <<j, why>> \in pairs) => cause'[j] # {}
    BY AccountKeeps DEF Show, Shape
  <1>4. s[j] > row[j] => cause'[j] # {}
    BY <1>1, <1>3
  <1>5. s[j] # row[j] => cause'[j] # {} \/ BusBrings(j)' \/ LoadBrings(j)'
    <2>1. CASE s[j] > row[j]
      BY <1>4, <2>1
    <2>2. CASE s[j] < row[j] /\ s[j] < shown[j]
      BY <1>1, <1>3, <2>2
    <2>3. CASE s[j] < row[j] /\ s[j] >= shown[j]
      BY <1>1, <1>2, <2>3 DEF Explained
    <2> QED
      BY <1>1, <2>1, <2>2, <2>3
  <1>6. Behind(j)' => s[j] # row[j]
    BY <1>1 DEF Behind
  <1> QED
    BY <1>1, <1>4, <1>5, <1>6 DEF Explained

(* A publication goes on, or ends with its blame.                          *)
LEMMA BusStep ==
    ASSUME NewsInv, UNCHANGED <<row, shown, loads, newest, timer, mine>>, NEW p \in Publishers,
           \A q \in Publishers \ {p} : pub'[q] = pub[q],
           mine # 0 => \A i \in DOMAIN buf[mine] : i \in DOMAIN buf'[mine] /\ buf'[mine][i] = buf[mine][i],
           NEW pairs, Blame(pairs), NEW j \in Watched,
           Ahead(p) /\ EventOf(p) = News(j) /\ shown[j] < row[j] =>
               \/ Ahead(p)' /\ EventOf(p)' = EventOf(p)
               \/ mine # 0 /\ \E i \in DOMAIN buf'[mine] : buf'[mine][i] = News(j)
               \/ \E why \in Causes : <<j, why>> \in pairs
    PROVE  Explained(j)'
  <1>1. LoadBrings(j)' = LoadBrings(j) /\ Behind(j)' = Behind(j) /\ News(j)' = News(j)
    BY DEF LoadBrings, Behind, Counts, Answered, News
  <1>2. ASSUME NEW q \in Publishers \ {p}, Ahead(q) /\ EventOf(q) = News(j)
        PROVE  Ahead(q)' /\ EventOf(q)' = News(j)'
    BY <1>1, <1>2 DEF Ahead, EventOf
  <1>3. ASSUME shown[j] < row[j], BusBrings(j)
        PROVE  BusBrings(j)' \/ \E why \in Causes : <<j, why>> \in pairs
    <2>1. CASE mine # 0 /\ \E i \in DOMAIN buf[mine] : buf[mine][i] = News(j)
      BY <1>1, <2>1 DEF BusBrings
    <2>2. CASE \E q \in Publishers \ {p} : Ahead(q) /\ EventOf(q) = News(j)
      BY <1>2, <2>2 DEF BusBrings
    <2>3. CASE Ahead(p) /\ EventOf(p) = News(j)
      BY <1>1, <1>3, <2>3 DEF BusBrings
    <2> QED
      BY <1>3, <2>1, <2>2, <2>3 DEF BusBrings
  <1> QED
    BY <1>1, <1>3, NothingShown DEF Blame

LEMMA LookupExplains ==
    ASSUME NewsInv, NEW p \in Publishers, Lookup(p), NEW j \in Watched
    PROVE  Explained(j)'
  <1> USE DEF NewsInv, Shape, TypeOK
  <1>1. pub[p] \in Publication /\ pub[p].at = "lookup" /\ pub[p].seen = {} /\ pub[p] # Idle
    BY EventTyped DEF Lookup, PubAt, Wired, Walks
  <1>2. /\ UNCHANGED <<row, shown, loads, newest, timer, mine, buf>>
        /\ \A q \in Publishers \ {p} : pub'[q] = pub[q]
    BY DEF Lookup, serverVars, pageVars
  <1>3. CASE map = 0
    <2>1. mine = 0
      BY <1>3 DEF Wired, Streams
    <2>2. Blame(Unseen({EventOf(p)}, "missed"))
      BY <1>3, <2>1 DEF Lookup
    <2>3. EventOf(p) = News(j) /\ shown[j] < row[j] => <<j, "missed">> \in Unseen({EventOf(p)}, "missed")
      BY EventBlamed
    <2>4. "missed" \in Causes
      BY DEF Causes
    <2> QED
      BY <1>2, <2>2, <2>3, <2>4, BusStep
  <1>4. CASE map # 0
    <2>1. pub'[p] = [[[pub[p] EXCEPT !.at = "walk"] EXCEPT !.map = map] EXCEPT !.must = InMap(map)]
      BY <1>4 DEF Lookup
    <2>2. /\ pub'[p].at = "walk" /\ pub'[p].seen = {}
          /\ pub'[p].id = pub[p].id /\ pub'[p].ver = pub[p].ver
      BY <1>1, <2>1 DEF Publication
    <2>3. Ahead(p)' /\ EventOf(p)' = EventOf(p)
      BY <2>2 DEF Ahead, EventOf, Idle
    <2>4. Blame({})
      BY <1>4 DEF Lookup
    <2> QED
      BY <1>2, <2>3, <2>4, BusStep
  <1> QED
    BY <1>3, <1>4

LEMMA VisitExplains ==
    ASSUME NewsInv, NEW p \in Publishers, NEW c \in Conns, Visit(p, c), NEW j \in Watched
    PROVE  Explained(j)'
  <1> USE DEF NewsInv, Shape, TypeOK
  <1>1. pub[p] \in Publication /\ pub[p].at = "walk" /\ pub[p] # Idle
    BY EventTyped DEF Visit, PubAt
  <1>2. /\ UNCHANGED <<row, shown, loads, newest, timer, mine, buf>> /\ Blame({})
        /\ \A q \in Publishers \ {p} : pub'[q] = pub[q]
    BY DEF Visit, serverVars, pageVars
  <1>3. pub'[p] = [[[pub[p] EXCEPT !.at = "send"] EXCEPT !.to = c] EXCEPT !.seen = pub[p].seen \cup {c}]
    BY DEF Visit
  <1>4. /\ pub'[p].at = "send" /\ pub'[p].to = c /\ pub'[p].seen = pub[p].seen \cup {c}
        /\ pub'[p].id = pub[p].id /\ pub'[p].ver = pub[p].ver
    BY <1>1, <1>3 DEF Publication
  <1>5. EventOf(p)' = EventOf(p) /\ pub'[p] # Idle
    BY <1>4 DEF EventOf, Idle
  <1>6. Ahead(p) => Ahead(p)'
    BY <1>1, <1>2, <1>4, <1>5 DEF Ahead
  <1> QED
    BY <1>2, <1>5, <1>6, BusStep

LEMMA SendExplains ==
    ASSUME NewsInv, NEW p \in Publishers, Send(p), NEW j \in Watched
    PROVE  Explained(j)'
  <1> USE DEF NewsInv, Shape, TypeOK
  <1> DEFINE c == pub[p].to
  <1>1. /\ pub[p] \in Publication /\ pub[p].at = "send" /\ pub[p] # Idle
        /\ c \in pub[p].seen /\ c \in Conns /\ EventOf(p) \in Event
    BY EventTyped DEF Send, PubAt, Wired, Walks, Publication
  <1>2. /\ UNCHANGED <<row, shown, loads, newest, timer, mine>>
        /\ \A q \in Publishers \ {p} : pub'[q] = pub[q]
    BY DEF Send, pageVars
  <1>3. /\ pub'[p].at = "walk" /\ pub'[p].seen = pub[p].seen /\ pub'[p] # Idle
        /\ EventOf(p)' = EventOf(p)
    <2>1. pub'[p] = [pub[p] EXCEPT !.at = "walk"]
      BY DEF Send
    <2>2. pub'[p].at = "walk" /\ \A x \in {"seen", "id", "ver"} : pub'[p][x] = pub[p][x]
      BY <1>1, <2>1 DEF Publication
    <2> QED
      BY <2>2 DEF EventOf, Idle
  <1>4. c # mine /\ Ahead(p) => Ahead(p)'
    BY <1>1, <1>2, <1>3 DEF Ahead
  <1>5. CASE Len(buf[c]) < Buffer
    <2>1. buf' = [buf EXCEPT ![c] = Append(buf[c], EventOf(p))] /\ Blame({})
      BY <1>5 DEF Send
    <2>2. /\ \A i \in DOMAIN buf[c] : i \in DOMAIN buf'[c] /\ buf'[c][i] = buf[c][i]
          /\ \E i \in DOMAIN buf'[c] : buf'[c][i] = EventOf(p)
      <3>1. buf'[c] = Append(buf[c], EventOf(p)) /\ buf[c] \in Seq(Event)
        BY <1>1, <2>1
      <3>2. EventOf(p) \in Event
        BY <1>1
      <3>3. /\ \A i \in DOMAIN buf[c] :
                 i \in DOMAIN Append(buf[c], EventOf(p)) /\ Append(buf[c], EventOf(p))[i] = buf[c][i]
            /\ \E i \in DOMAIN Append(buf[c], EventOf(p)) : Append(buf[c], EventOf(p))[i] = EventOf(p)
        BY <3>1, <3>2, Appended, Zenon
      <3> QED
        BY <3>1, <3>3, Zenon
    <2>3. mine # 0 => mine \in Conns
      OBVIOUS
    <2>4. mine # 0 => \A i \in DOMAIN buf[mine] : i \in DOMAIN buf'[mine] /\ buf'[mine][i] = buf[mine][i]
      BY <1>1, <2>1, <2>2, <2>3
    <2>5. CASE c = mine
      <3>1. mine # 0 /\ \E i \in DOMAIN buf'[mine] : buf'[mine][i] = EventOf(p)
        BY <1>1, <2>2, <2>5, Numbers
      <3> QED
        BY <1>2, <2>1, <2>4, <3>1, BusStep
    <2>6. CASE c # mine
      BY <1>2, <1>3, <1>4, <2>1, <2>4, <2>6, BusStep
    <2> QED
      BY <2>5, <2>6
  <1>6. CASE ~(Len(buf[c]) < Buffer)
    <2>1. UNCHANGED buf
      BY <1>6 DEF Send
    <2>2. CASE c = mine
      <3>1. Blame(Unseen({EventOf(p)}, "dropped"))
        BY <1>6, <2>2 DEF Send
      <3>2. EventOf(p) = News(j) /\ shown[j] < row[j] => <<j, "dropped">> \in Unseen({EventOf(p)}, "dropped")
        BY EventBlamed
      <3>3. "dropped" \in Causes
        BY DEF Causes
      <3> QED
        BY <1>2, <2>1, <3>1, <3>2, <3>3, BusStep
    <2>3. CASE c # mine
      <3>1. Blame({})
        BY <1>6, <2>3 DEF Send
      <3> QED
        BY <1>2, <1>3, <1>4, <2>1, <2>3, <3>1, BusStep
    <2> QED
      BY <2>2, <2>3
  <1> QED
    BY <1>5, <1>6

LEMMA FinishWalkExplains ==
    ASSUME NewsInv, NEW p \in Publishers, FinishWalk(p), NEW j \in Watched
    PROVE  Explained(j)'
  <1> USE DEF NewsInv, Shape, TypeOK
  <1>1. pub[p] # Idle /\ pub[p].at = "walk" /\ Walks(p) /\ 0 \notin pub[p].must
    BY EventTyped, Numbers DEF FinishWalk, PubAt, Wired, Publication
  <1>2. /\ UNCHANGED <<row, shown, loads, newest, timer, mine, buf>>
        /\ \A q \in Publishers \ {p} : pub'[q] = pub[q]
    BY DEF FinishWalk, serverVars, pageVars
  <1>3. CASE mine \in pub[p].seen
    <2>1. ~Ahead(p) /\ Blame({})
      BY <1>1, <1>3 DEF Ahead, FinishWalk
    <2> QED
      BY <1>2, <2>1, BusStep
  <1>4. CASE mine \notin pub[p].seen
    <2>1. mine \notin pub[p].must
      <3> SUFFICES ASSUME mine \in pub[p].must PROVE FALSE
        OBVIOUS
      <3>1. mine \in Conns /\ stream[mine] = "open"
        BY <1>1 DEF Wired, Streams
      <3>2. mine \in InMap(pub[p].map)
        BY <1>1, <3>1 DEF Walks, InMap
      <3> QED
        BY <1>4, <3>2 DEF FinishWalk
    <2>2. Blame(Unseen({EventOf(p)}, "missed"))
      BY <1>4, <2>1 DEF FinishWalk
    <2>3. EventOf(p) = News(j) /\ shown[j] < row[j] => <<j, "missed">> \in Unseen({EventOf(p)}, "missed")
      BY EventBlamed
    <2>4. "missed" \in Causes
      BY DEF Causes
    <2> QED
      BY <1>2, <2>2, <2>3, <2>4, BusStep
  <1> QED
    BY <1>3, <1>4

(* A process that ends blames every event it takes along.                  *)
LEMMA GoDownExplains ==
    ASSUME NewsInv, GoDown, NEW j \in Watched
    PROVE  Explained(j)'
  <1> USE DEF NewsInv, Shape, TypeOK
  <1> DEFINE evs == {EventOf(p) : p \in {q \in Publishers : pub[q] # Idle}}
             waiting == {buf[mine][i] : i \in DOMAIN buf[mine]}
             pairs == Unseen(evs, "missed") \cup (IF mine = 0 THEN {} ELSE Unseen(waiting, "broken"))
  <1>1. UNCHANGED <<row, shown, newest, timer>> /\ Account(shown, row, pairs)
    BY DEF GoDown, Blame
  <1>2. \A r \in Loads : loads'[r] = IF loads[r].is = "asked" THEN [is |-> "failed"] ELSE loads[r]
    BY DEF GoDown
  <1>3. LoadBrings(j) => LoadBrings(j)'
    BY <1>1, <1>2 DEF LoadBrings, Counts, Answered
  <1>4. Behind(j)' => Behind(j)
    <2>1. ASSUME NEW r \in Loads, Answered(r)' PROVE loads'[r] = loads[r] /\ Answered(r)
      BY <1>2, <2>1 DEF Answered
    <2> QED
      BY <1>1, <2>1 DEF Behind, Counts
  <1>5. ASSUME shown[j] < row[j], BusBrings(j) PROVE \E why \in Causes : <<j, why>> \in pairs
    <2>1. "missed" \in Causes /\ "broken" \in Causes
      BY DEF Causes
    <2>2. CASE \E p \in Publishers : Ahead(p) /\ EventOf(p) = News(j)
      <3>1. News(j) \in evs
        BY <2>2 DEF Ahead
      <3>2. <<j, "missed">> \in Unseen(evs, "missed")
        BY <1>5, <3>1, NewsBlamed
      <3> QED
        BY <2>1, <3>2
    <2>3. CASE mine # 0 /\ \E i \in DOMAIN buf[mine] : buf[mine][i] = News(j)
      <3>1. News(j) \in waiting
        BY <2>3
      <3>2. <<j, "broken">> \in Unseen(waiting, "broken")
        BY <1>5, <3>1, NewsBlamed
      <3> QED
        BY <2>1, <2>3, <3>2
    <2> QED
      BY <1>5, <2>2, <2>3 DEF BusBrings
  <1> HIDE DEF pairs
  <1> QED
    BY <1>1, <1>3, <1>4, <1>5, NothingShown

LEMMA SendPanicsExplains ==
    ASSUME NewsInv, NEW p \in Publishers, SendPanics(p), NEW j \in Watched
    PROVE  Explained(j)'
  <1> USE DEF NewsInv, Shape, TypeOK
  <1>1. CASE p \notin Recovered
    BY <1>1, GoDownExplains DEF SendPanics
  <1>2. CASE p \in Recovered
    <2>1. /\ pub[p] # Idle /\ pub[p].at = "send" /\ stream[pub[p].to] = "closed"
          /\ pub[p].to \in pub[p].seen /\ 0 \notin pub[p].seen
      BY EventTyped, Numbers DEF SendPanics, PubAt, Wired, Walks, Publication
    <2>2. /\ UNCHANGED <<row, shown, loads, newest, timer, mine, buf>>
          /\ \A q \in Publishers \ {p} : pub'[q] = pub[q]
      BY <1>2 DEF SendPanics, serverVars, pageVars
    <2>3. CASE mine \in pub[p].seen
      <3>1. pub[p].to # mine
        BY <2>1, <2>3 DEF Wired, Streams
      <3>2. ~Ahead(p) /\ Blame({})
        BY <1>2, <2>3, <3>1 DEF Ahead, SendPanics
      <3> QED
        BY <2>2, <3>2, BusStep
    <2>4. CASE mine \notin pub[p].seen
      <3>1. Blame(Unseen({EventOf(p)}, "panicked"))
        BY <1>2, <2>4 DEF SendPanics
      <3>2. EventOf(p) = News(j) /\ shown[j] < row[j] => <<j, "panicked">> \in Unseen({EventOf(p)}, "panicked")
        BY EventBlamed
      <3>3. "panicked" \in Causes
        BY DEF Causes
      <3> QED
        BY <2>2, <3>1, <3>2, <3>3, BusStep
    <2> QED
      BY <2>3, <2>4
  <1> QED
    BY <1>1, <1>2

(* A stream that opens is ahead of every publication; one that closes is   *)
(* not the page's.                                                         *)
LEMMA StreamExplains ==
    ASSUME NewsInv, NEW c \in Conns, Subscribe(c) \/ Unsubscribe(c) \/ CloseChannel(c), NEW j \in Watched
    PROVE  Explained(j)'
  <1> USE DEF NewsInv, Shape, TypeOK
  <1>1. UNCHANGED <<row, shown, loads, newest, timer, pub>> /\ Account(shown, row, {})
    BY DEF Subscribe, Unsubscribe, CloseChannel, pageVars, Blame
  <1>2. LoadBrings(j)' = LoadBrings(j) /\ Behind(j)' = Behind(j) /\ News(j)' = News(j)
    BY <1>1 DEF LoadBrings, Behind, Counts, Answered, News
  <1>3. ASSUME NEW p \in Publishers, Ahead(p) /\ EventOf(p) = News(j)
        PROVE  Ahead(p)' /\ EventOf(p)' = News(j)'
    <2>1. EventOf(p)' = News(j)'
      BY <1>1, <1>2, <1>3 DEF EventOf
    <2>2. CASE Subscribe(c)
      <3>1. c \notin pub[p].seen /\ mine' = c
        BY <1>3, <2>2, EventTyped DEF Subscribe, Ahead, Wired, Walks
      <3> QED
        BY <1>1, <1>3, <2>1, <3>1 DEF Ahead
    <2>3. CASE UNCHANGED mine
      BY <1>1, <1>3, <2>1, <2>3 DEF Ahead
    <2> QED
      BY <2>2, <2>3 DEF Unsubscribe, CloseChannel, pageVars
  <1>4. ASSUME mine # 0, NEW i \in DOMAIN buf[mine], buf[mine][i] = News(j)
        PROVE  mine' # 0 /\ i \in DOMAIN buf'[mine'] /\ buf'[mine'][i] = News(j)'
    <2>1. UNCHANGED mine /\ buf'[mine] = buf[mine]
      BY <1>4, Numbers DEF Subscribe, Unsubscribe, CloseChannel, pageVars, Wired, Streams
    <2> QED
      BY <1>2, <1>4, <2>1
  <1>5. BusBrings(j) => BusBrings(j)'
    BY <1>3, <1>4 DEF BusBrings
  <1> QED
    BY <1>1, <1>2, <1>5, NothingShown

LEMMA StreamBreaksExplains ==
    ASSUME NewsInv, StreamBreaks, NEW j \in Watched
    PROVE  Explained(j)'
  <1> USE DEF NewsInv, Shape, TypeOK
  <1> DEFINE waiting == {buf[mine][i] : i \in DOMAIN buf[mine]}
             pairs == Unseen(waiting, "broken")
  <1>1. /\ UNCHANGED <<row, shown, loads, newest, timer, pub>> /\ mine' = 0
        /\ Account(shown, row, pairs)
    BY DEF StreamBreaks, Blame
  <1>2. LoadBrings(j)' = LoadBrings(j) /\ Behind(j)' = Behind(j) /\ News(j)' = News(j)
    BY <1>1 DEF LoadBrings, Behind, Counts, Answered, News
  <1>3. ASSUME NEW p \in Publishers, Ahead(p) /\ EventOf(p) = News(j)
        PROVE  Ahead(p)' /\ EventOf(p)' = News(j)'
    <2>1. 0 \notin pub[p].seen
      BY <1>3, EventTyped, Numbers DEF Ahead, Publication
    <2> QED
      BY <1>1, <1>2, <1>3, <2>1 DEF Ahead, EventOf
  <1>4. ASSUME shown[j] < row[j], mine # 0, NEW i \in DOMAIN buf[mine], buf[mine][i] = News(j)
        PROVE  <<j, "broken">> \in pairs /\ "broken" \in Causes
    <2>1. News(j) \in waiting
      BY <1>4
    <2> QED
      BY <1>4, <2>1, NewsBlamed DEF Causes
  <1> HIDE DEF pairs
  <1>5. shown[j] < row[j] /\ BusBrings(j) => BusBrings(j)' \/ \E why \in Causes : <<j, why>> \in pairs
    BY <1>3, <1>4 DEF BusBrings
  <1> QED
    BY <1>1, <1>2, <1>5, NothingShown

(* A row written anew has its event, or the write was silent.              *)
LEMMA WriteExplains ==
    ASSUME NewsInv, NEW p \in Publishers, NEW k \in Jobs, WriteAndPublish(p, k), NEW j \in Watched
    PROVE  Explained(j)'
  <1> USE DEF NewsInv, Shape, TypeOK
  <1>1. /\ UNCHANGED <<shown, loads, newest, timer, mine, buf>> /\ Account(shown, row, {})
        /\ pub[p] = Idle /\ \A q \in Publishers \ {p} : pub'[q] = pub[q]
    BY DEF WriteAndPublish, serverVars, pageVars, Blame
  <1>2. j \in Jobs /\ shown[j] \in Nat /\ row[j] \in Nat
    BY Dates
  <1>3. CASE row'[j] = row[j]
    <2>1. LoadBrings(j)' = LoadBrings(j) /\ Behind(j)' = Behind(j) /\ News(j)' = News(j)
      BY <1>1, <1>3 DEF LoadBrings, Behind, Counts, Answered, News
    <2>2. \A q \in Publishers : Ahead(q) /\ EventOf(q) = News(j) => Ahead(q)' /\ EventOf(q)' = News(j)'
      BY <1>1, <2>1 DEF Ahead, EventOf
    <2>3. BusBrings(j) => BusBrings(j)'
      BY <1>1, <2>1, <2>2 DEF BusBrings
    <2> QED
      BY <1>1, <1>3, <2>1, <2>3, NothingShown
  <1>4. CASE row'[j] # row[j]
    <2>1. k = j /\ row'[j] = writes + 1
      BY <1>2, <1>4 DEF WriteAndPublish
    <2>2. pub'[p] = [at |-> "lookup", id |-> j, ver |-> row'[j],
                     map |-> 0, must |-> {}, seen |-> {}, to |-> 0]
      BY <2>1 DEF WriteAndPublish
    <2>3. pub'[p].seen = {} /\ pub'[p] # Idle /\ EventOf(p)' = News(j)'
      BY <2>2 DEF EventOf, News, Idle
    <2>4. BusBrings(j)'
      BY <2>3 DEF BusBrings, Ahead
    <2>5. row[j] < row'[j]
      <3>1. writes \in Nat /\ row[j] <= writes
        BY <1>2, Numbers DEF Dated
      <3> QED
        BY <1>2, <2>1, <3>1
    <2>6. shown'[j] > row'[j] => cause'[j] # {}
      <3> SUFFICES ASSUME shown[j] > row'[j] PROVE cause'[j] # {}
        BY <1>1
      <3>1. row'[j] \in Nat
        BY <2>1, Numbers
      <3>2. shown[j] > row[j]
        BY <1>2, <2>5, <3>1
      <3>3. cause[j] # {} /\ shown[j] # row[j]
        BY <1>2, <3>2 DEF Explained
      <3> QED
        BY <1>1, <3>3, AccountKeeps
    <2> QED
      BY <2>4, <2>6 DEF Explained
  <1> QED
    BY <1>3, <1>4

LEMMA SilenceExplains ==
    ASSUME NewsInv, Shape', NEW k \in Jobs, WriteSilently(k), NEW j \in Watched
    PROVE  Explained(j)'
  <1> USE DEF NewsInv
  <1>1. /\ UNCHANGED <<shown, loads, newest, timer, mine, buf, pub>>
        /\ Account(shown, row', {<<k, "silent">>})
    BY DEF WriteSilently, serverVars, pageVars
  <1>2. j \in Jobs /\ TypeOK
    BY Dates DEF Shape
  <1>3. CASE row'[j] = row[j]
    <2>1. LoadBrings(j)' = LoadBrings(j) /\ Behind(j)' = Behind(j) /\ News(j)' = News(j)
      BY <1>1, <1>3 DEF LoadBrings, Behind, Counts, Answered, News
    <2>2. \A q \in Publishers : Ahead(q) /\ EventOf(q) = News(j) => Ahead(q)' /\ EventOf(q)' = News(j)'
      BY <1>1, <2>1 DEF Ahead, EventOf
    <2>3. BusBrings(j) => BusBrings(j)'
      BY <1>1, <2>1, <2>2 DEF BusBrings
    <2> QED
      BY <1>1, <1>3, <2>1, <2>3, NothingShown
  <1>4. CASE row'[j] # row[j]
    <2>1. k = j
      BY <1>2, <1>4 DEF WriteSilently, TypeOK
    <2>2. <<j, "silent">> \in {<<k, "silent">>} /\ "silent" \in Causes
      BY <2>1 DEF Causes
    <2>3. shown[j] # row'[j] => cause'[j] # {}
      BY <1>1, <1>2, <2>2, AccountKeeps
    <2>4. shown'[j] \in Nat /\ row'[j] \in Nat /\ shown'[j] = shown[j]
      <3>1. shown[j] \in Nat
        BY Dates
      <3>2. row'[j] \in Nat
        BY <1>2, Numbers DEF Shape, TypeOK
      <3> QED
        BY <1>1, <3>1, <3>2
    <2> QED
      BY <2>3, <2>4 DEF Explained, Behind
  <1> QED
    BY <1>3, <1>4

LEMMA DeliverExplains ==
    ASSUME NewsInv, Deliver, NEW j \in Watched
    PROVE  Explained(j)'
  <1> USE DEF NewsInv, Shape
  <1> DEFINE e == Head(buf[mine])
  <1>1. /\ mine \in Conns /\ e \in Event /\ buf[mine] \in Seq(Event) /\ buf[mine] # <<>>
        /\ e = buf[mine][1] /\ buf'[mine] = Tail(buf[mine])
    BY Queues DEF Deliver, TypeOK
  <1>2. UNCHANGED <<row, mine, pub>> /\ News(j)' = News(j)
    BY DEF Deliver, News
  <1>3. e # News(j) /\ BusBrings(j) => BusBrings(j)'
    <2>1. \A q \in Publishers : Ahead(q)' = Ahead(q) /\ EventOf(q)' = EventOf(q)
      BY <1>2 DEF Ahead, EventOf
    <2>2. ASSUME NEW i \in DOMAIN buf[mine], buf[mine][i] = News(j), e # News(j)
          PROVE  \E k \in DOMAIN buf'[mine] : buf'[mine][k] = News(j)
      <3>1. i # 1
        BY <1>1, <2>2
      <3>2. i - 1 \in DOMAIN Tail(buf[mine]) /\ Tail(buf[mine])[i - 1] = buf[mine][i]
        BY <1>1, <2>2, <3>1, Queues
      <3> QED
        BY <1>1, <2>2, <3>2
    <2> QED
      BY <1>2, <2>1, <2>2 DEF BusBrings
  <1>4. j \in Jobs /\ shown[j] \in Nat /\ row[j] \in Nat /\ e.ver \in Nat
    BY <1>1, Dates, Numbers DEF Event
  <1> HIDE DEF e
  <1>5. CASE e.id \notin Watched
    <2>1. UNCHANGED <<shown, loads, newest, timer>> /\ Account(shown, row, {})
      BY <1>5 DEF Deliver, Blame, e
    <2>2. e # News(j)
      BY <1>5 DEF News
    <2>3. LoadBrings(j)' = LoadBrings(j) /\ Behind(j)' = Behind(j)
      BY <1>2, <2>1 DEF LoadBrings, Behind, Counts, Answered
    <2> QED
      BY <1>2, <1>3, <2>1, <2>2, <2>3, NothingShown
  <1>6. CASE e.id \in Watched /\ View # "list"
    <2>1. UNCHANGED <<shown, loads, newest>> /\ timer' = TRUE /\ Account(shown, row, {})
      BY <1>6 DEF Deliver, DetailTold, Blame, e
    <2>2. LoadBrings(j)'
      BY <1>6, <2>1, LiveAssumption DEF LoadBrings
    <2>3. Behind(j)' = Behind(j)
      BY <1>2, <2>1 DEF Behind, Counts, Answered
    <2> QED
      BY <1>2, <2>1, <2>2, <2>3, NothingShown
  <1>7. CASE e.id \in Watched /\ View = "list" /\ shown[e.id] = 0
    <2>1. \E r \in Loads : Ask(r)
      BY <1>7 DEF Deliver, ListTold, e
    <2> QED
      BY <1>2, <2>1, AskExplains
  <1>8. CASE e.id \in Watched /\ View = "list" /\ shown[e.id] # 0
    <2> DEFINE s == [shown EXCEPT ![e.id] = e.ver]
               pairs == (IF e.ver < shown[e.id] THEN {<<e.id, "reordered">>} ELSE {})
                        \cup (IF e.ver > row[e.id] THEN {<<e.id, "unwritten">>} ELSE {})
    <2>1. UNCHANGED <<loads, newest, timer>> /\ Show(s, pairs)
      BY <1>8 DEF Deliver, ListTold, e
    <2>2. LoadBrings(j)' = LoadBrings(j)
      BY <1>2, <2>1 DEF LoadBrings, Counts, Answered
    <2>3. CASE e.id = j
      <3>1. s[j] = e.ver
        BY <2>3 DEF TypeOK
      <3>2. e.ver > row[j] => <<j, "unwritten">> \in pairs
        BY <2>3
      <3>3. e.ver < shown[j] => <<j, "reordered">> \in pairs
        BY <2>3
      <3>4. e.ver # row[j] => e # News(j)
        BY DEF News
      <3>5. e.ver >= shown[j] /\ e.ver < row[j] => Behind(j)
        BY <1>4, <1>8, <2>3 DEF Behind
      <3>6. "unwritten" \in Causes /\ "reordered" \in Causes
        BY DEF Causes
      <3> HIDE DEF s, pairs
      <3> QED
        BY <1>2, <1>3, <1>4, <2>1, <2>2, <3>1, <3>2, <3>3, <3>4, <3>5, <3>6, Shown
    <2>4. CASE e.id # j
      <3>1. s[j] = shown[j] /\ shown'[j] = shown[j] /\ Account(s, row, pairs)
        BY <2>1, <2>4 DEF TypeOK, Show
      <3>2. e # News(j)
        BY <2>4 DEF News
      <3>3. Behind(j)' = Behind(j)
        BY <1>2, <2>1, <3>1 DEF Behind, Counts, Answered
      <3> HIDE DEF s, pairs
      <3> QED
        BY <1>2, <1>3, <2>2, <3>1, <3>2, <3>3, NothingShown
    <2> QED
      BY <2>3, <2>4
  <1> QED
    BY <1>5, <1>6, <1>7, <1>8

LEMMA AnswerExplains ==
    ASSUME NewsInv, NEW r \in Loads, AnswerLoad(r), NEW j \in Watched
    PROVE  Explained(j)'
  <1> USE DEF NewsInv, Shape, TypeOK
  <1>1. /\ UNCHANGED <<row, shown, newest, timer, mine, pub, buf>> /\ Account(shown, row, {})
        /\ loads[r].is = "asked" /\ \A q \in Loads \ {r} : loads'[q] = loads[q]
        /\ \/ loads'[r] = [is |-> "failed"]
           \/ loads'[r] = [is |-> "answered", rows |-> [k \in Watched |-> row[k]]]
    BY DEF AnswerLoad, serverVars, Blame
  <1>2. BusBrings(j)' = BusBrings(j)
    BY <1>1 DEF BusBrings, Ahead, EventOf, News
  <1>3. LoadBrings(j) => LoadBrings(j)'
    <2>1. ASSUME NEW q \in Loads,
                 \/ loads[q].is \in {"asked", "failed"}
                 \/ Answered(q) /\ loads[q].rows[j] = row[j]
          PROVE  \/ loads'[q].is \in {"asked", "failed"}
                 \/ Answered(q)' /\ loads'[q].rows[j] = row'[j]
      <3>1. CASE q = r
        BY <1>1, <3>1 DEF Answered
      <3>2. CASE q # r
        BY <1>1, <2>1, <3>2 DEF Answered
      <3> QED
        BY <3>1, <3>2
    <2> QED
      BY <1>1, <2>1 DEF LoadBrings, Counts
  <1>4. Behind(j)' => Behind(j)
    <2>1. ASSUME NEW q \in Loads, Answered(q)', loads'[q].rows[j] # row'[j]
          PROVE  Answered(q) /\ loads[q].rows[j] # row[j]
      <3>1. CASE q = r
        BY <1>1, <2>1, <3>1 DEF Answered
      <3>2. CASE q # r
        BY <1>1, <2>1, <3>2 DEF Answered
      <3> QED
        BY <3>1, <3>2
    <2> QED
      BY <1>1, <2>1 DEF Behind, Counts
  <1> QED
    BY <1>1, <1>2, <1>3, <1>4, NothingShown

LEMMA RenderExplains ==
    ASSUME NewsInv, NEW r \in Loads, Render(r), NEW j \in Watched
    PROVE  Explained(j)'
  <1> USE DEF NewsInv, Shape, TypeOK
  <1>1. /\ UNCHANGED <<row, newest, timer, mine, pub, buf>>
        /\ loads[r].is \in {"answered", "failed"}
        /\ \A q \in Loads \ {r} : loads'[q] = loads[q]
        /\ loads'[r] = Ready
    BY DEF Render, serverVars
  <1>2. BusBrings(j)' = BusBrings(j)
    BY <1>1 DEF BusBrings, Ahead, EventOf, News
  <1>3. ASSUME NEW q \in Loads, q # r, Counts(q),
               \/ loads[q].is \in {"asked", "failed"}
               \/ Answered(q) /\ loads[q].rows[j] = row[j]
        PROVE  LoadBrings(j)'
    BY <1>1, <1>3 DEF LoadBrings, Counts, Answered
  <1>4. j \in Jobs /\ shown[j] \in Nat /\ row[j] \in Nat /\ row[j] # 0
    BY Dates
  <1>5. CASE ~Counts(r)
    <2>1. UNCHANGED shown /\ Account(shown, row, {})
      BY <1>5 DEF Render, Blame, Counts
    <2>2. LoadBrings(j) => LoadBrings(j)'
      BY <1>1, <1>3, <1>5 DEF LoadBrings
    <2>3. Behind(j)' => Behind(j)
      BY <1>1, <2>1 DEF Behind, Counts, Answered, Ready
    <2> QED
      BY <1>1, <1>2, <2>1, <2>2, <2>3, NothingShown
  <1>6. CASE Counts(r) /\ loads[r].is = "failed"
    <2> DEFINE pairs == Watched \X {"failed"}
    <2>1. shown' = Blank /\ Account(Blank, row, pairs)
      BY <1>6 DEF Render, Show, Counts
    <2>2. <<j, "failed">> \in pairs /\ "failed" \in Causes
      BY DEF Causes
    <2>3. Blank[j] # row[j]
      BY <1>4 DEF Blank
    <2> HIDE DEF pairs
    <2>4. \E why \in Causes : <<j, why>> \in pairs
      BY <2>2
    <2>5. cause'[j] # {}
      <3>1. cause'[j] = cause[j] \cup {why \in Causes : <<j, why>> \in pairs}
        BY <2>1, <2>3 DEF Account
      <3> QED
        BY <2>4, <3>1
    <2> QED
      BY <2>5 DEF Explained
  <1>7. CASE Counts(r) /\ Answered(r)
    <2> DEFINE s == loads[r].rows
               pairs == {k \in Watched : s[k] < shown[k]} \X {"late"}
    <2>1. Show(s, pairs)
      BY <1>7 DEF Render, Counts, Answered
    <2>2. s[j] \in Nat /\ s[j] <= row[j]
      BY <1>7, Dates
    <2>3. s[j] < shown[j] => <<j, "late">> \in pairs
      OBVIOUS
    <2>4. s[j] # row[j] /\ s[j] >= shown[j] /\ s[j] < row[j] => Behind(j)
      BY <1>4, <1>7, <2>2 DEF Behind
    <2>5. s[j] # row[j] /\ LoadBrings(j) => LoadBrings(j)'
      BY <1>1, <1>3, <1>7 DEF LoadBrings, Answered
    <2>6. "late" \in Causes
      BY DEF Causes
    <2> HIDE DEF s, pairs
    <2>7. ~(s[j] > row[j])
      BY <1>4, <2>2
    <2>8. s[j] < shown[j] => \E why \in Causes : <<j, why>> \in pairs
      BY <2>3, <2>6
    <2>9. s[j] # row[j] /\ (BusBrings(j) \/ LoadBrings(j)) => BusBrings(j)' \/ LoadBrings(j)'
      BY <1>2, <2>5
    <2>10. UNCHANGED row
      BY <1>1
    <2> QED
      BY <2>1, <2>2, <2>4, <2>7, <2>8, <2>9, <2>10, Shown
  <1> QED
    BY <1>1, <1>5, <1>6, <1>7 DEF Answered

LEMMA NextNews ==
    ASSUME NewsInv, [Next]_vars
    PROVE  NewsInv'
  <1>1. Shape' /\ Wired'
    BY NextShape, NextWired DEF NewsInv, Shape
  <1>2. ASSUME NEW j \in Watched PROVE Explained(j)'
    <2>1. CASE \E p \in Publishers, k \in Jobs : WriteAndPublish(p, k)
      BY <2>1, WriteExplains
    <2>2. CASE \E k \in Jobs : WriteSilently(k)
      BY <1>1, <2>2, SilenceExplains
    <2>3. CASE \E p \in Publishers : PublishStep(p)
      BY <2>3, LookupExplains, VisitExplains, SendExplains, FinishWalkExplains, SendPanicsExplains
         DEF PublishStep
    <2>4. CASE \E c \in Conns : Subscribe(c) \/ Unsubscribe(c) \/ CloseChannel(c)
      BY <2>4, StreamExplains
    <2>5. CASE ServerRestart \/ \E c \in Conns : MapRace(c)
      BY <2>5, GoDownExplains DEF ServerRestart, MapRace
    <2>6. CASE StreamBreaks
      BY <2>6, StreamBreaksExplains
    <2>7. CASE Deliver
      BY <2>7, DeliverExplains
    <2>8. CASE TimerFires \/ UserReload
      BY <2>8, AskExplains DEF TimerFires, UserReload
    <2>9. CASE \E r \in Loads : AnswerLoad(r) \/ Render(r)
      BY <2>9, AnswerExplains, RenderExplains
    <2>10. CASE UNCHANGED vars
      BY <2>10 DEF vars, NewsInv, Explained, Behind, BusBrings, LoadBrings, Counts, Answered,
                   Ahead, EventOf, News
    <2> QED
      BY <2>1, <2>2, <2>3, <2>4, <2>5, <2>6, <2>7, <2>8, <2>9, <2>10 DEF Next
  <1> QED
    BY <1>1, <1>2 DEF NewsInv

(* A badge differs from its row only while news of the row are under way   *)
(* or for a cause that is known: the bus (internal/sse), StreamEvents and  *)
(* the pages lose nothing else between them, for any number of jobs,       *)
(* publishers, streams, loads and faults.                                  *)
THEOREM OutdatedHasACauseHolds == Spec => []OutdatedHasACause
  <1>1. Init => NewsInv
    <2> SUFFICES ASSUME Init PROVE NewsInv
      OBVIOUS
    <2>1. Shape /\ Wired
      BY InitShape, InitWired
    <2>2. ASSUME NEW j \in Watched PROVE Explained(j)
      <3>1. shown[j] = 0 /\ row[j] = 1 /\ \A r \in Loads : ~Answered(r)
        BY <2>2, LiveAssumption DEF Init, Ready, Answered
      <3> QED
        BY <3>1 DEF Explained, Behind
    <2> QED
      BY <2>1, <2>2 DEF NewsInv
  <1>2. NewsInv /\ [Next]_vars => NewsInv'
    BY NextNews
  <1>3. NewsInv => OutdatedHasACause
    <2> SUFFICES ASSUME NewsInv, NEW j \in Watched, shown[j] \notin {0, row[j]}
                 PROVE  cause[j] # {} \/ OnItsWay(j)
      BY DEF OutdatedHasACause
    <2>1. cause[j] # {} \/ BusBrings(j) \/ LoadBrings(j)
      BY DEF NewsInv, Explained, Behind
    <2>2. BusBrings(j) => OnItsWay(j)
      BY DEF BusBrings, Ahead, News, OnItsWay
    <2>3. LoadBrings(j) => OnItsWay(j)
      BY DEF LoadBrings, Counts, Answered, OnItsWay
    <2> QED
      BY <2>1, <2>2, <2>3
  <1> QED
    BY <1>1, <1>2, <1>3, PTL DEF Spec
=============================================================================
