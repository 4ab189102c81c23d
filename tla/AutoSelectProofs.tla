-------------------------- MODULE AutoSelectProofs --------------------------
(***************************************************************************)
(* Type correctness of AutoSelect; that only one goroutine of a user is in *)
(* its ten minutes; that a run the user was told is over puts nothing into *)
(* the pipeline any more; that every job put there is accounted for; and   *)
(* that only clicks that overlap exceed the allowance of the day or have a *)
(* job read twice.  Then, from AutoRules, that each decision of the        *)
(* selection is the one that is promised.                                  *)
(***************************************************************************)
EXTENDS AutoSelect, AutoRules, OrderingsProofs, TLAPS

(* The tables and the locals have their shape, and there are finitely many *)
(* picks to be counted.                                                    *)
Shape == TypeOK /\ IsFiniteSet(picks)

LEMMA UsedIsNat ==
    ASSUME Shape
    PROVE  AutoSelectUsedSince \in Nat /\ Remaining \in Nat
  <1> DEFINE today == {p \in picks : p.selected /\ p.day = day}
  <1>1. today \subseteq picks
    OBVIOUS
  <1>2. IsFiniteSet(today)
    BY <1>1, FS_Subset DEF Shape
  <1>3. AutoSelectUsedSince \in Nat
    BY <1>2, FS_CardinalityType DEF AutoSelectUsedSince
  <1>4. settings.perDay \in Nat
    BY SettingsAssumption DEF Shape, TypeOK
  <1> QED
    BY <1>3, <1>4 DEF Remaining

LEMMA InitShape ==
    ASSUME Init
    PROVE  Shape
  BY BoundsAssumption, FS_EmptySet DEF Init, Shape, TypeOK, Status

(* A click or a goroutine that is over leaves locals of the right shape.   *)
LEMMA LeaveShape ==
    ASSUME Shape, NEW R, Leave(R)
    PROVE  /\ left' \in [Runs -> Nat]
           /\ set' \in [Runs -> Settings]
           /\ cands' \in [Runs -> SUBSET Urls]
           /\ read' \in [Runs -> SUBSET Urls]
           /\ unread' \in [Runs -> SUBSET Urls]
           /\ chosen' \in [Runs -> SUBSET Urls]
           /\ put' \in [Runs -> SUBSET Urls]
           /\ record' \in [Runs -> SUBSET Urls]
           /\ late' \in [Runs -> BOOLEAN]
  BY DEF Shape, TypeOK, Leave

LEMMA ExpireShape ==
    ASSUME Shape
    PROVE  AutoSelectExpireStale \in [Runs -> Status]
  BY DEF Shape, TypeOK, AutoSelectExpireStale, Status

LEMMA FaultShape ==
    ASSUME Shape, Fault
    PROVE  faults' \in 0..MaxFaults
  BY BoundsAssumption DEF Shape, TypeOK, Fault

LEMMA NextShape ==
    ASSUME Shape, [Next]_vars
    PROVE  Shape'
  <1> USE DEF Shape, TypeOK, Live
  <1>1. ASSUME NEW r \in Runs, Count(r) PROVE Shape'
    <2>1. settings.perRun \in Nat
      BY SettingsAssumption
    <2> QED
      BY <1>1, <2>1, UsedIsNat, ExpireShape DEF Count, history
  <1>2. ASSUME NEW r \in Runs, ChooseCandidates(r) PROVE Shape'
    BY <1>2 DEF ChooseCandidates, db, history
  <1>3. ASSUME NEW r \in Runs, CandidatesFail(r) PROVE Shape'
    BY <1>3, LeaveShape, FaultShape DEF CandidatesFail, db, history
  <1>4. ASSUME NEW r \in Runs, StartRun(r) PROVE Shape'
    <2>1. CASE NoRunning
      BY <1>4, <2>1 DEF StartRun, local, history, AutoSelectStartRun, Status
    <2>2. CASE ~NoRunning
      BY <1>4, <2>2, LeaveShape DEF StartRun, history
    <2> QED
      BY <2>1, <2>2
  <1>5. ASSUME NEW r \in Runs, ReadBatch(r) PROVE Shape'
    BY <1>5 DEF ReadBatch, db, history
  <1>6. ASSUME NEW r \in Runs, ReadLate(r) PROVE Shape'
    BY <1>6 DEF ReadLate, db, history
  <1>7. ASSUME NEW r \in Runs, ChooseJobs(r) PROVE Shape'
    BY <1>7 DEF ChooseJobs, db, history
  <1>8. ASSUME NEW r \in Runs, NEW u \in Urls, InsertAutoJob(r, u) PROVE Shape'
    BY <1>8, FaultShape DEF InsertAutoJob, QueryInsertAutoJob, history
  <1>9. ASSUME NEW r \in Runs, NEW u \in Urls, InsertPick(r, u) PROVE Shape'
    <2>1. IsSelected(r, u) \in BOOLEAN
      BY DEF IsSelected
    <2>2. AutoSelectInsertPick(r, u, IsSelected(r, u)) \subseteq Pick
      BY <2>1 DEF AutoSelectInsertPick, Pick
    <2>3. IsFiniteSet(AutoSelectInsertPick(r, u, IsSelected(r, u)))
      BY FS_AddElement DEF AutoSelectInsertPick
    <2>4. picks' \subseteq Pick /\ IsFiniteSet(picks')
      BY <1>9, <2>2, <2>3 DEF InsertPick
    <2>5. /\ record' \in [Runs -> SUBSET Urls]
          /\ raced' \in [Runs -> BOOLEAN] /\ lost' \in [Runs -> BOOLEAN]
          /\ faults' \in 0..MaxFaults
      BY <1>9, FaultShape DEF InsertPick
    <2> QED
      BY <1>9, <2>4, <2>5 DEF InsertPick
  <1>10. ASSUME NEW r \in Runs, FinishRun(r) PROVE Shape'
    <2>1. Result(r) \in Status
      BY DEF Result, Status
    <2> QED
      BY <1>10, <2>1, LeaveShape, FaultShape DEF FinishRun, AutoSelectFinishRun, history
  <1>11. ASSUME NEW r \in Runs, Panic(r) PROVE Shape'
    BY <1>11, LeaveShape, FaultShape DEF Panic, AutoSelectFinishRun, history, Status
  <1>12. ASSUME NEW r \in Runs, TenMinutes(r) PROVE Shape'
    BY <1>12 DEF TenMinutes, db, history
  <1>13. ASSUME NEW r \in Runs, FifteenMinutes(r) PROVE Shape'
    BY <1>13 DEF FifteenMinutes, local, history, Status
  <1>14. CASE ShowStatus
    BY <1>14, ExpireShape DEF ShowStatus, local, history
  <1>15. CASE Restart
    BY <1>15, LeaveShape, FaultShape DEF Restart, db, history
  <1>16. CASE Midnight
    BY <1>16, BoundsAssumption DEF Midnight, local, history
  <1>17. CASE SaveSettings
    BY <1>17 DEF SaveSettings, local, history
  <1>18. ASSUME NEW u \in Urls, UserAdds(u) \/ UserDeletes(u) PROVE Shape'
    BY <1>18 DEF UserAdds, UserDeletes, local, history
  <1>19. CASE UNCHANGED vars
    BY <1>19 DEF vars, history
  <1> QED
    BY <1>1, <1>2, <1>3, <1>4, <1>5, <1>6, <1>7, <1>8, <1>9, <1>10, <1>11, <1>12, <1>13,
       <1>14, <1>15, <1>16, <1>17, <1>18, <1>19 DEF Next, Work

(* The tables and the goroutines' variables of AutoSelect keep their shape *)
(* (handler/auto_select.go), for any number of clicks, jobs and faults.    *)
THEOREM TypeCorrect == Spec => []TypeOK
  <1>1. Init => Shape
    BY InitShape
  <1>2. Shape /\ [Next]_vars => Shape'
    BY NextShape
  <1>3. Shape => TypeOK
    BY DEF Shape
  <1> QED
    BY <1>1, <1>2, <1>3, PTL DEF Spec

-----------------------------------------------------------------------------
(* One row of the user is running, old or not, and it is the row of the    *)
(* goroutine that is in its ten minutes, if there is one: no run is given  *)
(* up (15 minutes) before its context ends (10 minutes).                   *)
OneRow == \A r, q \in Runs : row[r] \in Running /\ row[q] \in Running => r = q
TimelyRuns == \A r \in Runs : pc[r] \in Live /\ ~late[r] => row[r] = "running"
IInv == Shape /\ OneRow /\ TimelyRuns

LEMMA InitInv ==
    ASSUME Init
    PROVE  IInv
  BY InitShape DEF Init, IInv, OneRow, TimelyRuns, Running, Live

(* The steps after which rows and goroutines stand as before, or a         *)
(* goroutine has ended, or its ten minutes have.                           *)
LEMMA QuietStep ==
    ASSUME IInv, Shape', UNCHANGED row,
           \A r \in Runs : pc'[r] \in Live => pc[r] \in Live /\ (late[r] => late'[r])
    PROVE  IInv'
  BY DEF IInv, OneRow, TimelyRuns, Shape, TypeOK

(* The steps that end the row of one run together with its goroutine.      *)
LEMMA EndStep ==
    ASSUME IInv, Shape', NEW r \in Runs, NEW status \in {"done", "empty", "error"},
           row' = AutoSelectFinishRun(r, status), pc'[r] \notin Live,
           \A q \in Runs \ {r} : pc'[q] = pc[q] /\ late'[q] = late[q]
    PROVE  IInv'
  BY DEF IInv, OneRow, TimelyRuns, Shape, TypeOK, Running, AutoSelectFinishRun

LEMMA ExpiryStep ==
    ASSUME IInv, Shape', row' = AutoSelectExpireStale, UNCHANGED late,
           \A r \in Runs : pc'[r] \in Live => pc[r] \in Live
    PROVE  IInv'
  BY DEF IInv, OneRow, TimelyRuns, Shape, TypeOK, Running, AutoSelectExpireStale

LEMMA NextInv ==
    ASSUME IInv, [Next]_vars
    PROVE  IInv'
  <1>0. Shape /\ Shape'
    BY NextShape DEF IInv
  <1> USE <1>0 DEF Live
  <1>1. ASSUME NEW r \in Runs, Count(r) PROVE IInv'
    BY <1>1, ExpiryStep DEF Count, Shape, TypeOK
  <1>2. ASSUME NEW r \in Runs, ChooseCandidates(r) \/ CandidatesFail(r) PROVE IInv'
    BY <1>2, QuietStep DEF ChooseCandidates, CandidatesFail, Leave, db, Shape, TypeOK
  <1>3. ASSUME NEW r \in Runs, StartRun(r) PROVE IInv'
    <2>1. CASE NoRunning
      <3>1. /\ row' = AutoSelectStartRun(r)
            /\ UNCHANGED late
            /\ \A q \in Runs \ {r} : pc'[q] = pc[q]
        BY <1>3, <2>1 DEF StartRun, local, Shape, TypeOK
      <3>2. row'[r] = "running" /\ \A q \in Runs \ {r} : row'[q] = row[q] /\ row[q] \notin Running
        BY <2>1, <3>1 DEF AutoSelectStartRun, NoRunning, Shape, TypeOK
      <3> QED
        BY <3>1, <3>2 DEF IInv, OneRow, TimelyRuns, Running
    <2>2. CASE ~NoRunning
      BY <1>3, <2>2, QuietStep DEF StartRun, Leave, Shape, TypeOK
    <2> QED
      BY <2>1, <2>2
  <1>4. ASSUME NEW r \in Runs, ReadBatch(r) \/ ReadLate(r) PROVE IInv'
    BY <1>4, QuietStep DEF ReadBatch, ReadLate, db, Shape, TypeOK
  <1>5. ASSUME NEW r \in Runs, ChooseJobs(r) PROVE IInv'
    BY <1>5, QuietStep DEF ChooseJobs, db, Shape, TypeOK
  <1>6. ASSUME NEW r \in Runs, NEW u \in Urls, InsertAutoJob(r, u) \/ InsertPick(r, u) PROVE IInv'
    BY <1>6, QuietStep DEF InsertAutoJob, InsertPick, Shape, TypeOK
  <1>7. ASSUME NEW r \in Runs, FinishRun(r) PROVE IInv'
    <2>1. /\ pc'[r] \notin Live
          /\ \A q \in Runs \ {r} : pc'[q] = pc[q] /\ late'[q] = late[q]
      BY <1>7 DEF FinishRun, Leave, Shape, TypeOK
    <2>2. CASE row' = AutoSelectFinishRun(r, Result(r))
      <3>1. Result(r) \in {"done", "empty", "error"}
        BY DEF Result
      <3> QED
        BY <2>1, <2>2, <3>1, EndStep
    <2>3. CASE UNCHANGED row
      <3>1. ASSUME NEW q \in Runs, pc'[q] \in Live
            PROVE  pc[q] \in Live /\ (late[q] => late'[q])
        BY <2>1, <3>1
      <3> QED
        BY <2>3, <3>1, QuietStep
    <2> QED
      BY <1>7, <2>2, <2>3 DEF FinishRun
  <1>8. ASSUME NEW r \in Runs, Panic(r) PROVE IInv'
    <2>1. /\ pc'[r] \notin Live
          /\ row' = AutoSelectFinishRun(r, "error")
          /\ \A q \in Runs \ {r} : pc'[q] = pc[q] /\ late'[q] = late[q]
      BY <1>8 DEF Panic, Leave, Shape, TypeOK
    <2> QED
      BY <2>1, EndStep
  <1>9. ASSUME NEW r \in Runs, TenMinutes(r) PROVE IInv'
    BY <1>9, QuietStep DEF TenMinutes, db, Shape, TypeOK
  <1>10. ASSUME NEW r \in Runs, FifteenMinutes(r) PROVE IInv'
    BY <1>10 DEF FifteenMinutes, local, IInv, OneRow, TimelyRuns, Running, Shape, TypeOK
  <1>11. CASE ShowStatus
    BY <1>11, ExpiryStep DEF ShowStatus, local
  <1>12. CASE Restart
    <2>1. \A q \in Runs : pc'[q] \notin Live
      BY <1>12 DEF Restart, Shape, TypeOK
    <2> QED
      BY <1>12, <2>1, QuietStep DEF Restart, db
  <1>13. CASE Midnight \/ SaveSettings
    BY <1>13, QuietStep DEF Midnight, SaveSettings, local
  <1>14. ASSUME NEW u \in Urls, UserAdds(u) \/ UserDeletes(u) PROVE IInv'
    BY <1>14, QuietStep DEF UserAdds, UserDeletes, local
  <1>15. CASE UNCHANGED vars
    BY <1>15, QuietStep DEF vars
  <1> QED
    BY <1>1, <1>2, <1>3, <1>4, <1>5, <1>6, <1>7, <1>8, <1>9, <1>10, <1>11, <1>12, <1>13,
       <1>14, <1>15 DEF Next, Work

(* Two goroutines of one user may be alive at once, but only one of them   *)
(* is in its ten minutes (autoSelectRunTimeout, autoSelectStaleAfter and   *)
(* the index on running rows), for any number of clicks and restarts.      *)
THEOREM OneWorksHolds == Spec => []OneWorks
  <1>1. Init => IInv
    BY InitInv
  <1>2. IInv /\ [Next]_vars => IInv'
    BY NextInv
  <1>3. IInv => OneWorks
    BY DEF IInv, OneRow, TimelyRuns, OneWorks, Running
  <1> QED
    BY <1>1, <1>2, <1>3, PTL DEF Spec

(* Only the insert puts jobs into the pipeline, and it fails once the ten  *)
(* minutes are over.                                                       *)
LEMMA OnlyTimelyRunsPut ==
    ASSUME IInv, [Next]_vars, NEW r \in Runs, put'[r] # put[r]
    PROVE  row[r] = "running"
  <1> USE DEF IInv, Shape, TypeOK
  <1>1. ASSUME NEW q \in Runs, NEW u \in Urls, InsertAutoJob(q, u) PROVE row[r] = "running"
    <2>1. q = r /\ InTime(r) /\ pc[r] \in Live
      BY <1>1 DEF InsertAutoJob, Live
    <2> QED
      BY <2>1 DEF TimelyRuns, InTime
  <1>2. ASSUME NEW q \in Runs,
               \/ Count(q) \/ ChooseCandidates(q) \/ CandidatesFail(q) \/ StartRun(q)
               \/ ReadBatch(q) \/ ReadLate(q) \/ ChooseJobs(q) \/ FinishRun(q) \/ Panic(q)
               \/ TenMinutes(q) \/ FifteenMinutes(q)
        PROVE  UNCHANGED put
    BY <1>2 DEF Count, ChooseCandidates, CandidatesFail, StartRun, ReadBatch, ReadLate,
                ChooseJobs, FinishRun, Panic, TenMinutes, FifteenMinutes, Leave, local
  <1>3. ASSUME NEW q \in Runs, NEW u \in Urls, InsertPick(q, u) PROVE UNCHANGED put
    BY <1>3 DEF InsertPick
  <1>4. CASE ShowStatus \/ Restart \/ Midnight \/ SaveSettings
    BY <1>4 DEF ShowStatus, Restart, Midnight, SaveSettings, Leave, local
  <1>5. ASSUME NEW u \in Urls, UserAdds(u) \/ UserDeletes(u) PROVE UNCHANGED put
    BY <1>5 DEF UserAdds, UserDeletes, local
  <1>6. CASE UNCHANGED vars
    BY <1>6 DEF vars, local
  <1> QED
    BY <1>1, <1>2, <1>3, <1>4, <1>5, <1>6 DEF Next, Work

(* A run whose row is done, empty or in error, also when it was given up   *)
(* while its goroutine lived on, puts no job into the pipeline any more.   *)
THEOREM EndedPutsNothingHolds == Spec => EndedPutsNothing
  <1>1. Init => IInv
    BY InitInv
  <1>2. IInv /\ [Next]_vars => IInv'
    BY NextInv
  <1>3. IInv /\ [Next]_vars =>
          [\A r \in Runs : row[r] \in {"done", "empty", "error"} => put'[r] = put[r]]_vars
    BY OnlyTimelyRunsPut
  <1> QED
    BY <1>1, <1>2, <1>3, PTL DEF Spec, EndedPutsNothing

-----------------------------------------------------------------------------
(* A run puts jobs only while it writes, and each of them waits to be      *)
(* recorded, is recorded as chosen, or its record failed.                  *)
Recorded(r, u) == \E p \in AutoSelectRunPicks(r) : p.url = u /\ p.selected
Waiting == \A r \in Runs : pc[r] = "writing" => chosen[r] \subseteq record[r]
Unput == \A r \in Runs : pc[r] \in {"idle", "counted", "offered", "reading"} => put[r] = {} /\ chosen[r] = {}
Accounted ==
    \A r \in Runs : \A u \in put[r] :
        \/ pc[r] \in {"panicked", "killed"}
        \/ pc[r] = "writing" /\ u \in record[r]
        \/ lost[r]
        \/ Recorded(r, u)
PutInv == Shape /\ Waiting /\ Unput /\ Accounted

LEMMA InitPut ==
    ASSUME Init
    PROVE  PutInv
  BY InitShape DEF Init, PutInv, Waiting, Unput, Accounted

(* Picks are never deleted.                                                *)
LEMMA RecordedStays ==
    ASSUME NEW r \in Runs, NEW u, Recorded(r, u), picks \subseteq picks'
    PROVE  Recorded(r, u)'
  BY DEF Recorded, AutoSelectRunPicks

(* The steps that leave every run where it is, or end it by a panic or a   *)
(* restart, or before it has put anything.                                 *)
LEMMA NothingPut ==
    ASSUME PutInv, Shape', UNCHANGED <<put, picks, lost>>,
           \A r \in Runs :
              \/ pc'[r] = pc[r] /\ chosen'[r] = chosen[r] /\ record'[r] = record[r]
              \/ pc'[r] \in {"panicked", "killed"}
              \/ /\ pc[r] \in {"idle", "counted", "offered", "reading"}
                 /\ pc'[r] \in {"counted", "offered", "reading", "over"}
                 /\ chosen'[r] = {}
    PROVE  PutInv'
  <1>1. ASSUME NEW r \in Runs, pc'[r] = "writing" PROVE chosen'[r] \subseteq record'[r]
    BY <1>1 DEF PutInv, Waiting
  <1>2. ASSUME NEW r \in Runs, pc'[r] \in {"idle", "counted", "offered", "reading"}
        PROVE  put'[r] = {} /\ chosen'[r] = {}
    BY <1>2 DEF PutInv, Unput
  <1>3. ASSUME NEW r \in Runs, NEW u \in put'[r]
        PROVE  \/ pc'[r] \in {"panicked", "killed"}
               \/ pc'[r] = "writing" /\ u \in record'[r]
               \/ lost'[r]
               \/ Recorded(r, u)'
    BY <1>3, RecordedStays DEF PutInv, Unput, Accounted
  <1> QED
    BY <1>1, <1>2, <1>3 DEF PutInv, Waiting, Unput, Accounted

LEMMA NextPut ==
    ASSUME PutInv, [Next]_vars
    PROVE  PutInv'
  <1>0. Shape /\ Shape'
    BY NextShape DEF PutInv
  <1> USE <1>0 DEF Live
  <1>1. ASSUME NEW r \in Runs, Count(r) \/ ChooseCandidates(r) \/ CandidatesFail(r) PROVE PutInv'
    BY <1>1, NothingPut DEF Count, ChooseCandidates, CandidatesFail, Leave, db, history, Shape, TypeOK, PutInv, Unput
  <1>2. ASSUME NEW r \in Runs, StartRun(r) PROVE PutInv'
    <2>1. CASE NoRunning
      <3>1. /\ UNCHANGED <<chosen, record, put, picks, lost>>
            /\ pc'[r] \in {"writing", "reading"} /\ \A q \in Runs \ {r} : pc'[q] = pc[q]
            /\ put[r] = {} /\ chosen[r] = {}
        BY <1>2, <2>1 DEF StartRun, local, history, Shape, TypeOK, PutInv, Unput
      <3> QED
        BY <3>1, RecordedStays DEF PutInv, Waiting, Unput, Accounted
    <2>2. CASE ~NoRunning
      BY <1>2, <2>2, NothingPut DEF StartRun, Leave, history, Shape, TypeOK, PutInv
    <2> QED
      BY <2>1, <2>2
  <1>3. ASSUME NEW r \in Runs, ReadBatch(r) \/ ReadLate(r) PROVE PutInv'
    BY <1>3, NothingPut DEF ReadBatch, ReadLate, db, history, Shape, TypeOK
  <1>4. ASSUME NEW r \in Runs, ChooseJobs(r) PROVE PutInv'
    <2>1. /\ UNCHANGED <<put, picks, lost>>
          /\ \A q \in Runs \ {r} : pc'[q] = pc[q] /\ chosen'[q] = chosen[q] /\ record'[q] = record[q]
          /\ pc'[r] = "writing" /\ put[r] = {}
          /\ chosen'[r] \subseteq record'[r]
      BY <1>4 DEF ChooseJobs, db, history, Shape, TypeOK, PutInv, Unput
    <2> QED
      BY <2>1, RecordedStays DEF PutInv, Waiting, Unput, Accounted
  <1>5. ASSUME NEW r \in Runs, NEW u \in Urls, InsertAutoJob(r, u) PROVE PutInv'
    <2>1. /\ UNCHANGED <<pc, record, picks, lost>> /\ pc[r] = "writing"
          /\ u \in record[r]
          /\ \A q \in Runs : chosen'[q] \subseteq chosen[q]
          /\ \A q \in Runs \ {r} : put'[q] = put[q]
          /\ put'[r] \subseteq put[r] \cup {u}
      BY <1>5 DEF InsertAutoJob, history, Shape, TypeOK, PutInv, Waiting
    <2> QED
      BY <2>1, RecordedStays DEF PutInv, Waiting, Unput, Accounted
  <1>6. ASSUME NEW r \in Runs, NEW u \in Urls, InsertPick(r, u) PROVE PutInv'
    <2>1. /\ UNCHANGED <<pc, chosen, put>> /\ pc[r] = "writing" /\ chosen[r] = {}
          /\ picks \subseteq picks'
          /\ \A q \in Runs : lost[q] => lost'[q]
          /\ \A q \in Runs \ {r} : record'[q] = record[q]
          /\ record'[r] = record[r] \ {u}
      BY <1>6 DEF InsertPick, AutoSelectInsertPick, Shape, TypeOK
    <2>2. u \in put[r] => lost'[r] \/ Recorded(r, u)'
      <3>1. CASE picks' = AutoSelectInsertPick(r, u, IsSelected(r, u))
        <4> SUFFICES ASSUME u \in put[r] PROVE Recorded(r, u)'
          OBVIOUS
        <4> DEFINE p == [run |-> r, url |-> u, selected |-> IsSelected(r, u), day |-> day]
        <4>1. p \in picks' /\ p.run = r /\ p.url = u /\ p.selected
          BY <3>1 DEF AutoSelectInsertPick, IsSelected
        <4> QED
          BY <4>1 DEF Recorded, AutoSelectRunPicks
      <3>2. CASE lost' = [lost EXCEPT ![r] = TRUE]
        BY <3>2 DEF Shape, TypeOK
      <3> QED
        BY <1>6, <3>1, <3>2 DEF InsertPick
    <2>3. ASSUME NEW q \in Runs, NEW v \in put'[q]
          PROVE  \/ pc'[q] \in {"panicked", "killed"}
                 \/ pc'[q] = "writing" /\ v \in record'[q]
                 \/ lost'[q]
                 \/ Recorded(q, v)'
      BY <2>1, <2>2, <2>3, RecordedStays DEF PutInv, Accounted
    <2> QED
      BY <2>1, <2>3 DEF PutInv, Waiting, Unput, Accounted
  <1>7. ASSUME NEW r \in Runs, FinishRun(r) PROVE PutInv'
    <2>1. /\ UNCHANGED <<put, picks, lost>> /\ pc[r] = "writing" /\ pc'[r] = "over" /\ record[r] = {}
          /\ \A q \in Runs \ {r} : pc'[q] = pc[q] /\ chosen'[q] = chosen[q] /\ record'[q] = record[q]
      BY <1>7 DEF FinishRun, Leave, history, Shape, TypeOK
    <2>2. ASSUME NEW q \in Runs, NEW v \in put'[q]
          PROVE  \/ pc'[q] \in {"panicked", "killed"}
                 \/ pc'[q] = "writing" /\ v \in record'[q]
                 \/ lost'[q]
                 \/ Recorded(q, v)'
      BY <2>1, <2>2, RecordedStays DEF PutInv, Accounted
    <2> QED
      BY <2>1, <2>2 DEF PutInv, Waiting, Unput, Accounted
  <1>8. ASSUME NEW r \in Runs, Panic(r) PROVE PutInv'
    BY <1>8, NothingPut DEF Panic, Leave, history, Shape, TypeOK
  <1>9. CASE Restart
    BY <1>9, NothingPut DEF Restart, Leave, db, history, Shape, TypeOK
  <1>10. ASSUME NEW r \in Runs, TenMinutes(r) \/ FifteenMinutes(r) PROVE PutInv'
    BY <1>10, NothingPut DEF TenMinutes, FifteenMinutes, local, db, history
  <1>11. CASE ShowStatus \/ Midnight \/ SaveSettings
    BY <1>11, NothingPut DEF ShowStatus, Midnight, SaveSettings, local, history
  <1>12. ASSUME NEW u \in Urls, UserAdds(u) \/ UserDeletes(u) PROVE PutInv'
    BY <1>12, NothingPut DEF UserAdds, UserDeletes, local, history
  <1>13. CASE UNCHANGED vars
    BY <1>13, NothingPut DEF vars, history
  <1> QED
    BY <1>1, <1>2, <1>3, <1>4, <1>5, <1>6, <1>7, <1>8, <1>9, <1>10, <1>11, <1>12, <1>13
       DEF Next, Work

(* A job that a run put into the pipeline counts for its day, unless the   *)
(* insert of its pick failed or the run was cut short (run, lines 551-572  *)
(* of handler/auto_select.go).                                             *)
THEOREM UncountedHasACauseHolds == Spec => []UncountedHasACause
  <1>1. Init => PutInv
    BY InitPut
  <1>2. PutInv /\ [Next]_vars => PutInv'
    BY NextPut
  <1>3. PutInv => UncountedHasACause
    BY DEF PutInv, Accounted, UncountedHasACause, Live, Recorded
  <1> QED
    BY <1>1, <1>2, <1>3, PTL DEF Spec

-----------------------------------------------------------------------------
(* What another click may spoil: as long as no other run recorded a pick   *)
(* since a click counted, the jobs chosen today and the ones it may still  *)
(* record as chosen are within its allowance, and nobody else was given    *)
(* its candidates of late.                                                 *)
Chosen(d) == {p \in picks : p.selected /\ p.day = d}
Due(r) == record[r] \cap (put[r] \cup chosen[r])
Owes(r) == IF pc[r] = "writing" THEN Cardinality(Due(r)) ELSE left[r]
Held(r) == cands[r] \cup read[r] \cup unread[r] \cup record[r]
Offered == {"offered"} \cup Live

PastPicks == \A p \in picks : p.day <= day /\ pc[p.run] # "idle"
EmptyHanded == \A r \in Runs : pc[r] \in {"idle", "counted"} => Held(r) = {}
Budget ==
    \A r \in Runs : pc[r] \in Counted /\ ~raced[r] =>
        Cardinality(Chosen(day)) + Owes(r) <= set[r].perDay
FreshOffers ==
    \A r \in Runs : pc[r] \in Offered /\ ~raced[r] =>
        \A u \in Held(r), p \in picks :
            p.url = u /\ p.run # r => day - p.day >= ReadAgainAfter
RaceInv ==
    /\ PutInv /\ PastPicks /\ EmptyHanded
    /\ Budget /\ FreshOffers
    /\ ExcessIsRaced /\ RepeatIsRaced

(* The sets that are counted are finite, and what is added is a number.    *)
Counts ==
    /\ IsFiniteSet(Chosen(day)) /\ Cardinality(Chosen(day)) \in Nat
    /\ \A r \in Runs :
         /\ IsFiniteSet(Due(r)) /\ Cardinality(Due(r)) \in Nat
         /\ Owes(r) \in Nat /\ set[r].perDay \in Nat

LEMMA ShapeCounts == Shape => Counts
  <1> SUFFICES ASSUME Shape PROVE Counts
    OBVIOUS
  <1>1. IsFiniteSet(Chosen(day)) /\ Cardinality(Chosen(day)) \in Nat
    <2>1. Chosen(day) \subseteq picks
      BY DEF Chosen
    <2> QED
      BY <2>1, FS_Subset, FS_CardinalityType DEF Shape
  <1>2. ASSUME NEW r \in Runs
        PROVE  IsFiniteSet(Due(r)) /\ Cardinality(Due(r)) \in Nat /\ Owes(r) \in Nat
    <2>1. Due(r) \subseteq Urls
      BY DEF Shape, TypeOK, Due
    <2>2. IsFiniteSet(Due(r)) /\ Cardinality(Due(r)) \in Nat
      BY <2>1, FS_Subset, FS_CardinalityType, UrlsAssumption
    <2> QED
      BY <2>2 DEF Owes, Shape, TypeOK
  <1>3. \A r \in Runs : set[r].perDay \in Nat
    BY SettingsAssumption DEF Shape, TypeOK
  <1> QED
    BY <1>1, <1>2, <1>3 DEF Counts

LEMMA ShapeCountsNext == Shape' => Counts'
  BY ShapeCounts, PTL

LEMMA InitRace ==
    ASSUME Init
    PROVE  RaceInv
  BY InitPut DEF Init, RaceInv, PastPicks, EmptyHanded, Held, Budget, FreshOffers, Counted,
                 Offered, Live, ExcessIsRaced, RepeatIsRaced

(* What may become of a run in a step that records no pick.                *)
Stays(r) ==
    /\ pc'[r] = pc[r] /\ set'[r] = set[r]
    /\ Owes(r)' = Owes(r) /\ Held(r)' = Held(r)
Ends(r) == pc'[r] \in {"over", "panicked", "killed"} /\ set'[r] = set[r]
Proceeds(r) ==
    /\ pc'[r] \in Counted
    /\ pc[r] # "idle" => set'[r] = set[r]
    /\ \/ pc[r] \in Counted /\ Owes(r)' <= Owes(r)
       \/ pc[r] = "idle" /\ Cardinality(Chosen(day)) + Owes(r)' <= set'[r].perDay
    /\ \/ pc'[r] = "counted" /\ Held(r)' = {}
       \/ pc'[r] \in Offered /\ pc[r] \in Offered /\ Held(r)' \subseteq Held(r)
       \/ /\ pc'[r] \in Offered
          /\ \A u \in Held(r)', p \in picks : p.url = u => day - p.day >= ReadAgainAfter

LEMMA Onward ==
    ASSUME RaceInv, PutInv', UNCHANGED <<picks, day, raced>>,
           \A r \in Runs : Stays(r) \/ Ends(r) \/ Proceeds(r)
    PROVE  RaceInv'
  <1> USE DEF RaceInv, PutInv
  <1>0. Chosen(day)' = Chosen(day) /\ day \in Int /\ \A p \in picks : p.run \in Runs /\ p.day \in Int
    BY DEF Chosen, Shape, TypeOK, Pick
  <1>1. PastPicks'
    BY <1>0 DEF PastPicks, Stays, Ends, Proceeds, Counted, Live
  <1>2. EmptyHanded'
    BY DEF EmptyHanded, Stays, Ends, Proceeds, Counted, Live, Offered
  <1>3. ASSUME NEW r \in Runs, pc'[r] \in Counted, ~raced'[r]
        PROVE  Cardinality(Chosen(day)) + Owes(r)' <= set'[r].perDay
    <2>1. CASE Stays(r)
      BY <1>3, <2>1 DEF Stays, Budget
    <2>2. CASE Ends(r)
      BY <1>3, <2>2 DEF Ends, Counted, Live
    <2>3. CASE Proceeds(r)
      <3>1. CASE pc[r] \in Counted /\ Owes(r)' <= Owes(r)
        <4>1. Cardinality(Chosen(day)) + Owes(r) <= set'[r].perDay
          BY <1>3, <2>3, <3>1 DEF Proceeds, Budget, Counted, Live
        <4>2. /\ Cardinality(Chosen(day)) \in Nat /\ Owes(r) \in Nat /\ Owes(r)' \in Nat
              /\ set'[r].perDay \in Nat
          BY ShapeCounts, ShapeCountsNext DEF Counts
        <4> QED
          BY <3>1, <4>1, <4>2
      <3> QED
        BY <2>3, <3>1 DEF Proceeds
    <2> QED
      BY <2>1, <2>2, <2>3
  <1>4. Budget'
    BY <1>0, <1>3 DEF Budget, Counted
  <1>5. ASSUME NEW r \in Runs, pc'[r] \in Offered, ~raced'[r], NEW u \in Held(r)', NEW p \in picks,
               p.url = u, p.run # r
        PROVE  day - p.day >= ReadAgainAfter
    BY <1>5 DEF FreshOffers, Stays, Ends, Proceeds, Counted, Offered, Live
  <1>6. FreshOffers'
    BY <1>0, <1>5 DEF FreshOffers, Offered
  <1>7. ExcessIsRaced'
    <2>1. \A p \in picks : p.run \in Runs /\ set'[p.run] = set[p.run]
      BY <1>0 DEF PastPicks, Stays, Ends, Proceeds
    <2> QED
      BY <2>1 DEF ExcessIsRaced
  <1>8. RepeatIsRaced'
    BY DEF RepeatIsRaced
  <1> QED
    BY <1>1, <1>2, <1>4, <1>6, <1>7, <1>8

(* A pick recorded by a run that nobody raced was due, and no other run    *)
(* gave its job to the AI within the days; all other runs are raced.       *)
LEMMA PickRecorded ==
    ASSUME RaceInv, PutInv', NEW r \in Runs, NEW u \in Urls, InsertPick(r, u),
           picks' = AutoSelectInsertPick(r, u, IsSelected(r, u)),
           raced' = [q \in Runs |-> raced[q] \/ (q # r /\ pc[q] \in Counted)]
    PROVE  RaceInv'
  <1> USE DEF RaceInv, PutInv
  <1> DEFINE new == [run |-> r, url |-> u, selected |-> u \in put[r], day |-> day]
  <1>0. new.run = r /\ new.url = u /\ new.day = day /\ (new.selected <=> u \in put[r])
    OBVIOUS
  <1>1. /\ picks' = picks \cup {new}
        /\ pc[r] = "writing" /\ chosen[r] = {} /\ u \in record[r]
        /\ record' = [record EXCEPT ![r] = @ \ {u}]
        /\ UNCHANGED <<day, pc, left, set, cands, read, unread, chosen, put>>
    BY DEF InsertPick, AutoSelectInsertPick, IsSelected
  <1> HIDE DEF new
  <1>2. /\ \A q \in Runs \ {r} : pc[q] \in Counted => raced'[q]
        /\ \A q \in Runs : raced[q] => raced'[q]
        /\ raced'[r] => raced[r]
    BY DEF Shape, TypeOK
  <1>3. record'[r] = record[r] \ {u} /\ \A q \in Runs \ {r} : record'[q] = record[q]
    BY <1>1 DEF Shape, TypeOK
  <1>4. day \in Int /\ ReadAgainAfter \in Int /\ \A p \in picks : p.run \in Runs /\ p.day \in Int
    BY BoundsAssumption DEF Shape, TypeOK, Pick
  <1>5. PastPicks'
    BY <1>0, <1>1, <1>4 DEF PastPicks
  <1>6. EmptyHanded'
    BY <1>1, <1>3 DEF EmptyHanded, Held
  <1>7. Cardinality(Chosen(day)') + Owes(r)' <= Cardinality(Chosen(day)) + Owes(r)
    <2>1. Due(r)' = Due(r) \ {u} /\ Owes(r) = Cardinality(Due(r)) /\ Owes(r)' = Cardinality(Due(r)')
      BY <1>1, <1>3 DEF Due, Owes
    <2>2. /\ IsFiniteSet(Chosen(day)) /\ Cardinality(Chosen(day)) \in Nat
          /\ IsFiniteSet(Due(r)) /\ Cardinality(Due(r)) \in Nat
      BY ShapeCounts DEF Counts
    <2>3. CASE u \in put[r]
      <3>1. u \in Due(r) /\ Chosen(day)' = Chosen(day) \cup {new}
        BY <1>0, <1>1, <2>3 DEF Due, Chosen
      <3>2. Cardinality(Due(r) \ {u}) = Cardinality(Due(r)) - 1
        BY <2>2, <3>1, FS_RemoveElement
      <3>3. \/ Cardinality(Chosen(day) \cup {new}) = Cardinality(Chosen(day)) + 1
            \/ Cardinality(Chosen(day) \cup {new}) = Cardinality(Chosen(day))
        <4>1. CASE new \in Chosen(day)
          <5>1. Chosen(day) \cup {new} = Chosen(day)
            BY <4>1
          <5> QED
            BY <5>1
        <4>2. CASE new \notin Chosen(day)
          BY <2>2, <4>2, FS_AddElement
        <4> QED
          BY <4>1, <4>2
      <3>4. /\ Owes(r) = Cardinality(Due(r)) /\ Owes(r)' = Cardinality(Due(r)) - 1
            /\ Cardinality(Chosen(day)') = Cardinality(Chosen(day) \cup {new})
        BY <2>1, <3>1, <3>2
      <3> QED
        BY <2>2, <3>3, <3>4
    <2>4. CASE u \notin put[r]
      <3>1. Due(r) \ {u} = Due(r) /\ Chosen(day)' = Chosen(day)
        BY <1>0, <1>1, <2>4 DEF Due, Chosen
      <3>2. Owes(r)' = Owes(r) /\ Cardinality(Chosen(day)') = Cardinality(Chosen(day))
        BY <2>1, <3>1
      <3> QED
        BY <2>1, <2>2, <3>2
    <2> QED
      BY <2>3, <2>4
  <1>8. ~raced[r] => Cardinality(Chosen(day)') + Owes(r)' <= set[r].perDay
    <2>1. ~raced[r] => Cardinality(Chosen(day)) + Owes(r) <= set[r].perDay
      BY <1>1 DEF Budget, Counted, Live
    <2>2. /\ Cardinality(Chosen(day)) \in Nat /\ Owes(r) \in Nat /\ Owes(r)' \in Nat
          /\ Cardinality(Chosen(day)') \in Nat /\ set[r].perDay \in Nat
      BY <1>1, ShapeCounts, ShapeCountsNext DEF Counts
    <2> QED
      BY <1>7, <2>1, <2>2
  <1>9. Budget'
    BY <1>1, <1>2, <1>8 DEF Budget, Counted
  <1>10. FreshOffers'
    <2>1. ASSUME NEW q \in Runs, pc[q] \in Offered, ~raced'[q],
                 NEW v \in Held(q)', NEW p \in picks', p.url = v, p.run # q
          PROVE  day - p.day >= ReadAgainAfter
      <3>1. q = r
        BY <1>2, <2>1 DEF Offered, Counted
      <3>2. ~raced[r] /\ p \in picks /\ v \in Held(r)
        BY <1>0, <1>1, <1>2, <1>3, <2>1, <3>1 DEF Held
      <3> QED
        BY <2>1, <3>1, <3>2 DEF FreshOffers
    <2> QED
      BY <1>1, <2>1 DEF FreshOffers, Offered
  <1>11. ExcessIsRaced'
    <2>1. ASSUME NEW d \in 1..MaxDay, Chosen(d)' # {}
          PROVE  \E p \in Chosen(d)' : raced'[p.run] \/ Cardinality(Chosen(d)') <= set[p.run].perDay
      <3>1. CASE Chosen(d)' = Chosen(d)
        <4>1. \E p \in Chosen(d) : raced[p.run] \/ Cardinality(Chosen(d)) <= set[p.run].perDay
          BY <2>1, <3>1 DEF ExcessIsRaced, Chosen
        <4> QED
          BY <1>2, <1>4, <3>1, <4>1 DEF Chosen
      <3>2. CASE d = day /\ new \in Chosen(d)'
        <4>1. raced'[r] \/ Cardinality(Chosen(day)') + Owes(r)' <= set[r].perDay
          BY <1>2, <1>8
        <4>2. raced'[r] \/ Cardinality(Chosen(day)') <= set[r].perDay
          BY <1>1, <4>1, ShapeCounts, ShapeCountsNext DEF Counts
        <4> QED
          BY <1>0, <1>1, <3>2, <4>2
      <3>3. CASE d # day \/ new \notin Chosen(d)'
        <4>1. Chosen(d)' = Chosen(d)
          BY <1>0, <1>1, <3>3 DEF Chosen
        <4> QED
          BY <3>1, <4>1
      <3> QED
        BY <3>2, <3>3
    <2>2. ASSUME NEW d \in 1..MaxDay
          PROVE  {p.run : p \in Chosen(d)'} # {} =>
                   \/ \E q \in {p.run : p \in Chosen(d)'} : Cardinality(Chosen(d)') <= set'[q].perDay
                   \/ \E q \in {p.run : p \in Chosen(d)'} : raced'[q]
      BY <1>1, <2>1
    <2>3. \A d : Chosen(d)' = {p \in picks' : p.selected /\ p.day = d}
      BY DEF Chosen
    <2> QED
      BY <2>2, <2>3 DEF ExcessIsRaced
  <1>12. ASSUME NEW q \in picks, q.run # r, q.url = u
         PROVE  raced'[r] \/ day - q.day >= ReadAgainAfter
    <2>1. u \in Held(r)
      BY <1>1 DEF Held
    <2> QED
      BY <1>1, <1>2, <1>12, <2>1 DEF FreshOffers, Offered, Live
  <1>13. RepeatIsRaced'
    <2>1. ASSUME NEW p \in picks', NEW q \in picks', p.run # q.run, p.url = q.url, p.day <= q.day,
                 q.day - p.day < ReadAgainAfter
          PROVE  raced'[p.run] \/ raced'[q.run]
      <3>1. CASE p \in picks /\ q \in picks
        BY <1>2, <1>4, <2>1, <3>1 DEF RepeatIsRaced
      <3>2. CASE p \in picks /\ q = new
        BY <1>0, <1>4, <1>12, <2>1, <3>2
      <3>3. CASE p = new /\ q \in picks
        <4>1. q.day <= day
          BY <3>3 DEF PastPicks
        <4> QED
          BY <1>0, <1>4, <1>12, <2>1, <3>3, <4>1
      <3> QED
        BY <1>0, <1>1, <2>1, <3>1, <3>2, <3>3
    <2> QED
      BY <2>1 DEF RepeatIsRaced
  <1> QED
    BY <1>5, <1>6, <1>9, <1>10, <1>11, <1>13

(* A run whose locals a step leaves alone.                                 *)
LEMMA Untouched ==
    ASSUME NEW q \in Runs,
           pc'[q] = pc[q], set'[q] = set[q], left'[q] = left[q],
           cands'[q] = cands[q], read'[q] = read[q], unread'[q] = unread[q],
           chosen'[q] = chosen[q], put'[q] = put[q], record'[q] = record[q]
    PROVE  Stays(q)
  BY DEF Stays, Owes, Due, Held

(* A goroutine that writes owes no more when fewer of its jobs are due.    *)
LEMMA DueShrinks ==
    ASSUME Shape, NEW r \in Runs, pc[r] = "writing", pc'[r] = "writing", Due(r)' \subseteq Due(r)
    PROVE  Owes(r)' <= Owes(r)
  <1>1. IsFiniteSet(Due(r))
    BY ShapeCounts DEF Counts
  <1>2. Cardinality(Due(r)') <= Cardinality(Due(r))
    BY <1>1, FS_Subset
  <1> QED
    BY <1>2 DEF Owes

LEMMA CountRace ==
    ASSUME RaceInv, PutInv', NEW r \in Runs, Count(r)
    PROVE  RaceInv'
  <1> USE DEF RaceInv, PutInv
  <1> DEFINE n == IF settings.perRun < Remaining THEN settings.perRun ELSE Remaining
  <1>1. \A q \in Runs \ {r} : Stays(q)
    BY Untouched DEF Count, Shape, TypeOK
  <1>2. CASE n = 0
    <2>1. Ends(r)
      BY <1>2 DEF Count, Ends, Shape, TypeOK
    <2> QED
      BY <1>1, <2>1, Onward DEF Count, history
  <1>3. CASE n # 0
    <2>1. pc[r] = "idle" /\ pc'[r] = "counted" /\ left'[r] = n /\ set'[r] = settings
      BY <1>3 DEF Count, Shape, TypeOK
    <2>2. Cardinality(Chosen(day)) = AutoSelectUsedSince
      BY DEF Chosen, AutoSelectUsedSince
    <2>3. /\ AutoSelectUsedSince \in Nat /\ Remaining \in Nat
          /\ settings.perRun \in Nat /\ settings.perDay \in Nat
      BY UsedIsNat, SettingsAssumption DEF Shape, TypeOK
    <2>4. Cardinality(Chosen(day)) + n <= settings.perDay
      BY <1>3, <2>2, <2>3 DEF Remaining
    <2>5. Owes(r)' = n
      BY <2>1 DEF Owes
    <2>6. Held(r)' = {}
      BY <2>1 DEF Count, EmptyHanded, Held
    <2>7. Proceeds(r)
      BY <2>1, <2>4, <2>5, <2>6 DEF Proceeds, Counted
    <2> QED
      BY <1>1, <2>7, Onward DEF Count, history
  <1> QED
    BY <1>2, <1>3

LEMMA ChooseCandidatesRace ==
    ASSUME RaceInv, PutInv', NEW r \in Runs, ChooseCandidates(r)
    PROVE  RaceInv'
  <1> USE DEF RaceInv, PutInv
  <1>1. \A q \in Runs \ {r} : Stays(q)
    BY Untouched DEF ChooseCandidates, Shape, TypeOK
  <1>2. PICK C \in SUBSET (Urls \ AutoSelectExcludedUrls) : cands' = [cands EXCEPT ![r] = C]
    BY DEF ChooseCandidates
  <1>3. pc[r] = "counted" /\ pc'[r] = "offered" /\ set'[r] = set[r]
    BY DEF ChooseCandidates, Shape, TypeOK
  <1>4. Owes(r)' = Owes(r) /\ Owes(r) \in Nat
    BY <1>3, ShapeCounts DEF Owes, Counts, ChooseCandidates
  <1>5. Held(r)' = C
    <2>1. cands'[r] = C
      BY <1>2 DEF Shape, TypeOK
    <2>2. read[r] = {} /\ unread[r] = {} /\ record[r] = {}
      BY <1>3 DEF EmptyHanded, Held
    <2> QED
      BY <2>1, <2>2 DEF Held, ChooseCandidates
  <1>6. \A u \in C, p \in picks : p.url = u => day - p.day >= ReadAgainAfter
    <2>1. day \in Int /\ ReadAgainAfter \in Int /\ \A p \in picks : p.day \in Int
      BY BoundsAssumption DEF Shape, TypeOK, Pick
    <2>2. \A p \in picks : day - p.day < ReadAgainAfter => p.url \in AutoSelectExcludedUrls
      BY DEF AutoSelectExcludedUrls
    <2>3. \A u \in C : u \notin AutoSelectExcludedUrls
      OBVIOUS
    <2> QED
      BY <2>1, <2>2, <2>3
  <1>7. Proceeds(r)
    BY <1>3, <1>4, <1>5, <1>6 DEF Proceeds, Counted, Offered
  <1> QED
    BY <1>1, <1>7, Onward DEF ChooseCandidates, db, history

LEMMA StartRunRace ==
    ASSUME RaceInv, PutInv', NEW r \in Runs, StartRun(r)
    PROVE  RaceInv'
  <1> USE DEF RaceInv, PutInv
  <1>1. \A q \in Runs \ {r} : Stays(q)
    BY Untouched DEF StartRun, Leave, local, Shape, TypeOK
  <1>2. CASE ~NoRunning
    <2>1. Ends(r)
      BY <1>2 DEF StartRun, Leave, Ends, Shape, TypeOK
    <2> QED
      BY <1>1, <1>2, <2>1, Onward DEF StartRun, history
  <1>3. CASE NoRunning
    <2>1. /\ pc[r] = "offered" /\ pc'[r] \in Live /\ UNCHANGED local
      BY <1>3 DEF StartRun, Live, Shape, TypeOK
    <2>2. Owes(r)' <= Owes(r)
      <3>1. Owes(r) = left[r] /\ left[r] \in Nat
        BY <2>1 DEF Owes, Shape, TypeOK
      <3>2. CASE pc'[r] = "reading"
        BY <2>1, <3>1, <3>2 DEF Owes, local
      <3>3. CASE pc'[r] = "writing"
        <4>1. Due(r)' = {}
          BY <2>1 DEF Due, local, Unput
        <4>2. Owes(r)' = 0
          BY <3>3, <4>1, FS_EmptySet DEF Owes
        <4> QED
          BY <3>1, <4>2
      <3> QED
        BY <2>1, <3>2, <3>3 DEF Live
    <2>3. Held(r)' = Held(r) /\ set'[r] = set[r]
      BY <2>1 DEF Held, local
    <2>4. Proceeds(r)
      BY <2>1, <2>2, <2>3 DEF Proceeds, Counted, Offered
    <2>5. UNCHANGED <<picks, day, raced>>
      BY <2>1 DEF StartRun, local, history
    <2> QED
      BY <1>1, <2>4, <2>5, Onward
  <1> QED
    BY <1>2, <1>3

LEMMA ReadRace ==
    ASSUME RaceInv, PutInv', NEW r \in Runs, ReadBatch(r) \/ ReadLate(r)
    PROVE  RaceInv'
  <1> USE DEF RaceInv, PutInv
  <1>1. \A q \in Runs \ {r} : Stays(q)
    BY Untouched DEF ReadBatch, ReadLate, Shape, TypeOK
  <1>2. /\ pc[r] = "reading" /\ pc'[r] = "reading" /\ left'[r] = left[r] /\ set'[r] = set[r]
        /\ record'[r] = record[r]
    BY DEF ReadBatch, ReadLate
  <1>3. cands'[r] \subseteq cands[r]
    BY DEF ReadBatch, ReadLate, Shape, TypeOK
  <1>4. read'[r] \subseteq read[r] \cup cands[r] /\ unread'[r] \subseteq unread[r] \cup cands[r]
    BY DEF ReadBatch, ReadLate, Shape, TypeOK
  <1>5. Held(r)' \subseteq Held(r)
    BY <1>2, <1>3, <1>4 DEF Held
  <1>6. Owes(r)' <= Owes(r)
    BY <1>2 DEF Owes, Shape, TypeOK
  <1>7. Proceeds(r)
    BY <1>2, <1>5, <1>6 DEF Proceeds, Counted, Offered, Live
  <1> QED
    BY <1>1, <1>7, Onward DEF ReadBatch, ReadLate, db, history

LEMMA ChooseJobsRace ==
    ASSUME RaceInv, PutInv', NEW r \in Runs, ChooseJobs(r)
    PROVE  RaceInv'
  <1> USE DEF RaceInv, PutInv
  <1>1. \A q \in Runs \ {r} : Stays(q)
    BY Untouched DEF ChooseJobs, Shape, TypeOK
  <1>2. PICK C \in SUBSET read[r] : Cardinality(C) <= left[r] /\ chosen' = [chosen EXCEPT ![r] = C]
    BY DEF ChooseJobs
  <1>3. /\ pc[r] = "reading" /\ pc'[r] = "writing" /\ set'[r] = set[r] /\ put'[r] = {}
        /\ chosen'[r] = C /\ record'[r] = read[r] \cup unread[r]
        /\ cands'[r] = cands[r] /\ read'[r] = read[r] /\ unread'[r] = unread[r]
    BY <1>2 DEF ChooseJobs, Shape, TypeOK, Unput
  <1>4. Due(r)' = C
    BY <1>3 DEF Due
  <1>5. Owes(r)' <= Owes(r)
    BY <1>2, <1>3, <1>4 DEF Owes
  <1>6. Held(r)' \subseteq Held(r)
    BY <1>3 DEF Held
  <1>7. Proceeds(r)
    BY <1>3, <1>5, <1>6 DEF Proceeds, Counted, Offered, Live
  <1> QED
    BY <1>1, <1>7, Onward DEF ChooseJobs, db, history

LEMMA WriteRace ==
    ASSUME RaceInv, PutInv', NEW r \in Runs, NEW u \in Urls,
           InsertAutoJob(r, u) \/ InsertPick(r, u), UNCHANGED <<picks, raced>>
    PROVE  RaceInv'
  <1> USE DEF RaceInv, PutInv
  <1>1. \A q \in Runs \ {r} : Stays(q)
    BY Untouched DEF InsertAutoJob, InsertPick, history, Shape, TypeOK
  <1>2. /\ pc[r] = "writing" /\ pc'[r] = "writing" /\ set'[r] = set[r] /\ UNCHANGED day
        /\ cands'[r] = cands[r] /\ read'[r] = read[r] /\ unread'[r] = unread[r]
    BY DEF InsertAutoJob, InsertPick
  <1>3. record'[r] \subseteq record[r]
    BY DEF InsertAutoJob, InsertPick, Shape, TypeOK
  <1>4. put'[r] \cup chosen'[r] \subseteq put[r] \cup chosen[r]
    BY DEF InsertAutoJob, InsertPick, Shape, TypeOK
  <1>5. Due(r)' \subseteq Due(r) /\ Held(r)' \subseteq Held(r)
    BY <1>2, <1>3, <1>4 DEF Due, Held
  <1>6. Owes(r)' <= Owes(r)
    BY <1>2, <1>5, DueShrinks
  <1>7. Proceeds(r)
    BY <1>2, <1>5, <1>6 DEF Proceeds, Counted, Offered, Live
  <1> QED
    BY <1>1, <1>2, <1>7, Onward

LEMMA MidnightRace ==
    ASSUME RaceInv, PutInv', Midnight
    PROVE  RaceInv'
  <1> USE DEF RaceInv, PutInv
  <1>1. /\ day' = day + 1 /\ UNCHANGED <<picks, pc, set, raced, left, record, put, chosen, cands, read, unread>>
        /\ day \in Int /\ ReadAgainAfter \in Int /\ \A p \in picks : p.day \in Int
    BY BoundsAssumption DEF Midnight, local, history, Shape, TypeOK, Pick
  <1>2. PastPicks'
    BY <1>1 DEF PastPicks
  <1>3. EmptyHanded'
    BY <1>1 DEF EmptyHanded, Held
  <1>4. Budget'
    <2>1. Chosen(day)' = {}
      BY <1>1 DEF Chosen, PastPicks
    <2>2. Cardinality(Chosen(day)') = 0
      BY <2>1, FS_EmptySet
    <2>3. ASSUME NEW r \in Runs, pc[r] \in Counted, ~raced[r]
          PROVE  Owes(r) <= set[r].perDay
      <3>1. Cardinality(Chosen(day)) + Owes(r) <= set[r].perDay
        BY <2>3 DEF Budget
      <3>2. Cardinality(Chosen(day)) \in Nat /\ Owes(r) \in Nat /\ set[r].perDay \in Nat
        BY ShapeCounts DEF Counts
      <3> QED
        BY <3>1, <3>2
    <2>4. \A r \in Runs : Owes(r)' = Owes(r) /\ Owes(r) \in Nat
      BY <1>1, ShapeCounts DEF Owes, Due, Counts
    <2>5. ASSUME NEW r \in Runs, pc[r] \in Counted, ~raced[r]
          PROVE  Cardinality(Chosen(day)') + Owes(r)' <= set[r].perDay
      BY <2>2, <2>3, <2>4, <2>5
    <2> QED
      BY <1>1, <2>5 DEF Budget
  <1>5. FreshOffers'
    BY <1>1 DEF FreshOffers, Held
  <1>6. ExcessIsRaced' /\ RepeatIsRaced'
    BY <1>1 DEF ExcessIsRaced, RepeatIsRaced
  <1> QED
    BY <1>2, <1>3, <1>4, <1>5, <1>6

LEMMA NextRace ==
    ASSUME RaceInv, [Next]_vars
    PROVE  RaceInv'
  <1>0. PutInv /\ PutInv' /\ Shape
    BY NextPut DEF RaceInv, PutInv
  <1>1. ASSUME NEW r \in Runs, Count(r) PROVE RaceInv'
    BY <1>0, <1>1, CountRace
  <1>2. ASSUME NEW r \in Runs, ChooseCandidates(r) PROVE RaceInv'
    BY <1>0, <1>2, ChooseCandidatesRace
  <1>3. ASSUME NEW r \in Runs, StartRun(r) PROVE RaceInv'
    BY <1>0, <1>3, StartRunRace
  <1>4. ASSUME NEW r \in Runs, ReadBatch(r) \/ ReadLate(r) PROVE RaceInv'
    BY <1>0, <1>4, ReadRace
  <1>5. ASSUME NEW r \in Runs, ChooseJobs(r) PROVE RaceInv'
    BY <1>0, <1>5, ChooseJobsRace
  <1>6. ASSUME NEW r \in Runs, NEW u \in Urls, InsertAutoJob(r, u) PROVE RaceInv'
    BY <1>0, <1>6, WriteRace DEF InsertAutoJob, history
  <1>7. ASSUME NEW r \in Runs, NEW u \in Urls, InsertPick(r, u) PROVE RaceInv'
    <2>1. CASE UNCHANGED <<picks, raced>>
      BY <1>0, <1>7, <2>1, WriteRace
    <2>2. CASE /\ picks' = AutoSelectInsertPick(r, u, IsSelected(r, u))
               /\ raced' = [q \in Runs |-> raced[q] \/ (q # r /\ pc[q] \in Counted)]
      BY <1>0, <1>7, <2>2, PickRecorded
    <2> QED
      BY <1>7, <2>1, <2>2 DEF InsertPick
  <1>8. ASSUME NEW r \in Runs, CandidatesFail(r) \/ FinishRun(r) \/ Panic(r) PROVE RaceInv'
    <2>1. Ends(r)
      BY <1>0, <1>8 DEF CandidatesFail, FinishRun, Panic, Leave, Ends, Shape, TypeOK
    <2>2. \A q \in Runs \ {r} : Stays(q)
      BY <1>0, <1>8, Untouched DEF CandidatesFail, FinishRun, Panic, Leave, Shape, TypeOK
    <2>3. UNCHANGED <<picks, day, raced>>
      BY <1>8 DEF CandidatesFail, FinishRun, Panic, db, history
    <2> QED
      BY <1>0, <2>1, <2>2, <2>3, Onward
  <1>9. CASE Restart
    <2>1. ASSUME NEW q \in Runs PROVE Stays(q) \/ Ends(q)
      <3>1. CASE pc[q] \in {"idle", "over", "panicked", "killed"}
        BY <1>0, <1>9, <3>1, Untouched DEF Restart, Leave, Shape, TypeOK
      <3>2. CASE pc[q] \notin {"idle", "over", "panicked", "killed"}
        BY <1>0, <1>9, <3>2 DEF Restart, Leave, Ends, Shape, TypeOK
      <3> QED
        BY <3>1, <3>2
    <2> QED
      BY <1>0, <1>9, <2>1, Onward DEF Restart, db, history
  <1>10. ASSUME NEW r \in Runs, TenMinutes(r) \/ FifteenMinutes(r) PROVE RaceInv'
    <2>1. /\ UNCHANGED <<picks, day, raced>>
          /\ UNCHANGED <<pc, left, set, cands, read, unread, chosen, put, record>>
      BY <1>10 DEF TenMinutes, FifteenMinutes, local, db, history
    <2> QED
      BY <1>0, <2>1, Untouched, Onward
  <1>11. CASE ShowStatus \/ SaveSettings
    <2>1. /\ UNCHANGED <<picks, day, raced>>
          /\ UNCHANGED <<pc, left, set, cands, read, unread, chosen, put, record>>
      BY <1>11 DEF ShowStatus, SaveSettings, local, history
    <2> QED
      BY <1>0, <2>1, Untouched, Onward
  <1>12. CASE Midnight
    BY <1>0, <1>12, MidnightRace
  <1>13. ASSUME NEW u \in Urls, UserAdds(u) \/ UserDeletes(u) PROVE RaceInv'
    <2>1. /\ UNCHANGED <<picks, day, raced>>
          /\ UNCHANGED <<pc, left, set, cands, read, unread, chosen, put, record>>
      BY <1>13 DEF UserAdds, UserDeletes, local, history
    <2> QED
      BY <1>0, <2>1, Untouched, Onward
  <1>14. CASE UNCHANGED vars
    <2>1. /\ UNCHANGED <<picks, day, raced>>
          /\ UNCHANGED <<pc, left, set, cands, read, unread, chosen, put, record>>
      BY <1>14 DEF vars, history
    <2> QED
      BY <1>0, <2>1, Untouched, Onward
  <1> QED
    BY <1>1, <1>2, <1>3, <1>4, <1>5, <1>6, <1>7, <1>8, <1>9, <1>10, <1>11, <1>12, <1>13,
       <1>14 DEF Next, Work

(* The jobs recorded as chosen on a day exceed the allowance of every      *)
(* click that chose some only when one of those clicks counted before      *)
(* another one had recorded its picks (Start counts, run records:          *)
(* handler/auto_select.go), for any settings and any number of clicks.     *)
THEOREM ExcessIsRacedHolds == Spec => []ExcessIsRaced
  <1>1. Init => RaceInv
    BY InitRace
  <1>2. RaceInv /\ [Next]_vars => RaceInv'
    BY NextRace
  <1>3. RaceInv => ExcessIsRaced
    BY DEF RaceInv
  <1> QED
    BY <1>1, <1>2, <1>3, PTL DEF Spec

(* The AI is given a job a second time within ReadAgainAfter days only     *)
(* when one of the two clicks counted before the other had recorded its    *)
(* picks (AutoSelectExcludedUrls), also if the user deleted the job.       *)
THEOREM RepeatIsRacedHolds == Spec => []RepeatIsRaced
  <1>1. Init => RaceInv
    BY InitRace
  <1>2. RaceInv /\ [Next]_vars => RaceInv'
    BY NextRace
  <1>3. RaceInv => RepeatIsRaced
    BY DEF RaceInv
  <1> QED
    BY <1>1, <1>2, <1>3, PTL DEF Spec

-----------------------------------------------------------------------------
(* What is kept of a reply. *)

(* The places of the answer a that the profile (skills) does not fill.     *)
Unfilled(a, skills) ==
    {k \in DOMAIN a.missing : a.missing[k].item # {} /\ ~ProfileHas(a.missing[k].item, skills)}
Heavy(a, skills) == {k \in Unfilled(a, skills) : a.missing[k].weight # "minor"}
Light(a, skills) == {k \in Unfilled(a, skills) : a.missing[k].weight = "minor"}

IsAnswer(a) == a.score \in Int /\ a.apply \in BOOLEAN /\ a.blocker \in BOOLEAN /\ IsList(a.missing)

Verified(a, r) == VerifyMissing(Verdict(a), r.skills)
Judge(a, r) == ApplyRules(Verified(a, r), r.job, r.career, r.places)

LEMMA VerdictFields ==
    ASSUME NEW score, NEW apply \in BOOLEAN, NEW blocker \in BOOLEAN, NEW years, NEW workplace, NEW missing
    PROVE  LET v == [score |-> score, apply |-> apply, blocker |-> blocker,
                     years |-> years, workplace |-> workplace, missing |-> missing]
           IN  /\ v.score = score /\ v.apply = apply /\ v.blocker = blocker
               /\ v.years = years /\ v.workplace = workplace /\ v.missing = missing
  OBVIOUS

LEMMA MissingFields ==
    ASSUME NEW item, NEW central \in BOOLEAN
    PROVE  LET m == [item |-> item, central |-> central] IN m.item = item /\ m.central = central
  OBVIOUS

LEMMA VerdictOf ==
    ASSUME NEW a, IsAnswer(a)
    PROVE  LET v == Verdict(a)
           IN  /\ v.score = Clamp(a.score) /\ v.apply = (a.apply /\ ~a.blocker) /\ v.blocker = a.blocker
               /\ v.years = RawYears(a.years) /\ v.workplace = a.workplace
               /\ v.missing = RawMissing(a.missing)
  <1> DEFINE score == Clamp(a.score)
             apply == a.apply /\ ~a.blocker
             years == RawYears(a.years)
             missing == RawMissing(a.missing)
  <1>1. apply \in BOOLEAN /\ a.blocker \in BOOLEAN
    BY DEF IsAnswer
  <1>2. Verdict(a) = [score |-> score, apply |-> apply, blocker |-> a.blocker,
                      years |-> years, workplace |-> a.workplace, missing |-> missing]
    BY DEF Verdict
  <1> HIDE DEF score, apply, years, missing
  <1> QED
    BY <1>1, <1>2, VerdictFields DEF score, apply, years, missing

LEMMA VerifiedFields ==
    ASSUME NEW a, IsAnswer(a), NEW r
    PROVE  LET v == Verified(a, r)
           IN  /\ v.score = Clamp(a.score) /\ v.apply = (a.apply /\ ~a.blocker) /\ v.blocker = a.blocker
               /\ v.years = RawYears(a.years) /\ v.workplace = a.workplace
               /\ DOMAIN v.missing = Unfilled(a, r.skills)
               /\ Central(v) = Cardinality(Heavy(a, r.skills))
               /\ Minor(v) = Cardinality(Light(a, r.skills))
  <1> DEFINE u == Verdict(a)
             v == Verified(a, r)
             raw == RawMissing(a.missing)
             real == {k \in DOMAIN a.missing : a.missing[k].item # {}}
             missing == [k \in {k \in DOMAIN raw : ~ProfileHas(raw[k].item, r.skills)} |-> raw[k]]
             apply == a.apply /\ ~a.blocker
  <1>1. /\ u.score = Clamp(a.score) /\ u.apply = apply /\ u.blocker = a.blocker
        /\ u.years = RawYears(a.years) /\ u.workplace = a.workplace /\ u.missing = raw
    BY VerdictOf
  <1>2. apply \in BOOLEAN /\ a.blocker \in BOOLEAN
    BY DEF IsAnswer
  <1>3. DOMAIN raw = real
    BY DEF RawMissing
  <1>4. ASSUME NEW k \in real
        PROVE  raw[k].item = a.missing[k].item /\ raw[k].central = (a.missing[k].weight # "minor")
    <2> DEFINE central == a.missing[k].weight # "minor"
    <2>1. raw[k] = [item |-> a.missing[k].item, central |-> central]
      BY DEF RawMissing
    <2>2. central \in BOOLEAN
      OBVIOUS
    <2> HIDE DEF central, raw
    <2> QED
      BY <2>1, <2>2, MissingFields DEF central
  <1>5. v = [score |-> u.score, apply |-> u.apply, blocker |-> u.blocker,
             years |-> u.years, workplace |-> u.workplace, missing |-> missing]
    BY <1>1 DEF Verified, VerifyMissing
  <1> HIDE DEF u, v, raw, missing, apply
  <1>6. u.apply \in BOOLEAN /\ u.blocker \in BOOLEAN
    BY <1>1, <1>2
  <1>7. /\ v.score = u.score /\ v.apply = u.apply /\ v.blocker = u.blocker
        /\ v.years = u.years /\ v.workplace = u.workplace /\ v.missing = missing
    BY <1>5, <1>6, VerdictFields
  <1>8. /\ DOMAIN missing = Unfilled(a, r.skills)
        /\ \A k \in DOMAIN missing : missing[k].central = (a.missing[k].weight # "minor")
    BY <1>3, <1>4 DEF missing, Unfilled
  <1>9. {k \in DOMAIN v.missing : v.missing[k].central} = Heavy(a, r.skills)
    BY <1>7, <1>8 DEF Heavy
  <1>10. {k \in DOMAIN v.missing : ~v.missing[k].central} = Light(a, r.skills)
    BY <1>7, <1>8 DEF Light
  <1> QED
    BY <1>1, <1>7, <1>8, <1>9, <1>10 DEF Central, Minor, v, apply

LEMMA CountsAreNat ==
    ASSUME NEW a, IsAnswer(a), NEW skills
    PROVE  /\ IsFiniteSet(Heavy(a, skills)) /\ Cardinality(Heavy(a, skills)) \in Nat
           /\ IsFiniteSet(Light(a, skills)) /\ Cardinality(Light(a, skills)) \in Nat
  <1>1. IsFiniteSet(DOMAIN a.missing)
    BY FiniteDomain DEF IsAnswer
  <1>2. Heavy(a, skills) \subseteq DOMAIN a.missing /\ Light(a, skills) \subseteq DOMAIN a.missing
    BY DEF Heavy, Light, Unfilled
  <1> QED
    BY <1>1, <1>2, FS_Subset, FS_CardinalityType

(* What the rules keep of an answer, by what of it is not in the profile.  *)
Weighs(h, m) == h >= 2 \/ (h = 1 /\ m >= 2) \/ m >= 4
Lowered(score, h, m) == Clamp((IF h = 1 /\ score > 65 THEN 65 ELSE score) - 5 * m)

(* The reasons to refuse a job that do not look at what is missing.         *)
Refused(a, r) ==
    \/ a.blocker
    \/ r.career > 0 /\ 2 * RawYears(a.years) > 3 * r.career
    \/ r.places # {} /\ r.job.workplace = "" /\ a.workplace # "" /\ a.workplace \notin r.places

Dropped(a, r) ==
    Refused(a, r) \/ Weighs(Cardinality(Heavy(a, r.skills)), Cardinality(Light(a, r.skills)))
Kept(a, r) ==
    IF Dropped(a, r) THEN Clamp(a.score)
    ELSE Lowered(Clamp(a.score), Cardinality(Heavy(a, r.skills)), Cardinality(Light(a, r.skills)))
JudgedAs(j, a, r) ==
    /\ j.score = Kept(a, r)
    /\ j.apply = (/\ a.apply /\ ~Dropped(a, r)
                  /\ ~(r.job.stretch /\ (Kept(a, r) < StretchMinScore \/ Unfilled(a, r.skills) # {})))
    /\ DOMAIN j.missing = Unfilled(a, r.skills)

LEMMA JudgeIs ==
    ASSUME NEW a, IsAnswer(a), NEW r, r.job.stretch \in BOOLEAN
    PROVE  JudgedAs(Judge(a, r), a, r)
  <1> DEFINE cut == Dropped(a, r)
             score == Kept(a, r)
             v == Verified(a, r)
             apply == v.apply /\ ~Cut(v, r.job, r.career, r.places)
                        /\ ~(r.job.stretch /\ (score < StretchMinScore \/ DOMAIN v.missing # {}))
             j == Judge(a, r)
             h == Cardinality(Heavy(a, r.skills))
             m == Cardinality(Light(a, r.skills))
             s == Clamp(a.score)
  <1>1. /\ v.score = s /\ v.apply = (a.apply /\ ~a.blocker) /\ v.blocker = a.blocker
        /\ v.years = RawYears(a.years) /\ v.workplace = a.workplace
        /\ DOMAIN v.missing = Unfilled(a, r.skills) /\ Central(v) = h /\ Minor(v) = m
    BY VerifiedFields
  <1>2. Cut(v, r.job, r.career, r.places) = cut
    <2>1. cut = (Refused(a, r) \/ Weighs(h, m))
      BY DEF Dropped
    <2> HIDE DEF v, h, m, s, cut
    <2> QED
      BY <1>1, <2>1 DEF Cut, AsksTooLong, WrongPlace, TooManyMissing, Weighs, Refused
  <1>3. score = IF cut THEN s ELSE Lowered(s, h, m)
    BY DEF Kept
  <1> HIDE DEF v, h, m, s, cut, score
  <1>4. Score(v, r.job, r.career, r.places) = score
    <2>1. Discount(v) = Lowered(s, h, m)
      BY <1>1 DEF Discount, Lowered
    <2> QED
      BY <1>1, <1>2, <1>3, <2>1 DEF Score
  <1>5. j = [score |-> score, apply |-> apply, missing |-> v.missing]
    BY <1>4 DEF Judge, ApplyRules, v
  <1>6. ASSUME NEW b \in BOOLEAN, j = [score |-> score, apply |-> b, missing |-> v.missing]
        PROVE  j.score = score /\ j.apply = b /\ j.missing = v.missing
    <2> HIDE DEF j
    <2> QED
      BY <1>6
  <1>7. j.score = score /\ j.apply = apply /\ j.missing = v.missing
    <2>1. apply \in BOOLEAN
      BY <1>1
    <2> HIDE DEF apply, j
    <2> QED
      BY <1>5, <1>6, <2>1
  <1>8. apply = (/\ a.apply /\ ~cut
                 /\ ~(r.job.stretch /\ (score < StretchMinScore \/ Unfilled(a, r.skills) # {})))
    <2>1. a.blocker => cut
      BY DEF cut, Dropped, Refused
    <2> QED
      BY <1>1, <1>2, <2>1
  <1> HIDE DEF j, apply
  <1>9. /\ j.score = score
        /\ j.apply = (/\ a.apply /\ ~cut
                      /\ ~(r.job.stretch /\ (score < StretchMinScore \/ Unfilled(a, r.skills) # {})))
        /\ DOMAIN j.missing = Unfilled(a, r.skills)
    BY <1>1, <1>7, <1>8
  <1> QED
    BY <1>9 DEF j, score, cut, JudgedAs

LEMMA ScoreIsAPercentage ==
    /\ \A x \in Int : Clamp(x) \in 0..100
    /\ \A s \in 0..100, h \in Nat, m \in Nat : Lowered(s, h, m) \in 0..100
BY DEF Clamp, Lowered

LEMMA MoreMissingLowers ==
    ASSUME NEW s \in 0..100, NEW h \in Nat, NEW m \in Nat, NEW g \in Nat, NEW n \in Nat, h <= g, m <= n
    PROVE  /\ Weighs(h, m) => Weighs(g, n)
           /\ ~Weighs(g, n) => Lowered(s, g, n) <= Lowered(s, h, m)
BY DEF Weighs, Lowered, Clamp

\* The answer a with one more requirement.
More(a, lack) ==
    [job |-> a.job, score |-> a.score, apply |-> a.apply, blocker |-> a.blocker,
     years |-> a.years, workplace |-> a.workplace, missing |-> Append(a.missing, lack)]

LEMMA MoreIsMore ==
    ASSUME NEW a, IsAnswer(a), NEW lack, NEW skills
    PROVE  LET b == More(a, lack)
           IN  /\ IsAnswer(b) /\ b.job = a.job /\ b.score = a.score /\ b.apply = a.apply
               /\ b.blocker = a.blocker /\ b.years = a.years /\ b.workplace = a.workplace
               /\ Unfilled(a, skills) \subseteq Unfilled(b, skills)
               /\ Cardinality(Heavy(a, skills)) <= Cardinality(Heavy(b, skills))
               /\ Cardinality(Light(a, skills)) <= Cardinality(Light(b, skills))
  <1> DEFINE b == More(a, lack)
             s == a.missing
             t == Append(s, lack)
  <1>1. /\ b.job = a.job /\ b.score = a.score
        /\ b.years = a.years /\ b.workplace = a.workplace /\ b.missing = t
    BY DEF More
  <1>2. b.apply = a.apply /\ b.blocker = a.blocker
    <2>1. ASSUME NEW x \in BOOLEAN, NEW y \in BOOLEAN,
                 b = [job |-> a.job, score |-> a.score, apply |-> x, blocker |-> y,
                      years |-> a.years, workplace |-> a.workplace, missing |-> t]
          PROVE  b.apply = x /\ b.blocker = y
      <3> HIDE DEF b, t
      <3> QED
        BY <2>1
    <2>2. a.apply \in BOOLEAN /\ a.blocker \in BOOLEAN
      BY DEF IsAnswer
    <2>3. b = [job |-> a.job, score |-> a.score, apply |-> a.apply, blocker |-> a.blocker,
               years |-> a.years, workplace |-> a.workplace, missing |-> t]
      BY DEF More
    <2> HIDE DEF b, t
    <2> QED
      BY <2>1, <2>2, <2>3
  <1>3. IsList(s) /\ Len(s) \in Nat /\ DOMAIN s = 1..Len(s)
    BY ListFacts DEF IsAnswer
  <1>4. /\ DOMAIN t = 1..(Len(s) + 1) /\ t = [k \in 1..(Len(s) + 1) |-> t[k]]
        /\ \A k \in 1..Len(s) : t[k] = s[k]
    <2> DEFINE S == Range(s) \cup {lack}
    <2>1. s \in Seq(S)
      <3>1. \A k \in 1..Len(s) : s[k] \in S
        BY <1>3 DEF Range
      <3>2. s = [k \in 1..Len(s) |-> s[k]]
        BY <1>3, ListFacts
      <3> HIDE DEF S
      <3>3. s \in [1..Len(s) -> S]
        BY <3>1, <3>2
      <3> QED
        BY <1>3, <3>3
    <2>2. lack \in S
      OBVIOUS
    <2> HIDE DEF S
    <2>3. t \in Seq(S) /\ Len(t) = Len(s) + 1 /\ \A k \in 1..Len(s) : t[k] = s[k]
      BY <2>1, <2>2, AppendProperties
    <2> HIDE DEF t
    <2> QED
      BY <1>3, <2>3
  <1>5. IsList(t) /\ DOMAIN s \subseteq DOMAIN t /\ \A k \in DOMAIN s : t[k] = s[k]
    <2> DEFINE n == Len(s) + 1
    <2>1. n \in Nat /\ 1..Len(s) \subseteq 1..n
      BY <1>3
    <2>2. DOMAIN t = 1..n /\ t = [k \in 1..n |-> t[k]]
      BY <1>4
    <2>3. DOMAIN s \subseteq DOMAIN t /\ \A k \in DOMAIN s : t[k] = s[k]
      <3> HIDE DEF t, n
      <3> QED
        BY <1>3, <1>4, <2>1, <2>2
    <2> HIDE DEF t, n
    <2>4. IsList(t)
      BY <2>1, <2>2, AList
    <2> QED
      BY <2>3, <2>4
  <1> HIDE DEF b, t
  <1>6. IsAnswer(b)
    BY <1>1, <1>2, <1>5 DEF IsAnswer
  <1>7. /\ Unfilled(a, skills) \subseteq Unfilled(b, skills)
        /\ Heavy(a, skills) \subseteq Heavy(b, skills)
        /\ Light(a, skills) \subseteq Light(b, skills)
    BY <1>1, <1>5 DEF Unfilled, Heavy, Light
  <1>8. /\ Cardinality(Heavy(a, skills)) <= Cardinality(Heavy(b, skills))
        /\ Cardinality(Light(a, skills)) <= Cardinality(Light(b, skills))
    BY <1>6, <1>7, CountsAreNat, FS_Subset
  <1> QED
    BY <1>1, <1>2, <1>6, <1>7, <1>8 DEF b

LEMMA LackingHelpsNot ==
    ASSUME NEW a, IsAnswer(a), NEW lack, NEW r, NEW q, r.job.stretch \in BOOLEAN,
           q.skills = r.skills, q.job = r.job, q.career = r.career, q.places = r.places
    PROVE  LET v == Judge(a, r)
               w == Judge(More(a, lack), q)
           IN  w.apply => v.apply /\ w.score <= v.score
  <1> DEFINE b == More(a, lack)
             v == Judge(a, r)
             w == Judge(b, q)
             h == Cardinality(Heavy(a, r.skills))
             m == Cardinality(Light(a, r.skills))
             g == Cardinality(Heavy(b, r.skills))
             n == Cardinality(Light(b, r.skills))
             s == Clamp(a.score)
  <1>1. /\ IsAnswer(b) /\ b.score = a.score /\ b.apply = a.apply
        /\ b.blocker = a.blocker /\ b.years = a.years /\ b.workplace = a.workplace
        /\ Unfilled(a, r.skills) \subseteq Unfilled(b, r.skills)
        /\ h <= g /\ m <= n
    BY MoreIsMore
  <1>2. h \in Nat /\ m \in Nat /\ g \in Nat /\ n \in Nat
    BY <1>1, CountsAreNat
  <1>3. s \in 0..100
    BY ScoreIsAPercentage DEF IsAnswer
  <1>4. JudgedAs(v, a, r)
    BY JudgeIs
  <1>5. JudgedAs(w, b, q)
    <2>1. q.job.stretch \in BOOLEAN
      OBVIOUS
    <2> HIDE DEF b
    <2> QED
      BY <1>1, <2>1, JudgeIs
  <1> HIDE DEF v, w, b
  <1>6. Refused(b, q) = Refused(a, r)
    BY <1>1 DEF Refused
  <1>7. /\ Dropped(a, r) = (Refused(a, r) \/ Weighs(h, m))
        /\ Dropped(b, q) = (Refused(a, r) \/ Weighs(g, n))
    BY <1>6 DEF Dropped
  <1>8. /\ Kept(a, r) = IF Dropped(a, r) THEN s ELSE Lowered(s, h, m)
        /\ Kept(b, q) = IF Dropped(b, q) THEN s ELSE Lowered(s, g, n)
    BY <1>1 DEF Kept
  <1> HIDE DEF h, m, g, n, s
  <1>9. /\ Weighs(h, m) => Weighs(g, n)
        /\ ~Weighs(g, n) => Lowered(s, g, n) <= Lowered(s, h, m)
    BY <1>1, <1>2, <1>3, MoreMissingLowers
  <1>10. Lowered(s, h, m) \in 0..100 /\ Lowered(s, g, n) \in 0..100
    BY <1>2, <1>3, ScoreIsAPercentage
  <1>11. ASSUME w.apply PROVE v.apply /\ w.score <= v.score
    <2>1. ~Dropped(b, q) /\ a.apply
      BY <1>1, <1>5, <1>11 DEF JudgedAs
    <2>2. ~Dropped(a, r) /\ Kept(a, r) = Lowered(s, h, m) /\ Kept(b, q) = Lowered(s, g, n)
      BY <1>7, <1>8, <1>9, <2>1
    <2>3. Kept(b, q) <= Kept(a, r) /\ Kept(b, q) \in Int /\ Kept(a, r) \in Int
      <3>1. ~Weighs(g, n)
        BY <1>7, <2>1
      <3> QED
        BY <1>9, <1>10, <2>2, <3>1
    <2>4. ~(r.job.stretch /\ (Kept(b, q) < StretchMinScore \/ Unfilled(b, r.skills) # {}))
      BY <1>5, <1>11 DEF JudgedAs
    <2>5. ~(r.job.stretch /\ (Kept(a, r) < StretchMinScore \/ Unfilled(a, r.skills) # {}))
      BY <1>1, <2>3, <2>4 DEF StretchMinScore
    <2> QED
      BY <1>4, <1>5, <2>1, <2>2, <2>3, <2>5 DEF JudgedAs
  <1> QED
    BY <1>11 DEF v, w, b

LEMMA LargestNumber ==
    ASSUME NEW n \in Nat, NEW S \in SUBSET (1..n), S # {}
    PROVE  \E m \in S : \A l \in S : l <= m
  <1> DEFINE T == {m \in Nat : \A l \in S : l <= m}
  <1>1. T \in SUBSET Nat /\ n \in T
    OBVIOUS
  <1>2. PICK m \in T : \A l \in T : m <= l
    <2> HIDE DEF T
    <2> QED
      BY <1>1, LeastNumber
  <1>3. m \in Nat /\ \A l \in S : l <= m
    BY <1>2
  <1>4. ASSUME m \notin S PROVE FALSE
    <2>1. \A l \in S : l <= m - 1
      BY <1>3, <1>4
    <2>2. m - 1 \in Nat
      <3>1. PICK l \in S : TRUE
        OBVIOUS
      <3>2. l \in 1..n /\ l <= m
        BY <1>3
      <3> HIDE DEF T
      <3> QED
        BY <1>3, <3>2
    <2>3. m - 1 \in T
      BY <2>1, <2>2
    <2>4. m <= m - 1
      <3> HIDE DEF T
      <3> QED
        BY <1>2, <2>3
    <2> QED
      BY <1>3, <2>4
  <1> QED
    BY <1>3, <1>4

AnswersAbout(r, i) == {k \in DOMAIN r.answers : r.answers[k].job = i}
LastAbout(r, i) == CHOOSE k \in AnswersAbout(r, i) : \A l \in AnswersAbout(r, i) : l <= k

LEMMA JudgedIs ==
    ASSUME NEW r
    PROVE  /\ DOMAIN Judged(r) = {i \in 1..r.n : AnswersAbout(r, i) # {}}
           /\ \A i \in DOMAIN Judged(r) : Judged(r)[i] = Judge(r.answers[LastAbout(r, i)], r)
  <1> DEFINE verdicts == ParseVerdicts(r.answers, r.n)
             about == {i \in 1..r.n : AnswersAbout(r, i) # {}}
  <1>1. verdicts = [i \in about |-> Verdict(r.answers[LastAbout(r, i)])]
    BY DEF ParseVerdicts, AnswersAbout, LastAbout
  <1>2. Judged(r) = [i \in DOMAIN verdicts |-> ApplyRules(VerifyMissing(verdicts[i], r.skills), r.job, r.career, r.places)]
    BY DEF Judged
  <1> HIDE DEF verdicts, about
  <1>3. DOMAIN Judged(r) = about
    BY <1>1, <1>2
  <1>4. \A i \in about : Judged(r)[i] = Judge(r.answers[LastAbout(r, i)], r)
    BY <1>1, <1>2 DEF Judge, Verified
  <1> QED
    BY <1>3, <1>4 DEF about

LEMMA RepliesAreRead ==
    ASSUME NEW r \in Replies
    PROVE  /\ IsList(r.answers) /\ r.job.stretch \in BOOLEAN
           /\ \A k \in DOMAIN r.answers : IsAnswer(r.answers[k])
           /\ \A i \in DOMAIN Judged(r) : LastAbout(r, i) \in DOMAIN r.answers
  <1>1. IsList(r.answers) /\ r.job.stretch \in BOOLEAN
    BY InputsAssumption
  <1>2. \A k \in DOMAIN r.answers : IsAnswer(r.answers[k])
    <2> TAKE k \in DOMAIN r.answers
    <2>1. r.answers[k] \in Range(r.answers)
      BY DEF Range
    <2> QED
      BY <2>1, InputsAssumption DEF IsAnswer
  <1>3. ASSUME NEW i \in DOMAIN Judged(r) PROVE LastAbout(r, i) \in DOMAIN r.answers
    <2> DEFINE S == AnswersAbout(r, i)
    <2>1. S # {} /\ S \subseteq DOMAIN r.answers
      <3>1. i \in {j \in 1..r.n : AnswersAbout(r, j) # {}}
        BY JudgedIs
      <3> QED
        BY <3>1 DEF AnswersAbout
    <2>2. Len(r.answers) \in Nat /\ DOMAIN r.answers = 1..Len(r.answers)
      BY <1>1, ListFacts
    <2> HIDE DEF S
    <2>3. \E m \in S : \A l \in S : l <= m
      BY <2>1, <2>2, LargestNumber
    <2>4. (CHOOSE k \in S : \A l \in S : l <= k) \in S
      BY <2>3
    <2> QED
      BY <2>1, <2>4 DEF LastAbout, S
  <1> QED
    BY <1>1, <1>2, <1>3

\* What MissingNeverHelps says of a verdict.
Strict(v, r) == /\ v.score \in 0..100
                /\ v.apply /\ r.job.stretch => DOMAIN v.missing = {} /\ v.score >= StretchMinScore
NoBetter(v, w) == w.apply => v.apply /\ w.score <= v.score

LEMMA JudgeIsStrict ==
    ASSUME NEW a, IsAnswer(a), NEW r, r.job.stretch \in BOOLEAN
    PROVE  Strict(Judge(a, r), r)
  <1> DEFINE v == Judge(a, r)
  <1>1. JudgedAs(v, a, r)
    BY JudgeIs
  <1>2. Kept(a, r) \in 0..100
    <2>1. Clamp(a.score) \in 0..100
      BY ScoreIsAPercentage DEF IsAnswer
    <2> QED
      BY <2>1, CountsAreNat, ScoreIsAPercentage DEF Kept
  <1> HIDE DEF v
  <1>3. v.apply /\ r.job.stretch => DOMAIN v.missing = {} /\ ~(v.score < StretchMinScore)
    BY <1>1 DEF JudgedAs
  <1>4. v.score \in 0..100
    BY <1>1, <1>2 DEF JudgedAs
  <1>5. ~(v.score < StretchMinScore) => v.score >= StretchMinScore
    BY <1>4 DEF StretchMinScore
  <1>6. Strict(v, r)
    BY <1>3, <1>4, <1>5 DEF Strict
  <1> QED
    BY <1>6 DEF v

LEMMA LackingFields ==
    ASSUME NEW r, NEW k \in DOMAIN r.answers, NEW lack
    PROVE  LET q == Lacking(r, k, lack)
           IN  /\ q.n = r.n /\ q.skills = r.skills /\ q.job = r.job
               /\ q.career = r.career /\ q.places = r.places
               /\ DOMAIN q.answers = DOMAIN r.answers
               /\ q.answers[k] = More(r.answers[k], lack)
               /\ \A j \in DOMAIN r.answers : j # k => q.answers[j] = r.answers[j]
  <1> DEFINE answers == [j \in DOMAIN r.answers |-> IF j = k THEN More(r.answers[k], lack) ELSE r.answers[j]]
             q == Lacking(r, k, lack)
  <1>1. q = [answers |-> answers, n |-> r.n, skills |-> r.skills,
             job |-> r.job, career |-> r.career, places |-> r.places]
    BY DEF Lacking, More
  <1>2. /\ DOMAIN answers = DOMAIN r.answers /\ answers[k] = More(r.answers[k], lack)
        /\ \A j \in DOMAIN r.answers : j # k => answers[j] = r.answers[j]
    OBVIOUS
  <1> HIDE DEF answers, q
  <1>3. /\ q.n = r.n /\ q.skills = r.skills /\ q.job = r.job
        /\ q.career = r.career /\ q.places = r.places /\ q.answers = answers
    BY <1>1
  <1>4. /\ DOMAIN q.answers = DOMAIN r.answers
        /\ q.answers[k] = More(r.answers[k], lack)
        /\ \A j \in DOMAIN r.answers : j # k => q.answers[j] = r.answers[j]
    BY <1>2, <1>3
  <1> QED
    BY <1>3, <1>4 DEF q

(* The verdicts on a reply are strict, and none of them would be better    *)
(* for the k-th answer naming one more requirement.                        *)
LEMMA VerdictsAreStrict ==
    ASSUME NEW r \in Replies, NEW i \in DOMAIN Judged(r)
    PROVE  /\ Strict(Judged(r)[i], r)
           /\ \A k \in DOMAIN r.answers : \A lack : NoBetter(Judged(r)[i], Judged(Lacking(r, k, lack))[i])
  <1> DEFINE last == LastAbout(r, i)
             a == r.answers[last]
             v == Judged(r)[i]
  <1>1. last \in DOMAIN r.answers /\ IsAnswer(a) /\ r.job.stretch \in BOOLEAN
    BY RepliesAreRead
  <1>2. v = Judge(a, r)
    BY JudgedIs
  <1> HIDE DEF v, a
  <1>3. Strict(v, r)
    BY <1>1, <1>2, JudgeIsStrict
  <1>4. ASSUME NEW k \in DOMAIN r.answers, NEW lack
        PROVE  NoBetter(v, Judged(Lacking(r, k, lack))[i])
    <2> DEFINE q == Lacking(r, k, lack)
               w == Judged(q)[i]
    <2>1. /\ q.n = r.n /\ q.skills = r.skills /\ q.job = r.job
          /\ q.career = r.career /\ q.places = r.places
          /\ DOMAIN q.answers = DOMAIN r.answers
          /\ q.answers[k] = More(r.answers[k], lack)
          /\ \A j \in DOMAIN r.answers : j # k => q.answers[j] = r.answers[j]
      BY LackingFields
    <2> HIDE DEF q
    <2>2. \A j \in DOMAIN r.answers : q.answers[j].job = r.answers[j].job
      <3>1. More(r.answers[k], lack).job = r.answers[k].job
        BY RepliesAreRead, MoreIsMore
      <3> QED
        BY <2>1, <3>1
    <2>3. \A j : AnswersAbout(q, j) = AnswersAbout(r, j)
      BY <2>1, <2>2 DEF AnswersAbout
    <2>4. LastAbout(q, i) = last
      BY <2>3 DEF LastAbout
    <2>5. i \in DOMAIN Judged(q)
      <3>1. i \in 1..r.n /\ AnswersAbout(r, i) # {}
        BY JudgedIs
      <3>2. i \in 1..q.n /\ AnswersAbout(q, i) # {}
        BY <2>1, <2>3, <3>1
      <3> QED
        BY <3>2, JudgedIs
    <2>6. w = Judge(q.answers[last], q)
      BY <2>4, <2>5, JudgedIs
    <2> HIDE DEF w
    <2>7. CASE last = k
      <3>1. q.answers[last] = More(a, lack)
        BY <2>1, <2>7 DEF a
      <3>2. w = Judge(More(a, lack), q)
        BY <2>6, <3>1
      <3>3. NoBetter(Judge(a, r), Judge(More(a, lack), q))
        BY <1>1, <2>1, LackingHelpsNot DEF NoBetter
      <3> QED
        BY <1>2, <3>2, <3>3 DEF w, q
    <2>8. CASE last # k
      <3>1. q.answers[last] = a
        BY <1>1, <2>1, <2>8 DEF a
      <3>2. Judge(a, q) = Judge(a, r)
        BY <2>1 DEF Judge, Verified
      <3>3. w = v
        BY <1>2, <2>6, <3>1, <3>2
      <3>4. NoBetter(v, v)
        BY <1>3 DEF NoBetter, Strict
      <3> QED
        BY <3>3, <3>4 DEF w, q
    <2> QED
      BY <2>7, <2>8
  <1> QED
    BY <1>3, <1>4 DEF v

-----------------------------------------------------------------------------
(* The career. *)

LEMMA CareerCounts ==
    ASSUME NEW exps \in Histories
    PROVE  LET worked == UNION {s.from..(s.to - 1) : s \in Spans(exps, Now)}
           IN  Experience(exps, Now) = IF worked = {} THEN -1 ELSE Cardinality(worked)
  <1> DEFINE E == {x \in exps : x.dated}
             f == [e \in E |-> Span(e, Now)]
             P == Spans(exps, Now)
             worked == UNION {s.from..(s.to - 1) : s \in P}
  <1>1. /\ Now \in Int /\ IsFiniteSet(exps)
        /\ \A e \in exps : e.start \in Int /\ e.stop \in Int
    BY InputsAssumption
  <1>2. IsFiniteSet(E)
    BY <1>1, FS_Subset
  <1>3. IsFiniteSet({f[e] : e \in E})
    <2> DEFINE g == f
    <2>1. DOMAIN g = E
      OBVIOUS
    <2> HIDE DEF E, g
    <2>2. IsFiniteSet({g[e] : e \in E})
      BY <1>2, <2>1, FiniteImage
    <2> QED
      BY <2>2 DEF g
  <1>4. P \subseteq {f[e] : e \in E}
    BY DEF Spans
  <1>5. IsFiniteSet(P)
    BY <1>3, <1>4, FS_Subset
  <1>6. \A e \in E : f[e] \in [from: Int, to: Int]
    BY <1>1 DEF Span
  <1>7. P \in SUBSET [from: Int, to: Int]
    BY <1>4, <1>6
  <1>8. \A p \in P : p.from \in Int /\ p.to \in Int /\ p.from < p.to
    <2>1. \A p \in P : p.to > p.from
      BY DEF Spans
    <2> HIDE DEF P
    <2> QED
      BY <1>7, <2>1
  <1> HIDE DEF P
  <1>9. Merged(P, 0) = Cardinality(worked)
    <2>1. \A p \in P : p.from < p.to + 0
      BY <1>8
    <2> DEFINE c == 0
    <2>2. c \in {0, 1} /\ \A p \in P : p.from < p.to + c
      BY <2>1
    <2> HIDE DEF c
    <2>3. Merged(P, c) = Cardinality(UNION {p.from..(p.to - 1 + c) : p \in P})
      BY <1>5, <1>7, <2>2, MergedCounts
    <2>4. \A p \in P : p.from..(p.to - 1 + c) = p.from..(p.to - 1)
      BY <1>8 DEF c
    <2>5. UNION {p.from..(p.to - 1 + c) : p \in P} = worked
      BY <2>4
    <2> QED
      BY <2>3, <2>5 DEF c
  <1>10. worked = {} <=> P = {}
    <2>1. \A p \in P : p.from \in p.from..(p.to - 1)
      BY <1>8
    <2> QED
      BY <2>1
  <1>11. Experience(exps, Now) = IF P = {} THEN -1 ELSE Merged(P, 0)
    BY DEF Experience, P
  <1>12. Experience(exps, Now) = IF worked = {} THEN -1 ELSE Cardinality(worked)
    <2> HIDE DEF worked
    <2> QED
      BY <1>9, <1>10, <1>11
  <1> QED
    BY <1>12 DEF P

-----------------------------------------------------------------------------
(* The choice. *)

BestOf(c) == Choose(c.cands, c.minScore, c.n)
Acceptable(c) == {i \in DOMAIN c.cands : Approved(c.cands[i], c.minScore)}

LEMMA AheadIsOrder ==
    ASSUME NEW c \in Readings
    PROVE  LET ok == Acceptable(c)
           IN  /\ IsOrder({ij \in ok \X ok : Ahead(c.cands, ij[1], ij[2])}, ok)
               /\ IsFiniteSet(ok)
               /\ \A i \in ok : c.cands[i].verdict.score \in Int
  <1> DEFINE ok == Acceptable(c)
             R == {ij \in ok \X ok : Ahead(c.cands, ij[1], ij[2])}
             mark(i) == c.cands[i].verdict.score
             stack(i) == c.cands[i].coverage
  <1>1. IsList(c.cands) /\ \A x \in Range(c.cands) : x.coverage \in Int /\ x.verdict.score \in Int
    BY InputsAssumption
  <1>2. IsFiniteSet(ok) /\ ok \subseteq Nat
    BY <1>1, FiniteDomain, FS_Subset DEF Acceptable
  <1>3. \A i \in ok : mark(i) \in Int /\ stack(i) \in Int
    <2> TAKE i \in ok
    <2>1. c.cands[i] \in Range(c.cands)
      BY DEF Acceptable, Range
    <2> QED
      BY <1>1, <2>1
  <1>4. \A i, j \in ok : <<i, j>> \in R <=>
            (\/ mark(i) > mark(j)
             \/ mark(i) = mark(j) /\ stack(i) > stack(j)
             \/ mark(i) = mark(j) /\ stack(i) = stack(j) /\ i < j)
    BY DEF Ahead
  <1> HIDE DEF ok, R, mark, stack
  <1>5. \A i \in ok : <<i, i>> \notin R
    BY <1>2, <1>3, <1>4
  <1>6. \A i, j, k \in ok : <<i, j>> \in R /\ <<j, k>> \in R => <<i, k>> \in R
    <2> TAKE i, j, k \in ok
    <2>1. i \in Nat /\ j \in Nat /\ k \in Nat
      BY <1>2
    <2>2. /\ mark(i) \in Int /\ mark(j) \in Int /\ mark(k) \in Int
          /\ stack(i) \in Int /\ stack(j) \in Int /\ stack(k) \in Int
      BY <1>3
    <2> QED
      BY <1>4, <2>1, <2>2
  <1>7. \A i, j \in ok : i # j => <<i, j>> \in R \/ <<j, i>> \in R
    <2> TAKE i, j \in ok
    <2>1. i \in Nat /\ j \in Nat
      BY <1>2
    <2>2. mark(i) \in Int /\ mark(j) \in Int /\ stack(i) \in Int /\ stack(j) \in Int
      BY <1>3
    <2> QED
      BY <1>4, <2>1, <2>2
  <1>8. IsOrder(R, ok)
    BY <1>5, <1>6, <1>7 DEF IsOrder
  <1> QED
    BY <1>2, <1>3, <1>8 DEF ok, R, mark

LEMMA TheBestAreChosen ==
    ASSUME NEW c \in Readings
    PROVE  LET best == BestOf(c)
               ok == Acceptable(c)
           IN  /\ Range(best) \subseteq ok
               /\ Cardinality(Range(best)) = Len(best)
               /\ Len(best) = IF Cardinality(ok) < c.n THEN Cardinality(ok) ELSE c.n
               /\ \A i \in ok \ Range(best), j \in Range(best) :
                     c.cands[i].verdict.score <= c.cands[j].verdict.score
  <1> DEFINE ok == Acceptable(c)
             R == {ij \in ok \X ok : Ahead(c.cands, ij[1], ij[2])}
             o == InOrder(ok, R)
             size == Cardinality(ok)
             m == IF size < c.n THEN size ELSE c.n
             best == BestOf(c)
  <1>1. IsOrder(R, ok) /\ IsFiniteSet(ok) /\ \A i \in ok : c.cands[i].verdict.score \in Int
    BY AheadIsOrder
  <1>2. best = Cap(o, c.n)
    BY DEF BestOf, Choose, Acceptable
  <1>3. \A i, j \in ok : <<i, j>> \in R => \/ c.cands[i].verdict.score > c.cands[j].verdict.score
                                          \/ c.cands[i].verdict.score = c.cands[j].verdict.score
    BY DEF Ahead
  <1> HIDE DEF ok, R
  <1>4. /\ size \in Nat /\ o \in [1..size -> ok]
        /\ \A i \in ok : \E k \in 1..size : o[k] = i
        /\ \A j, k \in 1..size : j < k <=> <<o[j], o[k]>> \in R
        /\ \A j, k \in 1..size : o[j] = o[k] => j = k
    BY <1>1, InOrderSorts
  <1>5. c.n \in Nat
    BY InputsAssumption
  <1> HIDE DEF o, size, best
  <1>6. m \in Nat /\ 1..m \subseteq 1..size /\ {k \in 1..size : k <= c.n} = 1..m
    BY <1>4, <1>5
  <1>7. best = [k \in 1..m |-> o[k]]
    <2>1. DOMAIN o = 1..size
      BY <1>4
    <2> QED
      BY <1>2, <1>6, <2>1 DEF Cap
  <1> HIDE DEF m
  <1>8. best = [k \in 1..m |-> best[k]] /\ \A k \in 1..m : best[k] = o[k]
    BY <1>7
  <1>9. Len(best) = m /\ DOMAIN best = 1..m
    BY <1>6, <1>8, AList
  <1>10. Range(best) \subseteq ok
    BY <1>4, <1>6, <1>8, <1>9 DEF Range
  <1>11. Cardinality(Range(best)) = m
    <2>1. best \in [1..m -> Range(best)] /\ \A i \in Range(best) : \E k \in 1..m : best[k] = i
      BY <1>8, <1>9 DEF Range
    <2>2. \A j, k \in 1..m : best[j] = best[k] => j = k
      BY <1>4, <1>6, <1>8
    <2>3. best \in Bijection(1..m, Range(best))
      BY <2>1, <2>2, Fun_IsBij
    <2>4. IsFiniteSet(1..m) /\ Cardinality(1..m) = m
      BY <1>6, FS_Interval
    <2>5. ExistsBijection(1..m, Range(best))
      BY <2>3 DEF ExistsBijection
    <2> QED
      BY <2>4, <2>5, FS_Bijection
  <1>12. ASSUME NEW i \in ok \ Range(best), NEW j \in Range(best)
         PROVE  c.cands[i].verdict.score <= c.cands[j].verdict.score
    <2>1. PICK k \in 1..size : o[k] = i
      BY <1>4
    <2>2. PICK l \in 1..m : o[l] = j
      BY <1>8, <1>9 DEF Range
    <2>3. k \notin 1..m
      <3>1. ASSUME k \in 1..m PROVE FALSE
        <4>1. best[k] = i /\ k \in DOMAIN best
          BY <1>8, <1>9, <2>1, <3>1
        <4> QED
          BY <4>1 DEF Range
      <3> QED
        BY <3>1
    <2>4. l \in 1..size /\ l < k
      BY <1>4, <1>6, <2>3
    <2>5. <<j, i>> \in R /\ i \in ok /\ j \in ok
      BY <1>4, <1>10, <2>1, <2>2, <2>4
    <2> QED
      BY <1>1, <1>3, <2>5
  <1>13. Len(best) = IF size < c.n THEN size ELSE c.n
    BY <1>9 DEF m
  <1> QED
    BY <1>9, <1>10, <1>11, <1>12, <1>13 DEF ok, size, best

-----------------------------------------------------------------------------
(* The candidates. *)

\* What the walk has seen before the k-th job of the list.
Walk(p, before) ==
    \A k \in 1..(Len(p.jobs) + 1) :
        before[k] = IF k = 1 THEN {}
                    ELSE IF Takes(p, k - 1, before[k - 1]) THEN before[k - 1] \cup {k - 1}
                    ELSE before[k - 1]

LEMMA SeenWalks ==
    ASSUME NEW p, IsList(p.jobs)
    PROVE  \E before : Walk(p, before) /\ Seen(p) = before[Len(p.jobs) + 1]
  <1> DEFINE n == Len(p.jobs) + 1
             A == SUBSET Nat
             next(k, seen) == IF Takes(p, k - 1, seen) THEN seen \cup {k - 1} ELSE seen
             F == [x \in (1..n) \X A |-> next(x[1], x[2])]
             Loop(h) == [k \in 1..n |-> IF k = 1 THEN {} ELSE next(k, h[k - 1])]
             before == CHOOSE h : h = Loop(h)
  <1>1. n \in Nat
    BY ListFacts
  <1>2. \A k \in 1..n, seen \in A : next(k, seen) \in A
    <2> TAKE k \in 1..n, seen \in A
    <2>1. k - 1 \in Nat
      BY <1>1
    <2> QED
      BY <2>1
  <1> HIDE DEF n
  <1>3. F \in [(1..n) \X A -> A] /\ \A k \in 1..n, seen \in A : F[<<k, seen>>] = next(k, seen)
    <2> HIDE DEF next, A
    <2> QED
      BY <1>2
  <1>4. PICK g : Recursive(g, n, A, {}, F)
    <2>1. {} \in A /\ F \in StepsOver(n, A)
      BY <1>3 DEF StepsOver
    <2> HIDE DEF F, A
    <2> QED
      BY <1>1, <2>1, RecursionExists
  <1>5. \A k \in 1..n : g[k] = IF k = 1 THEN {} ELSE next(k, g[k - 1])
    <2> TAKE k \in 1..n
    <2>1. k # 1 => g[k - 1] \in A
      <3>1. k # 1 => k - 1 \in 1..n
        BY <1>1
      <3> QED
        BY <1>4, <3>1 DEF Recursive
    <2>2. k # 1 => F[<<k, g[k - 1]>>] = next(k, g[k - 1])
      BY <1>3, <2>1
    <2> HIDE DEF F, next
    <2> QED
      BY <1>4, <2>2 DEF Recursive
  <1>6. g = Loop(g)
    <2>1. g \in [1..n -> A]
      BY <1>4 DEF Recursive
    <2> HIDE DEF next, A
    <2> QED
      BY <1>5, <2>1
  <1>7. before = Loop(before)
    <2> HIDE DEF Loop
    <2> QED
      BY <1>6
  <1>8. Seen(p) = before[n]
    BY DEF Seen, n
  <1>9. Walk(p, before)
    <2> HIDE DEF before
    <2>1. \A k \in 1..n : before[k] = Loop(before)[k]
      BY <1>7
    <2>2. \A k \in 1..n : before[k] = IF k = 1 THEN {} ELSE next(k, before[k - 1])
      <3> HIDE DEF next
      <3> QED
        BY <2>1
    <2> QED
      BY <2>2 DEF Walk, n
  <1> HIDE DEF before
  <1> QED
    BY <1>8, <1>9 DEF n

Before(p, k) == {l \in 1..(k - 1) : Eligible(p.jobs[l], p)}

\* Why a job that may be read is not seen.
Passed(p, k) == \/ \E l \in Before(p, k) : SameJob(p.jobs[l], p.jobs[k])
                \/ Cardinality(Before(p, k)) >= p.limit

LEMMA SameJobIsSymmetric ==
    /\ \A a : SameJob(a, a)
    /\ \A a, b : SameJob(a, b) => SameJob(b, a)
BY DEF SameJob

LEMMA BeforeIsFinite ==
    ASSUME NEW p, NEW k \in Nat
    PROVE  IsFiniteSet(Before(p, k)) /\ Cardinality(Before(p, k)) \in Nat
  <1>1. IsFiniteSet(1..(k - 1))
    BY FS_Interval
  <1> QED
    BY <1>1, FS_Subset, FS_CardinalityType DEF Before

WellSeen(p, seen, k) ==
    /\ seen \subseteq Before(p, k)
    /\ \A l, m \in seen : l # m => ~SameJob(p.jobs[l], p.jobs[m])
    /\ \A l \in Before(p, k) \ seen : Passed(p, l)

LEMMA WalkIsWellSeen ==
    ASSUME NEW p, IsList(p.jobs), p.limit \in Nat, NEW before, Walk(p, before),
           NEW k \in 1..(Len(p.jobs) + 1), k = 1 \/ WellSeen(p, before[k - 1], k - 1)
    PROVE  WellSeen(p, before[k], k)
  <1>1. Len(p.jobs) \in Nat
    BY ListFacts
  <1>2. CASE k = 1
    <2>1. before[k] = {}
      BY <1>2 DEF Walk
    <2>2. Before(p, k) = {}
      BY <1>2 DEF Before
    <2> QED
      BY <2>1, <2>2 DEF WellSeen
  <1>3. CASE k # 1
    <2> DEFINE i == k - 1
               old == before[i]
               new == before[k]
    <2>1. i \in Nat \ {0} /\ k = i + 1
      BY <1>1, <1>3
    <2>2. new = IF Takes(p, i, old) THEN old \cup {i} ELSE old
      BY <1>3 DEF Walk
    <2>3. WellSeen(p, old, i)
      BY <1>3
    <2> HIDE DEF i, old, new
    <2>4. /\ Before(p, k) = IF Eligible(p.jobs[i], p) THEN Before(p, i) \cup {i} ELSE Before(p, i)
          /\ i \notin Before(p, i)
      BY <2>1 DEF Before
    <2>5. CASE Takes(p, i, old)
      <3>1. Eligible(p.jobs[i], p) /\ \A l \in old : ~SameJob(p.jobs[l], p.jobs[i])
        BY <2>5 DEF Takes
      <3>2. \A l \in old : ~SameJob(p.jobs[i], p.jobs[l])
        BY <3>1, SameJobIsSymmetric
      <3>3. new = old \cup {i} /\ Before(p, k) = Before(p, i) \cup {i}
        BY <2>2, <2>4, <2>5, <3>1
      <3>4. WellSeen(p, new, k)
        BY <2>3, <3>1, <3>2, <3>3 DEF WellSeen
      <3> QED
        BY <3>4 DEF new
    <2>6. CASE ~Takes(p, i, old)
      <3>1. ASSUME Eligible(p.jobs[i], p) PROVE Passed(p, i)
        <4>1. CASE \E l \in old : SameJob(p.jobs[l], p.jobs[i])
          BY <2>3, <4>1 DEF WellSeen, Passed
        <4>2. CASE ~Goes(p, old)
          <5> DEFINE S == At(p, 0, old)
          <5>1. S \subseteq Before(p, i)
            BY <2>3 DEF WellSeen, At
          <5>2. IsFiniteSet(Before(p, i)) /\ Cardinality(Before(p, i)) \in Nat
            BY <2>1, BeforeIsFinite
          <5>3. Cardinality(S) <= Cardinality(Before(p, i)) /\ Cardinality(S) \in Nat
            BY <5>1, <5>2, FS_Subset, FS_CardinalityType
          <5>4. ~(Cardinality(S) < 2 * p.limit)
            BY <4>2 DEF Goes
          <5> HIDE DEF S
          <5>5. Cardinality(Before(p, i)) >= p.limit
            BY <5>2, <5>3, <5>4
          <5> QED
            BY <5>5 DEF Passed
        <4> QED
          BY <2>6, <3>1, <4>1, <4>2 DEF Takes
      <3>2. new = old
        BY <2>2, <2>6
      <3>3. WellSeen(p, new, k)
        BY <2>3, <2>4, <3>1, <3>2 DEF WellSeen
      <3> QED
        BY <3>3 DEF new
    <2> QED
      BY <2>5, <2>6
  <1> QED
    BY <1>2, <1>3

LEMMA SeenIsWellSeen ==
    ASSUME NEW p, IsList(p.jobs), p.limit \in Nat
    PROVE  WellSeen(p, Seen(p), Len(p.jobs) + 1)
  <1> DEFINE n == Len(p.jobs) + 1
  <1>1. n \in Nat \ {0}
    BY ListFacts
  <1>2. PICK before : Walk(p, before) /\ Seen(p) = before[n]
    BY SeenWalks
  <1> DEFINE T == {k \in 1..n : ~WellSeen(p, before[k], k)}
  <1>3. T = {}
    <2> SUFFICES ASSUME T # {} PROVE FALSE
      OBVIOUS
    <2>1. PICK k \in T : \A j \in T : k <= j
      <3>1. T \in SUBSET Nat
        OBVIOUS
      <3> HIDE DEF T
      <3> QED
        BY <3>1, LeastNumber
    <2>2. k \in 1..n
      OBVIOUS
    <2>3. k = 1 \/ WellSeen(p, before[k - 1], k - 1)
      <3> HIDE DEF n
      <3>1. k # 1 => k - 1 \in 1..n /\ ~(k <= k - 1)
        BY <1>1, <2>2
      <3> QED
        BY <2>1, <3>1
    <2>4. WellSeen(p, before[k], k)
      BY <1>2, <2>2, <2>3, WalkIsWellSeen
    <2> QED
      BY <2>4
  <1>4. n \in 1..n
    BY <1>1
  <1> HIDE DEF n
  <1>5. WellSeen(p, before[n], n)
    BY <1>3, <1>4
  <1> QED
    BY <1>2, <1>5 DEF n

(* The list all shows the jobs of p at the places from: each at the level  *)
(* it is shown with, the ones at the person's level first and in order.    *)
Shows(all, from, p, seen) ==
    /\ IsList(all)
    /\ \A i \in DOMAIN all :
         /\ from[i] \in seen /\ all[i].job = p.jobs[from[i]] /\ all[i].stretch \in BOOLEAN
         /\ Level(p.jobs[from[i]], p) = IF all[i].stretch THEN 1 ELSE 0
    /\ \A i, j \in DOMAIN all : i < j =>
         from[i] # from[j] /\ (all[i].stretch => all[j].stretch) /\ (~all[j].stretch => from[i] < from[j])

LEMMA EntryFields ==
    ASSUME NEW job, NEW stretch \in BOOLEAN
    PROVE  LET e == [job |-> job, stretch |-> stretch] IN e.job = job /\ e.stretch = stretch
  OBVIOUS

LEMMA GatherShows ==
    ASSUME NEW p, IsList(p.jobs), p.limit \in Nat, Seen(p) \subseteq DOMAIN p.jobs
    PROVE  \E from : /\ Shows(Gather(p), from, p, Seen(p))
                     /\ \A k \in At(p, 0, Seen(p)) :
                          \E i \in DOMAIN Gather(p) : from[i] = k /\ ~Gather(p)[i].stretch
  <1> DEFINE seen == Seen(p)
             H == At(p, 0, seen)
             M == At(p, 1, seen)
             x == Cardinality(H)
             hereAt == InOrder(H, Upwards(H))
             here == Picked(p.jobs, H)
             nearAt == InOrder(M, Upwards(M))
             next == Picked(p.jobs, M)
             near == Cap(next, 2 * p.limit - Len(here))
             y == Len(near)
             s == [i \in DOMAIN here |-> [job |-> here[i], stretch |-> FALSE]]
             t == [i \in DOMAIN near |-> [job |-> near[i], stretch |-> TRUE]]
             all == Gather(p)
             from == [i \in 1..(x + y) |-> IF i <= x THEN hereAt[i] ELSE nearAt[i - x]]
  <1>1. /\ H \subseteq seen /\ M \subseteq seen
        /\ \A k \in H : Level(p.jobs[k], p) = 0
        /\ \A k \in M : Level(p.jobs[k], p) = 1
    BY DEF At
  <1>2. all = s \o t
    BY DEF Gather
  <1> HIDE DEF seen, H, M, all
  <1>3. H \in SUBSET DOMAIN p.jobs /\ M \in SUBSET DOMAIN p.jobs
    BY <1>1 DEF seen
  <1>4. H \in SUBSET Nat /\ IsFiniteSet(H) /\ M \in SUBSET Nat /\ IsFiniteSet(M)
    BY <1>3, FiniteDomain, FS_Subset
  <1>5. /\ x \in Nat /\ DOMAIN here = 1..x /\ hereAt \in [1..x -> H]
        /\ \A k \in 1..x : here[k] = p.jobs[hereAt[k]]
        /\ \A i \in H : \E k \in 1..x : hereAt[k] = i
        /\ \A j, k \in 1..x : j < k <=> hereAt[j] < hereAt[k]
    BY <1>4, PickedInOrder
  <1>6. /\ DOMAIN next = 1..Cardinality(M) /\ nearAt \in [1..Cardinality(M) -> M]
        /\ \A k \in DOMAIN next : next[k] = p.jobs[nearAt[k]]
        /\ \A j, k \in DOMAIN next : j < k <=> nearAt[j] < nearAt[k]
    BY <1>4, PickedInOrder
  <1>7. IsList(here) /\ IsList(next)
    BY <1>3, PickedIsList
  <1> HIDE DEF hereAt, here, nearAt, next, x
  <1>8. Len(here) = x /\ Len(here) \in Nat
    <2>1. Len(here) \in Nat /\ DOMAIN here = 1..Len(here)
      BY <1>7, ListFacts
    <2> QED
      BY <1>5, <2>1
  <1>9. /\ IsList(near) /\ DOMAIN near \subseteq DOMAIN next
        /\ \A k \in DOMAIN near : near[k] = next[k]
    <2> DEFINE room == 2 * p.limit - Len(here)
    <2>1. room \in Int
      BY <1>8
    <2> HIDE DEF room
    <2>2. /\ IsList(Cap(next, room)) /\ DOMAIN Cap(next, room) \subseteq DOMAIN next
          /\ \A k \in DOMAIN Cap(next, room) : Cap(next, room)[k] = next[k]
      BY <1>7, <2>1, CapIsList
    <2> QED
      BY <2>2 DEF room
  <1> HIDE DEF near
  <1>10. y \in Nat /\ DOMAIN near = 1..y
    BY <1>9, ListFacts
  <1> HIDE DEF y
  <1>11. IsList(s) /\ Len(s) = x /\ \A i \in 1..x : s[i] = [job |-> here[i], stretch |-> FALSE]
    <2>1. s = [i \in 1..x |-> s[i]] /\ \A i \in 1..x : s[i] = [job |-> here[i], stretch |-> FALSE]
      BY <1>5
    <2> HIDE DEF s
    <2> QED
      BY <1>5, <2>1, AList
  <1>12. IsList(t) /\ Len(t) = y /\ \A i \in 1..y : t[i] = [job |-> near[i], stretch |-> TRUE]
    <2>1. t = [i \in 1..y |-> t[i]] /\ \A i \in 1..y : t[i] = [job |-> near[i], stretch |-> TRUE]
      BY <1>10
    <2> HIDE DEF t
    <2> QED
      BY <1>10, <2>1, AList
  <1> HIDE DEF s, t
  <1>13. /\ IsList(all) /\ DOMAIN all = 1..(x + y)
         /\ \A i \in 1..(x + y) : all[i] = IF i <= x THEN s[i] ELSE t[i - x]
    BY <1>2, <1>11, <1>12, ListsJoined
  <1>14. ASSUME NEW i \in 1..x
         PROVE  /\ i \in DOMAIN all /\ from[i] = hereAt[i] /\ from[i] \in H
                /\ all[i].job = p.jobs[from[i]] /\ all[i].stretch = FALSE
    <2>1. i \in 1..(x + y) /\ i <= x
      BY <1>5, <1>10
    <2>2. from[i] = hereAt[i]
      BY <2>1
    <2> HIDE DEF from
    <2>3. all[i] = [job |-> here[i], stretch |-> FALSE]
      BY <1>11, <1>13, <2>1
    <2>4. all[i].job = here[i] /\ all[i].stretch = FALSE
      BY <2>3, EntryFields
    <2>5. hereAt[i] \in H /\ here[i] = p.jobs[hereAt[i]]
      BY <1>5
    <2> QED
      BY <1>13, <2>1, <2>2, <2>4, <2>5
  <1>15. ASSUME NEW i \in 1..(x + y), ~(i <= x)
         PROVE  /\ i - x \in DOMAIN next /\ from[i] = nearAt[i - x] /\ from[i] \in M
                /\ all[i].job = p.jobs[from[i]] /\ all[i].stretch = TRUE
    <2>1. i - x \in 1..y
      BY <1>5, <1>10, <1>15
    <2>2. from[i] = nearAt[i - x]
      BY <1>15
    <2> HIDE DEF from
    <2>3. all[i] = [job |-> near[i - x], stretch |-> TRUE]
      BY <1>12, <1>13, <1>15, <2>1
    <2>4. all[i].job = near[i - x] /\ all[i].stretch = TRUE
      BY <2>3, EntryFields
    <2>5. i - x \in DOMAIN next /\ near[i - x] = next[i - x]
      BY <1>9, <1>10, <2>1
    <2>6. nearAt[i - x] \in M /\ next[i - x] = p.jobs[nearAt[i - x]]
      BY <1>6, <2>5
    <2> QED
      BY <2>2, <2>4, <2>5, <2>6
  <1> HIDE DEF from
  <1>16. ASSUME NEW i \in DOMAIN all
         PROVE  /\ from[i] \in seen /\ all[i].job = p.jobs[from[i]] /\ all[i].stretch \in BOOLEAN
                /\ Level(p.jobs[from[i]], p) = IF all[i].stretch THEN 1 ELSE 0
    <2>1. CASE i <= x
      <3>1. i \in 1..x
        BY <1>5, <1>13, <2>1
      <3> QED
        BY <1>1, <1>14, <3>1
    <2>2. CASE ~(i <= x)
      <3>1. i \in 1..(x + y)
        BY <1>13
      <3> QED
        BY <1>1, <1>15, <2>2, <3>1
    <2> QED
      BY <2>1, <2>2
  <1>17. ASSUME NEW i \in DOMAIN all, NEW j \in DOMAIN all, i < j
         PROVE  /\ from[i] # from[j] /\ (all[i].stretch => all[j].stretch)
                /\ (~all[j].stretch => from[i] < from[j])
    <2>0. i \in 1..(x + y) /\ j \in 1..(x + y) /\ x \in Nat
      BY <1>5, <1>13
    <2>1. CASE j <= x
      <3>1. i \in 1..x /\ j \in 1..x
        BY <1>17, <2>0, <2>1
      <3>2. hereAt[i] < hereAt[j] /\ hereAt[i] \in Nat /\ hereAt[j] \in Nat
        BY <1>4, <1>5, <1>17, <3>1
      <3>3. from[i] = hereAt[i] /\ from[j] = hereAt[j] /\ all[i].stretch = FALSE
        BY <1>14, <3>1
      <3> QED
        BY <3>2, <3>3
    <2>2. CASE ~(j <= x) /\ i <= x
      <3>1. i \in 1..x
        BY <2>0, <2>2
      <3>2. from[i] \in H /\ from[j] \in M /\ all[i].stretch = FALSE /\ all[j].stretch = TRUE
        BY <1>14, <1>15, <2>0, <2>2, <3>1
      <3>3. from[i] # from[j]
        BY <1>1, <3>2
      <3> QED
        BY <3>2, <3>3
    <2>3. CASE ~(j <= x) /\ ~(i <= x)
      <3>1. /\ i - x \in DOMAIN next /\ j - x \in DOMAIN next
            /\ from[i] = nearAt[i - x] /\ from[j] = nearAt[j - x] /\ all[j].stretch = TRUE
        BY <1>15, <2>0, <2>3
      <3>2. i - x < j - x
        BY <1>17, <2>0
      <3>3. nearAt[i - x] < nearAt[j - x] /\ nearAt[i - x] \in Nat /\ nearAt[j - x] \in Nat
        BY <1>4, <1>6, <3>1, <3>2
      <3> QED
        BY <3>1, <3>3
    <2> QED
      BY <2>1, <2>2, <2>3
  <1>18. Shows(all, from, p, seen)
    BY <1>13, <1>16, <1>17 DEF Shows
  <1>19. \A k \in H : \E i \in DOMAIN all : from[i] = k /\ ~all[i].stretch
    <2> TAKE k \in H
    <2>1. PICK i \in 1..x : hereAt[i] = k
      BY <1>5
    <2>2. i \in DOMAIN all /\ from[i] = k /\ all[i].stretch = FALSE
      BY <1>14, <2>1
    <2> QED
      BY <2>2
  <1>20. \E g : Shows(all, g, p, seen) /\ \A k \in H : \E i \in DOMAIN all : g[i] = k /\ ~all[i].stretch
    BY <1>18, <1>19
  <1> QED
    BY <1>20 DEF all, H, seen

\* What PageIsWellRead says of the list read from the page p.
WellRead(p, list) ==
    /\ Len(list) <= p.limit
    /\ \A a, b \in DOMAIN list :
          a < b => ~SameJob(list[a].job, list[b].job) /\ (list[a].stretch => list[b].stretch)
    /\ \A a \in DOMAIN list :
          /\ Eligible(list[a].job, p) /\ ~list[a].job.affirmativeText
          /\ Level(list[a].job, p) = IF list[a].stretch THEN 1 ELSE 0
    /\ \A k \in DOMAIN p.jobs :
          Eligible(p.jobs[k], p) /\ ~p.jobs[k].affirmativeText /\ Level(p.jobs[k], p) = 0 =>
            \/ \E a \in DOMAIN list : SameJob(list[a].job, p.jobs[k])
            \/ Passed(p, k)

(* As many different places as there is room, all before the k-th.         *)
LEMMA RoomIsUsed ==
    ASSUME NEW p, p.limit \in Nat, NEW k \in Nat,
           NEW f \in [1..p.limit -> Before(p, k)], \A a, b \in 1..p.limit : a < b => f[a] < f[b]
    PROVE  Passed(p, k)
  <1> DEFINE n == p.limit
             image == {f[a] : a \in 1..n}
  <1>1. \A a, b \in 1..n : f[a] = f[b] => a = b
    <2> TAKE a, b \in 1..n
    <2>1. f[a] \in Before(p, k) /\ f[b] \in Before(p, k)
      OBVIOUS
    <2>2. f[a] \in Nat /\ f[b] \in Nat
      BY <2>1 DEF Before
    <2>3. a \in Nat /\ b \in Nat
      OBVIOUS
    <2> QED
      BY <2>2, <2>3
  <1>2. f \in Bijection(1..n, image)
    <2>1. f \in [1..n -> image] /\ \A y \in image : \E a \in 1..n : f[a] = y
      OBVIOUS
    <2> QED
      BY <1>1, <2>1, Fun_IsBij
  <1>3. ExistsBijection(1..n, image)
    BY <1>2 DEF ExistsBijection
  <1>4. IsFiniteSet(1..n) /\ Cardinality(1..n) = n
    BY FS_Interval
  <1>5. Cardinality(image) = n
    BY <1>3, <1>4, FS_Bijection
  <1>6. IsFiniteSet(Before(p, k)) /\ Cardinality(Before(p, k)) \in Nat
    BY BeforeIsFinite
  <1>7. image \subseteq Before(p, k)
    OBVIOUS
  <1> HIDE DEF image
  <1>8. Cardinality(image) <= Cardinality(Before(p, k))
    BY <1>6, <1>7, FS_Subset
  <1> QED
    BY <1>5, <1>6, <1>8 DEF Passed

LEMMA PagesAreWellRead ==
    ASSUME NEW p \in Rankings
    PROVE  WellRead(p, Candidates(p))
  <1> DEFINE seen == Seen(p)
             all == Gather(p)
             K == {i \in DOMAIN all : ~all[i].job.affirmativeText}
             x == Cardinality(K)
             place == InOrder(K, Upwards(K))
             those == Picked(all, K)
             n == p.limit
             list == Candidates(p)
  <1>1. IsList(p.jobs) /\ n \in Nat
    BY InputsAssumption
  <1>2. Len(p.jobs) \in Nat /\ DOMAIN p.jobs = 1..Len(p.jobs)
    BY <1>1, ListFacts
  <1>3. WellSeen(p, seen, Len(p.jobs) + 1)
    BY <1>1, SeenIsWellSeen
  <1>4. /\ seen \subseteq DOMAIN p.jobs
        /\ \A k \in seen : Eligible(p.jobs[k], p)
        /\ \A l, m \in seen : l # m => ~SameJob(p.jobs[l], p.jobs[m])
        /\ \A k \in DOMAIN p.jobs : Eligible(p.jobs[k], p) /\ k \notin seen => Passed(p, k)
    <2>1. \A k : k \in Before(p, Len(p.jobs) + 1) <=> k \in DOMAIN p.jobs /\ Eligible(p.jobs[k], p)
      BY <1>2 DEF Before
    <2> HIDE DEF seen
    <2> QED
      BY <1>3, <2>1 DEF WellSeen
  <1>5. PICK from : /\ Shows(all, from, p, seen)
                    /\ \A k \in At(p, 0, seen) : \E i \in DOMAIN all : from[i] = k /\ ~all[i].stretch
    BY <1>1, <1>4, GatherShows
  <1>6. list = Cap(those, n)
    <2> DEFINE keep == [i \in DOMAIN all |-> ~all[i].job.affirmativeText]
    <2>1. list = Cap(Picked(all, {i \in DOMAIN all : keep[i]}), n)
      BY DEF Candidates, ThoseWith
    <2>2. {i \in DOMAIN all : keep[i]} = K
      OBVIOUS
    <2> HIDE DEF keep, K
    <2> QED
      BY <2>1, <2>2
  <1>7. K \subseteq DOMAIN all /\ \A i \in K : ~all[i].job.affirmativeText
    OBVIOUS
  <1>8. \A i \in DOMAIN all : ~all[i].job.affirmativeText => i \in K
    OBVIOUS
  <1> HIDE DEF seen, all, K, list
  <1>9. IsList(all) /\ K \in SUBSET Nat /\ IsFiniteSet(K)
    BY <1>5, <1>7, FiniteDomain, FS_Subset DEF Shows
  <1>10. /\ x \in Nat /\ DOMAIN those = 1..x /\ place \in [1..x -> K]
         /\ \A a \in 1..x : those[a] = all[place[a]]
         /\ \A i \in K : \E a \in 1..x : place[a] = i
         /\ \A a, b \in 1..x : a < b <=> place[a] < place[b]
    BY <1>9, PickedInOrder
  <1>11. IsList(those)
    BY <1>7, <1>9, PickedIsList
  <1> HIDE DEF x, place, those
  <1>12. DOMAIN list = {a \in 1..x : a <= n} /\ \A a \in DOMAIN list : list[a] = those[a]
    BY <1>6, <1>10 DEF Cap
  <1>13. IsList(list)
    <2>1. n \in Int
      BY <1>1
    <2> QED
      BY <1>6, <1>11, <2>1, CapIsList
  <1>14. Len(list) <= n
    <2>1. Len(list) \in Nat /\ DOMAIN list = 1..Len(list)
      BY <1>13, ListFacts
    <2>2. \A a \in 1..Len(list) : a <= n
      BY <1>12, <2>1
    <2>3. Len(list) # 0 => Len(list) \in 1..Len(list)
      BY <2>1
    <2> QED
      BY <1>1, <2>1, <2>2, <2>3
  <1>15. ASSUME NEW a \in DOMAIN list
         PROVE  /\ a \in 1..x /\ place[a] \in K /\ list[a] = all[place[a]]
                /\ from[place[a]] \in seen /\ list[a].job = p.jobs[from[place[a]]]
                /\ Level(list[a].job, p) = IF list[a].stretch THEN 1 ELSE 0
    <2>1. a \in 1..x /\ list[a] = all[place[a]] /\ place[a] \in K
      BY <1>10, <1>12
    <2>2. place[a] \in DOMAIN all
      BY <1>7, <2>1
    <2> QED
      BY <1>5, <2>1, <2>2 DEF Shows
  <1>16. \A a, b \in DOMAIN list :
            a < b => ~SameJob(list[a].job, list[b].job) /\ (list[a].stretch => list[b].stretch)
    <2> TAKE a, b \in DOMAIN list
    <2> HAVE a < b
    <2>1. /\ place[a] < place[b] /\ place[a] \in DOMAIN all /\ place[b] \in DOMAIN all
      BY <1>7, <1>10, <1>15
    <2>2. /\ from[place[a]] # from[place[b]]
          /\ all[place[a]].stretch => all[place[b]].stretch
      BY <1>5, <2>1 DEF Shows
    <2> QED
      BY <1>4, <1>15, <2>2
  <1>17. \A a \in DOMAIN list :
            /\ Eligible(list[a].job, p) /\ ~list[a].job.affirmativeText
            /\ Level(list[a].job, p) = IF list[a].stretch THEN 1 ELSE 0
    BY <1>4, <1>7, <1>15
  <1>18. ASSUME NEW k \in DOMAIN p.jobs, Eligible(p.jobs[k], p), ~p.jobs[k].affirmativeText,
                Level(p.jobs[k], p) = 0
         PROVE  \/ \E a \in DOMAIN list : SameJob(list[a].job, p.jobs[k])
                \/ Passed(p, k)
    <2>1. CASE k \notin seen
      BY <1>4, <1>18, <2>1
    <2>2. CASE k \in seen
      <3>1. k \in At(p, 0, seen)
        BY <1>18, <2>2 DEF At
      <3>2. PICK i \in DOMAIN all : from[i] = k /\ ~all[i].stretch
        BY <1>5, <3>1
      <3>3. all[i].job = p.jobs[k]
        BY <1>5, <3>2 DEF Shows
      <3>4. i \in K
        BY <1>8, <1>18, <3>3
      <3>5. PICK b \in 1..x : place[b] = i
        BY <1>10, <3>4
      <3>6. CASE b <= n
        <4>1. b \in DOMAIN list
          BY <1>12, <3>6
        <4>2. list[b].job = p.jobs[k]
          BY <1>15, <3>3, <3>5, <4>1
        <4>3. SameJob(list[b].job, p.jobs[k])
          BY <4>2, SameJobIsSymmetric
        <4> QED
          BY <4>1, <4>3
      <3>7. CASE ~(b <= n)
        <4> DEFINE f == [a \in 1..n |-> from[place[a]]]
        <4>1. \A a \in 1..n : a \in DOMAIN list /\ a \in 1..x /\ a < b
          BY <1>1, <1>10, <1>12, <3>5, <3>7
        <4>2. k \in Nat /\ \A l \in seen : l \in Nat
          BY <1>2, <1>4
        <4>3. ASSUME NEW a \in 1..n, NEW c \in 1..x, a < c, c <= b
              PROVE  /\ place[a] \in DOMAIN all /\ place[c] \in DOMAIN all
                     /\ from[place[a]] < from[place[c]] /\ from[place[a]] \in seen
          <5>1. place[a] \in DOMAIN all /\ place[c] \in DOMAIN all /\ a \in 1..x
            BY <1>7, <1>10, <4>1
          <5>2. place[a] < place[c]
            BY <1>10, <4>3, <5>1
          <5>3. c = b \/ place[c] < i
            <6>1. c < b \/ c = b
              BY <1>10, <4>3
            <6> QED
              BY <1>10, <3>5, <6>1
          <5>4. ~all[place[c]].stretch
            BY <1>5, <3>2, <3>5, <5>1, <5>3 DEF Shows
          <5> QED
            BY <1>5, <5>1, <5>2, <5>4 DEF Shows
        <4>4. \A a \in 1..n : f[a] \in Before(p, k)
          <5> TAKE a \in 1..n
          <5>1. b <= b /\ a < b
            BY <1>10, <4>1
          <5>2. from[place[a]] < k /\ from[place[a]] \in seen
            BY <3>2, <3>5, <4>3, <5>1
          <5>3. from[place[a]] \in 1..(k - 1)
            BY <1>2, <1>4, <4>2, <5>2
          <5> QED
            BY <1>4, <5>2, <5>3 DEF Before
        <4>5. \A a, c \in 1..n : a < c => f[a] < f[c]
          <5> TAKE a, c \in 1..n
          <5> HAVE a < c
          <5>1. c \in 1..x /\ c <= b
            BY <1>1, <1>10, <4>1
          <5> QED
            BY <4>3, <5>1
        <4>6. f \in [1..n -> Before(p, k)]
          BY <4>4
        <4> HIDE DEF f
        <4>7. Passed(p, k)
          BY <1>1, <4>2, <4>5, <4>6, RoomIsUsed
        <4> QED
          BY <4>7
      <3> QED
        BY <3>6, <3>7
    <2> QED
      BY <2>1, <2>2
  <1>19. WellRead(p, list)
    BY <1>14, <1>16, <1>17, <1>18 DEF WellRead
  <1> QED
    BY <1>19 DEF list

-----------------------------------------------------------------------------
(* The decisions. *)

\* What may be asked, and what was decided about it.
Posed ==
    \/ \E e \in Histories : question = [about |-> "career", exps |-> e]
    \/ \E r \in Replies : question = [about |-> "reply", reply |-> r]
    \/ \E p \in Rankings : question = [about |-> "page", page |-> p]
    \/ \E c \in Readings : question = [about |-> "choice", reading |-> c]

RulesInv == Posed /\ DecisionsAreRight

LEMMA RulesInvInit == RulesInit => RulesInv
  <1>1. RulesInit => Posed /\ decision.about = "nothing"
    BY DEF RulesInit, Posed, Undecided
  <1> QED
    BY <1>1 DEF RulesInv, DecisionsAreRight

(* What is asked is from the inputs of its kind.                           *)
LEMMA Asked ==
    ASSUME Posed
    PROVE  /\ question.about = "career" => question.exps \in Histories
           /\ question.about = "reply"  => question.reply \in Replies
           /\ question.about = "page"   => question.page \in Rankings
           /\ question.about = "choice" => question.reading \in Readings
BY DEF Posed

LEMMA CountCareerKeeps ==
    ASSUME RulesInv, CountCareer
    PROVE  DecisionsAreRight'
  <1>1. question' = question /\ question.about = "career"
    BY DEF CountCareer, Asks
  <1>2. question.exps \in Histories
    BY <1>1, Asked DEF RulesInv
  <1>3. decision'.about = "career" /\ decision'.months = Experience(question.exps, Now)
    BY DEF CountCareer
  <1>4. CareerIsWorkedMonths'
    BY <1>1, <1>2, <1>3, CareerCounts DEF CareerIsWorkedMonths
  <1> QED
    BY <1>3, <1>4 DEF DecisionsAreRight

LEMMA JudgeReplyKeeps ==
    ASSUME RulesInv, JudgeReply
    PROVE  DecisionsAreRight'
  <1> DEFINE r == question.reply
  <1>1. question' = question /\ question.about = "reply"
    BY DEF JudgeReply, Asks
  <1>2. r \in Replies
    BY <1>1, Asked DEF RulesInv
  <1>3. decision'.about = "reply" /\ decision'.verdicts = Judged(r)
    BY DEF JudgeReply
  <1> HIDE DEF r
  <1>4. \A i \in DOMAIN Judged(r) :
          /\ Strict(Judged(r)[i], r)
          /\ \A k \in DOMAIN r.answers : \A lack : NoBetter(Judged(r)[i], Judged(Lacking(r, k, lack))[i])
    BY <1>2, VerdictsAreStrict
  <1>5. MissingNeverHelps'
    <2>1. question'.reply = r
      BY <1>1 DEF r
    <2> QED
      BY <1>3, <1>4, <2>1 DEF MissingNeverHelps, Strict, NoBetter
  <1> QED
    BY <1>3, <1>5 DEF DecisionsAreRight

LEMMA GatherCandidatesKeeps ==
    ASSUME RulesInv, GatherCandidates
    PROVE  DecisionsAreRight'
  <1> DEFINE p == question.page
  <1>1. question' = question /\ question.about = "page"
    BY DEF GatherCandidates, Asks
  <1>2. p \in Rankings
    BY <1>1, Asked DEF RulesInv
  <1>3. decision'.about = "page" /\ decision'.jobs = Candidates(p)
    BY DEF GatherCandidates
  <1> HIDE DEF p
  <1>4. WellRead(p, Candidates(p))
    BY <1>2, PagesAreWellRead
  <1>5. PageIsWellRead'
    <2>1. question'.page = p
      BY <1>1 DEF p
    <2> QED
      BY <1>3, <1>4, <2>1 DEF PageIsWellRead, WellRead, Passed, Before
  <1> QED
    BY <1>3, <1>5 DEF DecisionsAreRight

LEMMA ChooseBestKeeps ==
    ASSUME RulesInv, ChooseBest
    PROVE  DecisionsAreRight'
  <1> DEFINE c == question.reading
  <1>1. question' = question /\ question.about = "choice"
    BY DEF ChooseBest, Asks
  <1>2. c \in Readings
    BY <1>1, Asked DEF RulesInv
  <1>3. decision'.about = "choice" /\ decision'.chosen = BestOf(c)
    BY DEF ChooseBest, BestOf
  <1> HIDE DEF c
  <1>4. ChoiceIsFair'
    <2>1. question'.reading = c
      BY <1>1 DEF c
    <2> QED
      BY <1>2, <1>3, <2>1, TheBestAreChosen DEF ChoiceIsFair, Acceptable
  <1> QED
    BY <1>3, <1>4 DEF DecisionsAreRight

LEMMA RulesInvNext == RulesInv /\ [RulesNext]_rulesVars => RulesInv'
  <1> SUFFICES ASSUME RulesInv, [RulesNext]_rulesVars PROVE RulesInv'
    OBVIOUS
  <1>1. CASE UNCHANGED rulesVars
    <2>1. question' = question /\ decision' = decision
      BY <1>1 DEF rulesVars
    <2> QED
      BY <2>1 DEF RulesInv, Posed, DecisionsAreRight, CareerIsWorkedMonths, MissingNeverHelps,
                  PageIsWellRead, ChoiceIsFair
  <1>2. CASE RulesNext
    <2>1. question' = question
      BY <1>2 DEF RulesNext, CountCareer, JudgeReply, GatherCandidates, ChooseBest, Asks
    <2>2. Posed'
      BY <2>1 DEF RulesInv, Posed
    <2>3. DecisionsAreRight'
      BY <1>2, CountCareerKeeps, JudgeReplyKeeps, GatherCandidatesKeeps, ChooseBestKeeps DEF RulesNext
    <2> QED
      BY <2>2, <2>3 DEF RulesInv
  <1> QED
    BY <1>1, <1>2

(* Whatever it is asked, the automatic selection decides as its comments   *)
(* promise (handler/auto_select.go:317, auto_select_ai.go:107-743): months *)
(* of work count once, one more missing requirement never helps a job, no  *)
(* vacancy is read twice or left out without a reason, and the best of the *)
(* approved ones are chosen.                                               *)
THEOREM DecisionsAreRightHolds == RulesSpec => []DecisionsAreRight
  <1>1. RulesInv => DecisionsAreRight
    BY DEF RulesInv
  <1> QED
    BY <1>1, RulesInvInit, RulesInvNext, PTL DEF RulesSpec
=============================================================================
