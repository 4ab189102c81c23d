------------------------ MODULE ProfileImportProofs ------------------------
(***************************************************************************)
(* Theorems about the import of a resume: the turns of the imports that    *)
(* are processed (ProfileImport), then what a review does to the profile   *)
(* (ImportReview).                                                         *)
(***************************************************************************)
EXTENDS ProfileImport, ImportReview, OrderingsProofs, TLAPS

\* Every actor stands at one of its places.
AtOK ==
    /\ at \in [Actors -> [Imports -> UNION {Steps[a] : a \in Actors}]]
    /\ \A a \in Actors, i \in Imports : at[a][i] \in Steps[a]

LEMMA FaultsBounded ==
    ASSUME TypeOK, Fault \/ NoFault
    PROVE  faults' \in 0..MaxFaults
BY ImportAssumption DEF TypeOK, Fault, NoFault

\* What Goto does to every actor.
LEMMA GotoMoves ==
    ASSUME TypeOK, NEW a \in Actors, NEW i \in Imports,
           NEW step \in Steps[a], Goto(a, i, step)
    PROVE  /\ \A b \in Actors, j \in Imports :
                at'[b][j] = IF b = a /\ j = i THEN step ELSE at[b][j]
           /\ AtOK'
  <1>1. step \in UNION {Steps[b] : b \in Actors}
    OBVIOUS
  <1>2. \A b \in Actors, j \in Imports :
          at'[b][j] = IF b = a /\ j = i THEN step ELSE at[b][j]
    BY DEF Goto, TypeOK
  <1>3. at' \in [Actors -> [Imports -> UNION {Steps[b] : b \in Actors}]]
    BY <1>1 DEF Goto, TypeOK
  <1> QED
    BY <1>2, <1>3 DEF TypeOK, AtOK

\* Where an actor goes after a release is one of its places.
LEMMA AfterReleaseIsAStep ==
    ASSUME NEW a \in Actors, NEW i \in Imports
    PROVE  AfterRelease(a, i) \in Steps[a]
BY DEF AfterRelease, Steps, Actors

LEMMA PlacesOf ==
    /\ \A s \in {"new", "count", "window", "put", "record", "reading", "finish",
                 "owner", "drop", "log", "over"} : s \in Steps["run"]
    /\ \A s \in {"new", "delete", "owner", "drop", "stop", "mark", "over"} :
         s \in Steps["cancel"]
    /\ \A s \in {"new", "orphan", "owner", "drop"} : s \in Steps["poll"]
    /\ {"run", "cancel", "poll"} = Actors
    /\ \A a \in Actors : "drop" \in Steps[a]
BY DEF Steps, Actors

\* What a restart does to every actor.
LEMMA RestartMoves ==
    ASSUME TypeOK, Restart
    PROVE  /\ \A b \in Actors, j \in Imports :
                at'[b][j] = IF at[b][j] = "new" \/ b = "poll" THEN "new" ELSE "over"
           /\ AtOK'
  <1>1. \A b \in Actors, j \in Imports :
          at'[b][j] = IF at[b][j] = "new" \/ b = "poll" THEN "new" ELSE "over"
    BY DEF Restart
  <1>2. \A b \in Actors, j \in Imports : at'[b][j] \in Steps[b]
    BY <1>1 DEF Steps, Actors
  <1>3. \A b \in Actors, j \in Imports : at'[b][j] \in UNION {Steps[c] : c \in Actors}
    BY <1>2
  <1>4. at' = [b \in Actors |-> [j \in Imports |-> at'[b][j]]]
    BY DEF Restart
  <1> QED
    BY <1>1, <1>2, <1>3, <1>4 DEF AtOK

\* The actions, one by one.
LEMMA Steppings ==
    ASSUME [Next]_vars
    PROVE  \/ \E i \in Imports :
                \/ TakeTurn(i) \/ CountUpload(i) \/ OpenWindow(i) \/ PutState(i)
                \/ RecordStart(i) \/ UpdateState(i) \/ ReadEnds(i) \/ FinishState(i)
                \/ RecordResult(i) \/ AskCancel(i) \/ DeleteState(i) \/ StopReading(i)
                \/ MarkCanceled(i) \/ FindOrphan(i) \/ FailOrphan(i) \/ DropDraft(i)
                \/ GrowStale(i) \/ StateExpires(i)
           \/ \E a \in Actors, i \in Imports : Release(a, i)
           \/ LockExpires \/ QuotaExpires \/ Restart
           \/ UNCHANGED vars
<1>1. \A i \in Imports : RunStep(i) =>
        \/ CountUpload(i) \/ OpenWindow(i) \/ PutState(i) \/ RecordStart(i)
        \/ ReadEnds(i) \/ FinishState(i) \/ Release("run", i) \/ RecordResult(i)
  BY DEF RunStep
<1>2. \A i \in Imports : CancelStep(i) =>
        \/ DeleteState(i) \/ Release("cancel", i) \/ StopReading(i) \/ MarkCanceled(i)
  BY DEF CancelStep
<1>3. \A i \in Imports : PollStep(i) =>
        FindOrphan(i) \/ FailOrphan(i) \/ Release("poll", i)
  BY DEF PollStep
<1>4. "run" \in Actors /\ "cancel" \in Actors /\ "poll" \in Actors
  BY DEF Actors
<1> QED
  BY <1>1, <1>2, <1>3, <1>4 DEF Next

-----------------------------------------------------------------------------
(* Type correctness.  That a state is written with the result of a reading *)
(* and nothing else needs to know what outcome holds where.                *)

Before == {"new", "count", "window", "put", "record"}

OutcomeKnown ==
    \A i \in Imports :
        /\ at["run"][i] \in Before => outcome[i] = "none"
        /\ at["run"][i] = "reading" => outcome[i] = "reading"
        /\ at["run"][i] \in {"owner", "drop"} => outcome[i] \in Result \cup {"none"}
        /\ at["run"][i] \in {"finish", "log"} => outcome[i] \in Result

LEMMA TypeInit == Init => TypeOK
<1> SUFFICES ASSUME Init PROVE TypeOK
  OBVIOUS
<1>1. \A a \in Actors, i \in Imports : at[a][i] = "new" /\ "new" \in Steps[a]
  BY DEF Init, Steps, Actors
<1>2. at \in [Actors -> [Imports -> UNION {Steps[a] : a \in Actors}]]
  BY <1>1 DEF Init
<1>3. faults \in 0..MaxFaults
  BY ImportAssumption DEF Init
<1> QED
  BY <1>1, <1>2, <1>3 DEF Init, TypeOK

\* The values a release does not touch.
LEMMA TypeRelease ==
    ASSUME TypeOK, NEW a \in Actors, NEW i \in Imports, Release(a, i)
    PROVE  TypeOK'
  <1>1. AfterRelease(a, i) \in Steps[a] /\ "drop" \in Steps[a]
    BY AfterReleaseIsAStep, PlacesOf
  <1>2. CASE ReadLock(a, i)
    <2>1. \E step \in Steps[a] : Goto(a, i, step)
      BY <1>1, <1>2 DEF ReadLock
    <2>2. AtOK'
      BY <2>1, GotoMoves
    <2> QED
      BY <1>2, <2>2, FaultsBounded
      DEF AtOK, ReadLock, TypeOK, importVars, quotaVars
  <1>3. CASE DropLock(a, i)
    <2>1. Goto(a, i, AfterRelease(a, i))
      BY <1>3 DEF DropLock
    <2>2. AtOK'
      BY <1>1, <2>1, GotoMoves
    <2> QED
      BY <1>3, <2>2, FaultsBounded
      DEF AtOK, DropLock, TypeOK, importVars, quotaVars
  <1> QED
    BY <1>2, <1>3 DEF Release

LEMMA TypeStep == TypeOK /\ OutcomeKnown /\ [Next]_vars => TypeOK'
<1> SUFFICES ASSUME TypeOK, OutcomeKnown, [Next]_vars PROVE TypeOK'
  OBVIOUS
<1> USE ImportAssumption
<1> USE DEF importVars, quotaVars
<1>1. ASSUME NEW i \in Imports, TakeTurn(i) PROVE TypeOK'
  <2>1. \E step \in Steps["run"] : Goto("run", i, step)
    BY <1>1, PlacesOf DEF TakeTurn
  <2>2. AtOK'
    BY <2>1, GotoMoves, PlacesOf
  <2>3. faults' \in 0..MaxFaults
    BY <1>1, FaultsBounded DEF TakeTurn, NoFault
  <2> QED
    BY <1>1, <2>2, <2>3 DEF AtOK, TakeTurn, TypeOK
<1>2. ASSUME NEW i \in Imports, CountUpload(i) PROVE TypeOK'
  <2>1. \E step \in Steps["run"] : Goto("run", i, step)
    BY <1>2, PlacesOf DEF CountUpload
  <2>2. AtOK'
    BY <2>1, GotoMoves, PlacesOf
  <2>3. faults' \in 0..MaxFaults
    BY <1>2, FaultsBounded DEF CountUpload
  <2>4. lasting' \in BOOLEAN
    BY <1>2, Zenon DEF CountUpload, TypeOK
  <2>5. quota' \in Nat
    BY <1>2 DEF CountUpload, TypeOK
  <2> QED
    BY <1>2, <2>2, <2>3, <2>4, <2>5 DEF AtOK, CountUpload, TypeOK
<1>3. ASSUME NEW i \in Imports, OpenWindow(i) PROVE TypeOK'
  <2>1. \E step \in Steps["run"] : Goto("run", i, step)
    BY <1>3, PlacesOf DEF OpenWindow
  <2>2. AtOK'
    BY <2>1, GotoMoves, PlacesOf
  <2>3. faults' \in 0..MaxFaults
    BY <1>3, FaultsBounded DEF OpenWindow
  <2> QED
    BY <1>3, <2>2, <2>3 DEF AtOK, OpenWindow, TypeOK
<1>4. ASSUME NEW i \in Imports, PutState(i) PROVE TypeOK'
  <2>1. \E step \in Steps["run"] : Goto("run", i, step)
    BY <1>4, PlacesOf DEF PutState
  <2>2. AtOK'
    BY <2>1, GotoMoves, PlacesOf
  <2>3. faults' \in 0..MaxFaults
    BY <1>4, FaultsBounded DEF PutState
  <2> QED
    BY <1>4, <2>2, <2>3 DEF AtOK, PutState, TypeOK
<1>5. ASSUME NEW i \in Imports, RecordStart(i) PROVE TypeOK'
  <2>1. \E step \in Steps["run"] : Goto("run", i, step)
    BY <1>5, PlacesOf DEF RecordStart
  <2>2. AtOK'
    BY <2>1, GotoMoves, PlacesOf
  <2>3. faults' \in 0..MaxFaults
    BY <1>5, FaultsBounded DEF RecordStart
  <2> QED
    BY <1>5, <2>2, <2>3 DEF AtOK, RecordStart, TypeOK
<1>6. ASSUME NEW i \in Imports, UpdateState(i) PROVE TypeOK'
  BY <1>6 DEF UpdateState, TypeOK, SetIfExists
<1>7. ASSUME NEW i \in Imports, ReadEnds(i) PROVE TypeOK'
  <2>1. \E step \in Steps["run"] : Goto("run", i, step)
    BY <1>7, PlacesOf DEF ReadEnds
  <2>2. AtOK'
    BY <2>1, GotoMoves, PlacesOf
  <2> QED
    BY <1>7, <2>2 DEF AtOK, ReadEnds, TypeOK, Result
<1>8. ASSUME NEW i \in Imports, FinishState(i) PROVE TypeOK'
  <2>1. \E step \in Steps["run"] : Goto("run", i, step)
    BY <1>8, PlacesOf DEF FinishState
  <2>2. AtOK'
    BY <2>1, GotoMoves, PlacesOf
  <2>3. faults' \in 0..MaxFaults
    BY <1>8, FaultsBounded DEF FinishState
  <2> QED
    BY <1>8, <2>2, <2>3 DEF OutcomeKnown, AtOK, FinishState, TypeOK, SetIfExists, Result
<1>9. ASSUME NEW i \in Imports, RecordResult(i) PROVE TypeOK'
  <2>1. \E step \in Steps["run"] : Goto("run", i, step)
    BY <1>9, PlacesOf DEF RecordResult
  <2>2. AtOK'
    BY <2>1, GotoMoves, PlacesOf
  <2>3. faults' \in 0..MaxFaults
    BY <1>9, FaultsBounded DEF RecordResult
  <2> QED
    BY <1>9, <2>2, <2>3 DEF OutcomeKnown, AtOK, RecordResult, TypeOK, Result
<1>10. ASSUME NEW i \in Imports, AskCancel(i) PROVE TypeOK'
  <2>1. \E step \in Steps["cancel"] : Goto("cancel", i, step)
    BY <1>10, PlacesOf DEF AskCancel
  <2>2. AtOK'
    BY <2>1, GotoMoves, PlacesOf
  <2> QED
    BY <1>10, <2>2 DEF AtOK, AskCancel, TypeOK
<1>11. ASSUME NEW i \in Imports, DeleteState(i) PROVE TypeOK'
  <2>1. \E step \in Steps["cancel"] : Goto("cancel", i, step)
    BY <1>11, PlacesOf DEF DeleteState
  <2>2. AtOK'
    BY <2>1, GotoMoves, PlacesOf
  <2>3. faults' \in 0..MaxFaults
    BY <1>11, FaultsBounded DEF DeleteState
  <2> QED
    BY <1>11, <2>2, <2>3 DEF AtOK, DeleteState, TypeOK
<1>12. ASSUME NEW i \in Imports, StopReading(i) PROVE TypeOK'
  <2>1. \E step \in Steps["cancel"] : Goto("cancel", i, step)
    BY <1>12, PlacesOf DEF StopReading
  <2>2. AtOK'
    BY <2>1, GotoMoves, PlacesOf
  <2> QED
    BY <1>12, <2>2 DEF AtOK, StopReading, TypeOK
<1>13. ASSUME NEW i \in Imports, MarkCanceled(i) PROVE TypeOK'
  <2>1. \E step \in Steps["cancel"] : Goto("cancel", i, step)
    BY <1>13, PlacesOf DEF MarkCanceled
  <2>2. AtOK'
    BY <2>1, GotoMoves, PlacesOf
  <2>3. faults' \in 0..MaxFaults
    BY <1>13, FaultsBounded DEF MarkCanceled
  <2> QED
    BY <1>13, <2>2, <2>3 DEF AtOK, MarkCanceled, TypeOK, Result
<1>14. ASSUME NEW i \in Imports, FindOrphan(i) PROVE TypeOK'
  <2>1. \E step \in Steps["poll"] : Goto("poll", i, step)
    BY <1>14, PlacesOf DEF FindOrphan
  <2>2. AtOK'
    BY <2>1, GotoMoves, PlacesOf
  <2> QED
    BY <1>14, <2>2 DEF AtOK, FindOrphan, TypeOK
<1>15. ASSUME NEW i \in Imports, FailOrphan(i) PROVE TypeOK'
  <2>1. \E step \in Steps["poll"] : Goto("poll", i, step)
    BY <1>15, PlacesOf DEF FailOrphan
  <2>2. AtOK'
    BY <2>1, GotoMoves, PlacesOf
  <2>3. faults' \in 0..MaxFaults
    BY <1>15, FaultsBounded DEF FailOrphan
  <2> QED
    BY <1>15, <2>2, <2>3 DEF AtOK, FailOrphan, TypeOK, SetIfExists, Result
<1>16. ASSUME NEW i \in Imports, DropDraft(i) PROVE TypeOK'
  BY <1>16 DEF DropDraft, TypeOK, Result
<1>17. ASSUME NEW i \in Imports, GrowStale(i) PROVE TypeOK'
  BY <1>17 DEF GrowStale, TypeOK
<1>18. ASSUME NEW i \in Imports, StateExpires(i) PROVE TypeOK'
  BY <1>18 DEF StateExpires, TypeOK
<1>19. ASSUME LockExpires PROVE TypeOK'
  BY <1>19 DEF LockExpires, TypeOK
<1>20. ASSUME QuotaExpires PROVE TypeOK'
  BY <1>20 DEF QuotaExpires, TypeOK
<1>21. ASSUME Restart PROVE TypeOK'
  BY <1>21, RestartMoves, FaultsBounded DEF AtOK, Restart, TypeOK
<1>22. CASE UNCHANGED vars
  BY <1>22 DEF vars, TypeOK
<1> QED
  BY <1>1, <1>2, <1>3, <1>4, <1>5, <1>6, <1>7, <1>8, <1>9, <1>10, <1>11, <1>12,
     <1>13, <1>14, <1>15, <1>16, <1>17, <1>18, <1>19, <1>20, <1>21, <1>22,
     TypeRelease, Steppings

\* What an upload's own step does to outcome, and that nothing else touches it.
LEMMA OutcomeStep == TypeOK /\ OutcomeKnown /\ [Next]_vars => OutcomeKnown'
<1> SUFFICES ASSUME TypeOK, OutcomeKnown, [Next]_vars PROVE OutcomeKnown'
  OBVIOUS
<1> USE DEF importVars, quotaVars
<1>1. ASSUME NEW i \in Imports, TakeTurn(i) PROVE OutcomeKnown'
  <2>1. \E step \in Steps["run"] : Goto("run", i, step)
    BY <1>1, PlacesOf DEF TakeTurn
  <2>2. \A j \in Imports : j # i => at'["run"][j] = at["run"][j]
    BY <2>1, GotoMoves, PlacesOf
  <2>3. \A j \in Imports : j # i => outcome'[j] = outcome[j]
    BY <1>1 DEF TakeTurn, TypeOK
  <2> QED
    BY <1>1, <2>2, <2>3 DEF TakeTurn, Goto, OutcomeKnown, Before, TypeOK, Actors
<1>2. ASSUME NEW i \in Imports, CountUpload(i) PROVE OutcomeKnown'
  <2>1. \E step \in Steps["run"] : Goto("run", i, step)
    BY <1>2, PlacesOf DEF CountUpload
  <2>2. \A j \in Imports : j # i => at'["run"][j] = at["run"][j]
    BY <2>1, GotoMoves, PlacesOf
  <2>3. \A j \in Imports : j # i => outcome'[j] = outcome[j]
    BY <1>2 DEF CountUpload, TypeOK
  <2> QED
    BY <1>2, <2>2, <2>3 DEF CountUpload, Goto, OutcomeKnown, Before, TypeOK, Actors
<1>3. ASSUME NEW i \in Imports, OpenWindow(i) PROVE OutcomeKnown'
  <2>1. \E step \in Steps["run"] : Goto("run", i, step)
    BY <1>3, PlacesOf DEF OpenWindow
  <2>2. \A j \in Imports : j # i => at'["run"][j] = at["run"][j]
    BY <2>1, GotoMoves, PlacesOf
  <2>3. \A j \in Imports : j # i => outcome'[j] = outcome[j]
    BY <1>3 DEF OpenWindow, TypeOK
  <2>4. /\ at["run"][i] = "window"
        /\ Goto("run", i, "put") \/ Goto("run", i, "owner")
        /\ UNCHANGED outcome
    BY <1>3, Zenon DEF OpenWindow
  <2> QED
    BY <2>2, <2>3, <2>4 DEF Goto, OutcomeKnown, Before, TypeOK, Actors
<1>4. ASSUME NEW i \in Imports, PutState(i) PROVE OutcomeKnown'
  <2>1. \E step \in Steps["run"] : Goto("run", i, step)
    BY <1>4, PlacesOf DEF PutState
  <2>2. \A j \in Imports : j # i => at'["run"][j] = at["run"][j]
    BY <2>1, GotoMoves, PlacesOf
  <2>3. \A j \in Imports : j # i => outcome'[j] = outcome[j]
    BY <1>4 DEF PutState, TypeOK
  <2> QED
    BY <1>4, <2>2, <2>3 DEF PutState, Goto, OutcomeKnown, Before, TypeOK, Actors
<1>5. ASSUME NEW i \in Imports, RecordStart(i) PROVE OutcomeKnown'
  <2>1. \E step \in Steps["run"] : Goto("run", i, step)
    BY <1>5, PlacesOf DEF RecordStart
  <2>2. \A j \in Imports : j # i => at'["run"][j] = at["run"][j]
    BY <2>1, GotoMoves, PlacesOf
  <2>3. \A j \in Imports : j # i => outcome'[j] = outcome[j]
    BY <1>5 DEF RecordStart, TypeOK
  <2> QED
    BY <1>5, <2>2, <2>3 DEF RecordStart, Goto, OutcomeKnown, Before, TypeOK, Actors
<1>6. ASSUME NEW i \in Imports, ReadEnds(i) PROVE OutcomeKnown'
  <2>1. \E step \in Steps["run"] : Goto("run", i, step)
    BY <1>6, PlacesOf DEF ReadEnds
  <2>2. \A j \in Imports : j # i => at'["run"][j] = at["run"][j]
    BY <2>1, GotoMoves, PlacesOf
  <2>3. \A j \in Imports : j # i => outcome'[j] = outcome[j]
    BY <1>6 DEF ReadEnds, TypeOK
  <2> QED
    BY <1>6, <2>2, <2>3 DEF ReadEnds, Goto, OutcomeKnown, Before, TypeOK, Actors
<1>7. ASSUME NEW i \in Imports, FinishState(i) PROVE OutcomeKnown'
  <2>1. \E step \in Steps["run"] : Goto("run", i, step)
    BY <1>7, PlacesOf DEF FinishState
  <2>2. \A j \in Imports : j # i => at'["run"][j] = at["run"][j]
    BY <2>1, GotoMoves, PlacesOf
  <2>3. \A j \in Imports : j # i => outcome'[j] = outcome[j]
    BY <1>7 DEF FinishState, TypeOK
  <2> QED
    BY <1>7, <2>2, <2>3 DEF FinishState, Goto, OutcomeKnown, Before, TypeOK, Actors
<1>8. ASSUME NEW i \in Imports, RecordResult(i) PROVE OutcomeKnown'
  <2>1. \E step \in Steps["run"] : Goto("run", i, step)
    BY <1>8, PlacesOf DEF RecordResult
  <2>2. \A j \in Imports : j # i => at'["run"][j] = at["run"][j]
    BY <2>1, GotoMoves, PlacesOf
  <2>3. \A j \in Imports : j # i => outcome'[j] = outcome[j]
    BY <1>8 DEF RecordResult, TypeOK
  <2> QED
    BY <1>8, <2>2, <2>3 DEF RecordResult, Goto, OutcomeKnown, Before, TypeOK, Actors
<1>9. ASSUME NEW a \in Actors, NEW i \in Imports, Release(a, i) PROVE OutcomeKnown'
  <2>1. UNCHANGED outcome
    BY <1>9 DEF Release, ReadLock, DropLock
  <2>2. PICK step \in {"drop", AfterRelease(a, i)} : Goto(a, i, step)
    BY <1>9 DEF Release, ReadLock, DropLock
  <2>3. at[a][i] \in {"owner", "drop"}
    BY <1>9 DEF Release, ReadLock, DropLock
  <2>4. step \in Steps[a]
    BY <2>2, PlacesOf, AfterReleaseIsAStep
  <2>5. \A j \in Imports : at'["run"][j] = IF a = "run" /\ i = j THEN step ELSE at["run"][j]
    BY <2>2, <2>4, GotoMoves, PlacesOf
  <2>6. a = "run" => step \in {"drop", IF outcome[i] = "none" THEN "over" ELSE "log"}
    BY <2>2 DEF AfterRelease
  <2> QED
    BY <2>1, <2>3, <2>5, <2>6 DEF OutcomeKnown, Before
<1>10. ASSUME NEW i \in Imports, AskCancel(i) PROVE OutcomeKnown'
  <2>1. \E step \in Steps["cancel"] : Goto("cancel", i, step)
    BY <1>10, PlacesOf DEF AskCancel
  <2>2. \A j \in Imports : at'["run"][j] = at["run"][j]
    BY <2>1, GotoMoves, PlacesOf
  <2> QED
    BY <1>10, <2>2 DEF AskCancel, OutcomeKnown
<1>11. ASSUME NEW i \in Imports, DeleteState(i) PROVE OutcomeKnown'
  <2>1. \E step \in Steps["cancel"] : Goto("cancel", i, step)
    BY <1>11, PlacesOf DEF DeleteState
  <2>2. \A j \in Imports : at'["run"][j] = at["run"][j]
    BY <2>1, GotoMoves, PlacesOf
  <2> QED
    BY <1>11, <2>2 DEF DeleteState, OutcomeKnown
<1>12. ASSUME NEW i \in Imports, StopReading(i) PROVE OutcomeKnown'
  <2>1. \E step \in Steps["cancel"] : Goto("cancel", i, step)
    BY <1>12, PlacesOf DEF StopReading
  <2>2. \A j \in Imports : at'["run"][j] = at["run"][j]
    BY <2>1, GotoMoves, PlacesOf
  <2> QED
    BY <1>12, <2>2 DEF StopReading, OutcomeKnown
<1>13. ASSUME NEW i \in Imports, MarkCanceled(i) PROVE OutcomeKnown'
  <2>1. \E step \in Steps["cancel"] : Goto("cancel", i, step)
    BY <1>13, PlacesOf DEF MarkCanceled
  <2>2. \A j \in Imports : at'["run"][j] = at["run"][j]
    BY <2>1, GotoMoves, PlacesOf
  <2> QED
    BY <1>13, <2>2 DEF MarkCanceled, OutcomeKnown
<1>14. ASSUME NEW i \in Imports, FindOrphan(i) PROVE OutcomeKnown'
  <2>1. \E step \in Steps["poll"] : Goto("poll", i, step)
    BY <1>14, PlacesOf DEF FindOrphan
  <2>2. \A j \in Imports : at'["run"][j] = at["run"][j]
    BY <2>1, GotoMoves, PlacesOf
  <2> QED
    BY <1>14, <2>2 DEF FindOrphan, OutcomeKnown
<1>15. ASSUME NEW i \in Imports, FailOrphan(i) PROVE OutcomeKnown'
  <2>1. \E step \in Steps["poll"] : Goto("poll", i, step)
    BY <1>15, PlacesOf DEF FailOrphan
  <2>2. \A j \in Imports : at'["run"][j] = at["run"][j]
    BY <2>1, GotoMoves, PlacesOf
  <2> QED
    BY <1>15, <2>2 DEF FailOrphan, OutcomeKnown
<1>16. ASSUME NEW i \in Imports, UpdateState(i) PROVE OutcomeKnown'
  BY <1>16 DEF UpdateState, OutcomeKnown
<1>17. ASSUME NEW i \in Imports, DropDraft(i) PROVE OutcomeKnown'
  BY <1>17 DEF DropDraft, OutcomeKnown
<1>18. ASSUME NEW i \in Imports, GrowStale(i) PROVE OutcomeKnown'
  BY <1>18 DEF GrowStale, OutcomeKnown
<1>19. ASSUME NEW i \in Imports, StateExpires(i) PROVE OutcomeKnown'
  BY <1>19 DEF StateExpires, OutcomeKnown
<1>20. ASSUME LockExpires PROVE OutcomeKnown'
  BY <1>20 DEF LockExpires, OutcomeKnown
<1>21. ASSUME QuotaExpires PROVE OutcomeKnown'
  BY <1>21 DEF QuotaExpires, OutcomeKnown
<1>22. ASSUME Restart PROVE OutcomeKnown'
  <2>1. \A j \in Imports : at'["run"][j] = IF at["run"][j] = "new" THEN "new" ELSE "over"
    BY <1>22, RestartMoves, PlacesOf
  <2> QED
    BY <1>22, <2>1 DEF Restart, OutcomeKnown, Before
<1>23. CASE UNCHANGED vars
  BY <1>23 DEF vars, OutcomeKnown
<1> QED
  BY <1>1, <1>2, <1>3, <1>4, <1>5, <1>6, <1>7, <1>8, <1>9, <1>10,
     <1>11, <1>12, <1>13, <1>14, <1>15, <1>16, <1>17, <1>18, <1>19, <1>20,
     <1>21, <1>22, <1>23, Steppings

LEMMA OutcomeInit == Init => OutcomeKnown
BY DEF Init, OutcomeKnown, Before, Actors

\* Every variable of an import keeps its type: the keys in Redis hold what the
\* code writes there, and each actor stands at one of its own calls.
THEOREM TypeCorrect == Spec => []TypeOK
<1> QED
  BY TypeInit, TypeStep, OutcomeInit, OutcomeStep, PTL DEF Spec

-----------------------------------------------------------------------------
(* Cancellation *)

RunAct(i) ==
    \/ TakeTurn(i) \/ CountUpload(i) \/ OpenWindow(i) \/ PutState(i) \/ RecordStart(i)
    \/ ReadEnds(i) \/ FinishState(i) \/ RecordResult(i)
CancelAct(i) == AskCancel(i) \/ DeleteState(i) \/ StopReading(i) \/ MarkCanceled(i)
PollAct(i) == FindOrphan(i) \/ FailOrphan(i)

\* A step of one actor leaves the others where they are.
LEMMA OthersStay ==
    ASSUME TypeOK, NEW i \in Imports, NEW a \in Actors,
           \/ a = "run" /\ RunAct(i)
           \/ a = "cancel" /\ CancelAct(i)
           \/ a = "poll" /\ PollAct(i)
           \/ Release(a, i)
    PROVE  \A b \in Actors, j \in Imports : b # a \/ j # i => at'[b][j] = at[b][j]
  <1>1. CASE a = "run" /\ RunAct(i)
    <2>1. PICK step \in Steps["run"] : Goto("run", i, step)
      BY <1>1, PlacesOf DEF RunAct, TakeTurn, CountUpload, OpenWindow, PutState, RecordStart,
         ReadEnds, FinishState, RecordResult
    <2>2. \A b \in Actors, j \in Imports :
            at'[b][j] = IF b = "run" /\ j = i THEN step ELSE at[b][j]
      BY <2>1, GotoMoves, PlacesOf
    <2> QED
      BY <1>1, <2>2
  <1>2. CASE a = "cancel" /\ CancelAct(i)
    <2>1. PICK step \in Steps["cancel"] : Goto("cancel", i, step)
      BY <1>2, PlacesOf DEF CancelAct, AskCancel, DeleteState, StopReading, MarkCanceled
    <2>2. \A b \in Actors, j \in Imports :
            at'[b][j] = IF b = "cancel" /\ j = i THEN step ELSE at[b][j]
      BY <2>1, GotoMoves, PlacesOf
    <2> QED
      BY <1>2, <2>2
  <1>3. CASE a = "poll" /\ PollAct(i)
    <2>1. PICK step \in Steps["poll"] : Goto("poll", i, step)
      BY <1>3, PlacesOf DEF PollAct, FindOrphan, FailOrphan
    <2>2. \A b \in Actors, j \in Imports :
            at'[b][j] = IF b = "poll" /\ j = i THEN step ELSE at[b][j]
      BY <2>1, GotoMoves, PlacesOf
    <2> QED
      BY <1>3, <2>2
  <1>4. CASE Release(a, i)
    <2>1. PICK step \in Steps[a] : Goto(a, i, step)
      BY <1>4, PlacesOf, AfterReleaseIsAStep DEF Release, ReadLock, DropLock
    <2>2. \A b \in Actors, j \in Imports :
            at'[b][j] = IF b = a /\ j = i THEN step ELSE at[b][j]
      BY <2>1, GotoMoves
    <2> QED
      BY <2>2
  <1> QED
    BY <1>1, <1>2, <1>3, <1>4

\* Only an import whose id is out can be cancelled, and its state stays deleted.
GoneShape ==
    \A i \in Imports :
        /\ outcome[i] = "none" => at["cancel"][i] = "new" /\ ~gone[i]
        /\ gone[i] => state[i] = "none"

LEMMA GoneInit == Init => GoneShape
BY DEF Init, GoneShape, Actors

LEMMA GoneStep == TypeOK /\ OutcomeKnown /\ GoneShape /\ [Next]_vars => GoneShape'
<1> SUFFICES ASSUME TypeOK, OutcomeKnown, GoneShape, [Next]_vars PROVE GoneShape'
  OBVIOUS
<1> USE DEF importVars, quotaVars
<1>1. ASSUME NEW i \in Imports, RunAct(i) PROVE GoneShape'
  <2>1. \A j \in Imports : at'["cancel"][j] = at["cancel"][j]
    BY <1>1, OthersStay, PlacesOf
  <2>2. UNCHANGED gone
    BY <1>1 DEF RunAct, TakeTurn, CountUpload, OpenWindow, PutState, RecordStart, ReadEnds,
       FinishState, RecordResult
  <2>3. \A j \in Imports : outcome'[j] = "none" => outcome[j] = "none"
    BY <1>1 DEF RunAct, TakeTurn, CountUpload, OpenWindow, PutState, RecordStart, ReadEnds,
       FinishState, RecordResult, TypeOK, Result
  <2>4. \A j \in Imports : gone[j] => state'[j] = state[j]
    <3>1. CASE PutState(i)
      BY <3>1 DEF PutState, OutcomeKnown, GoneShape, Before, TypeOK
    <3>2. CASE FinishState(i)
      BY <3>2 DEF FinishState, SetIfExists, GoneShape, TypeOK
    <3> QED
      BY <1>1, <3>1, <3>2 DEF RunAct, TakeTurn, CountUpload, OpenWindow, RecordStart, ReadEnds,
         RecordResult
  <2> QED
    BY <2>1, <2>2, <2>3, <2>4 DEF GoneShape
<1>2. ASSUME NEW i \in Imports, CancelAct(i) PROVE GoneShape'
  <2>1. \A j \in Imports : j # i => at'["cancel"][j] = at["cancel"][j]
    BY <1>2, OthersStay, PlacesOf
  <2>2. outcome[i] # "none" /\ UNCHANGED outcome
    BY <1>2 DEF CancelAct, AskCancel, DeleteState, StopReading, MarkCanceled, GoneShape
  <2>3. \A j \in Imports : (gone'[j] = gone[j] /\ state'[j] = state[j]) \/ (j = i /\ state'[j] = "none")
    BY <1>2 DEF CancelAct, AskCancel, DeleteState, StopReading, MarkCanceled, TypeOK
  <2> QED
    BY <2>1, <2>2, <2>3 DEF GoneShape
<1>3. ASSUME NEW i \in Imports, PollAct(i) PROVE GoneShape'
  <2>1. \A j \in Imports : at'["cancel"][j] = at["cancel"][j]
    BY <1>3, OthersStay, PlacesOf
  <2>2. \A j \in Imports : gone[j] => state'[j] = state[j]
    BY <1>3 DEF PollAct, FindOrphan, FailOrphan, SetIfExists, GoneShape, TypeOK
  <2>3. UNCHANGED <<outcome, gone>>
    BY <1>3 DEF PollAct, FindOrphan, FailOrphan
  <2> QED
    BY <2>1, <2>2, <2>3 DEF GoneShape
<1>4. ASSUME NEW a \in Actors, NEW i \in Imports, Release(a, i) PROVE GoneShape'
  <2>1. \A j \in Imports : j # i \/ a # "cancel" => at'["cancel"][j] = at["cancel"][j]
    BY <1>4, OthersStay, PlacesOf
  <2>2. a = "cancel" => outcome[i] # "none"
    BY <1>4 DEF Release, ReadLock, DropLock, GoneShape
  <2>3. UNCHANGED <<outcome, gone, state>>
    BY <1>4 DEF Release, ReadLock, DropLock
  <2> QED
    BY <2>1, <2>2, <2>3 DEF GoneShape
<1>5. ASSUME NEW i \in Imports, UpdateState(i) \/ DropDraft(i) \/ GrowStale(i) \/ StateExpires(i)
      PROVE  GoneShape'
  BY <1>5 DEF UpdateState, DropDraft, GrowStale, StateExpires, SetIfExists, GoneShape, TypeOK
<1>6. ASSUME Restart PROVE GoneShape'
  <2>1. \A j \in Imports : at["cancel"][j] = "new" => at'["cancel"][j] = "new"
    BY <1>6, RestartMoves, PlacesOf
  <2> QED
    BY <1>6, <2>1 DEF Restart, GoneShape
<1>7. ASSUME LockExpires \/ QuotaExpires \/ UNCHANGED vars PROVE GoneShape'
  BY <1>7 DEF LockExpires, QuotaExpires, vars, GoneShape
<1> QED
  BY <1>1, <1>2, <1>3, <1>4, <1>5, <1>6, <1>7, Steppings DEF RunAct, CancelAct, PollAct

\* "cancelada = não ressuscita": no reading, poll or restart brings back the
\* state that Store.Cancel deleted, for any number of imports.
THEOREM CancelledStaysGoneHolds == Spec => []CancelledStaysGone
<1>1. GoneShape => CancelledStaysGone
  BY DEF GoneShape, CancelledStaysGone
<1> QED
  BY <1>1, TypeInit, TypeStep, OutcomeInit, OutcomeStep, GoneInit, GoneStep, PTL DEF Spec

\* As long as nothing fails, an import whose id is out has its row, only such an
\* import is cancelled, and the end of a cancellation leaves "canceled", or
\* the "error" that was there before it.
MarkShape ==
    faults = 0 =>
        \A i \in Imports :
            /\ outcome[i] # "none" => history[i] # "none"
            /\ at["cancel"][i] = "over" => history[i] \in {"canceled", "error"}

LEMMA MarkInit == Init => MarkShape
BY DEF Init, MarkShape, Actors

\* The steps that touch neither the rows nor the end of a cancellation.
LEMMA MarkQuiet ==
    ASSUME MarkShape, faults' = 0 => faults = 0, UNCHANGED <<history, outcome>>,
           faults' = 0 =>
             \A j \in Imports : at'["cancel"][j] = "over" => at["cancel"][j] = "over"
    PROVE  MarkShape'
BY DEF MarkShape

\* What was without a fault until now stays so only by a step without one.
LEMMA FaultCounts ==
    ASSUME TypeOK, Fault \/ NoFault, faults' = 0
    PROVE  faults = 0 /\ ~Fault
BY ImportAssumption DEF TypeOK, Fault, NoFault

LEMMA MarkStep == TypeOK /\ OutcomeKnown /\ GoneShape /\ MarkShape /\ [Next]_vars => MarkShape'
<1> SUFFICES ASSUME TypeOK, OutcomeKnown, GoneShape, MarkShape, [Next]_vars PROVE MarkShape'
  OBVIOUS
<1> USE DEF importVars, quotaVars
<1>1. ASSUME NEW i \in Imports, RunAct(i) PROVE MarkShape'
  <2>1. \A j \in Imports : at'["cancel"][j] = at["cancel"][j]
    BY <1>1, OthersStay, PlacesOf
  <2>2. CASE RecordStart(i)
    <3>1. SUFFICES ASSUME faults' = 0 PROVE MarkShape'
      BY DEF MarkShape
    <3>2. faults = 0 /\ history' = [history EXCEPT ![i] = "processing"]
      BY <2>2, <3>1, FaultCounts DEF RecordStart, NoFault
    <3>3. at["cancel"][i] = "new"
      BY <2>2 DEF RecordStart, OutcomeKnown, GoneShape, Before
    <3> QED
      BY <2>1, <2>2, <3>2, <3>3 DEF RecordStart, MarkShape, TypeOK
  <2>3. CASE ReadEnds(i)
    <3>1. outcome[i] # "none" /\ \A j \in Imports : j # i => outcome'[j] = outcome[j]
      BY <2>3 DEF ReadEnds, OutcomeKnown, TypeOK
    <3> QED
      BY <2>1, <2>3, <3>1 DEF ReadEnds, MarkShape
  <2>4. CASE RecordResult(i)
    <3>1. faults' = 0 => faults = 0
      BY <2>4, FaultCounts DEF RecordResult
    <3>2. \A j \in Imports :
            \/ history'[j] = history[j]
            \/ history[j] = "processing" /\ history'[j] \in Result
      BY <2>4 DEF RecordResult, OutcomeKnown, TypeOK
    <3> QED
      BY <2>1, <2>4, <3>1, <3>2 DEF RecordResult, MarkShape, Result
  <2>5. CASE TakeTurn(i) \/ CountUpload(i) \/ OpenWindow(i) \/ PutState(i) \/ FinishState(i)
    <3>1. UNCHANGED <<history, outcome>> /\ (Fault \/ NoFault)
      BY <2>5 DEF TakeTurn, CountUpload, OpenWindow, PutState, FinishState, NoFault
    <3> QED
      BY <2>1, <3>1, FaultCounts, MarkQuiet
  <2> QED
    BY <1>1, <2>2, <2>3, <2>4, <2>5 DEF RunAct
<1>2. ASSUME NEW i \in Imports, CancelAct(i) PROVE MarkShape'
  <2>1. \A j \in Imports : j # i => at'["cancel"][j] = at["cancel"][j]
    BY <1>2, OthersStay, PlacesOf
  <2>2. CASE MarkCanceled(i)
    <3>1. SUFFICES ASSUME faults' = 0 PROVE MarkShape'
      BY DEF MarkShape
    <3>2. /\ faults = 0
          /\ history' = IF history[i] \in {"processing", "done"}
                        THEN [history EXCEPT ![i] = "canceled"] ELSE history
      BY <2>2, <3>1, FaultCounts DEF MarkCanceled, NoFault
    <3>3. history[i] # "none" /\ outcome[i] # "none"
      BY <2>2, <3>2 DEF MarkCanceled, GoneShape, MarkShape
    <3>4. history'[i] \in {"canceled", "error"}
      BY <3>2, <3>3 DEF TypeOK, Result
    <3>5. \A j \in Imports : j # i => history'[j] = history[j]
      BY <3>2 DEF TypeOK
    <3> QED
      BY <2>1, <2>2, <3>2, <3>4, <3>5 DEF MarkCanceled, MarkShape
  <2>3. CASE AskCancel(i) \/ DeleteState(i) \/ StopReading(i)
    <3>1. UNCHANGED <<history, outcome>> /\ (Fault \/ NoFault)
      BY <2>3 DEF AskCancel, DeleteState, StopReading, NoFault
    <3>2. at'["cancel"][i] # "over"
      BY <2>3, GotoMoves, PlacesOf DEF AskCancel, DeleteState, StopReading
    <3> QED
      BY <2>1, <3>1, <3>2, FaultCounts, MarkQuiet
  <2> QED
    BY <1>2, <2>2, <2>3 DEF CancelAct
<1>3. ASSUME NEW i \in Imports, PollAct(i) PROVE MarkShape'
  <2>1. \A j \in Imports : at'["cancel"][j] = at["cancel"][j]
    BY <1>3, OthersStay, PlacesOf
  <2>2. UNCHANGED <<history, outcome>> /\ (Fault \/ NoFault)
    BY <1>3 DEF PollAct, FindOrphan, FailOrphan, NoFault
  <2> QED
    BY <2>1, <2>2, FaultCounts, MarkQuiet
<1>4. ASSUME NEW a \in Actors, NEW i \in Imports, Release(a, i) PROVE MarkShape'
  <2>1. \A j \in Imports : j # i \/ a # "cancel" => at'["cancel"][j] = at["cancel"][j]
    BY <1>4, OthersStay, PlacesOf
  <2>2. UNCHANGED <<history, outcome>> /\ (Fault \/ NoFault)
    BY <1>4 DEF Release, ReadLock, DropLock, NoFault
  <2>3. a = "cancel" => at'["cancel"][i] \in {"drop", "stop"}
    BY <1>4, GotoMoves, PlacesOf DEF Release, ReadLock, DropLock, AfterRelease
  <2> QED
    BY <2>1, <2>2, <2>3, FaultCounts, MarkQuiet
<1>5. ASSUME NEW i \in Imports, UpdateState(i) \/ DropDraft(i) \/ GrowStale(i) \/ StateExpires(i)
      PROVE  MarkShape'
  BY <1>5, MarkQuiet DEF UpdateState, DropDraft, GrowStale, StateExpires
<1>6. ASSUME Restart PROVE MarkShape'
  BY <1>6, FaultCounts DEF Restart, MarkShape
<1>7. ASSUME LockExpires \/ QuotaExpires \/ UNCHANGED vars PROVE MarkShape'
  BY <1>7, MarkQuiet DEF LockExpires, QuotaExpires, vars
<1> QED
  BY <1>1, <1>2, <1>3, <1>4, <1>5, <1>6, <1>7, Steppings DEF RunAct, CancelAct, PollAct

\* Wherever a cancellation and the end of its reading meet (Service.Cancel,
\* importlog.Finish and importlog.Cancel), the history ends with the
\* cancellation, or with the failure that came before it.
THEOREM CancelIsRecordedHolds == Spec => []CancelIsRecorded
<1>1. MarkShape => CancelIsRecorded
  BY DEF MarkShape, CancelIsRecorded
<1> QED
  BY <1>1, TypeInit, TypeStep, OutcomeInit, OutcomeStep, GoneInit, GoneStep, MarkInit, MarkStep,
     PTL DEF Spec

-----------------------------------------------------------------------------
(* The turn *)

TurnHeld == {"count", "window", "put", "record", "reading", "finish", "owner", "drop"}

\* An orphan has lost its turn before it is recognised, and turns are not
\* reused: a poll finds nothing to give back.
OrphanShape ==
    \A i \in Imports :
        /\ at["run"][i] = "new" => state[i] = "none"
        /\ stale[i] => at["run"][i] = "over" /\ lock # i
        /\ at["poll"][i] # "new" => stale[i] /\ at["poll"][i] # "drop"

\* From its SETNX to the DEL of its release an upload holds the turn, as long
\* as nobody cancels.
TurnShape ==
    (\A i \in Imports : at["cancel"][i] = "new")
        => \A i \in Imports : at["run"][i] \in TurnHeld => lock = i

LEMMA TurnInit == Init => OrphanShape /\ TurnShape
BY DEF Init, OrphanShape, TurnShape, TurnHeld, Actors

\* Places an upload moves between, and the turn it leaves with.
LEMMA RunActMoves ==
    ASSUME TypeOK, NEW i \in Imports, RunAct(i)
    PROVE  /\ \A j \in Imports : j # i => at'["run"][j] = at["run"][j]
           /\ \A j \in Imports : at'["poll"][j] = at["poll"][j]
           /\ \A j \in Imports : at'["cancel"][j] = at["cancel"][j]
           /\ at'["run"][i] # "new" /\ at["run"][i] # "over"
           /\ UNCHANGED stale
           /\ \/ at["run"][i] = "new" /\ lock = Nobody /\ lock' = i
              \/ at["run"][i] = "new" /\ at'["run"][i] = "over"
                   /\ (lock' = lock \/ (lock = Nobody /\ lock' = i))
              \/ UNCHANGED lock /\ (at'["run"][i] \in TurnHeld => at["run"][i] \in TurnHeld)
  <1> USE DEF importVars, quotaVars
  <1>1. \A b \in Actors, j \in Imports : b # "run" \/ j # i => at'[b][j] = at[b][j]
    BY OthersStay, PlacesOf
  <1>2. PICK step \in Steps["run"] : Goto("run", i, step) /\ at'["run"][i] = step
    <2>1. \E step \in Steps["run"] : Goto("run", i, step)
      BY PlacesOf DEF RunAct, TakeTurn, CountUpload, OpenWindow, PutState, RecordStart,
         ReadEnds, FinishState, RecordResult
    <2>2. PICK step \in Steps["run"] : Goto("run", i, step)
      BY <2>1
    <2> QED
      BY <2>2, GotoMoves, PlacesOf
  <1>3. \A place : Goto("run", i, place) => at'["run"][i] = place
    BY DEF Goto, TypeOK, Actors
  <1>4. CASE TakeTurn(i)
    <2>1. UNCHANGED stale /\ at["run"][i] = "new" /\ at'["run"][i] \in {"count", "over"}
      BY <1>3, <1>4 DEF TakeTurn
    <2>2. \/ lock = Nobody /\ lock' = i
          \/ at'["run"][i] = "over" /\ (lock' = lock \/ (lock = Nobody /\ lock' = i))
      BY <1>3, <1>4 DEF TakeTurn
    <2> QED
      BY <1>1, <2>1, <2>2, PlacesOf
  <1>5. CASE ~TakeTurn(i)
    <2>1. UNCHANGED <<lock, stale>> /\ at["run"][i] \in TurnHeld \cup {"log"}
      BY <1>5 DEF RunAct, CountUpload, OpenWindow, PutState, RecordStart, ReadEnds,
         FinishState, RecordResult, TurnHeld
    <2>2. at'["run"][i] # "new"
      BY <1>3, <1>5 DEF RunAct, CountUpload, OpenWindow, PutState, RecordStart, ReadEnds,
         FinishState, RecordResult
    <2>3. at["run"][i] = "log" => at'["run"][i] = "over"
      BY <1>3, <1>5 DEF RunAct, CountUpload, OpenWindow, PutState, RecordStart, ReadEnds,
         FinishState, RecordResult
    <2>4. at["run"][i] # "over"
      BY <2>1 DEF TurnHeld
    <2>5. at'["run"][i] \in TurnHeld => at["run"][i] \in TurnHeld
      BY <2>1, <2>3 DEF TurnHeld
    <2> QED
      BY <1>1, <2>1, <2>2, <2>4, <2>5, PlacesOf
  <1> QED
    BY <1>4, <1>5

LEMMA OrphanStep ==
    TypeOK /\ OutcomeKnown /\ OrphanShape /\ [Next]_vars => OrphanShape'
<1> SUFFICES ASSUME TypeOK, OutcomeKnown, OrphanShape, [Next]_vars PROVE OrphanShape'
  OBVIOUS
<1> USE DEF importVars, quotaVars
<1>1. ASSUME NEW i \in Imports, RunAct(i) PROVE OrphanShape'
  <2>1. ~stale[i] /\ at'["run"][i] # "new"
    BY <1>1, RunActMoves DEF OrphanShape
  <2>2. \A j \in Imports : j # i => state'[j] = state[j]
    BY <1>1 DEF RunAct, TakeTurn, CountUpload, OpenWindow, PutState, RecordStart, ReadEnds,
       FinishState, RecordResult, SetIfExists, TypeOK
  <2>3. lock' = lock \/ lock' = i
    BY <1>1, RunActMoves
  <2> QED
    BY <1>1, <2>1, <2>2, <2>3, RunActMoves DEF OrphanShape
<1>2. ASSUME NEW i \in Imports, CancelAct(i) PROVE OrphanShape'
  <2>1. \A j \in Imports : at'["run"][j] = at["run"][j] /\ at'["poll"][j] = at["poll"][j]
    BY <1>2, OthersStay, PlacesOf
  <2>2. UNCHANGED <<lock, stale>>
    BY <1>2 DEF CancelAct, AskCancel, DeleteState, StopReading, MarkCanceled
  <2>3. \A j \in Imports : state'[j] = state[j] \/ state'[j] = "none"
    BY <1>2 DEF CancelAct, AskCancel, DeleteState, StopReading, MarkCanceled, TypeOK
  <2> QED
    BY <2>1, <2>2, <2>3 DEF OrphanShape
<1>3. ASSUME NEW i \in Imports, PollAct(i) PROVE OrphanShape'
  <2>1. /\ \A j \in Imports : at'["run"][j] = at["run"][j]
        /\ \A j \in Imports : j # i => at'["poll"][j] = at["poll"][j]
    BY <1>3, OthersStay, PlacesOf
  <2>2. UNCHANGED <<lock, stale>>
    BY <1>3 DEF PollAct, FindOrphan, FailOrphan
  <2>3. stale[i] /\ at'["poll"][i] # "drop"
    BY <1>3 DEF PollAct, FindOrphan, FailOrphan, Goto, OrphanShape, TypeOK, Actors
  <2>4. \A j \in Imports : state[j] = "none" => state'[j] = "none"
    BY <1>3 DEF PollAct, FindOrphan, FailOrphan, SetIfExists, TypeOK
  <2> QED
    BY <2>1, <2>2, <2>3, <2>4 DEF OrphanShape
<1>4. ASSUME NEW a \in Actors, NEW i \in Imports, Release(a, i) PROVE OrphanShape'
  <2>1. \A b \in Actors, j \in Imports : b # a \/ j # i => at'[b][j] = at[b][j]
    BY <1>4, OthersStay
  <2>2. UNCHANGED <<state, stale>> /\ (lock' = lock \/ lock' = Nobody)
    BY <1>4 DEF Release, ReadLock, DropLock
  <2>3. \A j \in Imports : j # Nobody
    BY DEF Imports, Nobody
  <2>4. at[a][i] \in {"owner", "drop"}
    BY <1>4 DEF Release, ReadLock, DropLock
  <2>5. CASE a = "run"
    <3>1. Goto(a, i, "drop") \/ Goto(a, i, AfterRelease(a, i))
      BY <1>4 DEF Release, ReadLock, DropLock
    <3>2. at'["run"][i] # "new"
      BY <2>5, <3>1 DEF Goto, AfterRelease, TypeOK, Actors
    <3> QED
      BY <2>1, <2>2, <2>3, <2>4, <2>5, <3>2, PlacesOf DEF OrphanShape
  <2>6. CASE a = "cancel"
    BY <2>1, <2>2, <2>3, <2>6, PlacesOf DEF OrphanShape
  <2>7. CASE a = "poll"
    <3>1. lock # i /\ at[a][i] = "owner"
      BY <2>4, <2>7 DEF OrphanShape
    <3>2. Goto("poll", i, "new")
      BY <1>4, <2>7, <3>1 DEF Release, ReadLock, DropLock, AfterRelease
    <3>3. at'["poll"][i] = "new"
      BY <3>2 DEF Goto, TypeOK, Actors
    <3> QED
      BY <2>1, <2>2, <2>3, <2>7, <3>3, PlacesOf DEF OrphanShape
  <2> QED
    BY <2>5, <2>6, <2>7, PlacesOf
<1>5. ASSUME NEW i \in Imports, UpdateState(i) \/ DropDraft(i) \/ StateExpires(i)
      PROVE  OrphanShape'
  <2>1. UNCHANGED <<at, lock, stale>>
    BY <1>5 DEF UpdateState, DropDraft, StateExpires
  <2>2. \A j \in Imports : state[j] = "none" => state'[j] = "none"
    BY <1>5 DEF UpdateState, DropDraft, StateExpires, SetIfExists, TypeOK
  <2> QED
    BY <2>1, <2>2 DEF OrphanShape
<1>6. ASSUME NEW i \in Imports, GrowStale(i) PROVE OrphanShape'
  <2>1. at["run"][i] = "over" /\ lock # i
    BY <1>6 DEF GrowStale, Live, OrphanShape
  <2> QED
    BY <1>6, <2>1 DEF GrowStale, OrphanShape, TypeOK
<1>7. ASSUME LockExpires PROVE OrphanShape'
  BY <1>7 DEF LockExpires, OrphanShape, Imports, Nobody
<1>8. ASSUME Restart PROVE OrphanShape'
  <2>1. \A j \in Imports : /\ at["run"][j] = "new" <=> at'["run"][j] = "new"
                           /\ at["run"][j] = "over" => at'["run"][j] = "over"
                           /\ at'["poll"][j] = "new"
    BY <1>8, RestartMoves, PlacesOf
  <2> QED
    BY <1>8, <2>1 DEF Restart, OrphanShape
<1>9. ASSUME QuotaExpires \/ UNCHANGED vars PROVE OrphanShape'
  BY <1>9 DEF QuotaExpires, vars, OrphanShape
<1> QED
  BY <1>1, <1>2, <1>3, <1>4, <1>5, <1>6, <1>7, <1>8, <1>9, Steppings
  DEF RunAct, CancelAct, PollAct

LEMMA TurnStep == TypeOK /\ OrphanShape /\ TurnShape /\ [Next]_vars => TurnShape'
<1> SUFFICES ASSUME TypeOK, OrphanShape, TurnShape, [Next]_vars,
                    \A i \in Imports : at'["cancel"][i] = "new"
             PROVE  \A j \in Imports : at'["run"][j] \in TurnHeld => lock' = j
  BY DEF TurnShape
<1> USE DEF importVars, quotaVars
<1>a. \A j \in Imports : j # Nobody
  BY DEF Imports, Nobody
<1>b. (\A i \in Imports : at'["cancel"][i] = at["cancel"][i])
        => \A j \in Imports : at["run"][j] \in TurnHeld => lock = j
  BY DEF TurnShape
<1>c. ASSUME UNCHANGED <<at, lock>>
      PROVE  \A j \in Imports : at'["run"][j] \in TurnHeld => lock' = j
  BY <1>b, <1>c
<1>1. ASSUME NEW i \in Imports, RunAct(i)
      PROVE  \A j \in Imports : at'["run"][j] \in TurnHeld => lock' = j
  <2>1. \A j \in Imports : at["run"][j] \in TurnHeld => lock = j
    BY <1>1, <1>b, RunActMoves
  <2>2. "over" \notin TurnHeld
    BY DEF TurnHeld
  <2> QED
    BY <1>1, <1>a, <2>1, <2>2, RunActMoves
<1>2. ASSUME NEW i \in Imports, CancelAct(i) PROVE FALSE
  BY <1>2 DEF CancelAct, AskCancel, DeleteState, StopReading, MarkCanceled, Goto, TypeOK, Actors
<1>3. ASSUME NEW i \in Imports, PollAct(i)
      PROVE  \A j \in Imports : at'["run"][j] \in TurnHeld => lock' = j
  <2>1. \A j \in Imports : /\ at'["run"][j] = at["run"][j]
                           /\ at'["cancel"][j] = at["cancel"][j]
    BY <1>3, OthersStay, PlacesOf
  <2>2. UNCHANGED lock
    BY <1>3 DEF PollAct, FindOrphan, FailOrphan
  <2> QED
    BY <1>b, <2>1, <2>2
<1>4. ASSUME NEW a \in Actors, NEW i \in Imports, Release(a, i)
      PROVE  \A j \in Imports : at'["run"][j] \in TurnHeld => lock' = j
  <2>1. \A b \in Actors, j \in Imports : b # a \/ j # i => at'[b][j] = at[b][j]
    BY <1>4, OthersStay
  <2>2. at[a][i] \in {"owner", "drop"}
    BY <1>4 DEF Release, ReadLock, DropLock
  <2>3. Goto(a, i, "drop") \/ Goto(a, i, AfterRelease(a, i))
    BY <1>4 DEF Release, ReadLock, DropLock
  <2>4. CASE a = "run"
    <3>1. \A j \in Imports : at["run"][j] \in TurnHeld => lock = j
      BY <1>b, <2>1, <2>4, PlacesOf
    <3>2. lock = i
      BY <2>2, <2>4, <3>1 DEF TurnHeld
    <3>3. \A j \in Imports : j # i => at["run"][j] \notin TurnHeld
      BY <3>1, <3>2
    <3>4. CASE ReadLock(a, i)
      BY <2>1, <2>4, <3>2, <3>3, <3>4, PlacesOf DEF ReadLock
    <3>5. CASE DropLock(a, i)
      <4>1. at'["run"][i] \in {"over", "log"}
        BY <2>4, <3>5 DEF DropLock, Goto, AfterRelease, TypeOK, Actors
      <4> QED
        BY <2>1, <2>4, <3>3, <4>1, PlacesOf DEF TurnHeld
    <3> QED
      BY <1>4, <3>4, <3>5 DEF Release
  <2>5. CASE a = "cancel"
    <3>1. at'["cancel"][i] \in {"drop", "stop"}
      BY <2>3, <2>5 DEF Goto, AfterRelease, TypeOK, Actors
    <3> QED
      BY <3>1
  <2>6. CASE a = "poll"
    <3>1. UNCHANGED lock
      BY <1>4, <2>2, <2>6 DEF Release, ReadLock, DropLock, OrphanShape
    <3> QED
      BY <1>b, <2>1, <2>6, <3>1, PlacesOf
  <2> QED
    BY <2>4, <2>5, <2>6, PlacesOf
<1>5. ASSUME NEW i \in Imports, UpdateState(i) \/ DropDraft(i) \/ GrowStale(i) \/ StateExpires(i)
      PROVE  UNCHANGED <<at, lock>>
  BY <1>5 DEF UpdateState, DropDraft, GrowStale, StateExpires
<1>6. ASSUME LockExpires PROVE \A j \in Imports : at'["run"][j] \in TurnHeld => lock' = j
  BY <1>6, <1>b DEF LockExpires, Live, TurnHeld
<1>7. ASSUME Restart PROVE \A j \in Imports : at'["run"][j] \notin TurnHeld
  BY <1>7, RestartMoves, PlacesOf DEF TurnHeld
<1>8. ASSUME QuotaExpires \/ UNCHANGED vars PROVE UNCHANGED <<at, lock>>
  BY <1>8 DEF QuotaExpires, vars
<1> QED
  BY <1>c, <1>1, <1>2, <1>3, <1>4, <1>5, <1>6, <1>7, <1>8, Steppings
  DEF RunAct, CancelAct, PollAct

\* "um envio por vez por usuário": as long as nobody cancels, a reading holds the
\* user's turn, whatever polls, restarts, failed calls and further uploads do.
THEOREM TurnIsHeldHolds == Spec => []TurnIsHeld
<1>1. TurnShape => TurnIsHeld
  BY DEF TurnShape, TurnIsHeld, Reading, TurnHeld
<1> QED
  BY <1>1, TypeInit, TypeStep, OutcomeInit, OutcomeStep, TurnInit, OrphanStep, TurnStep, PTL
  DEF Spec
-----------------------------------------------------------------------------
(* The draft. *)

LEMMA UsageCounts ==
    ASSUME NEW exps, IsFiniteSet(exps), \A e \in exps : e.start \in Int /\ e.end \in Int, NEW name
    PROVE  /\ Usage(exps, name) = Cardinality(UNION {s.from..s.to : s \in Periods(exps, name)})
           /\ Usage(exps, name) \in Nat
  <1> DEFINE E == {x \in exps : Uses(x, name) /\ x.start # None}
             f == [e \in E |-> [from |-> e.start, to |-> IF e.end # None THEN e.end ELSE Now]]
             P == Periods(exps, name)
  <1>1. IsFiniteSet(E)
    BY FS_Subset
  <1>2. IsFiniteSet({f[e] : e \in E})
    <2> DEFINE g == f
    <2>1. DOMAIN g = E
      OBVIOUS
    <2> HIDE DEF E, g
    <2>2. IsFiniteSet({g[e] : e \in E})
      BY <1>1, <2>1, FiniteImage
    <2> QED
      BY <2>2 DEF g
  <1>3. P \subseteq {f[e] : e \in E}
    BY DEF Periods
  <1>4. IsFiniteSet(P)
    BY <1>2, <1>3, FS_Subset
  <1>5. \A e \in E : f[e] \in [from: Int, to: Int]
    <2>1. Now \in Int
      BY DocumentsAreLists
    <2> QED
      BY <2>1
  <1>6. P \in SUBSET [from: Int, to: Int]
    BY <1>3, <1>5
  <1>7. \A p \in P : p.from \in Int /\ p.to \in Int /\ p.from <= p.to
    <2>1. \A p \in P : p.to >= p.from
      BY DEF Periods
    <2> HIDE DEF P
    <2> QED
      BY <1>6, <2>1
  <1> HIDE DEF P
  <1>8. /\ Merged(P, 1) = Cardinality(UNION {p.from..(p.to - 1 + 1) : p \in P})
        /\ Merged(P, 1) \in Nat
    <2>1. \A p \in P : p.from < p.to + 1
      BY <1>7
    <2> DEFINE c == 1
    <2>2. c \in {0, 1} /\ \A p \in P : p.from < p.to + c
      BY <2>1
    <2> HIDE DEF c
    <2>3. /\ Merged(P, c) = Cardinality(UNION {p.from..(p.to - 1 + c) : p \in P})
          /\ Merged(P, c) \in Nat
      BY <1>4, <1>6, <2>2, MergedCounts
    <2> QED
      BY <2>3 DEF c
  <1>9. UNION {p.from..(p.to - 1 + 1) : p \in P} = UNION {p.from..p.to : p \in P}
    <2>1. \A p \in P : p.from..(p.to - 1 + 1) = p.from..p.to
      BY <1>7
    <2> QED
      BY <2>1
  <1> QED
    BY <1>8, <1>9 DEF P, Usage

LEMMA KeyedIsList ==
    ASSUME NEW items, IsList(items)
    PROVE  /\ IsList(Keyed(items))
           /\ \A k \in DOMAIN Keyed(items) : \E i \in DOMAIN items : Keyed(items)[k] = items[i]
  <1> DEFINE keep == [i \in DOMAIN items |-> "" \notin Range(items[i].key)]
             I == {i \in DOMAIN items : keep[i]}
  <1>1. Keyed(items) = Picked(items, I)
    BY DEF Keyed, ThoseWith
  <1>2. I \in SUBSET DOMAIN items
    OBVIOUS
  <1> HIDE DEF I
  <1> QED
    BY <1>1, <1>2, PickedIsList

LEMMA MonthIsInt ==
    ASSUME NEW m
    PROVE  NormMonth(m) \in Int
BY DocumentsAreLists DEF NormMonth, None

LEMMA ExperiencesAreClean ==
    ASSUME NEW exps, IsList(exps), \A e \in Range(exps) : e.section = "experience" /\ IsList(e.stack)
    PROVE  /\ IsList(NormalizeExperiences(exps))
           /\ \A e \in Range(NormalizeExperiences(exps)) :
                 e.section = "experience" /\ IsList(e.stack) /\ e.start \in Int /\ e.end \in Int
  <1> DEFINE named == Keyed(exps)
             stack(e) == Cap(e.stack, 30)
             clean(e) == [section |-> e.section, key |-> e.key, mentions |-> e.mentions,
                          start |-> NormMonth(e.start), end |-> NormMonth(e.end),
                          current |-> e.current /\ NormMonth(e.end) = None,
                          stack |-> FirstOfEach(stack(e), CanonKeys(stack(e)))]
             s == [i \in DOMAIN named |-> clean(named[i])]
             u == NormalizeExperiences(exps)
  <1>1. IsList(named) /\ \A k \in DOMAIN named : named[k] \in Range(exps)
    BY KeyedIsList DEF Range
  <1>2. u = Cap(s, 40)
    BY DEF NormalizeExperiences
  <1>3. ASSUME NEW e \in Range(exps)
        PROVE  IsList(clean(e).stack)
    <2> DEFINE st == stack(e)
               I == Firsts(CanonKeys(st))
    <2>1. IsList(st)
      BY CapIsList
    <2>2. I \in SUBSET DOMAIN st
      BY DEF Firsts, CanonKeys
    <2> HIDE DEF st, I
    <2>3. IsList(Picked(st, I))
      BY <2>1, <2>2, PickedIsList
    <2> QED
      BY <2>3 DEF FirstOfEach, st, I
  <1>4. \A e \in Range(exps) : /\ clean(e).section = "experience" /\ IsList(clean(e).stack)
                               /\ clean(e).start \in Int /\ clean(e).end \in Int
    BY <1>3, MonthIsInt
  <1>5. DOMAIN s = DOMAIN named /\ s = [i \in DOMAIN s |-> s[i]] /\ \A i \in DOMAIN s : s[i] = clean(named[i])
    OBVIOUS
  <1> HIDE DEF s, named, clean
  <1>6. IsList(s)
    BY <1>1, <1>5, MappedIsList
  <1>7. IsList(u) /\ DOMAIN u \subseteq DOMAIN s /\ \A i \in DOMAIN u : u[i] = s[i]
    BY <1>2, <1>6, CapIsList
  <1> HIDE DEF u
  <1>8. \A i \in DOMAIN u : \E e \in Range(exps) : u[i] = clean(e)
    BY <1>1, <1>5, <1>7
  <1>9. \A x \in Range(u) : x.section = "experience" /\ IsList(x.stack) /\ x.start \in Int /\ x.end \in Int
    BY <1>4, <1>8 DEF Range
  <1> QED
    BY <1>7, <1>9 DEF u

LEMMA ItemsAreClean ==
    ASSUME NEW items, IsList(items), \A x \in Range(items) : x.section # "experience"
    PROVE  /\ IsList(NormalizeItems(items))
           /\ \A x \in Range(NormalizeItems(items)) : x.section # "experience"
  <1> DEFINE named == Keyed(items)
             s == [i \in DOMAIN named |->
                      [section |-> named[i].section, key |-> named[i].key,
                       start |-> NormMonth(named[i].start), end |-> NormMonth(named[i].end)]]
             u == NormalizeItems(items)
  <1>1. IsList(named) /\ \A k \in DOMAIN named : named[k] \in Range(items)
    BY KeyedIsList DEF Range
  <1>2. u = Cap(s, 40)
    BY DEF NormalizeItems
  <1>3. DOMAIN s = DOMAIN named /\ s = [i \in DOMAIN s |-> s[i]]
    OBVIOUS
  <1>4. \A i \in DOMAIN s : s[i].section # "experience"
    BY <1>1
  <1> HIDE DEF s, named
  <1>5. IsList(s)
    BY <1>1, <1>3, MappedIsList
  <1>6. IsList(u) /\ DOMAIN u \subseteq DOMAIN s /\ \A i \in DOMAIN u : u[i] = s[i]
    BY <1>2, <1>5, CapIsList
  <1> HIDE DEF u
  <1>7. \A x \in Range(u) : x.section # "experience"
    BY <1>4, <1>6 DEF Range
  <1> QED
    BY <1>6, <1>7 DEF u

LEMMA SpotsAreFinite ==
    ASSUME NEW listed, IsList(listed), NEW exps, IsList(exps), \A e \in Range(exps) : IsList(e.stack)
    PROVE  /\ IsFiniteSet(Spots(listed, exps))
           /\ \A p \in Spots(listed, exps) : p = <<p[1], p[2]>> /\ p[1] \in Nat /\ p[2] \in Nat
  <1> DEFINE own == {0} \X DOMAIN listed
             stack == [i \in DOMAIN exps |-> {i} \X DOMAIN exps[i].stack]
  <1>1. \A i \in DOMAIN exps : IsList(exps[i].stack) /\ i \in Nat
    BY FiniteDomain DEF Range
  <1>2. IsFiniteSet(own)
    BY FiniteDomain, FS_Singleton, FS_Product
  <1>3. \A i \in DOMAIN exps : IsFiniteSet(stack[i])
    <2> TAKE i \in DOMAIN exps
    <2>1. IsFiniteSet({i}) /\ IsFiniteSet(DOMAIN exps[i].stack)
      BY <1>1, FiniteDomain, FS_Singleton
    <2>2. IsFiniteSet({i} \X DOMAIN exps[i].stack)
      BY <2>1, FS_Product
    <2> QED
      BY <2>2
  <1>4. IsFiniteSet({stack[i] : i \in DOMAIN exps})
    <2>1. IsFiniteSet(DOMAIN exps) /\ DOMAIN stack = DOMAIN exps
      BY FiniteDomain
    <2> HIDE DEF stack
    <2> QED
      BY <2>1, FiniteImage
  <1>5. IsFiniteSet(UNION {stack[i] : i \in DOMAIN exps})
    <2> HIDE DEF stack
    <2> QED
      BY <1>3, <1>4, FS_UNION
  <1>6. Spots(listed, exps) = own \cup UNION {stack[i] : i \in DOMAIN exps}
    BY DEF Spots
  <1>7. IsFiniteSet(Spots(listed, exps))
    <2> HIDE DEF own, stack
    <2> QED
      BY <1>2, <1>5, <1>6, FS_Union
  <1>8. \A p \in own : p = <<p[1], p[2]>> /\ p[1] \in Nat /\ p[2] \in Nat
    BY FiniteDomain
  <1>9. \A i \in DOMAIN exps : \A p \in stack[i] : p = <<p[1], p[2]>> /\ p[1] \in Nat /\ p[2] \in Nat
    <2> TAKE i \in DOMAIN exps
    <2>1. i \in Nat /\ DOMAIN exps[i].stack \subseteq Nat
      BY <1>1, FiniteDomain
    <2> QED
      BY <2>1
  <1> QED
    <2> HIDE DEF own, stack
    <2> QED
      BY <1>6, <1>7, <1>8, <1>9

LEMMA SkillsAreCounted ==
    ASSUME NEW listed, IsList(listed), NEW exps, IsList(exps),
           \A e \in Range(exps) : IsList(e.stack) /\ e.start \in Int /\ e.end \in Int
    PROVE  LET s == NormalizeSkills(listed, exps)
           IN  /\ IsList(s)
               /\ \A i \in DOMAIN s : s[i].months = Usage(Range(exps), s[i].name)
               /\ \A i, j \in DOMAIN s : i < j => s[j].months <= s[i].months
  <1> DEFINE said == [p \in {q \in Spots(listed, exps) : IsSkill(Mention(listed, exps, q).name)} |->
                         Mention(listed, exps, p)]
             firsts == {p \in DOMAIN said :
                          \A q \in DOMAIN said : Earlier(q, p) => CanonKey(said[q].name) # CanonKey(said[p].name)}
             months == [p \in firsts |-> Usage(Range(exps), said[p].name)]
             R == {pq \in firsts \X firsts :
                     \/ months[pq[1]] > months[pq[2]]
                     \/ months[pq[1]] = months[pq[2]] /\ Earlier(pq[1], pq[2])}
             order == InOrder(firsts, R)
             rated(p) == LET s == AddSkill(said, p)
                         IN  [name |-> s.name, explicit |-> s.explicit, months |-> months[p],
                              level |-> IF s.explicit THEN s.level ELSE LevelFromMonths(months[p])]
             u == [k \in DOMAIN order |-> rated(order[k])]
             n == Cardinality(firsts)
  <1>1. firsts \subseteq Spots(listed, exps)
    OBVIOUS
  <1>2. IsFiniteSet(firsts) /\ \A p \in firsts : p = <<p[1], p[2]>> /\ p[1] \in Nat /\ p[2] \in Nat
    <2>1. /\ IsFiniteSet(Spots(listed, exps))
          /\ \A p \in Spots(listed, exps) : p = <<p[1], p[2]>> /\ p[1] \in Nat /\ p[2] \in Nat
      BY SpotsAreFinite
    <2> HIDE DEF firsts
    <2> QED
      BY <1>1, <2>1, FS_Subset
  <1>3. \A p \in firsts : months[p] \in Nat /\ months[p] = Usage(Range(exps), said[p].name)
    <2>1. IsFiniteSet(Range(exps))
      <3>1. IsFiniteSet(DOMAIN exps)
        BY FiniteDomain
      <3>2. IsFiniteSet({exps[i] : i \in DOMAIN exps})
        BY <3>1, FiniteImage
      <3> QED
        BY <3>2 DEF Range
    <2>2. \A name : Usage(Range(exps), name) \in Nat
      BY <2>1, UsageCounts
    <2> HIDE DEF firsts, said
    <2> QED
      BY <2>2
  <1>4. \A p \in firsts : rated(p).months = months[p] /\ rated(p).name = said[p].name
    BY DEF AddSkill
  <1>5. NormalizeSkills(listed, exps) = Cap(u, 80)
    BY DEF NormalizeSkills
  <1> HIDE DEF firsts, months, said
  <1>6. IsOrder(R, firsts)
    <2>1. \A p, q \in firsts :
             <<p, q>> \in R <=> (months[p] > months[q] \/ (months[p] = months[q] /\ Earlier(p, q)))
      OBVIOUS
    <2> HIDE DEF R
    <2>2. \A p \in firsts : <<p, p>> \notin R
      BY <1>2, <1>3, <2>1 DEF Earlier
    <2>3. \A p, q, r \in firsts : <<p, q>> \in R /\ <<q, r>> \in R => <<p, r>> \in R
      <3> TAKE p, q, r \in firsts
      <3> HAVE <<p, q>> \in R /\ <<q, r>> \in R
      <3>1. months[p] \in Nat /\ months[q] \in Nat /\ months[r] \in Nat
        BY <1>3
      <3>2. Earlier(p, q) /\ Earlier(q, r) => Earlier(p, r)
        BY <1>2 DEF Earlier
      <3> QED
        BY <2>1, <3>1, <3>2
    <2>4. \A p, q \in firsts : p # q => <<p, q>> \in R \/ <<q, p>> \in R
      <3> TAKE p, q \in firsts
      <3> HAVE p # q
      <3>1. months[p] \in Nat /\ months[q] \in Nat
        BY <1>3
      <3>2. Earlier(p, q) \/ Earlier(q, p)
        <4>1. p[1] # q[1] \/ p[2] # q[2]
          BY <1>2
        <4>2. p[1] \in Nat /\ p[2] \in Nat /\ q[1] \in Nat /\ q[2] \in Nat
          BY <1>2
        <4> QED
          BY <4>1, <4>2 DEF Earlier
      <3> QED
        BY <2>1, <3>1, <3>2
    <2> QED
      BY <2>2, <2>3, <2>4 DEF IsOrder
  <1>7. /\ n \in Nat /\ order \in [1..n -> firsts]
        /\ \A j, k \in 1..n : j < k <=> <<order[j], order[k]>> \in R
    <2> HIDE DEF R
    <2> QED
      BY <1>2, <1>6, InOrderSorts
  <1>8. \A j, k \in 1..n : j < k => months[order[j]] >= months[order[k]]
    <2> TAKE j, k \in 1..n
    <2> HAVE j < k
    <2>1. <<order[j], order[k]>> \in R /\ order[j] \in firsts /\ order[k] \in firsts
      <3> HIDE DEF R, order
      <3> QED
        BY <1>7
    <2>2. months[order[j]] > months[order[k]] \/ months[order[j]] = months[order[k]]
      <3> HIDE DEF order
      <3> QED
        BY <2>1
    <2>3. months[order[j]] \in Nat /\ months[order[k]] \in Nat
      BY <1>3, <2>1
    <2> HIDE DEF order
    <2> QED
      BY <2>2, <2>3
  <1> HIDE DEF order, rated
  <1>9. /\ DOMAIN u = 1..n /\ u = [k \in 1..n |-> u[k]]
        /\ \A k \in 1..n : u[k].months = months[order[k]] /\ u[k].name = said[order[k]].name
    BY <1>4, <1>7
  <1> HIDE DEF u
  <1>10. IsList(u)
    BY <1>7, <1>9, AList
  <1>11. \A k \in 1..n : u[k].months = Usage(Range(exps), u[k].name)
    BY <1>3, <1>7, <1>9
  <1>12. \A j, k \in 1..n : j < k => u[k].months <= u[j].months
    <2> TAKE j, k \in 1..n
    <2> HAVE j < k
    <2>1. months[order[j]] >= months[order[k]] /\ order[j] \in firsts /\ order[k] \in firsts
      BY <1>7, <1>8
    <2>2. months[order[j]] \in Nat /\ months[order[k]] \in Nat
      BY <1>3, <2>1
    <2>3. u[k].months = months[order[k]] /\ u[j].months = months[order[j]]
      BY <1>9
    <2> QED
      BY <2>1, <2>2, <2>3
  <1> DEFINE s == NormalizeSkills(listed, exps)
  <1>13. IsList(s) /\ DOMAIN s \subseteq 1..n /\ \A i \in DOMAIN s : s[i] = u[i]
    <2>1. IsList(Cap(u, 80)) /\ DOMAIN Cap(u, 80) \subseteq DOMAIN u /\ \A i \in DOMAIN Cap(u, 80) : Cap(u, 80)[i] = u[i]
      BY <1>10, CapIsList
    <2> QED
      BY <1>5, <1>9, <2>1
  <1> HIDE DEF s
  <1>14. /\ \A i \in DOMAIN s : s[i].months = Usage(Range(exps), s[i].name)
         /\ \A i, j \in DOMAIN s : i < j => s[j].months <= s[i].months
    BY <1>11, <1>12, <1>13
  <1> QED
    BY <1>13, <1>14 DEF s

LEMMA FirstsAreAList ==
    ASSUME NEW s, IsList(s), NEW key, DOMAIN key = DOMAIN s
    PROVE  IsList(FirstOfEach(s, key))
  <1>1. Firsts(key) \in SUBSET DOMAIN s
    BY DEF Firsts
  <1> QED
    BY <1>1, PickedIsList DEF FirstOfEach

LEMMA ThoseAreAList ==
    ASSUME NEW s, IsList(s), NEW keep
    PROVE  /\ IsList(ThoseWith(s, keep))
           /\ \A k \in DOMAIN ThoseWith(s, keep) : \E i \in DOMAIN s : keep[i] /\ ThoseWith(s, keep)[k] = s[i]
  <1> DEFINE I == {i \in DOMAIN s : keep[i]}
  <1>1. I \in SUBSET DOMAIN s /\ \A i \in I : i \in DOMAIN s /\ keep[i]
    OBVIOUS
  <1>2. ThoseWith(s, keep) = Picked(s, I)
    BY DEF ThoseWith
  <1> HIDE DEF I
  <1> QED
    BY <1>1, <1>2, PickedIsList

LEMMA LanguagesAreAList ==
    ASSUME NEW ls, IsList(ls)
    PROVE  IsList(NormalizeLanguages(ls))
  <1> DEFINE named == ThoseWith(ls, [i \in DOMAIN ls |-> ls[i].word # ""])
             coded == [i \in DOMAIN named |->
                          [code |-> LanguageCode(named[i].word),
                           level |-> IF named[i].level \in TongueLevels THEN named[i].level ELSE "intermediate"]]
  <1>1. IsList(named)
    BY ThoseAreAList
  <1>2. DOMAIN coded = DOMAIN named /\ coded = [i \in DOMAIN coded |-> coded[i]]
    OBVIOUS
  <1>3. NormalizeLanguages(ls) = Cap(FirstOfEach(coded, Codes(coded)), 15)
    BY DEF NormalizeLanguages
  <1> HIDE DEF named, coded
  <1>4. IsList(coded)
    BY <1>1, <1>2, MappedIsList
  <1>5. DOMAIN Codes(coded) = DOMAIN coded
    BY DEF Codes
  <1>6. IsList(FirstOfEach(coded, Codes(coded)))
    BY <1>4, <1>5, FirstsAreAList
  <1> QED
    BY <1>3, <1>6, CapIsList

LEMMA MergedLanguagesAreAList ==
    ASSUME NEW ls, IsList(ls), NEW found, IsList(found)
    PROVE  IsList(MergeLanguages(ls, found))
  <1> DEFINE all == ls \o NormalizeLanguages(found)
  <1>1. IsList(all)
    BY LanguagesAreAList, ListsJoined
  <1>2. MergeLanguages(ls, found) = Cap(FirstOfEach(all, Codes(all)), 15)
    BY DEF MergeLanguages
  <1>3. DOMAIN Codes(all) = DOMAIN all
    BY DEF Codes
  <1> HIDE DEF all
  <1>4. IsList(FirstOfEach(all, Codes(all)))
    BY <1>1, <1>3, FirstsAreAList
  <1> QED
    BY <1>2, <1>4, CapIsList

\* The months of a draft are counted, as MonthsAreCounted has it.
MonthsRight(d) ==
    LET exps == {x \in {d.items[i].item : i \in DOMAIN d.items} : x.section = "experience"}
        worked(n) == UNION {s.from..s.to : s \in Periods(exps, n)}
    IN  /\ \A i \in DOMAIN d.skills : d.skills[i].skill.months = Cardinality(worked(d.skills[i].skill.name))
        /\ \A i, j \in DOMAIN d.skills : i < j => d.skills[j].skill.months <= d.skills[i].skill.months

KnownIn(rows, x) == \E k \in DOMAIN rows : ItemKey(rows[k]) = ItemKey(x)

\* What is not marked in a draft was not in the profile when it was read.
DraftRight(d) ==
    /\ IsList(d.items) /\ IsList(d.skills) /\ IsList(d.langs) /\ MonthsRight(d)
    /\ \A i \in DOMAIN d.items : ~d.items[i].exists => ~KnownIn(d.basis, d.items[i].item)

LEMMA NewDraftIsRight ==
    ASSUME NEW d \in Documents
    PROVE  DraftRight(MarkExisting(Normalize(d)))
  <1> DEFINE exps == NormalizeExperiences(d.experiences)
             others == NormalizeItems(d.others)
             items == exps \o others
             rated == NormalizeSkills(d.skills, exps)
             ls == MergeLanguages(NormalizeLanguages(d.langs), d.found)
             n == Normalize(d)
             m == MarkExisting(n)
  <1>1. /\ IsList(d.experiences) /\ IsList(d.others) /\ IsList(d.skills) /\ IsList(d.langs) /\ IsList(d.found)
        /\ \A e \in Range(d.experiences) : e.section = "experience" /\ IsList(e.stack)
        /\ \A x \in Range(d.others) : x.section # "experience"
    BY DocumentsAreLists
  <1>2. /\ IsList(exps)
        /\ \A e \in Range(exps) : e.section = "experience" /\ IsList(e.stack) /\ e.start \in Int /\ e.end \in Int
    BY <1>1, ExperiencesAreClean
  <1>3. IsList(others) /\ \A x \in Range(others) : x.section # "experience"
    BY <1>1, ItemsAreClean
  <1>4. IsList(ls)
    BY <1>1, LanguagesAreAList, MergedLanguagesAreAList
  <1>5. n.items = items /\ n.skills = rated /\ n.langs = ls
    BY DEF Normalize
  <1>6. /\ IsList(rated)
        /\ \A i \in DOMAIN rated : rated[i].months = Usage(Range(exps), rated[i].name)
        /\ \A i, j \in DOMAIN rated : i < j => rated[j].months <= rated[i].months
    <2> HIDE DEF exps
    <2> QED
      BY <1>1, <1>2, SkillsAreCounted
  <1> HIDE DEF exps, others, rated, ls, n
  <1>7. /\ IsList(items) /\ DOMAIN items = 1..(Len(exps) + Len(others))
        /\ \A i \in DOMAIN items : items[i] = IF i <= Len(exps) THEN exps[i] ELSE others[i - Len(exps)]
    BY <1>2, <1>3, ListsJoined
  <1>8. {x \in Range(items) : x.section = "experience"} = Range(exps)
    <2>1. /\ Len(exps) \in Nat /\ DOMAIN exps = 1..Len(exps)
          /\ Len(others) \in Nat /\ DOMAIN others = 1..Len(others)
      BY <1>2, <1>3, ListFacts
    <2> HIDE DEF items
    <2>2. ASSUME NEW x \in Range(items), x.section = "experience"
          PROVE  x \in Range(exps)
      <3>1. PICK i \in DOMAIN items : items[i] = x
        BY DEF Range
      <3>2. CASE i <= Len(exps)
        <4>1. i \in DOMAIN exps /\ x = exps[i]
          BY <1>7, <2>1, <3>1, <3>2
        <4> QED
          BY <4>1 DEF Range
      <3>3. CASE ~(i <= Len(exps))
        <4>1. i - Len(exps) \in DOMAIN others /\ x = others[i - Len(exps)]
          BY <1>7, <2>1, <3>1, <3>3
        <4>2. x \in Range(others)
          BY <4>1 DEF Range
        <4> QED
          BY <1>3, <2>2, <4>2
      <3> QED
        BY <3>2, <3>3
    <2>3. ASSUME NEW x \in Range(exps)
          PROVE  x \in Range(items)
      <3>1. PICK i \in DOMAIN exps : exps[i] = x
        BY DEF Range
      <3>2. i \in DOMAIN items /\ items[i] = x
        BY <1>7, <2>1, <3>1
      <3> QED
        BY <3>2 DEF Range
    <2> QED
      BY <1>2, <2>2, <2>3
  <1>9. IsFiniteSet(Range(exps))
    <2>1. IsFiniteSet(DOMAIN exps)
      BY <1>2, FiniteDomain
    <2>2. IsFiniteSet({exps[i] : i \in DOMAIN exps})
      BY <2>1, FiniteImage
    <2> QED
      BY <2>2 DEF Range
  <1>10. \A name : Usage(Range(exps), name) = Cardinality(UNION {s.from..s.to : s \in Periods(Range(exps), name)})
    BY <1>2, <1>9, UsageCounts
  <1>11. /\ m.items = [i \in DOMAIN items |-> [item |-> items[i], exists |-> ItemExists(items[i])]]
         /\ DOMAIN m.skills = DOMAIN rated /\ m.skills = [i \in DOMAIN rated |-> m.skills[i]]
         /\ \A i \in DOMAIN rated : m.skills[i].skill = rated[i]
         /\ DOMAIN m.langs = DOMAIN ls /\ m.langs = [i \in DOMAIN ls |-> m.langs[i]]
         /\ m.basis = saved
    <2> HIDE DEF items
    <2> QED
      BY <1>5 DEF MarkExisting
  <1> HIDE DEF m, items
  <1>12. /\ DOMAIN m.items = DOMAIN items /\ m.items = [i \in DOMAIN items |-> m.items[i]]
         /\ \A i \in DOMAIN items : m.items[i].item = items[i] /\ m.items[i].exists = ItemExists(items[i])
    BY <1>11
  <1>13. IsList(m.items) /\ IsList(m.skills) /\ IsList(m.langs)
    BY <1>4, <1>6, <1>7, <1>11, <1>12, MappedIsList
  <1>14. {m.items[i].item : i \in DOMAIN m.items} = Range(items)
    BY <1>12 DEF Range
  <1>15. {x \in {m.items[i].item : i \in DOMAIN m.items} : x.section = "experience"} = Range(exps)
    BY <1>8, <1>14
  <1>16. MonthsRight(m)
    <2> DEFINE E == {x \in {m.items[i].item : i \in DOMAIN m.items} : x.section = "experience"}
    <2>1. E = Range(exps)
      BY <1>15
    <2> HIDE DEF E
    <2>2. \A i \in DOMAIN m.skills :
             m.skills[i].skill.months = Cardinality(UNION {s.from..s.to : s \in Periods(E, m.skills[i].skill.name)})
      <3> TAKE i \in DOMAIN m.skills
      <3>1. m.skills[i].skill = rated[i] /\ rated[i].months = Usage(E, rated[i].name)
        BY <1>6, <1>11, <2>1
      <3> QED
        BY <1>10, <2>1, <3>1
    <2>3. \A i, j \in DOMAIN m.skills : i < j => m.skills[j].skill.months <= m.skills[i].skill.months
      BY <1>6, <1>11
    <2> QED
      BY <2>2, <2>3 DEF MonthsRight, E
  <1>17. \A i \in DOMAIN m.items : ~m.items[i].exists => ~KnownIn(m.basis, m.items[i].item)
    BY <1>11, <1>12 DEF ItemExists, KnownIn
  <1>18. DraftRight(m)
    BY <1>13, <1>16, <1>17 DEF DraftRight
  <1> QED
    BY <1>18 DEF m, n

\* What a request asks for as new was not in the profile when its draft was read.
RequestRight(r, basis) ==
    /\ IsList(r.items) /\ IsList(r.skills) /\ IsList(r.langs)
    /\ \A i \in DOMAIN r.items : r.asked[i] => ~KnownIn(basis, r.items[i])

LEMMA RequestsAreRight ==
    ASSUME NEW d, DraftRight(d), NEW all, NEW ticked, NEW typed \in Additions
    PROVE  RequestRight(Request(d, all, ticked, typed), d.basis)
  <1> DEFINE r == Request(d, all, ticked, typed)
             its == ThoseWith(d.items, [i \in DOMAIN d.items |-> all \/ ~d.items[i].exists])
             spo == ThoseWith(d.langs, [i \in DOMAIN d.langs |-> all \/ d.langs[i].was # d.langs[i].lang.level])
             new(i) == ~its[i].exists /\ Complete(its[i].item) = its[i].item
             cho == ThoseWith(d.skills, [i \in DOMAIN d.skills |-> all \/ d.skills[i].was = ""])
             level(s) == IF s.was # "" /\ ~s.skill.explicit THEN s.was ELSE s.skill.level
             kept == [i \in DOMAIN cho |-> [name |-> cho[i].skill.name, level |-> level(cho[i])]]
  <1>2. /\ IsList(its) /\ \A k \in DOMAIN its : \E i \in DOMAIN d.items : its[k] = d.items[i]
        /\ IsList(cho) /\ IsList(spo)
    <2>1. IsList(d.items) /\ IsList(d.skills) /\ IsList(d.langs)
      BY DEF DraftRight
    <2>2. IsList(its) /\ \A k \in DOMAIN its : \E i \in DOMAIN d.items : its[k] = d.items[i]
      BY <2>1, ThoseAreAList
    <2>3. IsList(cho)
      BY <2>1, ThoseAreAList
    <2>4. IsList(spo)
      BY <2>1, ThoseAreAList
    <2> QED
      BY <2>2, <2>3, <2>4
  <1>3. /\ r.items = [i \in DOMAIN its |-> Complete(its[i].item)]
        /\ r.asked = [i \in DOMAIN its |-> new(i)]
        /\ r.langs = [i \in DOMAIN spo |-> spo[i].lang]
    <2>1. r.items = [i \in DOMAIN its |-> Complete(its[i].item)]
      BY DEF Request
    <2>2. r.asked = [i \in DOMAIN its |-> new(i)]
      BY DEF Request
    <2>3. r.langs = [i \in DOMAIN spo |-> spo[i].lang]
      BY DEF Request
    <2> QED
      BY <2>1, <2>2, <2>3
  <1>8. r.skills = kept \o typed
    BY DEF Request
  <1>9. DOMAIN kept = DOMAIN cho /\ kept = [i \in DOMAIN kept |-> kept[i]]
    OBVIOUS
  <1>10. IsList(typed)
    <2>1. typed = <<>> \/ \E x : typed = <<x>>
      BY DEF Additions
    <2>2. \A x : LET s == <<x>> IN s = [i \in 1..1 |-> s[i]]
      OBVIOUS
    <2>3. \A x : IsList(<<x>>)
      BY <2>2, AList
    <2> QED
      BY <2>1, <2>3, EmptyIsList
  <1> HIDE DEF its, spo, r, cho, kept
  <1>11. IsList(r.skills)
    BY <1>2, <1>8, <1>9, <1>10, MappedIsList, ListsJoined
  <1>7. ASSUME NEW i \in DOMAIN its, r.asked[i]
        PROVE  new(i)
    <2> HIDE DEF new
    <2>1. r.asked[i] = new(i)
      BY <1>3, Zenon
    <2> QED
      BY <1>7, <2>1
  <1>4. /\ DOMAIN r.items = DOMAIN its /\ r.items = [i \in DOMAIN r.items |-> r.items[i]]
        /\ DOMAIN r.langs = DOMAIN spo /\ r.langs = [i \in DOMAIN r.langs |-> r.langs[i]]
    BY <1>3
  <1>5. IsList(r.items) /\ IsList(r.langs)
    BY <1>2, <1>4, MappedIsList
  <1>6. ASSUME NEW i \in DOMAIN r.items, r.asked[i]
        PROVE  ~KnownIn(d.basis, r.items[i])
    <2>1. i \in DOMAIN its /\ ~its[i].exists /\ r.items[i] = its[i].item
      BY <1>3, <1>4, <1>6, <1>7
    <2>2. PICK k \in DOMAIN d.items : its[i] = d.items[k]
      BY <1>2, <2>1
    <2> QED
      BY <2>1, <2>2 DEF DraftRight
  <1> QED
    BY <1>5, <1>6, <1>11 DEF RequestRight, r

-----------------------------------------------------------------------------
(* The invariant. *)

ReviewShape ==
    /\ IsList(saved) /\ IsList(langs)
    /\ \A n \in DOMAIN skills : skills[n].gone \in BOOLEAN
    /\ DOMAIN fields = Fields /\ DOMAIN wanted = Fields
    /\ DOMAIN draft = Tabs /\ DOMAIN tx = Tabs

DraftsRight == \A p \in Tabs : draft[p] # <<>> => DraftRight(draft[p])

RequestsRight ==
    \A p \in Tabs : tx[p] # <<>> => draft[p] # <<>> /\ RequestRight(tx[p][1].request, draft[p].basis)

\* Who saves fields that were not what was wanted when they were read, or are not
\* any more, is one of those that undo them.
ReadAsWanted ==
    \A p \in Holding : \A f \in Fields : tx[p][1].fields[f] # wanted[f] => f \in undone

TakenByDeleted ==
    refused # <<>> /\ ~refused[1].old
        => \A n \in refused[1].names : n \in DOMAIN skills /\ skills[n].gone

ReviewInv ==
    /\ ReviewShape /\ DraftsRight /\ RequestsRight
    /\ NamesOnce /\ ProposedIsNew
    /\ FieldsAsWanted /\ ReadAsWanted
    /\ TakenByDeleted

LEMMA ReviewInvInit == ReviewInit => ReviewInv
  <1> SUFFICES ASSUME ReviewInit PROVE ReviewInv
    OBVIOUS
  <1> USE DEF ReviewInit
  <1>1. ReviewShape
    BY EmptyIsList DEF ReviewShape
  <1>2. DraftsRight /\ RequestsRight
    BY DEF DraftsRight, RequestsRight
  <1>3. NamesOnce /\ ProposedIsNew
    BY EmptyIsList DEF NamesOnce, ProposedIsNew, Alive
  <1>4. FieldsAsWanted
    BY DEF FieldsAsWanted
  <1>5. ReadAsWanted /\ TakenByDeleted
    BY DEF ReadAsWanted, Holding, TakenByDeleted
  <1> QED
    BY <1>1, <1>2, <1>3, <1>4, <1>5 DEF ReviewInv

LEMMA ReviewInvMeans == ReviewInv => ReviewIsKept
  <1> SUFFICES ASSUME ReviewInv PROVE ReviewIsKept
    OBVIOUS
  <1>1. MonthsAreCounted
    BY DEF ReviewInv, DraftsRight, DraftRight, MonthsRight, MonthsAreCounted
  <1>2. RefusedForDeleted
    BY DEF ReviewInv, TakenByDeleted, RefusedForDeleted
  <1> QED
    BY <1>1, <1>2 DEF ReviewInv, ReviewIsKept

LEMMA ReviewRead ==
    ASSUME ReviewInv, NEW p \in Tabs, NEW d \in Documents, Read(p, d)
    PROVE  ReviewInv'
  <1> DEFINE new == MarkExisting(Normalize(d))
  <1>1. /\ DOMAIN draft' = Tabs
        /\ \A q \in Tabs : draft'[q] = IF q = p THEN new ELSE draft[q]
    BY DEF Read, ReviewInv, ReviewShape
  <1>2. DraftRight(new)
    BY NewDraftIsRight
  <1>3. draft[p] = <<>> /\ UNCHANGED <<saved, skills, langs, fields, tx, wanted, undone, refused>>
    BY DEF Read
  <1> HIDE DEF new
  <1> USE <1>3 DEF ReviewInv
  <1>4. ReviewShape'
    BY <1>1 DEF ReviewShape
  <1>5. DraftsRight'
    <2>1. \A q \in Tabs : draft'[q] # <<>> => DraftRight(draft'[q])
      BY <1>1, <1>2 DEF DraftsRight
    <2> QED
      BY <2>1 DEF DraftsRight, DraftRight, MonthsRight, Periods
  <1>6. RequestsRight'
    <2>1. \A q \in Tabs : tx[q] # <<>> => q # p
      BY DEF RequestsRight
    <2> QED
      BY <1>1, <2>1 DEF RequestsRight, RequestRight, KnownIn
  <1>7. NamesOnce' /\ ProposedIsNew'
    BY DEF NamesOnce, ProposedIsNew, Alive
  <1>8. FieldsAsWanted' /\ ReadAsWanted' /\ TakenByDeleted'
    BY DEF FieldsAsWanted, ReadAsWanted, Holding, TakenByDeleted
  <1> QED
    BY <1>4, <1>5, <1>6, <1>7, <1>8

LEMMA ReviewBegin ==
    ASSUME ReviewInv, NEW p \in Tabs, NEW all, NEW ticked, NEW typed \in Additions,
           BeginApply(p, Request(draft[p], all, ticked, typed))
    PROVE  ReviewInv'
  <1> DEFINE r == Request(draft[p], all, ticked, typed)
             new == <<[request |-> r, fields |-> fields, skills |-> skills, langs |-> langs]>>
  <1>1. /\ DOMAIN tx' = Tabs
        /\ \A q \in Tabs : tx'[q] = IF q = p THEN new ELSE tx[q]
    BY DEF BeginApply, ReviewInv, ReviewShape
  <1>2. /\ draft[p] # <<>>
        /\ UNCHANGED <<saved, skills, langs, fields, draft, wanted, undone, refused>>
    BY DEF BeginApply
  <1>3. new[1].request = r /\ new[1].fields = fields
    OBVIOUS
  <1> HIDE DEF r, new
  <1> USE <1>2 DEF ReviewInv
  <1>4. ReviewShape' /\ DraftsRight'
    BY <1>1 DEF ReviewShape, DraftsRight
  <1>5. RequestsRight'
    <2>1. RequestRight(r, draft[p].basis)
      BY RequestsAreRight DEF DraftsRight, r
    <2>2. \A q \in Tabs : tx'[q] # <<>> => draft[q] # <<>> /\ RequestRight(tx'[q][1].request, draft[q].basis)
      BY <1>1, <1>3, <2>1 DEF RequestsRight
    <2> QED
      BY <2>2 DEF RequestsRight
  <1>6. NamesOnce' /\ ProposedIsNew' /\ FieldsAsWanted' /\ TakenByDeleted'
    BY DEF NamesOnce, ProposedIsNew, Alive, FieldsAsWanted, TakenByDeleted
  <1>7. ReadAsWanted'
    <2>1. \A q \in Tabs : q # p => (q \in Holding' <=> q \in Holding)
      BY <1>1 DEF Holding
    <2>2. \A q \in Holding' : q \in Tabs
      BY DEF Holding
    <2>3. \A q \in Holding' : \A f \in Fields : tx'[q][1].fields[f] # wanted[f] => f \in undone
      BY <1>1, <1>3, <2>1, <2>2 DEF ReadAsWanted, FieldsAsWanted
    <2> QED
      BY <2>3 DEF ReadAsWanted
  <1> QED
    BY <1>4, <1>5, <1>6, <1>7

-----------------------------------------------------------------------------
(* What saving a request makes of each part. *)

LEMMA ChosenAreDistinct ==
    ASSUME NEW list, IsList(list), NEW key, DOMAIN key = DOMAIN list,
           NEW i \in Firsts(key), NEW j \in Firsts(key), i # j
    PROVE  key[i] # key[j]
  <1>1. i \in DOMAIN key /\ j \in DOMAIN key /\ i \in Nat /\ j \in Nat
    BY FiniteDomain DEF Firsts
  <1>2. i < j \/ j < i
    BY <1>1
  <1> QED
    BY <1>1, <1>2 DEF Firsts

LEMMA NewSkillsAreDistinct ==
    ASSUME NEW t, IsList(t.request.skills), NEW x \in NewSkills(t), NEW y \in NewSkills(t),
           CanonKey(x.name) = CanonKey(y.name)
    PROVE  x = y
  <1> DEFINE list == t.request.skills
             key == SkillKeys(list)
  <1>1. DOMAIN key = DOMAIN list /\ \A i \in DOMAIN list : key[i] = CanonKey(list[i].name)
    BY DEF SkillKeys
  <1>2. PICK i \in Firsts(key) : x = list[i]
    BY DEF NewSkills, RatedSkills, Chosen
  <1>3. PICK j \in Firsts(key) : y = list[j]
    BY DEF NewSkills, RatedSkills, Chosen
  <1>4. i \in DOMAIN list /\ j \in DOMAIN list
    BY <1>1 DEF Firsts
  <1> HIDE DEF key, list
  <1>5. key[i] = key[j]
    BY <1>1, <1>2, <1>3, <1>4
  <1>6. i = j
    <2>1. IsList(list)
      BY DEF list
    <2> QED
      BY <1>1, <1>5, <2>1, ChosenAreDistinct
  <1> QED
    BY <1>2, <1>3, <1>6

LEMMA SkillsApplied ==
    ASSUME NEW t
    PROVE  LET new == ApplySkills(t)
           IN  /\ DOMAIN new = DOMAIN skills \cup {s.name : s \in NewSkills(t)}
               /\ \A n \in DOMAIN skills : new[n].gone = skills[n].gone /\ new[n].by = skills[n].by
               /\ \A n \in DOMAIN new \ DOMAIN skills :
                     new[n].gone \in BOOLEAN /\ (t.skills # skills => new[n].by = "raced")
  <1> DEFINE changed(n) == {s \in RatedSkills(t) : /\ SkillRow(t.skills, s.name) # {}
                                                   /\ TheRow(SkillRow(t.skills, s.name)) = n
                                                   /\ t.skills[n].level # s.level}
             by == IF t.skills = skills THEN "import" ELSE "raced"
             given(n) == (CHOOSE s \in NewSkills(t) : s.name = n).level
             level(n) == TheRow(changed(n)).level
             new == ApplySkills(t)
             D == DOMAIN skills \cup {s.name : s \in NewSkills(t)}
  <1>1. new = [n \in D |-> IF n \notin DOMAIN skills
                           THEN [level |-> given(n), gone |-> FALSE, by |-> by]
                           ELSE IF changed(n) # {}
                           THEN [level |-> level(n), gone |-> skills[n].gone, by |-> skills[n].by]
                           ELSE skills[n]]
    BY DEF ApplySkills
  <1>2. DOMAIN skills \subseteq D
    OBVIOUS
  <1>3. t.skills # skills => by = "raced"
    OBVIOUS
  <1> HIDE DEF changed, given, level, D, by, new
  <1>4. DOMAIN new = D
    BY <1>1
  <1>5. \A n \in DOMAIN skills : new[n].gone = skills[n].gone /\ new[n].by = skills[n].by
    BY <1>1, <1>2
  <1>6. \A n \in D \ DOMAIN skills : new[n] = [level |-> given(n), gone |-> FALSE, by |-> by]
    BY <1>1
  <1>7. \A n \in D \ DOMAIN skills : new[n].gone \in BOOLEAN /\ new[n].by = by
    <2>1. ASSUME NEW n \in D \ DOMAIN skills, NEW b \in BOOLEAN,
                 new[n] = [level |-> given(n), gone |-> b, by |-> by]
          PROVE  new[n].gone \in BOOLEAN /\ new[n].by = by
      BY <2>1
    <2>2. FALSE \in BOOLEAN
      OBVIOUS
    <2> QED
      BY <1>6, <2>1, <2>2
  <1> QED
    BY <1>3, <1>4, <1>5, <1>7 DEF D, new

LEMMA SkillsStayOnce ==
    ASSUME NamesOnce, ReviewShape, NEW t, IsList(t.request.skills), skills' = ApplySkills(t)
    PROVE  /\ \A m, n \in Alive' :
                 m # n /\ CanonKey(m) = CanonKey(n) => {skills'[m].by, skills'[n].by} \cap {"hand", "raced"} # {}
           /\ \A n \in DOMAIN skills' : skills'[n].gone \in BOOLEAN
           /\ \A n \in DOMAIN skills : n \in DOMAIN skills' /\ skills'[n].gone = skills[n].gone
  <1>1. /\ DOMAIN skills' = DOMAIN skills \cup {s.name : s \in NewSkills(t)}
        /\ \A n \in DOMAIN skills : skills'[n].gone = skills[n].gone /\ skills'[n].by = skills[n].by
        /\ \A n \in DOMAIN skills' \ DOMAIN skills :
              skills'[n].gone \in BOOLEAN /\ (t.skills # skills => skills'[n].by = "raced")
    BY SkillsApplied
  <1>2. \A n \in Alive' : n \in DOMAIN skills => n \in Alive
    BY <1>1 DEF Alive
  <1>3. ASSUME NEW m \in Alive', NEW n \in Alive', m # n, CanonKey(m) = CanonKey(n), m \notin DOMAIN skills
        PROVE  skills'[m].by = "raced"
    <2>1. PICK x \in NewSkills(t) : x.name = m
      BY <1>1, <1>3 DEF Alive
    <2>2. CASE n \notin DOMAIN skills
      <3>1. PICK y \in NewSkills(t) : y.name = n
        BY <1>1, <1>3, <2>2 DEF Alive
      <3>2. x = y
        BY <1>3, <2>1, <3>1, NewSkillsAreDistinct
      <3> QED
        BY <1>3, <2>1, <3>1, <3>2
    <2>3. CASE n \in DOMAIN skills
      <3>1. n \in Alive
        BY <1>2, <2>3
      <3>2. n \in SkillRow(skills, m)
        BY <1>3, <3>1 DEF SkillRow, Alive
      <3>3. SkillRow(t.skills, m) = {}
        BY <2>1 DEF NewSkills
      <3>4. t.skills # skills
        BY <3>2, <3>3
      <3> QED
        BY <1>1, <1>3, <3>4 DEF Alive
    <2> QED
      BY <2>2, <2>3
  <1>4. ASSUME NEW m \in Alive', NEW n \in Alive', m # n, CanonKey(m) = CanonKey(n)
        PROVE  {skills'[m].by, skills'[n].by} \cap {"hand", "raced"} # {}
    <2>1. CASE m \notin DOMAIN skills
      BY <1>3, <1>4, <2>1
    <2>2. CASE n \notin DOMAIN skills
      BY <1>3, <1>4, <2>2
    <2>3. CASE m \in DOMAIN skills /\ n \in DOMAIN skills
      <3>1. m \in Alive /\ n \in Alive
        BY <1>2, <2>3
      <3>2. {skills[m].by, skills[n].by} \cap {"hand", "raced"} # {}
        BY <1>4, <3>1 DEF NamesOnce
      <3> QED
        BY <1>1, <2>3, <3>2
    <2> QED
      BY <2>1, <2>2, <2>3
  <1>5. \A n \in DOMAIN skills' : skills'[n].gone \in BOOLEAN
    BY <1>1 DEF ReviewShape
  <1> QED
    BY <1>1, <1>4, <1>5

LEMMA LanguagesStayOnce ==
    ASSUME NamesOnce, ReviewShape, NEW t, IsList(t.request.langs), NEW new, new = ApplyLanguages(t)
    PROVE  /\ IsList(new)
           /\ \A i, k \in DOMAIN new : i < k /\ new[i].code = new[k].code => new[k].by = "raced"
  <1> DEFINE asked == t.request.langs
             changed(k) == {l \in Chosen(asked, Codes(asked)) : /\ LanguageRow(t.langs, l.code) # {}
                                                                /\ TheRow(LanguageRow(t.langs, l.code)) = k
                                                                /\ t.langs[k].level # l.level}
             I == {i \in Firsts(Codes(asked)) : LanguageRow(t.langs, asked[i].code) = {}}
             add == Picked(asked, I)
             by == IF t.langs = langs THEN "import" ELSE "raced"
             level(k) == TheRow(changed(k)).level
             one == [k \in DOMAIN langs |-> IF changed(k) # {}
                                            THEN [code |-> langs[k].code, level |-> level(k), by |-> langs[k].by]
                                            ELSE langs[k]]
             two == [i \in DOMAIN add |-> [code |-> add[i].code, level |-> add[i].level, by |-> by]]
  <1>1. new = one \o two
    BY DEF ApplyLanguages
  <1>2. \A k \in DOMAIN langs : one[k].code = langs[k].code /\ one[k].by = langs[k].by
    <2> HIDE DEF changed, level
    <2> QED
      OBVIOUS
  <1>3. DOMAIN one = DOMAIN langs /\ one = [k \in DOMAIN one |-> one[k]]
    <2> HIDE DEF changed, level
    <2> QED
      OBVIOUS
  <1>4. DOMAIN two = DOMAIN add /\ two = [k \in DOMAIN two |-> two[k]]
        /\ \A i \in DOMAIN add : two[i].code = add[i].code /\ two[i].by = by
    <2> HIDE DEF add, by
    <2> QED
      OBVIOUS
  <1>5. DOMAIN Codes(asked) = DOMAIN asked /\ \A i \in DOMAIN asked : Codes(asked)[i] = asked[i].code
    BY DEF Codes
  <1>6. I \in SUBSET DOMAIN asked
    BY <1>5 DEF Firsts
  <1>7. \A i \in I : i \in Firsts(Codes(asked)) /\ i \in DOMAIN asked /\ LanguageRow(t.langs, asked[i].code) = {}
    BY <1>6
  <1>8. t.langs # langs => by = "raced"
    OBVIOUS
  <1>9. IsList(asked)
    OBVIOUS
  <1> HIDE DEF asked, I, by, one, two
  <1>10. /\ IsList(add)
         /\ \A k \in DOMAIN add : \E i \in I : add[k] = asked[i]
         /\ \A j, k \in DOMAIN add : j # k => \E x, y \in I : x # y /\ add[j] = asked[x] /\ add[k] = asked[y]
    BY <1>6, <1>9, PickedIsList
  <1> HIDE DEF add
  <1>11. IsList(one) /\ IsList(two) /\ Len(one) = Len(langs) /\ Len(two) = Len(add)
    BY <1>3, <1>4, <1>10, MappedIsList DEF ReviewShape
  <1>12. /\ IsList(new) /\ DOMAIN new = 1..(Len(one) + Len(two))
         /\ \A i \in DOMAIN new : new[i] = IF i <= Len(one) THEN one[i] ELSE two[i - Len(one)]
    <2> DEFINE u == one \o two
    <2>1. /\ IsList(u) /\ DOMAIN u = 1..(Len(one) + Len(two))
          /\ \A i \in 1..(Len(one) + Len(two)) : u[i] = IF i <= Len(one) THEN one[i] ELSE two[i - Len(one)]
      BY <1>11, ListsJoined
    <2>2. new = u
      BY <1>1
    <2> HIDE DEF u
    <2> QED
      BY <2>1, <2>2
  <1>13. /\ Len(one) \in Nat /\ Len(two) \in Nat
         /\ DOMAIN langs = 1..Len(one) /\ DOMAIN add = 1..Len(two)
    BY <1>3, <1>4, <1>11, ListFacts
  <1>14. ASSUME NEW i \in DOMAIN new, NEW k \in DOMAIN new, i < k, new[i].code = new[k].code
         PROVE  new[k].by = "raced"
    <2>1. CASE k <= Len(one)
      <3>1. i \in DOMAIN langs /\ k \in DOMAIN langs
        BY <1>12, <1>13, <1>14, <2>1
      <3>2. new[i].code = langs[i].code /\ new[k].code = langs[k].code /\ new[k].by = langs[k].by
        BY <1>2, <1>12, <1>13, <2>1, <3>1
      <3> QED
        BY <1>14, <3>1, <3>2 DEF NamesOnce
    <2>2. CASE ~(k <= Len(one)) /\ i <= Len(one)
      <3> DEFINE j == k - Len(one)
      <3>1. i \in DOMAIN langs /\ j \in DOMAIN add
        BY <1>12, <1>13, <2>2
      <3>2. new[i].code = langs[i].code /\ new[k].code = add[j].code /\ new[k].by = by
        BY <1>2, <1>4, <1>12, <2>2, <3>1
      <3>3. PICK x \in I : add[j] = asked[x]
        BY <1>10, <3>1
      <3>4. i \in LanguageRow(langs, asked[x].code)
        BY <1>14, <3>1, <3>2, <3>3 DEF LanguageRow
      <3>5. t.langs # langs
        BY <1>7, <3>3, <3>4
      <3> QED
        BY <1>8, <3>2, <3>5
    <2>3. CASE ~(k <= Len(one)) /\ ~(i <= Len(one))
      <3> DEFINE j == k - Len(one)
                 h == i - Len(one)
      <3>1. j \in DOMAIN add /\ h \in DOMAIN add /\ j # h
        BY <1>12, <1>13, <1>14, <2>3
      <3>2. new[i].code = add[h].code /\ new[k].code = add[j].code
        BY <1>4, <1>12, <2>3, <3>1
      <3> HIDE DEF j, h
      <3>3. PICK x, y \in I : x # y /\ add[h] = asked[x] /\ add[j] = asked[y]
        BY <1>10, <3>1
      <3>4. Codes(asked)[x] # Codes(asked)[y]
        BY <1>5, <1>7, <1>9, <3>3, ChosenAreDistinct
      <3> QED
        BY <1>5, <1>7, <1>14, <3>2, <3>3, <3>4
    <2> QED
      BY <2>1, <2>2, <2>3
  <1> QED
    BY <1>12, <1>14

LEMMA ItemsStayNew ==
    ASSUME ProposedIsNew, ReviewShape, NEW p \in Tabs, NEW r, RequestRight(r, draft[p].basis),
           saved' = ApplyItems(p, r)
    PROVE  IsList(saved') /\ ProposedIsNew'
  <1> DEFINE new(i) == /\ r.asked[i] /\ draft[p].basis = saved
                       /\ \A j \in 1..(i - 1) : ItemKey(r.items[j]) # ItemKey(r.items[i])
             row(i) == [section |-> r.items[i].section, key |-> r.items[i].key, start |-> r.items[i].start,
                        proposed |-> new(i)]
             two == [i \in DOMAIN r.items |-> row(i)]
  <1>1. saved' = saved \o two
    BY DEF ApplyItems
  <1>2. ASSUME NEW i \in DOMAIN r.items
        PROVE  two[i].proposed => new(i)
    <2> HIDE DEF new
    <2> QED
      BY Zenon
  <1>3. ASSUME NEW i \in DOMAIN r.items
        PROVE  ItemKey(two[i]) = ItemKey(r.items[i])
    <2> HIDE DEF new
    <2>1. two[i].section = r.items[i].section /\ two[i].key = r.items[i].key /\ two[i].start = r.items[i].start
      OBVIOUS
    <2> HIDE DEF two
    <2> QED
      BY <2>1 DEF ItemKey
  <1>4. DOMAIN two = DOMAIN r.items /\ two = [i \in DOMAIN two |-> two[i]]
    <2> HIDE DEF new
    <2> QED
      OBVIOUS
  <1>5. ASSUME NEW i \in DOMAIN r.items, new(i)
        PROVE  /\ ~KnownIn(saved, r.items[i])
               /\ \A j \in 1..(i - 1) : ItemKey(r.items[j]) # ItemKey(r.items[i])
    BY <1>5 DEF RequestRight
  <1> HIDE DEF two, new
  <1>6. IsList(r.items) /\ IsList(saved)
    BY DEF RequestRight, ReviewShape
  <1>7. IsList(two) /\ Len(two) = Len(r.items)
    BY <1>4, <1>6, MappedIsList
  <1>8. /\ Len(saved) \in Nat /\ DOMAIN saved = 1..Len(saved)
        /\ Len(two) \in Nat /\ DOMAIN two = 1..Len(two)
    BY <1>6, <1>7, ListFacts
  <1> DEFINE u == saved \o two
             n == Len(saved)
  <1>9. /\ IsList(u) /\ DOMAIN u = 1..(n + Len(two))
        /\ \A i \in 1..(n + Len(two)) : u[i] = IF i <= n THEN saved[i] ELSE two[i - n]
    BY <1>6, <1>7, ListsJoined
  <1> HIDE DEF u
  <1>10. ASSUME NEW i \in DOMAIN u, NEW k \in DOMAIN u, i < k, ItemKey(u[i]) = ItemKey(u[k]), u[k].proposed
         PROVE  FALSE
    <2>1. CASE k <= n
      <3>1. i \in DOMAIN saved /\ k \in DOMAIN saved /\ u[i] = saved[i] /\ u[k] = saved[k]
        BY <1>8, <1>9, <1>10, <2>1
      <3> QED
        BY <1>10, <3>1 DEF ProposedIsNew
    <2>2. CASE ~(k <= n)
      <3> DEFINE b == k - n
      <3>1. b \in DOMAIN two /\ u[k] = two[b] /\ b \in Nat
        BY <1>8, <1>9, <2>2
      <3>2. new(b) /\ ItemKey(u[k]) = ItemKey(r.items[b])
        BY <1>2, <1>3, <1>4, <1>10, <3>1
      <3>3. CASE i <= n
        <4>1. i \in DOMAIN saved /\ u[i] = saved[i]
          BY <1>8, <1>9, <3>3
        <4> HIDE DEF b
        <4> QED
          BY <1>4, <1>5, <1>10, <3>1, <3>2, <4>1 DEF KnownIn
      <3>4. CASE ~(i <= n)
        <4> DEFINE a == i - n
        <4>1. a \in DOMAIN two /\ u[i] = two[a] /\ a \in 1..(b - 1)
          BY <1>8, <1>9, <1>10, <2>2, <3>4
        <4> HIDE DEF a, b
        <4>2. ItemKey(u[i]) = ItemKey(r.items[a])
          BY <1>3, <1>4, <4>1
        <4> QED
          BY <1>4, <1>5, <1>10, <3>1, <3>2, <4>1, <4>2
      <3> QED
        BY <3>3, <3>4
    <2> QED
      BY <2>1, <2>2
  <1>11. saved' = u
    BY <1>1 DEF u
  <1>12. ProposedIsNew'
    <2>1. \A i, k \in DOMAIN u : i < k /\ ItemKey(u[i]) = ItemKey(u[k]) => ~u[k].proposed
      BY <1>10
    <2> QED
      BY <1>11, <2>1 DEF ProposedIsNew, ItemKey
  <1> QED
    BY <1>9, <1>11, <1>12

LEMMA FieldsStayWanted ==
    ASSUME ReviewInv, NEW p \in Tabs, tx[p] # <<>>, NEW r, r = tx[p][1].request,
           fields' = IF DOMAIN r.fields = {} THEN fields ELSE Pick(r, tx[p][1].fields),
           wanted' = [f \in Fields |-> IF f \in DOMAIN r.fields THEN r.fields[f] ELSE wanted[f]],
           undone' = IF Holding \ {p} # {} THEN undone \cup DOMAIN r.fields ELSE undone \ DOMAIN r.fields,
           tx' = [tx EXCEPT ![p] = <<>>]
    PROVE  /\ DOMAIN fields' = Fields /\ DOMAIN wanted' = Fields /\ DOMAIN tx' = Tabs
           /\ FieldsAsWanted' /\ ReadAsWanted'
  <1> DEFINE named == DOMAIN r.fields
             read == tx[p][1].fields
  <1>1. DOMAIN fields = Fields /\ DOMAIN wanted = Fields /\ DOMAIN tx = Tabs
    BY DEF ReviewInv, ReviewShape
  <1>2. DOMAIN fields' = Fields /\ DOMAIN wanted' = Fields /\ DOMAIN tx' = Tabs
    BY <1>1 DEF Pick
  <1>3. p \in Holding <=> named # {}
    BY DEF Holding
  <1>4. \A f \in Fields : wanted'[f] = IF f \in named THEN r.fields[f] ELSE wanted[f]
    OBVIOUS
  <1>5. \A f \in Fields : f \notin named => (f \in undone => f \in undone')
    OBVIOUS
  <1>6. ASSUME NEW f \in Fields, fields'[f] # wanted'[f]
        PROVE  f \in undone'
    <2>1. CASE named = {}
      <3>1. fields'[f] = fields[f] /\ wanted'[f] = wanted[f]
        BY <1>4, <2>1
      <3> QED
        BY <1>5, <1>6, <2>1, <3>1 DEF ReviewInv, FieldsAsWanted
    <2>2. CASE named # {}
      <3>1. fields'[f] = IF f \in named THEN r.fields[f] ELSE read[f]
        BY <2>2 DEF Pick
      <3>2. f \notin named /\ read[f] # wanted[f]
        BY <1>4, <1>6, <3>1
      <3>3. f \in undone
        BY <1>3, <2>2, <3>2 DEF ReviewInv, ReadAsWanted
      <3> QED
        BY <1>5, <3>2, <3>3
    <2> QED
      BY <2>1, <2>2
  <1>7. \A q \in Tabs : tx'[q] = IF q = p THEN <<>> ELSE tx[q]
    BY <1>1
  <1>8. \A q \in Holding' : q \in Tabs /\ q # p /\ q \in Holding /\ tx'[q] = tx[q]
    BY <1>7 DEF Holding
  <1>9. ASSUME NEW q \in Holding', NEW f \in Fields, tx'[q][1].fields[f] # wanted'[f]
        PROVE  f \in undone'
    <2>1. Holding \ {p} # {} /\ q \in Holding /\ tx'[q] = tx[q]
      BY <1>8
    <2>2. undone' = undone \cup named
      BY <2>1
    <2>3. CASE f \in named
      BY <2>2, <2>3
    <2>4. CASE f \notin named
      <3>1. f \in undone
        BY <1>4, <1>9, <2>1, <2>4 DEF ReviewInv, ReadAsWanted
      <3> QED
        BY <2>2, <3>1
    <2> QED
      BY <2>3, <2>4
  <1>10. FieldsAsWanted'
    BY <1>6 DEF FieldsAsWanted
  <1>11. ReadAsWanted'
    BY <1>9 DEF ReadAsWanted
  <1> QED
    BY <1>2, <1>10, <1>11

LEMMA OthersKeepDrafts ==
    ASSUME ReviewInv, NEW p \in Tabs, tx' = [tx EXCEPT ![p] = <<>>],
           draft' = draft \/ draft' = [draft EXCEPT ![p] = <<>>]
    PROVE  DOMAIN draft' = Tabs /\ DOMAIN tx' = Tabs /\ DraftsRight' /\ RequestsRight'
  <1>1. DOMAIN draft = Tabs /\ DOMAIN tx = Tabs
    BY DEF ReviewInv, ReviewShape
  <1>2. DOMAIN draft' = Tabs /\ \A q \in Tabs : draft'[q] # <<>> => draft'[q] = draft[q]
    BY <1>1
  <1>3. \A q \in Tabs : q # p => draft'[q] = draft[q]
    BY <1>1
  <1>4. DOMAIN tx' = Tabs /\ \A q \in Tabs : tx'[q] # <<>> => tx'[q] = tx[q] /\ q # p
    BY <1>1
  <1>5. \A q \in Tabs : draft'[q] # <<>> => DraftRight(draft'[q])
    BY <1>2 DEF ReviewInv, DraftsRight
  <1>6. DraftsRight'
    BY <1>5 DEF DraftsRight
  <1>7. RequestsRight'
    BY <1>3, <1>4 DEF ReviewInv, RequestsRight
  <1> QED
    BY <1>2, <1>4, <1>6, <1>7

LEMMA ReviewRefuse ==
    ASSUME ReviewInv, NEW p \in Tabs, tx[p] # <<>>,
           Refuse(p, {s.name : s \in NewSkills(tx[p][1])} \cap DOMAIN skills)
    PROVE  ReviewInv'
  <1> DEFINE t == tx[p][1]
             taken == {s.name : s \in NewSkills(t)} \cap DOMAIN skills
  <1>1. /\ refused' = <<[names |-> taken, old |-> skills # t.skills]>>
        /\ tx' = [tx EXCEPT ![p] = <<>>]
        /\ UNCHANGED <<saved, skills, langs, fields, draft, edits, wanted, undone>>
    BY DEF Refuse
  <1>2. DOMAIN tx' = Tabs /\ DraftsRight' /\ RequestsRight'
    BY <1>1, OthersKeepDrafts
  <1>3. ReviewShape'
    BY <1>1, <1>2 DEF ReviewInv, ReviewShape
  <1>4. NamesOnce' /\ ProposedIsNew' /\ FieldsAsWanted'
    BY <1>1 DEF ReviewInv, NamesOnce, ProposedIsNew, FieldsAsWanted, Alive
  <1>5. ReadAsWanted'
    <2>1. \A q \in Tabs : tx'[q] = IF q = p THEN <<>> ELSE tx[q]
      BY <1>1 DEF ReviewInv, ReviewShape
    <2>2. \A q \in Holding' : q \in Holding /\ tx'[q] = tx[q]
      BY <2>1 DEF Holding
    <2> QED
      BY <1>1, <2>2 DEF ReviewInv, ReadAsWanted
  <1>6. TakenByDeleted'
    <2>1. refused'[1].names = taken /\ (~refused'[1].old => skills = t.skills)
      <3> DEFINE old == skills # t.skills
      <3>1. refused'[1].names = taken
        BY <1>1
      <3>2. ASSUME NEW b \in BOOLEAN, refused'[1] = [names |-> taken, old |-> b]
            PROVE  ~refused'[1].old => ~b
        <4> HIDE DEF taken
        <4> QED
          BY <3>2
      <3>3. old \in BOOLEAN /\ refused'[1] = [names |-> taken, old |-> old]
        BY <1>1
      <3>4. ~old => skills = t.skills
        OBVIOUS
      <3> HIDE DEF old, taken
      <3> QED
        BY <3>1, <3>2, <3>3, <3>4
    <2>2. ASSUME NEW n \in taken, skills = t.skills
          PROVE  skills[n].gone
      <3>1. PICK s \in NewSkills(t) : s.name = n
        OBVIOUS
      <3>2. SkillRow(skills, n) = {} /\ n \in DOMAIN skills
        BY <2>2, <3>1 DEF NewSkills
      <3> QED
        BY <3>2 DEF SkillRow
    <2>3. \A n \in taken : n \in DOMAIN skills
      OBVIOUS
    <2> HIDE DEF taken, t
    <2>4. skills' = skills
      BY <1>1
    <2> QED
      BY <2>1, <2>2, <2>3, <2>4 DEF TakenByDeleted
  <1> QED
    BY <1>2, <1>3, <1>4, <1>5, <1>6 DEF ReviewInv

LEMMA ReviewEnd ==
    ASSUME ReviewInv, NEW p \in Tabs, EndApply(p)
    PROVE  ReviewInv'
  <1> DEFINE t == tx[p][1]
             r == t.request
             taken == {s.name : s \in NewSkills(t)} \cap DOMAIN skills
  <1>1. CASE taken # {}
    <2>1. tx[p] # <<>> /\ Refuse(p, taken)
      BY <1>1 DEF EndApply
    <2> QED
      BY <2>1, ReviewRefuse
  <1>2. CASE taken = {}
    <2>1. /\ tx[p] # <<>>
          /\ saved' = ApplyItems(p, r) /\ skills' = ApplySkills(t) /\ langs' = ApplyLanguages(t)
          /\ fields' = IF DOMAIN r.fields = {} THEN fields ELSE Pick(r, t.fields)
          /\ wanted' = [f \in Fields |-> IF f \in DOMAIN r.fields THEN r.fields[f] ELSE wanted[f]]
          /\ undone' = IF Holding \ {p} # {} THEN undone \cup DOMAIN r.fields ELSE undone \ DOMAIN r.fields
          /\ tx' = [tx EXCEPT ![p] = <<>>] /\ draft' = [draft EXCEPT ![p] = <<>>]
          /\ refused' = refused
      BY <1>2 DEF EndApply
    <2>2. RequestRight(r, draft[p].basis)
      BY <2>1 DEF ReviewInv, RequestsRight
    <2>3. DOMAIN draft' = Tabs /\ DOMAIN tx' = Tabs /\ DraftsRight' /\ RequestsRight'
      BY <2>1, OthersKeepDrafts
    <2>4. IsList(saved') /\ ProposedIsNew'
      <3> HIDE DEF r
      <3> QED
        BY <2>1, <2>2, ItemsStayNew DEF ReviewInv
    <2>5. /\ \A m, n \in Alive' :
                m # n /\ CanonKey(m) = CanonKey(n) => {skills'[m].by, skills'[n].by} \cap {"hand", "raced"} # {}
          /\ \A n \in DOMAIN skills' : skills'[n].gone \in BOOLEAN
          /\ \A n \in DOMAIN skills : n \in DOMAIN skills' /\ skills'[n].gone = skills[n].gone
      <3>1. IsList(t.request.skills)
        BY <2>2 DEF RequestRight
      <3> HIDE DEF t
      <3> QED
        BY <2>1, <3>1, SkillsStayOnce DEF ReviewInv
    <2>6. /\ IsList(langs')
          /\ \A i, k \in DOMAIN langs' : i < k /\ langs'[i].code = langs'[k].code => langs'[k].by = "raced"
      <3>1. IsList(t.request.langs)
        BY <2>2 DEF RequestRight
      <3> HIDE DEF t
      <3> QED
        BY <2>1, <3>1, LanguagesStayOnce DEF ReviewInv
    <2>7. NamesOnce'
      BY <2>5, <2>6 DEF NamesOnce
    <2>8. /\ DOMAIN fields' = Fields /\ DOMAIN wanted' = Fields
          /\ FieldsAsWanted' /\ ReadAsWanted'
      BY <2>1, FieldsStayWanted
    <2>9. TakenByDeleted'
      BY <2>1, <2>5 DEF ReviewInv, TakenByDeleted
    <2>10. ReviewShape'
      BY <2>3, <2>4, <2>5, <2>6, <2>8 DEF ReviewShape
    <2> QED
      BY <2>3, <2>4, <2>7, <2>8, <2>9, <2>10 DEF ReviewInv
  <1> QED
    BY <1>1, <1>2

LEMMA ReviewByHand ==
    ASSUME ReviewInv,
           \/ \E n \in Typed \cup DOMAIN skills : AddSkillByHand(n) \/ DeleteSkillByHand(n)
           \/ \E f \in Fields : EditField(f)
    PROVE  ReviewInv'
  <1>1. CASE \E n \in Typed \cup DOMAIN skills : AddSkillByHand(n)
    <2>1. PICK n \in Typed \cup DOMAIN skills : AddSkillByHand(n)
      BY <1>1
    <2>2. /\ n \notin DOMAIN skills
          /\ DOMAIN skills' = DOMAIN skills \cup {n}
          /\ \A m \in DOMAIN skills : skills'[m] = skills[m]
          /\ skills'[n] = [level |-> "basic", gone |-> FALSE, by |-> "hand"]
      BY <2>1 DEF AddSkillByHand
    <2>3. UNCHANGED <<saved, langs, fields, draft, tx, wanted, undone, refused>>
      BY <2>1 DEF AddSkillByHand
    <2>4. skills'[n].by = "hand" /\ skills'[n].gone \in BOOLEAN
      <3>1. ASSUME NEW b \in BOOLEAN, skills'[n] = [level |-> "basic", gone |-> b, by |-> "hand"]
            PROVE  skills'[n].by = "hand" /\ skills'[n].gone \in BOOLEAN
        BY <3>1
      <3>2. FALSE \in BOOLEAN
        OBVIOUS
      <3> QED
        BY <2>2, <3>1, <3>2
    <2>5. ReviewShape'
      BY <2>2, <2>3, <2>4 DEF ReviewInv, ReviewShape
    <2>6. NamesOnce'
      <3>1. \A m \in Alive' : m = n \/ (m \in Alive /\ skills'[m] = skills[m])
        BY <2>2 DEF Alive
      <3>2. \A x, y \in Alive' : x # y /\ CanonKey(x) = CanonKey(y)
                => {skills'[x].by, skills'[y].by} \cap {"hand", "raced"} # {}
        BY <2>4, <3>1 DEF ReviewInv, NamesOnce
      <3> QED
        BY <2>3, <3>2 DEF ReviewInv, NamesOnce
    <2>7. TakenByDeleted'
      BY <2>2, <2>3 DEF ReviewInv, TakenByDeleted
    <2> QED
      BY <2>3, <2>5, <2>6, <2>7
         DEF ReviewInv, DraftsRight, RequestsRight, ProposedIsNew, FieldsAsWanted, ReadAsWanted, Holding
  <1>2. CASE \E n \in Typed \cup DOMAIN skills : DeleteSkillByHand(n)
    <2>1. PICK n \in Typed \cup DOMAIN skills : DeleteSkillByHand(n)
      BY <1>2
    <2>2. /\ n \in DOMAIN skills
          /\ DOMAIN skills' = DOMAIN skills
          /\ \A m \in DOMAIN skills : m # n => skills'[m] = skills[m]
          /\ skills'[n] = [level |-> skills[n].level, gone |-> TRUE, by |-> skills[n].by]
      BY <2>1 DEF DeleteSkillByHand
    <2>3. UNCHANGED <<saved, langs, fields, draft, tx, wanted, undone, refused>>
      BY <2>1 DEF DeleteSkillByHand
    <2>4. skills'[n].gone \in BOOLEAN /\ skills'[n].gone
      <3>1. ASSUME NEW b \in BOOLEAN, b,
                   skills'[n] = [level |-> skills[n].level, gone |-> b, by |-> skills[n].by]
            PROVE  skills'[n].gone \in BOOLEAN /\ skills'[n].gone
        BY <3>1
      <3>2. TRUE \in BOOLEAN
        OBVIOUS
      <3> QED
        BY <2>2, <3>1, <3>2
    <2>5. ReviewShape'
      BY <2>2, <2>3, <2>4 DEF ReviewInv, ReviewShape
    <2>6. NamesOnce'
      <3>1. \A m \in Alive' : m \in Alive /\ skills'[m] = skills[m]
        BY <2>2, <2>4 DEF Alive
      <3>2. \A x, y \in Alive' : x # y /\ CanonKey(x) = CanonKey(y)
                => {skills'[x].by, skills'[y].by} \cap {"hand", "raced"} # {}
        BY <3>1 DEF ReviewInv, NamesOnce
      <3> QED
        BY <2>3, <3>2 DEF ReviewInv, NamesOnce
    <2>7. TakenByDeleted'
      BY <2>2, <2>3, <2>4 DEF ReviewInv, TakenByDeleted
    <2> QED
      BY <2>3, <2>5, <2>6, <2>7
         DEF ReviewInv, DraftsRight, RequestsRight, ProposedIsNew, FieldsAsWanted, ReadAsWanted, Holding
  <1>3. CASE \E f \in Fields : EditField(f)
    <2>1. PICK f \in Fields : EditField(f)
      BY <1>3
    <2>2. /\ DOMAIN fields' = Fields /\ DOMAIN wanted' = Fields
          /\ \A g \in Fields : fields'[g] = (IF g = f THEN "by hand" ELSE fields[g])
          /\ \A g \in Fields : wanted'[g] = (IF g = f THEN "by hand" ELSE wanted[g])
          /\ undone' = IF Holding # {} THEN undone \cup {f} ELSE undone \ {f}
          /\ UNCHANGED <<saved, skills, langs, draft, tx, refused>>
      BY <2>1 DEF EditField, ReviewInv, ReviewShape
    <2>3. ReviewShape'
      BY <2>2 DEF ReviewInv, ReviewShape
    <2>4. FieldsAsWanted'
      <3>1. \A g \in Fields : fields'[g] # wanted'[g] => g # f /\ g \in undone
        BY <2>2 DEF ReviewInv, FieldsAsWanted
      <3> QED
        BY <2>2, <3>1 DEF FieldsAsWanted
    <2>5. ReadAsWanted'
      <3>1. \A q \in Holding' : q \in Holding /\ tx'[q] = tx[q]
        BY <2>2 DEF Holding
      <3>2. ASSUME NEW q \in Holding', NEW g \in Fields, tx'[q][1].fields[g] # wanted'[g]
            PROVE  g \in undone'
        <4>1. undone' = undone \cup {f}
          BY <2>2, <3>1
        <4>2. g = f \/ g \in undone
          BY <2>2, <3>1, <3>2 DEF ReviewInv, ReadAsWanted
        <4> QED
          BY <4>1, <4>2
      <3> QED
        BY <3>2 DEF ReadAsWanted
    <2>6. UNCHANGED <<saved, skills, langs, draft, tx, refused>>
      BY <2>2
    <2>7. DraftsRight' /\ RequestsRight'
      BY <2>6 DEF ReviewInv, DraftsRight, RequestsRight
    <2>8. NamesOnce' /\ ProposedIsNew' /\ TakenByDeleted'
      BY <2>6 DEF ReviewInv, NamesOnce, Alive, ProposedIsNew, TakenByDeleted
    <2> QED
      BY <2>3, <2>4, <2>5, <2>7, <2>8 DEF ReviewInv
  <1> QED
    BY <1>1, <1>2, <1>3

LEMMA ReviewInvNext == ReviewInv /\ [ReviewNext]_reviewVars => ReviewInv'
  <1> SUFFICES ASSUME ReviewInv, [ReviewNext]_reviewVars PROVE ReviewInv'
    OBVIOUS
  <1>1. ASSUME NEW p \in Tabs, NEW d \in Documents, Read(p, d) PROVE ReviewInv'
    BY <1>1, ReviewRead
  <1>2. ASSUME NEW p \in Tabs, NEW all \in BOOLEAN, NEW ticked, NEW typed \in Additions,
               BeginApply(p, Request(draft[p], all, ticked, typed))
        PROVE  ReviewInv'
    BY <1>2, ReviewBegin
  <1>3. ASSUME NEW p \in Tabs, EndApply(p) PROVE ReviewInv'
    BY <1>3, ReviewEnd
  <1>4. CASE UNCHANGED reviewVars
    BY <1>4 DEF reviewVars, ReviewInv, ReviewShape, DraftsRight, RequestsRight, NamesOnce, Alive,
                ProposedIsNew, FieldsAsWanted, ReadAsWanted, Holding, TakenByDeleted
  <1> QED
    BY <1>1, <1>2, <1>3, <1>4, ReviewByHand DEF ReviewNext

(* What the user reviews is what the profile gets, whatever the resumes    *)
(* say, however many reviews and changes by hand there are, and in         *)
(* whichever order their transactions read and write.                      *)
THEOREM ReviewIsKeptHolds == ReviewSpec => []ReviewIsKept
  <1>1. ReviewInit => ReviewInv
    BY ReviewInvInit
  <1>2. ReviewInv /\ [ReviewNext]_reviewVars => ReviewInv'
    BY ReviewInvNext
  <1>3. ReviewInv => ReviewIsKept
    BY ReviewInvMeans
  <1> QED
    BY <1>1, <1>2, <1>3, PTL DEF ReviewSpec
=============================================================================
