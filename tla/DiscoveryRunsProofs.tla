------------------------- MODULE DiscoveryRunsProofs -------------------------
(***************************************************************************)
(* The safety of the catalogue's sweeps for every number of clicks, users  *)
(* and keywords: one complete sweep at a time, no mark without a search    *)
(* behind it, and a scheduler that never waits on an outdated plan.  Then  *)
(* what the handlers show of the catalogue and of the jobs, for every      *)
(* profile, list, filter and page.                                         *)
(***************************************************************************)
EXTENDS DiscoveryRuns, JobLists, OrderingsProofs, TLAPS

Holding == {"loading", "searching", "leaving"}

Tables == DOMAIN pc = Runners /\ DOMAIN at = Runners

(* The flag is up while a sweep holds it.                                  *)
FlagIsHeld == \A r \in Sweepers : pc[r] \in Holding => full

(* What a planning scheduler has read so far is still so, or a signal is   *)
(* on its way.                                                             *)
SettingsAreKnown ==
    sched \in {"planned", "waiting"} => wake \/ unsaid \/ ~plan.known \/ plan.settings = settings
SweepIsKnown ==
    sched = "waiting" =>
        \/ wake \/ unsaid \/ ~plan.known
        \/ plan.last = last
        \/ \E r \in Sweepers : pc[r] \in {"leaving", "telling"}

FlagInv == Tables /\ FlagIsHeld /\ OneSweep
MarksInv == Tables /\ SkippedWasSearched
PlanInv == Tables /\ SettingsAreKnown /\ SweepIsKnown

LEMMA InitFlag ==
    ASSUME Init
    PROVE  FlagInv /\ MarksInv /\ PlanInv
  BY DEF Init, FlagInv, MarksInv, PlanInv, Tables, FlagIsHeld, Holding, OneSweep, SkippedWasSearched,
         SettingsAreKnown, SweepIsKnown, Sweepers, Runners

LEMMA SweepersAreNoUsers ==
    /\ \A u \in Users : u \notin Sweepers /\ u \in Runners
    /\ \A r \in Sweepers : r \in Runners /\ r \notin Users
    /\ Timer \in Sweepers
    /\ \A q \in Requests : q \in Sweepers /\ q # Timer
  BY RunnersAssumption DEF Sweepers, Runners

(* Nobody who is not holding the flag starts holding it, and it stays up.  *)
LEMMA NobodyTakesFlag ==
    ASSUME FlagInv, Tables', full' = full,
           \A r \in Sweepers : pc'[r] \in Holding => pc[r] \in Holding
    PROVE  FlagInv'
  BY DEF FlagInv, FlagIsHeld, OneSweep, Holding

LEMMA FlagStep ==
    ASSUME FlagInv, [Next]_vars
    PROVE  FlagInv'
  <1> USE DEF FlagInv, Tables
  <1>1. CASE Schedule
    BY <1>1, NobodyTakesFlag, SweepersAreNoUsers
       DEF Schedule, StartScheduler, NextWait, LastFullRun, TakeWake, TimerFires, Fault, Holding
  <1>2. CASE SaveSettings \/ SettingsChanged \/ (\E k \in Keys : HourPasses(k))
    BY <1>2, NobodyTakesFlag DEF SaveSettings, SettingsChanged, HourPasses
  <1>3. ASSUME NEW q \in Requests, RunNow(q) PROVE FlagInv'
    BY <1>3, NobodyTakesFlag DEF RunNow, Holding
  <1>4. ASSUME NEW u \in Users, RefreshUser(u) PROVE FlagInv'
    BY <1>4, NobodyTakesFlag, SweepersAreNoUsers DEF RefreshUser
  <1>5. ASSUME NEW r \in Runners, RunFull(r) PROVE FlagInv'
    <2>1. CASE full
      <3>1. pc' = [pc EXCEPT ![r] = "idle"] /\ full' = full /\ at' = at
        BY <1>5, <2>1 DEF RunFull, FlagFree
      <3> QED
        BY <3>1, NobodyTakesFlag DEF Holding
    <2>2. CASE ~full
      <3>1. full' /\ pc' = [pc EXCEPT ![r] = "loading"]
        BY <1>5, <2>2 DEF RunFull, FlagFree
      <3>2. \A q \in Sweepers : pc[q] \notin Holding
        BY <2>2 DEF FlagIsHeld
      <3>3. \A q \in Sweepers : pc'[q] \in Holding => q = r
        BY <3>1, <3>2 DEF Holding
      <3>4. Tables'
        BY <1>5, <3>1 DEF RunFull
      <3> QED
        BY <3>1, <3>3, <3>4 DEF FlagIsHeld, OneSweep, Holding
    <2> QED
      BY <2>1, <2>2
  <1>6. ASSUME NEW r \in Runners, LoadSettings(r) \/ LoadFails(r) PROVE FlagInv'
    <2>1. /\ pc[r] = "loading"
          /\ \E s \in {"searching", "leaving"} : pc' = [pc EXCEPT ![r] = s]
          /\ full' = full /\ at' = at
      BY <1>6 DEF LoadSettings, LoadFails, GiveUp
    <2> QED
      BY <2>1, NobodyTakesFlag DEF Holding
  <1>7. ASSUME NEW r \in Runners, NEW k \in Keys, Claim(r, k) \/ SearchEnds(r, k) \/ SearchFails(r, k)
        PROVE  FlagInv'
    BY <1>7, NobodyTakesFlag DEF Claim, SearchEnds, SearchFails, Release
  <1>8. ASSUME NEW r \in Runners, OutOfTime(r) \/ FinishRun(r) PROVE FlagInv'
    <2>1. CASE OutOfTime(r)
      BY <2>1, NobodyTakesFlag DEF OutOfTime
    <2>2. CASE FinishRun(r)
      <3>1. /\ pc[r] = "searching"
            /\ pc' = [pc EXCEPT ![r] = "leaving"]
            /\ full' = full /\ at' = at
        BY <2>2 DEF FinishRun
      <3> QED
        BY <3>1, NobodyTakesFlag DEF Holding
    <2> QED
      BY <1>8, <2>1, <2>2
  <1>9. ASSUME NEW r \in Runners, Leave(r) PROVE FlagInv'
    <2>1. CASE r \in Users
      BY <1>9, <2>1, NobodyTakesFlag, SweepersAreNoUsers DEF Leave
    <2>2. CASE r \notin Users
      <3>1. r \in Sweepers /\ pc[r] \in Holding /\ pc' = [pc EXCEPT ![r] = "telling"]
        BY <1>9, <2>2 DEF Leave, Runners, Holding
      <3>2. \A q \in Sweepers : pc'[q] \notin Holding
        BY <3>1 DEF OneSweep, Holding
      <3> QED
        BY <3>1, <3>2, <1>9 DEF FlagIsHeld, OneSweep, Holding, Leave
    <2> QED
      BY <2>1, <2>2
  <1>10. ASSUME NEW r \in Runners, Tell(r) PROVE FlagInv'
    BY <1>10, NobodyTakesFlag DEF Tell, Holding
  <1>11. CASE Restart
    <2>1. \A q \in Sweepers : pc'[q] \notin Holding
      BY <1>11, SweepersAreNoUsers DEF Restart, Holding
    <2> QED
      BY <1>11, <2>1 DEF Restart, FlagIsHeld, OneSweep, Holding
  <1>12. CASE UNCHANGED vars
    BY <1>12, NobodyTakesFlag DEF vars
  <1> QED
    BY <1>1, <1>2, <1>3, <1>4, <1>5, <1>6, <1>7, <1>8, <1>9, <1>10, <1>11, <1>12 DEF Next, Sweep

LEMMA MarksUntouched ==
    ASSUME MarksInv, UNCHANGED <<at, marks>>, Tables'
    PROVE  MarksInv'
  BY DEF MarksInv, SkippedWasSearched, marks

LEMMA MarksStep ==
    ASSUME MarksInv, [Next]_vars
    PROVE  MarksInv'
  <1> USE DEF MarksInv, Tables
  <1>1. CASE Schedule \/ SaveSettings \/ SettingsChanged
    BY <1>1, MarksUntouched
       DEF Schedule, StartScheduler, NextWait, LastFullRun, TakeWake, TimerFires, SaveSettings, SettingsChanged
  <1>2. ASSUME NEW r, RunNow(r) \/ RefreshUser(r) PROVE MarksInv'
    BY <1>2, MarksUntouched DEF RunNow, RefreshUser
  <1>3. ASSUME NEW r \in Runners, RunFull(r) \/ LoadSettings(r) \/ LoadFails(r) PROVE MarksInv'
    BY <1>3, MarksUntouched DEF RunFull, LoadSettings, LoadFails, GiveUp
  <1>4. ASSUME NEW r \in Runners, OutOfTime(r) \/ FinishRun(r) \/ Leave(r) \/ Tell(r) PROVE MarksInv'
    BY <1>4, MarksUntouched DEF OutOfTime, FinishRun, Leave, Tell
  <1>5. ASSUME NEW r \in Runners, NEW k \in Keys, Claim(r, k) PROVE MarksInv'
    <2>1. CASE r \in Sweepers \/ k \notin fetched
      <3>1. /\ fetched' = fetched \cup {k}
            /\ found' = found \ {k}
            /\ at' = [at EXCEPT ![r] = @ \cup {k}]
            /\ pc' = pc
        BY <1>5, <2>1 DEF Claim
      <3>2. k \in at'[r]
        BY <3>1
      <3>3. \A j \in fetched : j \in found => j \in found' \/ j = k
        BY <3>1
      <3>4. \A j \in fetched, q \in Runners : j \in at[q] => j \in at'[q]
        BY <3>1
      <3> QED
        BY <3>1, <3>2, <3>3, <3>4 DEF SkippedWasSearched
    <2>2. CASE ~(r \in Sweepers \/ k \notin fetched)
      BY <1>5, <2>2, MarksUntouched DEF Claim
    <2> QED
      BY <2>1, <2>2
  <1>6. ASSUME NEW r \in Runners, NEW k \in Keys, SearchEnds(r, k) PROVE MarksInv'
    <2>1. /\ fetched' = fetched
          /\ found' = found \cup ({k} \cap fetched)
          /\ at' = [at EXCEPT ![r] = @ \ {k}]
          /\ pc' = pc
      BY <1>6 DEF SearchEnds
    <2>2. \A j \in fetched, q \in Runners : j \in at[q] => j \in at'[q] \/ j = k
      BY <2>1
    <2> QED
      BY <2>1, <2>2 DEF SkippedWasSearched
  <1>7. ASSUME NEW r \in Runners, NEW k \in Keys, SearchFails(r, k) PROVE MarksInv'
    <2>1. /\ fetched' = fetched \ {k}
          /\ found' = found \ {k}
          /\ at' = [at EXCEPT ![r] = @ \ {k}]
          /\ pc' = pc
      BY <1>7 DEF SearchFails, Release
    <2>2. \A j \in fetched, q \in Runners : j \in at[q] => j \in at'[q] \/ j = k
      BY <2>1
    <2> QED
      BY <2>1, <2>2 DEF SkippedWasSearched
  <1>8. ASSUME NEW k \in Keys, HourPasses(k) PROVE MarksInv'
    BY <1>8 DEF HourPasses, Release, SkippedWasSearched
  <1>9. CASE Restart
    BY <1>9 DEF Restart, SkippedWasSearched
  <1>10. CASE UNCHANGED vars
    BY <1>10, MarksUntouched DEF vars, marks
  <1> QED
    BY <1>1, <1>2, <1>3, <1>4, <1>5, <1>6, <1>7, <1>8, <1>9, <1>10 DEF Next, Sweep

(* A sweep or refresh that neither records a sweep nor leaves.             *)
LEMMA PlanUntouched ==
    ASSUME PlanInv, UNCHANGED <<settings, last, sched, plan, wake, unsaid>>, Tables',
           \A r \in Sweepers : pc[r] \in {"leaving", "telling"} => pc'[r] \in {"leaving", "telling"}
    PROVE  PlanInv'
  BY DEF PlanInv, SettingsAreKnown, SweepIsKnown

(* A signal, or a scheduler that is not at rest, excuses everything.       *)
LEMMA PlanExcused ==
    ASSUME Tables', wake' \/ unsaid' \/ sched' \notin {"planned", "waiting"}
    PROVE  PlanInv'
  BY DEF PlanInv, SettingsAreKnown, SweepIsKnown

LEMMA PlanStep ==
    ASSUME PlanInv, [Next]_vars
    PROVE  PlanInv'
  <1> USE DEF PlanInv, Tables
  <1>1. CASE StartScheduler \/ TakeWake \/ TimerFires
    BY <1>1, PlanExcused DEF StartScheduler, TakeWake, TimerFires
  <1>2. CASE NextWait
    BY <1>2 DEF NextWait, Fault, NoPlan, SettingsAreKnown, SweepIsKnown
  <1>3. CASE LastFullRun
    <2>1. /\ sched = "planned" /\ sched' = "waiting"
          /\ UNCHANGED <<settings, last, wake, unsaid, pc, at>>
      BY <1>3 DEF LastFullRun
    <2>2. plan'.known => plan.known /\ plan'.settings = plan.settings /\ plan'.last = last
      BY <1>3 DEF LastFullRun, NoPlan
    <2> QED
      BY <2>1, <2>2 DEF SettingsAreKnown, SweepIsKnown
  <1>4. CASE SaveSettings \/ SettingsChanged
    BY <1>4, PlanExcused DEF SaveSettings, SettingsChanged, Signal
  <1>5. ASSUME NEW q \in Requests, RunNow(q) PROVE PlanInv'
    BY <1>5, PlanUntouched DEF RunNow
  <1>6. ASSUME NEW u \in Users, RefreshUser(u) PROVE PlanInv'
    BY <1>6, PlanUntouched DEF RefreshUser
  <1>7. ASSUME NEW r \in Runners, RunFull(r) PROVE PlanInv'
    <2>1. CASE sched' = sched
      <3>1. /\ pc[r] = "asked"
            /\ \E s \in {"loading", "idle"} : pc' = [pc EXCEPT ![r] = s]
            /\ UNCHANGED <<settings, last, plan, wake, unsaid, at>>
        BY <1>7 DEF RunFull
      <3> QED
        BY <2>1, <3>1, PlanUntouched
    <2>2. CASE sched' # sched
      BY <1>7, <2>2, PlanExcused DEF RunFull, Back
    <2> QED
      BY <2>1, <2>2
  <1>8. ASSUME NEW r \in Runners, LoadSettings(r) \/ LoadFails(r) PROVE PlanInv'
    <2>1. /\ pc[r] = "loading"
          /\ \E s \in {"searching", "leaving"} : pc' = [pc EXCEPT ![r] = s]
          /\ UNCHANGED <<settings, last, sched, plan, wake, unsaid, at>>
      BY <1>8 DEF LoadSettings, LoadFails, GiveUp
    <2> QED
      BY <2>1, PlanUntouched
  <1>9. ASSUME NEW r \in Runners, NEW k \in Keys, Claim(r, k) \/ SearchEnds(r, k) \/ SearchFails(r, k)
        PROVE  PlanInv'
    BY <1>9, PlanUntouched DEF Claim, SearchEnds, SearchFails
  <1>10. ASSUME NEW r \in Runners, FinishRun(r) PROVE PlanInv'
    <2>1. CASE last' = last
      BY <1>10, <2>1, PlanUntouched DEF FinishRun
    <2>2. CASE last' # last
      <3>1. r \in Sweepers /\ pc'[r] = "leaving"
        BY <1>10, <2>2 DEF FinishRun, Complete
      <3> QED
        BY <1>10, <3>1 DEF FinishRun, SettingsAreKnown, SweepIsKnown
    <2> QED
      BY <2>1, <2>2
  <1>11. ASSUME NEW r \in Runners, Leave(r) PROVE PlanInv'
    <2>1. \A q \in Sweepers : pc[q] \in {"leaving", "telling"} => pc'[q] \in {"leaving", "telling"}
      BY <1>11, SweepersAreNoUsers DEF Leave
    <2> QED
      BY <1>11, <2>1, PlanUntouched DEF Leave
  <1>12. ASSUME NEW r \in Runners, Tell(r) PROVE PlanInv'
    BY <1>12, PlanExcused DEF Tell, Signal
  <1>13. ASSUME NEW r \in Runners, OutOfTime(r) PROVE PlanInv'
    BY <1>13, PlanUntouched DEF OutOfTime
  <1>14. CASE Restart
    BY <1>14, PlanExcused DEF Restart
  <1>15. CASE UNCHANGED vars \/ \E k \in Keys : HourPasses(k)
    BY <1>15, PlanUntouched DEF vars, HourPasses
  <1> QED
    BY <1>1, <1>2, <1>3, <1>4, <1>5, <1>6, <1>7, <1>8, <1>9, <1>10, <1>11, <1>12, <1>13, <1>14, <1>15
       DEF Next, Schedule, Sweep

(* fullRunning keeps complete sweeps and selections apart although RunNow  *)
(* and the timer only look at it and take it later (runFull looks again    *)
(* under the lock): for any number of callers.                             *)
THEOREM OneSweepHolds == Spec => []OneSweep
  <1>1. Init => FlagInv
    BY InitFlag
  <1>2. FlagInv /\ [Next]_vars => FlagInv'
    BY FlagStep
  <1>3. FlagInv => OneSweep
    BY DEF FlagInv
  <1> QED
    BY <1>1, <1>2, <1>3, PTL DEF Spec

(* A mark of claim stands for a search that ended well or is going on,     *)
(* whatever sweeps and refreshes fail, overlap or run out of time.         *)
THEOREM SkippedWasSearchedHolds == Spec => []SkippedWasSearched
  <1>1. Init => MarksInv
    BY InitFlag
  <1>2. MarksInv /\ [Next]_vars => MarksInv'
    BY MarksStep
  <1>3. MarksInv => SkippedWasSearched
    BY DEF MarksInv
  <1> QED
    BY <1>1, <1>2, <1>3, PTL DEF Spec

(* Run never sleeps on a plan made from other settings, or from another    *)
(* last sweep, than the newest: the channel of one signal loses nothing.   *)
THEOREM PlanFollowsHolds == Spec => []PlanFollows
  <1>1. Init => PlanInv
    BY InitFlag
  <1>2. PlanInv /\ [Next]_vars => PlanInv'
    BY PlanStep
  <1>3. PlanInv => PlanFollows
    BY DEF PlanInv, SettingsAreKnown, SweepIsKnown, PlanFollows
  <1> QED
    BY <1>1, <1>2, <1>3, PTL DEF Spec

------------------------------------------------------------------------------
(* The fit of a stack.                                                     *)
(* What the profile is worth for an item: the best of the skills that      *)
(* cover it.                                                               *)
Used(item, profile) ==
    IF Named(item, profile) # {} THEN Named(item, profile) ELSE Tagged(item, profile)

LEMMA BestIs ==
    ASSUME NEW item, NEW profile
    PROVE  /\ Best(item, profile) \in {0, 40, 75, 100}
           /\ \A s \in Used(item, profile) : LevelWeight(s.level) <= Best(item, profile)
           /\ Best(item, profile) # 0 =>
                \E s \in Used(item, profile) : Best(item, profile) = LevelWeight(s.level)
  <1> DEFINE worths == {0} \cup {LevelWeight(s.level) : s \in Used(item, profile)}
             B == CHOOSE w \in worths : \A x \in worths : x <= w
  <1>1. \A w \in worths : w \in {0, 40, 75, 100}
    BY DEF LevelWeight
  <1>2. 0 \in worths /\ \A s \in Used(item, profile) : LevelWeight(s.level) \in worths
    OBVIOUS
  <1>3. \A w \in worths : w = 0 \/ \E s \in Used(item, profile) : w = LevelWeight(s.level)
    OBVIOUS
  <1>4. Best(item, profile) = B
    BY DEF Best, Used
  <1> HIDE DEF worths
  <1>5. \E w \in worths : \A x \in worths : x <= w
    <2>1. CASE 100 \in worths
      BY <1>1, <2>1
    <2>2. CASE 100 \notin worths /\ 75 \in worths
      BY <1>1, <2>2
    <2>3. CASE 100 \notin worths /\ 75 \notin worths /\ 40 \in worths
      BY <1>1, <2>3
    <2>4. CASE 100 \notin worths /\ 75 \notin worths /\ 40 \notin worths
      BY <1>1, <1>2, <2>4
    <2> QED
      BY <2>1, <2>2, <2>3, <2>4
  <1>6. B \in worths /\ \A x \in worths : x <= B
    BY <1>5
  <1> HIDE DEF B
  <1> QED
    BY <1>1, <1>2, <1>3, <1>4, <1>6

(* The mean is rounded to the nearest.                                     *)
LEMMA Quotient ==
    ASSUME NEW a \in Nat, NEW b \in Nat \ {0}
    PROVE  a \div b \in Nat /\ b * (a \div b) <= a /\ a < b * (a \div b) + b
OBVIOUS

LEMMA QuotientGrows ==
    ASSUME NEW a \in Nat, NEW c \in Nat, a <= c, NEW b \in Nat \ {0}
    PROVE  a \div b <= c \div b
OBVIOUS

(* One more item that is worth nothing.                                    *)
LEMMA MeanFalls ==
    ASSUME NEW sum \in Nat, NEW n \in Nat \ {0}
    PROVE  (2 * sum + (n + 1)) \div (2 * (n + 1)) <= (2 * sum + n) \div (2 * n)
  <1> DEFINE a == 2 * sum + n
             b == 2 * n
             c == 2 * sum + (n + 1)
             d == 2 * (n + 1)
             p == a \div b
             q == c \div d
  <1>0. a \in Nat /\ b \in Nat \ {0} /\ c \in Nat /\ d \in Nat \ {0}
    OBVIOUS
  <1>a. p \in Nat /\ a < b * p + b
    <2> HIDE DEF a, b
    <2> QED
      BY <1>0, Quotient
  <1>b. q \in Nat /\ d * q <= c
    <2> HIDE DEF c, d
    <2> QED
      BY <1>0, Quotient
  <1>1. p \in Nat /\ 2 * sum + n < (2 * n) * p + 2 * n
    BY <1>a
  <1>2. q \in Nat /\ (2 * (n + 1)) * q <= 2 * sum + (n + 1)
    BY <1>b
  <1> HIDE DEF p, q
  <1> SUFFICES ASSUME q >= p + 1 PROVE FALSE
    BY <1>a, <1>b DEF p, q
  <1>3. (2 * (n + 1)) * q = (2 * n) * q + 2 * q
    BY <1>2
  <1>4. (2 * n) * q >= (2 * n) * (p + 1)
    BY <1>1, <1>2
  <1>5. (2 * n) * (p + 1) = (2 * n) * p + 2 * n
    BY <1>1
  <1> QED
    BY <1>1, <1>2, <1>3, <1>4, <1>5
LEMMA Apart ==
    ASSUME NEW S, IsFiniteSet(S), NEW T, IsFiniteSet(T), S \cap T = {}
    PROVE  IsFiniteSet(S \cup T) /\ Cardinality(S \cup T) = Cardinality(S) + Cardinality(T)
  <1>1. Cardinality(S \cap T) = 0
    BY FS_EmptySet
  <1>2. Cardinality(S) \in Nat /\ Cardinality(T) \in Nat
    BY FS_CardinalityType
  <1>3. IsFiniteSet(S \cup T) /\ Cardinality(S \cup T) = Cardinality(S) + Cardinality(T) - Cardinality(S \cap T)
    BY FS_Union
  <1> QED
    BY <1>1, <1>2, <1>3

(* The items of a stack that are worth at least w.                         *)
AtLeast(stack, profile, w) ==
    {k \in Items(stack, profile) : Best(Key(stack[k], profile.aliases), profile) >= w}

Sum(stack, profile) ==
    100 * Cardinality(Worth(stack, profile, 100)) + 75 * Cardinality(Worth(stack, profile, 75))
        + 40 * Cardinality(Worth(stack, profile, 40))

LEMMA Counted ==
    ASSUME NEW stack, IsFiniteSet(DOMAIN stack), NEW profile
    PROVE  LET n == Cardinality(Items(stack, profile))
               C(w) == Cardinality(AtLeast(stack, profile, w))
               W(w) == Cardinality(Worth(stack, profile, w))
           IN  /\ IsFiniteSet(Items(stack, profile))
               /\ n \in Nat /\ W(100) \in Nat /\ W(75) \in Nat /\ W(40) \in Nat
               /\ C(100) = W(100) /\ C(75) = W(100) + W(75) /\ C(40) = W(100) + W(75) + W(40)
               /\ C(40) <= n
               /\ \A w \in {40, 75, 100} : IsFiniteSet(AtLeast(stack, profile, w))
  <1> DEFINE I == Items(stack, profile)
             b == [k \in I |-> Best(Key(stack[k], profile.aliases), profile)]
             V(w) == {k \in I : b[k] = w}
             T(w) == {k \in I : b[k] >= w}
  <1>1. I \subseteq DOMAIN stack /\ IsFiniteSet(I)
    BY FS_Subset DEF Items
  <1>2. \A k \in I : b[k] \in {0, 40, 75, 100}
    BY BestIs
  <1>3. \A w : Worth(stack, profile, w) = V(w) /\ AtLeast(stack, profile, w) = T(w)
    BY DEF Worth, AtLeast
  <1> HIDE DEF I, b
  <1>4. T(100) = V(100) /\ T(75) = V(100) \cup V(75) /\ T(40) = T(75) \cup V(40)
    BY <1>2
  <1>5. V(100) \cap V(75) = {} /\ T(75) \cap V(40) = {}
    BY <1>2
  <1>6. \A w : V(w) \in SUBSET I /\ T(w) \in SUBSET I
    OBVIOUS
  <1>7. \A J \in SUBSET I : IsFiniteSet(J) /\ Cardinality(J) \in Nat /\ Cardinality(J) <= Cardinality(I)
    BY <1>1, FS_Subset, FS_CardinalityType
  <1> HIDE DEF V, T
  <1>8. Cardinality(T(75)) = Cardinality(V(100)) + Cardinality(V(75))
    <2>1. IsFiniteSet(V(100)) /\ IsFiniteSet(V(75))
      BY <1>6, <1>7
    <2> QED
      BY <1>4, <1>5, <2>1, Apart
  <1>9. Cardinality(T(40)) = Cardinality(T(75)) + Cardinality(V(40))
    <2>1. IsFiniteSet(T(75)) /\ IsFiniteSet(V(40))
      BY <1>6, <1>7
    <2> QED
      BY <1>4, <1>5, <2>1, Apart
  <1>10. Cardinality(I) \in Nat /\ Cardinality(V(100)) \in Nat /\ Cardinality(V(75)) \in Nat /\ Cardinality(V(40)) \in Nat
    BY <1>1, <1>6, <1>7, FS_CardinalityType
  <1> QED
    BY <1>1, <1>3, <1>4, <1>6, <1>7, <1>8, <1>9, <1>10 DEF I

LEMMA FitIs ==
    ASSUME NEW stack, IsFiniteSet(DOMAIN stack), NEW profile,
           Cardinality(Items(stack, profile)) # 0, profile.skills # {}
    PROVE  LET n == Cardinality(Items(stack, profile))
               pct == (2 * Sum(stack, profile) + n) \div (2 * n)
           IN  /\ n \in Nat \ {0} /\ Sum(stack, profile) \in Nat /\ Sum(stack, profile) <= 100 * n
               /\ pct \in Nat
               /\ Fit(stack, profile).items = n /\ Fit(stack, profile).pct = pct
               /\ Fit(stack, profile).quality = QualityOf(pct, n)
  <1> DEFINE n == Cardinality(Items(stack, profile))
  <1>1. n \in Nat \ {0} /\ Sum(stack, profile) \in Nat /\ Sum(stack, profile) <= 100 * n
    BY Counted DEF Sum
  <1>2. (2 * Sum(stack, profile) + n) \div (2 * n) \in Nat
    <2> DEFINE a == 2 * Sum(stack, profile) + n
               b == 2 * n
    <2>1. a \in Nat /\ b \in Nat \ {0}
      BY <1>1
    <2> HIDE DEF a, b
    <2>2. a \div b \in Nat
      BY <2>1, Quotient
    <2> QED
      BY <2>2 DEF a, b
  <1> QED
    BY <1>1, <1>2 DEF Fit, Sum

LEMMA NoFit ==
    ASSUME NEW stack, NEW profile, Cardinality(Items(stack, profile)) = 0 \/ profile.skills = {}
    PROVE  Fit(stack, profile) = [items |-> 0, pct |-> 0, quality |-> "mid", strong |-> 0, partial |-> 0]
BY DEF Fit

(* A profile that is worth more for each item.                             *)
LEMMA FitGrows ==
    ASSUME NEW stack, IsFiniteSet(DOMAIN stack), NEW p, NEW q,
           p.aliases = q.aliases, p.skills # {}, q.skills # {},
           \A item : Best(item, p) <= Best(item, q)
    PROVE  Worse(Fit(stack, p), Fit(stack, q))
  <1> DEFINE n == Cardinality(Items(stack, p))
  <1>1. Items(stack, p) = Items(stack, q)
    BY DEF Items
  <1>2. CASE n = 0
    BY <1>1, <1>2, NoFit DEF Worse
  <1>3. CASE n # 0
    <2>1. ASSUME NEW w \in {40, 75, 100}
          PROVE  Cardinality(AtLeast(stack, p, w)) <= Cardinality(AtLeast(stack, q, w))
      <3>1. \A item : Best(item, p) \in Nat /\ Best(item, q) \in Nat
        BY BestIs
      <3>2. AtLeast(stack, p, w) \subseteq AtLeast(stack, q, w)
        BY <1>1, <3>1 DEF AtLeast
      <3>3. IsFiniteSet(AtLeast(stack, q, w))
        BY Counted
      <3> QED
        BY <3>2, <3>3, FS_Subset
    <2>2. Sum(stack, p) <= Sum(stack, q)
      <3> DEFINE C(x, w) == Cardinality(AtLeast(stack, x, w))
      <3>1. /\ Sum(stack, p) = 25 * C(p, 100) + 35 * C(p, 75) + 40 * C(p, 40)
            /\ C(p, 100) \in Nat /\ C(p, 75) \in Nat /\ C(p, 40) \in Nat
        BY Counted DEF Sum
      <3>2. /\ Sum(stack, q) = 25 * C(q, 100) + 35 * C(q, 75) + 40 * C(q, 40)
            /\ C(q, 100) \in Nat /\ C(q, 75) \in Nat /\ C(q, 40) \in Nat
        BY Counted DEF Sum
      <3>3. C(p, 100) <= C(q, 100) /\ C(p, 75) <= C(q, 75) /\ C(p, 40) <= C(q, 40)
        BY <2>1
      <3> HIDE DEF C
      <3> QED
        BY <3>1, <3>2, <3>3
    <2>3. /\ n \in Nat \ {0} /\ Sum(stack, p) \in Nat /\ Sum(stack, q) \in Nat
          /\ Fit(stack, p).items = n /\ Fit(stack, q).items = n
          /\ Fit(stack, p).pct = (2 * Sum(stack, p) + n) \div (2 * n)
          /\ Fit(stack, q).pct = (2 * Sum(stack, q) + n) \div (2 * n)
          /\ Fit(stack, p).quality = QualityOf(Fit(stack, p).pct, n)
          /\ Fit(stack, q).quality = QualityOf(Fit(stack, q).pct, n)
          /\ Fit(stack, p).pct \in Nat /\ Fit(stack, q).pct \in Nat
      BY <1>1, <1>3, FitIs
    <2>4. Fit(stack, p).pct <= Fit(stack, q).pct
      <3> DEFINE a == 2 * Sum(stack, p) + n
                 c == 2 * Sum(stack, q) + n
                 b == 2 * n
      <3>1. a \in Nat /\ c \in Nat /\ b \in Nat \ {0} /\ a <= c
        BY <2>2, <2>3
      <3>2. Fit(stack, p).pct = a \div b /\ Fit(stack, q).pct = c \div b
        BY <2>3
      <3> HIDE DEF a, b, c
      <3> QED
        BY <3>1, <3>2, QuotientGrows
    <2> HIDE DEF n
    <2>5. Tier(Fit(stack, p)) <= Tier(Fit(stack, q))
      BY <2>3, <2>4 DEF Tier, QualityOf
    <2> QED
      BY <2>4, <2>5 DEF Worse
  <1> QED
    BY <1>2, <1>3


(* A better level in a skill is worth no less for any item.                *)
LEMMA RaisedIsBetter ==
    ASSUME NEW q, NEW s \in q.skills, NEW item
    PROVE  Best(item, q) <= Best(item, Raised(q, s))
  <1> DEFINE r == [name |-> s.name, terms |-> s.terms, tags |-> s.tags, level |-> "expert"]
             R == Raised(q, s)
  <1>1. R.skills = (q.skills \ {s}) \cup {r} /\ R.aliases = q.aliases
    BY DEF Raised
  <1>2. r.terms = s.terms /\ r.tags = s.tags /\ LevelWeight(r.level) = 100
    BY DEF LevelWeight
  <1> HIDE DEF r, R
  <1>3. ASSUME NEW x \in q.skills
        PROVE  \E y \in R.skills :
                  y.terms = x.terms /\ y.tags = x.tags /\ LevelWeight(x.level) <= LevelWeight(y.level)
    <2>1. CASE x = s
      BY <1>1, <1>2, <2>1 DEF LevelWeight
    <2>2. CASE x # s
      BY <1>1, <2>2 DEF LevelWeight
    <2> QED
      BY <2>1, <2>2
  <1>4. ASSUME NEW y \in R.skills
        PROVE  \E x \in q.skills : y.terms = x.terms /\ y.tags = x.tags
    BY <1>1, <1>2
  <1>5. Named(item, q) # {} <=> Named(item, R) # {}
    BY <1>1, <1>3, <1>4 DEF Named
  <1>6. \A x \in Used(item, q) : \E y \in Used(item, R) : LevelWeight(x.level) <= LevelWeight(y.level)
    <2>1. \A x \in Named(item, q) : \E y \in Named(item, R) : LevelWeight(x.level) <= LevelWeight(y.level)
      BY <1>1, <1>3 DEF Named
    <2>2. \A x \in Tagged(item, q) : \E y \in Tagged(item, R) : LevelWeight(x.level) <= LevelWeight(y.level)
      BY <1>1, <1>3 DEF Tagged
    <2> QED
      BY <1>5, <2>1, <2>2 DEF Used
  <1>7. CASE Best(item, q) = 0
    BY <1>7, BestIs DEF R
  <1>8. CASE Best(item, q) # 0
    <2>1. PICK x \in Used(item, q) : Best(item, q) = LevelWeight(x.level)
      BY <1>8, BestIs
    <2>2. PICK y \in Used(item, R) : LevelWeight(x.level) <= LevelWeight(y.level)
      BY <1>6
    <2>3. LevelWeight(y.level) <= Best(item, R) /\ Best(item, R) \in Nat
      BY BestIs
    <2>4. LevelWeight(x.level) \in Nat /\ LevelWeight(y.level) \in Nat
      BY DEF LevelWeight
    <2> QED
      BY <2>1, <2>2, <2>3, <2>4 DEF R
  <1> QED
    BY <1>7, <1>8

(* One more item, which the profile lacks.                                 *)
LEMMA LackIsWorse ==
    ASSUME NEW stack, IsList(stack), NEW profile, NEW t, Best(Key(t, profile.aliases), profile) = 0
    PROVE  Worse(Fit(Append(stack, t), profile), Fit(stack, profile))
  <1> DEFINE more == Append(stack, t)
             m == Len(stack)
             I == Items(stack, profile)
             J == Items(more, profile)
             n == Cardinality(I)
             k == Cardinality(J)
  <1>1. /\ m \in Nat /\ DOMAIN stack = 1..m /\ DOMAIN more = 1..(m + 1)
        /\ more[m + 1] = t /\ \A i \in 1..m : more[i] = stack[i]
    BY ListFacts DEF IsList
  <1>2. IsFiniteSet(DOMAIN stack) /\ IsFiniteSet(DOMAIN more)
    BY <1>1, FS_Interval
  <1>3. I = J \/ (J = I \cup {m + 1} /\ m + 1 \notin I)
    BY <1>1 DEF Items
  <1>4. \A w \in {40, 75, 100} : Worth(more, profile, w) = Worth(stack, profile, w)
    BY <1>1 DEF Worth, Items
  <1>5. IsFiniteSet(I) /\ n \in Nat /\ k \in Nat /\ (k = n \/ k = n + 1) /\ n <= k
    BY <1>2, <1>3, Counted, FS_AddElement
  <1>6. Sum(more, profile) = Sum(stack, profile)
    BY <1>4 DEF Sum
  <1>7. CASE profile.skills = {} \/ k = 0
    BY <1>5, <1>7, NoFit DEF Worse
  <1>8. CASE profile.skills # {} /\ n = 0 /\ k = 1
    <2>1. Sum(stack, profile) = 0
      <3> DEFINE W(w) == Cardinality(Worth(stack, profile, w))
      <3>1. Sum(stack, profile) = 100 * W(100) + 75 * W(75) + 40 * W(40)
        BY DEF Sum
      <3>2. /\ W(100) \in Nat /\ W(75) \in Nat /\ W(40) \in Nat
            /\ W(100) + W(75) + W(40) <= Cardinality(Items(stack, profile))
        BY <1>2, Counted
      <3>3. Cardinality(Items(stack, profile)) = 0
        BY <1>8
      <3> HIDE DEF W
      <3>4. W(100) = 0 /\ W(75) = 0 /\ W(40) = 0
        BY <3>2, <3>3
      <3> QED
        BY <3>1, <3>4
    <2>2. Fit(more, profile).pct = 0
      <3>1. Cardinality(Items(more, profile)) = 1
        BY <1>8
      <3>a. Cardinality(Items(more, profile)) # 0
        BY <3>1
      <3>b. Fit(more, profile).pct = (2 * Sum(more, profile) + Cardinality(Items(more, profile)))
                                        \div (2 * Cardinality(Items(more, profile)))
        BY <1>2, <1>8, <3>a, FitIs
      <3>2. Fit(more, profile).pct = (2 * Sum(more, profile) + 1) \div (2 * 1)
        BY <3>1, <3>b
      <3>3. (2 * 0 + 1) \div (2 * 1) = 0
        OBVIOUS
      <3> QED
        BY <1>6, <2>1, <3>2, <3>3
    <2>3. Fit(stack, profile).pct = 0 /\ Fit(stack, profile).items = 0
      BY <1>8, NoFit
    <2> QED
      BY <2>2, <2>3 DEF Worse
  <1>9. CASE profile.skills # {} /\ n # 0
    <2> DEFINE p == Fit(stack, profile)
               r == Fit(more, profile)
               sum == Sum(stack, profile)
    <2>1. /\ n \in Nat \ {0} /\ sum \in Nat /\ sum <= 100 * n
          /\ p.items = n /\ p.pct = (2 * sum + n) \div (2 * n) /\ p.quality = QualityOf(p.pct, n) /\ p.pct \in Nat
      BY <1>2, <1>9, FitIs
    <2>2. /\ k \in Nat \ {0}
          /\ r.items = k /\ r.pct = (2 * sum + k) \div (2 * k) /\ r.quality = QualityOf(r.pct, k) /\ r.pct \in Nat
      <3>1. Cardinality(Items(more, profile)) # 0
        BY <1>5, <1>9
      <3>2. /\ k \in Nat \ {0}
            /\ r.items = k /\ r.pct = (2 * Sum(more, profile) + k) \div (2 * k)
            /\ r.quality = QualityOf(r.pct, k) /\ r.pct \in Nat
        BY <1>2, <1>9, <3>1, FitIs
      <3> QED
        BY <1>6, <3>2
    <2>n. k = n \/ k = n + 1
      BY <1>5
    <2> HIDE DEF n, k, p, r, sum
    <2>3. r.pct <= p.pct
      <3>1. CASE k = n
        BY <2>1, <2>2, <3>1
      <3>2. CASE k = n + 1
        <4>1. (2 * sum + (n + 1)) \div (2 * (n + 1)) <= (2 * sum + n) \div (2 * n)
          BY <2>1, MeanFalls
        <4> QED
          BY <2>1, <2>2, <3>2, <4>1
      <3> QED
        BY <2>n, <3>1, <3>2
    <2>4. n = 2 /\ k = 3 => r.pct < 70
      <3> SUFFICES ASSUME n = 2, k = 3 PROVE r.pct < 70
        OBVIOUS
      <3>1. r.pct = (2 * sum + 3) \div 6 /\ sum <= 200
        BY <2>1, <2>2
      <3>2. r.pct <= 403 \div 6
        BY <2>1, <3>1
      <3> QED
        BY <2>2, <3>2
    <2>5. Tier(r) <= Tier(p)
      BY <2>n, <2>1, <2>2, <2>3, <2>4 DEF Tier, QualityOf
    <2> QED
      BY <2>3, <2>5 DEF Worse, p, r
  <1> QED
    BY <1>5, <1>7, <1>8, <1>9

(* The order of a stack does not count.                                    *)
LEMMA TurnedIsSame ==
    ASSUME NEW stack, IsList(stack), NEW profile
    PROVE  Fit([k \in 1..Len(stack) |-> stack[Len(stack) + 1 - k]], profile) = Fit(stack, profile)
  <1> DEFINE n == Len(stack)
             turned == [k \in 1..n |-> stack[n + 1 - k]]
             Turn(I) == {k \in 1..n : n + 1 - k \in I}
  <1>1. n \in Nat /\ DOMAIN stack = 1..n
    BY ListFacts
  <1> HIDE DEF n
  <1>2. ASSUME NEW I \in SUBSET (1..n)
        PROVE  Cardinality(Turn(I)) = Cardinality(I)
    <2> DEFINE f == [k \in I |-> n + 1 - k]
    <2>1. IsFiniteSet(I)
      <3>1. IsFiniteSet(1..n)
        BY <1>1, FS_Interval
      <3> QED
        BY <3>1, FS_Subset
    <2>2. f \in [I -> Turn(I)]
      BY <1>1
    <2>3. \A x, y \in I : f[x] = f[y] => x = y
      BY <1>1
    <2>4. \A y \in Turn(I) : \E x \in I : f[x] = y
      <3> SUFFICES ASSUME NEW y \in Turn(I) PROVE f[n + 1 - y] = y /\ n + 1 - y \in I
        OBVIOUS
      <3> QED
        BY <1>1
    <2> HIDE DEF f, Turn
    <2>5. f \in Bijection(I, Turn(I))
      BY <2>2, <2>3, <2>4 DEF Bijection, Injection, Surjection, IsInjective
    <2> QED
      BY <2>1, <2>5, FS_Bijection DEF ExistsBijection
  <1>3. Items(turned, profile) = Turn(Items(stack, profile))
    BY <1>1 DEF Items
  <1>4. \A w \in {40, 75, 100} : Worth(turned, profile, w) = Turn(Worth(stack, profile, w))
    BY <1>1, <1>3 DEF Worth
  <1>5. Items(stack, profile) \in SUBSET (1..n) /\ \A w \in {40, 75, 100} : Worth(stack, profile, w) \in SUBSET (1..n)
    BY <1>1 DEF Items, Worth
  <1> HIDE DEF turned, Turn
  <1>6. Fit(turned, profile) = Fit(stack, profile)
    BY <1>2, <1>3, <1>4, <1>5 DEF Fit
  <1> QED
    BY <1>6 DEF turned, n

LEMMA FitsAreTrue ==
    ASSUME NEW q \in Stacks, search.q = q, answer.fit = Fit(q.stack, q)
    PROVE  LackingNeverHelps
  <1>1. IsList(q.stack) /\ IsFiniteSet(DOMAIN q.stack)
    BY ListsAssumption, FiniteDomain
  <1>2. \A s \in q.skills : Worse(Fit(q.stack, q), Fit(q.stack, Raised(q, s)))
    <2> TAKE s \in q.skills
    <2>1. Raised(q, s).aliases = q.aliases /\ Raised(q, s).skills # {}
      BY DEF Raised
    <2> QED
      BY <1>1, <2>1, RaisedIsBetter, FitGrows
  <1> QED
    BY <1>1, <1>2, LackIsWorse, TurnedIsSame DEF LackingNeverHelps

------------------------------------------------------------------------------
(* The list of Descobrir, ranked.                                          *)
LEMMA OutranksIsOrder ==
    ASSUME NEW a \in [1..5 -> Int], NEW b \in [1..5 -> Int], NEW c \in [1..5 -> Int]
    PROVE  /\ ~Outranks(a, a)
           /\ Outranks(a, b) /\ Outranks(b, c) => Outranks(a, c)
           /\ a = b \/ Outranks(a, b) \/ Outranks(b, a)
  <1>1. ~Outranks(a, a)
    BY DEF Outranks
  <1>2. ASSUME Outranks(a, b), Outranks(b, c) PROVE Outranks(a, c)
    <2>1. PICK k \in 1..5 : a[k] > b[k] /\ \A l \in 1..5 : l < k => a[l] = b[l]
      BY <1>2 DEF Outranks
    <2>2. PICK j \in 1..5 : b[j] > c[j] /\ \A l \in 1..5 : l < j => b[l] = c[l]
      BY <1>2 DEF Outranks
    <2>3. CASE k <= j
      <3>1. a[k] > c[k] /\ \A l \in 1..5 : l < k => a[l] = c[l]
        BY <2>1, <2>2, <2>3
      <3> QED
        BY <3>1 DEF Outranks
    <2>4. CASE j < k
      <3>1. a[j] > c[j] /\ \A l \in 1..5 : l < j => a[l] = c[l]
        BY <2>1, <2>2, <2>4
      <3> QED
        BY <3>1 DEF Outranks
    <2> QED
      BY <2>3, <2>4
  <1>3. ASSUME a # b PROVE Outranks(a, b) \/ Outranks(b, a)
    <2> DEFINE D == {k \in 1..5 : a[k] # b[k]}
    <2>1. D \in SUBSET Nat /\ D # {}
      BY <1>3
    <2>2. PICK k \in D : \A l \in D : k <= l
      BY <2>1, LeastNumber
    <2>3. \A l \in 1..5 : l < k => a[l] = b[l]
      BY <2>2
    <2>4. a[k] \in Int /\ b[k] \in Int /\ a[k] # b[k] /\ k \in 1..5
      BY <2>2
    <2> QED
      BY <2>3, <2>4 DEF Outranks
  <1> QED
    BY <1>1, <1>2, <1>3

LEMMA RankedBeforeIsOrder ==
    ASSUME NEW jobs, DOMAIN jobs \subseteq Nat, \A i \in DOMAIN jobs : RankOf(jobs[i]) \in [1..5 -> Int]
    PROVE  IsOrder(RankedBefore(jobs), DOMAIN jobs)
  <1> DEFINE D == DOMAIN jobs
             rank == [i \in D |-> RankOf(jobs[i])]
             before(i, k) == Outranks(rank[i], rank[k]) \/ (rank[i] = rank[k] /\ i < k)
  <1>1. \A i, k \in D : <<i, k>> \in RankedBefore(jobs) <=> before(i, k)
    BY DEF RankedBefore
  <1>2. D \subseteq Nat /\ rank \in [D -> [1..5 -> Int]]
    OBVIOUS
  <1> HIDE DEF D, rank
  <1>3. \A i \in D : ~before(i, i)
    <2> TAKE i \in D
    <2>1. rank[i] \in [1..5 -> Int] /\ i \in Nat
      BY <1>2
    <2> QED
      BY <2>1, OutranksIsOrder
  <1>4. \A i, j, k \in D : before(i, j) /\ before(j, k) => before(i, k)
    <2> TAKE i, j, k \in D
    <2>1. rank[i] \in [1..5 -> Int] /\ rank[j] \in [1..5 -> Int] /\ rank[k] \in [1..5 -> Int]
      BY <1>2
    <2>2. i \in Nat /\ j \in Nat /\ k \in Nat
      BY <1>2
    <2>3. Outranks(rank[i], rank[j]) /\ Outranks(rank[j], rank[k]) => Outranks(rank[i], rank[k])
      BY <2>1, OutranksIsOrder
    <2> QED
      BY <2>2, <2>3
  <1>5. \A i, k \in D : i # k => before(i, k) \/ before(k, i)
    <2> TAKE i, k \in D
    <2>1. rank[i] \in [1..5 -> Int] /\ rank[k] \in [1..5 -> Int] /\ i \in Nat /\ k \in Nat
      BY <1>2
    <2> QED
      BY <2>1, OutranksIsOrder
  <1> QED
    BY <1>1, <1>3, <1>4, <1>5 DEF IsOrder, D

(* To rank a list is to put it in another order.                           *)
LEMMA RankedIs ==
    ASSUME NEW jobs, IsList(jobs), \A i \in DOMAIN jobs : RankOf(jobs[i]) \in [1..5 -> Int]
    PROVE  \E o \in [DOMAIN jobs -> DOMAIN jobs] :
              /\ \A i, k \in DOMAIN jobs : o[i] = o[k] => i = k
              /\ \A i \in DOMAIN jobs : \E k \in DOMAIN jobs : o[k] = i
              /\ Ranked(jobs) = [n \in DOMAIN jobs |-> jobs[o[n]]]
  <1> DEFINE D == DOMAIN jobs
             n == Cardinality(D)
             o == InOrder(D, RankedBefore(jobs))
  <1>1. IsFiniteSet(D) /\ D \subseteq Nat
    BY FiniteDomain
  <1>2. IsOrder(RankedBefore(jobs), D)
    BY <1>1, RankedBeforeIsOrder
  <1>3. /\ o \in [1..n -> D] /\ n \in Nat
        /\ \A x \in D : \E k \in 1..n : o[k] = x
        /\ \A j, k \in 1..n : j < k <=> <<o[j], o[k]>> \in RankedBefore(jobs)
    <2> HIDE DEF D
    <2> QED
      BY <1>1, <1>2, InOrderSorts
  <1>4. D = 1..n
    <2>1. Len(jobs) \in Nat /\ D = 1..Len(jobs)
      BY ListFacts
    <2>2. Cardinality(1..Len(jobs)) = Len(jobs)
      BY <2>1, FS_Interval
    <2> QED
      BY <2>1, <2>2
  <1>5. Ranked(jobs) = [k \in 1..n |-> jobs[o[k]]]
    BY DEF Ranked
  <1> HIDE DEF D, n, o
  <1>6. \A j, k \in 1..n : o[j] = o[k] => j = k
    <2> SUFFICES ASSUME NEW j \in 1..n, NEW k \in 1..n, o[j] = o[k], j < k PROVE FALSE
      BY <1>3
    <2>1. <<o[j], o[j]>> \in RankedBefore(jobs) /\ o[j] \in D
      BY <1>3
    <2> QED
      BY <1>2, <2>1 DEF IsOrder
  <1>7. /\ o \in [D -> D]
        /\ \A i, k \in D : o[i] = o[k] => i = k
        /\ \A i \in D : \E k \in D : o[k] = i
        /\ Ranked(jobs) = [k \in D |-> jobs[o[k]]]
    BY <1>3, <1>4, <1>5, <1>6
  <1> QED
    BY <1>7 DEF D

LEMMA FitIsRanked ==
    ASSUME NEW stack, IsFiniteSet(DOMAIN stack), NEW profile
    PROVE  LET f == Fit(stack, profile)
           IN  Tier(f) \in Int /\ f.strong \in Int /\ f.partial \in Int /\ f.pct \in Int /\ f.items \in Nat
  <1>1. CASE Cardinality(Items(stack, profile)) = 0 \/ profile.skills = {}
    BY <1>1, NoFit DEF Tier
  <1>2. CASE Cardinality(Items(stack, profile)) # 0 /\ profile.skills # {}
    <2>1. Fit(stack, profile).items \in Nat /\ Fit(stack, profile).pct \in Nat
      BY <1>2, FitIs
    <2>2. Fit(stack, profile).strong \in Int /\ Fit(stack, profile).partial \in Int
      BY <1>2, Counted DEF Fit
    <2>3. Tier(Fit(stack, profile)) \in Int
      BY DEF Tier
    <2> QED
      BY <2>1, <2>2, <2>3
  <1> QED
    BY <1>1, <1>2

LEMMA ShownJobs ==
    ASSUME NEW q \in Searches
    PROVE  LET jobs == Ranked(OnList(q))
           IN  /\ IsList(jobs)
               /\ \E seat \in [DOMAIN jobs -> OnView(q)] :
                     /\ \A n \in DOMAIN jobs : jobs[n] = JobAt(q, seat[n])
                     /\ \A i \in OnView(q) : \E n \in DOMAIN jobs : seat[n] = i
                     /\ \A n, m \in DOMAIN jobs : seat[n] = seat[m] => n = m
  <1> DEFINE S == OnView(q)
             job == [i \in DOMAIN q.posts |-> JobAt(q, i)]
             n == Cardinality(S)
             o == InOrder(S, Upwards(S))
             list == OnList(q)
  <1>1. /\ IsList(q.posts) /\ IsFiniteSet(q.skills)
        /\ \A p \in Range(q.posts) : IsFiniteSet(p.techs)
        /\ \A id \in DOMAIN q.pipeline : IsList(q.pipeline[id])
    BY ListsAssumption
  <1>2. S \subseteq DOMAIN q.posts /\ IsFiniteSet(S) /\ S \in SUBSET Nat
    <2>1. S \subseteq DOMAIN q.posts
      BY DEF OnView, Heads, Listable
    <2> QED
      BY <1>1, <2>1, FiniteDomain, FS_Subset
  <1>3. /\ n \in Nat /\ DOMAIN list = 1..n /\ o \in [1..n -> S]
        /\ \A k \in 1..n : list[k] = job[o[k]]
        /\ \A i \in S : \E k \in 1..n : o[k] = i
        /\ \A j, k \in 1..n : o[j] = o[k] => j = k
    BY <1>2, PickedInOrder DEF OnList
  <1>4. IsList(list) /\ list = [k \in 1..n |-> JobAt(q, o[k])]
    <2>1. list = [k \in 1..n |-> job[o[k]]]
      BY <1>3 DEF OnList, Picked
    <2>2. \A k \in 1..n : job[o[k]] = JobAt(q, o[k])
      BY <1>2, <1>3
    <2> HIDE DEF list, job, o, n
    <2> QED
      BY <1>3, <2>1, <2>2, AList
  <1>5. ASSUME NEW k \in 1..n
        PROVE  RankOf(list[k]) \in [1..5 -> Int]
    <2>1. o[k] \in DOMAIN q.posts /\ list[k] = JobAt(q, o[k])
      BY <1>2, <1>3, <1>4
    <2> DEFINE p == q.posts[o[k]]
               f == JobFit(p, q)
    <2>2. p \in Range(q.posts) /\ IsFiniteSet(p.techs)
      BY <1>1, <2>1 DEF Range
    <2>3. \E stack : IsFiniteSet(DOMAIN stack) /\ f = Fit(stack, q)
      <3>1. CASE PipelineStack(p, q) # <<>>
        <4>1. IsList(PipelineStack(p, q))
          BY <1>1, <3>1 DEF PipelineStack
        <4> QED
          BY <3>1, <4>1, FiniteDomain DEF JobFit
      <3>2. CASE PipelineStack(p, q) = <<>>
        BY <2>2, <3>2 DEF JobFit
      <3> QED
        BY <3>1, <3>2
    <2>4. Tier(f) \in Int /\ f.strong \in Int /\ f.partial \in Int /\ f.pct \in Int
      BY <2>3, FitIsRanked
    <2>5. Cardinality(MatchedSkills(p, q)) \in Int /\ Cardinality(MatchedTechs(p, q)) \in Int
      <3>1. MatchedSkills(p, q) \subseteq q.skills
        BY DEF MatchedSkills, StrongSkills
      <3>2. MatchedTechs(p, q) \subseteq p.techs
        BY DEF MatchedTechs
      <3> QED
        BY <1>1, <2>2, <3>1, <3>2, FS_Subset, FS_CardinalityType
    <2> HIDE DEF p, f
    <2>6. RankOf(list[k]) = <<Tier(f), 2 * f.strong + f.partial, f.pct,
                              Cardinality(MatchedSkills(p, q)), Cardinality(MatchedTechs(p, q))>>
      BY <2>1 DEF RankOf, JobAt, p, f
    <2> QED
      BY <2>4, <2>5, <2>6
  <1>d. DOMAIN list = 1..n
    BY <1>3
  <1>r. PICK r \in [DOMAIN list -> DOMAIN list] :
            /\ \A i, k \in DOMAIN list : r[i] = r[k] => i = k
            /\ \A i \in DOMAIN list : \E k \in DOMAIN list : r[k] = i
            /\ Ranked(list) = [k \in DOMAIN list |-> list[r[k]]]
    <2> HIDE DEF list, n
    <2>1. \A i \in DOMAIN list : RankOf(list[i]) \in [1..5 -> Int]
      BY <1>d, <1>5
    <2>2. IsList(list)
      BY <1>4
    <2> QED
      BY <2>1, <2>2, RankedIs
  <1> DEFINE seat == [k \in 1..n |-> o[r[k]]]
  <1>6. /\ r \in [1..n -> 1..n]
        /\ \A i, k \in 1..n : r[i] = r[k] => i = k
        /\ \A i \in 1..n : \E k \in 1..n : r[k] = i
        /\ Ranked(list) = [k \in 1..n |-> list[r[k]]]
    <2> HIDE DEF list, n
    <2> QED
      BY <1>d, <1>r
  <1>7. /\ seat \in [1..n -> S] /\ \A k \in 1..n : Ranked(list)[k] = JobAt(q, seat[k])
        /\ \A i, k \in 1..n : seat[i] = seat[k] => i = k
        /\ \A i \in S : \E k \in 1..n : seat[k] = i
        /\ DOMAIN Ranked(list) = 1..n
    <2> HIDE DEF S, o, n, list
    <2>1. o \in [1..n -> S] /\ r \in [1..n -> 1..n]
      BY <1>3, <1>6
    <2>2. seat \in [1..n -> S] /\ \A k \in 1..n : seat[k] = o[r[k]]
      BY <2>1
    <2>3. ASSUME NEW k \in 1..n
          PROVE  Ranked(list)[k] = JobAt(q, seat[k])
      <3>1. Ranked(list)[k] = list[r[k]] /\ r[k] \in 1..n
        BY <1>6
      <3> QED
        BY <1>4, <2>2, <3>1
    <2>4. \A i, k \in 1..n : seat[i] = seat[k] => i = k
      BY <1>3, <1>6, <2>1, <2>2
    <2>5. \A i \in S : \E k \in 1..n : seat[k] = i
      BY <1>3, <1>6, <2>2
    <2>6. DOMAIN Ranked(list) = 1..n
      BY <1>6
    <2> QED
      BY <2>2, <2>3, <2>4, <2>5, <2>6
  <1>8. IsList(Ranked(list))
    BY <1>3, <1>6, AList
  <1> HIDE DEF S, seat, n, list, o
  <1> QED
    BY <1>7, <1>8 DEF S, list

------------------------------------------------------------------------------
(* Its vacancies.                                                          *)
(* What the query brings is what the person looks for.                     *)
LEMMA ListableIsWanted ==
    ASSUME NEW q
    PROVE  Listable(q) = {i \in DOMAIN q.posts : Wanted(q.posts[i], q)}
  <1>1. ASSUME NEW post
        PROVE  Candidate(post, q) <=> Wanted(post, q)
    <2>1. CASE q.interest # {}
      BY <2>1 DEF Candidate, Wanted, MatchedTechs
    <2>2. CASE q.interest = {}
      BY <2>2 DEF Candidate, Wanted, MatchedSkills
    <2> QED
      BY <2>1, <2>2
  <1> QED
    BY <1>1 DEF Listable

LEMMA HeadOfVacancy ==
    ASSUME NEW q, IsList(q.posts), NEW i \in Listable(q)
    PROVE  \E h \in Heads(q) :
              /\ Vacancy(q.posts[h]) = Vacancy(q.posts[i]) /\ h <= i
              /\ \A l \in Listable(q) : l < h => Vacancy(q.posts[l]) # Vacancy(q.posts[i])
  <1> DEFINE K == {k \in Listable(q) : Vacancy(q.posts[k]) = Vacancy(q.posts[i])}
  <1>1. K \in SUBSET Nat /\ i \in K /\ K \subseteq Listable(q)
    BY FiniteDomain DEF Listable
  <1>2. PICK h \in K : \A k \in K : h <= k
    BY <1>1, LeastNumber
  <1>3. \A l \in Listable(q) : l < h => Vacancy(q.posts[l]) # Vacancy(q.posts[i])
    <2> SUFFICES ASSUME NEW l \in Listable(q), l < h, Vacancy(q.posts[l]) = Vacancy(q.posts[i]) PROVE FALSE
      OBVIOUS
    <2>1. l \in K
      OBVIOUS
    <2>2. h <= l /\ h \in Nat /\ l \in Nat
      BY <1>1, <1>2, <2>1
    <2> QED
      BY <2>2
  <1>4. h \in Heads(q)
    BY <1>1, <1>3 DEF Heads
  <1> QED
    BY <1>1, <1>2, <1>3, <1>4

LEMMA HeadsDiffer ==
    ASSUME NEW q, IsList(q.posts), NEW i \in Heads(q), NEW k \in Heads(q),
           Vacancy(q.posts[i]) = Vacancy(q.posts[k])
    PROVE  i = k
  <1>1. i \in Nat /\ k \in Nat /\ i \in Listable(q) /\ k \in Listable(q)
    BY FiniteDomain DEF Heads, Listable
  <1>2. ~(i < k) /\ ~(k < i)
    BY <1>1 DEF Heads
  <1> QED
    BY <1>1, <1>2

(* The site of another post of the vacancy is the one of a link.           *)
LEMMA SiteIsLinked ==
    ASSUME NEW q, IsList(q.posts), NEW h \in Heads(q), NEW i \in Listable(q), h < i,
           Vacancy(q.posts[i]) = Vacancy(q.posts[h]), q.posts[i].source # q.posts[h].source
    PROVE  \E k \in AlsoOn(q, h) : q.posts[k].source = q.posts[i].source
  <1> DEFINE others == {k \in Listable(q) : k > h /\ Vacancy(q.posts[k]) = Vacancy(q.posts[h])}
             K == {k \in others : q.posts[k].source = q.posts[i].source}
  <1>1. Listable(q) \subseteq Nat /\ h \in Nat
    BY FiniteDomain DEF Heads, Listable
  <1>2. K \in SUBSET Nat /\ i \in K
    BY <1>1
  <1>3. PICK k \in K : \A l \in K : k <= l
    BY <1>2, LeastNumber
  <1>4. k \in others /\ q.posts[k].source = q.posts[i].source
    BY <1>3
  <1>5. \A l \in others : l < k => q.posts[l].source # q.posts[k].source
    <2> SUFFICES ASSUME NEW l \in others, l < k, q.posts[l].source = q.posts[k].source PROVE FALSE
      OBVIOUS
    <2>1. l \in K
      BY <1>4
    <2>2. k <= l /\ k \in Nat /\ l \in Nat
      BY <1>2, <1>3, <2>1
    <2> QED
      BY <2>2
  <1>6. k \in AlsoOn(q, h)
    BY <1>4, <1>5 DEF AlsoOn
  <1> QED
    BY <1>4, <1>6

LEMMA NothingLost ==
    ASSUME NEW q \in Searches, search.q = q, answer.jobs = Ranked(OnList(q)), answer.hidden = Hidden(q)
    PROVE  NothingIsLost
  <1> DEFINE wanted == {i \in DOMAIN q.posts : Wanted(q.posts[i], q)}
             same(i, k) == Vacancy(q.posts[i]) = Vacancy(q.posts[k])
             first(i) == {k \in wanted : same(k, i) /\ \A l \in wanted : l < k => ~same(l, i)}
             there(i) == \E n \in DOMAIN answer.jobs :
                            LET j == answer.jobs[n]
                            IN  \/ q.posts[i] = j.post
                                \/ /\ Vacancy(q.posts[i]) = Vacancy(j.post)
                                   /\ q.posts[i].source \in {o.source : o \in j.also \cup {j.post}}
             aside(i) == \E k \in first(i) : ~(q.posts[k].dismissed <=> q.view = "dismissed")
  <1>1. IsList(q.posts)
    BY ListsAssumption
  <1>2. wanted = Listable(q) /\ wanted \subseteq Nat
    BY <1>1, ListableIsWanted, FiniteDomain
  <1>3. PICK seat \in [DOMAIN answer.jobs -> OnView(q)] :
            /\ \A n \in DOMAIN answer.jobs : answer.jobs[n] = JobAt(q, seat[n])
            /\ \A i \in OnView(q) : \E n \in DOMAIN answer.jobs : seat[n] = i
            /\ \A n, m \in DOMAIN answer.jobs : seat[n] = seat[m] => n = m
    BY ShownJobs
  <1>4. \A i \in DOMAIN q.posts : /\ JobAt(q, i).post = q.posts[i]
                                  /\ JobAt(q, i).also = {q.posts[k] : k \in AlsoOn(q, i)}
    BY DEF JobAt
  <1>5. OnView(q) \subseteq Heads(q) /\ Heads(q) \subseteq Listable(q) /\ Listable(q) \subseteq DOMAIN q.posts
    BY DEF OnView, Heads, Listable
  <1>6. ASSUME NEW i \in wanted
        PROVE  there(i) \/ aside(i)
    <2>1. PICK h \in Heads(q) :
              /\ Vacancy(q.posts[h]) = Vacancy(q.posts[i]) /\ h <= i
              /\ \A l \in Listable(q) : l < h => Vacancy(q.posts[l]) # Vacancy(q.posts[i])
      BY <1>1, <1>2, HeadOfVacancy
    <2>2. h \in wanted /\ h \in first(i)
      BY <1>2, <1>5, <2>1
    <2>3. CASE ~(q.posts[h].dismissed <=> q.view = "dismissed")
      BY <2>2, <2>3
    <2>4. CASE q.posts[h].dismissed <=> q.view = "dismissed"
      <3>1. h \in OnView(q)
        BY <2>1, <2>2, <2>4 DEF OnView
      <3>2. PICK n \in DOMAIN answer.jobs : seat[n] = h
        BY <1>3, <3>1
      <3>3. /\ answer.jobs[n].post = q.posts[h]
            /\ answer.jobs[n].also = {q.posts[k] : k \in AlsoOn(q, h)}
        BY <1>3, <1>4, <1>5, <2>1, <3>2
      <3>4. CASE i = h
        BY <3>3, <3>4
      <3>5. CASE q.posts[i].source = q.posts[h].source
        BY <2>1, <3>3, <3>5
      <3>6. CASE i # h /\ q.posts[i].source # q.posts[h].source
        <4>1. h < i
          BY <1>2, <2>1, <2>2, <3>6
        <4>2. PICK k \in AlsoOn(q, h) : q.posts[k].source = q.posts[i].source
          BY <1>1, <1>2, <2>1, <3>6, <4>1, SiteIsLinked
        <4>3. q.posts[k] \in answer.jobs[n].also
          BY <3>3, <4>2
        <4> QED
          BY <2>1, <3>3, <4>2, <4>3
      <3> QED
        BY <3>4, <3>5, <3>6
    <2> QED
      BY <2>3, <2>4
  <1>7. ASSUME NEW n \in DOMAIN answer.jobs, NEW m \in DOMAIN answer.jobs,
               Vacancy(answer.jobs[n].post) = Vacancy(answer.jobs[m].post)
        PROVE  n = m
    <2>1. seat[n] \in Heads(q) /\ seat[m] \in Heads(q)
      BY <1>3, <1>5
    <2>2. answer.jobs[n].post = q.posts[seat[n]] /\ answer.jobs[m].post = q.posts[seat[m]]
      BY <1>3, <1>4, <1>5, <2>1
    <2>3. seat[n] = seat[m]
      BY <1>1, <1>7, <2>1, <2>2, HeadsDiffer
    <2> QED
      BY <1>3, <2>3
  <1>8. answer.hidden =
          Cardinality({Vacancy(q.posts[i]) : i \in {i \in wanted : \E k \in first(i) : q.posts[k].dismissed}})
    <2> DEFINE H == {i \in Heads(q) : Wanted(q.posts[i], q) /\ q.posts[i].dismissed}
               D == {i \in wanted : \E k \in first(i) : q.posts[k].dismissed}
               V == {Vacancy(q.posts[i]) : i \in D}
               f == [i \in H |-> Vacancy(q.posts[i])]
    <2>1. IsFiniteSet(H)
      BY <1>1, <1>5, FiniteDomain, FS_Subset
    <2>2. \A i \in H : i \in first(i) /\ i \in D
      BY <1>2, <1>5 DEF Heads
    <2>3. f \in [H -> V]
      BY <2>2
    <2>4. \A i, k \in H : f[i] = f[k] => i = k
      BY <1>1, HeadsDiffer
    <2>5. \A v \in V : \E i \in H : f[i] = v
      <3> SUFFICES ASSUME NEW i \in D PROVE \E k \in H : f[k] = Vacancy(q.posts[i])
        OBVIOUS
      <3>1. PICK k \in first(i) : q.posts[k].dismissed
        OBVIOUS
      <3>2. k \in wanted /\ Vacancy(q.posts[k]) = Vacancy(q.posts[i])
        OBVIOUS
      <3>3. k \in Heads(q)
        BY <1>2, <3>2 DEF Heads
      <3>4. k \in H
        BY <3>1, <3>2, <3>3
      <3> QED
        BY <3>2, <3>4
    <2>6. Hidden(q) = Cardinality(H)
      BY DEF Hidden
    <2> HIDE DEF f, V, H
    <2>7. f \in Bijection(H, V)
      BY <2>3, <2>4, <2>5 DEF Bijection, Injection, Surjection, IsInjective
    <2>8. Cardinality(V) = Cardinality(H)
      BY <2>1, <2>7, FS_Bijection DEF ExistsBijection
    <2> QED
      BY <2>6, <2>8 DEF V
  <1> QED
    BY <1>6, <1>7, <1>8 DEF NothingIsLost

------------------------------------------------------------------------------
(* Its filters and their counts.                                           *)
(* What of a filter decides which jobs pass.                               *)
LEMMA SameFilter ==
    ASSUME NEW jobs, NEW f, NEW g, f.modes = g.modes, f.cities = g.cities, NEW aside, NEW k \in DOMAIN jobs
    PROVE  k \in Passing(jobs, g, aside) <=>
             /\ MatchesLocation(jobs[k].post, f)
             /\ aside = "source" \/ g.sources = {} \/ jobs[k].post.source \in g.sources
             /\ aside = "skill" \/ g.named \subseteq SkillNames(jobs[k])
             /\ aside = "level" \/ g.levels = {} \/ (jobs[k].post.levels = {} /\ g.unknown)
                                \/ jobs[k].post.levels \cap g.levels # {}
  <1>1. MatchesLocation(jobs[k].post, f) <=> MatchesLocation(jobs[k].post, g)
    BY DEF MatchesLocation, InCities
  <1> QED
    BY <1>1 DEF Passing, MatchesSeniority

LEMMA SameResults ==
    ASSUME NEW jobs, NEW f, NEW g, f.modes = g.modes, f.cities = g.cities, NEW k \in DOMAIN jobs
    PROVE  k \in Passing(jobs, g, "nothing") <=>
             /\ MatchesLocation(jobs[k].post, f)
             /\ g.sources = {} \/ jobs[k].post.source \in g.sources
             /\ g.named \subseteq SkillNames(jobs[k])
             /\ g.levels = {} \/ (jobs[k].post.levels = {} /\ g.unknown)
                              \/ jobs[k].post.levels \cap g.levels # {}
BY SameFilter

LEMMA ResultsAre ==
    ASSUME NEW jobs, IsList(jobs), NEW g
    PROVE  /\ Passing(jobs, g, "nothing") \subseteq DOMAIN jobs
           /\ Len(Results(jobs, g)) = Cardinality(Passing(jobs, g, "nothing"))
           /\ Range(Results(jobs, g)) = {jobs[k] : k \in Passing(jobs, g, "nothing")}
  <1> DEFINE I == Passing(jobs, g, "nothing")
             n == Cardinality(I)
             seat == InOrder(I, Upwards(I))
             r == Results(jobs, g)
  <1>1. I \subseteq DOMAIN jobs
    BY DEF Passing
  <1>2. IsFiniteSet(I) /\ I \in SUBSET Nat
    BY <1>1, FiniteDomain, FS_Subset
  <1>3. /\ n \in Nat /\ DOMAIN r = 1..n /\ seat \in [1..n -> I]
        /\ \A k \in 1..n : r[k] = jobs[seat[k]]
        /\ \A i \in I : \E k \in 1..n : seat[k] = i
    <2> HIDE DEF I
    <2> QED
      BY <1>2, PickedInOrder DEF Results, I
  <1>4. IsList(r)
    BY <1>1, PickedIsList DEF Results
  <1> HIDE DEF I, n, seat, r
  <1>5. Len(r) = n
    <2>1. Len(r) \in Nat /\ DOMAIN r = 1..Len(r)
      BY <1>4, ListFacts
    <2>2. 1..n = 1..Len(r)
      BY <1>3, <2>1
    <2>3. \A k \in Nat : Cardinality(1..k) = k
      BY FS_Interval
    <2>4. Cardinality(1..n) = n /\ Cardinality(1..Len(r)) = Len(r)
      BY <1>3, <2>1, <2>3
    <2> QED
      BY <2>2, <2>4
  <1>6. Range(r) = {jobs[k] : k \in I}
    BY <1>3 DEF Range
  <1> QED
    BY <1>1, <1>5, <1>6 DEF I, n, r

LEMMA FacetsAreTrue ==
    ASSUME NEW q, search.q = q, NEW jobs, IsList(jobs), answer.jobs = jobs, answer.facets = Facets(jobs, q),
           \A k \in DOMAIN jobs : jobs[k].post.levels \subseteq {"junior", "mid", "senior"}
    PROVE  FacetsForetell
  <1> DEFINE f == FilterOf(q)
             Pass(g) == Passing(jobs, g, "nothing")
             bySource == Passing(jobs, q, "source")
             bySkill == Passing(jobs, q, "skill")
             byLevel == Passing(jobs, q, "level")
             all == Range(jobs)
             count(g) == Len(Results(jobs, g))
             told(counts, x) == IF x \in DOMAIN counts THEN counts[x] ELSE 0
             facets == Facets(jobs, q)
  <1>0. /\ f.modes = q.modes /\ f.cities = q.cities /\ f.levels = q.levels
        /\ f.unknown = q.unknown /\ f.sources = q.sources /\ f.named = q.named
    BY DEF FilterOf
  <1>1. \A g : count(g) = Cardinality(Pass(g)) /\ Pass(g) \subseteq DOMAIN jobs
    BY ResultsAre
  <1>2. Cardinality({}) = 0
    BY FS_EmptySet
  <1>3. ASSUME NEW s PROVE told(facets.sources, s) = count([f EXCEPT !.sources = {s}])
    <2> DEFINE g == [f EXCEPT !.sources = {s}]
               K == {k \in bySource : jobs[k].post.source = s}
    <2>1. /\ g.modes = q.modes /\ g.cities = q.cities /\ g.levels = q.levels
          /\ g.unknown = q.unknown /\ g.sources = {s} /\ g.named = q.named
      BY DEF FilterOf
    <2> HIDE DEF g
    <2>2. Pass(g) = K
      <3>1. bySource \subseteq DOMAIN jobs
        BY DEF Passing
      <3>2. \A k \in DOMAIN jobs : k \in Pass(g) <=> k \in bySource /\ jobs[k].post.source = s
        <4> TAKE k \in DOMAIN jobs
        <4>1. k \in Pass(g) <=>
                /\ MatchesLocation(jobs[k].post, q)
                /\ jobs[k].post.source = s
                /\ g.named \subseteq SkillNames(jobs[k])
                /\ g.levels = {} \/ (jobs[k].post.levels = {} /\ g.unknown) \/ jobs[k].post.levels \cap g.levels # {}
          <5>1. k \in Pass(g) <=>
                  /\ MatchesLocation(jobs[k].post, q)
                  /\ g.sources = {} \/ jobs[k].post.source \in g.sources
                  /\ g.named \subseteq SkillNames(jobs[k])
                  /\ g.levels = {} \/ (jobs[k].post.levels = {} /\ g.unknown)
                                   \/ jobs[k].post.levels \cap g.levels # {}
            BY <2>1, SameResults
          <5> QED
            BY <2>1, <5>1
        <4>2. k \in bySource <=>
                /\ MatchesLocation(jobs[k].post, q)
                /\ q.named \subseteq SkillNames(jobs[k])
                /\ q.levels = {} \/ (jobs[k].post.levels = {} /\ q.unknown) \/ jobs[k].post.levels \cap q.levels # {}
          BY SameFilter
        <4> QED
          BY <2>1, <4>1, <4>2
      <3> QED
        BY <1>1, <3>1, <3>2
    <2>3. told(facets.sources, s) = Cardinality(K)
      <3>1. facets.sources = [x \in {jobs[k].post.source : k \in bySource} |->
                                Cardinality({k \in bySource : jobs[k].post.source = x})]
        BY DEF Facets
      <3>2. CASE s \in {jobs[k].post.source : k \in bySource}
        BY <3>1, <3>2
      <3>3. CASE s \notin {jobs[k].post.source : k \in bySource}
        <4>1. K = {}
          BY <3>3
        <4> QED
          BY <1>2, <3>1, <3>3, <4>1
      <3> QED
        BY <3>2, <3>3
    <2> QED
      BY <1>1, <2>2, <2>3 DEF g
  <1>4. ASSUME NEW s PROVE told(facets.skills, s) = count([f EXCEPT !.named = {s}])
    <2> DEFINE g == [f EXCEPT !.named = {s}]
               K == {k \in bySkill : s \in SkillNames(jobs[k])}
    <2>1. /\ g.modes = q.modes /\ g.cities = q.cities /\ g.levels = q.levels
          /\ g.unknown = q.unknown /\ g.sources = q.sources /\ g.named = {s}
      BY DEF FilterOf
    <2> HIDE DEF g
    <2>2. Pass(g) = K
      <3>1. bySkill \subseteq DOMAIN jobs
        BY DEF Passing
      <3>2. \A k \in DOMAIN jobs : k \in Pass(g) <=> k \in bySkill /\ s \in SkillNames(jobs[k])
        <4> TAKE k \in DOMAIN jobs
        <4>1. k \in Pass(g) <=>
                /\ MatchesLocation(jobs[k].post, q)
                /\ g.sources = {} \/ jobs[k].post.source \in g.sources
                /\ s \in SkillNames(jobs[k])
                /\ g.levels = {} \/ (jobs[k].post.levels = {} /\ g.unknown) \/ jobs[k].post.levels \cap g.levels # {}
          BY <2>1, SameFilter
        <4>2. k \in bySkill <=>
                /\ MatchesLocation(jobs[k].post, q)
                /\ q.sources = {} \/ jobs[k].post.source \in q.sources
                /\ q.levels = {} \/ (jobs[k].post.levels = {} /\ q.unknown) \/ jobs[k].post.levels \cap q.levels # {}
          BY SameFilter
        <4> QED
          BY <2>1, <4>1, <4>2
      <3> QED
        BY <1>1, <3>1, <3>2
    <2>3. told(facets.skills, s) = Cardinality(K)
      <3>1. facets.skills = [x \in UNION {SkillNames(jobs[k]) : k \in bySkill} |->
                                Cardinality({k \in bySkill : x \in SkillNames(jobs[k])})]
        BY DEF Facets
      <3>2. CASE s \in UNION {SkillNames(jobs[k]) : k \in bySkill}
        BY <3>1, <3>2
      <3>3. CASE s \notin UNION {SkillNames(jobs[k]) : k \in bySkill}
        <4>1. K = {}
          BY <3>3
        <4> QED
          BY <1>2, <3>1, <3>3, <4>1
      <3> QED
        BY <3>2, <3>3
    <2> QED
      BY <1>1, <2>2, <2>3 DEF g
  <1>5. ASSUME NEW l \in {"junior", "mid", "senior"}
        PROVE  facets.levels[l] = count([f EXCEPT !.levels = {l}, !.unknown = FALSE])
    <2> DEFINE g == [f EXCEPT !.levels = {l}, !.unknown = FALSE]
               K == {k \in byLevel : l \in jobs[k].post.levels}
    <2>1. /\ g.modes = q.modes /\ g.cities = q.cities /\ g.levels = {l}
          /\ g.unknown = FALSE /\ g.sources = q.sources /\ g.named = q.named
      BY DEF FilterOf
    <2> HIDE DEF g
    <2>2. Pass(g) = K
      <3>1. byLevel \subseteq DOMAIN jobs
        BY DEF Passing
      <3>2. \A k \in DOMAIN jobs : k \in Pass(g) <=> k \in byLevel /\ l \in jobs[k].post.levels
        <4> TAKE k \in DOMAIN jobs
        <4>1. k \in Pass(g) <=>
                /\ MatchesLocation(jobs[k].post, q)
                /\ g.sources = {} \/ jobs[k].post.source \in g.sources
                /\ g.named \subseteq SkillNames(jobs[k])
                /\ l \in jobs[k].post.levels
          BY <2>1, SameFilter
        <4>2. k \in byLevel <=>
                /\ MatchesLocation(jobs[k].post, q)
                /\ q.sources = {} \/ jobs[k].post.source \in q.sources
                /\ q.named \subseteq SkillNames(jobs[k])
          BY SameFilter
        <4> QED
          BY <2>1, <4>1, <4>2
      <3> QED
        BY <1>1, <3>1, <3>2
    <2>3. facets.levels[l] = Cardinality(K)
      BY DEF Facets
    <2> QED
      BY <1>1, <2>2, <2>3 DEF g
  <1>6. facets.unknown = count([f EXCEPT !.levels = {"none"}, !.unknown = TRUE])
    <2> DEFINE g == [f EXCEPT !.levels = {"none"}, !.unknown = TRUE]
               K == {k \in byLevel : jobs[k].post.levels = {}}
    <2>1. /\ g.modes = q.modes /\ g.cities = q.cities /\ g.levels = {"none"}
          /\ g.unknown = TRUE /\ g.sources = q.sources /\ g.named = q.named
      BY DEF FilterOf
    <2> HIDE DEF g
    <2>2. Pass(g) = K
      <3>1. byLevel \subseteq DOMAIN jobs
        BY DEF Passing
      <3>2. \A k \in DOMAIN jobs : k \in Pass(g) <=> k \in byLevel /\ jobs[k].post.levels = {}
        <4> TAKE k \in DOMAIN jobs
        <4>0. jobs[k].post.levels \cap {"none"} = {}
          <5>1. "none" \notin {"junior", "mid", "senior"}
            OBVIOUS
          <5> QED
            BY <5>1
        <4>1. k \in Pass(g) <=>
                /\ MatchesLocation(jobs[k].post, q)
                /\ g.sources = {} \/ jobs[k].post.source \in g.sources
                /\ g.named \subseteq SkillNames(jobs[k])
                /\ jobs[k].post.levels = {}
          <5>1. k \in Pass(g) <=>
                  /\ MatchesLocation(jobs[k].post, q)
                  /\ g.sources = {} \/ jobs[k].post.source \in g.sources
                  /\ g.named \subseteq SkillNames(jobs[k])
                  /\ g.levels = {} \/ (jobs[k].post.levels = {} /\ g.unknown)
                                   \/ jobs[k].post.levels \cap g.levels # {}
            BY <2>1, SameResults
          <5> QED
            BY <2>1, <4>0, <5>1
        <4>2. k \in byLevel <=>
                /\ MatchesLocation(jobs[k].post, q)
                /\ q.sources = {} \/ jobs[k].post.source \in q.sources
                /\ q.named \subseteq SkillNames(jobs[k])
          BY SameFilter
        <4> QED
          BY <2>1, <4>1, <4>2
      <3> QED
        BY <1>1, <3>1, <3>2
    <2>3. facets.unknown = Cardinality(K)
      BY DEF Facets
    <2> QED
      BY <1>1, <2>2, <2>3 DEF g
  <1> HIDE DEF f, facets
  <1> QED
    BY <1>3, <1>4, <1>5, <1>6 DEF FacetsForetell, f, facets

(* More places or levels, where there are some, let more jobs pass.        *)
LEMMA WideningIsSafe ==
    ASSUME NEW q, search.q = q, NEW jobs, IsList(jobs), answer.jobs = jobs
    PROVE  WideningKeeps
  <1> DEFINE f == FilterOf(q)
             Pass(g) == Passing(jobs, g, "nothing")
             within(g, h) == Range(Results(jobs, g)) \subseteq Range(Results(jobs, h))
  <1>1. \A g, h : Pass(g) \subseteq Pass(h) => within(g, h)
    BY ResultsAre
  <1>2. f = [modes |-> q.modes, cities |-> q.cities, levels |-> q.levels, unknown |-> q.unknown,
             sources |-> q.sources, named |-> q.named]
    BY DEF FilterOf
  <1>3. ASSUME f.modes # {}, NEW m PROVE within(f, [f EXCEPT !.modes = f.modes \cup {m}])
    <2> DEFINE g == [f EXCEPT !.modes = f.modes \cup {m}]
    <2>1. /\ g.modes = f.modes \cup {m} /\ g.cities = f.cities /\ g.levels = f.levels
          /\ g.unknown = f.unknown /\ g.sources = f.sources /\ g.named = f.named
      BY <1>2
    <2> HIDE DEF g, f
    <2>2. \A p : MatchesLocation(p, f) => MatchesLocation(p, g)
      BY <1>3, <2>1 DEF MatchesLocation, InCities
    <2>3. Pass(f) \subseteq Pass(g)
      BY <2>1, <2>2 DEF Passing, MatchesSeniority
    <2>4. within(f, g)
      BY <1>1, <2>3
    <2> QED
      BY <2>4 DEF g
  <1>4. ASSUME f.cities # {} PROVE within(f, [f EXCEPT !.cities = f.cities \cup {"other"}])
    <2> DEFINE g == [f EXCEPT !.cities = f.cities \cup {"other"}]
    <2>1. /\ g.modes = f.modes /\ g.cities = f.cities \cup {"other"} /\ g.levels = f.levels
          /\ g.unknown = f.unknown /\ g.sources = f.sources /\ g.named = f.named
      BY <1>2
    <2> HIDE DEF g, f
    <2>2. \A p : MatchesLocation(p, f) => MatchesLocation(p, g)
      BY <1>4, <2>1 DEF MatchesLocation, InCities
    <2>3. Pass(f) \subseteq Pass(g)
      BY <2>1, <2>2 DEF Passing, MatchesSeniority
    <2>4. within(f, g)
      BY <1>1, <2>3
    <2> QED
      BY <2>4 DEF g
  <1>5. ASSUME f.levels # {}, NEW l PROVE within(f, [f EXCEPT !.levels = f.levels \cup {l}])
    <2> DEFINE g == [f EXCEPT !.levels = f.levels \cup {l}]
    <2>1. /\ g.modes = f.modes /\ g.cities = f.cities /\ g.levels = f.levels \cup {l}
          /\ g.unknown = f.unknown /\ g.sources = f.sources /\ g.named = f.named
      BY <1>2
    <2> HIDE DEF g, f
    <2>2. \A p : MatchesLocation(p, f) => MatchesLocation(p, g)
      BY <2>1 DEF MatchesLocation, InCities
    <2>3. Pass(f) \subseteq Pass(g)
      BY <1>5, <2>1, <2>2 DEF Passing, MatchesSeniority
    <2>4. within(f, g)
      BY <1>1, <2>3
    <2> QED
      BY <2>4 DEF g
  <1> HIDE DEF f
  <1> QED
    BY <1>3, <1>4, <1>5 DEF WideningKeeps, f

------------------------------------------------------------------------------
(* The list of Vagas.                                                      *)
(* All of a list is the list.                                              *)
LEMMA AllPicked ==
    ASSUME NEW s, IsList(s)
    PROVE  Picked(s, DOMAIN s) = s
  <1> DEFINE n == Len(s)
             D == DOMAIN s
             o == InOrder(D, Upwards(D))
             same == [k \in 1..n |-> k]
  <1>1. n \in Nat /\ D = 1..n /\ s = [i \in 1..n |-> s[i]]
    BY ListFacts
  <1>2. IsFiniteSet(D) /\ D \in SUBSET Nat /\ Cardinality(D) = n
    <2>1. Cardinality(1..n) = n
      BY <1>1, FS_Interval
    <2> QED
      BY <1>1, <2>1, FiniteDomain
  <1> HIDE DEF D, n
  <1>3. /\ o \in [1..n -> D]
        /\ \A i \in D : \E k \in 1..n : o[k] = i
        /\ \A j, k \in 1..n : j < k <=> o[j] < o[k]
    BY <1>2, PickedInOrder
  <1>4. Lists(o, n, D, Upwards(D))
    BY <1>3 DEF Lists, Upwards
  <1>5. Lists(same, n, D, Upwards(D))
    BY <1>1 DEF Lists, Upwards
  <1>6. \A x, y \in D : ~(<<x, y>> \in Upwards(D) /\ <<y, x>> \in Upwards(D))
    BY <1>2 DEF Upwards
  <1>7. o = same
    BY <1>1, <1>4, <1>5, <1>6, OneOrder
  <1>8. Picked(s, D) = [k \in 1..n |-> s[o[k]]]
    BY <1>2 DEF Picked
  <1> HIDE DEF o
  <1>9. Picked(s, D) = s
    BY <1>1, <1>7, <1>8
  <1> QED
    BY <1>9 DEF D

LEMMA BeforeByFitIsOrder ==
    ASSUME NEW q, IsList(q.jobs), \A j \in Range(q.jobs) : IsList(j.stack)
    PROVE  /\ IsOrder(BeforeByFit(q), PassingFit(q))
           /\ IsFiniteSet(PassingFit(q)) /\ PassingFit(q) \subseteq DOMAIN q.jobs
  <1> DEFINE D == PassingFit(q)
             pct == [i \in D |-> PctOf(q.jobs[i], q)]
             before(i, k) == IF q.byFit /\ pct[i] # pct[k] THEN pct[i] > pct[k] ELSE i < k
  <1>1. D \subseteq DOMAIN q.jobs /\ DOMAIN q.jobs \subseteq Nat
    BY FiniteDomain DEF PassingFit, QuerySelectJobFitRows
  <1>2. IsFiniteSet(D)
    BY <1>1, FiniteDomain, FS_Subset
  <1>3. \A i \in D : pct[i] \in Int
    <2> TAKE i \in D
    <2>1. IsList(q.jobs[i].stack)
      BY <1>1 DEF Range
    <2>2. Fit(q.jobs[i].stack, q).pct \in Int
      BY <2>1, FiniteDomain, FitIsRanked
    <2> QED
      BY <2>2 DEF PctOf
  <1>4. \A i, k \in D : <<i, k>> \in BeforeByFit(q) <=> before(i, k)
    BY DEF BeforeByFit
  <1> HIDE DEF D, pct
  <1>5. \A i, j, k \in D : before(i, j) /\ before(j, k) => before(i, k)
    BY <1>1, <1>3
  <1>6. \A i, k \in D : ~before(i, i) /\ (i # k => before(i, k) \/ before(k, i))
    BY <1>1, <1>3
  <1>7. IsOrder(BeforeByFit(q), D)
    <2> HIDE DEF before
    <2> QED
      BY <1>4, <1>5, <1>6 DEF IsOrder
  <1> QED
    BY <1>1, <1>2, <1>7 DEF D

LEMMA ByFitIs ==
    ASSUME NEW q, IsList(q.jobs), \A j \in Range(q.jobs) : IsList(j.stack)
    PROVE  /\ IsList(ByFit(q))
           /\ \E o \in [DOMAIN ByFit(q) -> PassingFit(q)] :
                 /\ \A k \in DOMAIN ByFit(q) : ByFit(q)[k] = q.jobs[o[k]]
                 /\ \A i, k \in DOMAIN ByFit(q) : o[i] = o[k] => i = k
  <1> DEFINE S == PassingFit(q)
             R == BeforeByFit(q)
             n == Cardinality(S)
             o == InOrder(S, R)
             list == ByFit(q)
  <1>1. IsOrder(R, S) /\ IsFiniteSet(S)
    BY BeforeByFitIsOrder
  <1>2. list = [k \in 1..n |-> q.jobs[o[k]]]
    BY DEF ByFit
  <1> HIDE DEF S, R, list
  <1>3. /\ n \in Nat /\ o \in [1..n -> S]
        /\ \A j, k \in 1..n : j < k <=> <<o[j], o[k]>> \in R
    BY <1>1, InOrderSorts
  <1> HIDE DEF o, n
  <1>4. \A j, k \in 1..n : o[j] = o[k] => j = k
    <2> SUFFICES ASSUME NEW j \in 1..n, NEW k \in 1..n, o[j] = o[k], j < k PROVE FALSE
      BY <1>3
    <2>1. <<o[j], o[j]>> \in R /\ o[j] \in S
      BY <1>3
    <2> QED
      BY <1>1, <2>1 DEF IsOrder
  <1>5. DOMAIN list = 1..n /\ list = [k \in 1..n |-> list[k]]
    BY <1>2
  <1>6. IsList(list)
    BY <1>3, <1>5, AList
  <1>7. /\ o \in [DOMAIN list -> S]
        /\ \A k \in DOMAIN list : list[k] = q.jobs[o[k]]
        /\ \A i, k \in DOMAIN list : o[i] = o[k] => i = k
    BY <1>2, <1>3, <1>4, <1>5
  <1> QED
    BY <1>6, <1>7 DEF list, S

LEMMA PageIs ==
    ASSUME NEW list, IsList(list), NEW cursor \in Int, NEW size \in Int
    PROVE  LET start == IF cursor < 0 THEN 0 ELSE cursor
               room  == IF size < 1 THEN 1 ELSE size
           IN  /\ IsList(PageOf(list, cursor, size))
               /\ \A i : i \in DOMAIN PageOf(list, cursor, size) <=> i \in 1..room /\ start + i <= Len(list)
               /\ \A i \in DOMAIN PageOf(list, cursor, size) :
                     PageOf(list, cursor, size)[i] = list[start + i] /\ start + i \in DOMAIN list
  <1> DEFINE start == IF cursor < 0 THEN 0 ELSE cursor
             room  == IF size < 1 THEN 1 ELSE size
             D == {k \in 1..room : start + k <= Len(list)}
             page == PageOf(list, cursor, size)
             n == IF start >= Len(list) THEN 0 ELSE IF start + room <= Len(list) THEN room ELSE Len(list) - start
  <1>1. start \in Nat /\ room \in Nat \ {0}
    OBVIOUS
  <1>2. Len(list) \in Nat /\ DOMAIN list = 1..Len(list)
    BY ListFacts
  <1>3. page = [i \in D |-> list[start + i]]
    BY DEF PageOf
  <1> HIDE DEF start, room, page
  <1>4. n \in Nat /\ D = 1..n
    BY <1>1, <1>2
  <1>5. page = [i \in 1..n |-> page[i]]
    <2> HIDE DEF D, n
    <2> QED
      BY <1>3, <1>4
  <1>6. IsList(page)
    <2> HIDE DEF n
    <2> QED
      BY <1>4, <1>5, AList
  <1>7. \A i \in D : start + i \in 1..Len(list)
    BY <1>1, <1>2
  <1>8. DOMAIN page = D /\ \A i \in D : page[i] = list[start + i]
    BY <1>3
  <1> QED
    BY <1>2, <1>6, <1>7, <1>8 DEF start, room, page

(* What is on a page is in the list; without deletions, all of it.         *)
LEMMA PageReadIs ==
    ASSUME NEW list, IsList(list), NEW cursor \in Int, NEW size \in Int
    PROVE  /\ \A gone : Range(JobsOfPage(list, gone, cursor, size)) \subseteq Range(list)
           /\ JobsOfPage(list, {}, cursor, size) = PageOf(list, cursor, size)
  <1> DEFINE page == PageOf(list, cursor, size)
  <1>1. IsList(page) /\ Range(page) \subseteq Range(list)
    BY PageIs DEF Range
  <1>2. ASSUME NEW gone PROVE Range(JobsOfPage(list, gone, cursor, size)) \subseteq Range(list)
    <2> DEFINE I == {i \in DOMAIN page : [k \in DOMAIN page |-> page[k].id \notin gone][i]}
    <2>1. I \in SUBSET DOMAIN page /\ JobsOfPage(list, gone, cursor, size) = Picked(page, I)
      BY DEF JobsOfPage, ThoseWith
    <2> HIDE DEF I, page
    <2>2. \A k \in DOMAIN Picked(page, I) : \E i \in I : Picked(page, I)[k] = page[i]
      BY <1>1, <2>1, PickedIsList
    <2> QED
      BY <1>1, <2>1, <2>2 DEF Range
  <1>3. JobsOfPage(list, {}, cursor, size) = page
    <2> DEFINE I == {i \in DOMAIN page : [k \in DOMAIN page |-> page[k].id \notin {}][i]}
    <2>1. I = DOMAIN page /\ JobsOfPage(list, {}, cursor, size) = Picked(page, I)
      BY DEF JobsOfPage, ThoseWith
    <2> HIDE DEF I, page
    <2> QED
      BY <1>1, <2>1, AllPicked
  <1> QED
    BY <1>2, <1>3

LEMMA OnePlace ==
    ASSUME NEW room \in Nat \ {0}, NEW a \in Nat, NEW b \in Nat, NEW i \in 1..room, NEW j \in 1..room,
           a * room + i = b * room + j
    PROVE  a = b /\ i = j
  <1>1. ASSUME NEW x \in Nat, NEW y \in Nat, NEW k \in 1..room, NEW l \in 1..room, x < y
        PROVE  x * room + k < y * room + l
    <2>1. PICK d \in Nat : y = x + 1 + d
      <3>1. y - x - 1 \in Nat /\ y = x + 1 + (y - x - 1)
        BY <1>1
      <3> QED
        BY <3>1
    <2>2. y * room = x * room + room + d * room /\ d * room \in Nat
      BY <2>1
    <2> QED
      BY <2>2
  <1>2. a * room \in Nat /\ b * room \in Nat
    OBVIOUS
  <1>3. ~(a < b) /\ ~(b < a)
    BY <1>1, <1>2
  <1> QED
    BY <1>2, <1>3

LEMMA PagesRight ==
    ASSUME NEW q \in JobPages, search.q = q,
           answer.page = JobsOfPage(ByFit(q), q.gone, q.cursor, q.size),
           answer.jobs = AfterLooking(q, answer.page)
    PROVE  PagesAreTrue
  <1> DEFINE list == ByFit(q)
             room == IF q.size < 1 THEN 1 ELSE q.size
             page(m) == JobsOfPage(list, {}, m * room, q.size)
             spots == {s \in (0..Len(list)) \X (1..room) : s[2] \in DOMAIN page(s[1])}
             job(s) == page(s[1])[s[2]]
             now == [jobs |-> answer.jobs, skills |-> q.skills, aliases |-> q.aliases,
                     minPct |-> q.minPct, byFit |-> q.byFit, quality |-> q.quality]
             again == JobsOfPage(ByFit(now), q.gone, q.cursor, q.size)
             able(j) == j.completed /\ j.stored # "" /\ j.stack # <<>>
  <1>1. /\ IsList(q.jobs) /\ q.cursor \in Int /\ q.size \in Int
        /\ \A j \in Range(q.jobs) : IsList(j.stack)
        /\ \A i, k \in DOMAIN q.jobs : q.jobs[i].id = q.jobs[k].id => i = k
    BY ListsAssumption
  <1>2. IsList(list) /\ PassingFit(q) \subseteq DOMAIN q.jobs
    BY <1>1, ByFitIs, BeforeByFitIsOrder
  <1>3. PICK o \in [DOMAIN list -> PassingFit(q)] :
            /\ \A k \in DOMAIN list : list[k] = q.jobs[o[k]]
            /\ \A i, k \in DOMAIN list : o[i] = o[k] => i = k
    BY <1>1, ByFitIs
  <1>4. room \in Nat \ {0} /\ Len(list) \in Nat /\ DOMAIN list = 1..Len(list)
    BY <1>1, <1>2, ListFacts
  <1>5. \A i, k \in DOMAIN list : list[i] = list[k] => i = k
    BY <1>1, <1>2, <1>3
  <1>6. ASSUME NEW m \in Nat
        PROVE  /\ \A i : i \in DOMAIN page(m) <=> i \in 1..room /\ m * room + i <= Len(list)
               /\ \A i \in DOMAIN page(m) : page(m)[i] = list[m * room + i] /\ m * room + i \in DOMAIN list
    <2>1. m * room \in Int /\ ~(m * room < 0)
      BY <1>4
    <2>2. page(m) = PageOf(list, m * room, q.size)
      BY <1>1, <1>2, <2>1, PageReadIs
    <2> HIDE DEF list
    <2> QED
      BY <1>1, <1>2, <2>1, <2>2, PageIs
  <1> HIDE DEF list, room, page
  <1>7. ASSUME NEW j \in Range(list) PROVE \E s \in spots : job(s) = j
    <2>1. PICK k \in DOMAIN list : list[k] = j
      BY DEF Range
    <2> DEFINE m == (k - 1) \div room
               i == k - m * room
    <2>2. m \in Nat /\ room * m <= k - 1 /\ k - 1 < room * m + room
      BY <1>4, Quotient
    <2> HIDE DEF m
    <2>3. m <= room * m /\ m * room = room * m /\ m * room \in Nat
      BY <1>4, <2>2
    <2>4. i \in 1..room /\ m * room + i = k /\ m \in 0..Len(list)
      BY <1>4, <2>2, <2>3
    <2> HIDE DEF i
    <2>5. i \in DOMAIN page(m) /\ page(m)[i] = list[k]
      <3>1. m * room + i <= Len(list) /\ i \in 1..room
        BY <1>4, <2>4
      <3>2. i \in DOMAIN page(m)
        BY <1>6, <2>2, <3>1
      <3>3. page(m)[i] = list[m * room + i]
        BY <1>6, <2>2, <3>2
      <3> QED
        BY <2>4, <3>2, <3>3
    <2> DEFINE s == <<m, i>>
    <2>6. s \in spots /\ job(s) = j
      BY <2>1, <2>4, <2>5
    <2> QED
      BY <2>6
  <1>8. ASSUME NEW s \in spots PROVE job(s) \in Range(list)
    <2>1. s[1] \in Nat /\ s[2] \in DOMAIN page(s[1])
      BY <1>4
    <2> QED
      BY <1>6, <2>1 DEF Range
  <1>9. ASSUME NEW s \in spots, NEW t \in spots, job(s) = job(t) PROVE s = t
    <2>1. /\ s[1] \in Nat /\ t[1] \in Nat /\ s[2] \in DOMAIN page(s[1]) /\ t[2] \in DOMAIN page(t[1])
          /\ s[2] \in 1..room /\ t[2] \in 1..room
          /\ s = <<s[1], s[2]>> /\ t = <<t[1], t[2]>>
      BY <1>4
    <2>2. /\ job(s) = list[s[1] * room + s[2]] /\ s[1] * room + s[2] \in DOMAIN list
          /\ job(t) = list[t[1] * room + t[2]] /\ t[1] * room + t[2] \in DOMAIN list
      BY <1>6, <2>1
    <2>3. s[1] * room + s[2] = t[1] * room + t[2]
      BY <1>5, <1>9, <2>2
    <2>4. s[1] = t[1] /\ s[2] = t[2]
      <3>1. \A a, b \in Nat : \A i, j \in 1..room : a * room + i = b * room + j => a = b /\ i = j
        BY <1>4, OnePlace
      <3> QED
        BY <2>1, <2>3, <3>1
    <2> QED
      BY <2>1, <2>4
  <1>10. ASSUME q.quality # "", NEW j \in Range(again),
                NEW x \in Range(answer.page), x.id = j.id, able(j)
         PROVE  Fit(j.stack, q).quality = q.quality
    <2>1. Range(answer.page) \subseteq Range(list)
      <3>1. IsList(ByFit(q))
        BY <1>2 DEF list
      <3>2. Range(JobsOfPage(ByFit(q), q.gone, q.cursor, q.size)) \subseteq Range(ByFit(q))
        BY <1>1, <3>1, PageReadIs
      <3> QED
        BY <3>2 DEF list
    <2>2. PICK l \in DOMAIN q.jobs : x = q.jobs[l]
      BY <1>2, <1>3, <2>1 DEF Range
    <2>3. /\ DOMAIN answer.jobs = DOMAIN q.jobs
          /\ \A i \in DOMAIN q.jobs :
                /\ answer.jobs[i].id = q.jobs[i].id /\ answer.jobs[i].stack = q.jobs[i].stack
                /\ q.jobs[i] \in Range(answer.page) => answer.jobs[i] = Attached(q.jobs[i], q)
      <3>1. answer.jobs = [i \in DOMAIN q.jobs |->
                IF q.jobs[i] \in Range(answer.page) THEN Attached(q.jobs[i], q) ELSE q.jobs[i]]
        BY DEF AfterLooking
      <3>2. \A y : Attached(y, q).id = y.id /\ Attached(y, q).stack = y.stack
        BY DEF Attached
      <3> QED
        BY <3>1, <3>2
    <2>4. IsList(answer.jobs) /\ \A y \in Range(answer.jobs) : IsList(y.stack)
      <3>1. answer.jobs = [i \in DOMAIN answer.jobs |-> answer.jobs[i]]
        BY DEF AfterLooking
      <3>2. IsList(answer.jobs)
        BY <1>1, <2>3, <3>1, MappedIsList
      <3> QED
        BY <1>1, <2>3, <3>2 DEF Range
    <2>5. now.jobs = answer.jobs /\ now.quality = q.quality
      OBVIOUS
    <2> HIDE DEF now
    <2>6. IsList(ByFit(now)) /\ PassingFit(now) \subseteq DOMAIN now.jobs
      BY <2>4, <2>5, ByFitIs, BeforeByFitIsOrder
    <2>7. PICK i \in PassingFit(now) : j = answer.jobs[i]
      <3>1. j \in Range(ByFit(now))
        BY <1>1, <2>6, PageReadIs
      <3>2. \E b \in [DOMAIN ByFit(now) -> PassingFit(now)] :
               \A k \in DOMAIN ByFit(now) : ByFit(now)[k] = now.jobs[b[k]]
        BY <2>4, <2>5, ByFitIs
      <3> QED
        BY <2>5, <3>1, <3>2 DEF Range
    <2>8. i \in DOMAIN q.jobs /\ i = l
      <3>1. i \in DOMAIN q.jobs
        BY <2>3, <2>5, <2>6, <2>7
      <3>2. q.jobs[i].id = q.jobs[l].id
        BY <1>10, <2>2, <2>3, <2>7, <3>1
      <3> QED
        BY <1>1, <2>2, <3>1, <3>2
    <2>9. j.stored = q.quality
      BY <1>10, <2>5, <2>7 DEF PassingFit, QuerySelectJobFitRows
    <2>10. j = Attached(q.jobs[i], q)
      BY <2>2, <2>3, <2>7, <2>8
    <2>11. /\ j.stack = q.jobs[i].stack /\ j.completed = q.jobs[i].completed
           /\ j.stored = IF q.jobs[i].stack # <<>> /\ q.jobs[i].completed /\ q.jobs[i].stored # ""
                         THEN Fit(q.jobs[i].stack, q).quality ELSE q.jobs[i].stored
      BY <2>10 DEF Attached
    <2>12. q.jobs[i].stored # ""
      BY <1>10, <2>11
    <2> QED
      BY <1>10, <2>9, <2>11, <2>12
  <1>11. q.quality # "" =>
           \A j \in Range(again) :
              (\E i \in Range(answer.page) : i.id = j.id) /\ able(j) => Fit(j.stack, q).quality = q.quality
    BY <1>10
  <1>12. FilterIsTrue(q)
    BY <1>11 DEF FilterIsTrue
  <1>13. WalkIsWhole(q)
    <2>1. /\ \A j \in Range(list) : \E s \in spots : job(s) = j
          /\ \A s \in spots : job(s) \in Range(list)
          /\ \A s, t \in spots : job(s) = job(t) => s = t
      BY <1>7, <1>8, <1>9
    <2> QED
      BY <2>1 DEF WalkIsWhole, list, room, page
  <1> QED
    BY <1>12, <1>13 DEF PagesAreTrue

------------------------------------------------------------------------------
(* The keywords of a job, and all answers.                                 *)
(* A list that has what s has at the places I, from one place each.        *)
Drawn(u, s, I) ==
    /\ IsList(u)
    /\ \A k \in DOMAIN u : \E i \in I : u[k] = s[i]
    /\ \A j, k \in DOMAIN u : j # k => \E x, y \in I : x # y /\ u[j] = s[x] /\ u[k] = s[y]
    /\ \A i \in I : \E k \in DOMAIN u : u[k] = s[i]

LEMMA PickedIsDrawn ==
    ASSUME NEW s, IsList(s), NEW I \in SUBSET DOMAIN s
    PROVE  Drawn(Picked(s, I), s, I)
  <1>1. IsFiniteSet(I) /\ I \in SUBSET Nat
    BY FiniteDomain, FS_Subset
  <1>2. \A i \in I : \E k \in DOMAIN Picked(s, I) : Picked(s, I)[k] = s[i]
    BY <1>1, PickedInOrder
  <1> QED
    BY <1>2, PickedIsList DEF Drawn

LEMMA DrawnJoined ==
    ASSUME NEW s, NEW I, NEW J, I \cap J = {},
           NEW u, Drawn(u, s, I), NEW v, Drawn(v, s, J)
    PROVE  Drawn(u \o v, s, I \cup J)
  <1> DEFINE w == u \o v
             m == Len(u)
             n == Len(v)
  <1>1. m \in Nat /\ n \in Nat /\ DOMAIN u = 1..m /\ DOMAIN v = 1..n
    BY ListFacts DEF Drawn
  <1>0. /\ \A k \in DOMAIN u : \E i \in I : u[k] = s[i]
        /\ \A j, k \in DOMAIN u : j # k => \E x, y \in I : x # y /\ u[j] = s[x] /\ u[k] = s[y]
        /\ \A i \in I : \E k \in DOMAIN u : u[k] = s[i]
        /\ \A k \in DOMAIN v : \E i \in J : v[k] = s[i]
        /\ \A j, k \in DOMAIN v : j # k => \E x, y \in J : x # y /\ v[j] = s[x] /\ v[k] = s[y]
        /\ \A i \in J : \E k \in DOMAIN v : v[k] = s[i]
    BY DEF Drawn
  <1>2. /\ IsList(w) /\ DOMAIN w = 1..(m + n)
        /\ \A i \in 1..(m + n) : w[i] = IF i <= m THEN u[i] ELSE v[i - m]
    BY ListsJoined DEF Drawn
  <1>3. \A k \in DOMAIN u : k \in DOMAIN w /\ w[k] = u[k]
    BY <1>1, <1>2
  <1>4. \A k \in DOMAIN v : m + k \in DOMAIN w /\ w[m + k] = v[k]
    <2> TAKE k \in DOMAIN v
    <2>1. m + k \in 1..(m + n) /\ ~(m + k <= m) /\ (m + k) - m = k
      BY <1>1
    <2> QED
      BY <1>2, <2>1
  <1>5. \A k \in DOMAIN w : k \in DOMAIN u \/ \E l \in DOMAIN v : k = m + l
    <2> TAKE k \in DOMAIN w
    <2>1. CASE k <= m
      BY <1>1, <1>2, <2>1
    <2>2. CASE k > m
      <3>1. k - m \in DOMAIN v /\ k = m + (k - m)
        BY <1>1, <1>2, <2>2
      <3> QED
        BY <3>1
    <2> QED
      BY <1>1, <1>2, <2>1, <2>2
  <1> HIDE DEF w
  <1>6. \A k \in DOMAIN w : \E i \in I \cup J : w[k] = s[i]
    <2> TAKE k \in DOMAIN w
    <2>1. CASE k \in DOMAIN u
      BY <1>0, <1>3, <2>1
    <2>2. ASSUME NEW l \in DOMAIN v, k = m + l
          PROVE  \E i \in I \cup J : w[k] = s[i]
      BY <1>0, <1>4, <2>2
    <2> QED
      BY <1>5, <2>1, <2>2
  <1>7. \A i \in I \cup J : \E k \in DOMAIN w : w[k] = s[i]
    <2> TAKE i \in I \cup J
    <2>1. CASE i \in I
      BY <1>0, <1>3, <2>1
    <2>2. CASE i \in J
      BY <1>0, <1>4, <2>2
    <2> QED
      BY <2>1, <2>2
  <1>8. ASSUME NEW j \in DOMAIN w, NEW k \in DOMAIN w, j # k
        PROVE  \E x, y \in I \cup J : x # y /\ w[j] = s[x] /\ w[k] = s[y]
    <2>1. CASE j \in DOMAIN u /\ k \in DOMAIN u
      <3>1. PICK x \in I, y \in I : x # y /\ u[j] = s[x] /\ u[k] = s[y]
        BY <1>0, <1>8, <2>1
      <3> QED
        BY <1>3, <2>1, <3>1
    <2>2. ASSUME j \in DOMAIN u, NEW b \in DOMAIN v, k = m + b
          PROVE  \E x, y \in I \cup J : x # y /\ w[j] = s[x] /\ w[k] = s[y]
      <3>1. PICK x \in I : u[j] = s[x]
        BY <1>0, <2>2
      <3>2. PICK y \in J : v[b] = s[y]
        BY <1>0, <2>2
      <3> QED
        BY <1>3, <1>4, <2>2, <3>1, <3>2
    <2>3. ASSUME NEW a \in DOMAIN v, j = m + a, k \in DOMAIN u
          PROVE  \E x, y \in I \cup J : x # y /\ w[j] = s[x] /\ w[k] = s[y]
      <3>1. PICK x \in J : v[a] = s[x]
        BY <1>0, <2>3
      <3>2. PICK y \in I : u[k] = s[y]
        BY <1>0, <2>3
      <3> QED
        BY <1>3, <1>4, <2>3, <3>1, <3>2
    <2>4. ASSUME NEW a \in DOMAIN v, j = m + a, NEW b \in DOMAIN v, k = m + b
          PROVE  \E x, y \in I \cup J : x # y /\ w[j] = s[x] /\ w[k] = s[y]
      <3>1. a # b
        BY <1>8, <2>4
      <3>2. PICK x \in J, y \in J : x # y /\ v[a] = s[x] /\ v[b] = s[y]
        BY <1>0, <2>4, <3>1
      <3> QED
        BY <1>4, <2>4, <3>2
    <2> QED
      BY <1>5, <2>1, <2>2, <2>3, <2>4
  <1> QED
    BY <1>2, <1>6, <1>7, <1>8 DEF Drawn, w

(* The technologies that a text cites, in an order or another.             *)
LEMMA AnyOrderIs ==
    ASSUME NEW S, IsFiniteSet(S)
    PROVE  IsList(AnyOrder(S)) /\ Range(AnyOrder(S)) = S
  <1> DEFINE n == Cardinality(S)
             o == AnyOrder(S)
  <1>1. n \in Nat
    BY FS_CardinalityType
  <1>2. PICK f \in Bijection(1..n, S) : TRUE
    BY FS_CardinalityType DEF ExistsBijection
  <1>3. f \in [1..n -> S] /\ \A x \in S : \E i \in DOMAIN f : f[i] = x
    BY <1>2 DEF Bijection, Surjection, Injection
  <1>4. o \in [1..n -> S] /\ \A x \in S : \E i \in DOMAIN o : o[i] = x
    BY <1>3 DEF AnyOrder
  <1> HIDE DEF o
  <1>5. o = [i \in 1..n |-> o[i]]
    BY <1>4
  <1>6. IsList(o)
    BY <1>1, <1>5, AList
  <1>7. Range(o) = S
    BY <1>4 DEF Range
  <1> QED
    BY <1>6, <1>7 DEF o

LEMMA CitedIs ==
    ASSUME NEW q, IsList(q.stack), IsFiniteSet(DOMAIN Terms)
    PROVE  IsList(Cited(q)) /\ Range(Cited(q)) = Range(q.stack) \cup TechsCited(q.text)
  <1> DEFINE T == TechsCited(q.text)
             a == AnyOrder(T)
             s == q.stack
             w == Cited(q)
  <1>1. IsFiniteSet(T)
    BY FS_Subset DEF TechsCited
  <1> HIDE DEF T
  <1>2. IsList(a) /\ Range(a) = T
    BY <1>1, AnyOrderIs
  <1>3. w = s \o a
    BY DEF Cited, T
  <1>4. /\ IsList(w) /\ DOMAIN w = 1..(Len(s) + Len(a))
        /\ \A i \in 1..(Len(s) + Len(a)) : w[i] = IF i <= Len(s) THEN s[i] ELSE a[i - Len(s)]
    BY <1>2, <1>3, ListsJoined
  <1>5. /\ Len(s) \in Nat /\ DOMAIN s = 1..Len(s)
        /\ Len(a) \in Nat /\ DOMAIN a = 1..Len(a)
    BY <1>2, ListFacts
  <1> HIDE DEF a, w, s
  <1>6. Range(w) \subseteq Range(s) \cup Range(a)
    <2> SUFFICES ASSUME NEW i \in DOMAIN w PROVE w[i] \in Range(s) \cup Range(a)
      BY DEF Range
    <2>1. CASE i <= Len(s)
      BY <1>4, <1>5, <2>1 DEF Range
    <2>2. CASE i > Len(s)
      <3>1. i - Len(s) \in DOMAIN a /\ w[i] = a[i - Len(s)]
        BY <1>4, <1>5, <2>2
      <3> QED
        BY <3>1 DEF Range
    <2> QED
      BY <1>4, <1>5, <2>1, <2>2
  <1>7. \A i \in DOMAIN s : s[i] \in Range(w)
    <2> TAKE i \in DOMAIN s
    <2>1. i \in DOMAIN w /\ w[i] = s[i]
      BY <1>4, <1>5
    <2> QED
      BY <2>1 DEF Range
  <1>8. \A i \in DOMAIN a : a[i] \in Range(w)
    <2> TAKE i \in DOMAIN a
    <2>1. Len(s) + i \in 1..(Len(s) + Len(a)) /\ ~(Len(s) + i <= Len(s)) /\ (Len(s) + i) - Len(s) = i
      BY <1>5
    <2>2. Len(s) + i \in DOMAIN w /\ w[Len(s) + i] = a[i]
      BY <1>4, <2>1
    <2> QED
      BY <2>2 DEF Range
  <1>9. Range(w) = Range(s) \cup Range(a)
    BY <1>6, <1>7, <1>8 DEF Range
  <1> QED
    BY <1>2, <1>4, <1>9 DEF s, w, T


LEMMA TechForIs ==
    ASSUME NEW term
    PROVE  /\ term \in DOMAIN Terms => TechFor(term) = {term}
           /\ TechFor(term) # {} =>
                \E t \in DOMAIN Terms : TechFor(term) = {t} /\ (t = term \/ term \in Terms[t])
  <1> DEFINE of == {t \in DOMAIN Terms : term \in Terms[t]}
  <1>1. CASE term \in DOMAIN Terms
    BY <1>1 DEF TechFor
  <1>2. CASE term \notin DOMAIN Terms /\ of # {}
    <2>1. (CHOOSE t \in of : TRUE) \in of
      BY <1>2
    <2>2. TechFor(term) = {CHOOSE t \in of : TRUE}
      BY <1>2 DEF TechFor
    <2> QED
      BY <1>2, <2>1, <2>2
  <1>3. CASE term \notin DOMAIN Terms /\ of = {}
    BY <1>3 DEF TechFor
  <1> QED
    BY <1>1, <1>2, <1>3

(* What stands for a name among the keywords.                              *)
Shown(name, q) ==
    LET tech == TechFor(Key(name, q.aliases))
    IN  IF tech = {} THEN name ELSE CHOOSE t \in tech : TRUE

LEMMA TechIsItself ==
    ASSUME NEW q, Unified(q), NEW t \in DOMAIN Terms
    PROVE  TechFor(Key(t, q.aliases)) = {t} /\ Class(t, q) = {t}
  <1>1. TechFor(Key(t, q.aliases)) = {t}
    BY DEF Unified
  <1> QED
    BY <1>1 DEF Class

LEMMA ShownIs ==
    ASSUME NEW q, Unified(q), NEW name
    PROVE  /\ Class(Shown(name, q), q) = Class(name, q)
           /\ \/ Shown(name, q) \in DOMAIN Terms
              \/ TechFor(Key(Shown(name, q), q.aliases)) = {}
  <1>1. CASE TechFor(Key(name, q.aliases)) = {}
    BY <1>1 DEF Shown
  <1>2. CASE TechFor(Key(name, q.aliases)) # {}
    <2>1. PICK t \in DOMAIN Terms : TechFor(Key(name, q.aliases)) = {t}
      BY <1>2, TechForIs
    <2>2. Shown(name, q) = t
      BY <2>1 DEF Shown
    <2>3. Class(name, q) = {t}
      BY <2>1 DEF Class
    <2> QED
      BY <2>2, <2>3, TechIsItself
  <1> QED
    BY <1>1, <1>2

(* Names of the same class are the same to the profile, when the spellings *)
(* of their technology are.                                                *)
LEMMA SameKey ==
    ASSUME NEW q, Unified(q), NEW w, NEW x,
           Class(x, q) = Class(w, q),
           x \in DOMAIN Terms \/ TechFor(Key(x, q.aliases)) = {},
           \A t \in Class(w, q) \cap DOMAIN Terms :
              \A v \in Terms[t] : Key(v, q.aliases) = Key(t, q.aliases)
    PROVE  Key(w, q.aliases) = Key(x, q.aliases)
  <1> DEFINE k == Key(w, q.aliases)
             l == Key(x, q.aliases)
  <1>1. Key(k, q.aliases) = k
    <2>1. CASE w \in DOMAIN q.aliases
      BY <2>1 DEF Unified, Key
    <2>2. CASE w \notin DOMAIN q.aliases
      BY <2>2 DEF Key
    <2> QED
      BY <2>1, <2>2
  <1>2. CASE x \in DOMAIN Terms
    <2>1. Class(w, q) = {x}
      BY <1>2, TechIsItself
    <2>2. TechFor(k) # {}
      <3> SUFFICES ASSUME TechFor(k) = {} PROVE FALSE
        OBVIOUS
      <3>1. k = x
        BY <2>1 DEF Class
      <3> QED
        BY <1>2, <3>1, TechForIs
    <2>3. TechFor(k) = {x}
      BY <2>1, <2>2 DEF Class
    <2>4. k = x \/ k \in Terms[x]
      BY <2>2, <2>3, TechForIs
    <2>5. Key(k, q.aliases) = l
      BY <1>2, <2>1, <2>4
    <2> QED
      BY <1>1, <2>5
  <1>3. CASE TechFor(l) = {}
    <2>1. Class(w, q) = {l}
      BY <1>3 DEF Class
    <2>2. TechFor(k) = {}
      <3> SUFFICES ASSUME TechFor(k) # {} PROVE FALSE
        OBVIOUS
      <3>1. TechFor(k) = {l}
        BY <2>1 DEF Class
      <3>2. l \in DOMAIN Terms
        BY <3>1, TechForIs
      <3> QED
        BY <1>3, <3>2, TechForIs
    <2> QED
      BY <2>1, <2>2 DEF Class
  <1> QED
    BY <1>2, <1>3

(* The names whose first comes first of their class stand for all that the *)
(* job asks for.                                                           *)
LEMMA FirstsStand ==
    ASSUME NEW q, IsList(q.stack), IsFiniteSet(DOMAIN Terms), <<>> \notin DOMAIN Terms, Unified(q)
    PROVE  LET asked == (Range(q.stack) \ {<<>>}) \cup TechsCited(q.text)
               names == Cited(q)
           IN  /\ FirstCited(q) \in SUBSET DOMAIN names
               /\ \A i \in FirstCited(q) : names[i] \in asked
               /\ \A w \in asked : \E i \in FirstCited(q) : Class(names[i], q) = Class(w, q)
               /\ \A i, k \in FirstCited(q) : Class(names[i], q) = Class(names[k], q) => i = k
  <1> DEFINE asked == (Range(q.stack) \ {<<>>}) \cup TechsCited(q.text)
             names == Cited(q)
             named == {i \in DOMAIN names : Key(names[i], q.aliases) # <<>>}
             F == FirstCited(q)
  <1>1. /\ DOMAIN names \in SUBSET Nat
        /\ Range(names) = Range(q.stack) \cup TechsCited(q.text)
    BY CitedIs, FiniteDomain
  <1>2. F = {i \in named : \A k \in named : k < i => Class(names[k], q) # Class(names[i], q)}
    BY DEF FirstCited
  <1>3. \A w : w # <<>> => Key(w, q.aliases) # <<>>
    BY DEF Unified, Key
  <1>4. Key(<<>>, q.aliases) = <<>>
    BY DEF Unified, Key
  <1>5. asked = Range(names) \ {<<>>}
    <2>1. <<>> \notin TechsCited(q.text)
      BY DEF TechsCited
    <2> QED
      BY <1>1, <2>1
  <1> HIDE DEF names, F, asked
  <1>6. \A i \in named : names[i] \in asked
    BY <1>4, <1>5 DEF Range
  <1>7. ASSUME NEW w \in asked
        PROVE  \E i \in F : Class(names[i], q) = Class(w, q)
    <2> DEFINE K == {k \in named : Class(names[k], q) = Class(w, q)}
    <2>1. PICK i \in DOMAIN names : names[i] = w
      BY <1>5 DEF Range
    <2>2. i \in K
      BY <1>3, <1>5, <2>1
    <2>3. K \in SUBSET Nat
      BY <1>1
    <2>4. PICK h \in K : \A k \in K : h <= k
      BY <2>2, <2>3, LeastNumber
    <2>5. ASSUME NEW k \in named, k < h PROVE Class(names[k], q) # Class(names[h], q)
      <3> SUFFICES ASSUME Class(names[k], q) = Class(names[h], q) PROVE FALSE
        OBVIOUS
      <3>1. k \in K
        OBVIOUS
      <3>2. h <= k /\ h \in Nat /\ k \in Nat
        BY <2>3, <2>4, <3>1
      <3> QED
        BY <2>5, <3>2
    <2> QED
      BY <1>2, <2>4, <2>5
  <1>8. ASSUME NEW i \in F, NEW k \in F, Class(names[i], q) = Class(names[k], q)
        PROVE  i = k
    <2>1. i \in named /\ k \in named /\ i \in Nat /\ k \in Nat
      BY <1>1, <1>2
    <2>2. ~(i < k) /\ ~(k < i)
      BY <1>2, <1>8, <2>1
    <2> QED
      BY <2>1, <2>2
  <1>9. F \in SUBSET DOMAIN names /\ \A i \in F : names[i] \in asked
    BY <1>2, <1>6
  <1> QED
    BY <1>7, <1>8, <1>9 DEF names, F, asked


LEMMA PartsAreWhole ==
    ASSUME NEW s, IsList(s), NEW I \in SUBSET DOMAIN s, NEW J \in SUBSET DOMAIN s, NEW K \in SUBSET DOMAIN s,
           I \cap J = {}, (I \cup J) \cap K = {}, I \cup J \cup K = DOMAIN s
    PROVE  Drawn(Picked(s, I) \o Picked(s, J) \o Picked(s, K), s, DOMAIN s)
  <1>1. Drawn(Picked(s, I), s, I) /\ Drawn(Picked(s, J), s, J) /\ Drawn(Picked(s, K), s, K)
    BY PickedIsDrawn
  <1>2. Drawn(Picked(s, I) \o Picked(s, J), s, I \cup J)
    BY <1>1, DrawnJoined
  <1> DEFINE u == Picked(s, I) \o Picked(s, J)
             v == Picked(s, K)
             IJ == I \cup J
  <1>3. Drawn(u, s, IJ) /\ Drawn(v, s, K) /\ IJ \cap K = {}
    BY <1>1, <1>2
  <1> HIDE DEF u, v, IJ
  <1>4. Drawn(u \o v, s, IJ \cup K)
    BY <1>3, DrawnJoined
  <1> QED
    BY <1>4 DEF u, v, IJ

(* The keywords of a job.                                                  *)
IsCited(q) ==
    [i \in DOMAIN KeywordTerms(q) |-> InText(LatestResumeText(q), KeywordTerms(q)[i], q.aliases)]
IsKnown(q) ==
    [i \in DOMAIN KeywordTerms(q) |-> Best(Key(KeywordTerms(q)[i], q.aliases), q) > 0]

LEMMA TermsAre ==
    ASSUME NEW q, IsList(q.stack), IsFiniteSet(DOMAIN Terms), <<>> \notin DOMAIN Terms, Unified(q)
    PROVE  LET asked == (Range(q.stack) \ {<<>>}) \cup TechsCited(q.text)
               terms == KeywordTerms(q)
           IN  /\ IsList(terms)
               /\ \A k \in DOMAIN terms :
                     /\ \E w \in asked : Class(terms[k], q) = Class(w, q)
                     /\ terms[k] \in DOMAIN Terms \/ TechFor(Key(terms[k], q.aliases)) = {}
               /\ \A w \in asked : \E k \in DOMAIN terms : Class(terms[k], q) = Class(w, q)
               /\ \A j, k \in DOMAIN terms : Class(terms[j], q) = Class(terms[k], q) => j = k
  <1> DEFINE asked == (Range(q.stack) \ {<<>>}) \cup TechsCited(q.text)
             names == Cited(q)
             F == FirstCited(q)
             s == [i \in DOMAIN names |-> Shown(names[i], q)]
             terms == KeywordTerms(q)
  <1>1. /\ F \in SUBSET DOMAIN names
        /\ \A i \in F : names[i] \in asked
        /\ \A w \in asked : \E i \in F : Class(names[i], q) = Class(w, q)
        /\ \A i, k \in F : Class(names[i], q) = Class(names[k], q) => i = k
    BY FirstsStand
  <1>2. terms = Picked(s, F)
    BY DEF KeywordTerms, Shown
  <1>3. IsList(names)
    BY CitedIs
  <1>4. IsList(s) /\ DOMAIN s = DOMAIN names
    <2>1. DOMAIN s = DOMAIN names /\ s = [i \in DOMAIN s |-> s[i]]
      OBVIOUS
    <2> HIDE DEF s, names
    <2> QED
      BY <1>3, <2>1, MappedIsList
  <1>5. \A i \in DOMAIN names : s[i] = Shown(names[i], q)
    OBVIOUS
  <1> HIDE DEF s, F, names, terms, asked
  <1>6. Drawn(terms, s, F)
    BY <1>1, <1>2, <1>4, PickedIsDrawn
  <1>7. \A i \in F : /\ Class(s[i], q) = Class(names[i], q)
                     /\ s[i] \in DOMAIN Terms \/ TechFor(Key(s[i], q.aliases)) = {}
    BY <1>1, <1>5, ShownIs
  <1>8. \A j, k \in DOMAIN terms : Class(terms[j], q) = Class(terms[k], q) => j = k
    <2> SUFFICES ASSUME NEW j \in DOMAIN terms, NEW k \in DOMAIN terms, j # k,
                        Class(terms[j], q) = Class(terms[k], q)
                 PROVE  FALSE
      OBVIOUS
    <2>1. PICK x \in F, y \in F : x # y /\ terms[j] = s[x] /\ terms[k] = s[y]
      BY <1>6 DEF Drawn
    <2> QED
      BY <1>1, <1>7, <2>1
  <1>9. \A k \in DOMAIN terms :
            /\ \E w \in asked : Class(terms[k], q) = Class(w, q)
            /\ terms[k] \in DOMAIN Terms \/ TechFor(Key(terms[k], q.aliases)) = {}
    <2> TAKE k \in DOMAIN terms
    <2>1. PICK x \in F : terms[k] = s[x]
      BY <1>6 DEF Drawn
    <2> QED
      BY <1>1, <1>7, <2>1
  <1>10. ASSUME NEW w \in asked
         PROVE  \E k \in DOMAIN terms : Class(terms[k], q) = Class(w, q)
    <2>1. PICK i \in F : Class(names[i], q) = Class(w, q)
      BY <1>1
    <2>2. PICK k \in DOMAIN terms : terms[k] = s[i]
      BY <1>6 DEF Drawn
    <2> QED
      BY <1>7, <2>1, <2>2
  <1>11. IsList(terms)
    BY <1>6 DEF Drawn
  <1> QED
    BY <1>8, <1>9, <1>10, <1>11 DEF terms, asked

LEMMA KeywordsAre ==
    ASSUME NEW q, IsList(KeywordTerms(q))
    PROVE  LET terms == KeywordTerms(q)
               all == Keywords(q)
           IN  /\ Drawn(all.inResume \o all.missing \o all.notInProfile, terms, DOMAIN terms)
               /\ \A x \in Range(all.notInProfile) :
                     \E k \in DOMAIN terms : x = terms[k] /\ Best(Key(x, q.aliases), q) = 0
  <1> DEFINE terms == KeywordTerms(q)
             c == IsCited(q)
             b == IsKnown(q)
             d == [i \in DOMAIN terms |-> ~c[i] /\ b[i]]
             e == [i \in DOMAIN terms |-> ~c[i] /\ ~b[i]]
             I == {i \in DOMAIN terms : c[i]}
             J == {i \in DOMAIN terms : d[i]}
             K == {i \in DOMAIN terms : e[i]}
             all == Keywords(q)
  <1>1. all = [inResume |-> ThoseWith(terms, c), missing |-> ThoseWith(terms, d),
               notInProfile |-> ThoseWith(terms, e)]
    BY DEF Keywords, IsCited, IsKnown
  <1>2. /\ all.inResume = Picked(terms, I)
        /\ all.missing = Picked(terms, J)
        /\ all.notInProfile = Picked(terms, K)
    BY <1>1 DEF ThoseWith
  <1>3. /\ \A i \in DOMAIN terms : i \in J <=> ~(i \in I) /\ b[i]
        /\ \A i \in DOMAIN terms : i \in K <=> ~(i \in I) /\ ~b[i]
    OBVIOUS
  <1>4. /\ I \in SUBSET DOMAIN terms /\ J \in SUBSET DOMAIN terms /\ K \in SUBSET DOMAIN terms
        /\ I \cap J = {} /\ (I \cup J) \cap K = {} /\ I \cup J \cup K = DOMAIN terms
    <2>1. /\ \A i \in I : i \in DOMAIN terms
          /\ \A i \in J : i \in DOMAIN terms
          /\ \A i \in K : i \in DOMAIN terms
      OBVIOUS
    <2> HIDE DEF I, J, K, c, b, d, e, terms
    <2> QED
      BY <1>3, <2>1
  <1>5. \A k \in K : Best(Key(terms[k], q.aliases), q) = 0
    <2> TAKE k \in K
    <2>1. k \in DOMAIN terms /\ ~b[k]
      OBVIOUS
    <2>2. ~(Best(Key(terms[k], q.aliases), q) > 0)
      BY <2>1 DEF IsKnown
    <2> QED
      BY <2>2, BestIs
  <1> HIDE DEF I, J, K, c, b, d, e, terms, all
  <1>6. IsList(terms)
    BY DEF terms
  <1>7. Drawn(all.inResume \o all.missing \o all.notInProfile, terms, DOMAIN terms)
    BY <1>2, <1>4, <1>6, PartsAreWhole
  <1>8. ASSUME NEW x \in Range(all.notInProfile)
        PROVE  \E k \in DOMAIN terms : x = terms[k] /\ Best(Key(x, q.aliases), q) = 0
    <2>1. Drawn(Picked(terms, K), terms, K)
      BY <1>4, <1>6, PickedIsDrawn
    <2>2. PICK n \in DOMAIN Picked(terms, K) : x = Picked(terms, K)[n]
      BY <1>2 DEF Range
    <2>3. PICK k \in K : x = terms[k]
      BY <2>1, <2>2 DEF Drawn
    <2> QED
      BY <1>4, <1>5, <2>3
  <1> QED
    BY <1>7, <1>8 DEF terms, all


LEMMA NothingWithoutResume ==
    ASSUME NEW q, q.resume = <<>>
    PROVE  Keywords(q).inResume = <<>>
  <1> DEFINE terms == KeywordTerms(q)
             c == IsCited(q)
             I == {i \in DOMAIN terms : c[i]}
  <1>1. LatestResumeText(q) = {}
    BY DEF LatestResumeText
  <1>2. TechsCited({}) = {}
    BY DEF TechsCited
  <1>3. ASSUME NEW term PROVE ~InText({}, term, q.aliases)
    BY <1>2 DEF InText
  <1>4. I = {}
    <2> SUFFICES ASSUME NEW i \in DOMAIN terms, c[i] PROVE FALSE
      OBVIOUS
    <2>1. InText(LatestResumeText(q), terms[i], q.aliases)
      BY DEF IsCited
    <2> QED
      BY <1>1, <1>3, <2>1
  <1>5. Keywords(q).inResume = Picked(terms, I)
    BY DEF Keywords, IsCited, ThoseWith
  <1>6. Picked(terms, {}) = <<>>
    <2>1. Cardinality({}) = 0
      BY FS_EmptySet
    <2> QED
      BY <2>1 DEF Picked
  <1> HIDE DEF I, terms
  <1> QED
    BY <1>4, <1>5, <1>6

LEMMA KeywordsRight ==
    ASSUME NEW q, IsList(q.stack), IsFiniteSet(DOMAIN Terms), <<>> \notin DOMAIN Terms
    PROVE  KeywordsOf(q, Keywords(q))
  <1> DEFINE lists == Keywords(q)
             flat == lists.inResume \o lists.missing \o lists.notInProfile
             asked == (Range(q.stack) \ {<<>>}) \cup TechsCited(q.text)
             spelled(w) == \A t \in Class(w, q) \cap DOMAIN Terms :
                              \A v \in Terms[t] : Key(v, q.aliases) = Key(t, q.aliases)
             terms == KeywordTerms(q)
  <1>1. q.resume = <<>> => lists.inResume = <<>>
    BY NothingWithoutResume
  <1>2. ASSUME Unified(q)
        PROVE  /\ {Class(w, q) : w \in asked} = {Class(w, q) : w \in Range(flat)}
               /\ \A i, k \in DOMAIN flat : Class(flat[i], q) = Class(flat[k], q) => i = k
               /\ \A w \in asked :
                     spelled(w) /\ Best(Key(w, q.aliases), q) > 0 =>
                         Class(w, q) \notin {Class(x, q) : x \in Range(lists.notInProfile)}
    <2>1. /\ IsList(terms)
          /\ \A k \in DOMAIN terms :
                /\ \E w \in asked : Class(terms[k], q) = Class(w, q)
                /\ terms[k] \in DOMAIN Terms \/ TechFor(Key(terms[k], q.aliases)) = {}
          /\ \A w \in asked : \E k \in DOMAIN terms : Class(terms[k], q) = Class(w, q)
          /\ \A j, k \in DOMAIN terms : Class(terms[j], q) = Class(terms[k], q) => j = k
      BY <1>2, TermsAre
    <2>2. /\ Drawn(flat, terms, DOMAIN terms)
          /\ \A x \in Range(lists.notInProfile) :
                \E k \in DOMAIN terms : x = terms[k] /\ Best(Key(x, q.aliases), q) = 0
      BY <2>1, KeywordsAre
    <2> HIDE DEF flat, terms, lists, asked
    <2>3. ASSUME NEW w \in asked PROVE \E x \in Range(flat) : Class(w, q) = Class(x, q)
      <3>1. PICK k \in DOMAIN terms : Class(terms[k], q) = Class(w, q)
        BY <2>1
      <3>2. PICK n \in DOMAIN flat : flat[n] = terms[k]
        BY <2>2 DEF Drawn
      <3> QED
        BY <3>1, <3>2 DEF Range
    <2>4. ASSUME NEW x \in Range(flat) PROVE \E w \in asked : Class(x, q) = Class(w, q)
      <3>1. PICK n \in DOMAIN flat : x = flat[n]
        BY DEF Range
      <3>2. PICK k \in DOMAIN terms : flat[n] = terms[k]
        BY <2>2 DEF Drawn
      <3> QED
        BY <2>1, <3>1, <3>2
    <2>5. {Class(w, q) : w \in asked} = {Class(w, q) : w \in Range(flat)}
      BY <2>3, <2>4
    <2>6. \A i, k \in DOMAIN flat : Class(flat[i], q) = Class(flat[k], q) => i = k
      <3> SUFFICES ASSUME NEW i \in DOMAIN flat, NEW k \in DOMAIN flat, i # k,
                          Class(flat[i], q) = Class(flat[k], q)
                   PROVE  FALSE
        OBVIOUS
      <3>1. PICK x \in DOMAIN terms, y \in DOMAIN terms : x # y /\ flat[i] = terms[x] /\ flat[k] = terms[y]
        BY <2>2 DEF Drawn
      <3> QED
        BY <2>1, <3>1
    <2>7. ASSUME NEW w \in asked, spelled(w), Best(Key(w, q.aliases), q) > 0,
                 NEW x \in Range(lists.notInProfile), Class(x, q) = Class(w, q)
          PROVE  FALSE
      <3>1. PICK k \in DOMAIN terms : x = terms[k] /\ Best(Key(x, q.aliases), q) = 0
        BY <2>2
      <3>2. x \in DOMAIN Terms \/ TechFor(Key(x, q.aliases)) = {}
        BY <2>1, <3>1
      <3>3. Key(w, q.aliases) = Key(x, q.aliases)
        BY <1>2, <2>7, <3>2, SameKey
      <3> QED
        BY <2>7, <3>1, <3>3
    <2>8. \A w \in asked :
             spelled(w) /\ Best(Key(w, q.aliases), q) > 0 =>
                 Class(w, q) \notin {Class(x, q) : x \in Range(lists.notInProfile)}
      BY <2>7
    <2> QED
      BY <2>5, <2>6, <2>8
  <1> QED
    BY <1>1, <1>2 DEF KeywordsOf


(* What is asked is an input of the instance, and what is answered is what *)
(* its handler computes from it.                                           *)
Asked ==
    \/ \E q \in Stacks : search = [about |-> "fit", q |-> q]
    \/ \E q \in Searches : search = [about |-> "posts", q |-> q]
    \/ \E q \in JobPages : search = [about |-> "jobs", q |-> q]
    \/ \E q \in Postings : search = [about |-> "job", q |-> q]

Computed ==
    /\ answer.about = "fit" => search.about = "fit" /\ answer.fit = Fit(search.q.stack, search.q)
    /\ answer.about = "posts" =>
          /\ search.about = "posts" /\ answer.jobs = Ranked(OnList(search.q))
          /\ answer.facets = Facets(answer.jobs, search.q) /\ answer.hidden = Hidden(search.q)
    /\ answer.about = "jobs" =>
          /\ search.about = "jobs"
          /\ answer.page = JobsOfPage(ByFit(search.q), search.q.gone, search.q.cursor, search.q.size)
          /\ answer.jobs = AfterLooking(search.q, answer.page)
    /\ answer.about = "job" => search.about = "job" /\ answer.keywords = Keywords(search.q)

ListsInv == Asked /\ Computed

LEMMA ListsStep == ListsInv /\ [ListsNext]_listsVars => ListsInv'
  <1> SUFFICES ASSUME ListsInv, [ListsNext]_listsVars PROVE ListsInv'
    OBVIOUS
  <1>1. CASE UNCHANGED listsVars
    BY <1>1 DEF ListsInv, Asked, Computed, listsVars
  <1>2. CASE ListsNext
    <2>1. search' = search
      BY <1>2 DEF ListsNext, Evaluate, ListDiscovered, ListJobs, GetJob, Looks
    <2>2. Asked'
      BY <2>1 DEF ListsInv, Asked
    <2>3. CASE Evaluate
      <3>1. /\ search.about = "fit"
            /\ answer' = [about |-> "fit", fit |-> Fit(search.q.stack, search.q)]
        BY <2>3 DEF Evaluate, Looks
      <3>2. answer'.about = "fit" /\ answer'.fit = Fit(search.q.stack, search.q)
        BY <3>1
      <3> QED
        BY <2>1, <2>2, <3>1, <3>2 DEF ListsInv, Computed
    <2>4. CASE ListDiscovered
      <3>1. /\ search.about = "posts"
            /\ answer'.about = "posts" /\ answer'.jobs = Ranked(OnList(search.q))
            /\ answer'.facets = Facets(answer'.jobs, search.q) /\ answer'.hidden = Hidden(search.q)
        BY <2>4 DEF ListDiscovered, Looks
      <3> QED
        BY <2>1, <2>2, <3>1 DEF ListsInv, Computed
    <2>5. CASE ListJobs
      <3>1. /\ search.about = "jobs" /\ answer'.about = "jobs"
            /\ answer'.page = JobsOfPage(ByFit(search.q), search.q.gone, search.q.cursor, search.q.size)
            /\ answer'.jobs = AfterLooking(search.q, answer'.page)
        BY <2>5 DEF ListJobs, Looks
      <3> QED
        BY <2>1, <2>2, <3>1 DEF ListsInv, Computed
    <2>6. CASE GetJob
      <3>1. search.about = "job" /\ answer'.about = "job" /\ answer'.keywords = Keywords(search.q)
        BY <2>6 DEF GetJob, Looks
      <3> QED
        BY <2>1, <2>2, <3>1 DEF ListsInv, Computed
    <2> QED
      BY <1>2, <2>3, <2>4, <2>5, <2>6 DEF ListsNext
  <1> QED
    BY <1>1, <1>2

LEMMA ListsAreRight == ListsInv => AnswersAreRight
  <1> SUFFICES ASSUME ListsInv PROVE AnswersAreRight
    OBVIOUS
  <1>1. ASSUME answer.about = "fit" PROVE LackingNeverHelps
    <2>1. PICK q \in Stacks : search = [about |-> "fit", q |-> q]
      BY <1>1 DEF ListsInv, Asked, Computed
    <2>2. search.q = q
      BY <2>1
    <2> QED
      BY <1>1, <2>2, FitsAreTrue DEF ListsInv, Computed
  <1>2. ASSUME answer.about = "posts" PROVE NothingIsLost /\ FacetsForetell /\ WideningKeeps
    <2>1. PICK q \in Searches : search = [about |-> "posts", q |-> q]
      BY <1>2 DEF ListsInv, Asked, Computed
    <2>2. search.q = q
      BY <2>1
    <2> DEFINE jobs == Ranked(OnList(q))
    <2>3. answer.jobs = jobs /\ answer.facets = Facets(jobs, q) /\ answer.hidden = Hidden(q)
      BY <1>2, <2>2 DEF ListsInv, Computed
    <2>4. NothingIsLost
      BY <2>2, <2>3, NothingLost
    <2>5. IsList(jobs) /\ \A n \in DOMAIN jobs : \E i \in OnView(q) : jobs[n] = JobAt(q, i)
      <3> DEFINE Placed(seat) == /\ seat \in [DOMAIN jobs -> OnView(q)]
                                 /\ \A n \in DOMAIN jobs : jobs[n] = JobAt(q, seat[n])
      <3>1. IsList(jobs) /\ \E seat : Placed(seat)
        BY ShownJobs
      <3>2. PICK seat : Placed(seat)
        BY <3>1
      <3> HIDE DEF jobs
      <3> QED
        BY <3>1, <3>2
    <2>6. \A n \in DOMAIN jobs : jobs[n].post.levels \subseteq {"junior", "mid", "senior"}
      <3> SUFFICES ASSUME NEW n \in DOMAIN jobs
                   PROVE  jobs[n].post.levels \subseteq {"junior", "mid", "senior"}
        OBVIOUS
      <3>1. PICK i \in OnView(q) : jobs[n] = JobAt(q, i)
        BY <2>5
      <3>2. i \in DOMAIN q.posts
        BY DEF OnView, Heads, Listable
      <3>3. q.posts[i] \in Range(q.posts)
        BY <3>2 DEF Range
      <3>4. jobs[n].post = q.posts[i]
        BY <3>1 DEF JobAt
      <3> QED
        BY <3>3, <3>4, ListsAssumption
    <2> HIDE DEF jobs
    <2>7. FacetsForetell
      BY <2>2, <2>3, <2>5, <2>6, FacetsAreTrue
    <2>8. WideningKeeps
      BY <2>2, <2>3, <2>5, WideningIsSafe
    <2> QED
      BY <2>4, <2>7, <2>8
  <1>3. ASSUME answer.about = "jobs" PROVE PagesAreTrue
    <2>1. PICK q \in JobPages : search = [about |-> "jobs", q |-> q]
      BY <1>3 DEF ListsInv, Asked, Computed
    <2>2. search.q = q
      BY <2>1
    <2>3. /\ answer.page = JobsOfPage(ByFit(q), q.gone, q.cursor, q.size)
          /\ answer.jobs = AfterLooking(q, answer.page)
      BY <1>3, <2>2 DEF ListsInv, Computed
    <2> QED
      BY <2>2, <2>3, PagesRight
  <1>4. ASSUME answer.about = "job" PROVE KeywordsAreTrue
    <2>1. PICK q \in Postings : search = [about |-> "job", q |-> q]
      BY <1>4 DEF ListsInv, Asked, Computed
    <2>2. search.q = q
      BY <2>1
    <2>3. answer.keywords = Keywords(q)
      BY <1>4, <2>2 DEF ListsInv, Computed
    <2>4. KeywordsOf(q, Keywords(q))
      BY ListsAssumption, KeywordsRight
    <2> QED
      BY <2>2, <2>3, <2>4 DEF KeywordsAreTrue
  <1> QED
    BY <1>1, <1>2, <1>3, <1>4 DEF AnswersAreRight

(* The fits, the lists and the keywords are what their comments promise,   *)
(* for every job, profile, filter and page.                                *)
THEOREM AnswersAreRightHolds == ListsSpec => []AnswersAreRight
  <1>1. ListsInit => ListsInv
    BY DEF ListsInit, Unanswered, ListsInv, Asked, Computed
  <1>2. ListsInv /\ [ListsNext]_listsVars => ListsInv'
    BY ListsStep
  <1>3. ListsInv => AnswersAreRight
    BY ListsAreRight
  <1> QED
    BY <1>1, <1>2, <1>3, PTL DEF ListsSpec
=============================================================================
